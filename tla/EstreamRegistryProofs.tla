------------------------ MODULE EstreamRegistryProofs ------------------------
(***************************************************************************)
(* Proofs about EstreamRegistry.  For any number of threads and addresses: *)
(* the type invariant, and that an object lives as long as its stream.     *)
(* For one thread, since the locks of the code do nothing: that no list    *)
(* entry or stream is used after it was freed, that the list is sound, the *)
(* standard streams unique and all streams flushed at exit.                *)
(***************************************************************************)
EXTENDS EstreamRegistry, FiniteSetTheorems, TLAPS

(* Between creating a stream and the end of the call, and from the start   *)
(* of es_fclose, a thread has a stream nobody else touches.                *)
Holders == {"es_list_add", "add_prev", "add_head", "standard", "es_list_remove",
            "unlink", "unlink_next", "es_deinitialize"}

(* The steps that have an entry in hand which is not in the list.          *)
Movers == {"add_prev", "add_head", "unlink_next"}

ThreadInv ==
  \A t \in Threads :
    /\ pc[t] \in Holders =>
         this[t] \in Streams /\ stream[this[t]].live /\ stream[this[t]].owner = t
    /\ pc[t] = "es_list_add" => cookie[t] = stream[this[t]].cookie
    /\ pc[t] \in Movers \cup {"unlink", "advance"} => cur[t] \in Nodes

(* Live streams and objects that were made and not freed correspond.       *)
ObjectInv ==
  /\ \A s \in Streams : stream[s].live =>
       /\ stream[s].cookie \in Objects
       /\ object[stream[s].cookie].made = 1 /\ object[stream[s].cookie].freed = 0
  /\ \A r, s \in Streams :
       stream[r].live /\ stream[s].live /\ stream[r].cookie = stream[s].cookie => r = s
  /\ \A o \in Objects : object[o].made = 1 /\ object[o].freed = 0 =>
       \E s \in Streams : stream[s].live /\ stream[s].cookie = o
  /\ \A o \in Objects :
       /\ object[o].freed <= object[o].made
       /\ object[o].closed <=> object[o].freed = 1 /\ object[o].kind = "fd"

(* The inductive invariant for any number of threads.  The double free of  *)
(* EntryFails ends the process in the middle of es_list_add.               *)
LifeInv ==
  /\ TypeOK
  /\ state = "freed twice" => \E t \in Threads : pc[t] = "es_list_add"
  /\ state # "freed twice" => ThreadInv /\ ObjectInv

(* A step that starts no creation and no closing, and leaves the streams   *)
(* and objects alone.                                                      *)
LEMMA QuietStepLives ==
  ASSUME LifeInv, TypeOK', state # "freed twice", state' # "freed twice", UNCHANGED object,
         \A s \in Streams : /\ stream'[s].live <=> stream[s].live
                            /\ stream'[s].cookie = stream[s].cookie
                            /\ stream'[s].owner = stream[s].owner,
         \A t \in Threads : \/ pc'[t] \notin Holders
                            \/ pc[t] \in Holders /\ this'[t] = this[t]
                            \/ /\ pc'[t] = "es_list_remove" /\ this'[t] \in Streams
                               /\ stream[this'[t]].live /\ stream[this'[t]].owner = t,
         \A t \in Threads : pc'[t] = "es_list_add" =>
                              pc[t] = "es_list_add" /\ UNCHANGED <<cookie[t], this[t]>>,
         \A t \in Threads : pc'[t] \in Movers \cup {"unlink", "advance"} => cur'[t] \in Nodes
  PROVE  LifeInv'
<1>1. ThreadInv /\ ObjectInv
  BY DEF LifeInv
<1>2. ThreadInv'
  <2> SUFFICES ASSUME NEW t \in Threads
               PROVE  /\ pc'[t] \in Holders => /\ this'[t] \in Streams /\ stream'[this'[t]].live
                                               /\ stream'[this'[t]].owner = t
                      /\ pc'[t] = "es_list_add" => cookie'[t] = stream'[this'[t]].cookie
    BY DEF ThreadInv
  <2>1. pc'[t] \in Holders => /\ this'[t] \in Streams /\ stream[this'[t]].live
                              /\ stream[this'[t]].owner = t
    BY <1>1 DEF ThreadInv
  <2>2. ASSUME pc'[t] = "es_list_add"
        PROVE  cookie'[t] = stream[this'[t]].cookie /\ pc'[t] \in Holders
    <3>1. pc[t] = "es_list_add" /\ cookie'[t] = cookie[t] /\ this'[t] = this[t]
      BY <2>2
    <3>2. cookie[t] = stream[this[t]].cookie
      BY <1>1, <3>1 DEF ThreadInv
    <3> QED BY <2>2, <3>1, <3>2 DEF Holders
  <2> QED BY <2>1, <2>2
<1>3. ObjectInv'
  <2>1. /\ \A s \in Streams : stream[s].live =>
             /\ stream[s].cookie \in Objects
             /\ object[stream[s].cookie].made = 1 /\ object[stream[s].cookie].freed = 0
        /\ \A r, s \in Streams :
             stream[r].live /\ stream[s].live /\ stream[r].cookie = stream[s].cookie => r = s
    BY <1>1 DEF ObjectInv
  <2>2. \A o \in Objects : object[o].made = 1 /\ object[o].freed = 0 =>
          \E s \in Streams : stream[s].live /\ stream[s].cookie = o
    BY <1>1 DEF ObjectInv
  <2>3. \A o \in Objects : /\ object[o].freed <= object[o].made
                           /\ object[o].closed <=> object[o].freed = 1 /\ object[o].kind = "fd"
    BY <1>1 DEF ObjectInv
  <2>4. \A o \in Objects : object'[o].made = 1 /\ object'[o].freed = 0 =>
          \E s \in Streams : stream'[s].live /\ stream'[s].cookie = o
    <3> TAKE o \in Objects
    <3> HAVE object'[o].made = 1 /\ object'[o].freed = 0
    <3>1. PICK s \in Streams : stream[s].live /\ stream[s].cookie = o
      BY <2>2
    <3>2. stream'[s].live /\ stream'[s].cookie = o
      BY <3>1
    <3> QED BY <3>2
  <2>5. \A s \in Streams : stream'[s].live =>
          /\ stream'[s].cookie \in Objects
          /\ object'[stream'[s].cookie].made = 1 /\ object'[stream'[s].cookie].freed = 0
    <3> TAKE s \in Streams
    <3> HAVE stream'[s].live
    <3>1. stream[s].live /\ stream'[s].cookie = stream[s].cookie
      OBVIOUS
    <3>2. /\ stream[s].cookie \in Objects
          /\ object[stream[s].cookie].made = 1 /\ object[stream[s].cookie].freed = 0
      BY <2>1, <3>1
    <3>3. object' = object
      OBVIOUS
    <3> QED BY <3>1, <3>2, <3>3
  <2>6. \A r, s \in Streams :
          stream'[r].live /\ stream'[s].live /\ stream'[r].cookie = stream'[s].cookie => r = s
    <3> TAKE r, s \in Streams
    <3> HAVE stream'[r].live /\ stream'[s].live /\ stream'[r].cookie = stream'[s].cookie
    <3>1. stream[r].live /\ stream[s].live /\ stream[r].cookie = stream[s].cookie
      OBVIOUS
    <3> QED BY <2>1, <3>1
  <2> QED BY <2>3, <2>4, <2>5, <2>6 DEF ObjectInv
<1> QED BY <1>2, <1>3 DEF LifeInv

LEMMA InitLife == Init => LifeInv
<1> SUFFICES ASSUME Init PROVE LifeInv
  OBVIOUS
<1>1. TypeOK
  <2>1. node \in [Nodes -> [live : BOOLEAN, car : Streams \cup {Null},
                            cdr : Nodes \cup {Null},
                            prev_cdr : Nodes \cup {"estream_list"}]]
    BY DEF Init, NoNode
  <2>2. stream \in [Streams -> [live : BOOLEAN, cookie : Objects \cup {Null},
                                std : -2 .. NoStd, owner : Threads \cup {Null},
                                writes : BOOLEAN, dirty : BOOLEAN, err : BOOLEAN]]
    BY DEF Init, NoStream, NoStd
  <2>3. object \in [Objects -> [made : 0 .. 1, freed : 0 .. 2, closed : BOOLEAN,
                                kind : {"none", "fd", "fp", "bucket"}]]
    BY DEF Init, NoObject
  <2>4. /\ pc \in [Threads -> Labels] /\ op \in [Threads -> Ops]
        /\ fd \in [Threads -> -2 .. NoStd]
    BY DEF Init, NoStd, Labels, Ops
  <2>5. /\ cur \in [Threads -> Nodes \cup {Null}] /\ this \in [Threads -> Streams \cup {Null}]
        /\ cookie \in [Threads -> Objects \cup {Null}]
    BY DEF Init
  <2> QED BY <2>1, <2>2, <2>3, <2>4, <2>5 DEF Init, TypeOK
<1>2. ThreadInv
  BY DEF Init, ThreadInv, Holders, Movers
<1>3. ObjectInv
  BY DEF Init, ObjectInv, NoStream, NoObject
<1> QED BY <1>1, <1>2, <1>3 DEF Init, LifeInv

-----------------------------------------------------------------------------
(* The type invariant.                                                     *)

(* Its part about the threads, and what entries and streams look like.     *)
ThreadTypes ==
  /\ pc \in [Threads -> Labels] /\ op \in [Threads -> Ops]
  /\ fd \in [Threads -> -2 .. NoStd]
  /\ cur \in [Threads -> Nodes \cup {Null}]
  /\ this \in [Threads -> Streams \cup {Null}]
  /\ cookie \in [Threads -> Objects \cup {Null}]
Entry == [live : BOOLEAN, car : Streams \cup {Null}, cdr : Nodes \cup {Null},
          prev_cdr : Nodes \cup {"estream_list"}]
StreamType == [live : BOOLEAN, cookie : Objects \cup {Null}, std : -2 .. NoStd,
               owner : Threads \cup {Null}, writes : BOOLEAN, dirty : BOOLEAN, err : BOOLEAN]
ObjectType == [made : 0 .. 1, freed : 0 .. 2, closed : BOOLEAN,
               kind : {"none", "fd", "fp", "bucket"}]
States == {"runs", "exits", "exited", "aborted", "broken", "freed twice"}

LEMMA TypeParts ==
  TypeOK <=> /\ estream_list \in Nodes \cup {Null} /\ node \in [Nodes -> Entry]
             /\ stream \in [Streams -> StreamType] /\ object \in [Objects -> ObjectType]
             /\ ThreadTypes /\ initialized \in BOOLEAN /\ state \in States
BY DEF TypeOK, Entry, StreamType, ObjectType, ThreadTypes, States

LEMMA TypePartsNext ==
  TypeOK' <=> /\ estream_list' \in Nodes \cup {Null} /\ node' \in [Nodes -> Entry]
              /\ stream' \in [Streams -> StreamType] /\ object' \in [Objects -> ObjectType]
              /\ ThreadTypes' /\ initialized' \in BOOLEAN /\ state' \in States
BY DEF TypeOK, Entry, StreamType, ObjectType, ThreadTypes, States

LEMMA ReturnTypes ==
  ASSUME ThreadTypes, NEW t \in Threads, Return(t)
  PROVE  ThreadTypes'
BY DEF ThreadTypes, Return, Goto, Look, NoStd, Labels, Ops

(* A thread goes on to another place, and to another entry.                *)
LEMMA MoveTypes ==
  ASSUME ThreadTypes, NEW t \in Threads, NEW where \in Labels, Goto(t, where) \/ UNCHANGED pc,
         NEW n \in Nodes \cup {Null}, Look(t, n) \/ UNCHANGED cur,
         UNCHANGED <<op, fd, this, cookie>>
  PROVE  ThreadTypes'
BY DEF ThreadTypes, Goto, Look

LEMMA StayTypes ==
  ASSUME ThreadTypes, UNCHANGED local
  PROVE  ThreadTypes'
BY DEF ThreadTypes, local

(* A call starts.                                                          *)
LEMMA BeginTypes ==
  ASSUME ThreadTypes, NEW t \in Threads, NEW f \in Ops, NEW d \in -2 .. NoStd,
         NEW where \in Labels, Begin(t, f, d, where),
         NEW n \in Nodes \cup {Null}, Look(t, n) \/ UNCHANGED cur,
         NEW s \in Streams \cup {Null}, this' = [this EXCEPT ![t] = s] \/ UNCHANGED this,
         UNCHANGED cookie
  PROVE  ThreadTypes'
BY DEF ThreadTypes, Begin, Goto, Look

LEMMA CallTypes ==
  ASSUME TypeOK, NEW t \in Threads,
         es_fdopen(t) \/ es_fclose(t) \/ es_init(t) \/ es_fflush_all(t) \/ exit(t)
           \/ \E d \in StdFds : _es_get_std_stream(t, d)
  PROVE  TypeOK'
<1> USE TypeParts, TypePartsNext
<1>0. /\ {"create", "es_list_remove", "visit", "find"} \subseteq Labels
      /\ {"es_fdopen", "es_fclose", "es_fflush", "es_deinit", "_es_get_std_stream"} \subseteq Ops
      /\ NoStd \in -2 .. NoStd
  BY DEF Labels, Ops, NoStd
<1>1. CASE es_fdopen(t)
  BY <1>0, <1>1, BeginTypes DEF es_fdopen
<1>2. CASE es_fclose(t)
  BY <1>0, <1>2, BeginTypes DEF es_fclose, Mine
<1>3. CASE es_init(t)
  BY <1>3, StayTypes DEF es_init
<1>4. CASE es_fflush_all(t)
  BY <1>0, <1>4, BeginTypes DEF es_fflush_all
<1>5. CASE exit(t)
  <2>1. CASE initialized
    BY <1>0, <1>5, <2>1, BeginTypes DEF exit, States
  <2>2. CASE ~ initialized
    BY <1>5, <2>2, StayTypes DEF exit, States, local
  <2> QED BY <2>1, <2>2
<1>6. CASE \E d \in StdFds : _es_get_std_stream(t, d)
  <2>1. PICK d \in StdFds : _es_get_std_stream(t, d)
    BY <1>6
  <2>2. d \in Int
    BY <2>1, ClientAssumption
  <2>3. Remainder(d) \in -2 .. NoStd
    BY <2>2 DEF Remainder, NoStd
  <2> QED BY <1>0, <2>1, <2>3, BeginTypes DEF _es_get_std_stream
<1> QED BY <1>1, <1>2, <1>3, <1>4, <1>5, <1>6

(* Flushing changes only what is not flushed and the error indicator.      *)
LEMMA FlushedStream ==
  ASSUME NEW s \in StreamType, NEW f \in Flushed(s)
  PROVE  /\ f \in StreamType /\ f.live = s.live /\ f.cookie = s.cookie /\ f.std = s.std
         /\ f.owner = s.owner /\ f.writes = s.writes /\ (s.err => f.err)
         /\ (f.dirty => f.err)
BY DEF Flushed, StreamType

LEMMA WalkTypes ==
  ASSUME TypeOK, NEW t \in Threads, find(t) \/ es_list_remove(t) \/ advance(t) \/ visit(t)
  PROVE  TypeOK'
<1> USE TypeParts, TypePartsNext
<1>0. /\ {"create", "es_deinitialize", "unlink", "visit", "advance"} \subseteq Labels
      /\ "broken" \in States /\ "exited" \in States /\ t \in Threads
      /\ cur[t] # Null => node[cur[t]].cdr \in Nodes \cup {Null}
  BY DEF Labels, States, Entry, ThreadTypes
<1>1. CASE find(t)
  BY <1>0, <1>1, MoveTypes, ReturnTypes, StayTypes DEF find, local
<1>2. CASE es_list_remove(t)
  <2>1. ThreadTypes'
    <3>1. CASE Goto(t, "es_deinitialize") /\ UNCHANGED cur
      BY <1>0, <1>2, <3>1, MoveTypes DEF es_list_remove
    <3>2. CASE Goto(t, "unlink") /\ UNCHANGED cur
      BY <1>0, <1>2, <3>2, MoveTypes DEF es_list_remove
    <3>3. CASE cur[t] \in Entries /\ Look(t, node[cur[t]].cdr) /\ UNCHANGED pc
      <4>1. node[cur[t]].cdr \in Nodes \cup {Null}
        BY <3>3 DEF Entries, Entry
      <4> QED BY <1>0, <1>2, <3>3, <4>1, MoveTypes DEF es_list_remove
    <3>4. CASE UNCHANGED <<pc, cur>>
      BY <1>2, <3>4, StayTypes DEF es_list_remove, local
    <3> QED BY <1>2, <3>1, <3>2, <3>3, <3>4 DEF es_list_remove
  <2> QED BY <1>0, <1>2, <2>1 DEF es_list_remove
<1>3. CASE advance(t)
  <2>1. ThreadTypes'
    <3>1. CASE cur[t] \in Entries /\ Look(t, node[cur[t]].cdr) /\ Goto(t, "visit")
      <4>1. node[cur[t]].cdr \in Nodes \cup {Null}
        BY <3>1 DEF Entries, Entry
      <4> QED BY <1>0, <1>3, <3>1, <4>1, MoveTypes DEF advance
    <3>2. CASE UNCHANGED <<pc, cur>>
      BY <1>3, <3>2, StayTypes DEF advance, local
    <3> QED BY <1>3, <3>1, <3>2 DEF advance
  <2> QED BY <1>0, <1>3, <2>1 DEF advance
<1>4. CASE visit(t)
  <2>1. ThreadTypes'
    BY <1>0, <1>4, MoveTypes, ReturnTypes, StayTypes DEF visit, local
  <2>2. stream' \in [Streams -> StreamType]
    <3>1. CASE UNCHANGED stream
      BY <3>1
    <3>2. CASE \E f \in Flushed(stream[node[cur[t]].car]) :
                 stream' = [stream EXCEPT ![node[cur[t]].car] = f]
      <4> DEFINE c == node[cur[t]].car
      <4>1. PICK f \in Flushed(stream[c]) : stream' = [stream EXCEPT ![c] = f]
        BY <3>2
      <4>2. c \in Streams => f \in StreamType
        BY FlushedStream
      <4> QED BY <4>1, <4>2
    <3> QED BY <1>4, <3>1, <3>2 DEF visit
  <2> QED BY <1>0, <1>4, <2>1, <2>2 DEF visit
<1> QED BY <1>1, <1>2, <1>3, <1>4

LEMMA ListTypes ==
  ASSUME TypeOK, NEW t \in Threads, ThreadInv,
         es_list_add(t) \/ add_prev(t) \/ add_head(t) \/ unlink(t) \/ unlink_next(t)
  PROVE  TypeOK'
<1> USE TypeParts, TypePartsNext
<1>0. /\ {"add_prev", "add_head", "standard", "unlink_next", "es_deinitialize"} \subseteq Labels
      /\ "broken" \in States /\ t \in Threads /\ this[t] \in Streams \cup {Null}
      /\ pc[t] \in Movers \cup {"unlink"} => cur[t] \in Nodes
  BY DEF Labels, States, ThreadTypes, ThreadInv
<1>1. CASE es_list_add(t)
  <2>1. PICK n \in Nodes :
          /\ node' = [node EXCEPT ![n] = [live |-> TRUE, car |-> this[t], cdr |-> estream_list,
                                         prev_cdr |-> "estream_list"]]
          /\ Look(t, n)
    BY <1>1 DEF es_list_add
  <2>2. node' \in [Nodes -> Entry]
    BY <1>0, <2>1 DEF Entry
  <2>3. ThreadTypes'
    BY <1>0, <1>1, <2>1, MoveTypes DEF es_list_add
  <2> QED BY <1>1, <2>2, <2>3 DEF es_list_add
<1>2. CASE add_prev(t)
  <2>0. cur[t] \in Nodes
    BY <1>0, <1>2 DEF add_prev, At, Movers
  <2>1. CASE Breaks(t)
    BY <1>0, <2>1, StayTypes DEF Breaks
  <2>2. CASE ~ Breaks(t)
    <3>1. node' \in [Nodes -> Entry]
      BY <1>2, <2>0, <2>2 DEF add_prev, Entry
    <3>2. ThreadTypes'
      BY <1>0, <1>2, <2>2, MoveTypes DEF add_prev
    <3> QED BY <1>2, <2>2, <3>1, <3>2 DEF add_prev
  <2> QED BY <2>1, <2>2
<1>3. CASE add_head(t)
  <2>0. cur[t] \in Nodes
    BY <1>0, <1>3 DEF add_head, At, Movers
  <2>1. ThreadTypes'
    BY <1>0, <1>3, MoveTypes, ReturnTypes DEF add_head
  <2> QED BY <1>3, <2>0, <2>1 DEF add_head
<1>4. CASE unlink(t)
  <2>0. cur[t] \in Nodes
    BY <1>0, <1>4 DEF unlink, At, Movers
  <2>1. node[cur[t]].cdr \in Nodes \cup {Null}
    BY <2>0 DEF Entry
  <2>2. node' \in [Nodes -> Entry]
    BY <1>4, <2>1 DEF unlink, Entry
  <2>3. ThreadTypes'
    BY <1>0, <1>4, MoveTypes DEF unlink
  <2> QED BY <1>0, <1>4, <2>1, <2>2, <2>3 DEF unlink
<1>5. CASE unlink_next(t)
  <2>0. cur[t] \in Nodes
    BY <1>0, <1>5 DEF unlink_next, At, Movers
  <2>1. node[cur[t]].prev_cdr \in Nodes \cup {"estream_list"} /\ NoNode \in Entry
    BY <2>0 DEF Entry, NoNode
  <2>2. node' \in [Nodes -> Entry]
    BY <1>5, <2>1 DEF unlink_next, Entry
  <2>3. ThreadTypes'
    BY <1>0, <1>5, MoveTypes DEF unlink_next
  <2> QED BY <1>0, <1>5, <2>2, <2>3 DEF unlink_next
<1> QED BY <1>1, <1>2, <1>3, <1>4, <1>5

-----------------------------------------------------------------------------
(* The streams and their objects.                                          *)

(* A thread that goes on holds what it held, and starts to hold only what  *)
(* es_fclose finds among its own streams.                                  *)
LEMMA ControlLives ==
  ASSUME LifeInv, TypeOK', state # "freed twice", state' # "freed twice",
         UNCHANGED <<stream, object, cookie>>, NEW t \in Threads,
         \A u \in Threads \ {t} : pc'[u] = pc[u] /\ this'[u] = this[u] /\ cur'[u] = cur[u],
         \/ pc'[t] \notin Holders
         \/ pc[t] \in Holders /\ this'[t] = this[t]
         \/ pc'[t] = "es_list_remove" /\ this'[t] \in Mine(t),
         pc'[t] = "es_list_add" => pc[t] = "es_list_add" /\ this'[t] = this[t],
         pc'[t] \in Movers \cup {"unlink", "advance"} => cur'[t] \in Nodes
  PROVE  LifeInv'
<1>1. \A u \in Threads : pc[u] \in Movers \cup {"unlink", "advance"} => cur[u] \in Nodes
  BY DEF LifeInv, ThreadInv
<1>2. this'[t] \in Mine(t) => /\ this'[t] \in Streams /\ stream[this'[t]].live
                             /\ stream[this'[t]].owner = t
  BY DEF Mine
<1>3. \A u \in Threads : \/ pc'[u] \notin Holders
                         \/ pc[u] \in Holders /\ this'[u] = this[u]
                         \/ /\ pc'[u] = "es_list_remove" /\ this'[u] \in Streams
                            /\ stream[this'[u]].live /\ stream[this'[u]].owner = u
  BY <1>2
<1>4. \A u \in Threads : pc'[u] = "es_list_add" =>
        pc[u] = "es_list_add" /\ UNCHANGED <<cookie[u], this[u]>>
  OBVIOUS
<1>5. \A u \in Threads : pc'[u] \in Movers \cup {"unlink", "advance"} => cur'[u] \in Nodes
  BY <1>1
<1> QED BY <1>3, <1>4, <1>5, QuietStepLives

(* A call that returns holds nothing.                                      *)
LEMMA ReturnLives ==
  ASSUME LifeInv, TypeOK', state # "freed twice", state' # "freed twice", UNCHANGED object,
         \A s \in Streams : /\ stream'[s].live <=> stream[s].live
                            /\ stream'[s].cookie = stream[s].cookie
                            /\ stream'[s].owner = stream[s].owner,
         NEW t \in Threads, Return(t)
  PROVE  LifeInv'
<1>1. ThreadTypes /\ \A u \in Threads : pc[u] \in Movers \cup {"unlink", "advance"} => cur[u] \in Nodes
  BY TypeParts DEF LifeInv, ThreadInv
<1>2. /\ pc'[t] = "idle"
      /\ \A u \in Threads \ {t} : UNCHANGED <<pc[u], this[u], cur[u], cookie[u]>>
  BY <1>1 DEF Return, Goto, Look, ThreadTypes
<1>3. "idle" \notin Holders \cup Movers \cup {"unlink", "advance"}
  BY DEF Holders, Movers
<1>4. \A u \in Threads : \/ pc'[u] \notin Holders
                         \/ pc[u] \in Holders /\ this'[u] = this[u]
  BY <1>2, <1>3
<1>5. \A u \in Threads : pc'[u] = "es_list_add" =>
        pc[u] = "es_list_add" /\ UNCHANGED <<cookie[u], this[u]>>
  BY <1>2
<1>6. \A u \in Threads : pc'[u] \in Movers \cup {"unlink", "advance"} => cur'[u] \in Nodes
  BY <1>1, <1>2, <1>3
<1> QED BY <1>4, <1>5, <1>6, QuietStepLives

LEMMA CallLives ==
  ASSUME LifeInv, NEW t \in Threads,
         es_fdopen(t) \/ es_fclose(t) \/ es_init(t) \/ es_fflush_all(t) \/ exit(t)
           \/ \E d \in StdFds : _es_get_std_stream(t, d)
  PROVE  LifeInv'
<1>0. /\ TypeOK' /\ ThreadTypes /\ state # "freed twice" /\ state' # "freed twice"
      /\ UNCHANGED <<stream, object, cookie>>
  BY CallTypes, TypeParts DEF LifeInv, es_fdopen, es_fclose, es_init, es_fflush_all, exit,
     _es_get_std_stream, At, Running, local
<1>1. \A u \in Threads \ {t} : pc'[u] = pc[u] /\ this'[u] = this[u] /\ cur'[u] = cur[u]
  BY <1>0 DEF es_fdopen, es_fclose, es_init, es_fflush_all, exit, _es_get_std_stream, local,
     Begin, Goto, Look, ThreadTypes
<1>2. \/ pc'[t] \in {"idle", "create", "visit", "find"}
      \/ pc'[t] = "es_list_remove" /\ this'[t] \in Mine(t)
  BY <1>0 DEF es_fdopen, es_fclose, es_init, es_fflush_all, exit, _es_get_std_stream, local,
     Begin, Goto, Look, ThreadTypes, At
<1> QED BY <1>0, <1>1, <1>2, ControlLives DEF Holders, Movers

LEMMA WalkLives ==
  ASSUME LifeInv, NEW t \in Threads, find(t) \/ es_list_remove(t) \/ advance(t) \/ visit(t)
  PROVE  LifeInv'
<1> USE DEF At, Running, Goto, Look, local, Entries, Holders, Movers
<1>0. TypeOK' /\ ThreadTypes /\ stream \in [Streams -> StreamType]
  BY WalkTypes, TypeParts DEF LifeInv
<1>1. CASE find(t)
  <2>1. state # "freed twice" /\ state' # "freed twice" /\ UNCHANGED <<stream, object>>
    BY <1>1 DEF find
  <2>2. CASE Return(t)
    BY <1>0, <2>1, <2>2, ReturnLives
  <2>3. CASE ~ Return(t)
    <3>1. /\ \A u \in Threads \ {t} : pc'[u] = pc[u] /\ this'[u] = this[u] /\ cur'[u] = cur[u]
          /\ pc'[t] \in {"find", "create"} /\ UNCHANGED cookie
      BY <1>0, <1>1, <2>3 DEF find, ThreadTypes
    <3> QED BY <1>0, <2>1, <3>1, ControlLives
  <2> QED BY <2>2, <2>3
<1>2. CASE es_list_remove(t)
  <2>1. state # "freed twice" /\ state' # "freed twice" /\ UNCHANGED <<stream, object, cookie, this>>
    BY <1>2 DEF es_list_remove
  <2>2. /\ \A u \in Threads \ {t} : pc'[u] = pc[u] /\ this'[u] = this[u] /\ cur'[u] = cur[u]
        /\ pc[t] = "es_list_remove"
        /\ pc'[t] \in {"es_list_remove", "es_deinitialize", "unlink"}
        /\ pc'[t] = "unlink" => cur'[t] \in Nodes
    BY <1>0, <1>2 DEF es_list_remove, ThreadTypes
  <2> QED BY <1>0, <2>1, <2>2, ControlLives
<1>3. CASE advance(t)
  <2>1. state # "freed twice" /\ state' # "freed twice" /\ UNCHANGED <<stream, object, cookie, this>>
    BY <1>3 DEF advance
  <2>2. /\ \A u \in Threads \ {t} : pc'[u] = pc[u] /\ this'[u] = this[u] /\ cur'[u] = cur[u]
        /\ pc'[t] \in {"advance", "visit"} /\ pc[t] = "advance"
        /\ pc'[t] = "advance" => cur'[t] = cur[t]
    BY <1>0, <1>3 DEF advance, ThreadTypes
  <2>3. cur[t] \in Nodes
    BY <1>3, <2>1, <2>2 DEF LifeInv, ThreadInv
  <2> QED BY <1>0, <2>1, <2>2, <2>3, ControlLives
<1>4. CASE visit(t)
  <2>1. state # "freed twice" /\ state' # "freed twice" /\ UNCHANGED object
    BY <1>4 DEF visit
  <2>2. \A s \in Streams : /\ stream'[s].live <=> stream[s].live
                           /\ stream'[s].cookie = stream[s].cookie
                           /\ stream'[s].owner = stream[s].owner
    <3>1. CASE \E f \in Flushed(stream[node[cur[t]].car]) :
                 stream' = [stream EXCEPT ![node[cur[t]].car] = f]
      <4> DEFINE c == node[cur[t]].car
      <4>1. PICK f \in Flushed(stream[c]) : stream' = [stream EXCEPT ![c] = f]
        BY <3>1
      <4>2. c \in Streams => /\ f.live = stream[c].live /\ f.cookie = stream[c].cookie
                             /\ f.owner = stream[c].owner
        BY <1>0, FlushedStream
      <4> QED BY <1>0, <4>1, <4>2
    <3>2. CASE UNCHANGED stream
      BY <3>2
    <3> QED BY <1>4, <3>1, <3>2 DEF visit
  <2>3. CASE Return(t)
    BY <1>0, <2>1, <2>2, <2>3, ReturnLives
  <2>4. CASE ~ Return(t)
    <3>1. /\ \A u \in Threads \ {t} : pc'[u] = pc[u] /\ this'[u] = this[u] /\ cur'[u] = cur[u]
          /\ pc'[t] \in {"visit", "advance"} /\ UNCHANGED cookie
          /\ pc'[t] = "advance" => cur'[t] \in Nodes
      BY <1>0, <1>4, <2>4 DEF visit, ThreadTypes
    <3>2. \A u \in Threads : pc[u] \in Movers \cup {"unlink", "advance"} => cur[u] \in Nodes
      BY <2>1 DEF LifeInv, ThreadInv
    <3> QED BY <1>0, <2>1, <2>2, <3>1, <3>2, QuietStepLives
  <2> QED BY <2>3, <2>4
<1> QED BY <1>1, <1>2, <1>3, <1>4

LEMMA ListLives ==
  ASSUME LifeInv, NEW t \in Threads,
         es_list_add(t) \/ add_prev(t) \/ add_head(t) \/ unlink(t) \/ unlink_next(t)
  PROVE  LifeInv'
<1> USE DEF At, Running, Goto, Look, local, Entries, Holders, Movers
<1>0. /\ ThreadTypes /\ state # "freed twice" /\ ThreadInv
      /\ \A u \in Threads : pc[u] \in Movers \cup {"unlink", "advance"} => cur[u] \in Nodes
  BY TypeParts DEF LifeInv, ThreadInv, es_list_add, add_prev, add_head, unlink, unlink_next
<1>t. TypeOK'
  BY <1>0, ListTypes DEF LifeInv
<1>1. CASE es_list_add(t)
  <2>1. state' # "freed twice" /\ UNCHANGED <<stream, object, cookie, this>>
    BY <1>0, <1>1 DEF es_list_add
  <2>2. /\ \A u \in Threads \ {t} : pc'[u] = pc[u] /\ this'[u] = this[u] /\ cur'[u] = cur[u]
        /\ pc[t] = "es_list_add" /\ pc'[t] = "add_prev" /\ cur'[t] \in Nodes
    BY <1>0, <1>1 DEF es_list_add, ThreadTypes
  <2> QED BY <1>0, <1>t, <2>1, <2>2, ControlLives
<1>2. CASE add_prev(t)
  <2>1. state' # "freed twice" /\ UNCHANGED <<stream, object, cookie, this, cur>>
    BY <1>0, <1>2 DEF add_prev, Breaks
  <2>2. /\ \A u \in Threads \ {t} : pc'[u] = pc[u] /\ this'[u] = this[u] /\ cur'[u] = cur[u]
        /\ pc[t] = "add_prev" /\ pc'[t] \in {"add_prev", "add_head"}
    BY <1>0, <1>2, <2>1 DEF add_prev, Breaks, ThreadTypes
  <2>3. cur'[t] \in Nodes
    BY <1>0, <2>1, <2>2
  <2> QED BY <1>0, <1>t, <2>1, <2>2, <2>3, ControlLives
<1>3. CASE add_head(t)
  <2>1. state' # "freed twice" /\ UNCHANGED <<stream, object>>
    BY <1>0, <1>3 DEF add_head
  <2>2. CASE Return(t)
    BY <1>0, <1>t, <2>1, <2>2, ReturnLives
  <2>3. CASE ~ Return(t)
    <3>1. /\ \A u \in Threads \ {t} : pc'[u] = pc[u] /\ this'[u] = this[u] /\ cur'[u] = cur[u]
          /\ pc[t] = "add_head" /\ pc'[t] = "standard" /\ UNCHANGED <<cookie, this>>
      BY <1>0, <1>3, <2>3 DEF add_head, ThreadTypes
    <3> QED BY <1>0, <1>t, <2>1, <3>1, ControlLives
  <2> QED BY <2>2, <2>3
<1>4. CASE unlink(t)
  <2>1. state' # "freed twice" /\ UNCHANGED <<stream, object, cookie, this, cur>>
    BY <1>0, <1>4 DEF unlink
  <2>2. /\ \A u \in Threads \ {t} : pc'[u] = pc[u] /\ this'[u] = this[u] /\ cur'[u] = cur[u]
        /\ pc[t] = "unlink" /\ pc'[t] = "unlink_next"
    BY <1>0, <1>4, <2>1 DEF unlink, ThreadTypes
  <2>3. cur'[t] \in Nodes
    BY <1>0, <2>1, <2>2
  <2> QED BY <1>0, <1>t, <2>1, <2>2, <2>3, ControlLives
<1>5. CASE unlink_next(t)
  <2>1. state' # "freed twice" /\ UNCHANGED <<stream, object, cookie, this>>
    BY <1>0, <1>5 DEF unlink_next
  <2>2. /\ \A u \in Threads \ {t} : pc'[u] = pc[u] /\ this'[u] = this[u] /\ cur'[u] = cur[u]
        /\ pc[t] = "unlink_next" /\ pc'[t] = "es_deinitialize"
    BY <1>0, <1>5, <2>1 DEF unlink_next, ThreadTypes
  <2> QED BY <1>0, <1>t, <2>1, <2>2, ControlLives
<1> QED BY <1>1, <1>2, <1>3, <1>4, <1>5

(* What happens to a stream that stays.                                    *)
LEMMA UseLives ==
  ASSUME LifeInv, NEW t \in Threads, es_write(t) \/ es_fflush(t) \/ standard(t)
  PROVE  LifeInv'
<1>0. /\ TypeOK /\ ThreadTypes /\ stream \in [Streams -> StreamType]
      /\ state # "freed twice" /\ UNCHANGED <<estream_list, node, object, initialized, state>>
      /\ \A u \in Threads : pc[u] \in Movers \cup {"unlink", "advance"} => cur[u] \in Nodes
  BY TypeParts DEF LifeInv, ThreadInv, es_write, es_fflush, standard, At, Running
<1>1. CASE es_write(t) \/ es_fflush(t)
  <2>1. UNCHANGED local
    BY <1>1 DEF es_write, es_fflush
  <2>2. /\ stream' \in [Streams -> StreamType]
        /\ \A r \in Streams : /\ stream'[r].live <=> stream[r].live
                              /\ stream'[r].cookie = stream[r].cookie
                              /\ stream'[r].owner = stream[r].owner
    <3>1. CASE es_write(t)
      <4>1. PICK s \in Streams : stream' = [stream EXCEPT ![s].dirty = TRUE]
        BY <3>1 DEF es_write, Mine
      <4> QED BY <1>0, <4>1 DEF StreamType
    <3>2. CASE es_fflush(t)
      <4>1. PICK s \in Streams : \E f \in Flushed(stream[s]) : stream' = [stream EXCEPT ![s] = f]
        BY <3>2 DEF es_fflush, Mine
      <4>2. PICK f \in Flushed(stream[s]) : stream' = [stream EXCEPT ![s] = f]
        BY <4>1
      <4>3. /\ f \in StreamType /\ f.live = stream[s].live /\ f.cookie = stream[s].cookie
            /\ f.owner = stream[s].owner
        BY <1>0, FlushedStream
      <4> QED BY <1>0, <4>2, <4>3
    <3> QED BY <1>1, <3>1, <3>2
  <2>3. ThreadTypes'
    BY <1>0, <2>1, StayTypes
  <2>4. TypeOK'
    BY <1>0, <2>2, <2>3, TypeParts, TypePartsNext
  <2> QED BY <1>0, <2>1, <2>2, <2>4, QuietStepLives DEF local
<1>2. CASE standard(t)
  <2>1. stream' = [stream EXCEPT ![this[t]].std = fd[t]] /\ Return(t)
    BY <1>2 DEF standard
  <2>2. stream' \in [Streams -> StreamType]
    <3>1. fd[t] \in -2 .. NoStd
      BY <1>0 DEF ThreadTypes
    <3>2. \A s \in StreamType : [s EXCEPT !.std = fd[t]] \in StreamType
      BY <3>1 DEF StreamType
    <3> QED BY <1>0, <2>1, <3>2
  <2>3. TypeOK'
    BY <1>0, <2>1, <2>2, TypeParts, TypePartsNext, ReturnTypes
  <2>4. \A r \in Streams : /\ stream'[r].live <=> stream[r].live
                           /\ stream'[r].cookie = stream[r].cookie
                           /\ stream'[r].owner = stream[r].owner
    BY <1>0, <2>1 DEF StreamType
  <2> QED BY <1>0, <2>1, <2>3, <2>4, ReturnLives
<1> QED BY <1>1, <1>2

LEMMA KindType == ASSUME NEW t PROVE Kind(t) \in {"fd", "fp", "bucket"}
<1>1. CASE op[t] = "es_fdopen"
  BY <1>1 DEF Kind
<1>2. CASE op[t] # "es_fdopen" /\ pc[t] = "bucket"
  BY <1>2 DEF Kind
<1>3. CASE op[t] # "es_fdopen" /\ pc[t] # "bucket"
  BY <1>3 DEF Kind
<1> QED BY <1>1, <1>2, <1>3

(* A new object, and one whose stream could not be made.                   *)
LEMMA NewObject ==
  ASSUME NEW t
  PROVE  /\ Created(t) \in ObjectType /\ Destroyed(Created(t)) \in ObjectType
         /\ Created(t).made = 1 /\ Created(t).freed = 0 /\ Created(t).closed = FALSE
         /\ Destroyed(Created(t)).made = 1 /\ Destroyed(Created(t)).freed = 1
         /\ Destroyed(Created(t)).kind = Kind(t)
         /\ (Destroyed(Created(t)).closed <=> Kind(t) = "fd")
<1>1. Created(t).made = 1 /\ Created(t).freed = 0 /\ Created(t).closed = FALSE
  BY DEF Created, NoObject
<1>2. Created(t).kind = Kind(t)
  BY DEF Created, NoObject
<1>3. Created(t) \in ObjectType
  <2>1. Created(t).made \in 0 .. 1 /\ Created(t).freed \in 0 .. 2
    BY <1>1
  <2>2. Created(t).closed \in BOOLEAN
    BY <1>1
  <2>3. Kind(t) \in {"fd", "fp", "bucket"}
    BY KindType
  <2>4. Created(t).kind \in {"none", "fd", "fp", "bucket"}
    BY <1>2, <2>3
  <2> QED BY <2>1, <2>2, <2>4 DEF Created, NoObject, ObjectType
<1>4. Destroyed(Created(t)) \in ObjectType
  <2>1. Created(t).freed + 1 \in 0 .. 2
    BY <1>1
  <2> QED BY <1>3, <2>1 DEF Destroyed, ObjectType
<1>5. Destroyed(Created(t)).made = 1 /\ Destroyed(Created(t)).freed = 1
  BY <1>1, <1>3 DEF Destroyed, ObjectType
<1>6. Destroyed(Created(t)).kind = Kind(t)
  BY <1>2, <1>3 DEF Destroyed, ObjectType
<1>7. Destroyed(Created(t)).closed <=> Kind(t) = "fd"
  BY <1>2, <1>3 DEF Destroyed, ObjectType
<1> QED BY <1>1, <1>3, <1>4, <1>5, <1>6, <1>7

LEMMA NewStream ==
  ASSUME NEW t \in Threads, NEW o \in Objects
  PROVE  /\ es_initialized(t, o) \in StreamType /\ es_initialized(t, o).live
         /\ es_initialized(t, o).cookie = o /\ es_initialized(t, o).owner = t
         /\ es_initialized(t, o).std = NoStd /\ es_initialized(t, o).dirty = FALSE
<1>1. NoStream \in StreamType /\ (fd[t] # 0) \in BOOLEAN
  BY DEF NoStream, StreamType, NoStd
<1>2. es_initialized(t, o) \in StreamType
  BY <1>1 DEF es_initialized, StreamType
<1>3. es_initialized(t, o).live
  BY DEF es_initialized, NoStream
<1>4. es_initialized(t, o).cookie = o /\ es_initialized(t, o).owner = t
  BY DEF es_initialized, NoStream
<1>5. es_initialized(t, o).std = NoStd /\ es_initialized(t, o).dirty = FALSE
  BY DEF es_initialized, NoStream
<1> QED BY <1>2, <1>3, <1>4, <1>5

(* What a failed creation leaves to the threads.                           *)
LEMMA CreateFailedThreads ==
  ASSUME TypeOK, ThreadInv, NEW t \in Threads, At(t, "create") \/ At(t, "bucket"),
         CreateFailed(t), UNCHANGED stream
  PROVE  ThreadTypes' /\ ThreadInv' /\ state' \in States \ {"freed twice"}
<1>0. ThreadTypes /\ state \in States
  BY TypeParts
<1>1. CASE Return(t) /\ UNCHANGED state
  <2>1. ThreadTypes' /\ state' \in States \ {"freed twice"}
    BY <1>0, <1>1, ReturnTypes DEF At, Running, States
  <2>2. \A u \in Threads : pc'[u] = "idle" \/ UNCHANGED <<pc[u], cur[u], this[u], cookie[u]>>
    BY <1>0, <1>1 DEF Return, Goto, Look, ThreadTypes
  <2>3. "idle" \notin Holders \cup Movers \cup {"unlink", "advance"}
    BY DEF Holders, Movers
  <2>4. ThreadInv'
    <3> SUFFICES ASSUME NEW u \in Threads
                 PROVE  /\ pc'[u] \in Holders => /\ this'[u] \in Streams /\ stream'[this'[u]].live
                                                 /\ stream'[this'[u]].owner = u
                        /\ pc'[u] = "es_list_add" => cookie'[u] = stream'[this'[u]].cookie
                        /\ pc'[u] \in Movers \cup {"unlink", "advance"} => cur'[u] \in Nodes
      BY DEF ThreadInv
    <3>1. CASE pc'[u] = "idle"
      BY <2>3, <3>1
    <3>2. CASE UNCHANGED <<pc[u], cur[u], this[u], cookie[u]>>
      BY <3>2 DEF ThreadInv
    <3> QED BY <2>2, <3>1, <3>2
  <2> QED BY <2>1, <2>4
<1>2. CASE Goto(t, "bucket") /\ UNCHANGED <<op, fd, cur, this, cookie, state>>
  <2>1. ThreadTypes' /\ state' \in States \ {"freed twice"}
    BY <1>0, <1>2, MoveTypes DEF At, Running, States, Labels, ThreadTypes
  <2>2. \A u \in Threads : pc'[u] = "bucket" \/ UNCHANGED pc[u]
    BY <1>0, <1>2 DEF Goto, ThreadTypes
  <2>3. "bucket" \notin Holders \cup Movers \cup {"unlink", "advance"}
    BY DEF Holders, Movers
  <2> QED BY <1>2, <2>1, <2>2, <2>3 DEF ThreadInv, Holders
<1>3. CASE state' = "aborted" /\ UNCHANGED local
  BY <1>0, <1>3, StayTypes DEF ThreadInv, local, States
<1> QED BY <1>1, <1>2, <1>3 DEF CreateFailed

LEMMA FailureLives ==
  ASSUME LifeInv, NEW t \in Threads, ObjectFails(t) \/ StreamFails(t)
  PROVE  LifeInv'
<1>0. /\ TypeOK /\ ThreadInv /\ ObjectInv
      /\ At(t, "create") \/ At(t, "bucket")
      /\ CreateFailed(t) /\ UNCHANGED <<estream_list, node, stream, initialized>>
  BY DEF LifeInv, ObjectFails, StreamFails, At, Running
<1>1. ThreadTypes' /\ ThreadInv' /\ state' \in States \ {"freed twice"}
  BY <1>0, CreateFailedThreads
<1>2. CASE UNCHANGED object
  <2>1. TypeOK'
    BY <1>0, <1>1, <1>2, TypeParts, TypePartsNext
  <2>2. ObjectInv'
    BY <1>0, <1>2 DEF ObjectInv
  <2> QED BY <1>1, <2>1, <2>2 DEF LifeInv
<1>3. CASE StreamFails(t)
  <2>1. PICK o \in Objects :
          object[o].made = 0 /\ object' = [object EXCEPT ![o] = Destroyed(Created(t))]
    BY <1>3 DEF StreamFails
  <2>2. object \in [Objects -> ObjectType] /\ Kind(t) \in {"fd", "fp", "bucket"}
    BY <1>0, TypeParts, KindType
  <2>4. /\ object'[o] = Destroyed(Created(t))
        /\ \A p \in Objects \ {o} : object'[p] = object[p]
    BY <2>1, <2>2
  <2>5. object' \in [Objects -> ObjectType]
    BY <2>1, <2>2, NewObject
  <2>6. TypeOK'
    BY <1>0, <1>1, <2>5, TypeParts, TypePartsNext
  <2>7. ObjectInv'
    <3>1. \A s \in Streams : stream[s].live => stream[s].cookie # o
      BY <1>0, <2>1 DEF ObjectInv
    <3>3. /\ object'[o].made = 1 /\ object'[o].freed = 1
          /\ object'[o].kind = Kind(t) /\ (object'[o].closed <=> Kind(t) = "fd")
      BY <2>4, NewObject
    <3>4. \A p \in Objects :
            /\ object'[p].freed <= object'[p].made
            /\ object'[p].closed <=> object'[p].freed = 1 /\ object'[p].kind = "fd"
      <4> TAKE p \in Objects
      <4>1. CASE p = o
        BY <3>3, <4>1
      <4>2. CASE p # o
        BY <1>0, <2>4, <4>2 DEF ObjectInv
      <4> QED BY <4>1, <4>2
    <3>5. \A s \in Streams : stream'[s].live =>
            /\ stream'[s].cookie \in Objects
            /\ object'[stream'[s].cookie].made = 1 /\ object'[stream'[s].cookie].freed = 0
      <4> TAKE s \in Streams
      <4> HAVE stream'[s].live
      <4>1. /\ stream[s].live /\ stream[s].cookie \in Objects
            /\ object[stream[s].cookie].made = 1 /\ object[stream[s].cookie].freed = 0
        BY <1>0 DEF ObjectInv
      <4>2. stream[s].cookie # o
        BY <3>1, <4>1
      <4> QED BY <1>0, <2>4, <4>1, <4>2
    <3>6. \A p \in Objects : object'[p].made = 1 /\ object'[p].freed = 0 =>
            \E s \in Streams : stream'[s].live /\ stream'[s].cookie = p
      <4> TAKE p \in Objects
      <4> HAVE object'[p].made = 1 /\ object'[p].freed = 0
      <4>1. p # o
        BY <3>3
      <4>2. object[p].made = 1 /\ object[p].freed = 0
        BY <2>4, <4>1
      <4> QED BY <1>0, <4>2 DEF ObjectInv
    <3>7. \A r, s \in Streams :
            stream'[r].live /\ stream'[s].live /\ stream'[r].cookie = stream'[s].cookie => r = s
      BY <1>0 DEF ObjectInv
    <3> QED BY <3>4, <3>5, <3>6, <3>7 DEF ObjectInv
  <2> QED BY <1>1, <2>6, <2>7 DEF LifeInv
<1> QED BY <1>2, <1>3 DEF ObjectFails

LEMMA CreateLives ==
  ASSUME LifeInv, NEW t \in Threads, es_create(t)
  PROVE  LifeInv'
<1>0. /\ TypeOK /\ ThreadInv /\ ObjectInv /\ ThreadTypes /\ state # "freed twice"
      /\ stream \in [Streams -> StreamType] /\ object \in [Objects -> ObjectType]
  BY TypeParts DEF LifeInv, es_create, At, Running
<1>1. PICK o \in Objects, s \in Streams :
        /\ object[o].made = 0 /\ ~ stream[s].live
        /\ object' = [object EXCEPT ![o] = Created(t)]
        /\ cookie' = [cookie EXCEPT ![t] = o]
        /\ stream' = [stream EXCEPT ![s] = es_initialized(t, o)]
        /\ this' = [this EXCEPT ![t] = s]
  BY DEF es_create
<1>2. Goto(t, "es_list_add") /\ UNCHANGED <<estream_list, node, op, fd, cur, initialized, state>>
  BY DEF es_create
<1>5. /\ \A p \in Objects \ {o} : object'[p] = object[p]
      /\ object'[o].made = 1 /\ object'[o].freed = 0 /\ object'[o].closed = FALSE
      /\ object' \in [Objects -> ObjectType]
  BY <1>0, <1>1, NewObject
<1>6. /\ \A r \in Streams \ {s} : stream'[r] = stream[r]
      /\ stream'[s].live /\ stream'[s].cookie = o /\ stream'[s].owner = t
      /\ stream' \in [Streams -> StreamType]
  BY <1>0, <1>1, NewStream
<1>7. /\ \A u \in Threads \ {t} : UNCHANGED <<pc[u], this[u], cur[u], cookie[u]>>
      /\ pc'[t] = "es_list_add" /\ this'[t] = s /\ cookie'[t] = o
      /\ ThreadTypes'
  BY <1>0, <1>1, <1>2 DEF ThreadTypes, Goto, Labels
<1>8. TypeOK'
  BY <1>0, <1>2, <1>5, <1>6, <1>7, TypeParts, TypePartsNext
<1>9. ThreadInv'
  <2> SUFFICES ASSUME NEW u \in Threads
               PROVE  /\ pc'[u] \in Holders => /\ this'[u] \in Streams /\ stream'[this'[u]].live
                                               /\ stream'[this'[u]].owner = u
                      /\ pc'[u] = "es_list_add" => cookie'[u] = stream'[this'[u]].cookie
                      /\ pc'[u] \in Movers \cup {"unlink", "advance"} => cur'[u] \in Nodes
    BY DEF ThreadInv
  <2>1. CASE u = t
    BY <1>6, <1>7, <2>1 DEF Movers
  <2>2. CASE u # t
    <3>1. /\ pc'[u] = pc[u] /\ this'[u] = this[u] /\ cur'[u] = cur[u] /\ cookie'[u] = cookie[u]
      BY <1>7, <2>2
    <3>2. pc[u] \in Movers \cup {"unlink", "advance"} => cur[u] \in Nodes
      BY <1>0 DEF ThreadInv
    <3>3. CASE pc[u] \in Holders
      <4>1. /\ this[u] \in Streams /\ stream[this[u]].live /\ stream[this[u]].owner = u
            /\ pc[u] = "es_list_add" => cookie[u] = stream[this[u]].cookie
        BY <1>0, <3>3 DEF ThreadInv
      <4>2. stream'[this[u]] = stream[this[u]]
        BY <1>1, <1>6, <4>1
      <4> QED BY <3>1, <3>2, <4>1, <4>2
    <3>4. CASE pc[u] \notin Holders
      BY <3>1, <3>2, <3>4 DEF Holders
    <3> QED BY <3>3, <3>4
  <2> QED BY <2>1, <2>2
<1>10. ObjectInv'
  <2>1. \A r \in Streams : stream[r].live => r # s /\ stream[r].cookie # o
    <3> TAKE r \in Streams
    <3> HAVE stream[r].live
    <3>1. object[stream[r].cookie].made = 1
      BY <1>0 DEF ObjectInv
    <3> QED BY <1>1, <3>1
  <2>2. \A r \in Streams : stream'[r].live =>
          /\ stream'[r].cookie \in Objects
          /\ object'[stream'[r].cookie].made = 1 /\ object'[stream'[r].cookie].freed = 0
    <3> TAKE r \in Streams
    <3> HAVE stream'[r].live
    <3>1. CASE r = s
      BY <1>5, <1>6, <3>1
    <3>2. CASE r # s
      <4>1. stream[r].live /\ stream'[r] = stream[r]
        BY <1>6, <3>2
      <4>2. /\ stream[r].cookie \in Objects \ {o}
            /\ object[stream[r].cookie].made = 1 /\ object[stream[r].cookie].freed = 0
        BY <1>0, <2>1, <4>1 DEF ObjectInv
      <4> QED BY <1>5, <4>1, <4>2
    <3> QED BY <3>1, <3>2
  <2>3. \A q, r \in Streams :
          stream'[q].live /\ stream'[r].live /\ stream'[q].cookie = stream'[r].cookie => q = r
    <3> TAKE q, r \in Streams
    <3> HAVE stream'[q].live /\ stream'[r].live /\ stream'[q].cookie = stream'[r].cookie
    <3>1. CASE q # s /\ r # s
      <4>1. stream'[q] = stream[q] /\ stream'[r] = stream[r]
        BY <1>6, <3>1
      <4>2. stream[q].live /\ stream[r].live /\ stream[q].cookie = stream[r].cookie
        BY <4>1
      <4> QED BY <1>0, <4>2 DEF ObjectInv
    <3>2. CASE q # s /\ r = s
      <4>1. stream'[q] = stream[q]
        BY <1>6, <3>2
      <4> QED BY <1>6, <2>1, <3>2, <4>1
    <3>3. CASE q = s /\ r # s
      <4>1. stream'[r] = stream[r]
        BY <1>6, <3>3
      <4> QED BY <1>6, <2>1, <3>3, <4>1
    <3> QED BY <3>1, <3>2, <3>3
  <2>4. \A p \in Objects : object'[p].made = 1 /\ object'[p].freed = 0 =>
          \E r \in Streams : stream'[r].live /\ stream'[r].cookie = p
    <3> TAKE p \in Objects
    <3> HAVE object'[p].made = 1 /\ object'[p].freed = 0
    <3>1. CASE p = o
      BY <1>6, <3>1
    <3>2. CASE p # o
      <4>1. object[p].made = 1 /\ object[p].freed = 0
        BY <1>5, <3>2
      <4>2. PICK r \in Streams : stream[r].live /\ stream[r].cookie = p
        BY <1>0, <4>1 DEF ObjectInv
      <4>3. stream'[r] = stream[r]
        BY <1>6, <2>1, <4>2
      <4> QED BY <4>2, <4>3
    <3> QED BY <3>1, <3>2
  <2>5. \A p \in Objects :
          /\ object'[p].freed <= object'[p].made
          /\ object'[p].closed <=> object'[p].freed = 1 /\ object'[p].kind = "fd"
    <3> TAKE p \in Objects
    <3>1. CASE p = o
      BY <1>5, <3>1
    <3>2. CASE p # o
      <4>1. object'[p] = object[p]
        BY <1>5, <3>2
      <4>2. /\ object[p].freed <= object[p].made
            /\ object[p].closed <=> object[p].freed = 1 /\ object[p].kind = "fd"
        BY <1>0 DEF ObjectInv
      <4> QED BY <4>1, <4>2
    <3> QED BY <3>1, <3>2
  <2> QED BY <2>2, <2>3, <2>4, <2>5 DEF ObjectInv
<1> QED BY <1>2, <1>0, <1>8, <1>9, <1>10 DEF LifeInv

LEMMA DestroyedObject ==
  ASSUME NEW x \in ObjectType, x.freed \in 0 .. 1
  PROVE  /\ Destroyed(x) \in ObjectType /\ Destroyed(x).made = x.made
         /\ Destroyed(x).freed = x.freed + 1 /\ Destroyed(x).kind = x.kind
         /\ (Destroyed(x).closed <=> x.kind = "fd")
<1>0. x.freed + 1 \in 0 .. 2
  OBVIOUS
<1>1. Destroyed(x) \in ObjectType
  BY <1>0 DEF Destroyed, ObjectType
<1>2. Destroyed(x).made = x.made /\ Destroyed(x).freed = x.freed + 1
  BY DEF Destroyed, ObjectType
<1>3. Destroyed(x).kind = x.kind
  BY DEF Destroyed, ObjectType
<1>4. Destroyed(x).closed <=> x.kind = "fd"
  BY DEF Destroyed, ObjectType
<1> QED BY <1>1, <1>2, <1>3, <1>4

LEMMA DestroyLives ==
  ASSUME LifeInv, NEW t \in Threads, es_deinitialize(t)
  PROVE  LifeInv'
<1> DEFINE s == this[t]
           o == stream[s].cookie
<1>0. /\ TypeOK /\ ThreadInv /\ ObjectInv /\ ThreadTypes /\ state # "freed twice"
      /\ stream \in [Streams -> StreamType] /\ object \in [Objects -> ObjectType]
      /\ Return(t) /\ UNCHANGED <<estream_list, node, initialized, state>>
      /\ pc[t] = "es_deinitialize"
  BY TypeParts DEF LifeInv, es_deinitialize, At, Running
<1>1. s \in Streams /\ stream[s].live /\ stream[s].owner = t
  BY <1>0 DEF ThreadInv, Holders
<1>2. o \in Objects /\ object[o].made = 1 /\ object[o].freed = 0
  BY <1>0, <1>1 DEF ObjectInv
<1> HIDE DEF s, o
<1>3. /\ object' = [object EXCEPT ![o] = Destroyed(object[o])]
      /\ stream' = [stream EXCEPT ![s] = NoStream]
  BY DEF es_deinitialize, s, o
<1>4. /\ \A p \in Objects \ {o} : object'[p] = object[p]
      /\ object'[o] = Destroyed(object[o])
  BY <1>0, <1>2, <1>3
<1>5. /\ \A r \in Streams \ {s} : stream'[r] = stream[r]
      /\ stream'[s] = NoStream /\ ~ stream'[s].live
  BY <1>0, <1>1, <1>3 DEF NoStream
<1>6. /\ Destroyed(object[o]) \in ObjectType
      /\ object'[o].made = 1 /\ object'[o].freed = 1
      /\ (object'[o].closed <=> object'[o].kind = "fd")
  <2>1. object[o] \in ObjectType
    BY <1>0, <1>2
  <2>2. 0 \in 0 .. 1 /\ 0 + 1 = 1
    OBVIOUS
  <2> QED BY <1>2, <1>4, <2>1, <2>2, DestroyedObject
<1>7. NoStream \in StreamType
  BY DEF NoStream, StreamType, NoStd
<1>8. TypeOK'
  <2>1. object' \in [Objects -> ObjectType] /\ stream' \in [Streams -> StreamType]
    BY <1>0, <1>3, <1>6, <1>7
  <2> QED BY <1>0, <2>1, ReturnTypes, TypeParts, TypePartsNext
<1>9. ThreadInv'
  <2> SUFFICES ASSUME NEW u \in Threads
               PROVE  /\ pc'[u] \in Holders => /\ this'[u] \in Streams /\ stream'[this'[u]].live
                                               /\ stream'[this'[u]].owner = u
                      /\ pc'[u] = "es_list_add" => cookie'[u] = stream'[this'[u]].cookie
                      /\ pc'[u] \in Movers \cup {"unlink", "advance"} => cur'[u] \in Nodes
    BY DEF ThreadInv
  <2>1. CASE u = t
    <3>1. pc'[u] = "idle"
      BY <1>0, <2>1 DEF Return, Goto, ThreadTypes
    <3> QED BY <3>1 DEF Holders, Movers
  <2>2. CASE u # t
    <3>1. UNCHANGED <<pc[u], this[u], cur[u], cookie[u]>>
      BY <1>0, <2>2 DEF Return, Goto, Look, ThreadTypes
    <3>2. pc[u] \in Movers \cup {"unlink", "advance"} => cur[u] \in Nodes
      BY <1>0 DEF ThreadInv
    <3>3. CASE pc[u] \in Holders
      <4>1. /\ this[u] \in Streams /\ stream[this[u]].live /\ stream[this[u]].owner = u
            /\ pc[u] = "es_list_add" => cookie[u] = stream[this[u]].cookie
        BY <1>0, <3>3 DEF ThreadInv
      <4>2. stream'[this[u]] = stream[this[u]]
        BY <1>1, <1>5, <2>2, <4>1
      <4> QED BY <3>1, <3>2, <4>1, <4>2
    <3>4. CASE pc[u] \notin Holders
      BY <3>1, <3>2, <3>4 DEF Holders
    <3> QED BY <3>3, <3>4
  <2> QED BY <2>1, <2>2
<1>10. ObjectInv'
  <2>1. \A r \in Streams : stream'[r].live =>
          /\ r # s /\ stream'[r] = stream[r] /\ stream[r].live /\ stream[r].cookie # o
    <3> TAKE r \in Streams
    <3> HAVE stream'[r].live
    <3>1. r # s /\ stream'[r] = stream[r]
      BY <1>5
    <3>2. stream[r].cookie = stream[s].cookie => r = s
      BY <1>0, <1>1, <3>1 DEF ObjectInv
    <3> QED BY <3>1, <3>2 DEF o
  <2>2. \A r \in Streams : stream'[r].live =>
          /\ stream'[r].cookie \in Objects
          /\ object'[stream'[r].cookie].made = 1 /\ object'[stream'[r].cookie].freed = 0
    <3> TAKE r \in Streams
    <3> HAVE stream'[r].live
    <3>1. stream'[r] = stream[r] /\ stream[r].cookie # o
      BY <2>1
    <3>2. /\ stream[r].cookie \in Objects
          /\ object[stream[r].cookie].made = 1 /\ object[stream[r].cookie].freed = 0
      BY <1>0, <2>1 DEF ObjectInv
    <3> QED BY <1>4, <3>1, <3>2
  <2>3. \A q, r \in Streams :
          stream'[q].live /\ stream'[r].live /\ stream'[q].cookie = stream'[r].cookie => q = r
    <3> TAKE q, r \in Streams
    <3> HAVE stream'[q].live /\ stream'[r].live /\ stream'[q].cookie = stream'[r].cookie
    <3>1. stream[q].live /\ stream[r].live /\ stream[q].cookie = stream[r].cookie
      BY <2>1
    <3> QED BY <1>0, <3>1 DEF ObjectInv
  <2>4. \A p \in Objects : object'[p].made = 1 /\ object'[p].freed = 0 =>
          \E r \in Streams : stream'[r].live /\ stream'[r].cookie = p
    <3> TAKE p \in Objects
    <3> HAVE object'[p].made = 1 /\ object'[p].freed = 0
    <3>1. p # o
      BY <1>6
    <3>2. object[p].made = 1 /\ object[p].freed = 0
      BY <1>4, <3>1
    <3>3. PICK r \in Streams : stream[r].live /\ stream[r].cookie = p
      BY <1>0, <3>2 DEF ObjectInv
    <3>4. r # s
      BY <3>1, <3>3 DEF o
    <3>5. stream'[r] = stream[r]
      BY <1>5, <3>4
    <3> QED BY <3>3, <3>5
  <2>5. \A p \in Objects :
          /\ object'[p].freed <= object'[p].made
          /\ object'[p].closed <=> object'[p].freed = 1 /\ object'[p].kind = "fd"
    <3> TAKE p \in Objects
    <3>1. CASE p = o
      BY <1>6, <3>1
    <3>2. CASE p # o
      <4>1. object'[p] = object[p]
        BY <1>4, <3>2
      <4>2. /\ object[p].freed <= object[p].made
            /\ object[p].closed <=> object[p].freed = 1 /\ object[p].kind = "fd"
        BY <1>0 DEF ObjectInv
      <4> QED BY <4>1, <4>2
    <3> QED BY <3>1, <3>2
  <2> QED BY <2>2, <2>3, <2>4, <2>5 DEF ObjectInv
<1> QED BY <1>0, <1>8, <1>9, <1>10 DEF LifeInv

(* The step that frees an object twice ends the process.                   *)
LEMMA EntryFailsLives ==
  ASSUME LifeInv, NEW t \in Threads, EntryFails(t)
  PROVE  LifeInv'
<1> DEFINE o == cookie[t]
<1>0. /\ TypeOK /\ ThreadInv /\ ObjectInv /\ ThreadTypes /\ pc[t] = "es_list_add"
      /\ stream \in [Streams -> StreamType] /\ object \in [Objects -> ObjectType]
      /\ state' = "freed twice" /\ UNCHANGED <<estream_list, node, local, initialized>>
  BY TypeParts DEF LifeInv, EntryFails, At, Running
<1>1. this[t] \in Streams /\ stream[this[t]].live /\ o = stream[this[t]].cookie
  BY <1>0 DEF ThreadInv, Holders
<1>2. o \in Objects /\ object[o].freed = 0
  BY <1>0, <1>1 DEF ObjectInv
<1> HIDE DEF o
<1>3. /\ object' = [object EXCEPT ![o] = Destroyed(Destroyed(object[o]))]
      /\ stream' = [stream EXCEPT ![this[t]] = NoStream]
  BY DEF EntryFails, o
<1>4. Destroyed(object[o]) \in ObjectType /\ Destroyed(object[o]).freed = 1
  <2>1. object[o] \in ObjectType
    BY <1>0, <1>2
  <2>2. 0 \in 0 .. 1 /\ 0 + 1 = 1
    OBVIOUS
  <2> QED BY <1>2, <2>1, <2>2, DestroyedObject
<1>5. Destroyed(Destroyed(object[o])) \in ObjectType
  <2>1. 1 \in 0 .. 1
    OBVIOUS
  <2> QED BY <1>4, <2>1, DestroyedObject
<1>6. NoStream \in StreamType
  BY DEF NoStream, StreamType, NoStd
<1>7. object' \in [Objects -> ObjectType] /\ stream' \in [Streams -> StreamType]
  BY <1>0, <1>1, <1>3, <1>5, <1>6
<1>8. TypeOK'
  BY <1>0, <1>7, StayTypes, TypeParts, TypePartsNext DEF States
<1>9. pc'[t] = "es_list_add"
  BY <1>0 DEF local
<1> QED BY <1>0, <1>8, <1>9 DEF LifeInv

LEMMA NextLife == LifeInv /\ [Next]_vars => LifeInv'
<1> SUFFICES ASSUME LifeInv, [Next]_vars PROVE LifeInv'
  OBVIOUS
<1>1. ASSUME NEW t \in Threads, Open(t) PROVE LifeInv'
  BY <1>1, CallLives, CreateLives, FailureLives, ListLives, EntryFailsLives, WalkLives, UseLives
  DEF Open
<1>2. ASSUME NEW t \in Threads, Close(t) PROVE LifeInv'
  BY <1>2, CallLives, WalkLives, ListLives, DestroyLives DEF Close
<1>3. ASSUME NEW t \in Threads, All(t) PROVE LifeInv'
  BY <1>3, CallLives, WalkLives DEF All
<1>4. ASSUME NEW t \in Threads, es_write(t) \/ es_fflush(t) PROVE LifeInv'
  BY <1>4, UseLives
<1>5. CASE UNCHANGED vars
  BY <1>5 DEF LifeInv, ThreadInv, ObjectInv, TypeOK, vars, local
<1> QED BY <1>1, <1>2, <1>3, <1>4, <1>5 DEF Next

LEMMA LifeInductive == Spec => []LifeInv
<1>1. Init => LifeInv
  BY InitLife
<1>2. LifeInv /\ [Next]_vars => LifeInv'
  BY NextLife
<1> QED BY <1>1, <1>2, PTL DEF Spec

(* Every variable of the registry has its type, whatever the threads do to *)
(* the list that no lock protects.                                         *)
THEOREM RegistryTypeCorrect == Spec => []TypeOK
<1>1. LifeInv => TypeOK
  BY DEF LifeInv
<1> QED BY <1>1, LifeInductive, PTL

(* With any number of threads in the library at once, the object of a      *)
(* stream is freed once, when the stream is destroyed or could not be      *)
(* made, and only the descriptors the client gave away are closed: the     *)
(* double free of es_create's callers when malloc of the list entry fails  *)
(* is the only way out.                                                    *)
THEOREM ObjectsLiveWithStreams == Spec => []ObjectLifetime
<1>0. \A f \in 0 .. 2, m \in 0 .. 1 : f <= m => f <= 1
  OBVIOUS
<1>1. LifeInv => ObjectLifetime
  <2> SUFFICES ASSUME LifeInv, state # "freed twice", NEW o \in Objects
               PROVE  /\ object[o].freed <= 1
                      /\ object[o].made = 1 /\ object[o].freed = 0 <=>
                           \E s \in Streams : stream[s].live /\ stream[s].cookie = o
                      /\ object[o].closed <=> object[o].freed = 1 /\ object[o].kind = "fd"
    BY DEF ObjectLifetime
  <2>1. ObjectInv /\ object[o] \in ObjectType
    BY TypeParts DEF LifeInv
  <2>2. object[o].freed <= 1
    <3>1. object[o].freed <= object[o].made
      BY <2>1 DEF ObjectInv
    <3>2. object[o].freed \in 0 .. 2 /\ object[o].made \in 0 .. 1
      BY <2>1 DEF ObjectType
    <3> QED BY <1>0, <3>1, <3>2
  <2>3. /\ object[o].made = 1 /\ object[o].freed = 0 =>
             \E s \in Streams : stream[s].live /\ stream[s].cookie = o
        /\ object[o].closed <=> object[o].freed = 1 /\ object[o].kind = "fd"
    BY <2>1 DEF ObjectInv
  <2>4. ASSUME NEW s \in Streams, stream[s].live, stream[s].cookie = o
        PROVE  object[o].made = 1 /\ object[o].freed = 0
    BY <2>1, <2>4 DEF ObjectInv
  <2> QED BY <2>2, <2>3, <2>4
<1> QED BY <1>1, LifeInductive, PTL

-----------------------------------------------------------------------------
(* One thread in the library.  ESTREAM_LIST_LOCK locks nothing, so what    *)
(* follows is promised to programs whose threads keep out of each other's  *)
(* way, and registry_threads shows what two threads may do.                *)
OneThread == \E t \in Threads : Threads = {t}

(* The entries in the list: those alive but for the one t is adding, or    *)
(* has unlinked.                                                           *)
Listed(t) == {n \in Nodes : node[n].live /\ ~ (pc[t] \in Movers /\ cur[t] = n)}

(* p is where the pointer to n is, with h the first entry and nd the       *)
(* entries.                                                                *)
PointedTo(L, h, nd, p, n) == \/ p = "estream_list" /\ h = n
                             \/ p \in L /\ nd[p].cdr = n

(* The list runs through all of L, in the order of r.                      *)
Ordered(r, L, h, nd) ==
  /\ \A m, n \in L : r[m] = r[n] => m = n
  /\ h = Null => L = {}
  /\ h # Null => h \in L /\ \A n \in L : r[h] <= r[n]
  /\ \A n \in L : nd[n].cdr = Null => \A m \in L : r[m] <= r[n]
  /\ \A n \in L : nd[n].cdr # Null =>
       /\ nd[n].cdr \in L /\ r[n] < r[nd[n].cdr]
       /\ \A m \in L : r[m] <= r[n] \/ r[nd[n].cdr] <= r[m]

(* Where the entries point, at every access of adding and removing one.    *)
LinkInv(r, t) ==
  /\ Ordered(r, Listed(t), estream_list, node)
  /\ \A n \in Listed(t) :
       \/ /\ pc[t] \in {"add_head", "unlink_next"} /\ node[cur[t]].cdr = n
          /\ node[n].prev_cdr = cur[t]
       \/ /\ ~ (pc[t] \in {"add_head", "unlink_next"} /\ node[cur[t]].cdr = n)
          /\ PointedTo(Listed(t), estream_list, node, node[n].prev_cdr, n)
  /\ pc[t] \in Movers \cup {"unlink"} =>
       cur[t] \in Nodes /\ node[cur[t]].live /\ node[cur[t]].car = this[t]
  /\ pc[t] \in {"add_prev", "add_head"} =>
       node[cur[t]].cdr = estream_list /\ node[cur[t]].prev_cdr = "estream_list"
  /\ pc[t] = "unlink_next" =>
       PointedTo(Listed(t), estream_list, node, node[cur[t]].prev_cdr, node[cur[t]].cdr)

(* Entries and live streams correspond, while none is created or destroyed. *)
Unlisted == {"es_list_add", "es_deinitialize"}
EntryInv(t) ==
  /\ \A n \in Nodes : node[n].live => node[n].car \in Streams /\ stream[node[n].car].live
  /\ \A m, n \in Nodes :
       node[m].live /\ node[n].live /\ node[m].car = node[n].car => m = n
  /\ \A s \in Streams : stream[s].live =>
       \/ \E n \in Nodes : node[n].live /\ node[n].car = s
       \/ pc[t] \in Unlisted /\ this[t] = s
  /\ pc[t] \in Unlisted => \A n \in Nodes : node[n].live => node[n].car # this[t]

(* A stream made for a is not the one of d, where d is 0, 1 or 2.          *)
Another(a, d) == d \in 0 .. 2 => a # d

(* What a search does not find is not there.                               *)
LEMMA NotFound ==
  ASSUME NEW s \in StreamType, NEW d, d # NoStd, ~ IsStdStream(s, d)
  PROVE  Another(s.std, d)
BY DEF StreamType, IsStdStream, Stored, NoStd, Another

(* Standard streams are unique, and one that is being made is not there.   *)
New == {"es_list_add", "add_prev", "add_head", "standard"}
StdInv(t) ==
  /\ \A q, s \in Streams :
       stream[q].live /\ stream[s].live /\ stream[q].std = stream[s].std
         /\ stream[q].std \in 0 .. 2 => q = s
  /\ pc[t] \in New => stream[this[t]].std = NoStd
  /\ pc[t] \in {"find", "standard"} => op[t] = "_es_get_std_stream"
  /\ pc[t] \in New \cup {"create", "bucket"} =>
       \/ op[t] = "es_fdopen"
       \/ /\ op[t] = "_es_get_std_stream"
          /\ \A s \in Streams : stream[s].live => Another(stream[s].std, fd[t])
  /\ op[t] = "_es_get_std_stream" => fd[t] # NoStd

(* A walk is at an entry of the list, and has done its work on those       *)
(* before it.                                                              *)
Walkers == {"find", "es_list_remove", "visit", "advance"}
Passed(t, n) ==
  /\ pc[t] = "find" => Another(stream[node[n].car].std, fd[t])
  /\ pc[t] = "es_list_remove" => node[n].car # this[t]
  /\ pc[t] \in {"visit", "advance"} =>
       (stream[node[n].car].dirty => stream[node[n].car].err)
WalkInv(r, t) == pc[t] \in Walkers =>
  /\ cur[t] \in Listed(t) \cup {Null}
  /\ \A n \in Listed(t) : cur[t] = Null \/ r[n] < r[cur[t]] => Passed(t, n)
  /\ pc[t] = "advance" => cur[t] \in Listed(t) /\ Passed(t, cur[t])

ListInv(r, t) ==
  /\ state # "broken" /\ LinkInv(r, t) /\ EntryInv(t) /\ StdInv(t)
  /\ WalkInv(r, t) /\ AllFlushed

(* The order of the list, and what adding and removing an entry do to it.  *)
LEMMA OrderSame ==
  ASSUME NEW L, NEW r, NEW h, NEW nd, NEW nd2, Ordered(r, L, h, nd),
         \A n \in L : nd2[n].cdr = nd[n].cdr
  PROVE  Ordered(r, L, h, nd2)
BY DEF Ordered

(* One pointer leads to an entry, and none of an entry to the first.       *)
LEMMA OnePointer ==
  ASSUME NEW L, NEW r, \A n \in L : r[n] \in Int, NEW h, NEW nd, Ordered(r, L, h, nd)
  PROVE  \A m \in L : nd[m].cdr # Null =>
           /\ nd[m].cdr \in L /\ nd[m].cdr # m /\ nd[m].cdr # h
           /\ \A n \in L : nd[n].cdr = nd[m].cdr => m = n
<1> TAKE m \in L
<1> HAVE nd[m].cdr # Null
<1>1. /\ nd[m].cdr \in L /\ r[m] < r[nd[m].cdr]
      /\ \A n \in L : r[n] <= r[m] \/ r[nd[m].cdr] <= r[n]
  BY DEF Ordered
<1>2. nd[m].cdr # m
  BY <1>1
<1>3. nd[m].cdr # h
  BY <1>1 DEF Ordered
<1>4. ASSUME NEW n \in L, nd[n].cdr = nd[m].cdr PROVE m = n
  <2>1. /\ r[n] < r[nd[m].cdr]
        /\ \A k \in L : r[k] <= r[n] \/ r[nd[m].cdr] <= r[k]
    BY <1>4 DEF Ordered
  <2>2. r[n] <= r[m] /\ r[m] <= r[n]
    BY <1>1, <2>1
  <2>3. r[n] = r[m]
    BY <2>2
  <2> QED BY <2>3 DEF Ordered
<1> QED BY <1>1, <1>2, <1>3, <1>4

LEMMA OrderUnlinkFirst ==
  ASSUME NEW L, NEW r, \A n \in L : r[n] \in Int, NEW h \in L, h # Null, NEW nd,
         Ordered(r, L, h, nd)
  PROVE  Ordered(r, L \ {h}, nd[h].cdr, nd)
<1> DEFINE K == L \ {h}
           g == nd[h].cdr
<1>1. \A n \in L : nd[n].cdr # Null =>
        /\ nd[n].cdr \in K /\ r[n] < r[nd[n].cdr]
        /\ \A m \in L : r[m] <= r[n] \/ r[nd[n].cdr] <= r[m]
  BY OnePointer DEF Ordered
<1>2. \A m, n \in K : r[m] = r[n] => m = n
  BY DEF Ordered
<1>3. \A n \in K : r[h] <= r[n] /\ r[n] # r[h]
  BY DEF Ordered
<1>4. g = Null => K = {}
  <2> SUFFICES ASSUME g = Null, NEW n \in K PROVE FALSE
    OBVIOUS
  <2>1. r[n] <= r[h]
    BY DEF Ordered
  <2> QED BY <1>3, <2>1
<1>5. g # Null => g \in K /\ \A n \in K : r[g] <= r[n]
  <2> SUFFICES ASSUME g # Null PROVE g \in K /\ \A n \in K : r[g] <= r[n]
    OBVIOUS
  <2>1. g \in K /\ \A m \in L : r[m] <= r[h] \/ r[g] <= r[m]
    BY <1>1
  <2> QED BY <1>3, <2>1
<1>6. \A n \in K : nd[n].cdr = Null => \A m \in K : r[m] <= r[n]
  BY DEF Ordered
<1> HIDE DEF K, g
<1>7. Ordered(r, K, g, nd)
  <2>1. \A n \in K : n \in L
    BY DEF K
  <2> QED BY <1>1, <1>2, <1>4, <1>5, <1>6, <2>1 DEF Ordered
<1> QED BY <1>7 DEF K, g

LEMMA OrderUnlink ==
  ASSUME NEW L, NEW r, \A n \in L : r[n] \in Int, NEW h, NEW nd, Ordered(r, L, h, nd),
         NEW p \in L, NEW x \in L, nd[p].cdr = x, x # Null, NEW nd2, nd2[p].cdr = nd[x].cdr,
         \A n \in L \ {p} : nd2[n].cdr = nd[n].cdr
  PROVE  Ordered(r, L \ {x}, h, nd2)
<1> DEFINE K == L \ {x}
<1>1. x # p /\ x # h /\ \A n \in L : nd[n].cdr = x => n = p
  <2>1. \A m \in L : nd[m].cdr # Null =>
           /\ nd[m].cdr \in L /\ nd[m].cdr # m /\ nd[m].cdr # h
           /\ \A n \in L : nd[n].cdr = nd[m].cdr => m = n
    BY OnePointer, SMTT(20)
  <2> QED BY <2>1
<1>2. \A n \in L : nd[n].cdr # Null =>
        /\ nd[n].cdr \in L /\ r[n] < r[nd[n].cdr]
        /\ \A m \in L : r[m] <= r[n] \/ r[nd[n].cdr] <= r[m]
  BY DEF Ordered
<1>3. \A m, n \in K : r[m] = r[n] => m = n
  BY DEF Ordered
<1>4. \A n \in K : r[n] # r[x]
  BY DEF Ordered
<1>5. h = Null => K = {}
  BY DEF Ordered
<1>6. h # Null => h \in K /\ \A n \in K : r[h] <= r[n]
  BY <1>1 DEF Ordered
<1>7. r[p] < r[x] /\ \A m \in K : r[m] <= r[p] \/ r[x] <= r[m]
  BY <1>2
<1>8. \A n \in K : nd2[n].cdr = Null => \A m \in K : r[m] <= r[n]
  <2> TAKE n \in K
  <2> HAVE nd2[n].cdr = Null
  <2>1. CASE n = p
    <3>1. \A m \in L : r[m] <= r[x]
      BY <2>1 DEF Ordered
    <3>2. \A m \in K : r[m] <= r[p]
      BY <1>4, <1>7, <3>1
    <3> QED BY <2>1, <3>2
  <2>2. CASE n # p
    BY <2>2 DEF Ordered
  <2> QED BY <2>1, <2>2
<1>9. \A n \in K : nd2[n].cdr # Null =>
        /\ nd2[n].cdr \in K /\ r[n] < r[nd2[n].cdr]
        /\ \A m \in K : r[m] <= r[n] \/ r[nd2[n].cdr] <= r[m]
  <2> TAKE n \in K
  <2> HAVE nd2[n].cdr # Null
  <2>1. CASE n = p
    <3> DEFINE y == nd[x].cdr
    <3>1. y \in L /\ r[x] < r[y] /\ \A m \in L : r[m] <= r[x] \/ r[y] <= r[m]
      BY <1>2, <2>1
    <3> HIDE DEF y
    <3>2. y \in K /\ r[p] < r[y]
      BY <1>7, <3>1
    <3>3. \A m \in K : r[m] <= r[p] \/ r[y] <= r[m]
      BY <1>4, <1>7, <3>1
    <3> QED BY <2>1, <3>2, <3>3 DEF y
  <2>2. CASE n # p
    <3>1. nd2[n].cdr = nd[n].cdr /\ nd[n].cdr # x
      BY <1>1, <2>2
    <3> QED BY <1>2, <3>1
  <2> QED BY <2>1, <2>2
<1> HIDE DEF K
<1>10. Ordered(r, K, h, nd2)
  BY <1>3, <1>5, <1>6, <1>8, <1>9 DEF Ordered
<1> QED BY <1>10 DEF K

LEMMA OrderAdd ==
  ASSUME NEW L, NEW r, \A n \in L : r[n] \in Int, NEW h, NEW nd, Ordered(r, L, h, nd),
         NEW x, x \notin L, x # Null, nd[x].cdr = h, NEW r2, r2[x] \in Int,
         h # Null => r2[x] < r[h], \A n \in L : r2[n] = r[n]
  PROVE  Ordered(r2, L \cup {x}, x, nd)
<1> DEFINE K == L \cup {x}
<1>1. \A n \in L : r2[x] < r2[n]
  <2> TAKE n \in L
  <2>1. h # Null /\ h \in L /\ r[h] <= r[n]
    BY DEF Ordered
  <2> QED BY <2>1
<1>2. \A m, n \in L : r2[m] = r2[n] => m = n
  BY DEF Ordered
<1>3. \A m, n \in K : r2[m] = r2[n] => m = n
  BY <1>1, <1>2
<1>4. x \in K /\ \A n \in K : r2[x] <= r2[n]
  BY <1>1
<1>5. \A n \in K : nd[n].cdr = Null => \A m \in K : r2[m] <= r2[n]
  <2> TAKE n \in K
  <2> HAVE nd[n].cdr = Null
  <2>1. CASE n = x
    <3>1. L = {}
      BY <2>1 DEF Ordered
    <3> QED BY <2>1, <3>1
  <2>2. CASE n \in L
    <3>1. \A m \in L : r[m] <= r[n]
      BY <2>2 DEF Ordered
    <3> QED BY <1>1, <2>2, <3>1
  <2> QED BY <2>1, <2>2
<1>6. \A n \in K : nd[n].cdr # Null =>
        /\ nd[n].cdr \in K /\ r2[n] < r2[nd[n].cdr]
        /\ \A m \in K : r2[m] <= r2[n] \/ r2[nd[n].cdr] <= r2[m]
  <2> TAKE n \in K
  <2> HAVE nd[n].cdr # Null
  <2>1. CASE n = x
    <3>1. h \in L /\ \A m \in L : r[h] <= r[m]
      BY <2>1 DEF Ordered
    <3> QED BY <1>1, <2>1, <3>1
  <2>2. CASE n \in L
    <3>1. /\ nd[n].cdr \in L /\ r[n] < r[nd[n].cdr]
          /\ \A m \in L : r[m] <= r[n] \/ r[nd[n].cdr] <= r[m]
      BY <2>2 DEF Ordered
    <3> QED BY <1>1, <2>2, <3>1
  <2> QED BY <2>1, <2>2
<1> HIDE DEF K
<1>7. Ordered(r2, K, x, nd)
  BY <1>3, <1>4, <1>5, <1>6 DEF Ordered
<1> QED BY <1>7 DEF K

(* The entries while none is added or removed.                             *)
LEMMA LinkStays ==
  ASSUME NEW r, NEW t, LinkInv(r, t), pc[t] \notin Movers, pc'[t] \notin Movers,
         UNCHANGED <<estream_list, node>>,
         pc'[t] = "unlink" =>
           cur'[t] \in Nodes /\ node[cur'[t]].live /\ node[cur'[t]].car = this'[t]
  PROVE  LinkInv(r, t)' /\ Listed(t)' = Listed(t)
<1>1. Listed(t)' = Listed(t)
  BY DEF Listed
<1>2. /\ pc[t] \notin {"add_prev", "add_head", "unlink_next"}
      /\ pc'[t] \notin {"add_prev", "add_head", "unlink_next"}
  BY DEF Movers
<1>3. \A n \in Listed(t) : PointedTo(Listed(t), estream_list, node, node[n].prev_cdr, n)
  BY <1>2 DEF LinkInv
<1>4. Ordered(r, Listed(t), estream_list, node)
  BY DEF LinkInv
<1> QED BY <1>1, <1>2, <1>3, <1>4 DEF LinkInv

(* Every step that adds or removes an entry leaves the entries pointing    *)
(* where they should.  First, what the type invariant says of them.        *)
LEMMA LinkTypes ==
  ASSUME LifeInv, NEW r \in [Nodes -> Int], NEW t \in Threads, LinkInv(r, t), Running
  PROVE  /\ ThreadTypes /\ ThreadInv /\ node \in [Nodes -> Entry]
         /\ estream_list \in Nodes \cup {Null} /\ Null \notin Nodes /\ "estream_list" \notin Nodes
         /\ Listed(t) \subseteq Entries /\ \A n \in Listed(t) : r[n] \in Int /\ n # Null
         /\ Ordered(r, Listed(t), estream_list, node)
<1>1. /\ ThreadTypes /\ ThreadInv /\ node \in [Nodes -> Entry]
      /\ estream_list \in Nodes \cup {Null}
  BY TypeParts DEF LifeInv, Running
<1>2. Null \notin Nodes /\ "estream_list" \notin Nodes
  BY AddressAssumption
<1>3. Listed(t) \subseteq Entries /\ Entries \subseteq Nodes
  BY DEF Listed, Entries
<1>4. \A n \in Listed(t) : r[n] \in Int /\ n # Null
  BY <1>2, <1>3
<1> QED BY <1>1, <1>2, <1>3, <1>4 DEF LinkInv

LEMMA LinkAdd ==
  ASSUME LifeInv, NEW r \in [Nodes -> Int], NEW t \in Threads, LinkInv(r, t), es_list_add(t)
  PROVE  LinkInv(r, t)'
<1> DEFINE L == Listed(t)
<1>0. /\ ThreadTypes /\ ThreadInv /\ node \in [Nodes -> Entry]
      /\ estream_list \in Nodes \cup {Null} /\ Null \notin Nodes /\ "estream_list" \notin Nodes
      /\ L \subseteq Entries /\ \A n \in L : r[n] \in Int /\ n # Null
      /\ Ordered(r, L, estream_list, node)
  BY LinkTypes DEF es_list_add, At
<1>1. PICK x \in Nodes :
        /\ ~ node[x].live
        /\ node' = [node EXCEPT ![x] = [live |-> TRUE, car |-> this[t], cdr |-> estream_list,
                                       prev_cdr |-> "estream_list"]]
        /\ Look(t, x)
  BY DEF es_list_add
<1>2. /\ pc[t] = "es_list_add" /\ pc'[t] = "add_prev" /\ cur'[t] = x
      /\ UNCHANGED <<estream_list, this>>
  BY <1>0, <1>1 DEF es_list_add, At, Goto, Look, ThreadTypes
<1>3. /\ \A n \in Nodes \ {x} : node'[n] = node[n]
      /\ node'[x].live /\ node'[x].car = this[t] /\ node'[x].cdr = estream_list
      /\ node'[x].prev_cdr = "estream_list"
  BY <1>0, <1>1
<1>4. x \notin L /\ L \subseteq Nodes
  BY <1>1 DEF Listed
<1>5. Listed(t)' = L
  <2>1. \A n \in Nodes : n \in Listed(t)' <=> node'[n].live /\ n # x
    BY <1>2 DEF Listed, Movers
  <2>2. \A n \in Nodes : n \in L <=> node[n].live
    BY <1>2 DEF Listed, Movers
  <2>3. \A n \in Nodes : n \in Listed(t)' <=> n \in L
    BY <1>1, <1>3, <2>1, <2>2
  <2> QED BY <1>4, <2>3 DEF Listed
<1>6. \A n \in L : node'[n] = node[n]
  BY <1>3, <1>4
<1>7. \A n \in L : PointedTo(L, estream_list, node, node[n].prev_cdr, n)
  BY <1>2 DEF LinkInv
<1> HIDE DEF L
<1>8. \A n \in L : PointedTo(L, estream_list, node', node'[n].prev_cdr, n)
  BY <1>6, <1>7 DEF PointedTo
<1>9. Ordered(r, L, estream_list, node')
  BY <1>0, <1>6, OrderSame
<1> QED BY <1>2, <1>3, <1>5, <1>8, <1>9 DEF LinkInv

LEMMA LinkAddPrev ==
  ASSUME LifeInv, NEW r \in [Nodes -> Int], NEW t \in Threads, LinkInv(r, t), add_prev(t)
  PROVE  LinkInv(r, t)' /\ UNCHANGED state
<1> DEFINE L == Listed(t)
<1>0. /\ ThreadTypes /\ ThreadInv /\ node \in [Nodes -> Entry]
      /\ estream_list \in Nodes \cup {Null} /\ Null \notin Nodes /\ "estream_list" \notin Nodes
      /\ L \subseteq Entries /\ \A n \in L : r[n] \in Int /\ n # Null
      /\ Ordered(r, L, estream_list, node)
  BY LinkTypes DEF add_prev, At
<1>1. estream_list # Null => estream_list \in L
  BY <1>0 DEF Ordered
<1>2. /\ node' = [n \in Nodes |-> IF n = estream_list
                                  THEN [node[n] EXCEPT !.prev_cdr = cur[t]] ELSE node[n]]
      /\ Goto(t, "add_head")
      /\ UNCHANGED <<estream_list, stream, object, op, fd, cur, this, cookie,
                     initialized, state>>
  BY <1>0, <1>1 DEF add_prev
<1>3. pc[t] = "add_prev" /\ pc'[t] = "add_head"
  BY <1>0, <1>2 DEF add_prev, At, Goto, ThreadTypes
<1>4. /\ cur[t] \in Nodes /\ node[cur[t]].live /\ node[cur[t]].car = this[t]
      /\ node[cur[t]].cdr = estream_list /\ node[cur[t]].prev_cdr = "estream_list"
  BY <1>3 DEF LinkInv, Movers
<1>5. cur[t] \notin L /\ cur[t] # estream_list
  <2>1. cur[t] \notin L
    BY <1>3 DEF Listed, Movers
  <2> QED BY <1>0, <1>1, <1>4, <2>1
<1>6. \A n \in Nodes : /\ node'[n].live = node[n].live /\ node'[n].car = node[n].car
                       /\ node'[n].cdr = node[n].cdr
                       /\ n # estream_list => node'[n] = node[n]
                       /\ n = estream_list => node'[n].prev_cdr = cur[t]
  BY <1>0, <1>2 DEF Entry
<1>7. Listed(t)' = L
  BY <1>2, <1>3, <1>6 DEF Listed, Movers
<1>8. \A n \in L : PointedTo(L, estream_list, node, node[n].prev_cdr, n)
  BY <1>3 DEF LinkInv
<1>9. L \subseteq Nodes
  BY DEF Listed
<1> HIDE DEF L
<1>10. \A n \in L : n # estream_list => PointedTo(L, estream_list, node', node'[n].prev_cdr, n)
  BY <1>6, <1>8, <1>9 DEF PointedTo
<1>11. Ordered(r, L, estream_list, node')
  <2>1. \A n \in L : node'[n].cdr = node[n].cdr
    BY <1>6, <1>9
  <2> QED BY <1>0, <2>1, OrderSame
<1>12. /\ node'[cur'[t]].live /\ node'[cur'[t]].car = this'[t] /\ cur'[t] = cur[t]
       /\ node'[cur'[t]].cdr = estream_list' /\ node'[cur'[t]].prev_cdr = "estream_list"
  BY <1>2, <1>4, <1>5, <1>6
<1>13. \A n \in L :
         \/ /\ pc'[t] \in {"add_head", "unlink_next"} /\ node'[cur'[t]].cdr = n
            /\ node'[n].prev_cdr = cur'[t]
         \/ /\ ~ (pc'[t] \in {"add_head", "unlink_next"} /\ node'[cur'[t]].cdr = n)
            /\ PointedTo(L, estream_list', node', node'[n].prev_cdr, n)
  BY <1>2, <1>3, <1>6, <1>9, <1>10, <1>12
<1> QED BY <1>2, <1>3, <1>4, <1>7, <1>11, <1>12, <1>13 DEF LinkInv

(* The entry becomes the first: a new order puts it before all others.     *)
LEMMA LinkAddHead ==
  ASSUME LifeInv, NEW r \in [Nodes -> Int], NEW t \in Threads, LinkInv(r, t), add_head(t)
  PROVE  \E r2 \in [Nodes -> Int] : LinkInv(r2, t)'
<1> DEFINE L == Listed(t)
           x == cur[t]
           h == estream_list
           r2 == [r EXCEPT ![x] = IF h = Null THEN 0 ELSE r[h] - 1]
<1>0. /\ ThreadTypes /\ ThreadInv /\ node \in [Nodes -> Entry]
      /\ h \in Nodes \cup {Null} /\ Null \notin Nodes /\ "estream_list" \notin Nodes
      /\ L \subseteq Entries /\ \A n \in L : r[n] \in Int /\ n # Null
      /\ Ordered(r, L, h, node)
  BY LinkTypes DEF add_head, At
<1>1. pc[t] = "add_head" /\ pc'[t] \in {"idle", "standard"} /\ estream_list' = x /\ node' = node
  BY <1>0 DEF add_head, At, Goto, Return, ThreadTypes
<1>2. /\ x \in Nodes /\ node[x].live /\ node[x].cdr = h /\ node[x].prev_cdr = "estream_list"
      /\ x \notin L
  BY <1>1 DEF LinkInv, Listed, Movers
<1>3. h # Null => h \in L
  BY <1>0 DEF Ordered
<1>4. Listed(t)' = L \cup {x}
  <2>1. \A n \in Nodes : n \in Listed(t)' <=> node[n].live
    BY <1>1 DEF Listed, Movers
  <2>2. \A n \in Nodes : n \in L <=> node[n].live /\ n # x
    BY <1>1 DEF Listed, Movers
  <2>3. Listed(t)' \subseteq Nodes /\ L \subseteq Nodes
    BY DEF Listed
  <2> HIDE DEF L, x
  <2> QED BY <1>2, <2>1, <2>2, <2>3
<1>5. \A n \in L : \/ n = h /\ node[n].prev_cdr = x
                   \/ n # h /\ PointedTo(L, h, node, node[n].prev_cdr, n)
  BY <1>1, <1>2 DEF LinkInv
<1> HIDE DEF L, x, h
<1>6. \A n \in L \cup {x} : PointedTo(L \cup {x}, x, node, node[n].prev_cdr, n)
  BY <1>2, <1>5 DEF PointedTo
<1>7. r2 \in [Nodes -> Int]
  BY <1>0, <1>2, <1>3
<1>8. r2[x] \in Int /\ (h # Null => r2[x] < r[h]) /\ \A n \in L : r2[n] = r[n]
  <2>1. r2[x] = IF h = Null THEN 0 ELSE r[h] - 1
    BY <1>2
  <2>2. \A n \in L : r2[n] = r[n]
    BY <1>0, <1>2 DEF Entries
  <2> QED BY <1>0, <1>3, <2>1, <2>2
<1> HIDE DEF r2
<1> PICK k \in [Nodes -> Int] : k = r2
  BY <1>7
<1>9. Ordered(k, L \cup {x}, x, node)
  BY <1>0, <1>2, <1>8, OrderAdd
<1>10. pc'[t] \notin Movers \cup {"unlink", "add_prev", "add_head", "unlink_next"}
  BY <1>1 DEF Movers
<1>11. LinkInv(k, t)'
  BY <1>1, <1>4, <1>6, <1>9, <1>10 DEF LinkInv
<1> QED BY <1>11

LEMMA LinkUnlink ==
  ASSUME LifeInv, NEW r \in [Nodes -> Int], NEW t \in Threads, LinkInv(r, t), unlink(t)
  PROVE  LinkInv(r, t)' /\ UNCHANGED state
<1> DEFINE L == Listed(t)
           x == cur[t]
           h == estream_list
           p == node[x].prev_cdr
           K == L \ {x}
<1>0. /\ ThreadTypes /\ ThreadInv /\ node \in [Nodes -> Entry]
      /\ h \in Nodes \cup {Null} /\ Null \notin Nodes /\ "estream_list" \notin Nodes
      /\ L \subseteq Entries /\ \A n \in L : r[n] \in Int /\ n # Null
      /\ Ordered(r, L, h, node)
  BY LinkTypes DEF unlink, At
<1>1. pc[t] = "unlink" /\ pc'[t] = "unlink_next" /\ UNCHANGED <<cur, this>>
  BY <1>0 DEF unlink, At, Goto, ThreadTypes
<1>2. x \in L /\ x \in Nodes /\ node[x].live /\ node[x].car = this[t]
  BY <1>1 DEF LinkInv, Listed, Movers
<1>3. \A n \in L : PointedTo(L, h, node, node[n].prev_cdr, n)
  BY <1>1 DEF LinkInv
<1>4. L \subseteq Nodes /\ Null \notin L /\ "estream_list" \notin L
  BY <1>0 DEF Listed
<1>5. \A m \in L : node[m].cdr # Null =>
        /\ node[m].cdr \in L /\ node[m].cdr # m /\ node[m].cdr # h
        /\ \A n \in L : node[n].cdr = node[m].cdr => m = n
  BY <1>0, OnePointer
<1>6. node[x].cdr \in Nodes \cup {Null} /\ p \in Nodes \cup {"estream_list"}
  BY <1>0, <1>2 DEF Entry
<1>7. (* What the two places that may hold the pointer become.              *)
      /\ \A n \in L : /\ node'[n].live = node[n].live /\ node'[n].car = node[n].car
                      /\ node'[n].prev_cdr = node[n].prev_cdr
                      /\ n # p => node'[n].cdr = node[n].cdr
      /\ \A n \in Nodes : node'[n].live = node[n].live
      /\ \/ p = "estream_list" /\ h = x /\ estream_list' = node[x].cdr /\ node' = node
         \/ p \in K /\ node[p].cdr = x /\ node'[p].cdr = node[x].cdr /\ estream_list' = h
      /\ UNCHANGED state
  <2>1. CASE p = "estream_list"
    <3>1. estream_list' = node[x].cdr /\ UNCHANGED <<node, state>>
      BY <2>1 DEF unlink
    <3>2. h = x
      BY <1>2, <1>3, <1>4, <2>1 DEF PointedTo
    <3> QED BY <2>1, <3>1, <3>2
  <2>2. CASE p # "estream_list"
    <3>1. /\ node' = [node EXCEPT ![p].cdr = node[x].cdr] /\ UNCHANGED estream_list
          /\ state' = IF p \in Entries THEN state ELSE "broken"
      BY <2>2 DEF unlink
    <3>2. p \in L /\ node[p].cdr = x
      BY <1>2, <1>3, <2>2 DEF PointedTo
    <3>3. p # x
      BY <1>2, <1>4, <1>5, <3>2
    <3>4. p \in Entries /\ p \in Nodes
      BY <1>0, <1>4, <3>2
    <3> HIDE DEF p, L, x, h
    <3>5. \A n \in Nodes : /\ node'[n].live = node[n].live /\ node'[n].car = node[n].car
                           /\ node'[n].prev_cdr = node[n].prev_cdr
                           /\ n # p => node'[n].cdr = node[n].cdr
      BY <1>0, <3>1, <3>4 DEF Entry
    <3>6. node'[p].cdr = node[x].cdr
      BY <1>0, <3>1, <3>4 DEF Entry
    <3>7. UNCHANGED state
      BY <3>1, <3>4
    <3>8. p \in K /\ node[p].cdr = x /\ node'[p].cdr = node[x].cdr /\ estream_list' = h
      BY <3>1, <3>2, <3>3, <3>6 DEF h
    <3>9. \A n \in L : n \in Nodes
      BY <1>4
    <3> HIDE DEF K
    <3> QED BY <3>5, <3>7, <3>8, <3>9
  <2> QED BY <2>1, <2>2
<1>8. Listed(t)' = K
  <2>1. \A n \in Nodes : n \in Listed(t)' <=> node[n].live /\ n # x
    BY <1>1, <1>7 DEF Listed, Movers
  <2>2. \A n \in Nodes : n \in L <=> node[n].live
    BY <1>1 DEF Listed, Movers
  <2>3. Listed(t)' \subseteq Nodes /\ L \subseteq Nodes
    BY DEF Listed
  <2> HIDE DEF L, x
  <2> QED BY <1>2, <2>1, <2>2, <2>3
<1> HIDE DEF L, x, h, p
<1>9. Ordered(r, K, estream_list', node')
  <2>1. CASE p = "estream_list" /\ h = x /\ estream_list' = node[x].cdr /\ node' = node
    <3>1. h \in L /\ h # Null
      BY <1>2, <1>4, <2>1
    <3>2. Ordered(r, L \ {h}, node[h].cdr, node)
      BY <1>0, <3>1, OrderUnlinkFirst
    <3> QED BY <2>1, <3>2
  <2>2. CASE p \in K /\ node[p].cdr = x /\ node'[p].cdr = node[x].cdr /\ estream_list' = h
    <3>1. \A n \in L \ {p} : node'[n].cdr = node[n].cdr
      BY <1>7
    <3>2. p \in L /\ x # Null
      BY <1>2, <1>4, <2>2
    <3> HIDE DEF K
    <3>3. Ordered(r, L \ {x}, h, node')
      BY <1>0, <1>2, <2>2, <3>1, <3>2, OrderUnlink
    <3> QED BY <2>2, <3>3 DEF K
  <2> QED BY <1>7, <2>1, <2>2
<1>10. PointedTo(K, estream_list', node', p, node[x].cdr)
  BY <1>7 DEF PointedTo
<1>11. node'[x].cdr = node[x].cdr /\ node'[x].prev_cdr = p /\ node'[x].live /\ node'[x].car = this[t]
  <2>1. x # p
    BY <1>4, <1>2, <1>7
  <2> QED BY <1>2, <1>7, <2>1 DEF p
<1>12. \A n \in K :
         \/ node[x].cdr = n /\ node'[n].prev_cdr = x
         \/ node[x].cdr # n /\ PointedTo(K, estream_list', node', node'[n].prev_cdr, n)
  <2> TAKE n \in K
  <2>0. n \in L /\ n # x /\ node'[n].prev_cdr = node[n].prev_cdr
    BY <1>7
  <2>1. PointedTo(L, h, node, node[n].prev_cdr, n)
    BY <1>3, <2>0
  <2>2. CASE node[x].cdr = n
    <3>1. node[x].cdr # Null
      BY <1>4, <2>0, <2>2
    <3>2. n # h /\ \A m \in L : node[m].cdr = n => m = x
      BY <1>2, <1>5, <2>2, <3>1
    <3>3. node[n].prev_cdr = x
      BY <2>1, <3>2 DEF PointedTo
    <3> QED BY <2>0, <2>2, <3>3
  <2>3. CASE node[x].cdr # n
    <3>1. CASE node[n].prev_cdr = "estream_list" /\ h = n
      BY <1>7, <2>0, <2>3, <3>1 DEF PointedTo
    <3>2. CASE node[n].prev_cdr \in L /\ node[node[n].prev_cdr].cdr = n
      <4> DEFINE q == node[n].prev_cdr
      <4>1. q # x /\ q \in L /\ node[q].cdr = n
        BY <2>3, <3>2
      <4> HIDE DEF q
      <4>2. node'[q].cdr = n
        BY <1>7, <2>0, <4>1
      <4>3. PointedTo(K, estream_list', node', q, n)
        BY <4>1, <4>2 DEF PointedTo
      <4> QED BY <2>0, <2>3, <4>3 DEF q
    <3> QED BY <2>1, <3>1, <3>2 DEF PointedTo
  <2> QED BY <2>2, <2>3
<1> HIDE DEF K
<1>13. /\ \A n \in K :
            \/ /\ pc'[t] \in {"add_head", "unlink_next"} /\ node'[cur'[t]].cdr = n
               /\ node'[n].prev_cdr = cur'[t]
            \/ /\ ~ (pc'[t] \in {"add_head", "unlink_next"} /\ node'[cur'[t]].cdr = n)
               /\ PointedTo(K, estream_list', node', node'[n].prev_cdr, n)
       /\ PointedTo(K, estream_list', node', node'[cur'[t]].prev_cdr, node'[cur'[t]].cdr)
       /\ cur'[t] \in Nodes /\ node'[cur'[t]].live /\ node'[cur'[t]].car = this'[t]
  BY <1>1, <1>2, <1>10, <1>11, <1>12 DEF x
<1> QED BY <1>1, <1>7, <1>8, <1>9, <1>13 DEF LinkInv

LEMMA LinkUnlinkNext ==
  ASSUME LifeInv, NEW r \in [Nodes -> Int], NEW t \in Threads, LinkInv(r, t), unlink_next(t)
  PROVE  LinkInv(r, t)' /\ UNCHANGED state
<1> DEFINE L == Listed(t)
           x == cur[t]
           h == estream_list
           p == node[x].prev_cdr
           y == node[x].cdr
<1>0. /\ ThreadTypes /\ ThreadInv /\ node \in [Nodes -> Entry]
      /\ h \in Nodes \cup {Null} /\ Null \notin Nodes /\ "estream_list" \notin Nodes
      /\ L \subseteq Entries /\ \A n \in L : r[n] \in Int /\ n # Null
      /\ Ordered(r, L, h, node)
  BY LinkTypes DEF unlink_next, At
<1>1. pc[t] = "unlink_next" /\ pc'[t] = "es_deinitialize" /\ UNCHANGED estream_list
  BY <1>0 DEF unlink_next, At, Goto, ThreadTypes
<1>2. x \in Nodes /\ x \notin L /\ node[x].live /\ PointedTo(L, h, node, p, y)
  BY <1>1 DEF LinkInv, Listed, Movers
<1>3. y # Null => y \in L
  <2>1. \A m \in L : node[m].cdr # Null => node[m].cdr \in L
    BY <1>0 DEF Ordered
  <2>2. h # Null => h \in L
    BY <1>0 DEF Ordered
  <2> QED BY <1>2, <2>1, <2>2 DEF PointedTo
<1>4. \A n \in L : \/ n = y /\ node[n].prev_cdr = x
                   \/ n # y /\ PointedTo(L, h, node, node[n].prev_cdr, n)
  BY <1>1 DEF LinkInv
<1>5. L \subseteq Nodes /\ y # x
  <2>1. L \subseteq Nodes
    BY DEF Listed
  <2> QED BY <1>0, <1>2, <1>3, <2>1
<1>6. /\ node' = [m \in Nodes |->
                    CASE m = x -> NoNode
                      [] m = y /\ m # x -> [node[m] EXCEPT !.prev_cdr = p]
                      [] OTHER -> node[m]]
      /\ state' = IF node[x].live /\ y \in Entries \cup {Null} THEN state ELSE "broken"
  BY DEF unlink_next
<1>7. UNCHANGED state
  BY <1>0, <1>2, <1>3, <1>6
<1> HIDE DEF L, x, h, p, y
<1>8. /\ node'[x] = NoNode /\ ~ node'[x].live
      /\ \A n \in Nodes \ {x} : n # y => node'[n] = node[n]
      /\ \A n \in Nodes \ {x} : n = y => node'[n] = [node[n] EXCEPT !.prev_cdr = p]
  BY <1>2, <1>6 DEF NoNode
<1>9. \A n \in Nodes \ {x} :
        /\ node'[n].live = node[n].live /\ node'[n].car = node[n].car
        /\ node'[n].cdr = node[n].cdr
        /\ (n = y => node'[n].prev_cdr = p)
        /\ (n # y => node'[n].prev_cdr = node[n].prev_cdr)
  <2> TAKE n \in Nodes \ {x}
  <2>1. CASE n = y
    <3>1. node[n] \in Entry /\ node'[n] = [node[n] EXCEPT !.prev_cdr = p]
      BY <1>0, <1>8, <2>1
    <3> QED BY <2>1, <3>1 DEF Entry
  <2>2. CASE n # y
    BY <1>8, <2>2
  <2> QED BY <2>1, <2>2
<1>10. Listed(t)' = L
  <2>1. \A n \in Nodes : n \in Listed(t)' <=> node'[n].live
    BY <1>1 DEF Listed, Movers
  <2>2. \A n \in Nodes : n \in L <=> node[n].live /\ n # x
    BY <1>1 DEF L, x, Listed, Movers
  <2>3. \A n \in Nodes : n \in Listed(t)' <=> n \in L
    BY <1>8, <1>9, <2>1, <2>2
  <2>4. Listed(t)' \subseteq Nodes
    BY DEF Listed
  <2> QED BY <1>5, <2>3, <2>4
<1>11. \A n \in L : n \in Nodes \ {x}
  BY <1>2, <1>5
<1>12. Ordered(r, L, h, node')
  BY <1>0, <1>9, <1>11, OrderSame
<1>13. \A n \in L : PointedTo(L, h, node', node'[n].prev_cdr, n)
  BY <1>2, <1>4, <1>9, <1>11 DEF PointedTo
<1>14. pc'[t] \notin Movers \cup {"unlink", "add_prev", "add_head", "unlink_next"}
  BY <1>1 DEF Movers
<1> QED BY <1>1, <1>7, <1>10, <1>12, <1>13, <1>14 DEF LinkInv, h

-----------------------------------------------------------------------------
(* The streams of the list, and the walks, under one thread's steps.       *)
LEMMA EntryStays ==
  ASSUME NEW t, EntryInv(t), pc[t] \notin Unlisted,
         \A n \in Nodes : node'[n].live = node[n].live /\ node'[n].car = node[n].car,
         \A s \in Streams : stream'[s].live = stream[s].live,
         pc'[t] \in Unlisted => \A n \in Nodes : node[n].live => node[n].car # this'[t]
  PROVE  EntryInv(t)'
<1>1. \A n \in Nodes : node'[n].live => node'[n].car \in Streams /\ stream'[node'[n].car].live
  BY DEF EntryInv
<1>2. \A m, n \in Nodes :
        node'[m].live /\ node'[n].live /\ node'[m].car = node'[n].car => m = n
  BY DEF EntryInv
<1>3. \A s \in Streams : stream'[s].live => \E n \in Nodes : node'[n].live /\ node'[n].car = s
  <2> TAKE s \in Streams
  <2> HAVE stream'[s].live
  <2>1. stream[s].live
    OBVIOUS
  <2>2. PICK n \in Nodes : node[n].live /\ node[n].car = s
    BY <2>1 DEF EntryInv
  <2> QED BY <2>2
<1>4. pc'[t] \in Unlisted => \A n \in Nodes : node'[n].live => node'[n].car # this'[t]
  OBVIOUS
<1> QED BY <1>1, <1>2, <1>3, <1>4 DEF EntryInv

LEMMA StdStays ==
  ASSUME NEW t, StdInv(t),
         \A s \in Streams : stream'[s].live = stream[s].live /\ stream'[s].std = stream[s].std,
         pc'[t] \in New => pc[t] \in New /\ this'[t] = this[t] /\ this[t] \in Streams,
         pc'[t] \in {"find", "standard"} => op'[t] = "_es_get_std_stream",
         pc'[t] \in New \cup {"create", "bucket"} =>
           \/ op'[t] = "es_fdopen"
           \/ /\ op'[t] = "_es_get_std_stream"
              /\ \A s \in Streams : stream[s].live => Another(stream[s].std, fd'[t]),
         op'[t] = "_es_get_std_stream" => fd'[t] # NoStd
  PROVE  StdInv(t)'
<1>1. \A q, s \in Streams :
        stream'[q].live /\ stream'[s].live /\ stream'[q].std = stream'[s].std
          /\ stream'[q].std \in 0 .. 2 => q = s
  BY DEF StdInv
<1>2. pc'[t] \in New => stream'[this'[t]].std = NoStd
  BY DEF StdInv
<1>3. pc'[t] \in New \cup {"create", "bucket"} =>
        \/ op'[t] = "es_fdopen"
        \/ /\ op'[t] = "_es_get_std_stream"
           /\ \A s \in Streams : stream'[s].live => Another(stream'[s].std, fd'[t])
  OBVIOUS
<1>4. NoStd' = NoStd
  BY DEF NoStd
<1> QED BY <1>1, <1>2, <1>3, <1>4 DEF StdInv

(* Nothing comes before the first entry.                                   *)
LEMMA WalkStarts ==
  ASSUME NEW r, NEW t, Ordered(r, Listed(t), estream_list, node),
         \A n \in Listed(t) : r[n] \in Int,
         UNCHANGED <<estream_list, node>>, Listed(t)' = Listed(t),
         cur'[t] = estream_list, pc'[t] # "advance"
  PROVE  WalkInv(r, t)'
<1> DEFINE L == Listed(t)
<1>1. cur'[t] \in L \cup {Null}
  BY DEF Ordered
<1>2. \A n \in L : cur'[t] # Null /\ ~ r[n] < r[cur'[t]]
  <2> HIDE DEF L
  <2> TAKE n \in L
  <2>1. estream_list # Null /\ estream_list \in L /\ r[estream_list] <= r[n]
    BY DEF Ordered, L
  <2> QED BY <2>1 DEF L
<1> QED BY <1>1, <1>2 DEF WalkInv

LEMMA CallList ==
  ASSUME LifeInv, LifeInv', NEW r \in [Nodes -> Int], NEW t \in Threads, ListInv(r, t),
         es_fdopen(t) \/ es_fclose(t) \/ es_init(t) \/ es_fflush_all(t) \/ exit(t)
           \/ \E d \in StdFds : _es_get_std_stream(t, d)
  PROVE  ListInv(r, t)'
<1>0. /\ LinkInv(r, t) /\ EntryInv(t) /\ StdInv(t) /\ pc[t] = "idle" /\ state = "runs"
      /\ UNCHANGED <<estream_list, node, stream>>
  BY DEF ListInv, es_fdopen, es_fclose, es_init, es_fflush_all, exit, _es_get_std_stream, At
<1>1. /\ ThreadTypes /\ \A n \in Listed(t) : r[n] \in Int /\ n # Null
      /\ Ordered(r, Listed(t), estream_list, node)
  BY <1>0, LinkTypes DEF Running
<1>2. \/ pc'[t] = "create" /\ op'[t] = "es_fdopen" /\ cur'[t] = cur[t] /\ UNCHANGED state
      \/ pc'[t] = "es_list_remove" /\ op'[t] = "es_fclose" /\ cur'[t] = estream_list /\ UNCHANGED state
      \/ pc'[t] = "idle" /\ op'[t] = op[t] /\ fd'[t] = fd[t] /\ UNCHANGED state
      \/ pc'[t] = "visit" /\ op'[t] = "es_fflush" /\ cur'[t] = estream_list /\ UNCHANGED state
      \/ pc'[t] = "visit" /\ op'[t] = "es_deinit" /\ cur'[t] = estream_list /\ state' = "exits"
      \/ /\ pc'[t] = "idle" /\ op'[t] = op[t] /\ fd'[t] = fd[t]
         /\ state' = "exited" /\ ~ initialized'
      \/ /\ pc'[t] = "find" /\ op'[t] = "_es_get_std_stream" /\ cur'[t] = estream_list
         /\ fd'[t] # NoStd /\ UNCHANGED state
  <2>1. \A d \in StdFds : Remainder(d) # NoStd
    <3> TAKE d \in StdFds
    <3>1. d \in Int
      BY ClientAssumption
    <3> QED BY <3>1 DEF Remainder, NoStd
  <2> QED BY <1>0, <1>1, <2>1 DEF es_fdopen, es_fclose, es_init, es_fflush_all, exit,
          _es_get_std_stream, local, Begin, Goto, Look, ThreadTypes
<1>3. pc'[t] \in {"create", "es_list_remove", "idle", "visit", "find"}
  BY <1>2
<1>4. LinkInv(r, t)' /\ Listed(t)' = Listed(t)
  BY <1>0, <1>3, LinkStays DEF Movers
<1>5. EntryInv(t)'
  BY <1>0, <1>3, EntryStays DEF Unlisted
<1>6. StdInv(t)'
  <2>1. op[t] = "_es_get_std_stream" => fd[t] # NoStd
    BY <1>0 DEF StdInv
  <2>2. op'[t] = "_es_get_std_stream" => fd'[t] # NoStd
    BY <1>2, <2>1
  <2>3. pc'[t] \in {"find", "standard"} => op'[t] = "_es_get_std_stream"
    BY <1>2
  <2>4. pc'[t] \notin New /\ (pc'[t] \in {"create", "bucket"} => op'[t] = "es_fdopen")
    BY <1>2 DEF New
  <2> QED BY <1>0, <2>2, <2>3, <2>4, StdStays
<1>7. WalkInv(r, t)'
  <2>1. CASE cur'[t] = estream_list /\ pc'[t] # "advance"
    BY <1>0, <1>1, <1>4, <2>1, WalkStarts
  <2>2. CASE pc'[t] \notin Walkers
    BY <2>2 DEF WalkInv
  <2> QED BY <1>2, <2>1, <2>2 DEF Walkers
<1>8. state' # "broken" /\ AllFlushed'
  BY <1>0, <1>2 DEF AllFlushed
<1> QED BY <1>4, <1>5, <1>6, <1>7, <1>8 DEF ListInv

(* Between an entry and the next one there is none.                        *)
LEMMA WalkAdvances ==
  ASSUME NEW r, NEW t, Ordered(r, Listed(t), estream_list, node),
         \A n \in Listed(t) : r[n] \in Int /\ n # Null,
         WalkInv(r, t), pc[t] \in Walkers, cur[t] \in Listed(t),
         Listed(t)' = Listed(t), cur'[t] = node[cur[t]].cdr, pc'[t] # "advance",
         \A n \in Listed(t) : (n = cur[t] \/ Passed(t, n)) => Passed(t, n)'
  PROVE  WalkInv(r, t)'
<1> DEFINE L == Listed(t)
           x == cur[t]
           y == node[x].cdr
<1>1. /\ y # Null => y \in L /\ r[x] < r[y] /\ \A m \in L : r[m] <= r[x] \/ r[y] <= r[m]
      /\ y = Null => \A m \in L : r[m] <= r[x]
      /\ \A m, n \in L : r[m] = r[n] => m = n
      /\ x \in L
  BY DEF Ordered
<1>2. \A n \in L : r[n] < r[x] => Passed(t, n)
  BY DEF WalkInv
<1> HIDE DEF L, x, y
<1>3. \A n \in L : r[n] \in Int
  BY DEF L
<1>4. \A n \in L : y = Null \/ r[n] < r[y] => n = x \/ Passed(t, n)
  <2> TAKE n \in L
  <2> HAVE y = Null \/ r[n] < r[y]
  <2>1. r[n] <= r[x]
    <3>1. CASE y = Null
      BY <1>1, <3>1
    <3>2. CASE y # Null /\ r[n] < r[y]
      <4>1. y \in L /\ (r[n] <= r[x] \/ r[y] <= r[n])
        BY <1>1, <3>2
      <4> QED BY <1>1, <1>3, <3>2, <4>1
    <3> QED BY <3>1, <3>2
  <2>2. r[n] < r[x] \/ r[n] = r[x]
    BY <1>1, <1>3, <2>1
  <2> QED BY <1>1, <1>2, <2>2
<1>5. \A n \in L : cur'[t] = Null \/ r[n] < r[cur'[t]] => Passed(t, n)'
  BY <1>4 DEF L, x, y
<1>6. cur'[t] \in L \cup {Null}
  BY <1>1 DEF y, x
<1> QED BY <1>5, <1>6 DEF WalkInv, L

LEMMA FindList ==
  ASSUME LifeInv, LifeInv', NEW r \in [Nodes -> Int], NEW t \in Threads, ListInv(r, t), find(t)
  PROVE  ListInv(r, t)'
<1>0. /\ LinkInv(r, t) /\ EntryInv(t) /\ StdInv(t) /\ WalkInv(r, t) /\ pc[t] = "find"
      /\ UNCHANGED <<estream_list, node, stream>> /\ Running /\ AllFlushed /\ state # "broken"
      /\ op[t] = "_es_get_std_stream" /\ fd[t] # NoStd
  BY DEF ListInv, find, At, StdInv
<1>1. /\ ThreadTypes /\ \A n \in Listed(t) : r[n] \in Int /\ n # Null
      /\ Ordered(r, Listed(t), estream_list, node) /\ Null \notin Nodes
  BY <1>0, LinkTypes
<1>2. /\ cur[t] \in Listed(t) \cup {Null}
      /\ \A n \in Listed(t) : cur[t] = Null \/ r[n] < r[cur[t]] => Passed(t, n)
  BY <1>0 DEF WalkInv, Walkers
<1>3. \A n \in Nodes : n \in Listed(t) <=> node[n].live
  BY <1>0 DEF Listed, Movers
<1>4. cur[t] # Null => /\ node[cur[t]].live /\ stream[node[cur[t]].car].live
  <2> SUFFICES ASSUME cur[t] # Null
               PROVE  node[cur[t]].live /\ stream[node[cur[t]].car].live
    OBVIOUS
  <2>1. cur[t] \in Nodes /\ node[cur[t]].live
    BY <1>2 DEF Listed
  <2> QED BY <1>0, <2>1 DEF EntryInv
<1>4a. /\ stream \in [Streams -> StreamType]
       /\ cur[t] # Null => node[cur[t]].car \in Streams
  <2>1. stream \in [Streams -> StreamType]
    BY TypeParts DEF LifeInv
  <2>2. cur[t] # Null => cur[t] \in Nodes
    BY <1>2 DEF Listed
  <2> QED BY <1>0, <1>4, <2>1, <2>2 DEF EntryInv
<1>4b. cur[t] # Null =>
         \/ IsStdStream(stream[node[cur[t]].car], fd[t])
         \/ Another(stream[node[cur[t]].car].std, fd[t])
  <2> DEFINE f == stream[node[cur[t]].car]
  <2> SUFFICES ASSUME cur[t] # Null PROVE IsStdStream(f, fd[t]) \/ Another(f.std, fd[t])
    OBVIOUS
  <2>1. f \in StreamType
    BY <1>4a
  <2> HIDE DEF f
  <2> QED BY <1>0, <2>1, NotFound
<1>5. /\ UNCHANGED state
      /\ \/ /\ cur[t] = Null /\ pc'[t] = "create" /\ op'[t] = op[t] /\ fd'[t] = fd[t]
         \/ pc'[t] = "idle" /\ op'[t] = "none"
         \/ /\ cur[t] # Null /\ Another(stream[node[cur[t]].car].std, fd[t]) /\ cur'[t] = node[cur[t]].cdr
            /\ pc'[t] = "find" /\ op'[t] = op[t] /\ fd'[t] = fd[t]
  BY <1>0, <1>1, <1>4, <1>4b DEF find, Goto, Return, Look, ThreadTypes
<1>6. LinkInv(r, t)' /\ Listed(t)' = Listed(t)
  BY <1>0, <1>5, LinkStays DEF Movers
<1>7. EntryInv(t)'
  BY <1>0, <1>5, EntryStays DEF Unlisted
<1>8. cur[t] = Null => \A s \in Streams : stream[s].live => Another(stream[s].std, fd[t])
  <2> SUFFICES ASSUME cur[t] = Null, NEW s \in Streams, stream[s].live
               PROVE  Another(stream[s].std, fd[t])
    OBVIOUS
  <2>1. PICK n \in Nodes : node[n].live /\ node[n].car = s
    BY <1>0 DEF EntryInv, Unlisted
  <2>2. Passed(t, n)
    BY <1>2, <1>3, <2>1
  <2> QED BY <1>0, <2>1, <2>2 DEF Passed
<1>9. StdInv(t)'
  <2>1. pc'[t] \notin New
    BY <1>5 DEF New
  <2>2. pc'[t] \in {"find", "standard"} => op'[t] = "_es_get_std_stream"
    BY <1>0, <1>5
  <2>3. pc'[t] \in New \cup {"create", "bucket"} =>
          /\ op'[t] = "_es_get_std_stream"
          /\ \A s \in Streams : stream[s].live => Another(stream[s].std, fd'[t])
    BY <1>0, <1>5, <1>8, <2>1
  <2>4. op'[t] = "_es_get_std_stream" => fd'[t] # NoStd
    BY <1>0, <1>5
  <2> QED BY <1>0, <2>1, <2>2, <2>3, <2>4, StdStays
<1>10. WalkInv(r, t)'
  <2>1. CASE pc'[t] = "find"
    <3>1. /\ cur[t] \in Listed(t) /\ cur'[t] = node[cur[t]].cdr /\ fd'[t] = fd[t]
          /\ Another(stream[node[cur[t]].car].std, fd[t])
      BY <1>2, <1>5, <2>1
    <3>2. \A n \in Listed(t) : (n = cur[t] \/ Passed(t, n)) => Passed(t, n)'
      BY <1>0, <2>1, <3>1 DEF Passed
    <3> QED BY <1>0, <1>1, <1>6, <2>1, <3>1, <3>2, WalkAdvances DEF Walkers
  <2>2. CASE pc'[t] # "find"
    BY <1>5, <2>2 DEF WalkInv, Walkers
  <2> QED BY <2>1, <2>2
<1>11. state' # "broken" /\ AllFlushed'
  BY <1>0, <1>5 DEF AllFlushed, Running
<1> QED BY <1>6, <1>7, <1>9, <1>10, <1>11 DEF ListInv

LEMMA RemoveList ==
  ASSUME LifeInv, LifeInv', NEW r \in [Nodes -> Int], NEW t \in Threads, ListInv(r, t),
         es_list_remove(t)
  PROVE  ListInv(r, t)'
<1>0. /\ LinkInv(r, t) /\ EntryInv(t) /\ StdInv(t) /\ WalkInv(r, t) /\ pc[t] = "es_list_remove"
      /\ Running /\ state # "broken" /\ UNCHANGED <<estream_list, node, stream, op, fd, this>>
  BY DEF ListInv, es_list_remove, At
<1>1. /\ ThreadTypes /\ \A n \in Listed(t) : r[n] \in Int /\ n # Null
      /\ Ordered(r, Listed(t), estream_list, node) /\ Null \notin Nodes
      /\ Listed(t) \subseteq Entries
  BY <1>0, LinkTypes
<1>2. /\ cur[t] \in Listed(t) \cup {Null}
      /\ \A n \in Listed(t) : cur[t] = Null \/ r[n] < r[cur[t]] => Passed(t, n)
  BY <1>0 DEF WalkInv, Walkers
<1>3. \A n \in Nodes : n \in Listed(t) <=> node[n].live
  BY <1>0 DEF Listed, Movers
<1>4. /\ UNCHANGED state
      /\ \/ cur[t] = Null /\ pc'[t] = "es_deinitialize" /\ UNCHANGED cur
         \/ cur[t] \in Listed(t) /\ node[cur[t]].car = this[t] /\ pc'[t] = "unlink" /\ UNCHANGED cur
         \/ /\ cur[t] \in Listed(t) /\ node[cur[t]].car # this[t] /\ pc'[t] = "es_list_remove"
            /\ cur'[t] = node[cur[t]].cdr
  <2>1. cur[t] \in Entries \cup {Null} /\ (cur[t] \in Entries => cur[t] \in Listed(t))
    BY <1>1, <1>2, <1>3 DEF Entries
  <2>2. \/ cur[t] = Null /\ Goto(t, "es_deinitialize") /\ UNCHANGED <<cur, state>>
        \/ cur[t] \in Entries /\ node[cur[t]].car = this[t] /\ Goto(t, "unlink")
             /\ UNCHANGED <<cur, state>>
        \/ cur[t] \in Entries /\ node[cur[t]].car # this[t] /\ Look(t, node[cur[t]].cdr)
             /\ UNCHANGED <<pc, state>>
    BY <2>1 DEF es_list_remove
  <2> QED BY <1>0, <1>1, <2>1, <2>2 DEF Goto, Look, ThreadTypes
<1>5. LinkInv(r, t)' /\ Listed(t)' = Listed(t)
  <2>1. pc'[t] = "unlink" => cur'[t] \in Nodes /\ node[cur'[t]].live /\ node[cur'[t]].car = this'[t]
    BY <1>0, <1>4 DEF Listed
  <2>2. pc[t] \notin Movers /\ pc'[t] \notin Movers
    BY <1>0, <1>4 DEF Movers
  <2> QED BY <1>0, <2>1, <2>2, LinkStays
<1>6. EntryInv(t)'
  <2>1. pc'[t] \in Unlisted => \A n \in Nodes : node[n].live => node[n].car # this'[t]
    BY <1>0, <1>2, <1>3, <1>4 DEF Passed, Unlisted
  <2> QED BY <1>0, <2>1, EntryStays DEF Unlisted
<1>7. StdInv(t)'
  <2>1. pc'[t] \notin New \cup {"create", "bucket", "find", "standard"}
    BY <1>4 DEF New
  <2>2. op[t] = "_es_get_std_stream" => fd[t] # NoStd
    BY <1>0 DEF StdInv
  <2> QED BY <1>0, <2>1, <2>2, StdStays
<1>8. WalkInv(r, t)'
  <2>1. CASE pc'[t] = "es_list_remove"
    <3>1. cur[t] \in Listed(t) /\ cur'[t] = node[cur[t]].cdr /\ node[cur[t]].car # this[t]
      BY <1>4, <2>1
    <3>2. \A n \in Listed(t) : (n = cur[t] \/ Passed(t, n)) => Passed(t, n)'
      BY <1>0, <2>1, <3>1 DEF Passed
    <3> QED BY <1>0, <1>1, <1>5, <2>1, <3>1, <3>2, WalkAdvances DEF Walkers
  <2>2. CASE pc'[t] # "es_list_remove"
    BY <1>4, <2>2 DEF WalkInv, Walkers
  <2> QED BY <2>1, <2>2
<1>9. state' # "broken" /\ AllFlushed'
  BY <1>0, <1>4 DEF AllFlushed, Running
<1> QED BY <1>5, <1>6, <1>7, <1>8, <1>9 DEF ListInv

LEMMA AdvanceList ==
  ASSUME LifeInv, LifeInv', NEW r \in [Nodes -> Int], NEW t \in Threads, ListInv(r, t), advance(t)
  PROVE  ListInv(r, t)'
<1>0. /\ LinkInv(r, t) /\ EntryInv(t) /\ StdInv(t) /\ WalkInv(r, t) /\ pc[t] = "advance"
      /\ Running /\ state # "broken" /\ UNCHANGED <<estream_list, node, stream, op, fd, this>>
  BY DEF ListInv, advance, At
<1>1. /\ ThreadTypes /\ \A n \in Listed(t) : r[n] \in Int /\ n # Null
      /\ Ordered(r, Listed(t), estream_list, node) /\ Listed(t) \subseteq Entries
  BY <1>0, LinkTypes
<1>2. cur[t] \in Listed(t) /\ Passed(t, cur[t])
  BY <1>0 DEF WalkInv, Walkers
<1>3. cur'[t] = node[cur[t]].cdr /\ pc'[t] = "visit" /\ UNCHANGED state
  BY <1>1, <1>2 DEF advance, Goto, Look, ThreadTypes
<1>4. LinkInv(r, t)' /\ Listed(t)' = Listed(t)
  BY <1>0, <1>3, LinkStays DEF Movers
<1>5. EntryInv(t)'
  BY <1>0, <1>3, EntryStays DEF Unlisted
<1>6. StdInv(t)'
  <2>1. pc'[t] \notin New \cup {"create", "bucket", "find", "standard"}
    BY <1>3 DEF New
  <2>2. op[t] = "_es_get_std_stream" => fd[t] # NoStd
    BY <1>0 DEF StdInv
  <2> QED BY <1>0, <2>1, <2>2, StdStays
<1>7. WalkInv(r, t)'
  <2>1. \A n \in Listed(t) : (n = cur[t] \/ Passed(t, n)) => Passed(t, n)'
    BY <1>0, <1>2, <1>3 DEF Passed
  <2> QED BY <1>0, <1>1, <1>2, <1>3, <1>4, <2>1, WalkAdvances DEF Walkers
<1>8. state' # "broken" /\ AllFlushed'
  BY <1>0, <1>3 DEF AllFlushed, Running
<1> QED BY <1>4, <1>5, <1>6, <1>7, <1>8 DEF ListInv

(* When the walk of es_deinit ends, every entry's stream has been flushed, *)
(* and every live stream has its entry.                                    *)
LEMMA VisitList ==
  ASSUME LifeInv, LifeInv', NEW r \in [Nodes -> Int], NEW t \in Threads, ListInv(r, t), visit(t)
  PROVE  ListInv(r, t)'
<1>0. /\ LinkInv(r, t) /\ EntryInv(t) /\ StdInv(t) /\ WalkInv(r, t) /\ pc[t] = "visit"
      /\ Running /\ state # "broken" /\ UNCHANGED <<estream_list, node, initialized>>
      /\ stream \in [Streams -> StreamType]
  BY TypeParts DEF LifeInv, ListInv, visit, At
<1>1. /\ ThreadTypes /\ \A n \in Listed(t) : r[n] \in Int /\ n # Null
      /\ Ordered(r, Listed(t), estream_list, node) /\ Null \notin Nodes
  BY <1>0, LinkTypes
<1>2. /\ cur[t] \in Listed(t) \cup {Null}
      /\ \A n \in Listed(t) : cur[t] = Null \/ r[n] < r[cur[t]] => Passed(t, n)
  BY <1>0 DEF WalkInv, Walkers
<1>3. \A n \in Nodes : n \in Listed(t) <=> node[n].live
  BY <1>0 DEF Listed, Movers
<1>4. CASE cur[t] = Null
  <2>1. /\ pc'[t] = "idle" /\ op'[t] = "none" /\ UNCHANGED stream
        /\ state' \in {state, "exited"}
    BY <1>1, <1>4 DEF visit, Return, Goto, ThreadTypes
  <2>2. LinkInv(r, t)'
    BY <1>0, <2>1, LinkStays DEF Movers
  <2>3. EntryInv(t)'
    BY <1>0, <2>1, EntryStays DEF Unlisted
  <2>4. StdInv(t)'
    BY <1>0, <2>1, StdStays DEF New
  <2>5. WalkInv(r, t)'
    BY <2>1 DEF WalkInv, Walkers
  <2>6. AllFlushed'
    <3> SUFFICES ASSUME NEW s \in Streams, stream[s].live, stream[s].dirty PROVE stream[s].err
      BY <2>1 DEF AllFlushed
    <3>1. PICK n \in Nodes : node[n].live /\ node[n].car = s
      BY <1>0 DEF EntryInv, Unlisted
    <3>2. Passed(t, n)
      BY <1>2, <1>3, <1>4, <3>1
    <3> QED BY <1>0, <3>1, <3>2 DEF Passed
  <2> QED BY <1>0, <2>1, <2>2, <2>3, <2>4, <2>5, <2>6 DEF ListInv
<1>5. CASE cur[t] # Null
  <2> DEFINE c == node[cur[t]].car
  <2>1. cur[t] \in Nodes /\ node[cur[t]].live /\ cur[t] \in Listed(t)
    BY <1>2, <1>5 DEF Listed
  <2>2. c \in Streams /\ stream[c].live
    BY <1>0, <2>1 DEF EntryInv
  <2>3. /\ \E f \in Flushed(stream[c]) : stream' = [stream EXCEPT ![c] = f]
        /\ Goto(t, "advance") /\ UNCHANGED <<op, fd, cur, this, cookie, state>>
    BY <1>5, <2>1, <2>2 DEF visit
  <2>4. PICK f \in Flushed(stream[c]) : stream' = [stream EXCEPT ![c] = f]
    BY <2>3
  <2>5. /\ f.live = stream[c].live /\ f.std = stream[c].std /\ (f.dirty => f.err)
    BY <1>0, <2>2, FlushedStream
  <2> HIDE DEF c
  <2>6. \A s \in Streams : /\ stream'[s].live = stream[s].live /\ stream'[s].std = stream[s].std
                           /\ s # c => stream'[s] = stream[s]
                           /\ s = c => (stream'[s].dirty => stream'[s].err)
    BY <1>0, <2>2, <2>4, <2>5
  <2>7. pc'[t] = "advance"
    BY <1>1, <2>3 DEF Goto, ThreadTypes
  <2>8. LinkInv(r, t)' /\ Listed(t)' = Listed(t)
    BY <1>0, <2>7, LinkStays DEF Movers
  <2>9. EntryInv(t)'
    BY <1>0, <2>6, <2>7, EntryStays DEF Unlisted
  <2>10. StdInv(t)'
    <3>1. op'[t] = "_es_get_std_stream" => fd'[t] # NoStd
      BY <1>0, <2>3 DEF StdInv
    <3> QED BY <1>0, <2>6, <2>7, <3>1, StdStays DEF New
  <2>11. \A n \in Listed(t) : n = cur[t] \/ Passed(t, n) => Passed(t, n)'
    <3> TAKE n \in Listed(t)
    <3> HAVE n = cur[t] \/ Passed(t, n)
    <3>1. node[n].car \in Streams
      BY <1>0 DEF EntryInv, Listed
    <3>2. CASE node[n].car = c
      BY <1>0, <2>6, <2>7, <3>1, <3>2 DEF Passed
    <3>3. CASE node[n].car # c
      <4>1. Passed(t, n) /\ stream'[node[n].car] = stream[node[n].car]
        BY <2>6, <3>1, <3>3 DEF c
      <4> QED BY <1>0, <2>7, <4>1 DEF Passed
    <3> QED BY <3>2, <3>3
  <2>12. WalkInv(r, t)'
    BY <1>0, <1>2, <1>5, <2>1, <2>3, <2>8, <2>11 DEF WalkInv
  <2>13. state' # "broken" /\ AllFlushed'
    BY <1>0, <2>3 DEF AllFlushed, Running
  <2> QED BY <2>8, <2>9, <2>10, <2>12, <2>13 DEF ListInv
<1> QED BY <1>4, <1>5

(* Creating a stream, up to its entry.                                     *)
LEMMA FailureList ==
  ASSUME LifeInv, LifeInv', NEW r \in [Nodes -> Int], NEW t \in Threads, ListInv(r, t),
         ObjectFails(t) \/ StreamFails(t)
  PROVE  ListInv(r, t)'
<1>0. /\ LinkInv(r, t) /\ EntryInv(t) /\ StdInv(t) /\ pc[t] \in {"create", "bucket"}
      /\ Running /\ state # "broken" /\ UNCHANGED <<estream_list, node, stream, initialized>>
      /\ CreateFailed(t) /\ ThreadTypes
  BY TypeParts DEF LifeInv, ListInv, ObjectFails, StreamFails, At
<1>1. /\ \/ pc'[t] = "idle" /\ op'[t] = "none"
         \/ pc'[t] \in {"create", "bucket"} /\ op'[t] = op[t] /\ fd'[t] = fd[t]
      /\ state' \in {state, "aborted"}
  <2>1. CASE Return(t) /\ UNCHANGED state
    BY <1>0, <2>1 DEF Return, Goto, ThreadTypes
  <2>2. CASE Goto(t, "bucket") /\ UNCHANGED <<op, fd, cur, this, cookie, state>>
    BY <1>0, <2>2 DEF Goto, ThreadTypes
  <2>3. CASE state' = "aborted" /\ UNCHANGED local
    BY <1>0, <2>3 DEF local
  <2> QED BY <1>0, <2>1, <2>2, <2>3 DEF CreateFailed
<1>2. pc'[t] \in {"idle", "create", "bucket"}
  BY <1>1
<1>3. LinkInv(r, t)'
  BY <1>0, <1>2, LinkStays DEF Movers
<1>4. EntryInv(t)'
  BY <1>0, <1>2, EntryStays DEF Unlisted
<1>5. StdInv(t)'
  <2>1. /\ op[t] = "_es_get_std_stream" => fd[t] # NoStd
        /\ \/ op[t] = "es_fdopen"
           \/ /\ op[t] = "_es_get_std_stream"
              /\ \A s \in Streams : stream[s].live => Another(stream[s].std, fd[t])
    BY <1>0 DEF StdInv
  <2>2. pc'[t] \notin New \cup {"find", "standard"}
    BY <1>2 DEF New
  <2>3. op'[t] = "_es_get_std_stream" => fd'[t] # NoStd
    BY <1>1, <2>1
  <2>4. pc'[t] \in New \cup {"create", "bucket"} =>
           \/ op'[t] = "es_fdopen"
           \/ /\ op'[t] = "_es_get_std_stream"
              /\ \A s \in Streams : stream[s].live => Another(stream[s].std, fd'[t])
    BY <1>1, <2>1, <2>2
  <2> QED BY <1>0, <2>2, <2>3, <2>4, StdStays
<1>6. WalkInv(r, t)'
  BY <1>2 DEF WalkInv, Walkers
<1>7. state' # "broken" /\ AllFlushed'
  BY <1>0, <1>1 DEF AllFlushed, Running
<1> QED BY <1>3, <1>4, <1>5, <1>6, <1>7 DEF ListInv

LEMMA CreateList ==
  ASSUME LifeInv, LifeInv', NEW r \in [Nodes -> Int], NEW t \in Threads, ListInv(r, t),
         es_create(t)
  PROVE  ListInv(r, t)'
<1>0. /\ LinkInv(r, t) /\ EntryInv(t) /\ StdInv(t) /\ pc[t] \in {"create", "bucket"}
      /\ Running /\ state # "broken" /\ UNCHANGED <<estream_list, node, op, fd, initialized, state>>
      /\ ThreadTypes /\ stream \in [Streams -> StreamType]
  BY TypeParts DEF LifeInv, ListInv, es_create, At
<1>1. PICK o \in Objects, s \in Streams :
        /\ ~ stream[s].live
        /\ stream' = [stream EXCEPT ![s] = es_initialized(t, o)]
        /\ this' = [this EXCEPT ![t] = s]
  BY DEF es_create
<1>2. this'[t] = s /\ pc'[t] = "es_list_add"
  BY <1>0, <1>1 DEF es_create, Goto, ThreadTypes
<1>3. /\ \A q \in Streams \ {s} : stream'[q] = stream[q]
      /\ stream'[s].live /\ stream'[s].std = NoStd
  BY <1>0, <1>1, NewStream
<1>4. LinkInv(r, t)'
  BY <1>0, <1>2, LinkStays DEF Movers
<1>5. EntryInv(t)'
  <2>1. \A n \in Nodes : node[n].live =>
          node[n].car \in Streams \ {s} /\ stream[node[n].car].live
    BY <1>0, <1>1 DEF EntryInv
  <2>2. \A m, n \in Nodes :
          node[m].live /\ node[n].live /\ node[m].car = node[n].car => m = n
    BY <1>0 DEF EntryInv
  <2>3. \A q \in Streams \ {s} : stream'[q].live => \E n \in Nodes : node[n].live /\ node[n].car = q
    <3> TAKE q \in Streams \ {s}
    <3> HAVE stream'[q].live
    <3>1. stream[q].live /\ pc[t] \notin Unlisted
      BY <1>0, <1>3 DEF Unlisted
    <3> QED BY <1>0, <3>1 DEF EntryInv
  <2>4. \A n \in Nodes : node[n].live => stream'[node[n].car].live
    <3> TAKE n \in Nodes
    <3> HAVE node[n].live
    <3>1. stream'[node[n].car] = stream[node[n].car] /\ stream[node[n].car].live
      BY <1>3, <2>1
    <3> QED BY <3>1
  <2>5. pc'[t] \in Unlisted
    BY <1>2 DEF Unlisted
  <2> QED BY <1>0, <1>2, <2>1, <2>2, <2>3, <2>4, <2>5 DEF EntryInv
<1>6. StdInv(t)'
  <2>1. NoStd' = NoStd
    BY DEF NoStd
  <2>2. \A p, q \in Streams :
          stream'[p].live /\ stream'[q].live /\ stream'[p].std = stream'[q].std
            /\ stream'[p].std \in 0 .. 2 => p = q
    <3> TAKE p, q \in Streams
    <3> HAVE stream'[p].live /\ stream'[q].live /\ stream'[p].std = stream'[q].std
               /\ stream'[p].std \in 0 .. 2
    <3>1. p # s /\ q # s
      BY <1>3 DEF NoStd
    <3>2. stream'[p] = stream[p] /\ stream'[q] = stream[q]
      BY <1>3, <3>1
    <3>3. stream[p].live /\ stream[q].live /\ stream[p].std = stream[q].std /\ stream[p].std \in 0 .. 2
      BY <3>2
    <3> QED BY <1>0, <3>3 DEF StdInv
  <2>3. /\ op[t] = "_es_get_std_stream" => fd[t] # NoStd
        /\ \/ op[t] = "es_fdopen"
           \/ /\ op[t] = "_es_get_std_stream"
              /\ \A q \in Streams : stream[q].live => Another(stream[q].std, fd[t])
    BY <1>0 DEF StdInv
  <2>4. \/ op'[t] = "es_fdopen"
        \/ /\ op'[t] = "_es_get_std_stream"
           /\ \A q \in Streams : stream'[q].live => Another(stream'[q].std, fd'[t])
    <3>1. CASE op[t] = "es_fdopen"
      BY <1>0, <3>1
    <3>2. CASE op[t] = "_es_get_std_stream"
      <4>0. op[t] # "es_fdopen" /\ fd'[t] = fd[t] /\ op'[t] = op[t]
        BY <1>0, <3>2
      <4>1. \A q \in Streams : stream'[q].live => Another(stream'[q].std, fd[t])
        <5> TAKE q \in Streams
        <5> HAVE stream'[q].live
        <5>1. CASE q = s
          BY <1>3, <5>1 DEF Another, NoStd
        <5>2. CASE q # s
          <6>1. stream'[q] = stream[q]
            BY <1>3, <5>2
          <6> QED BY <2>3, <4>0, <6>1
        <5> QED BY <5>1, <5>2
      <4> QED BY <3>2, <4>0, <4>1
    <3> QED BY <2>3, <3>1, <3>2
  <2>5. pc'[t] \notin {"find", "standard"}
    BY <1>2
  <2> QED BY <1>0, <1>2, <1>3, <2>1, <2>2, <2>3, <2>4, <2>5 DEF StdInv
<1>7. WalkInv(r, t)'
  BY <1>2 DEF WalkInv, Walkers
<1>8. state' # "broken" /\ AllFlushed'
  BY <1>0 DEF AllFlushed, Running
<1> QED BY <1>4, <1>5, <1>6, <1>7, <1>8 DEF ListInv

LEMMA AddList ==
  ASSUME LifeInv, LifeInv', NEW r \in [Nodes -> Int], NEW t \in Threads, ListInv(r, t),
         es_list_add(t)
  PROVE  ListInv(r, t)'
<1>0. /\ LinkInv(r, t) /\ EntryInv(t) /\ StdInv(t) /\ pc[t] = "es_list_add"
      /\ Running /\ state # "broken" /\ ThreadTypes /\ node \in [Nodes -> Entry]
      /\ UNCHANGED <<estream_list, stream, op, fd, this, initialized, state>>
      /\ this[t] \in Streams /\ stream[this[t]].live
  BY TypeParts DEF LifeInv, ListInv, es_list_add, At, Running, ThreadInv, Holders
<1>1. PICK x \in Nodes :
        /\ ~ node[x].live
        /\ node' = [node EXCEPT ![x] = [live |-> TRUE, car |-> this[t], cdr |-> estream_list,
                                       prev_cdr |-> "estream_list"]]
  BY DEF es_list_add
<1>2. pc'[t] = "add_prev"
  BY <1>0 DEF es_list_add, Goto, ThreadTypes
<1>3. /\ \A n \in Nodes \ {x} : node'[n] = node[n]
      /\ node'[x].live /\ node'[x].car = this[t]
  BY <1>0, <1>1
<1>4. LinkInv(r, t)'
  BY <1>0, LinkAdd
<1>5. EntryInv(t)'
  <2>0. pc[t] \in Unlisted /\ pc'[t] \notin Unlisted
    BY <1>0, <1>2 DEF Unlisted
  <2>1. \A n \in Nodes : node[n].live => n # x /\ node[n].car # this[t]
    BY <1>0, <1>1, <2>0 DEF EntryInv
  <2>2. \A n \in Nodes : node'[n].live => node'[n].car \in Streams /\ stream[node'[n].car].live
    <3> TAKE n \in Nodes
    <3> HAVE node'[n].live
    <3>1. CASE n = x
      BY <1>0, <1>3, <3>1
    <3>2. CASE n # x
      <4>1. node'[n] = node[n]
        BY <1>3, <3>2
      <4> QED BY <1>0, <4>1 DEF EntryInv
    <3> QED BY <3>1, <3>2
  <2>3. \A m, n \in Nodes :
          node'[m].live /\ node'[n].live /\ node'[m].car = node'[n].car => m = n
    <3> TAKE m, n \in Nodes
    <3> HAVE node'[m].live /\ node'[n].live /\ node'[m].car = node'[n].car
    <3>1. CASE m # x /\ n # x
      <4>1. node'[m] = node[m] /\ node'[n] = node[n]
        BY <1>3, <3>1
      <4> QED BY <1>0, <4>1 DEF EntryInv
    <3>2. CASE m # x /\ n = x
      <4>1. node'[m] = node[m]
        BY <1>3, <3>2
      <4> QED BY <1>3, <2>1, <3>2, <4>1
    <3>3. CASE m = x /\ n # x
      <4>1. node'[n] = node[n]
        BY <1>3, <3>3
      <4> QED BY <1>3, <2>1, <3>3, <4>1
    <3> QED BY <3>1, <3>2, <3>3
  <2>4. \A s \in Streams : stream[s].live => \E n \in Nodes : node'[n].live /\ node'[n].car = s
    <3> TAKE s \in Streams
    <3> HAVE stream[s].live
    <3>1. CASE s = this[t]
      BY <1>3, <3>1
    <3>2. CASE s # this[t]
      <4>1. PICK n \in Nodes : node[n].live /\ node[n].car = s
        BY <1>0, <3>2 DEF EntryInv
      <4>2. node'[n] = node[n]
        BY <1>3, <2>1, <4>1
      <4> QED BY <4>1, <4>2
    <3> QED BY <3>1, <3>2
  <2> QED BY <1>0, <2>0, <2>2, <2>3, <2>4 DEF EntryInv
<1>6. StdInv(t)'
  <2>1. pc[t] \in New /\ pc[t] \in New \cup {"create", "bucket"}
    BY <1>0 DEF New
  <2>2. /\ op[t] = "_es_get_std_stream" => fd[t] # NoStd
        /\ \/ op[t] = "es_fdopen"
           \/ /\ op[t] = "_es_get_std_stream"
              /\ \A s \in Streams : stream[s].live => Another(stream[s].std, fd[t])
    BY <1>0, <2>1 DEF StdInv
  <2> QED BY <1>0, <1>2, <2>1, <2>2, StdStays
<1>7. WalkInv(r, t)'
  BY <1>2 DEF WalkInv, Walkers
<1>8. state' # "broken" /\ AllFlushed'
  BY <1>0 DEF AllFlushed, Running
<1> QED BY <1>4, <1>5, <1>6, <1>7, <1>8 DEF ListInv

LEMMA AddPrevList ==
  ASSUME LifeInv, LifeInv', NEW r \in [Nodes -> Int], NEW t \in Threads, ListInv(r, t),
         add_prev(t)
  PROVE  ListInv(r, t)'
<1>0. /\ LinkInv(r, t) /\ EntryInv(t) /\ StdInv(t) /\ pc[t] = "add_prev"
      /\ Running /\ state # "broken" /\ ThreadTypes /\ node \in [Nodes -> Entry]
      /\ this[t] \in Streams
  BY TypeParts DEF LifeInv, ListInv, add_prev, At, Running, ThreadInv, Holders
<1>1. LinkInv(r, t)' /\ UNCHANGED state
  BY <1>0, LinkAddPrev
<1>2. /\ node' = [n \in Nodes |-> IF n = estream_list
                                  THEN [node[n] EXCEPT !.prev_cdr = cur[t]] ELSE node[n]]
      /\ Goto(t, "add_head") /\ UNCHANGED <<stream, op, fd, this, initialized>>
  BY <1>0, <1>1 DEF add_prev, Breaks
<1>3. pc'[t] = "add_head"
  BY <1>0, <1>2 DEF Goto, ThreadTypes
<1>4. \A n \in Nodes : node'[n].live = node[n].live /\ node'[n].car = node[n].car
  BY <1>0, <1>2 DEF Entry
<1>5. EntryInv(t)'
  BY <1>0, <1>2, <1>3, <1>4, EntryStays DEF Unlisted
<1>6. StdInv(t)'
  <2>1. pc[t] \in New /\ pc[t] \in New \cup {"create", "bucket"}
    BY <1>0 DEF New
  <2>2. /\ op[t] = "_es_get_std_stream" => fd[t] # NoStd
        /\ \/ op[t] = "es_fdopen"
           \/ /\ op[t] = "_es_get_std_stream"
              /\ \A s \in Streams : stream[s].live => Another(stream[s].std, fd[t])
    BY <1>0, <2>1 DEF StdInv
  <2> QED BY <1>0, <1>2, <1>3, <2>1, <2>2, StdStays
<1>7. WalkInv(r, t)'
  BY <1>3 DEF WalkInv, Walkers
<1>8. state' # "broken" /\ AllFlushed'
  BY <1>0, <1>1 DEF AllFlushed, Running
<1> QED BY <1>1, <1>5, <1>6, <1>7, <1>8 DEF ListInv

LEMMA AddHeadList ==
  ASSUME LifeInv, LifeInv', NEW r \in [Nodes -> Int], NEW t \in Threads, ListInv(r, t),
         add_head(t)
  PROVE  \E r2 \in [Nodes -> Int] : ListInv(r2, t)'
<1>0. /\ LinkInv(r, t) /\ EntryInv(t) /\ StdInv(t) /\ pc[t] = "add_head"
      /\ Running /\ state # "broken" /\ ThreadTypes
      /\ UNCHANGED <<node, stream, initialized, state>>
      /\ this[t] \in Streams
  BY TypeParts DEF LifeInv, ListInv, add_head, At, Running, ThreadInv, Holders
<1>1. PICK r2 \in [Nodes -> Int] : LinkInv(r2, t)'
  BY <1>0, LinkAddHead
<1>2. \/ pc'[t] = "idle" /\ op'[t] = "none"
      \/ /\ pc'[t] = "standard" /\ op[t] # "es_fdopen" /\ op'[t] = op[t] /\ fd'[t] = fd[t]
         /\ this'[t] = this[t]
  BY <1>0 DEF add_head, Goto, Return, ThreadTypes
<1>3. pc'[t] \in {"idle", "standard"}
  BY <1>2
<1>4. EntryInv(t)'
  BY <1>0, <1>3, EntryStays DEF Unlisted
<1>5. StdInv(t)'
  <2>1. pc[t] \in New /\ pc[t] \in New \cup {"create", "bucket"}
    BY <1>0 DEF New
  <2>2. /\ op[t] = "_es_get_std_stream" => fd[t] # NoStd
        /\ \/ op[t] = "es_fdopen"
           \/ /\ op[t] = "_es_get_std_stream"
              /\ \A s \in Streams : stream[s].live => Another(stream[s].std, fd[t])
    BY <1>0, <2>1 DEF StdInv
  <2>3. pc'[t] \in New => this'[t] = this[t]
    BY <1>2 DEF New
  <2>4. pc'[t] \in New \cup {"create", "bucket"} \cup {"find", "standard"} =>
          op'[t] = "_es_get_std_stream" /\ fd'[t] = fd[t]
    BY <1>2, <2>2 DEF New
  <2>5. op'[t] = "_es_get_std_stream" => fd'[t] # NoStd
    BY <1>2, <2>2
  <2>6. pc'[t] \in New \cup {"create", "bucket"} =>
          /\ op'[t] = "_es_get_std_stream"
          /\ \A s \in Streams : stream[s].live => Another(stream[s].std, fd'[t])
    <3>1. pc'[t] = "standard" => \A s \in Streams : stream[s].live => Another(stream[s].std, fd[t])
      BY <1>2, <2>2
    <3>2. pc'[t] \in New \cup {"create", "bucket"} => pc'[t] = "standard"
      BY <1>3 DEF New
    <3> QED BY <2>4, <3>1, <3>2
  <2> QED BY <1>0, <2>1, <2>3, <2>4, <2>5, <2>6, StdStays
<1>6. WalkInv(r2, t)'
  BY <1>3 DEF WalkInv, Walkers
<1>7. state' # "broken" /\ AllFlushed'
  BY <1>0 DEF AllFlushed, Running
<1>8. ListInv(r2, t)'
  BY <1>1, <1>4, <1>5, <1>6, <1>7 DEF ListInv
<1> QED BY <1>8

(* The stream that was made becomes the standard stream it was asked for.  *)
LEMMA StandardList ==
  ASSUME LifeInv, LifeInv', NEW r \in [Nodes -> Int], NEW t \in Threads, ListInv(r, t),
         standard(t)
  PROVE  ListInv(r, t)'
<1> DEFINE s == this[t]
<1>0. /\ LinkInv(r, t) /\ EntryInv(t) /\ StdInv(t) /\ pc[t] = "standard"
      /\ Running /\ state # "broken" /\ ThreadTypes /\ stream \in [Streams -> StreamType]
      /\ UNCHANGED <<estream_list, node, initialized, state>> /\ s \in Streams
      /\ stream' = [stream EXCEPT ![s].std = fd[t]] /\ Return(t)
  BY TypeParts DEF LifeInv, ListInv, standard, At, Running, ThreadInv, Holders
<1>1. pc'[t] = "idle" /\ op'[t] = "none"
  BY <1>0 DEF Return, Goto, ThreadTypes
<1>2. \A q \in Streams \ {s} : stream'[q] = stream[q]
  BY <1>0
<1>3. stream'[s].live = stream[s].live /\ stream'[s].std = fd[t]
  BY <1>0 DEF StreamType
<1>4. \A q \in Streams : stream'[q].live = stream[q].live
  BY <1>2, <1>3
<1>5. LinkInv(r, t)'
  BY <1>0, <1>1, LinkStays DEF Movers
<1>6. EntryInv(t)'
  BY <1>0, <1>1, <1>4, EntryStays DEF Unlisted
<1>7. StdInv(t)'
  <2>1. op[t] = "_es_get_std_stream"
    BY <1>0 DEF StdInv
  <2>2. \A q \in Streams : stream[q].live => Another(stream[q].std, fd[t])
    BY <1>0, <2>1 DEF StdInv, New
  <2>3. \A p, q \in Streams :
          stream'[p].live /\ stream'[q].live /\ stream'[p].std = stream'[q].std
            /\ stream'[p].std \in 0 .. 2 => p = q
    <3> TAKE p, q \in Streams
    <3> HAVE stream'[p].live /\ stream'[q].live /\ stream'[p].std = stream'[q].std
               /\ stream'[p].std \in 0 .. 2
    <3> HIDE DEF s
    <3>1. CASE p # s /\ q # s
      <4>1. stream'[p] = stream[p] /\ stream'[q] = stream[q]
        BY <1>2, <3>1
      <4>2. stream[p].live /\ stream[q].live /\ stream[p].std = stream[q].std /\ stream[p].std \in 0 .. 2
        BY <4>1
      <4> QED BY <1>0, <4>2 DEF StdInv
    <3>2. CASE p # s /\ q = s
      <4>1. stream'[p] = stream[p]
        BY <1>2, <3>2
      <4> QED BY <1>3, <2>2, <3>2, <4>1 DEF Another
    <3>3. CASE p = s /\ q # s
      <4>1. stream'[q] = stream[q]
        BY <1>2, <3>3
      <4> QED BY <1>3, <2>2, <3>3, <4>1 DEF Another
    <3> QED BY <3>1, <3>2, <3>3
  <2>4. NoStd' = NoStd
    BY DEF NoStd
  <2>5. pc'[t] \notin New \cup {"create", "bucket"} /\ pc'[t] \notin {"find", "standard"}
    BY <1>1 DEF New
  <2> QED BY <1>1, <2>3, <2>4, <2>5 DEF StdInv
<1>8. WalkInv(r, t)'
  BY <1>1 DEF WalkInv, Walkers
<1>9. state' # "broken" /\ AllFlushed'
  BY <1>0 DEF AllFlushed, Running
<1> QED BY <1>5, <1>6, <1>7, <1>8, <1>9 DEF ListInv

(* Destroying a stream, from its entry on.                                 *)
LEMMA UnlinkList ==
  ASSUME LifeInv, LifeInv', NEW r \in [Nodes -> Int], NEW t \in Threads, ListInv(r, t), unlink(t)
  PROVE  ListInv(r, t)'
<1>0. /\ LinkInv(r, t) /\ EntryInv(t) /\ StdInv(t) /\ pc[t] = "unlink"
      /\ Running /\ state # "broken" /\ ThreadTypes /\ node \in [Nodes -> Entry]
      /\ UNCHANGED <<stream, op, fd, this, initialized>>
  BY TypeParts DEF LifeInv, ListInv, unlink, At
<1>1. LinkInv(r, t)' /\ UNCHANGED state
  BY <1>0, LinkUnlink
<1>2. pc'[t] = "unlink_next"
  BY <1>0 DEF unlink, Goto, ThreadTypes
<1>3. \A n \in Nodes : node'[n].live = node[n].live /\ node'[n].car = node[n].car
  <2>1. CASE UNCHANGED node
    BY <2>1
  <2>2. CASE node' = [node EXCEPT ![node[cur[t]].prev_cdr].cdr = node[cur[t]].cdr]
    <3> DEFINE p == node[cur[t]].prev_cdr
               y == node[cur[t]].cdr
    <3>1. node' = [node EXCEPT ![p].cdr = y]
      BY <2>2
    <3> HIDE DEF p, y
    <3> QED BY <1>0, <3>1 DEF Entry
  <2> QED BY <2>1, <2>2 DEF unlink
<1>4. EntryInv(t)'
  BY <1>0, <1>2, <1>3, EntryStays DEF Unlisted
<1>5. StdInv(t)'
  <2>1. pc'[t] \notin New \cup {"create", "bucket", "find", "standard"}
    BY <1>2 DEF New
  <2>2. op[t] = "_es_get_std_stream" => fd[t] # NoStd
    BY <1>0 DEF StdInv
  <2> QED BY <1>0, <2>1, <2>2, StdStays
<1>6. WalkInv(r, t)'
  BY <1>2 DEF WalkInv, Walkers
<1>7. state' # "broken" /\ AllFlushed'
  BY <1>0, <1>1 DEF AllFlushed, Running
<1> QED BY <1>1, <1>4, <1>5, <1>6, <1>7 DEF ListInv

LEMMA UnlinkNextList ==
  ASSUME LifeInv, LifeInv', NEW r \in [Nodes -> Int], NEW t \in Threads, ListInv(r, t),
         unlink_next(t)
  PROVE  ListInv(r, t)'
<1> DEFINE x == cur[t]
           y == node[x].cdr
           p == node[x].prev_cdr
<1>0. /\ LinkInv(r, t) /\ EntryInv(t) /\ StdInv(t) /\ pc[t] = "unlink_next"
      /\ Running /\ state # "broken" /\ ThreadTypes /\ node \in [Nodes -> Entry]
      /\ UNCHANGED <<stream, op, fd, this, initialized>>
  BY TypeParts DEF LifeInv, ListInv, unlink_next, At
<1>1. LinkInv(r, t)' /\ UNCHANGED state
  BY <1>0, LinkUnlinkNext
<1>2. pc'[t] = "es_deinitialize"
  BY <1>0 DEF unlink_next, Goto, ThreadTypes
<1>3. x \in Nodes /\ node[x].live /\ node[x].car = this[t]
  BY <1>0 DEF LinkInv, Movers
<1>4. node' = [m \in Nodes |-> CASE m = x -> NoNode
                                 [] m = y /\ m # x -> [node[m] EXCEPT !.prev_cdr = p]
                                 [] OTHER -> node[m]]
  BY DEF unlink_next
<1> HIDE DEF x, y, p
<1>5. /\ ~ node'[x].live
      /\ \A n \in Nodes \ {x} : node'[n].live = node[n].live /\ node'[n].car = node[n].car
  <2>1. node'[x] = NoNode
    BY <1>3, <1>4
  <2>2. ASSUME NEW n \in Nodes \ {x}
        PROVE  node'[n].live = node[n].live /\ node'[n].car = node[n].car
    <3>1. CASE n = y
      <4>1. node[n] \in Entry /\ node'[n] = [node[n] EXCEPT !.prev_cdr = p]
        BY <1>0, <1>4, <3>1
      <4> QED BY <4>1 DEF Entry
    <3>2. CASE n # y
      BY <1>4, <3>2
    <3> QED BY <3>1, <3>2
  <2> QED BY <2>1, <2>2 DEF NoNode
<1>6. EntryInv(t)'
  <2>0. pc[t] \notin Unlisted /\ pc'[t] \in Unlisted
    BY <1>0, <1>2 DEF Unlisted
  <2>1. \A n \in Nodes : node'[n].live =>
          n # x /\ node[n].live /\ node'[n].car = node[n].car
    BY <1>5
  <2>2. \A n \in Nodes : node'[n].live => node'[n].car \in Streams /\ stream[node'[n].car].live
    BY <1>0, <2>1 DEF EntryInv
  <2>3. \A m, n \in Nodes :
          node'[m].live /\ node'[n].live /\ node'[m].car = node'[n].car => m = n
    BY <1>0, <2>1 DEF EntryInv
  <2>4. \A s \in Streams : stream[s].live =>
          \/ \E n \in Nodes : node'[n].live /\ node'[n].car = s
          \/ this[t] = s
    <3> TAKE s \in Streams
    <3> HAVE stream[s].live
    <3>1. PICK n \in Nodes : node[n].live /\ node[n].car = s
      BY <1>0, <2>0 DEF EntryInv
    <3>2. CASE n = x
      BY <1>3, <3>1, <3>2
    <3>3. CASE n # x
      BY <1>5, <3>1, <3>3
    <3> QED BY <3>2, <3>3
  <2>5. \A n \in Nodes : node'[n].live => node'[n].car # this[t]
    <3> TAKE n \in Nodes
    <3> HAVE node'[n].live
    <3>1. n # x /\ node[n].live /\ node'[n].car = node[n].car
      BY <2>1
    <3>2. node[n].car = node[x].car => n = x
      BY <1>0, <1>3, <3>1 DEF EntryInv
    <3> QED BY <1>3, <3>1, <3>2
  <2> QED BY <1>0, <2>0, <2>2, <2>3, <2>4, <2>5 DEF EntryInv
<1>7. StdInv(t)'
  <2>1. pc'[t] \notin New \cup {"create", "bucket", "find", "standard"}
    BY <1>2 DEF New
  <2>2. op[t] = "_es_get_std_stream" => fd[t] # NoStd
    BY <1>0 DEF StdInv
  <2> QED BY <1>0, <2>1, <2>2, StdStays
<1>8. WalkInv(r, t)'
  BY <1>2 DEF WalkInv, Walkers
<1>9. state' # "broken" /\ AllFlushed'
  BY <1>0, <1>1 DEF AllFlushed, Running
<1> QED BY <1>1, <1>6, <1>7, <1>8, <1>9 DEF ListInv

LEMMA DestroyList ==
  ASSUME LifeInv, LifeInv', NEW r \in [Nodes -> Int], NEW t \in Threads, ListInv(r, t),
         es_deinitialize(t)
  PROVE  ListInv(r, t)'
<1> DEFINE s == this[t]
<1>0. /\ LinkInv(r, t) /\ EntryInv(t) /\ StdInv(t) /\ pc[t] = "es_deinitialize"
      /\ Running /\ state # "broken" /\ ThreadTypes /\ stream \in [Streams -> StreamType]
      /\ UNCHANGED <<estream_list, node, initialized, state>> /\ s \in Streams
      /\ stream' = [stream EXCEPT ![s] = NoStream] /\ Return(t)
  BY TypeParts DEF LifeInv, ListInv, es_deinitialize, At, Running, ThreadInv, Holders
<1>1. pc'[t] = "idle" /\ op'[t] = "none"
  BY <1>0 DEF Return, Goto, ThreadTypes
<1> HIDE DEF s
<1>2. /\ \A q \in Streams \ {s} : stream'[q] = stream[q]
      /\ stream'[s] = NoStream /\ ~ stream'[s].live
  BY <1>0 DEF NoStream
<1>3. \A q \in Streams : stream'[q].live => q # s /\ stream'[q] = stream[q] /\ stream[q].live
  <2> TAKE q \in Streams
  <2> HAVE stream'[q].live
  <2>1. q # s
    BY <1>2
  <2> QED BY <1>2, <2>1
<1>4. LinkInv(r, t)'
  BY <1>0, <1>1, LinkStays DEF Movers
<1>5. EntryInv(t)'
  <2>0. pc[t] \in Unlisted /\ pc'[t] \notin Unlisted
    BY <1>0, <1>1 DEF Unlisted
  <2>1. \A n \in Nodes : node[n].live => node[n].car \in Streams /\ stream'[node[n].car].live
    <3> TAKE n \in Nodes
    <3> HAVE node[n].live
    <3>1. node[n].car \in Streams /\ stream[node[n].car].live /\ node[n].car # s
      BY <1>0, <2>0 DEF EntryInv, s
    <3>2. stream'[node[n].car] = stream[node[n].car]
      BY <1>2, <3>1
    <3> QED BY <3>1, <3>2
  <2>2. \A m, n \in Nodes :
          node[m].live /\ node[n].live /\ node[m].car = node[n].car => m = n
    BY <1>0 DEF EntryInv
  <2>3. \A q \in Streams : stream'[q].live => \E n \in Nodes : node[n].live /\ node[n].car = q
    <3> TAKE q \in Streams
    <3> HAVE stream'[q].live
    <3>1. stream[q].live /\ q # s
      BY <1>3
    <3> QED BY <1>0, <3>1 DEF EntryInv, s
  <2> QED BY <1>0, <2>0, <2>1, <2>2, <2>3 DEF EntryInv
<1>6. StdInv(t)'
  <2>1. \A p, q \in Streams :
          stream'[p].live /\ stream'[q].live /\ stream'[p].std = stream'[q].std
            /\ stream'[p].std \in 0 .. 2 => p = q
    <3> TAKE p, q \in Streams
    <3> HAVE stream'[p].live /\ stream'[q].live /\ stream'[p].std = stream'[q].std
               /\ stream'[p].std \in 0 .. 2
    <3>1. stream'[p] = stream[p] /\ stream'[q] = stream[q]
      BY <1>3
    <3>2. stream[p].live /\ stream[q].live /\ stream[p].std = stream[q].std /\ stream[p].std \in 0 .. 2
      BY <3>1
    <3> QED BY <1>0, <3>2 DEF StdInv
  <2>2. NoStd' = NoStd
    BY DEF NoStd
  <2>3. pc'[t] \notin New \cup {"create", "bucket"} /\ pc'[t] \notin {"find", "standard"}
    BY <1>1 DEF New
  <2> QED BY <1>1, <2>1, <2>2, <2>3 DEF StdInv
<1>7. WalkInv(r, t)'
  BY <1>1 DEF WalkInv, Walkers
<1>8. state' # "broken" /\ AllFlushed'
  BY <1>0 DEF AllFlushed, Running
<1> QED BY <1>4, <1>5, <1>6, <1>7, <1>8 DEF ListInv

LEMMA UseList ==
  ASSUME LifeInv, LifeInv', NEW r \in [Nodes -> Int], NEW t \in Threads, ListInv(r, t),
         es_write(t) \/ es_fflush(t)
  PROVE  ListInv(r, t)'
<1>0. /\ LinkInv(r, t) /\ EntryInv(t) /\ StdInv(t) /\ pc[t] = "idle"
      /\ Running /\ state # "broken" /\ stream \in [Streams -> StreamType]
      /\ UNCHANGED <<estream_list, node, local, initialized, state>>
  BY TypeParts DEF LifeInv, ListInv, es_write, es_fflush, At
<1>1. \A q \in Streams : stream'[q].live = stream[q].live /\ stream'[q].std = stream[q].std
  <2>1. CASE es_write(t)
    <3>1. PICK s \in Streams : stream' = [stream EXCEPT ![s].dirty = TRUE]
      BY <2>1 DEF es_write, Mine
    <3> QED BY <1>0, <3>1 DEF StreamType
  <2>2. CASE es_fflush(t)
    <3>1. PICK s \in Streams : \E f \in Flushed(stream[s]) : stream' = [stream EXCEPT ![s] = f]
      BY <2>2 DEF es_fflush, Mine
    <3>2. PICK f \in Flushed(stream[s]) : stream' = [stream EXCEPT ![s] = f]
      BY <3>1
    <3>3. f.live = stream[s].live /\ f.std = stream[s].std
      BY <1>0, FlushedStream
    <3> QED BY <1>0, <3>2, <3>3
  <2> QED BY <2>1, <2>2
<1>2. pc'[t] = "idle" /\ op'[t] = op[t] /\ fd'[t] = fd[t]
  BY <1>0 DEF local
<1>3. LinkInv(r, t)'
  BY <1>0, <1>2, LinkStays DEF Movers
<1>4. EntryInv(t)'
  BY <1>0, <1>1, <1>2, EntryStays DEF Unlisted
<1>5. StdInv(t)'
  <2>1. pc'[t] \notin New \cup {"create", "bucket", "find", "standard"}
    BY <1>2 DEF New
  <2>2. op[t] = "_es_get_std_stream" => fd[t] # NoStd
    BY <1>0 DEF StdInv
  <2> QED BY <1>1, <1>2, <2>1, <2>2, <1>0, StdStays
<1>6. WalkInv(r, t)'
  BY <1>2 DEF WalkInv, Walkers
<1>7. state' # "broken" /\ AllFlushed'
  BY <1>0 DEF AllFlushed, Running
<1> QED BY <1>3, <1>4, <1>5, <1>6, <1>7 DEF ListInv

-----------------------------------------------------------------------------
(* The inductive invariant of one thread.  The double free of EntryFails   *)
(* ends the process in the middle of es_list_add.                          *)
RegistryInv ==
  /\ LifeInv
  /\ state # "freed twice" =>
       \E r \in [Nodes -> Int] : \A t \in Threads : ListInv(r, t)

LEMMA InitRegistry == Init => RegistryInv
<1> SUFFICES ASSUME Init PROVE RegistryInv
  OBVIOUS
<1>1. LifeInv
  BY InitLife
<1>2. PICK r \in [Nodes -> Int] : TRUE
  <2>1. [n \in Nodes |-> 0] \in [Nodes -> Int]
    OBVIOUS
  <2> QED BY <2>1
<1>3. ASSUME NEW t \in Threads PROVE ListInv(r, t)
  <2>1. \A n \in Nodes : ~ node[n].live
    BY DEF Init, NoNode
  <2>2. \A s \in Streams : ~ stream[s].live
    BY DEF Init, NoStream
  <2>3. pc[t] = "idle" /\ op[t] = "none" /\ estream_list = Null /\ state = "runs"
    BY DEF Init
  <2>4. Listed(t) = {}
    BY <2>1 DEF Listed
  <2>5. LinkInv(r, t)
    BY <2>3, <2>4 DEF LinkInv, Ordered, Movers
  <2>6. EntryInv(t)
    BY <2>1, <2>2, <2>3 DEF EntryInv, Unlisted
  <2>7. StdInv(t)
    BY <2>2, <2>3 DEF StdInv, New
  <2>8. WalkInv(r, t) /\ AllFlushed /\ state # "broken"
    BY <2>3 DEF WalkInv, Walkers, AllFlushed
  <2> QED BY <2>5, <2>6, <2>7, <2>8 DEF ListInv
<1> QED BY <1>1, <1>3 DEF RegistryInv

LEMMA StutterList ==
  ASSUME NEW r, NEW t, ListInv(r, t), UNCHANGED vars
  PROVE  ListInv(r, t)'
<1>1. /\ UNCHANGED <<estream_list, node, stream, object, pc, op, fd, cur, this, cookie>>
      /\ UNCHANGED <<initialized, state>>
  BY DEF vars
<1>2. Listed(t)' = Listed(t)
  BY <1>1 DEF Listed
<1>3. LinkInv(r, t)'
  BY <1>1, <1>2 DEF ListInv, LinkInv
<1>4. EntryInv(t)'
  BY <1>1 DEF ListInv, EntryInv
<1>5. StdInv(t)'
  BY <1>1 DEF ListInv, StdInv, NoStd
<1>6. WalkInv(r, t)'
  BY <1>1, <1>2 DEF ListInv, WalkInv, Passed
<1>7. state' # "broken" /\ AllFlushed'
  BY <1>1 DEF ListInv, AllFlushed
<1> QED BY <1>3, <1>4, <1>5, <1>6, <1>7 DEF ListInv

LEMMA StepList ==
  ASSUME LifeInv, LifeInv', NEW r \in [Nodes -> Int], NEW t \in Threads, ListInv(r, t),
         Open(t) \/ Close(t) \/ All(t) \/ es_write(t) \/ es_fflush(t),
         state' # "freed twice"
  PROVE  \E r2 \in [Nodes -> Int] : ListInv(r2, t)'
<1>1. CASE Open(t)
  <2>1. CASE add_head(t)
    BY <2>1, AddHeadList
  <2>2. CASE EntryFails(t)
    BY <2>2 DEF EntryFails
  <2>3. CASE ~ add_head(t) /\ ~ EntryFails(t)
    <3>1. ListInv(r, t)'
      BY <1>1, <2>3, CallList, CreateList, FailureList, AddList, AddPrevList, FindList,
         StandardList DEF Open
    <3> QED BY <3>1
  <2> QED BY <2>1, <2>2, <2>3
<1>2. CASE Close(t)
  <2>1. ListInv(r, t)'
    BY <1>2, CallList, RemoveList, UnlinkList, UnlinkNextList, DestroyList DEF Close
  <2> QED BY <2>1
<1>3. CASE All(t)
  <2>1. ListInv(r, t)'
    BY <1>3, CallList, VisitList, AdvanceList DEF All
  <2> QED BY <2>1
<1>4. CASE es_write(t) \/ es_fflush(t)
  <2>1. ListInv(r, t)'
    BY <1>4, UseList
  <2> QED BY <2>1
<1> QED BY <1>1, <1>2, <1>3, <1>4

(* Nothing goes on after an object was freed twice.                        *)
LEMMA FreedTwiceIsLast ==
  ASSUME NEW t \in Threads, Open(t) \/ Close(t) \/ All(t) \/ es_write(t) \/ es_fflush(t)
  PROVE  state # "freed twice"
BY DEF Open, Close, All, es_write, es_fflush, es_fdopen, es_create, ObjectFails, StreamFails,
   es_list_add, EntryFails, add_prev, add_head, _es_get_std_stream, find, standard, es_fclose,
   es_list_remove, unlink, unlink_next, es_deinitialize, es_init, es_fflush_all, exit, visit,
   advance, At, Running

LEMMA NextRegistry ==
  ASSUME OneThread, RegistryInv, [Next]_vars
  PROVE  RegistryInv'
<1>1. LifeInv /\ LifeInv'
  BY NextLife DEF RegistryInv
<1>2. PICK t \in Threads : Threads = {t}
  BY DEF OneThread
<1>3. ASSUME state' # "freed twice"
      PROVE  \E r \in [Nodes -> Int] : ListInv(r, t)'
  <2>1. CASE Next
    <3>1. PICK u \in Threads : Open(u) \/ Close(u) \/ All(u) \/ es_write(u) \/ es_fflush(u)
      BY <2>1 DEF Next
    <3>2. u = t
      BY <1>2
    <3>3. PICK r \in [Nodes -> Int] : ListInv(r, t)
      BY <3>1, FreedTwiceIsLast DEF RegistryInv
    <3> QED BY <1>1, <1>3, <3>1, <3>2, <3>3, StepList
  <2>2. CASE UNCHANGED vars
    <3>1. PICK r \in [Nodes -> Int] : ListInv(r, t)
      BY <1>3, <2>2 DEF RegistryInv, vars
    <3> QED BY <2>2, <3>1, StutterList
  <2> QED BY <2>1, <2>2
<1>4. ASSUME state' # "freed twice"
      PROVE  \E r \in [Nodes -> Int] : \A u \in Threads : ListInv(r, u)'
  <2>1. PICK r \in [Nodes -> Int] : ListInv(r, t)'
    BY <1>3, <1>4
  <2>2. \A u \in Threads : ListInv(r, u)'
    <3> TAKE u \in Threads
    <3>1. u = t
      BY <1>2
    <3> QED BY <2>1, <3>1
  <2> QED BY <2>2
<1> QED BY <1>1, <1>4 DEF RegistryInv

LEMMA RegistryInductive == ASSUME OneThread PROVE Spec => []RegistryInv
<1>1. Init => RegistryInv
  BY InitRegistry
<1>2. RegistryInv /\ [Next]_vars => RegistryInv'
  BY NextRegistry
<1> QED BY <1>1, <1>2, PTL DEF Spec

(* With one thread in the library, no entry and no stream is used after it *)
(* was freed: not by a walk, not through the pointers entries keep to each *)
(* other, however addresses are used again and whatever fails.             *)
THEOREM NothingIsUsedAfterFree == ASSUME OneThread PROVE Spec => []NothingFreedIsUsed
<1>1. RegistryInv => NothingFreedIsUsed
  BY OneThread DEF RegistryInv, ListInv, NothingFreedIsUsed, OneThread
<1> QED BY <1>1, RegistryInductive, PTL

(* Between two calls there is an order, and no thread adds or removes.     *)
LEMMA QuietList ==
  ASSUME OneThread, RegistryInv, Quiet
  PROVE  \E r \in [Nodes -> Int] : \E t \in Threads :
           /\ ListInv(r, t) /\ pc[t] \notin Movers \cup Unlisted /\ Listed(t) = Entries
<1>1. PICK t \in Threads : TRUE
  BY DEF OneThread
<1>2. \A u \in Threads : pc[u] \in {"idle", "visit", "advance", "find"}
  BY DEF Quiet
<1>3. state # "freed twice"
  BY <1>2 DEF RegistryInv, LifeInv
<1>4. PICK r \in [Nodes -> Int] : ListInv(r, t)
  BY <1>1, <1>3 DEF RegistryInv
<1>5. pc[t] \notin Movers \cup Unlisted
  BY <1>1, <1>2 DEF Movers, Unlisted
<1>6. Listed(t) = Entries
  BY <1>5 DEF Listed, Entries
<1> QED BY <1>1, <1>4, <1>5, <1>6

(* With one thread, the list is sound between two calls: every prev_cdr is *)
(* where the pointer to the entry is, the first entry's is estream_list,   *)
(* and each live stream has exactly one entry.                             *)
THEOREM ListIsSound == ASSUME OneThread PROVE Spec => []ListSound
<1>1. RegistryInv => ListSound
  <2> SUFFICES ASSUME RegistryInv, Quiet
               PROVE  /\ \A n \in Entries :
                           /\ CASE node[n].prev_cdr = "estream_list" -> estream_list = n
                                [] OTHER -> /\ node[n].prev_cdr \in Entries
                                            /\ node[node[n].prev_cdr].cdr = n
                           /\ node[n].cdr # Null =>
                                node[n].cdr \in Entries /\ node[node[n].cdr].prev_cdr = n
                           /\ stream[node[n].car].live
                      /\ estream_list # Null =>
                           estream_list \in Entries /\ node[estream_list].prev_cdr = "estream_list"
                      /\ \A s \in Streams : stream[s].live =>
                           Cardinality({n \in Entries : node[n].car = s}) = 1
    BY DEF ListSound
  <2>1. PICK r \in [Nodes -> Int], t \in Threads :
          ListInv(r, t) /\ pc[t] \notin Movers \cup Unlisted /\ Listed(t) = Entries
    BY OneThread, QuietList
  <2>2. /\ Ordered(r, Entries, estream_list, node) /\ EntryInv(t)
        /\ \A n \in Entries : PointedTo(Entries, estream_list, node, node[n].prev_cdr, n)
        /\ \A n \in Entries : r[n] \in Int /\ n \in Nodes /\ n # Null /\ n # "estream_list"
    BY <2>1, AddressAssumption DEF ListInv, LinkInv, Movers, Entries
  <2>3. \A m \in Entries : node[m].cdr # Null =>
          /\ node[m].cdr \in Entries /\ node[m].cdr # m /\ node[m].cdr # estream_list
          /\ \A n \in Entries : node[n].cdr = node[m].cdr => m = n
    BY <2>2, OnePointer
  <2>4. ASSUME NEW n \in Entries
        PROVE  /\ node[n].prev_cdr = "estream_list" => estream_list = n
               /\ node[n].prev_cdr # "estream_list" =>
                    node[n].prev_cdr \in Entries /\ node[node[n].prev_cdr].cdr = n
    BY <2>2 DEF PointedTo
  <2>5. ASSUME NEW n \in Entries, node[n].cdr # Null
        PROVE  node[n].cdr \in Entries /\ node[node[n].cdr].prev_cdr = n
    <3> DEFINE m == node[n].cdr
    <3>1. m \in Entries /\ m # estream_list /\ \A q \in Entries : node[q].cdr = m => n = q
      BY <2>3, <2>5
    <3> HIDE DEF m
    <3>2. PointedTo(Entries, estream_list, node, node[m].prev_cdr, m)
      BY <2>2, <3>1
    <3>3. node[m].prev_cdr = n
      BY <3>1, <3>2 DEF PointedTo
    <3> QED BY <3>1, <3>3 DEF m
  <2>6. ASSUME estream_list # Null
        PROVE  estream_list \in Entries /\ node[estream_list].prev_cdr = "estream_list"
    <3>1. estream_list \in Entries
      BY <2>2, <2>6 DEF Ordered
    <3>2. \A q \in Entries : node[q].cdr # estream_list
      BY <2>3, <2>6
    <3>3. PointedTo(Entries, estream_list, node, node[estream_list].prev_cdr, estream_list)
      BY <2>2, <3>1
    <3> QED BY <3>1, <3>2, <3>3 DEF PointedTo
  <2>7. ASSUME NEW s \in Streams, stream[s].live
        PROVE  Cardinality({n \in Entries : node[n].car = s}) = 1
    <3>1. PICK x \in Nodes : node[x].live /\ node[x].car = s
      BY <2>1, <2>2, <2>7 DEF EntryInv
    <3>2. \A n \in Nodes : node[n].live /\ node[n].car = s => n = x
      BY <2>2, <3>1 DEF EntryInv
    <3>3. {n \in Entries : node[n].car = s} = {x}
      BY <3>1, <3>2 DEF Entries
    <3> QED BY <3>3, FS_Singleton
  <2>8. \A n \in Entries : stream[node[n].car].live
    BY <2>2 DEF EntryInv, Entries
  <2>9. ASSUME NEW n \in Entries
        PROVE  CASE node[n].prev_cdr = "estream_list" -> estream_list = n
                 [] OTHER -> node[n].prev_cdr \in Entries /\ node[node[n].prev_cdr].cdr = n
    <3>1. CASE node[n].prev_cdr = "estream_list"
      BY <2>4, <3>1
    <3>2. CASE node[n].prev_cdr # "estream_list"
      BY <2>4, <3>2
    <3> QED BY <3>1, <3>2
  <2> QED BY <2>5, <2>6, <2>7, <2>8, <2>9
<1> QED BY <1>1, RegistryInductive, PTL

(* With one thread, the standard stream of 0, 1 or 2 exists once between   *)
(* calls, however often it was asked for, by the number itself or by any   *)
(* int with that remainder, whatever negative numbers were asked for in    *)
(* between and whatever failed while it was made.                          *)
THEOREM StdStreamsAreUnique == ASSUME OneThread PROVE Spec => []StdStreamUnique
<1>1. RegistryInv => StdStreamUnique
  <2> SUFFICES ASSUME RegistryInv, Quiet, NEW q \in Streams, NEW s \in Streams,
                      stream[q].live, stream[s].live, stream[q].std = stream[s].std,
                      stream[q].std \in 0 .. 2
               PROVE  q = s
    BY DEF StdStreamUnique
  <2>1. PICK r \in [Nodes -> Int], t \in Threads : ListInv(r, t)
    BY OneThread, QuietList
  <2> QED BY <2>1 DEF ListInv, StdInv
<1> QED BY <1>1, RegistryInductive, PTL

(* With one thread, every stream still open when the process has ended has *)
(* been flushed by the exit handler, or its flush failed and said so: the  *)
(* walk misses none.                                                       *)
THEOREM ExitFlushesAll == ASSUME OneThread PROVE Spec => []AllFlushed
<1>1. RegistryInv => AllFlushed
  <2> SUFFICES ASSUME RegistryInv, state = "exited" PROVE AllFlushed
    BY DEF AllFlushed
  <2>1. PICK r \in [Nodes -> Int], t \in Threads : ListInv(r, t)
    BY OneThread DEF RegistryInv, OneThread
  <2> QED BY <2>1 DEF ListInv
<1> QED BY <1>1, RegistryInductive, PTL
=============================================================================
