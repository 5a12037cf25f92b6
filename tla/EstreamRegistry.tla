--------------------------- MODULE EstreamRegistry ---------------------------
(***************************************************************************)
(* The registry of streams in src/src/estream.c: creating and destroying   *)
(* streams, the linked list of all of them that es_fflush (NULL) and the   *)
(* exit handler walk, and the standard streams that are made on demand.    *)
(*                                                                         *)
(* A stream is what the registry knows of it: its object (the cookie, with *)
(* the descriptor or FILE it stands for), whether it holds output that has *)
(* not been flushed, its error indicator and the standard stream it is.    *)
(* Memory is a set of addresses that malloc hands out and free takes back, *)
(* in any order, so that an address may be used again.                     *)
(*                                                                         *)
(* ESTREAM_LIST_LOCK and ESTREAM_LOCK expand to a function that does       *)
(* nothing: threads interleave between any two accesses to the list.       *)
(*                                                                         *)
(* A definition headed "Variant" is the one it precedes with a bug in it:  *)
(* nothing uses it, it shows what a property of this module tells apart.   *)
(***************************************************************************)
EXTENDS Integers, FiniteSets

CONSTANTS
  Threads,       (* The threads of the process.                            *)
  Streams,       (* Addresses of streams.                                  *)
  Nodes,         (* Addresses of list entries.                             *)
  Null,          (* The null pointer.                                      *)
  Objects,       (* Cookies, used once each: the bound on streams created. *)
  StdFds,        (* The numbers it asks for a standard stream by: ints.    *)
  Fails          (* What malloc may fail for.                              *)

AllFails == {"object", "stream", "entry"}

ASSUME AddressAssumption ==
  /\ Null \notin Streams \cup Nodes \cup Objects
  /\ "estream_list" \notin Nodes
ASSUME ClientAssumption == StdFds \subseteq Int /\ Fails \subseteq AllFails

VARIABLES
  estream_list,  (* The first entry.                                       *)
  node,          (* of each address: the entry there                       *)
  stream,        (* of each address: the stream there                      *)
  object,        (* of each cookie: how often it was made and freed, and   *)
                 (* whether what it stands for has been closed             *)
  pc,            (* where each thread is                                   *)
  op,            (* the call it makes                                      *)
  fd,            (* the standard stream it asks for, divided by 3          *)
  cur,           (* the list entry it looks at, or adds                    *)
  this,          (* the stream its call is about                           *)
  cookie,        (* the object it has made                                 *)
  initialized,   (* es_init has registered the exit handler                *)
  state          (* of the process: "runs", "exits", "exited", "aborted",  *)
                 (* "broken": it has used freed memory, "freed twice"      *)

vars == <<estream_list, node, stream, object, pc, op, fd, cur, this, cookie,
          initialized, state>>
local == <<pc, op, fd, cur, this, cookie>>

NoStd  == 3
NoNode == [live |-> FALSE, car |-> Null, cdr |-> Null, prev_cdr |-> "estream_list"]
NoStream == [live |-> FALSE, cookie |-> Null, std |-> NoStd, owner |-> Null,
             writes |-> FALSE, dirty |-> FALSE, err |-> FALSE]
NoObject == [made |-> 0, freed |-> 0, kind |-> "none", closed |-> FALSE]

Init ==
  /\ estream_list = Null
  /\ node = [n \in Nodes |-> NoNode]
  /\ stream = [s \in Streams |-> NoStream]
  /\ object = [o \in Objects |-> NoObject]
  /\ pc = [t \in Threads |-> "idle"] /\ op = [t \in Threads |-> "none"]
  /\ fd = [t \in Threads |-> NoStd]
  /\ cur = [t \in Threads |-> Null] /\ this = [t \in Threads |-> Null]
  /\ cookie = [t \in Threads |-> Null]
  /\ initialized = FALSE /\ state = "runs"

Running == state \in {"runs", "exits"}
At(t, where) == Running /\ pc[t] = where
Goto(t, where) == pc' = [pc EXCEPT ![t] = where]
Look(t, n) == cur' = [cur EXCEPT ![t] = n]
Begin(t, f, d, where) ==
  op' = [op EXCEPT ![t] = f] /\ fd' = [fd EXCEPT ![t] = d] /\ Goto(t, where)

(* The call of t returns.                                                  *)
Return(t) ==
  /\ Goto(t, "idle") /\ op' = [op EXCEPT ![t] = "none"]
  /\ fd' = [fd EXCEPT ![t] = NoStd]
  /\ Look(t, Null) /\ this' = [this EXCEPT ![t] = Null]
  /\ cookie' = [cookie EXCEPT ![t] = Null]

(* The entries there are, in the list or on their way into it or out of it. *)
Entries == {n \in Nodes : node[n].live}

(* t has used an address that nothing lives at.                            *)
Breaks(t) ==
  /\ state' = "broken"
  /\ UNCHANGED <<estream_list, node, stream, object, local, initialized>>

-----------------------------------------------------------------------------
(* Creating a stream.                                                      *)

es_fdopen(t) ==
  /\ At(t, "idle") /\ state = "runs"
  /\ Begin(t, "es_fdopen", NoStd, "create")
  /\ UNCHANGED <<estream_list, node, stream, object, cur, this, cookie,
                 initialized, state>>

(* What the function's objects are made from: a descriptor of the client's *)
(* that is closed with the stream, a standard C stream that is not, or     *)
(* nothing, when that has failed before: the bit bucket.                   *)
Kind(t) ==
  CASE op[t] = "es_fdopen" -> "fd"
    [] pc[t] = "bucket"    -> "bucket"
    [] OTHER               -> "fp"

(* es_func_fp_destroy and es_func_fd_destroy: a standard C stream stays    *)
(* open, for no_close was set.                                             *)
Destroyed(o) == [o EXCEPT !.freed = @ + 1, !.closed = o.kind = "fd"]

Created(t) == [NoObject EXCEPT !.made = 1, !.kind = Kind(t)]

es_initialized(t, o) ==
  [NoStream EXCEPT !.live = TRUE, !.cookie = o, !.owner = t, !.writes = fd[t] # 0]

(* do_fdopen, do_fpopen: the object, then es_create makes the stream       *)
(* around it.  Nobody else has seen either yet.                            *)
es_create(t) ==
  /\ At(t, "create") \/ At(t, "bucket")
  /\ \E o \in Objects, s \in Streams :
       /\ object[o].made = 0 /\ ~ stream[s].live
       /\ object' = [object EXCEPT ![o] = Created(t)]
       /\ cookie' = [cookie EXCEPT ![t] = o]
       /\ stream' = [stream EXCEPT ![s] = es_initialized(t, o)]
       /\ this' = [this EXCEPT ![t] = s]
  /\ Goto(t, "es_list_add")
  /\ UNCHANGED <<estream_list, node, op, fd, cur, initialized, state>>

(* The next thing _es_get_std_stream tries; es_fdopen returns NULL.        *)
CreateFailed(t) ==
  \/ /\ op[t] = "es_fdopen"
     /\ Return(t)
     /\ UNCHANGED state
  \/ /\ op[t] # "es_fdopen" /\ pc[t] = "create"
     /\ Goto(t, "bucket")
     /\ UNCHANGED <<op, fd, cur, this, cookie, state>>
  \/ /\ op[t] # "es_fdopen" /\ pc[t] = "bucket"
     /\ state' = "aborted"
     /\ UNCHANGED local

(* malloc of the object fails, or opening what it stands for.              *)
ObjectFails(t) ==
  /\ At(t, "create") \/ At(t, "bucket")
  /\ "object" \in Fails
  /\ CreateFailed(t)
  /\ UNCHANGED <<estream_list, node, stream, object, initialized>>

(* Variant: the caller does not close the object when es_create fails.     *)
StreamFailsLeaking(t) ==
  /\ At(t, "create") \/ At(t, "bucket")
  /\ "stream" \in Fails
  /\ \E o \in Objects :
       /\ object[o].made = 0
       /\ object' = [object EXCEPT ![o] = Created(t)]
  /\ CreateFailed(t)
  /\ UNCHANGED <<estream_list, node, stream, initialized>>

(* malloc of the stream fails: the caller closes the object.               *)
StreamFails(t) ==
  /\ At(t, "create") \/ At(t, "bucket")
  /\ "stream" \in Fails
  /\ \E o \in Objects :
       /\ object[o].made = 0
       /\ object' = [object EXCEPT ![o] = Destroyed(Created(t))]
  /\ CreateFailed(t)
  /\ UNCHANGED <<estream_list, node, stream, initialized>>

(* es_list_add, first part: the entry is filled in.                        *)
es_list_add(t) ==
  /\ At(t, "es_list_add")
  /\ \E n \in Nodes :
       /\ ~ node[n].live
       /\ node' = [node EXCEPT ![n] =
                     [live |-> TRUE, car |-> this[t], cdr |-> estream_list,
                      prev_cdr |-> "estream_list"]]
       /\ Look(t, n)
  /\ Goto(t, "add_prev")
  /\ UNCHANGED <<estream_list, stream, object, op, fd, this, cookie, initialized, state>>

(* malloc of the entry fails: es_create has es_deinitialize close the      *)
(* object, then its caller closes it once more: a double free.             *)
EntryFails(t) ==
  /\ At(t, "es_list_add") /\ "entry" \in Fails
  /\ object' = [object EXCEPT ![cookie[t]] = Destroyed(Destroyed(@))]
  /\ stream' = [stream EXCEPT ![this[t]] = NoStream]
  /\ state' = "freed twice"
  /\ UNCHANGED <<estream_list, node, local, initialized>>

(* Variant: the first entry keeps its prev_cdr.                            *)
add_prev_not(t) ==
  /\ At(t, "add_prev")
  /\ Goto(t, "add_head")
  /\ UNCHANGED <<estream_list, node, stream, object, op, fd, cur, this, cookie,
                 initialized, state>>

(* if (estream_list) estream_list->prev_cdr = &list_obj->cdr;              *)
add_prev(t) ==
  /\ At(t, "add_prev")
  /\ \/ /\ estream_list \in Entries \cup {Null}
        /\ node' = [n \in Nodes |-> IF n = estream_list
                                    THEN [node[n] EXCEPT !.prev_cdr = cur[t]]
                                    ELSE node[n]]
        /\ Goto(t, "add_head")
        /\ UNCHANGED <<estream_list, stream, object, op, fd, cur, this, cookie,
                       initialized, state>>
     \/ /\ estream_list \notin Entries \cup {Null}
        /\ Breaks(t)

(* estream_list = list_obj; es_fdopen is done with it.                     *)
add_head(t) ==
  /\ At(t, "add_head")
  /\ estream_list' = cur[t]
  /\ \/ op[t] = "es_fdopen" /\ Return(t)
     \/ /\ op[t] # "es_fdopen" /\ Goto(t, "standard")
        /\ UNCHANGED <<op, fd, cur, this, cookie>>
  /\ UNCHANGED <<node, stream, object, initialized, state>>

(* _es_get_std_stream: is_stdstream, stdstream_fd.                         *)
standard(t) ==
  /\ At(t, "standard")
  /\ stream' = [stream EXCEPT ![this[t]].std = fd[t]]
  /\ Return(t)
  /\ UNCHANGED <<estream_list, node, object, initialized, state>>

(* d % 3 as C has it, with the sign of d.                                  *)
Remainder(d) == IF d < 0 THEN - ((- d) % 3) ELSE d % 3

(* stdstream_fd, an unsigned field of two bits, once d is stored in it.    *)
Stored(d) == d % 4

(* The stream s is the one that is looked for with the remainder d.        *)
IsStdStream(s, d) == s.std # NoStd /\ Stored(s.std) = d

(* Variant: the argument is taken as it is.                                *)
std_any(t, d) ==
  /\ At(t, "idle") /\ state = "runs"
  /\ Begin(t, "_es_get_std_stream", d, "find") /\ Look(t, estream_list)
  /\ UNCHANGED <<estream_list, node, stream, object, this, cookie, initialized, state>>

(* _es_get_std_stream: "We only allow 0, 1 or 2 but we don't want to return *)
(* an error".  For a negative number it is -1 or -2 that goes on: an output *)
(* stream on stderr is made, and never found again by the number.          *)
_es_get_std_stream(t, d) ==
  /\ At(t, "idle") /\ state = "runs"
  /\ Begin(t, "_es_get_std_stream", Remainder(d), "find") /\ Look(t, estream_list)
  /\ UNCHANGED <<estream_list, node, stream, object, this, cookie, initialized, state>>

(* Variant: only the last stream that was opened is looked at.             *)
find_first(t) ==
  /\ At(t, "find")
  /\ \/ /\ cur[t] \in Entries /\ IsStdStream(stream[node[cur[t]].car], fd[t])
        /\ Return(t)
     \/ /\ ~ (cur[t] \in Entries /\ IsStdStream(stream[node[cur[t]].car], fd[t]))
        /\ Goto(t, "create") /\ UNCHANGED <<op, fd, cur, this, cookie>>
  /\ UNCHANGED <<estream_list, node, stream, object, initialized, state>>

(* It looks at one entry of the list.                                      *)
find(t) ==
  /\ At(t, "find")
  /\ \/ cur[t] = Null /\ Goto(t, "create") /\ UNCHANGED <<op, fd, cur, this, cookie, state>>
     \/ /\ cur[t] # Null
        /\ LET n == node[cur[t]]
           IN  \/ /\ n.live /\ stream[n.car].live /\ IsStdStream(stream[n.car], fd[t])
                  /\ Return(t)
                  /\ UNCHANGED state
               \/ /\ n.live /\ stream[n.car].live /\ ~ IsStdStream(stream[n.car], fd[t])
                  /\ Look(t, n.cdr)
                  /\ UNCHANGED <<pc, op, fd, this, cookie, state>>
               \/ /\ ~ (n.live /\ stream[n.car].live)
                  /\ state' = "broken"
                  /\ UNCHANGED local
  /\ UNCHANGED <<estream_list, node, stream, object, initialized>>

-----------------------------------------------------------------------------
(* Using and destroying a stream.                                          *)

(* The streams t may use: those it opened, not while it is closing one.    *)
Mine(t) == {s \in Streams : stream[s].live /\ stream[s].owner = t}

es_write(t) ==
  /\ At(t, "idle") /\ state = "runs"
  /\ \E s \in Mine(t) :
       /\ stream[s].writes
       /\ stream' = [stream EXCEPT ![s].dirty = TRUE]
  /\ UNCHANGED <<estream_list, node, object, local, initialized, state>>

(* es_flush: the output is out, or it is not and the indicator is set.     *)
Flushed(s) ==
  {[s EXCEPT !.dirty = FALSE]} \cup
  (IF s.dirty THEN {[s EXCEPT !.err = TRUE]} ELSE {})

(* es_fflush of one stream.                                                *)
es_fflush(t) ==
  /\ At(t, "idle") /\ state = "runs"
  /\ \E s \in Mine(t) : \E f \in Flushed(stream[s]) : stream' = [stream EXCEPT ![s] = f]
  /\ UNCHANGED <<estream_list, node, object, local, initialized, state>>

es_fclose(t) ==
  /\ At(t, "idle") /\ state = "runs"
  /\ \E s \in Mine(t) : this' = [this EXCEPT ![t] = s]
  /\ Begin(t, "es_fclose", NoStd, "es_list_remove") /\ Look(t, estream_list)
  /\ UNCHANGED <<estream_list, node, stream, object, cookie, initialized, state>>

(* One entry is compared.                                                  *)
es_list_remove(t) ==
  /\ At(t, "es_list_remove")
  /\ \/ /\ cur[t] = Null
        /\ Goto(t, "es_deinitialize") /\ UNCHANGED <<cur, state>>
     \/ /\ cur[t] \in Entries /\ node[cur[t]].car = this[t]
        /\ Goto(t, "unlink") /\ UNCHANGED <<cur, state>>
     \/ /\ cur[t] \in Entries /\ node[cur[t]].car # this[t]
        /\ Look(t, node[cur[t]].cdr) /\ UNCHANGED <<pc, state>>
     \/ /\ cur[t] \notin Entries \cup {Null}
        /\ state' = "broken" /\ UNCHANGED <<pc, cur>>
  /\ UNCHANGED <<estream_list, node, stream, object, op, fd, this, cookie, initialized>>

(* *list_obj->prev_cdr = list_obj->cdr;                                    *)
unlink(t) ==
  /\ At(t, "unlink")
  /\ LET n == node[cur[t]]
     IN  \/ /\ n.prev_cdr = "estream_list"
            /\ estream_list' = n.cdr
            /\ UNCHANGED <<node, state>>
         \/ /\ n.prev_cdr # "estream_list"
            /\ node' = [node EXCEPT ![n.prev_cdr].cdr = n.cdr]
            /\ state' = IF n.prev_cdr \in Entries THEN state ELSE "broken"
            /\ UNCHANGED estream_list
  /\ Goto(t, "unlink_next")
  /\ UNCHANGED <<stream, object, op, fd, cur, this, cookie, initialized>>

(* Variant: the next entry keeps the address of the one that is freed.     *)
unlink_next_not(t) ==
  /\ At(t, "unlink_next")
  /\ node' = [node EXCEPT ![cur[t]] = NoNode]
  /\ Goto(t, "es_deinitialize") /\ Look(t, Null)
  /\ UNCHANGED <<estream_list, stream, object, op, fd, this, cookie, initialized, state>>

(* if (list_obj->cdr) list_obj->cdr->prev_cdr = list_obj->prev_cdr; free.  *)
unlink_next(t) ==
  /\ At(t, "unlink_next")
  /\ LET n == node[cur[t]]
     IN  /\ node' = [m \in Nodes |->
                       CASE m = cur[t] -> NoNode
                         [] m = n.cdr /\ m # cur[t] ->
                              [node[m] EXCEPT !.prev_cdr = n.prev_cdr]
                         [] OTHER -> node[m]]
         /\ state' = IF n.live /\ n.cdr \in Entries \cup {Null}
                     THEN state ELSE "broken"
  /\ Goto(t, "es_deinitialize") /\ Look(t, Null)
  /\ UNCHANGED <<estream_list, stream, object, op, fd, this, cookie, initialized>>

(* The rest of es_destroy: the stream is flushed, which may fail, its      *)
(* object closed, its memory freed.                                        *)
es_deinitialize(t) ==
  /\ At(t, "es_deinitialize")
  /\ object' = [object EXCEPT ![stream[this[t]].cookie] = Destroyed(@)]
  /\ stream' = [stream EXCEPT ![this[t]] = NoStream]
  /\ Return(t)
  /\ UNCHANGED <<estream_list, node, initialized, state>>

-----------------------------------------------------------------------------
(* All streams: es_fflush (NULL), and es_deinit when the process exits.    *)

es_init(t) ==
  /\ At(t, "idle") /\ state = "runs"
  /\ initialized' = TRUE
  /\ UNCHANGED <<estream_list, node, stream, object, local, state>>

es_fflush_all(t) ==
  /\ At(t, "idle") /\ state = "runs"
  /\ Begin(t, "es_fflush", NoStd, "visit") /\ Look(t, estream_list)
  /\ UNCHANGED <<estream_list, node, stream, object, this, cookie, initialized, state>>

(* main returns, and no other thread is inside the library.                *)
exit(t) ==
  /\ state = "runs" /\ \A u \in Threads : pc[u] = "idle"
  /\ \/ /\ initialized
        /\ state' = "exits"
        /\ Begin(t, "es_deinit", NoStd, "visit") /\ Look(t, estream_list)
     \/ /\ ~ initialized
        /\ state' = "exited"
        /\ UNCHANGED <<pc, op, fd, cur>>
  /\ UNCHANGED <<estream_list, node, stream, object, this, cookie, initialized>>

(* Variant: a stream that cannot be flushed ends the walk.                 *)
visit_until_error(t) ==
  /\ At(t, "visit")
  /\ \/ /\ cur[t] = Null
        /\ Return(t)
        /\ state' = IF op[t] = "es_deinit" THEN "exited" ELSE state
        /\ UNCHANGED stream
     \/ /\ cur[t] \in Entries
        /\ LET s == node[cur[t]].car
           IN  \/ /\ stream' = [stream EXCEPT ![s].dirty = FALSE]
                  /\ Goto(t, "advance")
                  /\ UNCHANGED <<op, fd, cur, this, cookie, state>>
               \/ /\ stream[s].dirty
                  /\ stream' = [stream EXCEPT ![s].err = TRUE]
                  /\ Look(t, Null)
                  /\ UNCHANGED <<pc, op, fd, this, cookie, state>>
  /\ UNCHANGED <<estream_list, node, object, initialized>>

(* es_list_iterate: do_fflush of one entry's stream.                       *)
visit(t) ==
  /\ At(t, "visit")
  /\ \/ /\ cur[t] = Null
        /\ Return(t)
        /\ state' = IF op[t] = "es_deinit" THEN "exited" ELSE state
        /\ UNCHANGED stream
     \/ /\ cur[t] # Null
        /\ LET n == node[cur[t]]
           IN  \/ /\ n.live /\ stream[n.car].live
                  /\ \E f \in Flushed(stream[n.car]) :
                       stream' = [stream EXCEPT ![n.car] = f]
                  /\ Goto(t, "advance")
                  /\ UNCHANGED <<op, fd, cur, this, cookie, state>>
               \/ /\ ~ (n.live /\ stream[n.car].live)
                  /\ state' = "broken"
                  /\ UNCHANGED <<stream, local>>
  /\ UNCHANGED <<estream_list, node, object, initialized>>

(* list_obj = list_obj->cdr                                                *)
advance(t) ==
  /\ At(t, "advance")
  /\ \/ /\ cur[t] \in Entries
        /\ Look(t, node[cur[t]].cdr) /\ Goto(t, "visit") /\ UNCHANGED state
     \/ /\ cur[t] \notin Entries
        /\ state' = "broken" /\ UNCHANGED <<pc, cur>>
  /\ UNCHANGED <<estream_list, node, stream, object, op, fd, this, cookie, initialized>>

-----------------------------------------------------------------------------
Open(t) ==
  \/ es_fdopen(t) \/ es_create(t) \/ ObjectFails(t) \/ StreamFails(t)
  \/ es_list_add(t) \/ EntryFails(t) \/ add_prev(t) \/ add_head(t)
  \/ \E d \in StdFds : _es_get_std_stream(t, d)
  \/ find(t) \/ standard(t)

Close(t) ==
  es_fclose(t) \/ es_list_remove(t) \/ unlink(t) \/ unlink_next(t) \/ es_deinitialize(t)

All(t) == es_init(t) \/ es_fflush_all(t) \/ exit(t) \/ visit(t) \/ advance(t)

Next == \E t \in Threads : Open(t) \/ Close(t) \/ All(t) \/ es_write(t) \/ es_fflush(t)

Spec == Init /\ [][Next]_vars

-----------------------------------------------------------------------------
(* Properties.                                                             *)

Labels == {"idle", "create", "bucket", "es_list_add", "add_prev", "add_head",
           "standard", "find", "es_list_remove", "unlink", "unlink_next",
           "es_deinitialize", "visit", "advance"}
Ops == {"none", "es_fdopen", "es_fclose", "es_fflush", "es_deinit",
        "_es_get_std_stream"}

(* The type invariant: of the list, the streams, their objects, the threads. *)
(* std is NoStd (is_stdstream is 0) or the remainder the stream was made   *)
(* for, of which stdstream_fd keeps two bits.                              *)
TypeOK ==
  /\ estream_list \in Nodes \cup {Null}
  /\ node \in [Nodes -> [live : BOOLEAN, car : Streams \cup {Null},
                         cdr : Nodes \cup {Null},
                         prev_cdr : Nodes \cup {"estream_list"}]]
  /\ stream \in [Streams -> [live : BOOLEAN, cookie : Objects \cup {Null},
                             std : -2 .. NoStd, owner : Threads \cup {Null},
                             writes : BOOLEAN, dirty : BOOLEAN, err : BOOLEAN]]
  /\ object \in [Objects -> [made : 0 .. 1, freed : 0 .. 2, closed : BOOLEAN,
                             kind : {"none", "fd", "fp", "bucket"}]]
  /\ pc \in [Threads -> Labels] /\ op \in [Threads -> Ops]
  /\ fd \in [Threads -> -2 .. NoStd]
  /\ cur \in [Threads -> Nodes \cup {Null}]
  /\ this \in [Threads -> Streams \cup {Null}]
  /\ cookie \in [Threads -> Objects \cup {Null}]
  /\ initialized \in BOOLEAN
  /\ state \in {"runs", "exits", "exited", "aborted", "broken", "freed twice"}

(* No entry and no stream is used after it was freed, neither through the  *)
(* list nor through the pointers that entries keep to each other, in any   *)
(* order of adding, removing, walking and using addresses again.           *)
NothingFreedIsUsed == state # "broken"

(* The list between two calls: every entry's prev_cdr is where the pointer *)
(* to it is, and the entries, each reached by one pointer and the first by *)
(* estream_list, hold the live streams, each of them once.                 *)
Quiet == \A t \in Threads : pc[t] \in {"idle", "visit", "advance", "find"}
ListSound == Quiet =>
  /\ \A n \in Entries :
       /\ CASE node[n].prev_cdr = "estream_list" -> estream_list = n
            [] OTHER -> node[n].prev_cdr \in Entries /\ node[node[n].prev_cdr].cdr = n
       /\ node[n].cdr # Null =>
            node[n].cdr \in Entries /\ node[node[n].cdr].prev_cdr = n
       /\ stream[node[n].car].live
  /\ estream_list # Null =>
       estream_list \in Entries /\ node[estream_list].prev_cdr = "estream_list"
  /\ \A s \in Streams : stream[s].live =>
       Cardinality({n \in Entries : node[n].car = s}) = 1

(* A standard stream exists once (_es_get_std_stream: "Return the stream   *)
(* used for stdin, stdout or stderr"), however often it was asked for and  *)
(* closed, by numbers that are not negative, with streams that were asked  *)
(* for by negative ones in between.  Each call with a negative number      *)
(* makes another stream on stderr.                                         *)
StdStreamUnique == Quiet =>
  \A r, s \in Streams :
    stream[r].live /\ stream[s].live /\ stream[r].std = stream[s].std
      /\ stream[r].std \in 0 .. 2 => r = s

(* An object lives as long as its stream: freed once, when the stream is   *)
(* destroyed or could not be made, never twice and never left behind, one  *)
(* case apart, EntryFails.  The C library's standard streams are never     *)
(* closed.                                                                 *)
ObjectLifetime == state # "freed twice" =>
  \A o \in Objects :
    /\ object[o].freed <= 1
    /\ object[o].made = 1 /\ object[o].freed = 0 <=>
         \E s \in Streams : stream[s].live /\ stream[s].cookie = o
    /\ object[o].closed <=> object[o].freed = 1 /\ object[o].kind = "fd"

(* es_deinit: "Flush all streams".  When the process has ended, every      *)
(* stream still open that was written to has been flushed, or its flush    *)
(* has failed and said so.                                                 *)
AllFlushed == state = "exited" /\ initialized =>
  \A s \in Streams : stream[s].live /\ stream[s].dirty => stream[s].err
=============================================================================
