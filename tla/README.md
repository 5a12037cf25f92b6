# TLA+ specifications of libbsd4sol

libbsd4sol carries BSD library functions to Solaris: buffered streams
(`estream`, from libestream), the arc4random generator, symbolic file modes,
string encoders, small replacements for libc functions. The code has hardly any
tests. These modules model its functions, check them on small instances with
TLC, and prove some of their properties for every instance with TLAPS.
`PROJECT.json` lists components, runs, the source lines behind every definition,
and the hazards that the properties answer.

## Inventory

| Component (under `src/`) | State | Operations | What makes it hard | What makes it correct |
|---|---|---|---|---|
| One stream: `src/estream.c` | One buffer for input and output, its offsets, a reading/writing flag, indicators, a buffering mode; the object (cookie) behind it | `es_read`, `es_write`, `es_getline`, `es_fseek`, `es_fflush`, `es_setvbuf`, `es_clearerr`, `es_fclose` | The object transfers fewer bytes than asked or fails in the middle; every change between reading, writing and seeking reinterprets the buffer | The client sees one file with one position; no byte lost, repeated or invented; no error swallowed; offsets stay in order; every call returns |
| Registry of streams: `src/estream.c` | A linked list with back pointers, the streams and objects on the heap, the standard streams | `es_fopen`/`es_fdopen`/`es_fopencookie`, `es_fclose`, `es_fflush (NULL)`, the exit handler, `_es_get_std_stream` | Allocation failures half way, memory that is used again, locks that do nothing | The list is sound; nothing freed is used; objects are closed once; everything is flushed at exit |
| Object functions: `src/estream.c` | Memory object: buffer, size, offset. Descriptor and FILE objects: the kernel's offset | read, write, seek, close of each; mode strings | Growth and limits of the memory object; `no_close`; the bit bucket | A file of bytes; what may be closed is closed once |
| `estream-printf.c` | Arrays of argument and value descriptions | parse, read arguments, format, output | Positional arguments, growth of both arrays, widths taken from arguments | Every conversion gets the argument of its position and type |
| arc4random: `src/arc4random.c`, `src/arc4random_solaris.h` | Per process: keystream buffer, key, byte counts, pid, fork flag, mutex | `arc4random`, `arc4random_buf`, `arc4random_stir`, `arc4random_addrandom`, `fork` from outside | Threads, fork at any time, pids that are used again, failing entropy | No byte twice, in or across processes; no way back to bytes given; reseeding in time; mutual exclusion |
| `arc4random_uniform.c` | none | rejection sampling | unsigned wrap-around | uniform, ends |
| `getentropy_solaris.c` | two devices tried in turn | open, read until full, check | `EINTR`, `EAGAIN`, short reads, the second device after half a buffer | full buffer of one device or an error, nothing left open |
| `setmode.c` | array of commands | compile, compress, apply | `compress_mode` merges commands; the array grows near its end; umask is process-wide | compressed and original commands mean the same for every mode |
| `vis.c`, `unvis.c` | decoder state, pushed-back character | encode, decode one character | encoding depends on the next character | decode after encode is the identity |
| `time.c` (`timegm`) | none | normalise, count days | negative and large fields | agrees with the calendar |
| `stringlist.c`, `fgetln.c`, `getline.c` | growing arrays | add, find, delete, read a line | growth boundary, failure in the middle, static buffer | nothing lost, bounds kept |
| `bsd/sys/tree.h` | red-black and splay trees | insert, remove, find, next | rebalancing in every shape | order, links, colours, black height |
| `fchmodat.c`, `dprintf.c`, `vasprintf.c`, `reallocf.c` | none | a few system or library calls each | any of them fails | nothing left behind, the right `errno` |
| `flock.c` | the kernel's locks | translate to `fcntl` | locks belong to processes, not descriptors | what a caller of `flock` may rely on |
| `strtonum.c`, `reallocarray.c` | none | checked conversion and allocation | overflow at the boundary | exact range, no overflow |
| `setproctitle.c`, `progname.c`, `err.c`, string functions, chacha, SHA-512, headers | little or none | | see "Not modelled" | |

How they interact: a client calls a stream; the stream calls the functions of
its object (`func_read`, `func_write`, `func_seek`, `func_close`), which are the
library's own or the client's. `es_fopen` and `es_fclose` enter the stream in
the registry and take it out; `es_fflush (NULL)` and the exit handler walk the
registry and flush each stream. `es_printf` formats straight into a stream.
`arc4random_uniform` calls `arc4random`, which calls `getentropy`.

## What is modelled

### `Estream`: one stream

The C code is sequential, so a model with one step per call would hide
everything: the hard part is what happens between the calls of the object's
functions. `pc` is the C function the call is in, with one step for every call
of an object's function and every loop iteration, and `cont` is the place
`es_flush` returns to. `buffer`, `data_len`, `data_offset`, `writing`,
`strategy` and the two indicators are the fields of the C structures. `file`
and `kpos` are the object and the kernel's offset, `sink` what an object that
cannot be sought in was sent.

A byte is an integer: its magnitude tells which byte it is, since every byte a
client writes gets a number of its own, its sign whether it is a newline. So a
lost, repeated or misplaced byte is visible, and `doreadline` has lines to find.

`Kind` chooses the object: a seekable file, one opened with `O_APPEND`, a pipe
whose seek function fails, and an object with no seek function. `Faults` says
what may go wrong: read, write, seek, close and allocation failures, writes that
take nothing, a user's write function that claims more than it was given. When
`es_flush` has emptied the buffer it calls the write function once more, without
bytes, to tell it of the flush (`FlushEvent`); that call may fail as well, and
`es_flush` does not look at its result (`estream.c:1089`).

`es_getline` collects its line in a stream of its own, over a memory object that
`doreadline` makes. What is modelled of it are its allocations: those before
`es_create` fail cleanly, a later one in `es_create` makes `doreadline` destroy
the memory object a second time (`LineStreamFails`, the state "broken"), and
the ones while the line grows or is copied out are errors of the call
(`LineAllocFails`).

`FileContent` holds the operators on contents, shared with `AbstractFile`. That
is the specification without a buffer: a sequence of bytes and one position
that every call shares. `Estream` implements it (`ImplementsFile`): output in
the buffer counts as written, and input read ahead counts as not yet read. The
one liberty `AbstractFile` gives a stream is the one the code takes:
`es_fflush` and `es_setvbuf` on a stream being read drop what was read ahead.

Left out: `intern->offset` and `stream->data_flushed` (nothing reads them), the
unread buffer (always empty, there is no `es_ungetc`), `es_read_line` with its
limit (its loop is `es_getline`'s), the failing allocation in
`es_set_buffering`, after which the stream has no buffer and crashes, and
`es_fread` and `es_fwrite`: they do what `es_read` and `es_write` do, but drop
the error and return only a count. For their callers a failure is silent until
they ask `es_ferror`.

### `EstreamRegistry`: all streams

Streams and list entries live at addresses that malloc hands out and free takes
back in any order, so addresses are used again. An entry is the C structure:
`car`, `cdr`, and `prev_cdr`, which is the entry whose `cdr` points here or
`"estream_list"`. `ESTREAM_LIST_LOCK` does nothing in this code, so the list
functions take one step per access to the list. `_es_get_std_stream` searches,
creates over the C library's stream, falls back to a bit bucket, or aborts. It
is given an `int`, takes its remainder by 3, which is negative for a negative
number, and keeps it in a field of two bits (`Remainder`, `Stored`). Use
of a freed address ends a behaviour in the state "broken". `EntryFails` is the
one path that frees an object twice, and ends in "freed twice"; `ObjectLifetime`
excepts it.

Left out: `es_fopencookie`, whose object stays the caller's when it fails; the
second allocation in `es_create`, whose failure deinitialises a
stream that was never initialised (anything may happen), printable names, and
`custom_std_fds`, which nothing ever sets.

### `Arc4random`: the generator

Where a byte comes from stands for its value: a key is a seed and the number of
times the generator has rekeyed since, a byte is its key and its place in
`rs_buf`. Handing a byte out twice is then visible as the same triple given
twice. A seed is the entropy that one process drew at one time, or zeros when
`getentropy` failed. `fork` copies the memory (mutex and buffer included) and
leaves the child one thread; `_rs_forkhandler` sets the flag only when it has
been registered. That happens after the first allocation, and only if
`pthread_atfork` works, whose result the code drops (`_ARC4_ATFORK`). Processes
die and their pids are used again. A call takes one step between lock and
unlock, since nobody else may look, and `_rs_random_buf` one per round of its
loop.

Left out: what chacha computes; data passed to `arc4random_addrandom` (nothing
may rely on it). `arc4random_uniform` is in `Numbers`.

### `Setmode`: symbolic modes

One action per character of the mode, and before that one per system call:
signals are blocked, the mask is read by setting it to zero, put back, and the
signals let in. `parse` holds the locals `who`, `op`, `perm`, `permXbits` and
`equalopdone`; `arr` the array with its length and whether every write so far
was inside it. `ADDCMD` and `addcmd` are one operator each. A mode is a set of
bits (class, permission), a command a record of `cmd`, `bits` and the set of
flags `cmd2`. `compress_mode` and `getmode` are folds over the commands.
`asked` is a history variable: the actions of the mode as they were read, for
`Chmod`, the meaning of a mode without commands, arrays and compression.

### `Trees`: red-black and splay trees

The nodes are the caller's, with their links in them; two may have the same
key. Inserting and removing is one step, and every round of the loops of
`RB_INSERT_COLOR` and `RB_REMOVE_COLOR` another, so that the invariants are
checked between rounds too. The macros that differ in nothing but the side are
one operator with a side as its argument (`TurnUp` is the body of both
`RB_ROTATE`s). A caller may walk the tree with
`RB_FOREACH_SAFE` in both directions and remove the node it is at. `SPLAY`
takes the tree apart into two ends that hang from `Local`, its local node.

### `Vis`: vis and unvis

`vis` maps a character, its flags and the next character to its codes. `unvis`
is the state machine of `*astate`, one operator per state; it can push a
character back. The functions over strings are folds, and `strnvis` and
`strnunvis` are evaluated for every size of buffer. The state is only the
flags and the string, fed a character at a time.

### `Printf`: the engine of estream-printf.c

`parse_format` reads one character per action; `dir` is the directive being
read, `specs` the array `argspecs`. Then come the passes of `estream_format`,
one action each: positions, the table of types, the values, and `do_format`,
which reads the format a second time and has its assertions as `AssertsFail`.
What it writes is the sequence of pieces it gives the output function.
Formats are all sequences of `FormatChars` up to `MaxFormat`, and the longer ones
of `LongFormats`, in which `T` is text.
`vsnprintf` (a fixed buffer) and `vasprintf` (a growing one, each of whose
allocations may fail) are operators over those pieces. `ChooseField` formats
one value under each combination of flags, width and precision; `ToSize` and
`ToInt` are the conversions between `int` and `size_t` the code makes.

### `Growing`: string lists and line buffers

An array is a sequence as long as its memory. A function of the string list is
one step, and reading a line takes a step per character, each of which may meet
the end of the file, an error, or no memory (`Grow`). `fgetln` keeps one buffer
for all calls, `getdelim` has its caller's.

### `Numbers`: arithmetic

`timegm` with its normalisation of months, its sums over years, the products of
`int`s among them (one that is no `int` wraps or does not, `Product`), the
refusal with `EOVERFLOW` where `time_t` is an `int`, and the fields it writes
back;  `arc4random_uniform`, `reallocarray` and `strtonum` in words of
a few bits. One action per function, which chooses the arguments.

### `SystemCalls`: functions that are a few system calls

`getentropy`, `fchmodat`, `dprintf`, `vasprintf` (`asprintf` calls it) and
`reallocf`. An action is one system call, with what the function does about each
of its outcomes; `held` is what the call has open or allocated. The message that
`getentropy` prints before it fails may leave another `errno` (`Printed`).

### `MCLibrary`

The modules from `Setmode` to `SystemCalls` share nothing. `MCLibrary` puts
them side by side; `which` says which of them a behaviour uses.

### Variants

The modules contain operators headed "Variant": a definition of
the module with a plausible bug in it (a flush that keeps its bytes, an entry
whose back pointer is not updated, a fork noticed only by pid). Nothing uses
them. Put in the place of the definition they vary, each breaks the property
that `PROJECT.json` pairs it with, which shows what that property can see.

## What the runs show

| Run | Instance | Properties |
|---|---|---|
| `file_refines` | Seekable file of three bytes, buffer of two (one after `es_setvbuf`), requests up to three, four calls, one fault of any kind but a failing write | `TypeOK`, `BufferBounds`, `ShortOnlyAtEnd`, `NoSilentFault`, `ImplementsFile` |
| `calls_return` | The same opened with `O_APPEND`, three calls, with fairness | `CallsReturn`, `ImplementsFile` |
| `pipe_read` | Input that cannot be sought in, four calls, one fault | `ImplementsFile` |
| `sink_write` | Output to an object without seek function, four calls, two faults | `OutputExact`, `OutputKept`, `NoSilentFault` |
| `over_report` | A write function that claims too much | `FlushEnds` |
| `registry` | One thread, three streams at once and four in all, standard streams asked for by 5 and -5, all allocation failures | `TypeOK`, `NothingFreedIsUsed`, `ListSound`, `StdStreamUnique`, `ObjectLifetime`, `AllFlushed` |
| `generator` | Two threads, three processes, two pids, buffer of five bytes, seed and word of two, reseed after five, requests of one and six, three calls, `getentropy` or `pthread_atfork` failing | `TypeOK`, `NoByteTwice`, `Backtracking`, `ReseedInTime`, `MutexHeld` |
| `library` | Modes of five characters, trees of up to seven nodes, strings of three bytes, all formats of seven characters and seven longer ones, lists and lines that grow twice, dates around every boundary, words of four bits, buffers of three bytes of entropy | `LibraryTypeOK` and the properties of the next table |

| Property of `library` | What it says |
|---|---|
| `ArrayHolds` | No command and no terminator is written past the end of setmode's array |
| `MaskProtected` | No signal handler runs while the mask is zero; the mask is left as it was |
| `CompressKeeps` | Compressed and original commands make the same of every old mode |
| `ModeMeaning` | The commands do what the letters of the mode say |
| `RBSound` | The red-black tree is a search tree of exactly its nodes, also between rounds, and balanced after each call |
| `RBFinds` | Lookups and neighbours are those of the set of nodes; a walk that removes nodes sees all of them |
| `SplaySound` | The splay tree keeps its nodes and their order through every lookup, and finds them |
| `VisRoundTrip` | unvis after vis is the identity |
| `StrnvisFits` | For every size of buffer: whole escapes, as many as fit, and the full length returned |
| `ArgumentsFit` | Every argument is read once with its type; `do_format` finds what parsing found, whatever order the positions are in, and writes the text in between as it stands |
| `FieldMeaning` | A field is what C-99 says of its flags, width and precision, but for the four cases of `Departs` |
| `OutputBuffered` | The fixed buffer gets the beginning and a null, the growing one everything or an error |
| `GrowthKeeps` | No string and no character is lost or stored outside when an array grows or fails to |
| `CalendarAgrees` | `timegm` agrees with the Gregorian calendar where its products are `int`s, refuses exactly what does not fit, and the fields it leaves are what it returns |
| `NumbersExact` | `arc4random_uniform` is uniform; `reallocarray` and `strtonum` refuse exactly what does not fit |
| `CallsAccounted` | `getentropy` fills its buffer from one device, or fails because both devices did or too much is asked for; nothing is left open or allocated; `fchmodat` tells the truth, whatever `close` does to `errno` |

Four runs show that the code does not do what its comments say:

- `flush_assertion`: `es_flush` asserts that the stream is in writing mode, but
  `es_writen` sets the mode only at its end. Reading, then writing more than the
  buffer holds, aborts the process.
- `over_report_loops`: `es_flush` guards against a write function that reports
  too much, but then leaves the buffer full, and `es_write_fbf` flushes it again
  and again.
- `input_discarded`: `es_writen` discards input by seeking, so when the seek
  fails (a terminal, a socket) it goes on with the input still in the buffer and
  sends it to the object.
- `registry_threads`: with two threads a stream is lost from the list, because
  the locks are empty, and the exit handler, which is to flush all streams,
  misses it.

### Where the code differs from its documentation or from what one expects

The properties leave these cases out, by a condition that their comments name,
or model them as they are:

- `es_flush` does not look at what the write function returns for the flush
  event, so a write function that fails then is not heard (`NoSilentFault`
  names it); `es_fread` and `es_fwrite` drop every error.
- `es_getline` frees its memory object twice when `es_create` has no memory for
  the list entry of its line stream (`estream.c:1742`, `1830`), and reads
  uninitialised memory when it has none for the stream itself. Nothing is
  claimed of what follows.
- `arc4random` does not look at what `pthread_atfork` returns
  (`arc4random_solaris.h:79`). When it has failed and a process id is used
  again, a child with its ancestor's id does not notice the fork and gives out
  the same bytes. `NoByteTwice` names this case: the model reaches it, as it
  does the failing `getentropy`.
- `_es_get_std_stream` with a negative number: `estream.c:2126` says that only 0,
  1 and 2 are possible, but -1 % 3 is -1. Each such call makes another stream on
  `stderr`, whose field holds 3 or 2, so that one made for a remainder of -2 is
  found as standard stream 2. `StdStreamUnique` is about the streams of 0, 1 and 2.
- `estream-printf.c:1` claims C-99, from which the fields depart four times: the
  flag `0` does nothing to a floating-point number (992-998), `%#x` of 0 has a
  prefix (869-876), which is not counted in the width when the precision is 0
  too, `+` and space put a sign on `u`, `x` and `o` (782-789), and `%#o` of 0
  with precision 0 is empty.
- `timegm` multiplies minutes, hours and days as `int`s (`time.c:98`, `99`,
  `114`): with 32 bits more than 35791394 minutes, 596523 hours or 24856 days
  on either side overflow, though `time.c:62-64` names no limit. A date that
  does not fit an `int` `time_t` is refused with its month already moved.

- `timegm`: a month below zero that is a multiple of 12 becomes 12 and reads
  past the end of `days_past`, though `time.c:66` explains negative months.
- `unvis` decodes a first hexadecimal digit a to f of a `VIS_HTTPSTYLE` escape
  as 0 to 5 (`unvis.c:87`).
- `strnvis` returns 0 for a buffer of one byte, and its `isvisible` ignores
  `VIS_HTTPSTYLE` and differs from `vis` under `VIS_GLOB` with `VIS_SAFE`.
- `setmode`: `-X` sets bits instead of clearing them; `+rt` without a who keeps
  only the `t`; another thread can see the mask of zero.
- `do_format`: an unknown conversion that shares its position with a star
  passes all checks, and an assertion aborts the process. A format that ends
  inside a directive is parsed past its null. `%hhd` is parsed and then not
  supported. `%c` and `%p` ignore the width, and the empty format is `EINVAL`.
- `getdelim` does not terminate a line that the end of the file ends, and writes
  past a caller's buffer of one byte; `fgetln` loses a complete line when its
  buffer cannot grow, and does not tell an error from the end of the file.
- `getentropy` fails for a length of 0 (its check for a byte that is not zero
  finds none), leaves `errno` at `EIO` when only the second device works, prints a
  message before it fails, which may change the `EIO` it has just set, and
  never ends if a device is at its end of file.
- `dprintf` ignores what `fclose` returns, so output that could not be
  written is reported as written.

### Bounds, and why they are enough

A buffer of two bytes and requests of one to three make every relation between
request, buffer and rest of the file happen: empty, partly filled, full, one
byte more than fits. Every loop can run at least twice, short transfers can
happen at each of them. Four calls reach read-write-seek-read and
write-setvbuf-read-write; one fault can strike in any of them, two in output
(where the second meets a buffer that the first left half sent). The file's
newline is in the middle, so lines cross buffers. In the registry three entries
are the least with a first, a middle and a last one, and a fourth stream uses an
address again; the cookies of the objects are numbers that are used in order
(`InOrder`), since nothing depends on which is which. The two numbers, 5 and -5,
meet in the field of two bits. Streams made for the negative one are two at a
time when they are alone, and one otherwise (`FewNegative`). One thread is in
the library: that two threads can get two streams for one descriptor is not
looked for. In the generator five bytes of buffer with two of seed leave three:
less than two words, so words are thrown away, and six bytes cross two refills
and are more than RESEED. Two forks give a child of a child and two children of
one process, and with two pids for three processes a pid has to be used again.
In one behaviour `getentropy` fails or `pthread_atfork` does, not both
(`OneFailure`). In `library` a mode of five characters holds two clauses, or
three actions, or an action with two letters and a copy (of the letters `u`,
`o`, `a`, `r`, `x`, `X`, `t`: no `g`, no `w`, no `s`, and so no set-id bits);
the first array has room for three commands and grows by two, so it grows in the
first or second action. Six keys and a duplicate reach all cases of both
rebalancing loops (the coverage of TLC shows that every disjunct fires). Three
characters are an escape, what follows it and one more; 26 characters stand for
each class `vis` distinguishes and their boundaries. All formats of up to seven
characters hold one directive with positions, or two without; `LongFormats` has
two with positions in and out of order, a width and a precision taken from
positions, and text before, between and after them. The arrays on the stack hold
one directive and one value. The dates cross the year, the epoch, leap days,
1900 and 2000, by months and days out of range, and some have minutes, hours or
days whose products just fit `INT_MAX` or just do not; `INT_MAX` is that of 30
bits, since TLC itself has integers of 32. The words of four bits are checked
for all arguments. Bounds are constants (`MaxCalls`, `MaxFaults`, `MaxRequest`,
`Objects`, `MaxModeString`, `MaxVis`, `MaxFormat`, `LongFormats`, `MaxNumber`)
that appear in guards of client actions only, so a call in progress is never cut
off.

Symmetry is used for threads, processes except the first, and addresses in the
generator and the registry; no liveness property is checked there. `generator`,
the two runs of the registry and `library` do not check deadlock, because
processes and calls end.

### Fairness

Only `calls_return`, `over_report` and `over_report_loops` check liveness.
`FairSpec` adds weak fairness of `Step`: the thread inside a call is scheduled
again. It does not make the client call anything, and it does not make the
object transfer all bytes; writes that take nothing, which would repeat for
ever, are bounded by `MaxFaults`, as an object that never takes a byte cannot be
written to by any loop.

## What is proved

For every value of the constants that satisfies the assumptions named in the
modules (`SizeAssumption`, `ClientAssumption` and so on, which TLC evaluates on
every run): any number of threads, processes, streams and addresses, any size of
buffer, word and request, any number of calls and faults. Some assumptions say
more than that a constant is a number, and the code satisfies them: in
`Arc4random` a word is no more than `RESEED` (4 and 1600000), and seed and word
fit the buffer (40 + 4 and 1024); in `Setmode` the array grows by at least two
(by 4); in `Growing` a list and a line buffer have at least two places at first
(20, and `BUFSIZ`), and a caller's line buffer has at least two bytes, since
`getdelim` writes past a smaller one.

Each theorem but the one about `timegm` has an inductive invariant. It starts
from what the property says and adds what the code relies on where it is in the
middle of something; without these parts a step from an unreachable state would
break the property. Every step of the next-state relation has a step, or a
lemma, of the proof. TLC has checked the invariants, too, on the instances of
the runs (those that say "there are sequences of bytes" or "there is an order"
with the candidates of the instance).

| Theorem | Says | Under |
|---|---|---|
| `EstreamProofs!TypeCorrect` | `Spec => []TypeOK` | `OneWayOrSeekable` |
| `EstreamProofs!BufferIsBounded` | `Spec => []BufferBounds` | |
| `EstreamProofs!NoFaultIsSilent` | `Spec => []NoSilentFault` | |
| `EstreamProofs!ReadsFallShortAtEnd` | `Spec => []ShortOnlyAtEnd` | `OneWayOrSeekable` |
| `EstreamProofs!OutputIsExact` | `Spec => []OutputExact` | `OneWayOrSeekable` |
| `EstreamProofs!OutputIsKept` | `Spec => []OutputKept` | `OneWayOrSeekable` |
| `EstreamRefinementProofs!StreamImplementsFile` | `Spec => ImplementsFile` | `FaithfulObject` |
| `Arc4randomProofs!TypeCorrect` | `Spec => []TypeOK` | |
| `Arc4randomProofs!MutexExcludes` | `Spec => []MutexHeld` | |
| `Arc4randomProofs!NoByteIsGivenTwice` | `Spec => []NoByteTwice` | |
| `Arc4randomProofs!BacktrackingResistance` | `Spec => []Backtracking` | |
| `Arc4randomProofs!ReseedsInTime` | `Spec => []ReseedInTime` | |
| `EstreamRegistryProofs!RegistryTypeCorrect` | `Spec => []TypeOK` | |
| `EstreamRegistryProofs!ObjectsLiveWithStreams` | `Spec => []ObjectLifetime` | |
| `EstreamRegistryProofs!NothingIsUsedAfterFree` | `Spec => []NothingFreedIsUsed` | `OneThread` |
| `EstreamRegistryProofs!ListIsSound` | `Spec => []ListSound` | `OneThread` |
| `EstreamRegistryProofs!StdStreamsAreUnique` | `Spec => []StdStreamUnique` | `OneThread` |
| `EstreamRegistryProofs!ExitFlushesAll` | `Spec => []AllFlushed` | `OneThread` |
| `LibraryProofs!ArrayFits` | `ModeSpec => []ArrayHolds` | |
| `LibraryProofs!MaskIsProtected` | `ModeSpec => []MaskProtected` | |
| `LibraryProofs!CallsAreAccounted` | `SysSpec => []CallsAccounted` | |
| `LibraryProofs!NumbersAreExact` | `NumSpec => []NumbersExact` | |
| `LibraryProofs!TimegmAgrees` | `NumSpec => []CalendarAgrees` | `DatesFit` |
| `LibraryProofs!GrowthLosesNothing` | `GrowSpec => []GrowthKeeps` | |
| `TreesProofs!RedBlackSound` | `TreesSpec => []RBSound` | |
| `TreesProofs!LookupsFind` | `TreesSpec => []RBFinds` | |
| `SplayProofs!SplayIsSound` | `TreesSpec => []SplaySound` | |

The hypotheses are about the instance. All but the last of them leave out what a run
shows to go wrong:

- `OneWayOrSeekable`: the object seeks, or the client only reads or only writes,
  and no write function claims more than it was given. For a client that reads
  and writes an object that cannot seek, `input_discarded` has the
  counterexample; for a write function that claims too much, `over_report`.
- `FaithfulObject`: moreover no write fails, and an object that is written to
  seeks. After a failed write the code leaves all of the buffer pending and
  keeps no record of the part that was sent, so the stream is no file any more
  (`OutputKept` says what is still true). Reads, seeks and allocations
  may fail.
- `OneThread`: `ESTREAM_LIST_LOCK` is empty, so the list is promised to
  programs whose threads keep out of each other's way; `registry_threads` shows
  what two threads do to it. The type invariant and `ObjectLifetime` hold for
  any number of threads.
- `DatesFit`: the dates `timegm` is given, and the times it makes of them, lie in
  the years that begin in a `time_t` of 32 bits, which are those `Numbers` models.
  The fields may be as far out of their ranges as they like, also so far that a
  product is no `int`. The dates of `library` satisfy it (TLC has evaluated it for
  them).

### The arguments

**Bounds of a stream's buffer** (`IInv`). `BufferBounds` is not inductive. `IInv`
adds `ControlInv` (which call may be in which function, and where `es_flush`
returns to in which call) and `ContentInv` (what the buffer holds in which
function: the seek branch has emptied it when `es_writen` goes on; `new_buffer`
starts with nothing pending). It follows that the unsigned differences in
`es_read_fbf`, `es_skip` and `es_flush` never wrap.

**No failure is swallowed** (`FaultInv`). After a failure, other than of a flush
event, which `es_flush` swallows, every call but
`es_fclose` is on its way out with an error, and `es_fclose` flushes only on its
way to `func_close`.

**Reads fall short only at the end** (`ReadInv`). `es_read` fills the buffer only
when it is used up, never has more than was asked for, and has a buffer exactly
when it is not unbuffered, also after `es_setvbuf`.

**Output** (`OutInv`). `Kept`: the buffer is a suffix both of the bytes `es_write`
accepted and of those sent and still to be sent, whatever part of the buffer
`es_flush` has to send again. What comes before the buffer has been sent, and
the last time each byte was sent is in the order of acceptance (`Ordered`).
That every byte is new (`Distinct`) makes "the last time" meaningful.

**A stream is a file** (`FileInv`). `Coherent`: the bytes in the buffer that were
read are those of the object before its offset. `CallInv`: nothing is left over
when a call returns, and an unbuffered write and `es_fclose` find the output
flushed. Under the refinement mapping, the stream's own steps (a fill, a flush of
part of the buffer) leave the file as it was, because the output overlaid on the object
is the same before and after it has reached it; each copy between buffer and
client is one read or write of the file; and dropping what was read ahead is the
step `AbstractFile` allows.

**No byte twice** (`GInv`). `MemoryInv`: every place of `rs_buf` is cleared or
holds the generation before the key's. `ByteInv`: a process hands out bytes of
its own seeds only (`Drawn`), its key is one of its seeds unless it will notice
that it was forked (`Owned`), and what was given under the key's seed is behind
what the memory still has (`Behind`). A fork copies a memory whose seed is the
parent's, which is why the child must be noticed to be one before it gives
anything: by the flag, or by the pid. A pid can be used again; the proof shows
that this does not matter as long as `pthread_atfork` works, since the flag is
then set in every child of a process that has allocated, and that the flag does
not matter as long as no pid is used again. All of it holds as long as
`getentropy` works; when it fails, the code goes on with a key it may share.
`CountDown` ties what was handed out to `rs_count`, whether or not `getentropy`
works.

**The mutex.** `MutexHeld` permits that in a child the mutex belongs to a thread
that is not in the library: it was locked by a thread of the parent when another
one forked, and `arc4random` does not return in that child. The proof needs
`NoneUnborn`: a child copies a mutex that another thread of its parent may hold,
and no thread of the child may be taken for that one. `rs_have` never goes below
zero because a refilled buffer holds a word (`WordRekeyType`).

**Objects** (`LifeInv`). Live streams and live objects correspond one to one, and
a stream that is being made or destroyed belongs to one thread. This needs no
list, so it holds for any number of threads.

**The list** (`RegistryInv`). There is an order of the entries, `r`, such that
`cdr` leads from each entry to the next one (`Ordered`). An order instead of the
sequence of the entries keeps every fact about the list first-order: adding an
entry gives it the least rank, removing one leaves a gap. Between the accesses of adding and
removing, `LinkInv` says which pointer is ahead of the others. `EntryInv` ties
entries to live streams, `StdInv` says that a standard stream that is being made
for 0, 1 or 2 is not there, and `WalkInv` that a walk has done its work on all entries of
lower rank: what it looked for is not there, or they are flushed.

**setmode.** `ArrayInv`: while the mode is read, there is one place more than
there are commands. `ADDCMD` keeps it because an array with fewer than three
free places grows by two or more (`GrowsInTime`), and `addcmd` adds at most two
(`BitCommands`, `CopyCommands`). Smaller growth would break it. `MaskInv` says
where the mask is between the system calls.

**System calls** (`SysInv`). `EntropyInv`: `save_errno` tells which device is
tried, and all that has been read is from that one, so a buffer half filled by
the first device is filled again from its start. `ChmodInv`: `save_errno` holds
what `fchmod` has set and the result is 0 exactly when the mode is the new one,
so whatever `close` does to `errno` is undone.

**Words.** `FairDraw`: for every word size and bound the numbers that are kept
are as many for each remainder. Its proof shifts the kept numbers with one
remainder to those with another, a bijection. `OverflowExact`: the quick
test (neither factor as large as the root of the word's size) and the division
refuse exactly the products that do not fit. `ErrorsExact` takes the errors of
`strtonum` in the order of the code: a number out of the range of `long long`
is clipped and reported through `errno`, and clipped and limit may coincide.

**The calendar.** `BeginsIs`: the sums of `timegm` over years are 86400 times a
closed form, `FirstDay`. The sums are a recursive function over the years, and
the proof takes the first year where it and the closed form differ, on either
side of 1970. `MonthBegins` ties the table of months to the days of the
calendar. The way back is `PartsMeanTime`: the loops stop in the year and in the
month the time lies in, because both year and month are the largest or smallest
of those they are looked for among (`YearFound`, `MonthFound`), also where the
partial year is turned around before 1970. `MonthMoves` shows that the two cases
for a month out of its range are one division. The products are taken as
whatever the build makes of them; only the agreement with the date needs them to
be `int`s. No invariant is needed: whatever `timegm` leaves behind is the result
of one call.

**Growing arrays.** `SlInv`: the entries up to `sl_cur` are the strings kept, all
different and none freed, and one place is left. `LineInv`: what is in the line
buffer are the characters of the file since the call began (`Holds`), no
newline but the last, and the place for the next character (and the null of
`getdelim`) is inside the buffer, which only `Grow` may make false for a moment
(`BusyInv`).

**The red-black tree** (`RBInv`). Nothing in it is recursive: what a recursion
over the tree would say is said of a witness, a function on the nodes that the
links determine place by place. `Shape(t, M, U)`: the links make a search tree
of the nodes `M` in which every node knows its parent, and `U[n]` are the nodes
of the subtree of `n`. `Level(t, M, H, x, p)`: `H[n]` is the number of black
nodes on every way down from `n`, with one black node missing above `x`, where
`p` hangs its kid `x`, while `RB_REMOVE_COLOR` runs (`Lacking`). `Bad` nodes,
red below a red one or at the root, are there only in the middle of a call, and
only at the node the loop is at. `TreesShapeProofs` shows what each way of
turning links does to `U`: `TurnUp` (a rotation) changes it at two nodes,
hanging a leaf where `Descend` ends adds the leaf to those above it, and a
removal takes the node out or puts its successor in its place (`Substitute`).
`TreesProofs` shows what recolouring, rotating and removing do to `H` and to the
bad nodes, for each round of both loops and either side. A rotation is only
right where the node that comes up is one: the proof has it that the uncle's
brother is the parent, and that a node short of a black one has a sibling and,
before the last rotation, a red nephew, for otherwise the heights would differ
(`ShortSibling`). From `Shape` and `Level` to `RBSound`: `Under` collects kids
for as many rounds as there are nodes, and no way down is longer, since `U`
shrinks on it.

**Lookups and walks** (`WalkInv`). Each lookup is a loop whose rounds are made
into a sequence (`NearRounds`, `ClimbRounds`), with an invariant of its own that
`Shape` carries from round to round, and a measure that says that as many rounds
as there are nodes are enough. `Descending`: the key is nowhere but below.
`Nearing`, for `RB_NFIND`: the node kept is nearer than all nodes that are not
below, and those below are nearer still or have too small a key. `Climbing`, for `RB_NEXT`
and `RB_PREV`: everything below lies on the other side of where the climb
began. That a node elsewhere lies on one side of a whole subtree
(`ShapeElsewhere`) then makes the end of the climb the neighbour among all nodes.
`WalkAt` says what a walk has still to see: the nodes of the tree beyond the one it is
at, which itself may be gone, and that the node saved is the first of
them. It is kept because a walk's body removes nothing but the node it is at, and
because `RB_NEXT` is asked before the body runs.

**The splay tree** (`SplayInv`). Between two calls the tree is a `Kept` one: a
`Forest` (`U[n]` again the nodes below `n`, without parent pointers) whose root has
all nodes below it. In the middle of `SPLAY` there are three trees; with their
open ends closed they are one forest (`Opened`), and `Splaying` says that
together they have all nodes, that each open end is the innermost node of its
tree (`End`), and that all nodes aside lie on their side of the tree at the root
(`Beside`). A round turns that tree (`TurnForest`), hangs its root at an open end
(`LinkForest`), and `AssembleForest` makes one tree of the three. Each round
takes a node away from the tree at the root, so as many rounds as there are
nodes are enough (`SplayLoop`). `SplayingNearest`: the loop stops at the key or
where no key lies between, which gives the lookups, and insertion (`InsertKept`)
and removal (`RemoveKept`), which splay first.

`LibraryProofs` holds the proofs for four modules that have nothing to do with
each other, since each is short. `EstreamRefinementProofs` extends
`EstreamProofs`; `TreesProofs` and `SplayProofs` extend `TreesShapeProofs`.

### Only model-checked

- Liveness under fairness (`CallsReturn`, `FlushEnds`): outside TLAPS, as is
  ENABLED.
- `CompressKeeps`, `ModeMeaning`: what `compress_mode` and `getmode` compute is a
  fold over the commands. `VisRoundTrip`, `StrnvisFits`, `ArgumentsFit`,
  `FieldMeaning`, `OutputBuffered`: folds over strings and formats. Proofs need
  induction over data with an operator as its parameter, which none of the
  provers handles.
- `LibraryTypeOK`: only the parts of it about `SystemCalls` and `Growing` that
  the invariants above contain are proved.

## What is not modelled, and why

- `chacha_private.h`, `sha512c.c`: bit mixing of third-party primitives; the
  generator's model abstracts from the values.
- `err.c`: without state. `vwarn` calls `vwarnc` and `vwarnc` calls `vwarn`;
  `verr` and `verrc` do the same. None of them returns, and there is nothing
  else to model.
- `setproctitle.c`: `SPT.base` is never set in this repository, so the function
  does nothing but warn.
- String functions (`strsep`, `strnstr`, `strcasestr`, `strmode`, ...): one
  loop without state between calls.
- `flock.c`: one call of `fcntl`; what its locks mean is the kernel's.
- The functions of the memory object (`es_func_mem_*`) and `es_convert_mode`'s
  rare letters: one place makes a memory object, `doreadline`, which writes a
  line to it and reads it back; only its allocations are modelled. The
  FILE object only passes calls on to stdio.
- The digits `sprintf` writes for floating-point numbers, and output functions
  of `estream_format` that fail other than for memory.
- Headers and the build.
- Reading from the bit bucket (`ferror` of a null pointer).

## Plan

Done: all modules above, with their runs, and the theorems listed. The order was:
streams, generator, registry, the functions of `MCLibrary`; then the proofs of
type and bounds, and those of bytes, refinement, registry, library and trees.
What is left is proof: `OutputBuffered` and `ArgumentsFit` for the part that is
arithmetic, the room in `vsnprintf`'s buffer and the growth of both arrays of
`estream_format`.
