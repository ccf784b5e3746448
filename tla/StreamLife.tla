----------------------------- MODULE StreamLife -----------------------------
(***************************************************************************)
(* The life of streams: fopen, tmpfile, freopen, fclose and setvbuf of     *)
(* src/stdio/file.c, the list of open streams and the flush of all of      *)
(* src/stdio/stdio.c, orientation (src/stdio/orientation.c) and the output *)
(* side of src/wchar/wide_stdio.c.  Several threads open and close streams *)
(* while the kernel hands out the lowest free descriptor, and every system *)
(* call may fail.  A call that holds the stdio lock from its first to its  *)
(* last line is one action, unless it makes two calls that change the      *)
(* descriptor table: fopen works outside the lock and may come between.    *)
(* Input and positioning are the business of module Stream.                *)
(***************************************************************************)
EXTENDS Naturals, Sequences, SequencesExt, FiniteSetsExt

CONSTANTS Threads,
          Cells,       \* heap cells a FILE can be allocated in
          Std,         \* a predefined stream, say stdout
          Fds,         \* the descriptors a process may have, numbers from 1
          Buffers,     \* heap cells of setvbuf
          Bufferings,  \* "inline" (_IONBF), "owned" or "caller", to setvbuf
          OpenModes,   \* the mode arguments that are tried
          Capacity,    \* bytes in a FILE's own buffer
          MaxAccepted, \* bound on the bytes that open streams accepted
          MaxFaults,   \* bound on failing system calls
          NoOne

StreamLifeAssumption ==
    /\ Fds \subseteq Nat \ {0} /\ 1 \in Fds
    /\ Std \notin Cells /\ NoOne \notin Threads \cup Cells \cup {Std}
    /\ Bufferings \subseteq {"inline", "owned", "caller"}
    /\ Buffers \cap {"inline", "caller"} = {}
    /\ Capacity \in Nat \ {0} /\ MaxAccepted \in Nat /\ MaxFaults \in Nat

Streams == Cells \cup {Std}

NoFd == 0

Gone == [mode |-> {"freed"}]

VARIABLES
    files,      \* the FILE objects; Gone: no object in this cell
    list,       \* mini_stream_head and its successors
    fds,        \* the kernel's table of open files and their history
    allocated,  \* buffers that malloc gave to setvbuf
    io,         \* who holds the stdio lock across two actions
    task,       \* where each thread is
    locale,     \* LC_CTYPE of the process: "C" or "UTF-8"
    faults,     \* failed system calls so far
    silent      \* history: a close has reported success and lost output

vars == <<files, list, fds, allocated, io, task, locale, faults, silent>>

(***************************************************************************)
(* A byte in a file is a record of its value and of the encoding under     *)
(* which it was accepted, which only the properties look at.               *)
(***************************************************************************)
Byte(value, encoding) == [value |-> value, encoding |-> encoding]

Idle == [at |-> "idle"]

(* An open file of the kernel; for, accepted: whom it was opened for and   *)
(* what the stream accepted, history.                                      *)
Opened(s) == [for |-> s, written |-> <<>>, accepted |-> <<>>]

Closed == Opened(NoOne)

(* initialize_owned_stream, and the state reset_rebound_state leaves.      *)
File(fd, mode) ==
    [fd |-> fd, mode |-> mode, orientation |-> "none", pending |-> <<>>, buffer |-> "inline"]

Reset(f) == [f EXCEPT !.orientation = "none", !.pending = <<>>]

Live(s) == files[s] # Gone

Usable(f) == f.mode \cap {"readable", "writable"} # {}

Space(f) == IF f.buffer = "inline" THEN Capacity ELSE 1

(***************************************************************************)
(* parse_open_mode: a sequence of characters, or "tmpfile" for the fixed   *)
(* mode of tmpfile; the empty set for a mode that is refused.              *)
(***************************************************************************)
OpenMode(m) ==
    IF m = <<"tmpfile">> THEN {"readable", "writable", "owned"}
    ELSE LET rest == Tail(m)
             Given(c) == \E i \in DOMAIN rest : rest[i] = c
         IN  IF \/ m[1] \notin {"r", "w", "a"}
                \/ \E i \in DOMAIN rest : rest[i] \notin {"+", "b", "x"}
                \/ \E i, j \in DOMAIN rest : i # j /\ rest[i] = rest[j]
                \/ Given("x") /\ m[1] # "w"
             THEN {}
             ELSE {"owned"}
                  \cup (IF Given("+") THEN {"readable", "writable"}
                        ELSE IF m[1] = "r" THEN {"readable"} ELSE {"writable"})
                  \cup (IF m[1] = "a" THEN {"append"} ELSE {})

-----------------------------------------------------------------------------
Init ==
    /\ files = [s \in Streams |-> IF s = Std THEN File(1, {"writable"}) ELSE Gone]
    /\ list = <<Std>>
    /\ fds = [d \in Fds |-> IF d = 1 THEN Opened(Std) ELSE Closed]
    /\ allocated = {}
    /\ io = NoOne
    /\ task = [t \in Threads |-> Idle]
    /\ locale = "C"
    /\ faults = 0
    /\ silent = FALSE

Free == {d \in Fds : fds[d].for = NoOne}

Outstanding == FoldSet(LAMBDA d, n : n + Len(fds[d].accepted), 0, Fds)

Lowest == CHOOSE d \in Free : \A e \in Free : d <= e

InFlight == {task[t].cell : t \in {u \in Threads : task[u].at \in {"open", "register"}}}

(* A system call that may fail, at most MaxFaults times in all.            *)
MayFail(failed) == failed => faults < MaxFaults

Count(failed) == faults' = IF failed THEN faults + 1 ELSE faults

(* stdio_flush_buffer_unlocked writes k bytes; all of them unless a write  *)
(* fails, and then the rest stays pending.                                 *)
Lengths(f) == IF "writable" \in f.mode THEN 0 .. Len(f.pending) ELSE {0}

Cut(f, k) == "writable" \in f.mode /\ k < Len(f.pending)

Rest(f, k) == [f EXCEPT !.pending = SubSeq(@, k + 1, Len(@))]

Published(table, f, k) ==
    IF k = 0 THEN table ELSE [table EXCEPT ![f.fd].written = @ \o SubSeq(f.pending, 1, k)]

-----------------------------------------------------------------------------
(* fopen and tmpfile.                                                      *)
FopenAlloc(t, m) ==
    /\ task[t] = Idle /\ OpenMode(m) # {}
    /\ \E c \in Cells \ InFlight :
         /\ ~Live(c)
         /\ task' = [task EXCEPT ![t] = [at |-> "open", cell |-> c, mode |-> OpenMode(m)]]
    /\ UNCHANGED <<files, list, fds, allocated, io, locale, faults, silent>>

FopenOpen(t) ==
    /\ task[t].at = "open"
    /\ \E failed \in BOOLEAN :
         /\ MayFail(failed /\ Free # {})
         /\ Count(failed /\ Free # {})
         /\ IF failed
            THEN task' = [task EXCEPT ![t] = Idle] /\ UNCHANGED fds
            ELSE /\ Free # {}
                 /\ fds' = [fds EXCEPT ![Lowest] = Opened(task[t].cell)]
                 /\ task' = [task EXCEPT ![t] =
                      [at |-> "register", cell |-> task[t].cell,
                       mode |-> task[t].mode, fd |-> Lowest]]
    /\ UNCHANGED <<files, list, allocated, io, locale, silent>>

FopenRegister(t) ==
    /\ task[t].at = "register" /\ io = NoOne
    /\ files' = [files EXCEPT ![task[t].cell] = File(task[t].fd, task[t].mode)]
    /\ list' = <<task[t].cell>> \o list
    /\ task' = [task EXCEPT ![t] = Idle]
    /\ UNCHANGED <<fds, allocated, io, locale, faults, silent>>

(* The buffer that __mini_stdio_release_buffer gives back to the heap.     *)
Released(f) == IF "bufferOwned" \in f.mode THEN {f.buffer} ELSE {}

Unbuffer(f) == [f EXCEPT !.mode = @ \ {"bufferOwned"}, !.buffer = "inline"]

(* __mini_stdio_unregister: the first link to the stream is undone.        *)
Unregistered(s) ==
    IF s \in Range(list) THEN RemoveAt(list, CHOOSE i \in DOMAIN list : list[i] = s)
    ELSE list

(* Deliberately wrong: a stream whose rebinding fails stays on the list.   *)
DiscardListed(s, f) ==
    /\ allocated' = allocated \ Released(f)
    /\ files' = [files EXCEPT ![s] = IF "owned" \in f.mode THEN Gone
                                     ELSE [Reset(Unbuffer(f)) EXCEPT !.fd = NoFd, !.mode = {}]]
    /\ UNCHANGED list

(* discard_failed_rebind.                                                  *)
Discard(s, f) ==
    /\ allocated' = allocated \ Released(f)
    /\ IF "owned" \in f.mode
       THEN files' = [files EXCEPT ![s] = Gone] /\ list' = Unregistered(s)
       ELSE /\ files' = [files EXCEPT ![s] =
                 [Reset(Unbuffer(f)) EXCEPT !.fd = NoFd, !.mode = {}]]
            /\ UNCHANGED list

(* Deliberately wrong: only the error of close is looked at.               *)
FirstErrorOfClose(flushFailed, closeFailed) == closeFailed

FirstError(flushFailed, closeFailed) == flushFailed \/ closeFailed

(* The flush and the close that fclose and freopen begin with.  Linux      *)
(* gives the descriptor up also when close reports an error.               *)
FlushAndClose(s, k, closeFailed) ==
    LET f == files[s]
        table == Published(fds, f, k)
    IN  /\ MayFail(Cut(f, k) \/ closeFailed)
        /\ Count(Cut(f, k) \/ closeFailed)
        /\ fds' = [table EXCEPT ![f.fd] = Closed]
        /\ silent' = (silent \/ /\ ~FirstError(Cut(f, k), closeFailed)
                                /\ table[f.fd].written # table[f.fd].accepted)

Fclose(t, s) ==
    /\ task[t] = Idle /\ io = NoOne /\ Live(s) /\ Usable(files[s])
    /\ \E k \in Lengths(files[s]), closeFailed \in BOOLEAN : FlushAndClose(s, k, closeFailed)
    /\ io' = t
    /\ task' = [task EXCEPT ![t] = [at |-> "fclose", stream |-> s]]
    /\ UNCHANGED <<files, list, allocated, locale>>

FcloseRelease(t) ==
    /\ task[t].at = "fclose"
    /\ LET s == task[t].stream
           f == files[s]
       IN  /\ list' = Unregistered(s)
           /\ allocated' = allocated \ Released(f)
           /\ files' = [files EXCEPT ![s] =
                IF "owned" \in f.mode THEN Gone
                ELSE [Reset(Unbuffer(f)) EXCEPT !.fd = NoFd, !.mode = {}]]
    /\ io' = NoOne
    /\ task' = [task EXCEPT ![t] = Idle]
    /\ UNCHANGED <<fds, locale, faults, silent>>

Freopen(t, s, m) ==
    /\ task[t] = Idle /\ io = NoOne /\ Live(s) /\ Usable(files[s]) /\ OpenMode(m) # {}
    /\ \E k \in Lengths(files[s]), closeFailed \in BOOLEAN :
         /\ FlushAndClose(s, k, closeFailed)
         /\ IF FirstError(Cut(files[s], k), closeFailed)
            THEN Discard(s, files[s]) /\ UNCHANGED <<io, task>>
            ELSE /\ io' = t
                 /\ task' = [task EXCEPT ![t] =
                      [at |-> "reopen", stream |-> s, mode |-> OpenMode(m)]]
                 /\ UNCHANGED <<files, list, allocated>>
    /\ UNCHANGED locale

(* freopen keeps the owner of the object and the buffering of the stream.  *)
FreopenOpen(t) ==
    /\ task[t].at = "reopen"
    /\ LET s == task[t].stream
           f == files[s]
           kept == f.mode \cap {"owned", "unbuffered", "bufferOwned"}
       IN  \E failed \in BOOLEAN :
             /\ MayFail(failed /\ Free # {})
             /\ Count(failed /\ Free # {})
             /\ IF failed
                THEN Discard(s, f) /\ UNCHANGED fds
                ELSE /\ Free # {}
                     /\ fds' = [fds EXCEPT ![Lowest] = Opened(s)]
                     /\ files' = [files EXCEPT ![s] =
                          [Reset(f) EXCEPT !.fd = Lowest,
                                           !.mode = (task[t].mode \ {"owned"}) \cup kept]]
                     /\ UNCHANGED <<list, allocated>>
    /\ io' = NoOne
    /\ task' = [task EXCEPT ![t] = Idle]
    /\ UNCHANGED <<locale, silent>>

-----------------------------------------------------------------------------
(* Deliberately wrong: the encoding is bound again by every call.          *)
OrientedAnew(f, wide) ==
    IF wide /\ f.orientation # "byte" THEN [f EXCEPT !.orientation = locale]
    ELSE IF ~wide /\ f.orientation = "none" THEN [f EXCEPT !.orientation = "byte"]
    ELSE f

(* require_orientation and fwide: the first call decides; orientation is   *)
(* "none", "byte", or the encoding of a wide-oriented stream.              *)
Oriented(f, wide) ==
    IF f.orientation # "none" THEN f
    ELSE [f EXCEPT !.orientation = IF wide THEN locale ELSE "byte"]

Fits(f, wide) == wide = (f.orientation # "byte")

Fwide(t, s, wide) ==
    /\ task[t] = Idle /\ io = NoOne /\ Live(s) /\ Usable(files[s])
    /\ files' = [files EXCEPT ![s] = Oriented(@, wide)]
    /\ UNCHANGED <<list, fds, allocated, io, task, locale, faults, silent>>

(* The bytes of a character: "a" is ASCII, "e" is not.  The C encoding has *)
(* no bytes for it; byte output may write any byte.                        *)
Bytes(char, f) ==
    IF f.orientation = "byte" \/ char = "a" THEN <<Byte(char, f.orientation)>>
    ELSE IF f.orientation = "UTF-8" THEN <<Byte("e1", "UTF-8"), Byte("e2", "UTF-8")>>
    ELSE <<>>

(* stdio_write_unlocked for one byte: a full buffer is flushed before it   *)
(* is taken.  The flush of number bad, if it happens, writes k bytes and   *)
(* fails; then no further byte is accepted.                                *)
AcceptByte(r, byte, k) ==
    LET f == r.f
        Taken(g, table) == [r EXCEPT
            !.f = [g EXCEPT !.pending = Append(@, byte)],
            !.fds = [table EXCEPT ![f.fd].accepted = Append(@, byte)]]
    IN  IF r.failed THEN r
        ELSE IF Len(f.pending) < Space(f) THEN Taken(f, r.fds)
        ELSE IF r.bad = 1
        THEN [r EXCEPT !.f = Rest(f, k), !.fds = Published(r.fds, f, k), !.failed = TRUE]
        ELSE [Taken(Rest(f, Len(f.pending)), Published(r.fds, f, Len(f.pending)))
                EXCEPT !.bad = IF r.bad = 0 THEN 0 ELSE r.bad - 1]

(* A character has one byte or two.                                        *)
Accept(f, table, bytes, bad, k) ==
    LET first == AcceptByte([f |-> f, fds |-> table, failed |-> FALSE, bad |-> bad],
                            bytes[1], k)
    IN  IF Len(bytes) = 1 THEN first ELSE AcceptByte(first, bytes[2], k)

(* write_raw: k bytes reach the file, all unless a write fails.            *)
Raw(f, table, bytes, bad, k) ==
    LET done == IF bad = 0 THEN bytes ELSE SubSeq(bytes, 1, k)
    IN  [f |-> f, failed |-> bad # 0,
         fds |-> [table EXCEPT ![f.fd].written = @ \o done, ![f.fd].accepted = @ \o done]]

(* fputc and fputwc: the orientation is settled even if the stream then    *)
(* turns out not to be writable or the character not to be encodable.      *)
Put(t, s, wide, char) ==
    /\ task[t] = Idle /\ io = NoOne /\ Live(s) /\ Usable(files[s])
    /\ LET f == Oriented(files[s], wide)
           bytes == Bytes(char, f)
       IN  IF ~Fits(f, wide) \/ "writable" \notin f.mode \/ bytes = <<>>
           THEN files' = [files EXCEPT ![s] = f] /\ UNCHANGED <<fds, faults>>
           ELSE /\ Outstanding + Len(bytes) <= MaxAccepted
                /\ \E bad \in 0 .. 2, k \in 0 .. Capacity - 1 :
                     LET raw  == "unbuffered" \in f.mode
                         done == IF raw THEN Raw(f, fds, bytes, bad, k)
                                 ELSE Accept(f, fds, bytes, bad, k)
                     IN  /\ bad = 0 => k = 0
                         /\ raw => k < Len(bytes) /\ bad < 2
                         /\ ~raw => k <= Space(f) - 1
                         /\ bad > 0 => done.failed
                         /\ MayFail(done.failed) /\ Count(done.failed)
                         /\ files' = [files EXCEPT ![s] = done.f]
                         /\ fds' = done.fds
    /\ UNCHANGED <<list, allocated, io, task, locale, silent>>

Fflush(t, s) ==
    /\ task[t] = Idle /\ io = NoOne /\ Live(s)
    /\ \E k \in Lengths(files[s]) :
         /\ MayFail(Cut(files[s], k)) /\ Count(Cut(files[s], k))
         /\ fds' = Published(fds, files[s], k)
         /\ files' = [files EXCEPT ![s] = Rest(@, k)]
    /\ UNCHANGED <<list, allocated, io, task, locale, silent>>

(* __mini_stdio_flush_all walks the list and goes on after a failure; here *)
(* at most one stream's write fails, after k bytes.  No two streams of the *)
(* list have one descriptor (StreamsAccounted), so each gets the output of *)
(* the stream that has it.                                                 *)
FlushAll(t) ==
    /\ task[t] = Idle /\ io = NoOne
    /\ \E bad \in Range(list) \cup {NoOne}, k \in 0 .. Capacity - 1 :
         LET Written(s) == IF s = bad THEN k
                           ELSE IF "writable" \in files[s].mode THEN Len(files[s].pending) ELSE 0
             Writers(d) == {s \in Range(list) : files[s].fd = d}
         IN  /\ bad = NoOne => k = 0
             /\ bad # NoOne => Cut(files[bad], k)
             /\ MayFail(bad # NoOne) /\ Count(bad # NoOne)
             /\ fds' = [d \in Fds |->
                  IF Writers(d) = {} THEN fds[d]
                  ELSE LET s == CHOOSE s \in Writers(d) : TRUE
                       IN  Published(fds, files[s], Written(s))[d]]
             /\ files' = [s \in Streams |-> IF s \in Range(list)
                                            THEN Rest(files[s], Written(s)) ELSE files[s]]
    /\ UNCHANGED <<list, allocated, io, task, locale, silent>>

(* setvbuf: the new buffer is allocated first and given back if the flush  *)
(* or, with input outstanding, the realignment fails.                      *)
Setvbuf(t, s, kind) ==
    /\ task[t] = Idle /\ io = NoOne /\ Live(s) /\ Usable(files[s])
    /\ LET f == files[s]
       IN  \E b \in (IF kind = "owned" THEN Buffers \ allocated ELSE {kind}),
              k \in Lengths(f), lost \in BOOLEAN :
             /\ lost => "readable" \in f.mode /\ ~Cut(f, k)
             /\ MayFail(Cut(f, k) \/ lost) /\ Count(Cut(f, k) \/ lost)
             /\ fds' = Published(fds, f, k)
             /\ IF Cut(f, k) \/ lost
                THEN files' = [files EXCEPT ![s] = Rest(f, k)] /\ UNCHANGED allocated
                ELSE /\ allocated' = (allocated \ Released(f))
                                     \cup (IF kind = "owned" THEN {b} ELSE {})
                     /\ files' = [files EXCEPT ![s] =
                          [Rest(f, k) EXCEPT
                             !.mode = (@ \ {"bufferOwned", "unbuffered"})
                                      \cup (CASE kind = "owned" -> {"bufferOwned"}
                                              [] kind = "inline" -> {"unbuffered"}
                                              [] OTHER -> {}),
                             !.buffer = b]]
    /\ UNCHANGED <<list, io, task, locale, silent>>

Setlocale ==
    /\ locale' = IF locale = "C" THEN "UTF-8" ELSE "C"
    /\ UNCHANGED <<files, list, fds, allocated, io, task, faults, silent>>

Next ==
    \/ Setlocale
    \/ \E t \in Threads :
         \/ \E m \in OpenModes : FopenAlloc(t, m)
         \/ FopenOpen(t) \/ FopenRegister(t) \/ FcloseRelease(t) \/ FreopenOpen(t)
         \/ FlushAll(t)
         \/ \E s \in Streams :
              \/ Fclose(t, s) \/ Fflush(t, s)
              \/ \E m \in OpenModes : Freopen(t, s, m)
              \/ \E wide \in BOOLEAN : Fwide(t, s, wide)
              \/ \E wide \in BOOLEAN, char \in {"a", "e"} : Put(t, s, wide, char)
              \/ \E kind \in Bufferings : Setvbuf(t, s, kind)

Spec == Init /\ [][Next]_vars

-----------------------------------------------------------------------------
Changing(s) == \E t \in Threads : task[t].at \in {"fclose", "reopen"} /\ task[t].stream = s

(* Every object, descriptor and buffer has exactly one owner: the list     *)
(* holds each live FILE once, so that exit reaches its output; a usable    *)
(* FILE's descriptor is its own, and an open descriptor belongs to a FILE  *)
(* or to an fopen under way; a buffer of setvbuf belongs to one FILE.      *)
StreamsAccounted ==
    /\ \A i, j \in DOMAIN list : i # j => list[i] # list[j]
    /\ \A s \in Range(list) : Live(s)
    /\ \A s \in Streams : Live(s) /\ Usable(files[s]) => s \in Range(list)
    /\ \A s \in Streams : Live(s) /\ Usable(files[s]) /\ ~Changing(s) =>
         fds[files[s].fd].for = s
    /\ \A d \in Fds : fds[d].for # NoOne =>
         \/ Live(fds[d].for) /\ files[fds[d].for].fd = d
         \/ \E t \in Threads : task[t].at = "register" /\ task[t].fd = d
    /\ \A b \in allocated :
         Cardinality({s \in Streams : Live(s) /\ "bufferOwned" \in files[s].mode
                                      /\ files[s].buffer = b}) = 1

(* No accepted byte is lost without a report: what a stream accepted is in *)
(* its file or still in its buffer, in order, and when a close reports     *)
(* success everything is in the file.                                      *)
LossReported ==
    /\ ~silent
    /\ \A s \in Streams : Live(s) /\ Usable(files[s]) /\ ~Changing(s) =>
         LET open == fds[files[s].fd]
         IN  open.accepted = open.written \o files[s].pending

(* All a stream accepts between two bindings is in one encoding, whatever  *)
(* the program does to the locale meanwhile.                               *)
OneEncoding ==
    \A d \in Fds :
        \A b, c \in Range(fds[d].accepted) : b.encoding = c.encoding
=============================================================================
