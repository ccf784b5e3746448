------------------------------- MODULE Stream -------------------------------
(***************************************************************************)
(* One FILE of src/stdio over one regular file: byte input and output,     *)
(* pushback, flushing, positioning and changes of buffering (stdio.c,      *)
(* position.c, block.c, and setvbuf of file.c).                            *)
(*                                                                         *)
(* Every call runs under the process-wide stdio lock, so calls do not      *)
(* interleave; a call takes one step per chunk it copies and per system    *)
(* call it makes, and a system call may do less than it was asked or fail. *)
(* A call that is refused before it changes anything is no step.  Nothing  *)
(* in these files reads the error indicator, which is left out, as is      *)
(* orientation.  The file is as long as MaxFile at most.                   *)
(*                                                                         *)
(* want and pos are what the program knows of the file: the contents with  *)
(* every accepted byte in its place, and the position by its own count.    *)
(***************************************************************************)
EXTENDS Integers, Sequences, SequencesExt

CONSTANTS Modes,        \* the capabilities a stream may be opened with
          Contents,     \* what is in the file when it is opened
          Newline,      \* the byte that ends a line
          Data,         \* what the program writes: sequences of bytes
          PushedBack,   \* the byte it pushes back
          ReadSizes,    \* how much it reads
          Capacities,   \* buffer sizes, the default one and setvbuf's
          MaxFile,
          UngetUnbuffered   \* the program uses ungetc on unbuffered streams

Bytes == {PushedBack, Newline} \cup UNION {Range(d) : d \in Data \cup {Contents}}

StreamConstants ==
    /\ Modes \subseteq [read : BOOLEAN, write : BOOLEAN, append : BOOLEAN]
    /\ Capacities \subseteq Nat \ {0} /\ ReadSizes \subseteq Nat \ {0}
    /\ \A d \in Data \cup {Contents} : d \in Seq(Bytes)
    /\ MaxFile \in Nat /\ Len(Contents) <= MaxFile
    /\ UngetUnbuffered \in BOOLEAN

VARIABLES mode,      \* READABLE, WRITABLE, APPEND
          buffering, \* LINE_BUFFERED, UNBUFFERED or neither, and buffer_size
          eof,       \* MINI_FILE_EOF
          position,  \* MINI_FILE_READ_NEEDS_POSITION
          sync,      \* MINI_FILE_WRITE_NEEDS_SYNC
          wbuf,      \* write_buffer up to write_length
          rbuf,      \* read_buffer from read_offset to read_length
          pushback,  \* pushback_bytes not yet read
          file, off, \* the file, and the kernel's offset in it
          call,      \* the call in progress
          want, pos

stream == <<mode, buffering, eof, position, sync, wbuf, rbuf, pushback>>
vars == <<stream, file, off, call, want, pos>>

Full(cap) == [kind |-> "full", cap |-> cap]
Line(cap) == [kind |-> "line", cap |-> cap]
Unbuffered == [kind |-> "none", cap |-> 0]

Bufferings ==
    {Full(c) : c \in Capacities} \cup {Line(c) : c \in Capacities} \cup {Unbuffered}

(* left: how much is still to be read; data: what is still to be written;  *)
(* then: what follows a flush; whence, offset: where fseek is to go;       *)
(* change: the buffering setvbuf asks for.                                 *)
NoCall == [pc |-> "idle", left |-> 0, data |-> <<>>, then |-> "return",
           whence |-> "cur", offset |-> 0, change |-> Unbuffered]

TypeOK ==
    /\ mode \in Modes /\ buffering \in Bufferings
    /\ eof \in BOOLEAN /\ position \in BOOLEAN /\ sync \in BOOLEAN
    /\ \A s \in {wbuf, rbuf} : s \in Seq(Bytes) /\ Len(s) <= buffering.cap
    /\ pushback \in Seq(Bytes) /\ Len(pushback) <= 1
    /\ file \in Seq(Bytes) /\ want \in Seq(Bytes)
    /\ Len(file) <= MaxFile /\ Len(want) <= MaxFile
    /\ off \in 0 .. MaxFile /\ pos \in -1 .. MaxFile
    /\ call.pc \in {"idle", "read", "write", "flush", "seek", "realign"}
    /\ call.then \in {"return", "write", "fflush", "seek", "setvbuf"}

Init ==
    /\ mode \in Modes
    /\ \E c \in Capacities : (\A d \in Capacities : d <= c) /\ buffering = Full(c)
    /\ eof = FALSE /\ position = FALSE /\ sync = FALSE
    /\ wbuf = <<>> /\ rbuf = <<>> /\ pushback = <<>>
    /\ file = Contents /\ want = Contents
    /\ off = 0 /\ pos = 0
    /\ call = NoCall

At(label) == call.pc = label

Return == call' = NoCall

(* bytes laid over s from offset at on, beyond its end if need be.         *)
Put(s, at, bytes) ==
    SubSeq(s, 1, at) \o bytes \o SubSeq(s, at + Len(bytes) + 1, Len(s))

Start(s, n) == SubSeq(s, 1, n)
Rest(s, n) == SubSeq(s, n + 1, Len(s))

Least(m, n) == IF m < n THEN m ELSE n

-----------------------------------------------------------------------------
(* Input: stdio_read_unlocked, behind fgetc, getc, fgets and fread.        *)

StartRead(n) ==
    /\ At("idle") /\ mode.read /\ ~sync
    /\ call' = [NoCall EXCEPT !.pc = "read", !.left = n]
    /\ UNCHANGED <<stream, file, off, want, pos>>

(* n bytes have reached the caller.                                        *)
Delivered(n) ==
    /\ call' = IF n = call.left THEN NoCall ELSE [call EXCEPT !.left = @ - n]
    /\ pos' = pos + n

Buffered == buffering.kind # "none"

(* The pushed-back byte comes first.                                       *)
ReadPushback ==
    /\ At("read") /\ Buffered /\ pushback # <<>>
    /\ Delivered(1)
    /\ pushback' = <<>> /\ position' = TRUE
    /\ UNCHANGED <<mode, buffering, eof, sync, wbuf, rbuf, file, off, want>>

(* Then what is left of the last refill.                                   *)
ReadCache ==
    LET n == Least(Len(rbuf), call.left) IN
    /\ At("read") /\ Buffered /\ pushback = <<>> /\ rbuf # <<>>
    /\ Delivered(n)
    /\ rbuf' = Rest(rbuf, n) /\ position' = TRUE
    /\ UNCHANGED <<mode, buffering, eof, sync, wbuf, pushback, file, off, want>>

Exhausted == At("read") /\ Buffered /\ pushback = <<>> /\ rbuf = <<>>

(* A sticky end of file ends the call without a system call.               *)
ReadNothing ==
    /\ Exhausted /\ eof
    /\ Return
    /\ UNCHANGED <<stream, file, off, want, pos>>

(* read() of the kernel: part of what there is, the end, or an error.      *)
Refill ==
    /\ Exhausted /\ ~eof
    /\ \E n \in 1 .. Least(buffering.cap, Len(file) - off) :
         /\ rbuf' = SubSeq(file, off + 1, off + n)
         /\ off' = off + n
    /\ UNCHANGED <<mode, buffering, eof, position, sync, wbuf, pushback, file, call,
                   want, pos>>

ReadEnd ==
    /\ At("read") /\ off = Len(file)
    /\ Buffered => Exhausted /\ ~eof
    /\ eof' = TRUE /\ position' = FALSE
    /\ Return
    /\ UNCHANGED <<mode, buffering, sync, wbuf, rbuf, pushback, file, off, want, pos>>

ReadFails ==
    /\ At("read")
    /\ Buffered => Exhausted /\ ~eof
    /\ position' = TRUE
    /\ Return
    /\ UNCHANGED <<mode, buffering, eof, sync, wbuf, rbuf, pushback, file, off, want, pos>>

(* An unbuffered stream reads straight into the caller's memory.           *)
ReadDirect ==
    /\ At("read") /\ ~Buffered
    /\ \E n \in 1 .. Least(call.left, Len(file) - off) :
         Delivered(n) /\ off' = off + n
    /\ position' = TRUE
    /\ UNCHANGED <<mode, buffering, eof, sync, wbuf, rbuf, pushback, file, want>>

(* ungetc: one byte, which need not be the one that was read.  At pos 0 it *)
(* leaves the position below zero, which ftell reports as an error.        *)
Unget ==
    /\ At("idle") /\ mode.read /\ ~sync /\ pushback = <<>>
    /\ Buffered \/ UngetUnbuffered
    /\ pushback' = <<PushedBack>> /\ eof' = FALSE /\ position' = TRUE
    /\ pos' = pos - 1
    /\ UNCHANGED <<mode, buffering, sync, wbuf, rbuf, file, off, call, want>>

ClearErr ==
    /\ At("idle") /\ eof' = FALSE
    /\ UNCHANGED <<mode, buffering, position, sync, wbuf, rbuf, pushback, file, off,
                   call, want, pos>>

-----------------------------------------------------------------------------
(* Output: stdio_write_unlocked, behind fputc, putc, fputs and fwrite.     *)

WriteAt == IF mode.append THEN Len(want) ELSE pos

StartWrite(data) ==
    /\ At("idle") /\ mode.write /\ ~position
    /\ WriteAt + Len(data) <= MaxFile
    /\ sync' = TRUE
    /\ call' = [NoCall EXCEPT !.pc = "write", !.data = data]
    /\ UNCHANGED <<mode, buffering, eof, position, wbuf, rbuf, pushback, file, off,
                   want, pos>>

(* The first n bytes of the call's data have been accepted.                *)
Accepted(n) ==
    /\ want' = Put(want, WriteAt, Start(call.data, n))
    /\ pos' = WriteAt + n

(* write() of the kernel: n bytes at its offset, or at the end.            *)
KernelWrite(bytes) ==
    LET at == IF mode.append THEN Len(file) ELSE off IN
    /\ file' = Put(file, at, bytes)
    /\ off' = at + Len(bytes)

WriteDone ==
    /\ At("write") /\ call.data = <<>>
    /\ Return
    /\ UNCHANGED <<stream, file, off, want, pos>>

(* The buffer is full: it is flushed before more is accepted.              *)
WriteFull ==
    /\ At("write") /\ Buffered /\ call.data # <<>> /\ Len(wbuf) = buffering.cap
    /\ call' = [call EXCEPT !.pc = "flush", !.then = "write"]
    /\ UNCHANGED <<stream, file, off, want, pos>>

(* What fits, and of a line-buffered stream no more than one line, which   *)
(* is then flushed.                                                        *)
WriteChunk ==
    LET fits == Least(Len(call.data), buffering.cap - Len(wbuf))
        ends == {i \in 1 .. fits : buffering.kind = "line" /\ call.data[i] = Newline}
        n    == IF ends = {} THEN fits ELSE CHOOSE i \in ends : \A j \in ends : i <= j
    IN
    /\ At("write") /\ Buffered /\ fits > 0
    /\ wbuf' = wbuf \o Start(call.data, n)
    /\ Accepted(n)
    /\ call' = [call EXCEPT !.data = Rest(@, n), !.then = "write",
                            !.pc = IF ends = {} THEN "write" ELSE "flush"]
    /\ UNCHANGED <<mode, buffering, eof, position, sync, rbuf, pushback, file, off>>

WriteDirect ==
    /\ At("write") /\ ~Buffered
    /\ \E n \in 1 .. Len(call.data) :
         /\ Accepted(n)
         /\ KernelWrite(Start(call.data, n))
         /\ call' = [call EXCEPT !.data = Rest(@, n)]
    /\ UNCHANGED stream

WriteFails ==
    /\ At("write") /\ ~Buffered /\ call.data # <<>>
    /\ Return
    /\ UNCHANGED <<stream, file, off, want, pos>>

-----------------------------------------------------------------------------
(* stdio_flush_buffer_unlocked.  The buffer is shown without what has been *)
(* written; the code moves the rest down when it ends.                     *)

(* Deliberately wrong: a short write is taken for a complete one.          *)
FlushShort ==
    /\ At("flush") /\ wbuf # <<>>
    /\ \E n \in 1 .. Len(wbuf) : KernelWrite(Start(wbuf, n))
    /\ wbuf' = <<>>
    /\ UNCHANGED <<mode, buffering, eof, position, sync, rbuf, pushback, call, want, pos>>

FlushSome ==
    /\ At("flush") /\ wbuf # <<>>
    /\ \E n \in 1 .. Len(wbuf) :
         /\ KernelWrite(Start(wbuf, n))
         /\ wbuf' = Rest(wbuf, n)
    /\ UNCHANGED <<mode, buffering, eof, position, sync, rbuf, pushback, call, want, pos>>

(* The call in progress fails; rewind clears the indicator all the same.   *)
Fail ==
    /\ Return
    /\ eof' = IF call.whence = "rewind" THEN FALSE ELSE eof
    /\ UNCHANGED <<mode, buffering, position, sync, wbuf, rbuf, pushback, file, off,
                   want, pos>>

(* An error or no progress: the call fails with the rest still buffered.   *)
FlushFails == At("flush") /\ wbuf # <<>> /\ Fail

NeedsRealign == mode.read /\ (position \/ rbuf # <<>> \/ pushback # <<>>)

(* setvbuf installs the new buffering when nothing is held back.           *)
Install(c) ==
    /\ buffering' = c
    /\ wbuf' = <<>> /\ rbuf' = <<>> /\ pushback' = <<>>

FlushDone ==
    /\ At("flush") /\ wbuf = <<>>
    /\ \/ /\ call.then = "return" /\ Return
          /\ UNCHANGED stream
       \/ /\ call.then = "write" /\ call' = [call EXCEPT !.pc = "write"]
          /\ UNCHANGED stream
       \/ /\ call.then = "seek" /\ call' = [call EXCEPT !.pc = "seek"]
          /\ UNCHANGED stream
       \/ /\ call.then = "fflush" /\ Return
          /\ sync' = FALSE
          /\ UNCHANGED <<mode, buffering, eof, position, wbuf, rbuf, pushback>>
       \/ /\ call.then = "setvbuf"
          /\ sync' = IF mode.write THEN FALSE ELSE sync
          /\ IF NeedsRealign
               THEN /\ call' = [call EXCEPT !.pc = "realign"]
                    /\ UNCHANGED <<buffering, wbuf, rbuf, pushback>>
               ELSE /\ Install(call.change)
                    /\ Return
          /\ UNCHANGED <<mode, eof, position>>
    /\ UNCHANGED <<file, off, want, pos>>

(* Begin a call that flushes first.                                        *)
StartFlush(then) ==
    /\ At("idle")
    /\ call' = [NoCall EXCEPT !.pc = "flush", !.then = then]
    /\ UNCHANGED <<stream, file, off, want, pos>>

(* fflush(stream); fflush(NULL), which leaves sync set; and ftell, which   *)
(* flushes an append stream and otherwise changes nothing.                 *)
Flush == mode.write /\ StartFlush("fflush")
FlushAll == mode.write /\ StartFlush("return")
Tell == mode.append /\ wbuf # <<>> /\ StartFlush("return")

SetVBuf(c) ==
    /\ At("idle")
    /\ call' = [NoCall EXCEPT !.pc = "flush", !.then = "setvbuf", !.change = c]
    /\ UNCHANGED <<stream, file, off, want, pos>>

-----------------------------------------------------------------------------
(* fseek, and rewind, which goes to offset 0.                              *)
StartSeek(whence, offset) ==
    /\ At("idle")
    /\ call' = [NoCall EXCEPT !.pc = "flush", !.then = "seek",
                              !.whence = whence, !.offset = offset]
    /\ UNCHANGED <<stream, file, off, want, pos>>

Unread == Len(rbuf) + Len(pushback)

(* Deliberately wrong: the kernel's offset is taken for the stream's.      *)
SeekTargetRaw ==
    CASE call.whence \in {"set", "rewind"} -> call.offset
      [] call.whence = "cur" -> off + call.offset
      [] call.whence = "end" -> Len(file) + call.offset

(* Where lseek is asked to go: from the current position, unread input is  *)
(* subtracted.                                                             *)
SeekTarget ==
    CASE call.whence \in {"set", "rewind"} -> call.offset
      [] call.whence = "cur" -> off + call.offset - Unread
      [] call.whence = "end" -> Len(file) + call.offset

(* Deliberately wrong: cached input survives the seek.                     *)
SeekedKeeping ==
    /\ off' = SeekTarget
    /\ pushback' = <<>>
    /\ eof' = FALSE /\ position' = FALSE /\ sync' = FALSE
    /\ UNCHANGED rbuf

(* lseek has succeeded: input is discarded and the barriers are lifted.    *)
Seeked ==
    /\ off' = SeekTarget
    /\ rbuf' = <<>> /\ pushback' = <<>>
    /\ eof' = FALSE /\ position' = FALSE /\ sync' = FALSE

(* Where the program goes, by its own count.                               *)
Destination ==
    CASE call.whence \in {"set", "rewind"} -> call.offset
      [] call.whence = "cur" -> pos + call.offset
      [] call.whence = "end" -> Len(want) + call.offset

Seek ==
    /\ At("seek") /\ SeekTarget \in 0 .. Len(file)
    /\ Seeked
    /\ pos' = Destination
    /\ Return
    /\ UNCHANGED <<mode, buffering, wbuf, file, want>>

(* lseek refuses: a negative target, or a descriptor that cannot seek.     *)
SeekFails == At("seek") /\ Fail

(* setvbuf's own fseek(stream, 0, SEEK_CUR): the call fails with it and    *)
(* leaves everything as it was.                                            *)
Realign ==
    /\ At("realign") /\ off - Unread >= 0
    /\ off' = off - Unread
    /\ eof' = FALSE /\ position' = FALSE /\ sync' = FALSE
    /\ Install(call.change)
    /\ Return
    /\ UNCHANGED <<mode, file, want, pos>>

RealignFails ==
    /\ At("realign")
    /\ Return
    /\ UNCHANGED <<stream, file, off, want, pos>>

-----------------------------------------------------------------------------
(* The program's calls, and the steps of the call in progress.             *)
Call ==
    \/ \E n \in ReadSizes : StartRead(n)
    \/ \E data \in Data : StartWrite(data)
    \/ Unget \/ ClearErr \/ Flush \/ FlushAll \/ Tell
    \/ \E c \in Bufferings : SetVBuf(c)
    \/ StartSeek("rewind", 0)
    \/ \E offset \in 0 .. Len(want) : StartSeek("set", offset)
    \/ \E offset \in {-1, 0} : StartSeek("cur", offset) \/ StartSeek("end", offset)

Step ==
    \/ ReadPushback \/ ReadCache \/ ReadNothing \/ Refill \/ ReadEnd \/ ReadFails
    \/ ReadDirect
    \/ WriteDone \/ WriteFull \/ WriteChunk \/ WriteDirect \/ WriteFails
    \/ FlushSome \/ FlushFails \/ FlushDone
    \/ Seek \/ SeekFails \/ Realign \/ RealignFails

Next == Call \/ Step

Spec == Init /\ [][Next]_vars

-----------------------------------------------------------------------------
(* Every byte the stream has accepted is in the file or still in the       *)
(* buffer, exactly once and in its place: short writes, failed flushes and *)
(* their retries, seeks and changes of buffering lose and repeat nothing.  *)
OutputKept ==
    want = Put(file, IF mode.append THEN Len(file) ELSE off, wbuf)

(* The position ftell computes is the one the program counts.              *)
PositionAgrees ==
    pos = IF mode.append /\ wbuf # <<>> THEN Len(file) + Len(wbuf)
          ELSE off + Len(wbuf) - Unread

(* What has been read ahead is what is in the file there.                  *)
CacheCurrent ==
    \A i \in 1 .. Len(rbuf) :
        LET at == pos + Len(pushback) + i
        IN  at \in 1 .. Len(want) /\ rbuf[i] = want[at]

(* Unread input and unwritten output never meet: setvbuf gives both the    *)
(* same memory, and ftell's formula and fseek's know only one at a time.   *)
OneDirection ==
    /\ wbuf # <<>> => rbuf = <<>> /\ pushback = <<>>
    /\ rbuf # <<>> \/ pushback # <<>> => position \/ (At("read") /\ call.left > 0)

(* The buffer of a stream holds one direction, and what the file holds.    *)
CacheConsistent == TypeOK /\ CacheCurrent /\ OneDirection

(* A byte that was pushed back is the next one to be read.                 *)
PushbackServedFirst ==
    [][At("read") /\ pushback # <<>> /\ pos' > pos => pushback' = <<>>]_vars
=============================================================================
