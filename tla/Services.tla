------------------------------ MODULE Services ------------------------------
(***************************************************************************)
(* The services of the library that keep state, side by side: the bytes of *)
(* one stream, the lifecycle of streams, locale objects, and new processes.*)
(* A behaviour is one of one service, chosen at the start, with the others *)
(* at rest: no step of one reads or writes a variable of another, so their *)
(* interleavings would show nothing more.                                  *)
(***************************************************************************)
EXTENDS Naturals, Sequences, FiniteSets

CONSTANTS Threads, NoOne,
          Modes, Contents, Newline, Data, PushedBack, ReadSizes, Capacities, MaxFile,
          Files, Std, Descriptors, Buffers, BufferKinds, OpenModes, BufferSize, MaxAccepted,
          MaxFaults,
          LocaleCells, Categories, Names, Environments,
          Children, Handlers, Roles, HandlerCapacity, ActionSlots, Locks, Actions, Table,
          MaxForks

VARIABLES part,
          mode, buffering, eof, position, sync, wbuf, rbuf, pushback, file, off,
          call, want, pos,
          files, streams, fds, allocated, io, fileTask, encoding, faults, silent,
          objects, locales, process, tcb, localeTask, environ, promised, took,
          registry, locks, actions, forkTask, child, failed

(* The program keeps ungetc to buffered streams.                           *)
One == INSTANCE Stream WITH UngetUnbuffered <- FALSE

Streams == INSTANCE StreamLife
             WITH Cells <- Files, Fds <- Descriptors, Bufferings <- BufferKinds,
                  Capacity <- BufferSize,
                  list <- streams, task <- fileTask, locale <- encoding

(* One thread at a time changes or frees an object, as a program must see  *)
(* to; reading and installing it goes on meanwhile.                        *)
Locales == INSTANCE LocaleObjects
             WITH Cells <- LocaleCells, SharedBases <- FALSE,
                  list <- locales, task <- localeTask

Procs == INSTANCE Processes
           WITH Capacity <- HandlerCapacity, Slots <- ActionSlots, task <- forkTask

ASSUME ServicesAssumption ==
    /\ One!StreamConstants
    /\ Streams!StreamLifeAssumption
    /\ Locales!LocaleAssumption
    /\ Procs!ProcessesAssumption

oneVars ==
    <<mode, buffering, eof, position, sync, wbuf, rbuf, pushback, file, off, call,
      want, pos>>

streamVars ==
    <<files, streams, fds, allocated, io, fileTask, encoding, faults, silent>>

localeVars ==
    <<objects, locales, process, tcb, localeTask, environ, promised, took>>

forkVars == <<registry, locks, actions, forkTask, child, failed>>

vars == <<part, oneVars, streamVars, localeVars, forkVars>>

AtRest == One!Init /\ Streams!Init /\ Locales!Init /\ Procs!Init

Init == AtRest /\ part \in {"bytes", "streams", "locales", "processes"}

Next ==
    \/ /\ part = "bytes" /\ One!Next
       /\ UNCHANGED <<part, streamVars, localeVars, forkVars>>
    \/ /\ part = "streams" /\ Streams!Next
       /\ UNCHANGED <<part, oneVars, localeVars, forkVars>>
    \/ /\ part = "locales" /\ Locales!Next
       /\ UNCHANGED <<part, oneVars, streamVars, forkVars>>
    \/ /\ part = "processes" /\ Procs!Next
       /\ UNCHANGED <<part, oneVars, streamVars, localeVars>>

Spec == Init /\ [][Next]_vars

-----------------------------------------------------------------------------
(* stdio.c: every accepted byte is in the file or in the buffer, once and  *)
(* in its place, whatever short writes, failures, seeks and setvbufs did.  *)
OutputKept == One!OutputKept

(* position.c: ftell reports the position that the program counts.         *)
PositionAgrees == One!PositionAgrees

(* stdio.c: input held back is that of the file, and of one direction.     *)
CacheConsistent == One!CacheConsistent

(* file.c and stdio.c: each FILE, descriptor and buffer has one owner,     *)
(* whichever step of fopen, freopen, setvbuf or fclose failed.             *)
StreamsAccounted == Streams!StreamsAccounted

(* stdio.c: accepted bytes reach the file in order, or the close fails.    *)
LossReported == Streams!LossReported

(* orientation.c: one stream, one encoding, whatever setlocale does.       *)
OneEncoding == Streams!OneEncoding

(* locale_object.c: objects hold every change that was reported and no     *)
(* part of a change that was refused.                                      *)
ObjectsWhole == Locales!ObjectsWhole

(* thread_locale.c: a thread's locale is what it installed.                *)
LocaleFrozen == Locales!LocaleFrozen

(* atfork.c and process.c: handlers run in pairs around every fork, and a  *)
(* child never waits for a lock whose holder it did not inherit.           *)
ForkSafe == Procs!HandlersPaired /\ Procs!ChildRunsOn

(* spawn.c: an image has all the file actions, in order, or none starts.   *)
SpawnApplied == Procs!SpawnApplied
=============================================================================
