---------------------------- MODULE Termination ----------------------------
(***************************************************************************)
(* How the process ends: atexit, at_quick_exit, exit, quick_exit and _Exit *)
(* of src/crt/termination.c, thrd_exit's last-thread path of               *)
(* src/thread/lifecycle.c, and the flush of every stream they lead to.     *)
(*                                                                         *)
(* Each registry is read and written in critical sections of its own lock  *)
(* (one action each); handlers run outside it and are program code: they   *)
(* may register handlers, write to streams and, if HandlersCreate, create  *)
(* threads.  A program calls exit or quick_exit at most once (a second     *)
(* call is undefined in C11); the last-thread path is not such a call.     *)
(* Handlers are numbered by registration, at most MaxRegistrations in all; *)
(* at most MaxWrites stream writes are made.                               *)
(***************************************************************************)
EXTENDS Naturals, Sequences, FiniteSets

CONSTANTS Threads,
          Main,              \* the thread main() runs in
          NoThread,
          Capacity,          \* MINI_ATEXIT_CAPACITY, MINI_QUICK_EXIT_CAPACITY
          MaxRegistrations,
          MaxWrites,
          HandlersCreate     \* handlers may call thrd_create

ASSUME TerminationConstants ==
    /\ Main \in Threads /\ NoThread \notin Threads /\ IsFiniteSet(Threads)
    /\ Capacity \in Nat \ {0} /\ MaxRegistrations \in Nat /\ MaxWrites \in Nat
    /\ HandlersCreate \in BOOLEAN

VARIABLES registry,  \* per kind, the handlers in mini_atexit_handlers, oldest first
          count,     \* mini_user_thread_count
          pc,        \* where each thread is
          ending,    \* which registry each terminating thread drains
          asked,     \* the program has called exit or quick_exit
          io,        \* holder of the stdio lock
          dirty,     \* unwritten output: whose, and whether it came after the flush
          writes,    \* number of writes so far
          born,      \* registrations: their kind, and whether the drain was over
          events,    \* registrations and calls in the order they happened
          ended      \* how the process ended, and at whose hands

vars == <<registry, count, pc, ending, asked, io, dirty, writes, born, events, ended>>

Kinds == {"exit", "quick"}

Alive == [how |-> "running", by |-> NoThread]

(* unborn: not created; program, destructors (thrd_exit has begun) and     *)
(* handler: program code; reserved: thrd_create has counted the new thread;*)
(* drain, flush, finish: in exit or quick_exit; gone: left by SYS_exit.    *)
PCs == {"unborn", "program", "destructors", "handler", "reserved",
        "drain", "flush", "finish", "gone"}

Event == [what : {"registered", "called"}, id : 1 .. MaxRegistrations]

TypeOK ==
    /\ \A k \in Kinds : /\ registry[k] \in Seq(DOMAIN born)
                        /\ Len(registry[k]) <= Capacity
    /\ count \in 0 .. Cardinality(Threads)
    /\ pc \in [Threads -> PCs]
    /\ ending \in [Threads -> Kinds]
    /\ asked \in BOOLEAN
    /\ io \in Threads \cup {NoThread}
    /\ dirty \subseteq [by : Threads, late : BOOLEAN] /\ writes \in 0 .. MaxWrites
    /\ born \in Seq([kind : Kinds, late : BOOLEAN]) /\ Len(born) <= MaxRegistrations
    /\ events \in Seq(Event) /\ Len(events) <= 2 * MaxRegistrations
    /\ ended \in [how : {"running", "_Exit"} \cup Kinds, by : Threads \cup {NoThread}]

Init ==
    /\ registry = [k \in Kinds |-> <<>>]
    /\ count = 1
    /\ pc = [t \in Threads |-> IF t = Main THEN "program" ELSE "unborn"]
    /\ ending = [t \in Threads |-> "exit"]
    /\ asked = FALSE /\ io = NoThread
    /\ dirty = {} /\ writes = 0
    /\ born = <<>> /\ events = <<>>
    /\ ended = Alive

Goto(t, label) == pc' = [pc EXCEPT ![t] = label]

(* Program code: the thread's own, a TSS destructor's or a handler's.      *)
InProgram(t) == pc[t] \in {"program", "destructors", "handler"}

-----------------------------------------------------------------------------
(* A terminating thread has found registry k empty.                        *)
Drained(k) ==
    \E t \in Threads : ending[t] = k /\ pc[t] \in {"flush", "finish"}

(* atexit and at_quick_exit; a null function or a full registry returns -1,*)
(* which is no step.                                                       *)
Register(t, k) ==
    LET id == Len(born) + 1 IN
    /\ InProgram(t) /\ io # t /\ id <= MaxRegistrations
    /\ Len(registry[k]) # Capacity
    /\ registry' = [registry EXCEPT ![k] = Append(@, id)]
    /\ born' = Append(born, [kind |-> k, late |-> Drained(k)])
    /\ events' = Append(events, [what |-> "registered", id |-> id])
    /\ UNCHANGED <<count, pc, ending, asked, io, dirty, writes, ended>>

(* A stream operation takes the process-wide stdio lock, leaves output in  *)
(* a buffer, and may sleep in the kernel before it gives the lock back.    *)
BeginWrite(t) ==
    /\ InProgram(t) /\ io = NoThread /\ writes < MaxWrites
    /\ io' = t
    /\ dirty' = dirty \cup {[by |-> t, late |-> \E u \in Threads :
                                   ending[u] = "exit" /\ pc[u] = "finish"]}
    /\ writes' = writes + 1
    /\ UNCHANGED <<registry, count, pc, ending, asked, born, events, ended>>

EndWrite(t) ==
    /\ io = t /\ InProgram(t)
    /\ io' = NoThread
    /\ UNCHANGED <<registry, count, pc, ending, asked, dirty, writes, born, events, ended>>

Calm(t) == InProgram(t) /\ io # t

Unborn == {u \in Threads : pc[u] = "unborn"}

(* The model has a thread left to create.                                  *)
CanCreate ==
    Cardinality({u \in Threads : pc[u] = "reserved"}) < Cardinality(Unborn)

(* Deliberately wrong: the new thread is not counted before it runs.       *)
ReserveLate(t) ==
    /\ Calm(t) /\ pc[t] = "program"
    /\ \E u \in Unborn : pc' = [pc EXCEPT ![u] = "program"]
    /\ UNCHANGED <<registry, count, ending, asked, io, dirty, writes, born, events, ended>>

(* thrd_create counts the thread, then calls clone.  Only the creation by  *)
(* a thread's own code has the interval between the two in this model.     *)
Reserve(t) ==
    /\ Calm(t) /\ pc[t] = "program" /\ CanCreate
    /\ count' = count + 1
    /\ Goto(t, "reserved")
    /\ UNCHANGED <<registry, ending, asked, io, dirty, writes, born, events, ended>>

Clone(t) ==
    /\ pc[t] = "reserved"
    /\ \/ /\ \E u \in Unborn : pc' = [pc EXCEPT ![t] = "program", ![u] = "program"]
          /\ UNCHANGED count
       \/ count' = count - 1 /\ Goto(t, "program")    \* clone failed
    /\ UNCHANGED <<registry, ending, asked, io, dirty, writes, born, events, ended>>

(* A handler or a TSS destructor creates a thread.                         *)
CreateInCallback(t) ==
    /\ Calm(t) /\ CanCreate
    /\ pc[t] = "destructors" \/ (pc[t] = "handler" /\ HandlersCreate)
    /\ \E u \in Unborn : pc' = [pc EXCEPT ![u] = "program"]
    /\ count' = count + 1
    /\ UNCHANGED <<registry, ending, asked, io, dirty, writes, born, events, ended>>

-----------------------------------------------------------------------------
(* thrd_exit: destructors first, then the count decides.                   *)
ThrdExit(t) ==
    /\ pc[t] = "program" /\ io # t
    /\ Goto(t, "destructors")
    /\ UNCHANGED <<registry, count, ending, asked, io, dirty, writes, born, events, ended>>

CountOut(t) ==
    /\ pc[t] = "destructors" /\ io # t
    /\ count' = count - 1
    /\ Goto(t, IF count = 1 THEN "drain" ELSE "gone")
    /\ ending' = [ending EXCEPT ![t] = "exit"]
    /\ UNCHANGED <<registry, asked, io, dirty, writes, born, events, ended>>

(* exit, quick_exit or a return from main.                                 *)
CallExit(t, k) ==
    /\ pc[t] = "program" /\ io # t /\ ~asked
    /\ asked' = TRUE
    /\ ending' = [ending EXCEPT ![t] = k]
    /\ Goto(t, "drain")
    /\ UNCHANGED <<registry, count, io, dirty, writes, born, events, ended>>

AfterDrain(t) == IF ending[t] = "exit" THEN "flush" ELSE "finish"

(* Deliberately wrong: the handlers are counted once, before the first.    *)
PopOnce(t) ==
    LET r == registry[ending[t]] IN
    /\ pc[t] = "drain"
    /\ IF r = <<>> \/ \E i \in DOMAIN events : events[i].what = "called"
         THEN Goto(t, AfterDrain(t)) /\ UNCHANGED <<registry, events>>
         ELSE /\ registry' = [registry EXCEPT ![ending[t]] = SubSeq(r, 1, Len(r) - 1)]
              /\ events' = Append(events, [what |-> "called", id |-> r[Len(r)]])
              /\ Goto(t, "handler")
    /\ UNCHANGED <<count, ending, asked, io, dirty, writes, born, ended>>

(* One turn of the loop: the youngest handler leaves the registry and is   *)
(* called, or there is none left.                                          *)
Pop(t) ==
    LET r == registry[ending[t]] IN
    /\ pc[t] = "drain"
    /\ IF r = <<>>
         THEN Goto(t, AfterDrain(t)) /\ UNCHANGED <<registry, events>>
         ELSE /\ registry' = [registry EXCEPT ![ending[t]] = SubSeq(r, 1, Len(r) - 1)]
              /\ events' = Append(events, [what |-> "called", id |-> r[Len(r)]])
              /\ Goto(t, "handler")
    /\ UNCHANGED <<count, ending, asked, io, dirty, writes, born, ended>>

HandlerReturns(t) ==
    /\ pc[t] = "handler" /\ io # t
    /\ Goto(t, "drain")
    /\ UNCHANGED <<registry, count, ending, asked, io, dirty, writes, born, events, ended>>

(* Deliberately wrong: streams in use are not waited for but skipped.      *)
FlushSkipping(t) ==
    /\ pc[t] = "flush"
    /\ dirty' = IF io = NoThread THEN {} ELSE dirty
    /\ Goto(t, "finish")
    /\ UNCHANGED <<registry, count, ending, asked, io, writes, born, events, ended>>

(* Deliberately wrong: the flush waits for a lock its caller already took. *)
FlushStuck(t) ==
    /\ pc[t] = "flush" /\ io = NoThread
    /\ io' = t
    /\ UNCHANGED <<registry, count, pc, ending, asked, dirty, writes, born, events, ended>>

(* __mini_stdio_flush_all, under the stdio lock, whose wait has no limit.  *)
FlushAll(t) ==
    /\ pc[t] = "flush" /\ io = NoThread
    /\ dirty' = {}
    /\ Goto(t, "finish")
    /\ UNCHANGED <<registry, count, ending, asked, io, writes, born, events, ended>>

(* SYS_exit_group: no thread takes another step.                           *)
ExitGroup(t) ==
    /\ pc[t] = "finish"
    /\ ended' = [how |-> ending[t], by |-> t]
    /\ UNCHANGED <<registry, count, pc, ending, asked, io, dirty, writes, born, events>>

(* The program calls _Exit.                                                *)
CallExitGroup(t) ==
    /\ Calm(t)
    /\ ended' = [how |-> "_Exit", by |-> t]
    /\ UNCHANGED <<registry, count, pc, ending, asked, io, dirty, writes, born, events>>

-----------------------------------------------------------------------------
(* Steps of the library, of handlers and stream operations that return.    *)
Terminate(t) ==
    \/ Pop(t) \/ HandlerReturns(t) \/ FlushAll(t) \/ ExitGroup(t)

Program(t) ==
    \/ \E k \in Kinds : Register(t, k) \/ CallExit(t, k)
    \/ BeginWrite(t) \/ Reserve(t) \/ CreateInCallback(t)
    \/ ThrdExit(t) \/ CountOut(t) \/ Clone(t) \/ CallExitGroup(t)

Next ==
    /\ ended = Alive
    /\ \E t \in Threads : Terminate(t) \/ EndWrite(t) \/ Program(t)

Spec == Init /\ [][Next]_vars

(* exit's own steps are scheduled, handlers return, and no stream          *)
(* operation stays in the kernel for ever.                                 *)
Running(A) == ended = Alive /\ A

FairSpec ==
    /\ Spec
    /\ \A t \in Threads : WF_vars(Running(Terminate(t))) /\ WF_vars(Running(EndWrite(t)))

-----------------------------------------------------------------------------
(* Handlers run youngest first, each at most once: if one runs while a     *)
(* younger one of its kind is registered, the order is wrong, whoever      *)
(* registered it and even if that happened during the drain.               *)
YoungestFirst ==
    \A m \in DOMAIN events :
        LET Before(what) == {events[i].id : i \in {j \in 1 .. m - 1 : events[j].what = what}}
            id == events[m].id
        IN  events[m].what = "called" =>
              /\ id \in Before("registered") \ Before("called")
              /\ \A younger \in Before("registered") \ Before("called") :
                    born[younger].kind = born[id].kind => younger <= id

(* When the process ends through exit, every handler has run, whichever    *)
(* thread registered it and even during the drain, unless it came after    *)
(* the registry was found empty.  So for quick_exit and its own registry.  *)
NoneForgotten ==
    ended.how \in Kinds =>
        \A i \in DOMAIN registry[ended.how] : born[registry[ended.how][i]].late

(* After exit nothing is left in a buffer but what other threads wrote     *)
(* after the flush: the output of handlers, of threads that have left and  *)
(* of a thread that was in a stream operation meanwhile is written.        *)
OutputPublished == ended.how = "exit" => \A w \in dirty : w.late

(* One thread at most drains a registry: the last-thread path does not     *)
(* meet an exit that another thread is executing.                          *)
SingleDrain ==
    \A t, u \in Threads :
        pc[t] \in {"drain", "handler", "flush", "finish"}
        /\ pc[u] \in {"drain", "handler", "flush", "finish"} => t = u

(* One drain at a time, which runs the handlers youngest first, each once. *)
DrainOrdered == TypeOK /\ YoungestFirst /\ SingleDrain

(* A thread that begins to terminate the process does terminate it.        *)
ExitTerminates ==
    (\E t \in Threads : pc[t] = "drain") ~> (ended # Alive)

(* Only a thread that is the last takes the last-thread path.              *)
LastThreadIsAlone ==
    [][\A t \in Threads :
         pc[t] = "destructors" /\ pc'[t] = "drain" =>
            \A u \in Threads \ {t} : pc[u] \in {"unborn", "gone"}]_vars
=============================================================================
