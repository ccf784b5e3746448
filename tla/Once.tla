-------------------------------- MODULE Once --------------------------------
(***************************************************************************)
(* call_once of src/thread/once.c.  Inspecting and publishing a flag are   *)
(* critical sections of one process-wide lock (one action each: the lock   *)
(* is the one of module FutexLock); the initializer runs outside it, and   *)
(* callers that find it running sleep on the flag word.                    *)
(***************************************************************************)
EXTENDS ThreadSet

CONSTANT Flags

ASSUME OnceConstants == Flags # {}

VARIABLES flag,   \* once_flag.__state
          once    \* what each thread does in call_once: [pc, flag]

onceVars == <<flag, once>>

OncePCs == {"idle", "inspect", "run", "publish", "wakeall", "wait", "asleep"}

OnceTypeOK ==
    /\ flag \in [Flags -> {"uninitialized", "running", "complete"}]
    /\ once \in [Threads -> [pc : OncePCs, flag : Flags]]

OnceInit ==
    /\ flag = [f \in Flags |-> "uninitialized"]
    /\ once \in [Threads -> [pc : {"idle"}, flag : {CHOOSE f \in Flags : TRUE}]]

OnceAt(t, label) == once[t].pc = label

OnceGoto(t, label) == once' = [once EXCEPT ![t].pc = label]

CallOnce(t, f) ==
    /\ OnceAt(t, "idle")
    /\ once' = [once EXCEPT ![t] = [pc |-> "inspect", flag |-> f]]
    /\ UNCHANGED flag

(* Deliberately wrong: a running initializer is taken for a finished one.  *)
InspectEager(t) ==
    LET f == once[t].flag IN
    /\ OnceAt(t, "inspect")
    /\ IF flag[f] = "uninitialized"
         THEN flag' = [flag EXCEPT ![f] = "running"] /\ OnceGoto(t, "run")
         ELSE OnceGoto(t, "idle") /\ UNCHANGED flag

Inspect(t) ==
    LET f == once[t].flag IN
    /\ OnceAt(t, "inspect")
    /\ \/ /\ flag[f] = "complete"
          /\ OnceGoto(t, "idle")
          /\ UNCHANGED flag
       \/ /\ flag[f] = "uninitialized"
          /\ flag' = [flag EXCEPT ![f] = "running"]
          /\ OnceGoto(t, "run")
       \/ /\ flag[f] = "running"
          /\ OnceGoto(t, "wait")
          /\ UNCHANGED flag

(* func() returns.  What it does is up to the module that uses this one.   *)
RunInitializer(t) ==
    /\ OnceAt(t, "run")
    /\ OnceGoto(t, "publish")
    /\ UNCHANGED flag

Publish(t) ==
    /\ OnceAt(t, "publish")
    /\ flag' = [flag EXCEPT ![once[t].flag] = "complete"]
    /\ OnceGoto(t, "wakeall")

(* Deliberately wrong: one waiter is woken where all wait for one event.   *)
OnceWakeOne(t) ==
    LET waiting == {u \in Threads : OnceAt(u, "asleep") /\ once[u].flag = once[t].flag} IN
    /\ OnceAt(t, "wakeall")
    /\ \/ waiting = {} /\ OnceGoto(t, "idle")
       \/ \E u \in waiting :
            once' = [once EXCEPT ![t].pc = "idle", ![u].pc = "inspect"]
    /\ UNCHANGED flag

OnceWakeAll(t) ==
    /\ OnceAt(t, "wakeall")
    /\ once' = [u \in Threads |->
                  IF u = t THEN [once[u] EXCEPT !.pc = "idle"]
                  ELSE IF OnceAt(u, "asleep") /\ once[u].flag = once[t].flag
                       THEN [once[u] EXCEPT !.pc = "inspect"]
                       ELSE once[u]]
    /\ UNCHANGED flag

(* FUTEX_WAIT(flag, RUNNING): EAGAIN when the initializer has completed.   *)
OnceWait(t) ==
    /\ OnceAt(t, "wait")
    /\ OnceGoto(t, IF flag[once[t].flag] = "running" THEN "asleep" ELSE "inspect")
    /\ UNCHANGED flag

OnceInterrupt(t) ==
    /\ OnceAt(t, "asleep")
    /\ OnceGoto(t, "inspect")
    /\ UNCHANGED flag

(* Every step of a call that has begun, but for the initializer's.         *)
OnceStep(t) ==
    Inspect(t) \/ Publish(t) \/ OnceWakeAll(t) \/ OnceWait(t)

-----------------------------------------------------------------------------
(* No caller sleeps on a completed flag unless the wake-up that follows    *)
(* completion is still to come.                                            *)
NoStrandedCaller ==
    \A t \in Threads :
        OnceAt(t, "asleep") /\ flag[once[t].flag] = "complete" =>
            \E u \in Threads : OnceAt(u, "wakeall") /\ once[u].flag = once[t].flag
=============================================================================
