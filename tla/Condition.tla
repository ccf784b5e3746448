----------------------------- MODULE Condition -----------------------------
(***************************************************************************)
(* cnd_t of src/thread/condition.c together with the mutex of module       *)
(* Mutex: threads lock and unlock the mutex, wait on the condition (with   *)
(* and without a deadline) and signal or broadcast it, with or without     *)
(* holding the mutex.                                                      *)
(*                                                                         *)
(* The condition is one sequence word.  A waiter reads it before it        *)
(* unlocks the mutex and sleeps only while it is unchanged; a signaller    *)
(* increments it and then wakes one or all sleepers in a second step.  The *)
(* word is bounded by MaxSignals here (2^32 in the code; a waiter held off *)
(* for exactly 2^32 signals is outside the model).                         *)
(***************************************************************************)
EXTENDS Mutex

CONSTANT MaxSignals

ASSUME ConditionConstants == MaxSignals \in Nat /\ IsFiniteSet(Threads)

VARIABLES seq,       \* __sequence
          cnd,       \* the condition call each thread executes
          announced  \* value the last completed broadcast gave to the word

condVars == <<seq, cnd, announced>>
vars == <<mutexVars, condVars>>

CondPCs == {"none",
            "load", "unlock", "wait", "asleep", "relock",  \* wait_common
            "bump", "wakeone", "wakeall"}                  \* wake_waiters

(* op: the wait is timed, or the deadline is before 1970; expected: the    *)
(* sequence value read; since: its value when mtx_unlock returned (not a   *)
(* variable of the code); entry: how often the caller held the mutex when  *)
(* it called.  Which of success and timed out a wait reports is left out.  *)
CallType ==
    [pc : CondPCs, op : {"plain", "timed", "expired", "one", "all"},
     expected : 0 .. MaxSignals, since : 0 .. MaxSignals, entry : 0 .. DepthMax]

TypeOK ==
    /\ MutexTypeOK
    /\ seq \in 0 .. MaxSignals /\ announced \in 0 .. seq
    /\ cnd \in [Threads -> CallType]

NoWait == [pc |-> "none", op |-> "plain", expected |-> 0, since |-> 0, entry |-> 0]

Init ==
    /\ MutexInit
    /\ seq = 0 /\ announced = 0
    /\ cnd = [t \in Threads |-> NoWait]

CondAt(t, label) == cnd[t].pc = label

CondGoto(t, label) == cnd' = [cnd EXCEPT ![t].pc = label]

Free(t) == CondAt(t, "none") /\ At(t, "idle")

(* wait_common calls mtx_unlock or mtx_lock.                               *)
Enter(t, op) == [call EXCEPT ![t] = Begin(op, "wait")]

-----------------------------------------------------------------------------
CondWait(t, op) ==
    /\ Free(t)
    /\ cnd' = [cnd EXCEPT ![t] = [NoWait EXCEPT !.pc = "load", !.op = op,
                                                !.entry = held[t]]]
    /\ UNCHANGED <<mutexVars, seq, announced>>

(* expected = atomic_load(&cond->__sequence); mtx_unlock(mtx) begins.      *)
LoadSequence(t) ==
    /\ CondAt(t, "load")
    /\ cnd' = [cnd EXCEPT ![t].pc = "unlock", ![t].expected = seq]
    /\ call' = Enter(t, "unlock")
    /\ UNCHANGED <<state, owner, depth, held, seq, announced>>

(* mtx_unlock has returned: fail, wait, or time out without a system call. *)
Unlocked(t) ==
    /\ CondAt(t, "unlock") /\ At(t, "idle")
    /\ IF call[t].res # "success"
         THEN /\ cnd' = [cnd EXCEPT ![t] = NoWait]
              /\ call' = [call EXCEPT ![t] = NoCall]
         ELSE IF cnd[t].op = "expired"
         THEN /\ cnd' = [cnd EXCEPT ![t].pc = "relock", ![t].since = seq]
              /\ call' = Enter(t, "lock")
         ELSE /\ cnd' = [cnd EXCEPT ![t].pc = "wait", ![t].since = seq]
              /\ UNCHANGED call
    /\ UNCHANGED <<state, owner, depth, held, seq, announced>>

(* The wait has ended and mtx_lock begins.                                 *)
Relock(t) ==
    /\ CondGoto(t, "relock")
    /\ call' = Enter(t, "lock")

(* Deliberately wrong: the sleep does not depend on the sequence.          *)
CondSleepUnchecked(t) ==
    /\ CondAt(t, "wait")
    /\ CondGoto(t, "asleep")
    /\ UNCHANGED <<mutexVars, seq, announced>>

(* FUTEX_WAIT on the sequence word: sleep, EAGAIN, or an unexpected error. *)
CondSleep(t) ==
    /\ CondAt(t, "wait")
    /\ \/ /\ seq = cnd[t].expected
          /\ CondGoto(t, "asleep")
          /\ UNCHANGED call
       \/ Relock(t)
    /\ UNCHANGED <<state, owner, depth, held, seq, announced>>

(* EINTR repeats the futex call with the same expected value.              *)
CondInterrupt(t) ==
    /\ CondAt(t, "asleep")
    /\ CondGoto(t, "wait")
    /\ UNCHANGED <<mutexVars, seq, announced>>

(* Deliberately wrong: a timed-out waiter returns without the mutex.       *)
CondTimeoutReturns(t) ==
    /\ CondAt(t, "asleep") /\ cnd[t].op = "timed"
    /\ cnd' = [cnd EXCEPT ![t] = NoWait]
    /\ UNCHANGED <<mutexVars, seq, announced>>

CondTimeout(t) ==
    /\ CondAt(t, "asleep") /\ cnd[t].op = "timed"
    /\ Relock(t)
    /\ UNCHANGED <<state, owner, depth, held, seq, announced>>

(* mtx_lock has returned: the wait returns too, with thrd_error if the     *)
(* mutex could not be had.                                                 *)
CondReturn(t) ==
    /\ CondAt(t, "relock") /\ At(t, "idle")
    /\ cnd' = [cnd EXCEPT ![t] = NoWait]
    /\ call' = [call EXCEPT ![t] = NoCall]
    /\ UNCHANGED <<state, owner, depth, held, seq, announced>>

-----------------------------------------------------------------------------
(* cnd_signal and cnd_broadcast.                                           *)
Notify(t, op) ==
    /\ Free(t)
    /\ seq + Cardinality({u \in Threads : CondAt(u, "bump")}) < MaxSignals
    /\ cnd' = [cnd EXCEPT ![t] = [NoWait EXCEPT !.pc = "bump", !.op = op]]
    /\ UNCHANGED <<mutexVars, seq, announced>>

(* atomic_fetch_add(&cond->__sequence, 1).                                 *)
Bump(t) ==
    /\ CondAt(t, "bump")
    /\ seq' = seq + 1
    /\ cnd' = [cnd EXCEPT ![t].pc = IF cnd[t].op = "one" THEN "wakeone" ELSE "wakeall",
                          ![t].expected = seq + 1]
    /\ UNCHANGED <<mutexVars, announced>>

CondSleepers == {t \in Threads : CondAt(t, "asleep")}

(* The calls of all threads after FUTEX_WAKE has woken the threads of set. *)
Woken(t, set) ==
    /\ cnd' = [u \in Threads |->
                 IF u = t THEN NoWait
                 ELSE IF u \in set
                      THEN [cnd[u] EXCEPT !.pc = "relock"]
                      ELSE cnd[u]]
    /\ call' = [u \in Threads |->
                  IF u \in set THEN Begin("lock", "wait") ELSE call[u]]

(* FUTEX_WAKE(1): one sleeper of the kernel's choice, if there is any.     *)
WakeOne(t) ==
    /\ CondAt(t, "wakeone")
    /\ \/ CondSleepers = {} /\ Woken(t, {})
       \/ \E u \in CondSleepers : Woken(t, {u})
    /\ UNCHANGED <<state, owner, depth, held, seq, announced>>

(* FUTEX_WAKE(INT_MAX).                                                    *)
WakeAll(t) ==
    /\ CondAt(t, "wakeall")
    /\ Woken(t, CondSleepers)
    /\ announced' = IF cnd[t].expected > announced THEN cnd[t].expected ELSE announced
    /\ UNCHANGED <<state, owner, depth, held, seq>>

CondStep(t) ==
    \/ LoadSequence(t) \/ Unlocked(t) \/ CondSleep(t)
    \/ CondInterrupt(t) \/ CondTimeout(t) \/ CondReturn(t)
    \/ Bump(t) \/ WakeOne(t) \/ WakeAll(t)

(* The program: mutex calls, waits and notifications in any order.         *)
Next ==
    \E t \in Threads :
        \/ MutexStep(t) /\ UNCHANGED condVars
        \/ \E op \in Ops : CondAt(t, "none") /\ Call(t, op) /\ UNCHANGED condVars
        \/ CondStep(t)
        \/ \E op \in {"plain", "timed", "expired"} : CondWait(t, op)
        \/ \E op \in {"one", "all"} : Notify(t, op)

Spec == Init /\ [][Next]_vars

-----------------------------------------------------------------------------
(* A broadcast that has returned left nobody behind: every thread asleep   *)
(* on the condition released its mutex after the broadcast's increment,    *)
(* even if it was still between its unlock and its futex call when the     *)
(* wake was issued.                                                        *)
NoMissedBroadcast ==
    \A t \in CondSleepers : cnd[t].since >= announced

(* Whatever ends a wait (a wake-up, a deadline, a changed sequence), the   *)
(* call returns with the mutex held exactly as often as it was held on     *)
(* entry, unless mtx_lock itself failed (reported as thrd_error).          *)
WaitKeepsOwnership ==
    [][\A t \in Threads :
         cnd[t].pc \in {"wait", "asleep", "relock"} /\ cnd'[t].pc = "none"
            => call[t].res = "error" \/ held'[t] = cnd[t].entry]_vars
=============================================================================
