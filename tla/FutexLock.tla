----------------------------- MODULE FutexLock -----------------------------
(***************************************************************************)
(* The private lock of src/internal/futex_lock.h that guards the allocator,*)
(* the thread registry, the TSS registry, stdio, the exit registries, the  *)
(* fork registry and the locale registry (once.c carries a second copy of  *)
(* the same code).  One 32-bit word, 0 free and 1 held; acquire exchanges  *)
(* in a 1 and sleeps in the kernel while the old value was not 0; release  *)
(* exchanges in a 0 and wakes at most one sleeper.  The word never records *)
(* whether anybody waits, so release always issues the wake call, and the  *)
(* wake is a separate step from the exchange: another thread can take the  *)
(* lock between the two.                                                   *)
(*                                                                         *)
(* The kernel side (FUTEX_WAIT and FUTEX_WAKE) is modelled from how the    *)
(* code uses it: WAIT compares and enqueues in one atomic step, WAKE       *)
(* removes one queued thread of the kernel's choice, and a signal may      *)
(* interrupt a sleeper at any time (EINTR).                                *)
(***************************************************************************)
CONSTANT Threads

VARIABLES word,      \* atomic_int state
          pc,        \* where each thread is
          waiters    \* threads the kernel has queued on the word

vars == <<word, pc, waiters>>

PCs == {"idle",      \* outside acquire and release
        "exchange",  \* about to execute atomic_exchange(&lock->state, 1)
        "wait",      \* the exchange returned 1, about to enter FUTEX_WAIT
        "asleep",    \* queued by the kernel
        "critical",  \* acquire has returned
        "wake"}      \* released the word, about to call FUTEX_WAKE

(* One type invariant: who is queued is exactly who is asleep.             *)
TypeOK ==
    /\ word \in {0, 1}
    /\ pc \in [Threads -> PCs]
    /\ waiters = {t \in Threads : pc[t] = "asleep"}

Init ==
    /\ word = 0
    /\ pc = [t \in Threads |-> "idle"]
    /\ waiters = {}

(* A thread calls mini_futex_lock_acquire.                                 *)
Enter(t) ==
    /\ pc[t] = "idle"
    /\ pc' = [pc EXCEPT ![t] = "exchange"]
    /\ UNCHANGED <<word, waiters>>

(* Variants marked "Deliberately wrong" are never part of Next: each is a  *)
(* plausible slip in the definition that follows it, kept to show which    *)
(* property notices it.                                                    *)

(* Deliberately wrong: a plain store in place of the exchange.             *)
ExchangeBlind(t) ==
    /\ pc[t] = "exchange"
    /\ word' = 1
    /\ pc' = [pc EXCEPT ![t] = "critical"]
    /\ UNCHANGED waiters

(* The loop condition: the old value decides between returning and waiting.*)
Exchange(t) ==
    /\ pc[t] = "exchange"
    /\ word' = 1
    /\ pc' = [pc EXCEPT ![t] = IF word = 0 THEN "critical" ELSE "wait"]
    /\ UNCHANGED waiters

(* Deliberately wrong: a wait that does not compare the word.              *)
FutexWaitUnchecked(t) ==
    /\ pc[t] = "wait"
    /\ pc' = [pc EXCEPT ![t] = "asleep"]
    /\ waiters' = waiters \cup {t}
    /\ UNCHANGED word

(* FUTEX_WAIT(word, 1): sleep if the word is still 1, otherwise EAGAIN.    *)
(* The result is discarded either way and the loop runs again.             *)
FutexWait(t) ==
    /\ pc[t] = "wait"
    /\ IF word = 1
         THEN /\ pc' = [pc EXCEPT ![t] = "asleep"]
              /\ waiters' = waiters \cup {t}
         ELSE /\ pc' = [pc EXCEPT ![t] = "exchange"]
              /\ UNCHANGED waiters
    /\ UNCHANGED word

(* Deliberately wrong: an interrupted sleeper stays queued.                *)
InterruptStaysQueued(t) ==
    /\ pc[t] = "asleep"
    /\ pc' = [pc EXCEPT ![t] = "exchange"]
    /\ UNCHANGED <<word, waiters>>

(* A signal ends the sleep (EINTR); the loop runs again.                   *)
Interrupt(t) ==
    /\ pc[t] = "asleep"
    /\ pc' = [pc EXCEPT ![t] = "exchange"]
    /\ waiters' = waiters \ {t}
    /\ UNCHANGED word

(* Deliberately wrong: the wake call is left out.                          *)
ReleaseSilently(t) ==
    /\ pc[t] = "critical"
    /\ word' = 0
    /\ pc' = [pc EXCEPT ![t] = "idle"]
    /\ UNCHANGED waiters

(* mini_futex_lock_release: the exchange; the wake call follows only if    *)
(* the word was held.                                                      *)
Release(t) ==
    /\ pc[t] = "critical"
    /\ word' = 0
    /\ pc' = [pc EXCEPT ![t] = IF word # 0 THEN "wake" ELSE "idle"]
    /\ UNCHANGED waiters

(* Deliberately wrong: the woken thread does not test the word again (an   *)
(* "if" where acquire has its "while").                                    *)
FutexWakeGrants(t) ==
    /\ pc[t] = "wake"
    /\ \/ /\ waiters = {}
          /\ pc' = [pc EXCEPT ![t] = "idle"]
          /\ UNCHANGED waiters
       \/ \E u \in waiters :
            /\ pc' = [pc EXCEPT ![t] = "idle", ![u] = "critical"]
            /\ waiters' = waiters \ {u}
    /\ UNCHANGED word

(* FUTEX_WAKE(word, 1): one queued thread of the kernel's choice, if any.  *)
FutexWake(t) ==
    /\ pc[t] = "wake"
    /\ \/ /\ waiters = {}
          /\ pc' = [pc EXCEPT ![t] = "idle"]
          /\ UNCHANGED waiters
       \/ \E u \in waiters :
            /\ pc' = [pc EXCEPT ![t] = "idle", ![u] = "exchange"]
            /\ waiters' = waiters \ {u}
    /\ UNCHANGED word

Next ==
    \E t \in Threads :
        \/ Enter(t)
        \/ Exchange(t)
        \/ FutexWait(t)
        \/ Interrupt(t)
        \/ Release(t)
        \/ FutexWake(t)

(* A running thread keeps executing instructions and critical sections     *)
(* end.  Nothing obliges a thread to call acquire, and no signal is owed.  *)
Fairness ==
    \A t \in Threads :
        /\ WF_vars(Exchange(t))
        /\ WF_vars(FutexWait(t))
        /\ WF_vars(Release(t))
        /\ WF_vars(FutexWake(t))

Spec == Init /\ [][Next]_vars

FairSpec == Spec /\ Fairness

-----------------------------------------------------------------------------
Holders == {t \in Threads : pc[t] = "critical"}

(* The lock word agrees with the critical section: at most one thread is   *)
(* between the return of acquire and its release, and the word is 1        *)
(* exactly then.  (Exchange overwrites a 1 by a 1 while it loses.)         *)
MutualExclusion ==
    /\ \A t, u \in Holders : t = u
    /\ word = 1 <=> Holders # {}

(* No sleeper is stranded: while threads sleep and the word is free, some  *)
(* thread is still to issue the wake or to run the exchange again.  This   *)
(* is what lets release use a word without a waiters bit.                  *)
NoLostWakeup ==
    waiters # {} /\ word = 0 => \E t \in Threads : pc[t] \in {"wake", "exchange"}

(* The acquire/release pair is an abstract lock.                           *)
Lock == INSTANCE AbstractLock
          WITH wanting <- {t \in Threads : pc[t] \in {"exchange", "wait", "asleep"}},
               holding <- Holders

ImplementsLock == Lock!Spec

(* If the lock stays free for ever, every sleeper gets out of the kernel:  *)
(* releases cannot all be over while a thread still sleeps on a free lock. *)
SleepersLeaveFreeLock == [](([](word = 0)) => <>(waiters = {}))
=============================================================================
