--------------------------- MODULE FutexLockProof ---------------------------
(***************************************************************************)
(* Proofs about FutexLock for every set of threads.  TypeOK and            *)
(* MutualExclusion are proved first; together with NoLostWakeup they are   *)
(* inductive, so no further strengthening is needed.  The refinement of    *)
(* AbstractLock rests on MutualExclusion: Exchange reads a word, Grant     *)
(* needs to know that nobody holds the lock.                               *)
(***************************************************************************)
EXTENDS FutexLock, TLAPS

(* The inductive invariant.                                                *)
IInv == TypeOK /\ MutualExclusion /\ NoLostWakeup

(* Nobody holds or waits in the initial state.                             *)
LEMMA InitIInv == Init => IInv
  BY DEF Init, IInv, TypeOK, MutualExclusion, NoLostWakeup, Holders, PCs

(* Every step of acquire, release and the kernel keeps the kernel's queue  *)
(* equal to the set of sleeping threads.                                   *)
LEMMA TypeStep == TypeOK /\ [Next]_vars => TypeOK'
<1> SUFFICES ASSUME TypeOK, [Next]_vars PROVE TypeOK'
  OBVIOUS
<1> USE DEF TypeOK, PCs
<1>1. ASSUME NEW t \in Threads, Enter(t) PROVE TypeOK'
  BY <1>1 DEF Enter
<1>2. ASSUME NEW t \in Threads, Exchange(t) PROVE TypeOK'
  BY <1>2 DEF Exchange
<1>3. ASSUME NEW t \in Threads, FutexWait(t) PROVE TypeOK'
  BY <1>3 DEF FutexWait
<1>4. ASSUME NEW t \in Threads, Interrupt(t) PROVE TypeOK'
  BY <1>4 DEF Interrupt
<1>5. ASSUME NEW t \in Threads, Release(t) PROVE TypeOK'
  BY <1>5 DEF Release
<1>6. ASSUME NEW t \in Threads, FutexWake(t) PROVE TypeOK'
  <2>1. CASE waiters = {}
    BY <1>6, <2>1 DEF FutexWake
  <2>2. ASSUME NEW u \in waiters,
               pc' = [pc EXCEPT ![t] = "idle", ![u] = "exchange"],
               waiters' = waiters \ {u}
        PROVE  TypeOK'
    BY <1>6, <2>2 DEF FutexWake
  <2> QED BY <1>6, <2>1, <2>2 DEF FutexWake
<1>7. CASE UNCHANGED vars
  BY <1>7 DEF vars
<1> QED BY <1>1, <1>2, <1>3, <1>4, <1>5, <1>6, <1>7 DEF Next

(* Only the exchange that returns 0 creates a holder, and it does so when  *)
(* there is none; only the holder's own exchange clears the word.          *)
LEMMA MutexStep == TypeOK /\ MutualExclusion /\ [Next]_vars => MutualExclusion'
<1> SUFFICES ASSUME TypeOK, MutualExclusion, [Next]_vars PROVE MutualExclusion'
  OBVIOUS
<1> USE DEF TypeOK, PCs, MutualExclusion, Holders
<1>1. ASSUME NEW t \in Threads, Enter(t) PROVE MutualExclusion'
  <2>1. Holders' = Holders
    BY <1>1 DEF Enter
  <2> QED BY <1>1, <2>1 DEF Enter
<1>2. ASSUME NEW t \in Threads, Exchange(t) PROVE MutualExclusion'
  <2>1. CASE word = 0
    <3>1. Holders' = {t}
      BY <1>2, <2>1 DEF Exchange
    <3> QED BY <1>2, <2>1, <3>1 DEF Exchange
  <2>2. CASE word = 1
    <3>1. Holders' = Holders
      BY <1>2, <2>2 DEF Exchange
    <3> QED BY <1>2, <2>2, <3>1 DEF Exchange
  <2> QED BY <2>1, <2>2
<1>3. ASSUME NEW t \in Threads, FutexWait(t) PROVE MutualExclusion'
  <2>1. Holders' = Holders
    BY <1>3 DEF FutexWait
  <2> QED BY <1>3, <2>1 DEF FutexWait
<1>4. ASSUME NEW t \in Threads, Interrupt(t) PROVE MutualExclusion'
  <2>1. Holders' = Holders
    BY <1>4 DEF Interrupt
  <2> QED BY <1>4, <2>1 DEF Interrupt
<1>5. ASSUME NEW t \in Threads, Release(t) PROVE MutualExclusion'
  <2>1. Holders = {t}
    BY <1>5 DEF Release
  <2>2. Holders' = {}
    BY <1>5, <2>1 DEF Release
  <2> QED BY <1>5, <2>2 DEF Release
<1>6. ASSUME NEW t \in Threads, FutexWake(t) PROVE MutualExclusion'
  <2>1. Holders' = Holders
    BY <1>6 DEF FutexWake
  <2> QED BY <1>6, <2>1 DEF FutexWake
<1>7. CASE UNCHANGED vars
  BY <1>7 DEF vars
<1> QED BY <1>1, <1>2, <1>3, <1>4, <1>5, <1>6, <1>7 DEF Next

(* A thread that frees the word owes a wake call; a thread that issues the *)
(* wake hands the duty to the thread it wakes; a thread that runs the      *)
(* exchange on a free word takes the lock, so the word is not free.        *)
LEMMA WakeupStep ==
    TypeOK /\ MutualExclusion /\ NoLostWakeup /\ [Next]_vars => NoLostWakeup'
<1> SUFFICES ASSUME TypeOK, MutualExclusion, NoLostWakeup, [Next]_vars
             PROVE  NoLostWakeup'
  OBVIOUS
<1> USE DEF TypeOK, PCs, NoLostWakeup
<1>1. ASSUME NEW t \in Threads, Enter(t) PROVE NoLostWakeup'
  BY <1>1 DEF Enter
<1>2. ASSUME NEW t \in Threads, Exchange(t) PROVE NoLostWakeup'
  BY <1>2 DEF Exchange
<1>3. ASSUME NEW t \in Threads, FutexWait(t) PROVE NoLostWakeup'
  BY <1>3 DEF FutexWait
<1>4. ASSUME NEW t \in Threads, Interrupt(t) PROVE NoLostWakeup'
  BY <1>4 DEF Interrupt
<1>5. ASSUME NEW t \in Threads, Release(t) PROVE NoLostWakeup'
  <2>1. word # 0
    BY <1>5 DEF Release, MutualExclusion, Holders
  <2> QED BY <1>5, <2>1 DEF Release
<1>6. ASSUME NEW t \in Threads, FutexWake(t) PROVE NoLostWakeup'
  <2>1. CASE waiters = {}
    BY <1>6, <2>1 DEF FutexWake
  <2>2. ASSUME NEW u \in waiters,
               pc' = [pc EXCEPT ![t] = "idle", ![u] = "exchange"],
               waiters' = waiters \ {u}
        PROVE  NoLostWakeup'
    <3>1. pc'[u] = "exchange"
      BY <1>6, <2>2 DEF FutexWake
    <3> QED BY <3>1, <2>2
  <2> QED BY <1>6, <2>1, <2>2 DEF FutexWake
<1>7. CASE UNCHANGED vars
  BY <1>7 DEF vars
<1> QED BY <1>1, <1>2, <1>3, <1>4, <1>5, <1>6, <1>7 DEF Next

(* The whole inductive invariant holds of every behaviour.                 *)
LEMMA Invariance == Spec => []IInv
<1>1. Init => IInv
  BY InitIInv
<1>2. IInv /\ [Next]_vars => IInv'
  BY TypeStep, MutexStep, WakeupStep DEF IInv
<1> QED BY <1>1, <1>2, PTL DEF Spec

(* Type correctness: the kernel's queue is the set of sleeping threads, at *)
(* every step of mini_futex_lock_acquire and mini_futex_lock_release.      *)
THEOREM TypeCorrect == Spec => []TypeOK
  BY Invariance, PTL DEF IInv

(* mini_futex_lock_acquire returns to one thread at a time, and the word   *)
(* says whether it has.                                                    *)
THEOREM MutualExclusionHolds == Spec => []MutualExclusion
  BY Invariance, PTL DEF IInv

(* No thread is left in FUTEX_WAIT on a free word with nobody due to wake  *)
(* it or to take the lock, although the word has no waiters bit.           *)
THEOREM NoLostWakeupHolds == Spec => []NoLostWakeup
  BY Invariance, PTL DEF IInv

-----------------------------------------------------------------------------
(* Every step of the lock is a step of the abstract lock or leaves it      *)
(* alone.                                                                  *)
LEMMA StepRefines == TypeOK /\ MutualExclusion /\ [Next]_vars => [Lock!Next]_(Lock!vars)
<1> DEFINE W == {t \in Threads : pc[t] \in {"exchange", "wait", "asleep"}}
<1> SUFFICES ASSUME TypeOK, MutualExclusion, [Next]_vars
             PROVE  [Lock!Next]_(Lock!vars)
  OBVIOUS
<1> USE DEF TypeOK, PCs, Holders
<1>1. ASSUME NEW t \in Threads, Enter(t) PROVE Lock!Ask(t)
  <2>1. W' = W \cup {t} /\ t \notin W \cup Holders
    BY <1>1 DEF Enter
  <2>2. Holders' = Holders
    BY <1>1 DEF Enter
  <2> QED BY <2>1, <2>2 DEF Lock!Ask
<1>2. ASSUME NEW t \in Threads, Exchange(t)
      PROVE  Lock!Grant(t) \/ UNCHANGED Lock!vars
  <2>1. CASE word = 0
    <3>1. Holders = {} /\ t \in W
      BY <1>2, <2>1 DEF Exchange, MutualExclusion
    <3>2. Holders' = {t}
      BY <1>2, <2>1, <3>1 DEF Exchange
    <3>3. W' = W \ {t}
      BY <1>2, <2>1 DEF Exchange
    <3> QED BY <3>1, <3>2, <3>3 DEF Lock!Grant
  <2>2. CASE word = 1
    <3>1. W' = W /\ Holders' = Holders
      BY <1>2, <2>2 DEF Exchange
    <3> QED BY <3>1 DEF Lock!vars
  <2> QED BY <2>1, <2>2
<1>3. ASSUME NEW t \in Threads, FutexWait(t) PROVE UNCHANGED Lock!vars
  <2>1. W' = W /\ Holders' = Holders
    BY <1>3 DEF FutexWait
  <2> QED BY <2>1 DEF Lock!vars
<1>4. ASSUME NEW t \in Threads, Interrupt(t) PROVE UNCHANGED Lock!vars
  <2>1. W' = W /\ Holders' = Holders
    BY <1>4 DEF Interrupt
  <2> QED BY <2>1 DEF Lock!vars
<1>5. ASSUME NEW t \in Threads, Release(t) PROVE Lock!GiveBack(t)
  <2>1. t \in Holders /\ Holders' = Holders \ {t}
    BY <1>5 DEF Release
  <2>2. W' = W
    BY <1>5 DEF Release
  <2> QED BY <2>1, <2>2 DEF Lock!GiveBack
<1>6. ASSUME NEW t \in Threads, FutexWake(t) PROVE UNCHANGED Lock!vars
  <2>1. CASE waiters = {}
    <3>1. W' = W /\ Holders' = Holders
      BY <1>6, <2>1 DEF FutexWake
    <3> QED BY <3>1 DEF Lock!vars
  <2>2. ASSUME NEW u \in waiters,
               pc' = [pc EXCEPT ![t] = "idle", ![u] = "exchange"]
        PROVE  UNCHANGED Lock!vars
    <3>1. W' = W /\ Holders' = Holders
      BY <1>6, <2>2 DEF FutexWake
    <3> QED BY <3>1 DEF Lock!vars
  <2> QED BY <1>6, <2>1, <2>2 DEF FutexWake
<1>7. CASE UNCHANGED vars
  <2>1. W' = W /\ Holders' = Holders
    BY <1>7 DEF vars
  <2> QED BY <2>1 DEF Lock!vars
<1> QED BY <1>1, <1>2, <1>3, <1>4, <1>5, <1>6, <1>7 DEF Next, Lock!Next

(* mini_futex_lock implements the abstract lock: users of the lock may be  *)
(* modelled with critical sections that start when nobody is inside.       *)
THEOREM RefinesLock == Spec => ImplementsLock
<1>1. Init => Lock!Init
  BY DEF Init, Lock!Init, Holders
<1>2. TypeOK /\ MutualExclusion /\ [Next]_vars => [Lock!Next]_(Lock!vars)
  BY StepRefines
<1> QED BY <1>1, <1>2, TypeCorrect, MutualExclusionHolds, PTL
        DEF Spec, ImplementsLock, Lock!Spec
=============================================================================
