--------------------------- MODULE ConditionProof ---------------------------
(***************************************************************************)
(* Proofs about mtx_t and cnd_t used together (module Condition, which     *)
(* takes every step of module Mutex), for every set of threads, every      *)
(* mutex type, every DepthMax and every MaxSignals.                        *)
(*                                                                         *)
(* OwnershipAgrees speaks of threads between calls; the inductive          *)
(* invariant IInv says what state, owner and depth are at each program     *)
(* counter of the holder, and that a thread which waits on the condition   *)
(* executes no mutex call.  The refinement of AbstractMutex follows from   *)
(* it.  WaitKeepsOwnership needs EntryInv on top, what each phase of a     *)
(* wait knows of its caller's hold, and NoMissedBroadcast needs            *)
(* SequenceInv, how the values read from the sequence relate to it.        *)
(***************************************************************************)
EXTENDS Condition, FiniteSetTheorems, TLAPS

(* Where only a holder can be, and where only a thread without the mutex.  *)
HolderPCs == {"recurse", "setowner", "setdepth", "depth", "clearowner", "clearstate"}

OutsidePCs == {"exchange", "wait", "asleep", "wake"}

(* Between the winning exchange and the store of owner, and between the    *)
(* store that clears owner and the last exchange, owner is 0; depth is 0   *)
(* for one step longer on either side.                                     *)
Anonymous == {"setowner", "clearstate"}

Uncounted == {"setowner", "setdepth", "clearowner", "clearstate"}

HolderInv(t) ==
    /\ call[t].pc \notin OutsidePCs
    /\ owner = (IF call[t].pc \in Anonymous THEN NoThread ELSE t)
    /\ depth = (IF call[t].pc \in Uncounted THEN 0 ELSE held[t])
    /\ call[t].pc \in Uncounted => held[t] = 1

WordsInv ==
    /\ \A t, u \in Threads : held[t] > 0 /\ held[u] > 0 => t = u
    /\ state = 1 <=> \E t \in Threads : held[t] > 0
    /\ state = 0 => owner = NoThread /\ depth = 0
    /\ \A t \in Threads :
        /\ held[t] > 0 => HolderInv(t)
        /\ call[t].pc \in HolderPCs => held[t] > 0
        /\ call[t].pc = "recurse" => Recursive

(* A thread inside cnd_wait, cnd_signal or cnd_broadcast is outside the    *)
(* mutex functions, except while it waits for one of them to return.       *)
Quiet == {"load", "wait", "asleep", "bump", "wakeone", "wakeall"}

QuietInv == \A t \in Threads : cnd[t].pc \in Quiet => call[t].pc = "idle"

CondShape ==
    /\ seq \in Nat
    /\ cnd \in [Threads -> [pc : CondPCs,
                           op : {"plain", "timed", "expired", "one", "all"},
                           expected : Nat, since : Nat, entry : Nat]]

MInv == MutexTypeOK /\ WordsInv

IInv == MInv /\ CondShape /\ QuietInv

-----------------------------------------------------------------------------
(* The mutex functions store only values of the right type.                *)
LEMMA MutexTypeStep ==
    ASSUME NEW t \in Threads, MutexTypeOK, WordsInv, MutexStep(t)
    PROVE  MutexTypeOK'
<1> USE MutexConstants DEF MutexTypeOK, MutexPCs, Ops, Results, At, Goto, Return,
        Answer, NoCall
<1>1. CASE LoadState(t)
  BY <1>1 DEF LoadState, NotOwned
<1>2. CASE LoadOwner(t)
  BY <1>2 DEF LoadOwner, NotOwned, Owned
<1>3. CASE Recurse(t)
  BY <1>3 DEF Recurse, WordsInv, HolderInv, Uncounted, HolderPCs
<1>4. CASE Exchange(t)
  BY <1>4 DEF Exchange
<1>5. CASE SetOwner(t)
  BY <1>5 DEF SetOwner
<1>6. CASE SetDepth(t)
  BY <1>6 DEF SetDepth
<1>7. CASE Wait(t)
  BY <1>7 DEF Wait
<1>8. CASE Interrupt(t)
  BY <1>8 DEF Interrupt
<1>9. CASE Timeout(t)
  BY <1>9 DEF Timeout
<1>10. CASE UnlockDepth(t)
  BY <1>10 DEF UnlockDepth, WordsInv, HolderInv, Uncounted, HolderPCs
<1>11. CASE ClearOwner(t)
  BY <1>11 DEF ClearOwner
<1>12. CASE ClearState(t)
  BY <1>12 DEF ClearState
<1>13. CASE Wake(t)
  BY SMTT(40), <1>13 DEF Wake, Sleepers
<1> QED BY <1>1, <1>2, <1>3, <1>4, <1>5, <1>6, <1>7, <1>8, <1>9, <1>10,
           <1>11, <1>12, <1>13 DEF MutexStep

(* Every load, store and exchange keeps the three words in agreement with  *)
(* who holds the mutex.                                                    *)
LEMMA MutexWordsStep ==
    ASSUME NEW t \in Threads, MutexTypeOK, WordsInv, MutexStep(t)
    PROVE  WordsInv'
<1> USE MutexConstants DEF MutexTypeOK, MutexPCs, Ops, Results, At, Goto, Return,
        Answer, NoCall, WordsInv, HolderInv, HolderPCs, OutsidePCs, Anonymous,
        Uncounted
<1>1. CASE LoadState(t)
  BY <1>1 DEF LoadState, NotOwned
<1>2. CASE LoadOwner(t)
  BY <1>2 DEF LoadOwner, NotOwned, Owned
<1>3. CASE Recurse(t)
  BY <1>3 DEF Recurse
<1>4. CASE Exchange(t)
  BY <1>4 DEF Exchange
<1>5. CASE SetOwner(t)
  BY <1>5 DEF SetOwner
<1>6. CASE SetDepth(t)
  BY <1>6 DEF SetDepth
<1>7. CASE Wait(t)
  BY <1>7 DEF Wait
<1>8. CASE Interrupt(t)
  BY <1>8 DEF Interrupt
<1>9. CASE Timeout(t)
  BY <1>9 DEF Timeout
<1>10. CASE UnlockDepth(t)
  BY <1>10 DEF UnlockDepth
<1>11. CASE ClearOwner(t)
  BY <1>11 DEF ClearOwner
<1>12. CASE ClearState(t)
  BY <1>12 DEF ClearState
<1>13. CASE Wake(t)
  BY <1>13 DEF Wake, Sleepers
<1> QED BY <1>1, <1>2, <1>3, <1>4, <1>5, <1>6, <1>7, <1>8, <1>9, <1>10,
           <1>11, <1>12, <1>13 DEF MutexStep

(* A step that only begins calls of threads outside the mutex functions,   *)
(* or takes back the answer of such a call.                                *)
Framed ==
    /\ UNCHANGED <<state, owner, depth, held>>
    /\ call' \in [Threads -> [pc : MutexPCs, op : Ops, res : Results,
                              by : {"program", "wait"}]]
    /\ \A u \in Threads :
         \/ call'[u] = call[u]
         \/ call[u].pc = "idle" /\ call'[u].pc \in {"idle", "loadstate"}

(* Such a step disturbs neither the words nor the holder.                  *)
LEMMA Frame ==
    ASSUME MInv, Framed
    PROVE  MInv'
<1>1. MutexTypeOK'
  BY DEF Framed, MInv, MutexTypeOK
<1>2. \A u \in Threads :
         call'[u].pc = call[u].pc
         \/ (call[u].pc = "idle" /\ call'[u].pc \in {"idle", "loadstate"})
  BY DEF Framed
<1>3. \A u \in Threads : held[u] > 0 => HolderInv(u)'
  BY <1>2 DEF Framed, MInv, WordsInv, HolderInv, OutsidePCs, Anonymous, Uncounted
<1>4. WordsInv'
  BY <1>2, <1>3 DEF Framed, MInv, WordsInv, HolderPCs
<1> QED BY <1>1, <1>4 DEF MInv

(* The program may begin a mutex call only for a thread that executes none.*)
LEMMA CallFramed ==
    ASSUME NEW t \in Threads, NEW op \in Ops, MInv, Call(t, op)
    PROVE  Framed
  BY DEF Call, Begin, At, MInv, MutexTypeOK, MutexPCs, Results, Framed

(* The steps of cnd_wait, cnd_signal and cnd_broadcast begin and end mutex *)
(* calls only for threads that execute none.                               *)
LEMMA CondFramed ==
    ASSUME NEW t \in Threads, IInv, CondStep(t)
    PROVE  Framed
<1> USE DEF IInv, MInv, MutexTypeOK, QuietInv, CondShape, Quiet, CondAt, At, Framed
<1> USE DEF Ops, Results, MutexPCs
<1>a. ASSUME UNCHANGED call, UNCHANGED <<state, owner, depth, held>> PROVE Framed
  BY <1>a
<1>b. ASSUME call[t].pc = "idle", NEW op \in Ops, call' = Enter(t, op),
             UNCHANGED <<state, owner, depth, held>>
      PROVE  Framed
  BY <1>b DEF Enter, Begin
<1>c. ASSUME call[t].pc = "idle", call' = [call EXCEPT ![t] = NoCall],
             UNCHANGED <<state, owner, depth, held>>
      PROVE  Framed
  BY <1>c DEF NoCall
<1>1. CASE LoadSequence(t)
  BY <1>b, <1>1 DEF LoadSequence
<1>2. CASE Unlocked(t)
  BY <1>a, <1>b, <1>c, <1>2 DEF Unlocked
<1>3. CASE CondSleep(t)
  BY <1>a, <1>b, <1>3 DEF CondSleep, Relock
<1>4. CASE CondInterrupt(t)
  BY <1>a, <1>4 DEF CondInterrupt, mutexVars
<1>5. CASE CondTimeout(t)
  BY <1>b, <1>5 DEF CondTimeout, Relock
<1>6. CASE CondReturn(t)
  BY <1>c, <1>6 DEF CondReturn
<1>7. CASE Bump(t)
  BY <1>a, <1>7 DEF Bump, mutexVars
<1>8. ASSUME NEW set \in SUBSET CondSleepers, Woken(t, set),
             UNCHANGED <<state, owner, depth, held>>
      PROVE  Framed
  BY <1>8 DEF Woken, CondSleepers, Begin
<1>9. CASE WakeOne(t)
  <2>1. {} \in SUBSET CondSleepers /\ \A u \in CondSleepers : {u} \in SUBSET CondSleepers
    OBVIOUS
  <2> QED BY <1>8, <1>9, <2>1 DEF WakeOne
<1>10. CASE WakeAll(t)
  BY <1>8, <1>10 DEF WakeAll
<1> QED BY <1>1, <1>2, <1>3, <1>4, <1>5, <1>6, <1>7, <1>9, <1>10 DEF CondStep

(* The condition's functions store only values of the right type.          *)
LEMMA ShapeStep == IInv /\ [Next]_vars => CondShape'
<1> SUFFICES ASSUME CondShape, held \in [Threads -> Nat], [Next]_vars PROVE CondShape'
  BY MutexConstants DEF IInv, MInv, MutexTypeOK
<1> DEFINE Rec == [pc : CondPCs, op : {"plain", "timed", "expired", "one", "all"},
                   expected : Nat, since : Nat, entry : Nat]
<1> USE DEF CondAt, CondGoto, CondPCs
<1>1. ASSUME UNCHANGED <<seq, cnd>> PROVE CondShape'
  BY <1>1 DEF CondShape
<1>2. ASSUME NEW t \in Threads, NEW r \in Rec, cnd' = [cnd EXCEPT ![t] = r], seq' \in Nat
      PROVE  CondShape'
  BY <1>2 DEF CondShape
<1>3. ASSUME NEW t \in Threads, CondStep(t) PROVE CondShape'
  <2>0. cnd[t] \in Rec /\ seq \in Nat /\ NoWait \in Rec
    BY DEF CondShape, NoWait
  <2>1. CASE LoadSequence(t)
    BY <1>2, <2>0, <2>1 DEF LoadSequence, CondShape
  <2>2. CASE Unlocked(t)
    BY <1>2, <2>0, <2>2 DEF Unlocked, CondShape
  <2>3. CASE CondSleep(t)
    BY <1>2, <2>0, <2>3 DEF CondSleep, Relock, CondShape
  <2>4. CASE CondInterrupt(t)
    BY <1>2, <2>0, <2>4 DEF CondInterrupt, CondShape
  <2>5. CASE CondTimeout(t)
    BY <1>2, <2>0, <2>5 DEF CondTimeout, Relock, CondShape
  <2>6. CASE CondReturn(t)
    BY <1>2, <2>0, <2>6 DEF CondReturn, CondShape
  <2>7. CASE Bump(t)
    BY <1>2, <2>0, <2>7 DEF Bump, CondShape
  <2>8. ASSUME NEW set, Woken(t, set), seq' = seq PROVE CondShape'
    BY <2>0, <2>8 DEF Woken, CondShape
  <2>9. CASE WakeOne(t)
    BY <2>8, <2>9 DEF WakeOne
  <2>10. CASE WakeAll(t)
    BY <2>8, <2>10 DEF WakeAll
  <2> QED BY <1>3, <2>1, <2>2, <2>3, <2>4, <2>5, <2>6, <2>7, <2>9, <2>10 DEF CondStep
<1>4. ASSUME NEW t \in Threads, NEW op \in {"plain", "timed", "expired"}, CondWait(t, op)
      PROVE  CondShape'
  BY <1>2, <1>4 DEF CondWait, CondShape, NoWait
<1>5. ASSUME NEW t \in Threads, NEW op \in {"one", "all"}, Notify(t, op)
      PROVE  CondShape'
  BY <1>2, <1>5 DEF Notify, CondShape, NoWait
<1> QED BY <1>1, <1>3, <1>4, <1>5 DEF Next, vars, condVars

(* A thread inside a condition call executes a mutex call only while that  *)
(* call waits for mtx_unlock or mtx_lock.                                  *)
LEMMA QuietStep == IInv /\ [Next]_vars => QuietInv'
<1> SUFFICES ASSUME CondShape, QuietInv, MutexTypeOK, [Next]_vars PROVE QuietInv'
  BY DEF IInv, MInv
<1> USE DEF CondShape, QuietInv, Quiet, CondAt, At, CondGoto, NoWait, NoCall, Enter, Begin
<1>1. ASSUME NEW t \in Threads, MutexStep(t), UNCHANGED condVars PROVE QuietInv'
  <2>1. \A u \in Threads : call[u].pc = "idle" => call'[u].pc = "idle"
    <3> USE DEF Goto, Return, Answer, MutexTypeOK
    <3>1. CASE Wake(t)
      BY <3>1 DEF Wake, Sleepers
    <3>2. CASE ~Wake(t)
      <4>1. call[t].pc # "idle" /\ \A u \in Threads \ {t} : call'[u] = call[u]
        BY <1>1, <3>2 DEF MutexStep, LoadState, LoadOwner, Owned, NotOwned, Recurse,
           Exchange, SetOwner, SetDepth, Wait, Interrupt, Timeout, UnlockDepth,
           ClearOwner, ClearState
      <4> QED BY <4>1
    <3> QED BY <3>1, <3>2
  <2> QED BY <1>1, <2>1 DEF condVars
<1>2. ASSUME NEW t \in Threads, NEW op \in Ops, CondAt(t, "none"), Call(t, op),
             UNCHANGED condVars
      PROVE  QuietInv'
  BY <1>2 DEF Call, condVars, MutexTypeOK
<1>3. ASSUME NEW t \in Threads, CondStep(t) PROVE QuietInv'
  <2> USE DEF MutexTypeOK
  <2>1. CASE LoadSequence(t)
    BY <2>1 DEF LoadSequence
  <2>2. CASE Unlocked(t)
    BY <2>2 DEF Unlocked
  <2>3. CASE CondSleep(t)
    BY <2>3 DEF CondSleep, Relock
  <2>4. CASE CondInterrupt(t)
    BY <2>4 DEF CondInterrupt, mutexVars
  <2>5. CASE CondTimeout(t)
    BY <2>5 DEF CondTimeout, Relock
  <2>6. CASE CondReturn(t)
    BY <2>6 DEF CondReturn
  <2>7. CASE Bump(t)
    BY <2>7 DEF Bump, mutexVars
  <2>8. ASSUME NEW set, Woken(t, set) PROVE QuietInv'
    BY <2>8 DEF Woken
  <2>9. CASE WakeOne(t)
    BY <2>8, <2>9 DEF WakeOne
  <2>10. CASE WakeAll(t)
    BY <2>8, <2>10 DEF WakeAll
  <2> QED BY <1>3, <2>1, <2>2, <2>3, <2>4, <2>5, <2>6, <2>7, <2>9, <2>10 DEF CondStep
<1>4. ASSUME NEW t \in Threads, NEW op \in {"plain", "timed", "expired"}, CondWait(t, op)
      PROVE  QuietInv'
  BY <1>4 DEF CondWait, Free, mutexVars
<1>5. ASSUME NEW t \in Threads, NEW op \in {"one", "all"}, Notify(t, op)
      PROVE  QuietInv'
  BY <1>5 DEF Notify, Free, mutexVars
<1>6. CASE UNCHANGED vars
  BY <1>6 DEF vars, mutexVars, condVars
<1> QED BY <1>1, <1>2, <1>3, <1>4, <1>5, <1>6 DEF Next

(* Every step of the mutex, the condition and the program keeps the three  *)
(* words in agreement with the holder.                                     *)
LEMMA WordsStep == IInv /\ [Next]_vars => MInv'
<1> SUFFICES ASSUME IInv, [Next]_vars PROVE MInv'
  OBVIOUS
<1> USE DEF IInv
<1>1. ASSUME NEW t \in Threads, MutexStep(t) PROVE MInv'
  BY <1>1, MutexTypeStep, MutexWordsStep DEF MInv
<1>2. ASSUME NEW t \in Threads, NEW op \in Ops, Call(t, op) PROVE MInv'
  BY <1>2, CallFramed, Frame
<1>3. ASSUME NEW t \in Threads, CondStep(t) PROVE MInv'
  BY <1>3, CondFramed, Frame
<1>4. ASSUME UNCHANGED mutexVars PROVE MInv'
  BY <1>4 DEF mutexVars, MInv, MutexTypeOK, WordsInv, HolderInv
<1>5. ASSUME NEW t \in Threads,
             (\E op \in {"plain", "timed", "expired"} : CondWait(t, op))
                \/ \E op \in {"one", "all"} : Notify(t, op)
      PROVE  UNCHANGED mutexVars
  BY <1>5 DEF CondWait, Notify, mutexVars
<1> QED BY <1>1, <1>2, <1>3, <1>4, <1>5 DEF Next, vars

(* The whole inductive invariant holds of every behaviour.                 *)
LEMMA Invariance == Spec => []IInv
<1>1. Init => IInv
  BY MutexConstants DEF Init, MutexInit, NoCall, NoWait, IInv, MInv, MutexTypeOK, WordsInv,
     HolderInv, CondShape, QuietInv, Quiet, MutexPCs, Ops, Results, CondPCs, HolderPCs
<1>2. IInv /\ [Next]_vars => IInv'
  BY WordsStep, ShapeStep, QuietStep DEF IInv
<1> QED BY <1>1, <1>2, PTL DEF Spec

(* mtx_lock, mtx_timedlock, mtx_trylock, mtx_unlock and the calls cnd_wait *)
(* makes of them: state, owner and depth name the one thread that holds    *)
(* the mutex and how often, whatever the interleaving of their accesses.   *)
THEOREM OwnershipAgreesHolds == Spec => []OwnershipAgrees
<1>1. IInv => OwnershipAgrees
  BY MutexConstants DEF IInv, MInv, MutexTypeOK, WordsInv, HolderInv, OwnershipAgrees, At,
     Anonymous, Uncounted
<1> QED BY <1>1, Invariance, PTL

-----------------------------------------------------------------------------
(* The results of the mutex calls are those of an atomic mutex: a call     *)
(* that reports success acquires or releases, every other step changes     *)
(* nothing that a caller can see.                                          *)
LEMMA StepRefines ==
    ASSUME IInv, [Next]_vars
    PROVE  [Abstract!Next]_held
<1> USE MutexConstants DEF IInv, MInv, MutexTypeOK
<1>1. ASSUME NEW t \in Threads, Recurse(t) PROVE Abstract!Acquire(t) \/ UNCHANGED held
  <2>1. Recursive /\ held[t] > 0 /\ depth = held[t]
    BY <1>1 DEF Recurse, At, WordsInv, HolderInv, HolderPCs, Uncounted
  <2>2. \A u \in Threads \ {t} : held[u] = 0
    BY <2>1 DEF WordsInv
  <2> QED BY <1>1, <2>1, <2>2 DEF Recurse, Abstract!Acquire
<1>2. ASSUME NEW t \in Threads, Exchange(t) PROVE Abstract!Acquire(t) \/ UNCHANGED held
  <2>1. CASE state = 0
    <3>1. \A u \in Threads : held[u] = 0
      BY <2>1 DEF WordsInv
    <3> QED BY <1>2, <2>1, <3>1 DEF Exchange, Abstract!Acquire
  <2>2. CASE state # 0
    BY <1>2, <2>2 DEF Exchange
  <2> QED BY <2>1, <2>2
<1>3. ASSUME NEW t \in Threads, UnlockDepth(t) PROVE Abstract!Release(t) \/ UNCHANGED held
  <2>1. held[t] > 0
    BY <1>3 DEF UnlockDepth, At, WordsInv, HolderPCs
  <2> QED BY <1>3, <2>1 DEF UnlockDepth, Abstract!Release
<1>4. ASSUME NEW t \in Threads, ClearState(t) PROVE Abstract!Release(t) \/ UNCHANGED held
  <2>1. held[t] = 1
    BY <1>4 DEF ClearState, At, WordsInv, HolderInv, HolderPCs, Uncounted
  <2> QED BY <1>4, <2>1 DEF ClearState, Abstract!Release
<1>5. ASSUME NEW t \in Threads, MutexStep(t)
      PROVE  Abstract!Acquire(t) \/ Abstract!Release(t) \/ UNCHANGED held
  BY <1>1, <1>2, <1>3, <1>4, <1>5 DEF MutexStep, LoadState, LoadOwner, SetOwner,
     SetDepth, Wait, Interrupt, Timeout, ClearOwner, Wake
<1>6. ASSUME NEW t \in Threads, CondStep(t) PROVE UNCHANGED held
  BY <1>6 DEF CondStep, LoadSequence, Unlocked, CondSleep, CondInterrupt, CondTimeout,
     CondReturn, Bump, WakeOne, WakeAll, mutexVars
<1>7. ASSUME NEW t \in Threads, NEW op \in Ops, Call(t, op) PROVE UNCHANGED held
  BY <1>7 DEF Call
<1>8. ASSUME NEW t \in Threads,
             (\E op \in {"plain", "timed", "expired"} : CondWait(t, op))
                \/ \E op \in {"one", "all"} : Notify(t, op)
      PROVE  UNCHANGED held
  BY <1>8 DEF CondWait, Notify, mutexVars
<1> QED BY <1>5, <1>6, <1>7, <1>8 DEF Next, vars, mutexVars, Abstract!Next

(* mtx_t with cnd_t on top of it implements the abstract mutex of          *)
(* AbstractMutex, counting a call when it reports success.                 *)
THEOREM RefinesMutex == Spec => ImplementsMutex
<1>1. Init => Abstract!Init
  BY DEF Init, MutexInit, Abstract!Init
<1>2. IInv /\ [Next]_vars => [Abstract!Next]_held
  BY StepRefines
<1> QED BY <1>1, <1>2, Invariance, PTL DEF Spec, ImplementsMutex, Abstract!Spec

-----------------------------------------------------------------------------
(* What a wait knows of its caller's hold on the mutex in each phase of    *)
(* wait_common: inside mtx_unlock, asleep or about to sleep, and inside    *)
(* mtx_lock.  "Short" is one acquisition less than on entry.               *)
Full(t) == held[t] = cnd[t].entry

Short(t) == held[t] + 1 = cnd[t].entry

UnlockInv(t) ==
    \/ call[t].pc = "idle" /\ (call[t].res = "success" => Short(t))
    \/ /\ call[t].op = "unlock" /\ call[t].by = "wait"
       /\ \/ Full(t) /\ call[t].pc \in {"loadstate", "loadowner", "depth",
                                        "clearowner", "clearstate"}
          \/ Short(t) /\ call[t].pc = "wake"

RelockInv(t) ==
    \/ call[t].pc = "idle" /\ (call[t].res = "error" \/ Full(t))
    \/ /\ call[t].op = "lock" /\ call[t].by = "wait"
       /\ \/ Full(t) /\ call[t].pc \in {"setowner", "setdepth"}
          \/ Short(t) /\ call[t].pc \in {"loadstate", "loadowner", "recurse",
                                         "exchange", "wait", "asleep"}

EntryInv ==
    \A t \in Threads :
        /\ cnd[t].pc = "load" => Full(t)
        /\ cnd[t].pc = "unlock" => UnlockInv(t)
        /\ cnd[t].pc \in {"wait", "asleep"} => Short(t)
        /\ cnd[t].pc = "relock" => RelockInv(t)

(* A step of a mutex function moves only its own thread, apart from the    *)
(* sleeper that a wake call moves back to the exchange.                    *)
LEMMA OthersStay ==
    ASSUME NEW t \in Threads, MutexTypeOK, MutexStep(t), NEW u \in Threads \ {t}
    PROVE  /\ held'[u] = held[u]
           /\ \/ call'[u] = call[u]
              \/ /\ call[u].pc = "asleep"
                 /\ call'[u].pc = "exchange"
                 /\ call'[u].op = call[u].op /\ call'[u].by = call[u].by
<1> USE DEF MutexTypeOK, Goto, Return
<1>1. CASE Wake(t)
  BY <1>1 DEF Wake, Sleepers, At
<1>2. CASE ~Wake(t)
  BY <1>2 DEF MutexStep, LoadState, LoadOwner, Owned, NotOwned, Recurse, Exchange,
     SetOwner, SetDepth, Wait, Interrupt, Timeout, UnlockDepth, ClearOwner, ClearState
<1> QED BY <1>1, <1>2

(* The mutex calls of a wait: mtx_unlock gives up one acquisition when it  *)
(* succeeds, mtx_lock regains one or fails.                                *)
LEMMA MutexEntryStep ==
    ASSUME NEW t \in Threads, IInv, EntryInv, MutexStep(t), UNCHANGED condVars
    PROVE  EntryInv'
<1> USE MutexConstants DEF IInv, MInv, MutexTypeOK, EntryInv, condVars
<1>1. ASSUME NEW u \in Threads \ {t}
      PROVE  /\ cnd[u].pc = "load" => Full(u)'
             /\ cnd[u].pc = "unlock" => UnlockInv(u)'
             /\ cnd[u].pc \in {"wait", "asleep"} => Short(u)'
             /\ cnd[u].pc = "relock" => RelockInv(u)'
  BY OthersStay DEF Full, Short, UnlockInv, RelockInv
<1>2. call[t].pc # "idle"
  BY DEF MutexStep, At, LoadState, LoadOwner, Recurse, Exchange, SetOwner, SetDepth,
     Wait, Interrupt, Timeout, UnlockDepth, ClearOwner, ClearState, Wake
<1>3. cnd[t].pc \notin {"load", "wait", "asleep"}
  BY <1>2 DEF QuietInv, Quiet
<1>4. ASSUME cnd[t].pc = "unlock" PROVE UnlockInv(t)'
  <2> USE <1>4 DEF UnlockInv, Full, Short, At, Goto, Return, Answer, NoCall
  <2>1. CASE LoadState(t)
    BY <1>2, <2>1 DEF LoadState, NotOwned
  <2>2. CASE LoadOwner(t)
    BY <1>2, <2>2 DEF LoadOwner, NotOwned, Owned
  <2>3. CASE UnlockDepth(t)
    BY <1>2, <2>3 DEF UnlockDepth, WordsInv, HolderInv, HolderPCs, Uncounted
  <2>4. CASE ClearOwner(t)
    BY <1>2, <2>4 DEF ClearOwner
  <2>5. CASE ClearState(t)
    BY <1>2, <2>5 DEF ClearState, WordsInv, HolderInv, HolderPCs, Uncounted
  <2>6. CASE Wake(t)
    BY <1>2, <2>6 DEF Wake, Sleepers
  <2>7. CASE Recurse(t) \/ Exchange(t) \/ SetOwner(t) \/ SetDepth(t) \/ Wait(t)
             \/ Interrupt(t) \/ Timeout(t)
    BY <1>2, <2>7 DEF Recurse, Exchange, SetOwner, SetDepth, Wait, Interrupt, Timeout
  <2> QED BY <2>1, <2>2, <2>3, <2>4, <2>5, <2>6, <2>7 DEF MutexStep
<1>5. ASSUME cnd[t].pc = "relock" PROVE RelockInv(t)'
  <2> USE <1>5 DEF RelockInv, Full, Short, At, Goto, Return, Answer, NoCall
  <2>1. CASE LoadState(t)
    BY <1>2, <2>1 DEF LoadState, NotOwned
  <2>2. CASE LoadOwner(t)
    BY <1>2, <2>2 DEF LoadOwner, NotOwned, Owned
  <2>3. CASE Recurse(t)
    BY <1>2, <2>3 DEF Recurse
  <2>4. CASE Exchange(t)
    <3>1. held[t] = 0
      BY <2>4 DEF Exchange, WordsInv, HolderInv, OutsidePCs
    <3> QED BY <1>2, <2>4, <3>1 DEF Exchange
  <2>5. CASE SetOwner(t)
    BY <1>2, <2>5 DEF SetOwner
  <2>6. CASE SetDepth(t)
    BY <1>2, <2>6 DEF SetDepth
  <2>7. CASE Wait(t)
    BY <1>2, <2>7 DEF Wait
  <2>8. CASE Interrupt(t)
    BY <1>2, <2>8 DEF Interrupt
  <2>9. CASE Timeout(t) \/ UnlockDepth(t) \/ ClearOwner(t) \/ ClearState(t) \/ Wake(t)
    BY <1>2, <2>9 DEF Timeout, UnlockDepth, ClearOwner, ClearState, Wake
  <2> QED BY <2>1, <2>2, <2>3, <2>4, <2>5, <2>6, <2>7, <2>8, <2>9 DEF MutexStep
<1> QED BY <1>1, <1>3, <1>4, <1>5

(* The steps of wait_common itself pass from one phase to the next only    *)
(* when the mutex function it called has returned.                         *)
LEMMA CondEntryStep ==
    ASSUME NEW t \in Threads, IInv, EntryInv, CondStep(t)
    PROVE  EntryInv'
<1> USE DEF IInv, MInv, MutexTypeOK, CondShape, QuietInv, Quiet, EntryInv, CondAt, At,
        Full, Short
<1>1. held' = held
  BY DEF CondStep, LoadSequence, Unlocked, CondSleep, CondInterrupt, CondTimeout,
     CondReturn, Bump, WakeOne, WakeAll, mutexVars
<1>2. ASSUME cnd' = [cnd EXCEPT ![t] = NoWait],
             \A u \in Threads \ {t} : call'[u] = call[u]
      PROVE  EntryInv'
  BY <1>1, <1>2 DEF NoWait, UnlockInv, RelockInv
<1>3. ASSUME Relock(t), Short(t) PROVE EntryInv'
  BY <1>1, <1>3 DEF Relock, CondGoto, Enter, Begin, UnlockInv, RelockInv
<1>4. CASE LoadSequence(t)
  BY <1>1, <1>4 DEF LoadSequence, Enter, Begin, UnlockInv, RelockInv
<1>5. CASE Unlocked(t)
  <2>1. call[t].res = "success" => Short(t)
    BY <1>5 DEF Unlocked, UnlockInv
  <2>2. CASE call[t].res # "success"
    BY <1>2, <1>5, <2>2 DEF Unlocked
  <2>3. CASE call[t].res = "success" /\ cnd[t].op = "expired"
    BY <1>1, <1>5, <2>1, <2>3 DEF Unlocked, Enter, Begin, UnlockInv, RelockInv
  <2>4. CASE call[t].res = "success" /\ cnd[t].op # "expired"
    BY <1>1, <1>5, <2>1, <2>4 DEF Unlocked, UnlockInv, RelockInv
  <2> QED BY <2>2, <2>3, <2>4
<1>6. CASE CondSleep(t)
  <2>1. CASE Relock(t)
    BY <1>3, <1>6, <2>1 DEF CondSleep
  <2>2. CASE CondGoto(t, "asleep") /\ UNCHANGED call
    BY <1>1, <1>6, <2>2 DEF CondSleep, CondGoto, UnlockInv, RelockInv
  <2> QED BY <1>6, <2>1, <2>2 DEF CondSleep
<1>7. CASE CondInterrupt(t)
  BY <1>1, <1>7 DEF CondInterrupt, CondGoto, mutexVars, UnlockInv, RelockInv
<1>8. CASE CondTimeout(t)
  BY <1>3, <1>8 DEF CondTimeout
<1>9. CASE CondReturn(t)
  BY <1>2, <1>9 DEF CondReturn
<1>10. CASE Bump(t)
  BY <1>1, <1>10 DEF Bump, mutexVars, UnlockInv, RelockInv
<1>11. ASSUME NEW set \in SUBSET CondSleepers, Woken(t, set) PROVE EntryInv'
  <2>1. ASSUME NEW u \in set \ {t}
        PROVE  cnd'[u].pc = "relock" /\ Short(u)' /\ RelockInv(u)'
    BY <1>1, <1>11, <2>1 DEF Woken, CondSleepers, Begin, RelockInv
  <2>2. ASSUME NEW u \in Threads \ (set \cup {t})
        PROVE  cnd'[u] = cnd[u] /\ call'[u] = call[u]
    BY <1>11, <2>2 DEF Woken
  <2>3. cnd'[t].pc = "none"
    BY <1>11 DEF Woken, NoWait
  <2> QED BY <1>1, <2>1, <2>2, <2>3 DEF UnlockInv, RelockInv
<1>12. CASE WakeOne(t)
  <2>1. {} \in SUBSET CondSleepers /\ \A u \in CondSleepers : {u} \in SUBSET CondSleepers
    OBVIOUS
  <2> QED BY <1>11, <1>12, <2>1 DEF WakeOne
<1>13. CASE WakeAll(t)
  BY <1>11, <1>13 DEF WakeAll
<1> QED BY <1>4, <1>5, <1>6, <1>7, <1>8, <1>9, <1>10, <1>12, <1>13 DEF CondStep

(* Every step keeps what each wait knows of its caller's hold.             *)
LEMMA EntryStep == IInv /\ EntryInv /\ [Next]_vars => EntryInv'
<1> SUFFICES ASSUME IInv, EntryInv, [Next]_vars PROVE EntryInv'
  OBVIOUS
<1> USE DEF IInv, MInv, MutexTypeOK, CondShape, EntryInv, CondAt, At, Full, Short,
        UnlockInv, RelockInv
<1>1. ASSUME NEW t \in Threads, NEW op \in Ops, CondAt(t, "none"), Call(t, op),
             UNCHANGED condVars
      PROVE  EntryInv'
  BY <1>1 DEF Call, condVars
<1>2. ASSUME NEW t \in Threads, NEW op \in {"plain", "timed", "expired"}, CondWait(t, op)
      PROVE  EntryInv'
  BY <1>2 DEF CondWait, NoWait, mutexVars
<1>3. ASSUME NEW t \in Threads, NEW op \in {"one", "all"}, Notify(t, op)
      PROVE  EntryInv'
  BY <1>3 DEF Notify, NoWait, mutexVars
<1>4. CASE UNCHANGED vars
  BY <1>4 DEF vars, mutexVars, condVars
<1> QED BY <1>1, <1>2, <1>3, <1>4, MutexEntryStep, CondEntryStep DEF Next

(* The entry invariant holds of every behaviour.                           *)
LEMMA EntryInvariance == Spec => []EntryInv
<1>1. Init => EntryInv
  BY DEF Init, EntryInv, NoWait
<1> QED BY <1>1, EntryStep, Invariance, PTL DEF Spec

(* cnd_wait and cnd_timedwait, however they end, return with the mutex     *)
(* held as often as on entry, unless mtx_lock failed.                      *)
THEOREM WaitKeepsOwnershipHolds == Spec => WaitKeepsOwnership
<1> DEFINE Kept ==
             \A t \in Threads :
                cnd[t].pc \in {"wait", "asleep", "relock"} /\ cnd'[t].pc = "none"
                   => call[t].res = "error" \/ held'[t] = cnd[t].entry
<1>1. ASSUME IInv, EntryInv, [Next]_vars PROVE [Kept]_vars
  <2> SUFFICES ASSUME IInv, EntryInv, NEW u \in Threads, Next,
                      cnd[u].pc \in {"wait", "asleep", "relock"}, cnd'[u].pc = "none"
               PROVE  call[u].res = "error" \/ held'[u] = cnd[u].entry
    BY <1>1
  <2> USE DEF IInv, CondShape, CondAt, At
  <2>1. ASSUME NEW t \in Threads, CondStep(t) PROVE CondReturn(u)
    <3>1. CASE LoadSequence(t)
      BY <3>1 DEF LoadSequence
    <3>2. CASE Unlocked(t)
      BY <3>2 DEF Unlocked, NoWait
    <3>3. CASE CondSleep(t)
      BY <3>3 DEF CondSleep, Relock, CondGoto
    <3>4. CASE CondInterrupt(t) \/ CondTimeout(t)
      BY <3>4 DEF CondInterrupt, CondTimeout, Relock, CondGoto
    <3>5. CASE CondReturn(t)
      BY <3>5 DEF CondReturn, NoWait
    <3>6. CASE Bump(t)
      BY <3>6 DEF Bump
    <3>7. ASSUME NEW set, Woken(t, set), cnd[t].pc \in {"wakeone", "wakeall"} PROVE FALSE
      BY <3>7 DEF Woken
    <3>8. CASE WakeOne(t) \/ WakeAll(t)
      BY <3>7, <3>8 DEF WakeOne, WakeAll
    <3> QED BY <2>1, <3>1, <3>2, <3>3, <3>4, <3>5, <3>6, <3>8 DEF CondStep
  <2>2. ASSUME NEW t \in Threads, NEW op, CondWait(t, op) \/ Notify(t, op) PROVE FALSE
    BY <2>2 DEF CondWait, Notify, Free, NoWait
  <2>3. CondReturn(u)
    BY <2>1, <2>2 DEF Next, condVars
  <2> QED BY <2>3 DEF CondReturn, EntryInv, RelockInv, Full
<1> QED BY <1>1, Invariance, EntryInvariance, PTL DEF Spec, WaitKeepsOwnership

-----------------------------------------------------------------------------
(* A thread that frees the mutex owes a wake call, the wake hands the duty *)
(* to the sleeper it wakes, and a sleeper that gives up (a deadline or an  *)
(* unexpected error) was not the one that had been woken.                  *)
LEMMA MutexWakeupStep ==
    ASSUME NEW t \in Threads, MutexTypeOK, NoLostWakeup, MutexStep(t)
    PROVE  NoLostWakeup'
<1> USE DEF MutexTypeOK, NoLostWakeup, Sleepers, At, Goto, Return, Answer, NoCall
<1>1. CASE Exchange(t) \/ SetOwner(t) \/ SetDepth(t)
  BY <1>1 DEF Exchange, SetOwner, SetDepth
<1>2. CASE LoadState(t) \/ LoadOwner(t) \/ Recurse(t)
  BY <1>2 DEF LoadState, LoadOwner, Recurse, Owned, NotOwned
<1>3. CASE Wait(t)
  BY <1>3 DEF Wait
<1>4. CASE Interrupt(t) \/ Timeout(t)
  BY <1>4 DEF Interrupt, Timeout
<1>5. CASE UnlockDepth(t) \/ ClearOwner(t)
  BY <1>5 DEF UnlockDepth, ClearOwner
<1>6. CASE ClearState(t)
  BY <1>6 DEF ClearState
<1>7. CASE Wake(t)
  <2>1. CASE Sleepers = {} /\ Return(t, "success")
    BY <2>1
  <2>2. ASSUME NEW u \in Sleepers,
               call' = [call EXCEPT ![t] = Answer(t, "success"), ![u].pc = "exchange"]
        PROVE  NoLostWakeup'
    <3>1. call'[u].pc = "exchange"
      BY <1>7, <2>2 DEF Wake
    <3> QED BY <3>1, <2>2
  <2> QED BY <1>7, <2>1, <2>2 DEF Wake
<1> QED BY <1>1, <1>2, <1>3, <1>4, <1>5, <1>6, <1>7 DEF MutexStep

(* Steps outside the mutex functions neither put a thread to sleep on the  *)
(* mutex nor take one out of wake or exchange.                             *)
LEMMA WakeupFrame ==
    ASSUME NoLostWakeup, Framed
    PROVE  NoLostWakeup'
  BY DEF NoLostWakeup, Sleepers, At, Framed

(* No thread sleeps in mtx_lock on a free mutex with nobody due to wake it *)
(* or to run the exchange, also when the mutex is used by waits.           *)
THEOREM MutexNoLostWakeupHolds == Spec => []NoLostWakeup
<1>1. Init => NoLostWakeup
  BY DEF Init, MutexInit, NoLostWakeup, Sleepers, At, NoCall
<1>2. ASSUME IInv, NoLostWakeup, [Next]_vars PROVE NoLostWakeup'
  <2>1. ASSUME NEW t \in Threads, MutexStep(t) PROVE NoLostWakeup'
    BY <1>2, <2>1, MutexWakeupStep DEF IInv, MInv
  <2>2. ASSUME NEW t \in Threads, NEW op \in Ops, Call(t, op) PROVE NoLostWakeup'
    BY <1>2, <2>2, CallFramed, WakeupFrame DEF IInv
  <2>3. ASSUME NEW t \in Threads, CondStep(t) PROVE NoLostWakeup'
    BY <1>2, <2>3, CondFramed, WakeupFrame
  <2>4. ASSUME UNCHANGED mutexVars PROVE NoLostWakeup'
    BY <1>2, <2>4 DEF mutexVars, NoLostWakeup, Sleepers, At
  <2>5. ASSUME NEW t \in Threads,
               (\E op \in {"plain", "timed", "expired"} : CondWait(t, op))
                  \/ \E op \in {"one", "all"} : Notify(t, op)
        PROVE  UNCHANGED mutexVars
    BY <2>5 DEF CondWait, Notify, mutexVars
  <2> QED BY <1>2, <2>1, <2>2, <2>3, <2>4, <2>5 DEF Next, vars
<1> QED BY <1>1, <1>2, Invariance, PTL DEF Spec

-----------------------------------------------------------------------------
(* The sequence never runs behind a value that somebody has read from it   *)
(* or published, and a waiter that is allowed to sleep read its value      *)
(* before it released the mutex.                                           *)
SequenceInv ==
    /\ seq \in Nat /\ announced \in Nat /\ announced <= seq
    /\ \A t \in Threads :
        /\ cnd[t].pc \in {"unlock", "wait", "asleep", "wakeone", "wakeall"}
              => cnd[t].expected \in Nat /\ cnd[t].expected <= seq
        /\ cnd[t].pc \in {"wait", "asleep"}
              => /\ cnd[t].since \in Nat
                 /\ cnd[t].expected <= cnd[t].since /\ cnd[t].since <= seq

BroadcastInv == SequenceInv /\ NoMissedBroadcast

(* A broadcast that completes leaves no sleeper; a waiter that goes to     *)
(* sleep afterwards has found the sequence unchanged since it read it, so  *)
(* it released the mutex after every increment.                            *)
LEMMA BroadcastStep == IInv /\ BroadcastInv /\ [Next]_vars => BroadcastInv'
<1> SUFFICES ASSUME CondShape, BroadcastInv, [Next]_vars PROVE BroadcastInv'
  BY DEF IInv
<1> USE DEF CondShape, BroadcastInv, SequenceInv, NoMissedBroadcast, CondSleepers, CondAt
<1>1. ASSUME UNCHANGED <<seq, cnd, announced>> PROVE BroadcastInv'
  BY <1>1
<1>2. ASSUME NEW t \in Threads, CondStep(t) PROVE BroadcastInv'
  <2>1. CASE LoadSequence(t)
    BY <2>1 DEF LoadSequence
  <2>2. CASE Unlocked(t)
    BY <2>2 DEF Unlocked, NoWait
  <2>3. CASE CondSleep(t)
    BY <2>3 DEF CondSleep, Relock, CondGoto
  <2>4. CASE CondInterrupt(t) \/ CondTimeout(t)
    BY <2>4 DEF CondInterrupt, CondTimeout, Relock, CondGoto
  <2>5. CASE CondReturn(t)
    BY <2>5 DEF CondReturn, NoWait
  <2>6. CASE Bump(t)
    BY <2>6 DEF Bump
  <2>7. CASE WakeOne(t)
    BY <2>7 DEF WakeOne, Woken, NoWait
  <2>8. CASE WakeAll(t)
    <3>1. CondSleepers' = {}
      BY <2>8 DEF WakeAll, Woken, NoWait
    <3>2. SequenceInv'
      BY <2>8 DEF WakeAll, Woken, NoWait
    <3> QED BY <3>1, <3>2
  <2> QED BY <1>2, <2>1, <2>2, <2>3, <2>4, <2>5, <2>6, <2>7, <2>8 DEF CondStep
<1>3. ASSUME NEW t \in Threads, NEW op \in {"plain", "timed", "expired"}, CondWait(t, op)
      PROVE  BroadcastInv'
  BY <1>3 DEF CondWait, NoWait
<1>4. ASSUME NEW t \in Threads, NEW op \in {"one", "all"}, Notify(t, op)
      PROVE  BroadcastInv'
  BY <1>4 DEF Notify, NoWait
<1> QED BY <1>1, <1>2, <1>3, <1>4 DEF Next, vars, condVars

(* cnd_broadcast leaves no thread behind that released the mutex before    *)
(* the broadcast's increment, also one that was still on its way to sleep. *)
THEOREM NoMissedBroadcastHolds == Spec => []NoMissedBroadcast
<1>1. Init => BroadcastInv
  BY DEF Init, NoWait, BroadcastInv, SequenceInv, NoMissedBroadcast, CondSleepers, CondAt
<1>2. BroadcastInv => NoMissedBroadcast
  BY DEF BroadcastInv
<1> QED BY <1>1, <1>2, BroadcastStep, Invariance, PTL DEF Spec

-----------------------------------------------------------------------------
(* The sequence and the increments under way stay within the bound, and so *)
(* does every value read from the sequence or from the hold of a caller.   *)
Bumpers == {u \in Threads : CondAt(u, "bump")}

BoundInv ==
    /\ seq + Cardinality(Bumpers) <= MaxSignals
    /\ \A t \in Threads :
        /\ cnd[t].expected <= MaxSignals /\ cnd[t].since <= MaxSignals
        /\ cnd[t].entry <= DepthMax

LEMMA BumpersFinite == IsFiniteSet(Bumpers) /\ Cardinality(Bumpers) \in Nat
<1>1. Bumpers \in SUBSET Threads
  BY DEF Bumpers
<1> QED BY <1>1, ConditionConstants, FS_Subset, FS_CardinalityType

LEMMA BoundStep == IInv /\ BoundInv /\ [Next]_vars => BoundInv'
<1> SUFFICES ASSUME IInv, BoundInv, [Next]_vars PROVE BoundInv'
  OBVIOUS
<1> DEFINE Values(u) == /\ cnd'[u].expected <= MaxSignals /\ cnd'[u].since <= MaxSignals
                        /\ cnd'[u].entry <= DepthMax
<1>1. CondShape /\ \A t \in Threads : held[t] \in 0 .. DepthMax
  BY MutexConstants DEF IInv, MInv, MutexTypeOK
<1>2. /\ seq \in Nat /\ Cardinality(Bumpers) \in Nat /\ MaxSignals \in Nat /\ DepthMax \in Nat
      /\ seq <= MaxSignals
  BY <1>1, BumpersFinite, ConditionConstants, MutexConstants DEF CondShape, BoundInv
<1> USE DEF CondAt, CondGoto
<1>3. ASSUME seq' = seq, Bumpers' = Bumpers, \A u \in Threads : Values(u) PROVE BoundInv'
  BY <1>3 DEF BoundInv
<1>4. ASSUME NEW t \in Threads, CondStep(t) PROVE BoundInv'
  <2> USE <1>1, <1>2 DEF CondShape
  <2>1. CASE LoadSequence(t)
    <3>1. Bumpers' = Bumpers /\ seq' = seq
      BY <2>1 DEF LoadSequence, Bumpers
    <3>2. \A u \in Threads : Values(u)
      BY <2>1 DEF LoadSequence, BoundInv
    <3> QED BY <1>3, <3>1, <3>2
  <2>2. CASE Unlocked(t)
    <3>1. Bumpers' = Bumpers /\ seq' = seq
      BY <2>2 DEF Unlocked, Bumpers, NoWait
    <3>2. \A u \in Threads : Values(u)
      BY <2>2 DEF Unlocked, BoundInv, NoWait
    <3> QED BY <1>3, <3>1, <3>2
  <2>3. CASE CondSleep(t) \/ CondInterrupt(t) \/ CondTimeout(t) \/ CondReturn(t)
    <3>1. Bumpers' = Bumpers /\ seq' = seq
      BY <2>3 DEF CondSleep, CondInterrupt, CondTimeout, CondReturn, Relock, Bumpers, NoWait
    <3>2. \A u \in Threads : Values(u)
      BY <2>3 DEF CondSleep, CondInterrupt, CondTimeout, CondReturn, Relock, BoundInv, NoWait
    <3> QED BY <1>3, <3>1, <3>2
  <2>4. CASE Bump(t)
    <3>1. Bumpers' = Bumpers \ {t} /\ t \in Bumpers /\ seq' = seq + 1
      BY <2>4 DEF Bump, Bumpers
    <3>2. Cardinality(Bumpers') = Cardinality(Bumpers) - 1
      BY <3>1, BumpersFinite, FS_RemoveElement
    <3>3. Cardinality(Bumpers) # 0
      <4>1. Bumpers # {}
        BY <3>1
      <4> QED BY <4>1, BumpersFinite, FS_EmptySet
    <3>4. \A u \in Threads : Values(u)
      BY <2>4, <3>3 DEF Bump, BoundInv
    <3> QED BY <3>1, <3>2, <3>4 DEF BoundInv
  <2>5. ASSUME NEW set \in SUBSET CondSleepers, Woken(t, set),
               cnd[t].pc \in {"wakeone", "wakeall"}, seq' = seq
        PROVE  BoundInv'
    <3>1. Bumpers' = Bumpers
      BY <2>5 DEF Woken, CondSleepers, Bumpers, NoWait
    <3>2. \A u \in Threads : Values(u)
      BY <2>5 DEF Woken, CondSleepers, BoundInv, NoWait
    <3> QED BY <1>3, <2>5, <3>1, <3>2
  <2>6. CASE WakeOne(t)
    <3>1. {} \in SUBSET CondSleepers /\ \A u \in CondSleepers : {u} \in SUBSET CondSleepers
      OBVIOUS
    <3> QED BY <2>5, <2>6, <3>1 DEF WakeOne
  <2>7. CASE WakeAll(t)
    BY <2>5, <2>7 DEF WakeAll
  <2> QED BY <1>4, <2>1, <2>2, <2>3, <2>4, <2>6, <2>7 DEF CondStep
<1>5. ASSUME NEW t \in Threads, NEW op \in {"plain", "timed", "expired"}, CondWait(t, op)
      PROVE  BoundInv'
  <2>1. Bumpers' = Bumpers /\ seq' = seq
    BY <1>1, <1>5 DEF CondWait, Free, Bumpers, NoWait, CondShape
  <2>2. \A u \in Threads : Values(u)
    BY <1>1, <1>2, <1>5 DEF CondWait, NoWait, BoundInv, CondShape
  <2> QED BY <1>3, <2>1, <2>2
<1>6. ASSUME NEW t \in Threads, NEW op \in {"one", "all"}, Notify(t, op) PROVE BoundInv'
  <2>1. /\ Bumpers' = Bumpers \cup {t} /\ t \notin Bumpers /\ seq' = seq
        /\ seq + Cardinality(Bumpers) < MaxSignals
    BY <1>1, <1>6 DEF Notify, Free, Bumpers, NoWait, CondShape
  <2>2. \A u \in Threads : Values(u)
    BY <1>1, <1>2, <1>6 DEF Notify, NoWait, BoundInv, CondShape
  <2>3. Cardinality(Bumpers') = Cardinality(Bumpers) + 1
    BY <2>1, BumpersFinite, FS_AddElement
  <2> QED BY <1>2, <2>1, <2>2, <2>3 DEF BoundInv
<1>7. CASE UNCHANGED condVars
  BY <1>7 DEF BoundInv, Bumpers, condVars
<1> QED BY <1>4, <1>5, <1>6, <1>7 DEF Next, vars

(* The mutex words, the sequence and every thread's calls keep their types *)
(* and bounds: nobody holds the mutex more than DepthMax times, and no     *)
(* broadcast has published a value the sequence has not reached.           *)
THEOREM TypeCorrect == Spec => []TypeOK
<1>1. Init => BoundInv /\ BroadcastInv
  <2> SUFFICES ASSUME Init PROVE BoundInv /\ BroadcastInv
    OBVIOUS
  <2>1. Bumpers = {}
    BY DEF Init, NoWait, Bumpers, CondAt
  <2>2. Cardinality(Bumpers) = 0
    BY <2>1, FS_EmptySet
  <2> QED BY <2>2, ConditionConstants, MutexConstants
          DEF Init, NoWait, BoundInv, BroadcastInv, SequenceInv, NoMissedBroadcast,
              CondSleepers, CondAt
<1>2. IInv /\ BroadcastInv /\ BoundInv => TypeOK
  <2> SUFFICES ASSUME IInv, BroadcastInv, BoundInv PROVE TypeOK
    OBVIOUS
  <2> USE DEF IInv, CondShape
  <2>1. seq \in 0 .. MaxSignals /\ announced \in 0 .. seq
    BY BumpersFinite, ConditionConstants DEF BroadcastInv, SequenceInv, BoundInv
  <2>2. \A t \in Threads : cnd[t] \in CallType
    BY ConditionConstants, MutexConstants DEF BoundInv, CallType
  <2>3. cnd \in [Threads -> CallType]
    BY <2>2
  <2> QED BY <2>1, <2>3 DEF TypeOK, MInv
<1> QED BY <1>1, <1>2, BoundStep, BroadcastStep, Invariance, PTL DEF Spec
=============================================================================
