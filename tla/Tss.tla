-------------------------------- MODULE Tss --------------------------------
(***************************************************************************)
(* Thread-specific storage of src/thread/tss.c: tss_create, tss_delete,    *)
(* tss_get, tss_set and the destructor passes of a leaving thread.         *)
(*                                                                         *)
(* Keys are slots with a generation; a thread keeps, per slot, a value and *)
(* the generation it was set for.  Registry accesses are critical sections *)
(* of one lock (one action each); the thread's own arrays are private, so  *)
(* they are read and written outside the lock.                             *)
(*                                                                         *)
(* A value is named by the tss_set that installed it: 1, 2, ... up to      *)
(* MaxSets.  Every key a program could hold is in "keys", with the number  *)
(* of its creation, which the code does not have.  At most MaxKeys keys    *)
(* are created: a generation that wraps around (after 2^27 - 1 creations   *)
(* in one slot) is outside the model.                                      *)
(***************************************************************************)
EXTENDS ThreadSet, Naturals, Sequences, FiniteSets

CONSTANTS SlotCount,   \* MINI_TSS_MAX_KEYS
          Iterations,  \* TSS_DTOR_ITERATIONS
          MaxKeys,     \* bound on successful tss_create calls
          MaxSets      \* bound on successful tss_set calls

ASSUME TssConstants ==
    /\ SlotCount \in Nat \ {0} /\ Iterations \in Nat \ {0}
    /\ MaxKeys \in Nat /\ MaxSets \in Nat

Slots == 1 .. SlotCount

VARIABLES slots,     \* mini_tss_keys; id numbers the creation of the active key
          tcb,       \* tss_values and tss_generations of each thread
          tss,       \* what each thread does: see TssTypeOK
          keys,      \* every key handed out
          setBy,     \* which thread set each value, through the key of which creation
          destroyed  \* how often a destructor was called for each value

tssVars == <<slots, tcb, tss, keys, setBy, destroyed>>

Key == [slot : Slots, gen : 1 .. MaxKeys, id : 1 .. MaxKeys, dtor : BOOLEAN]

NoKey == [slot |-> 0, gen |-> 0, id |-> 0, dtor |-> FALSE]

Value == 0 .. MaxSets   \* 0 is the null value

(* pc: "idle" in the program, "call" in or between destructors, "snapshot" *)
(* before a pass, "gone" after the last.  storing: the key tss_set has     *)
(* found valid and value the value it is about to store; todo: the         *)
(* snapshot's destructors that remain to be called.                        *)
TssTypeOK ==
    /\ slots \in [Slots -> [gen : 0 .. MaxKeys, active : BOOLEAN, dtor : BOOLEAN,
                            id : 0 .. MaxKeys]]
    /\ tcb \in [Threads -> [Slots -> [gen : 0 .. MaxKeys, value : Value]]]
    /\ \A t \in Threads :
        /\ tss[t].pc \in {"idle", "snapshot", "call", "gone"}
        /\ tss[t].storing \in keys \cup {NoKey} /\ tss[t].value \in Value
        /\ tss[t].pass \in 0 .. Iterations
        /\ tss[t].todo \subseteq [slot : Slots, id : 1 .. MaxKeys, value : Value \ {0}]
    /\ keys \subseteq Key
    /\ setBy \in Seq([id : 1 .. MaxKeys, by : Threads]) /\ Len(setBy) <= MaxSets
    /\ destroyed \in [1 .. MaxSets -> 0 .. MaxSets]

TssInit ==
    /\ slots = [i \in Slots |-> [gen |-> 0, active |-> FALSE, dtor |-> FALSE, id |-> 0]]
    /\ tcb = [t \in Threads |-> [i \in Slots |-> [gen |-> 0, value |-> 0]]]
    /\ tss = [t \in Threads |->
                [pc |-> "idle", storing |-> NoKey, value |-> 0, pass |-> 0, todo |-> {}]]
    /\ keys = {} /\ setBy = <<>> /\ destroyed = [v \in 1 .. MaxSets |-> 0]

(* The thread executes program code: its own, or that of a destructor.     *)
InProgram(t) == tss[t].pc \in {"idle", "call"} /\ tss[t].storing = NoKey

IsActive(k) == slots[k.slot].active /\ slots[k.slot].gen = k.gen

-----------------------------------------------------------------------------
(* The key that tss_create makes in slot i.                                *)
NextKey(i, dtor) ==
    [slot |-> i, gen |-> slots[i].gen + 1, id |-> Cardinality(keys) + 1, dtor |-> dtor]

(* tss_create takes the first inactive slot; without one it returns        *)
(* thrd_nomem, which is no step.                                           *)
Create(t, dtor) ==
    /\ InProgram(t) /\ Cardinality(keys) < MaxKeys
    /\ \E i \in Slots :
         LET k == NextKey(i, dtor) IN
         /\ ~slots[i].active /\ \A j \in 1 .. i - 1 : slots[j].active
         /\ slots' = [slots EXCEPT ![i] = [gen |-> k.gen, active |-> TRUE, dtor |-> dtor,
                                          id |-> k.id]]
         /\ keys' = keys \cup {k}
    /\ UNCHANGED <<tcb, tss, setBy, destroyed>>

(* tss_delete retires an active key and forgets the caller's own value.    *)
Delete(t, k) ==
    /\ InProgram(t)
    /\ slots' = IF IsActive(k)
                  THEN [slots EXCEPT ![k.slot].active = FALSE, ![k.slot].dtor = FALSE]
                  ELSE slots
    /\ tcb' = IF tcb[t][k.slot].gen = k.gen
                THEN [tcb EXCEPT ![t][k.slot] = [gen |-> 0, value |-> 0]]
                ELSE tcb
    /\ UNCHANGED <<tss, keys, setBy, destroyed>>

(* Deliberately wrong: the thread's own generation is not compared.        *)
GetUnchecked(t, k) == IF IsActive(k) THEN tcb[t][k.slot].value ELSE 0

(* What tss_get(k) returns to thread t.                                    *)
Get(t, k) ==
    IF IsActive(k) /\ tcb[t][k.slot].gen = k.gen THEN tcb[t][k.slot].value ELSE 0

(* tss_set, first part: the key is checked under the lock.  An invalid key *)
(* returns thrd_error, which is no step.                                   *)
SetCheck(t, k, null) ==
    /\ InProgram(t) /\ IsActive(k)
    /\ null \/ Len(setBy) < MaxSets
    /\ setBy' = IF null THEN setBy ELSE Append(setBy, [id |-> k.id, by |-> t])
    /\ tss' = [tss EXCEPT ![t].storing = k, ![t].value = IF null THEN 0 ELSE Len(setBy) + 1]
    /\ UNCHANGED <<slots, tcb, keys, destroyed>>

(* Second part, after the unlock: the key may have been deleted and its    *)
(* slot reused by now.                                                     *)
SetStore(t) ==
    LET k == tss[t].storing IN
    /\ k # NoKey
    /\ tcb' = [tcb EXCEPT ![t][k.slot] = [gen |-> k.gen, value |-> tss[t].value]]
    /\ tss' = [tss EXCEPT ![t].storing = NoKey, ![t].value = 0]
    /\ UNCHANGED <<slots, keys, setBy, destroyed>>

-----------------------------------------------------------------------------
(* thrd_exit: __mini_tss_run_destructors.                                  *)
Leave(t) ==
    /\ tss[t].pc = "idle" /\ tss[t].storing = NoKey
    /\ tss' = [tss EXCEPT ![t].pc = "snapshot"]
    /\ UNCHANGED <<slots, tcb, keys, setBy, destroyed>>

Pending(t) ==
    {i \in Slots : /\ slots[i].active /\ slots[i].dtor
                   /\ tcb[t][i].gen = slots[i].gen /\ tcb[t][i].value # 0}

(* One critical section copies and clears every value to be destroyed; a   *)
(* pass that finds none ends the run.                                      *)
Snapshot(t) ==
    /\ tss[t].pc = "snapshot"
    /\ tss' = [tss EXCEPT
                 ![t].pc = IF Pending(t) = {} THEN "gone" ELSE "call",
                 ![t].todo = {[slot |-> i, id |-> slots[i].id, value |-> tcb[t][i].value] :
                                i \in Pending(t)}]
    /\ tcb' = [tcb EXCEPT ![t] = [i \in Slots |->
                 IF i \in Pending(t) THEN [@[i] EXCEPT !.value = 0] ELSE @[i]]]
    /\ UNCHANGED <<slots, keys, setBy, destroyed>>

(* Destructors run in slot order, outside the lock.  What a destructor     *)
(* does is program code: it may set, create and delete.                    *)
CallDestructor(t) ==
    /\ tss[t].pc = "call" /\ tss[t].storing = NoKey
    /\ \E d \in tss[t].todo :
         /\ \A e \in tss[t].todo : d.slot <= e.slot
         /\ tss' = [tss EXCEPT ![t].todo = @ \ {d}]
         /\ destroyed' = [destroyed EXCEPT ![d.value] = @ + 1]
    /\ UNCHANGED <<slots, tcb, keys, setBy>>

EndPass(t) ==
    /\ tss[t].pc = "call" /\ tss[t].storing = NoKey /\ tss[t].todo = {}
    /\ tss' = [tss EXCEPT ![t].pass = @ + 1,
                          ![t].pc = IF tss[t].pass + 1 = Iterations THEN "gone"
                                                                   ELSE "snapshot"]
    /\ UNCHANGED <<slots, tcb, keys, setBy, destroyed>>

(* Steps of calls that have begun.                                         *)
TssStep(t) == SetStore(t) \/ Snapshot(t) \/ CallDestructor(t) \/ EndPass(t)

ProgramStep(t) ==
    \/ \E dtor \in BOOLEAN : Create(t, dtor)
    \/ \E k \in keys :
         Delete(t, k) \/ \E null \in BOOLEAN : SetCheck(t, k, null)

-----------------------------------------------------------------------------
(* A key shows a thread only what that thread set through that very key:   *)
(* nothing of an earlier key in the same slot, even when the tss_set was   *)
(* overtaken by tss_delete and tss_create between check and store.         *)
NoForeignValue ==
    \A t \in Threads, k \in keys : Get(t, k) # 0 => setBy[Get(t, k)] = [id |-> k.id, by |-> t]

(* Each value is destroyed at most once, by the destructor of the key it   *)
(* was set through, and is no longer in the thread's array when it is.     *)
DestroyedOnce ==
    /\ \A v \in 1 .. MaxSets : destroyed[v] <= 1
    /\ \A t \in Threads : \A d \in tss[t].todo :
        /\ destroyed[d.value] = 0 /\ setBy[d.value] = [id |-> d.id, by |-> t]
        /\ \A i \in Slots : tcb[t][i].value # d.value

(* A destructor that sets its value again is called Iterations times at    *)
(* most for one key of one thread: a leaving thread does leave.            *)
BoundedRearming ==
    \A t \in Threads, k \in keys :
        Cardinality({v \in DOMAIN setBy : /\ setBy[v] = [id |-> k.id, by |-> t]
                                         /\ destroyed[v] > 0}) <= Iterations
=============================================================================
