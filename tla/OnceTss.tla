------------------------------ MODULE OnceTss ------------------------------
(***************************************************************************)
(* Threads that create a shared TSS key in a call_once initializer, use    *)
(* it, and leave: the composition of Once and Tss that the code is written *)
(* for.  An initializer creates one key; every thread may use every key.   *)
(***************************************************************************)
EXTENDS Once, Tss

VARIABLES ran,      \* how often each flag's initializer has run
          passed    \* flags for which each thread has returned from call_once

vars == <<onceVars, tssVars, ran, passed>>

TypeOK ==
    /\ OnceTypeOK /\ TssTypeOK
    /\ ran \in [Flags -> Nat]
    /\ passed \in [Threads -> SUBSET Flags]

Init ==
    /\ OnceInit /\ TssInit
    /\ ran = [f \in Flags |-> 0]
    /\ passed = [t \in Threads |-> {}]

(* The flags whose call_once the step has returned from.                   *)
NotePassed ==
    passed' = [t \in Threads |->
                 IF once[t].pc # "idle" /\ once'[t].pc = "idle"
                 THEN passed[t] \cup {once[t].flag} ELSE passed[t]]

(* The initializer: tss_create with a destructor, or thrd_nomem.           *)
Initializer(t) ==
    /\ RunInitializer(t)
    /\ IF Cardinality(keys) < MaxKeys /\ \E i \in Slots : ~slots[i].active
         THEN Create(t, TRUE)
         ELSE UNCHANGED tssVars
    /\ ran' = [ran EXCEPT ![once[t].flag] = @ + 1]
    /\ UNCHANGED passed

(* A thread calls call_once only from program code.                        *)
OncePart(t) ==
    /\ \/ tss[t].pc = "idle" /\ tss[t].storing = NoKey /\ \E f \in Flags : CallOnce(t, f)
       \/ OnceStep(t)
       \/ OnceInterrupt(t)
    /\ NotePassed
    /\ UNCHANGED <<tssVars, ran>>

(* A program that is written for once-created keys uses TSS only after its *)
(* call_once has returned.                                                 *)
TssPart(t) ==
    /\ OnceAt(t, "idle") /\ passed[t] # {}
    /\ ProgramStep(t) \/ Leave(t) \/ TssStep(t)
    /\ UNCHANGED <<onceVars, ran, passed>>

Next == \E t \in Threads : Initializer(t) \/ OncePart(t) \/ TssPart(t)

Spec == Init /\ [][Next]_vars

-----------------------------------------------------------------------------
(* Whoever has returned from call_once comes after the initializer: it has *)
(* run exactly once and will never run again, in whatever order threads    *)
(* arrived, slept and woke.                                                *)
PassedAfterInitializer ==
    \A t \in Threads : \A f \in passed[t] : flag[f] = "complete" /\ ran[f] = 1

(* A value is seen only by the thread and through the key that set it, is  *)
(* destroyed once, and a destructor that sets it again does so a bounded   *)
(* number of times: a leaving thread does leave.                           *)
ValuesRight == TypeOK /\ NoForeignValue /\ DestroyedOnce /\ BoundedRearming
=============================================================================
