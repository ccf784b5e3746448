--------------------------- MODULE AbstractMutex ---------------------------
(***************************************************************************)
(* What mtx_lock, mtx_trylock, mtx_timedlock and mtx_unlock promise in     *)
(* terms of the calls that report success: how often each thread holds the *)
(* mutex.  A call that reports anything else changes nothing.              *)
(***************************************************************************)
EXTENDS Naturals

CONSTANTS Threads, Recursive, DepthMax

VARIABLE held

Init == held = [t \in Threads |-> 0]

(* A plain mutex is acquired only from free, a recursive one also again by *)
(* its owner while the depth can still be counted.                         *)
Acquire(t) ==
    /\ \A u \in Threads \ {t} : held[u] = 0
    /\ held[t] = 0 \/ (Recursive /\ held[t] < DepthMax)
    /\ held' = [held EXCEPT ![t] = @ + 1]

Release(t) ==
    /\ held[t] > 0
    /\ held' = [held EXCEPT ![t] = @ - 1]

Next == \E t \in Threads : Acquire(t) \/ Release(t)

Spec == Init /\ [][Next]_held
=============================================================================
