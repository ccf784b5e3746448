---------------------------- MODULE AbstractLock ----------------------------
(***************************************************************************)
(* What a mutual-exclusion lock promises its users: a thread asks for the  *)
(* lock, is granted it when nobody holds it, and gives it back.  Nothing   *)
(* is promised about the order in which waiting threads are served.        *)
(***************************************************************************)
CONSTANT Threads

VARIABLES wanting,   \* threads whose acquire call has not returned
          holding    \* threads between the return of acquire and release

vars == <<wanting, holding>>

Init == wanting = {} /\ holding = {}

Ask(t) ==
    /\ t \notin wanting \cup holding
    /\ wanting' = wanting \cup {t}
    /\ UNCHANGED holding

Grant(t) ==
    /\ t \in wanting
    /\ holding = {}
    /\ holding' = {t}
    /\ wanting' = wanting \ {t}

GiveBack(t) ==
    /\ t \in holding
    /\ holding' = holding \ {t}
    /\ UNCHANGED wanting

Next == \E t \in Threads : Ask(t) \/ Grant(t) \/ GiveBack(t)

Spec == Init /\ [][Next]_vars
=============================================================================
