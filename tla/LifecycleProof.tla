--------------------------- MODULE LifecycleProof ---------------------------
(***************************************************************************)
(* Proofs about the thread lifecycle, for any number of control cells,     *)
(* tids, creations and failing system calls: control blocks and stacks are *)
(* given back once and in time, the user-thread count is exact, and a      *)
(* joiner and the kernel's clear of the tid word cannot miss each other.   *)
(***************************************************************************)
EXTENDS ThreadLifecycle, FiniteSetTheorems, TLAPS

ThreadState ==
    [pc : ThreadPCs, tid : Tids \cup {None}, c : Controls \cup {None},
     want : 0 .. MaxThreads, seen : Tids \cup {"unset", "cleared"}, got : 0 .. MaxThreads]

CtlType == ctl \in [Controls -> ControlType]

RegType ==
    /\ registry \in Seq(Controls)
    /\ \A i, j \in DOMAIN registry : registry[i] = registry[j] => i = j

ThrType == thr \in [Threads -> ThreadState]

RestType ==
    /\ reaper \in [pc : ReaperPCs, c : Controls \cup {None}, next : Nat, notified : BOOLEAN]
    /\ dying \subseteq Tids
    /\ faults \in 0 .. MaxFaults /\ born \in 0 .. MaxThreads
    /\ handles \subseteq [tid : Tids, serial : 1 .. MaxThreads]
    /\ owed \subseteq 1 .. MaxThreads

Types == CtlType /\ RegType /\ ThrType /\ RestType

Listed(c) == \E i \in DOMAIN registry : registry[i] = c

Reclaiming ==
    {"join", "joinwait", "joinsleep", "joinunmap", "collect", "restore",
     "detachunmap", "unlink", "free"}

Busy == InCreate \cup Reclaiming

(* Before the clone, and after the thread was found dead, no thread runs   *)
(* on the control that t works on.                                         *)
NoneRuns ==
    {"map", "insert", "count", "clone", "uncount", "remove", "unwind",
     "joinunmap", "collect", "detachunmap", "unlink", "free"}

(* What a thread in a call knows of the control it works on.               *)
User(t) ==
    LET c == thr[t].c  pc == thr[t].pc IN
    /\ pc \in Busy <=> c # None
    /\ pc = "born" => thr[t].tid \in Tids
    /\ pc = "joinwait" => thr[t].seen # "cleared"
    /\ pc \in Busy =>
         /\ ctl[c].heap
         /\ Listed(c) <=> pc \notin {"map", "insert", "unwind", "free"}
    /\ pc \in InCreate \ {"map"} => ~ctl[c].published /\ ctl[c].mapped
    /\ pc \in {"map", "collect", "unlink", "free"} => ~ctl[c].mapped
    /\ pc \in Reclaiming => ctl[c].published /\ ctl[c].life \in {"JOINING", "REAPING"}
    /\ pc \in NoneRuns => ~Runs(c)
    /\ pc \in (NoneRuns \cap InCreate) \ {"map"} => ctl[c].clear = "unset"
    /\ pc = "publish" => thr[t].seen \in Tids /\ (Runs(c) \/ ctl[c].clear = "cleared")
    /\ pc = "joinsleep" => Runs(c)

(* What holds of a control whoever works on it.                            *)
Control(c) ==
    /\ ctl[c].mapped \/ Listed(c) \/ Runs(c) => ctl[c].heap
    /\ ctl[c].heap => ctl[c].serial # 0
    /\ Runs(c) => ctl[c].mapped /\ ctl[c].clear # "cleared"
    /\ Listed(c) /\ ctl[c].published /\ ctl[c].clear # "cleared" => Runs(c)

ReaperBusy == {"poll", "unmap", "restore", "unlink", "free"}

(* What the reaper knows of the control it has claimed or polls.           *)
Reaping ==
    LET c == reaper.c IN
    /\ reaper.pc \in ReaperBusy <=> c # None
    /\ reaper.pc = "scan" => reaper.next # 0
    /\ reaper.pc \in ReaperBusy =>
         /\ ctl[c].heap /\ ctl[c].published
         /\ Listed(c) <=> reaper.pc # "free"
         /\ IF reaper.pc = "poll" THEN ctl[c].life = "DETACHED"
                                  ELSE ctl[c].life = "REAPING" /\ ~Runs(c)
         /\ reaper.pc \in {"unlink", "free"} => ~ctl[c].mapped

(* A control is worked on by one actor at a time.                          *)
Exclusive ==
    \A t \in Threads : thr[t].c # None =>
        /\ thr[t].c # reaper.c
        /\ \A u \in Threads : thr[u].c = thr[t].c => u = t

LifeInv ==
    /\ Types
    /\ \A t \in Threads : User(t)
    /\ \A c \in Controls : Control(c)
    /\ Reaping
    /\ Exclusive

-----------------------------------------------------------------------------
(* A set of naturals has a least element, which the searches choose.       *)
LEMMA Least ==
    ASSUME NEW T \in SUBSET Nat, T # {}
    PROVE  \E i \in T : \A j \in T : i <= j
<1>1. IsWellFoundedOn(OpToRel(<, Nat), Nat)
  BY Zenon, NatLessThanWellFounded
<1>2. PICK R : R = OpToRel(<, Nat)
  BY Zenon
<1>3. \E x \in T : \A y \in T : ~(<<y, x>> \in R)
  BY Zenon, <1>1, <1>2, WFMin
<1>4. \A x, y \in Nat : y < x => <<y, x>> \in R
  BY Zenon, <1>2 DEF OpToRel
<1>5. \A x, y \in T : x \in Nat /\ y \in Nat /\ (~(y < x) => x <= y)
  OBVIOUS
<1> QED BY <1>3, <1>4, <1>5

(* add_control_locked.                                                     *)
LEMMA InsertList ==
    ASSUME RegType, NEW c \in Controls, ~Listed(c), registry' = <<c>> \o registry
    PROVE  RegType' /\ \A d \in Controls : Listed(d)' <=> Listed(d) \/ d = c
<1>1. /\ registry' \in Seq(Controls) /\ Len(registry') = Len(registry) + 1
      /\ registry'[1] = c /\ \A j \in 1 .. Len(registry) : registry'[j + 1] = registry[j]
      /\ Len(registry) \in Nat
  BY DEF RegType
<1>2. DOMAIN registry = 1 .. Len(registry) /\ DOMAIN registry' = 1 .. Len(registry) + 1
  BY <1>1 DEF RegType
<1>3. \A i \in DOMAIN registry' : i = 1 \/ \E j \in DOMAIN registry : i = j + 1
  <2> SUFFICES ASSUME NEW i \in DOMAIN registry', i # 1 PROVE i - 1 \in DOMAIN registry /\ i = (i - 1) + 1
    OBVIOUS
  <2> QED BY <1>1, <1>2
<1>4. RegType'
  BY <1>1, <1>2, <1>3 DEF RegType, Listed
<1>5. ASSUME NEW d \in Controls, Listed(d)' PROVE Listed(d) \/ d = c
  BY <1>1, <1>2, <1>3, <1>5 DEF Listed
<1>6. ASSUME NEW d \in Controls, Listed(d) PROVE Listed(d)'
  <2>1. PICK j \in DOMAIN registry : registry[j] = d
    BY <1>6 DEF Listed
  <2>2. j + 1 \in DOMAIN registry' /\ registry'[j + 1] = d
    BY <2>1, <1>1, <1>2
  <2> QED BY <2>2 DEF Listed
<1>7. Listed(c)'
  BY <1>1, <1>2 DEF Listed
<1> QED BY <1>4, <1>5, <1>6, <1>7

(* remove_control_locked.                                                  *)
LEMMA UnlinkList ==
    ASSUME RegType, NEW c \in Controls, Listed(c), registry' = Unlinked(c)
    PROVE  RegType' /\ \A d \in Controls : Listed(d)' <=> Listed(d) /\ d # c
<1>1. PICK at \in DOMAIN registry : registry[at] = c
  BY DEF Listed
<1>2. {i \in DOMAIN registry : registry[i] = c} = {at}
  BY <1>1 DEF RegType
<1>3. DOMAIN registry = 1 .. Len(registry) /\ Len(registry) \in Nat /\ at \in Nat
  BY <1>1 DEF RegType
<1>4. (CHOOSE i \in {at} : \A j \in {at} : i <= j) = at
  BY <1>3
<1>5. registry' = [i \in 1 .. Len(registry) - 1 |-> registry[IF i < at THEN i ELSE i + 1]]
  BY <1>2, <1>4 DEF Unlinked
<1>6. Len(registry) - 1 \in Nat
  BY <1>1, <1>3
<1>7. /\ registry' \in Seq(Controls) /\ DOMAIN registry' = 1 .. Len(registry) - 1
      /\ \A i \in DOMAIN registry' : registry'[i] = registry[IF i < at THEN i ELSE i + 1]
  BY <1>1, <1>3, <1>5, <1>6 DEF RegType
<1>8. \A i \in DOMAIN registry' : (IF i < at THEN i ELSE i + 1) \in DOMAIN registry \ {at}
  BY <1>1, <1>3, <1>7
<1>9. RegType'
  BY <1>1, <1>3, <1>7, <1>8 DEF RegType
<1>10. ASSUME NEW d \in Controls, Listed(d), d # c PROVE Listed(d)'
  <2>1. PICK i \in DOMAIN registry : registry[i] = d
    BY <1>10 DEF Listed
  <2>2. i # at /\ i \in Nat /\ i >= 1 /\ i <= Len(registry)
    BY <2>1, <1>1, <1>10, <1>3
  <2>3. CASE i < at
    <3>1. i \in DOMAIN registry' /\ registry'[i] = d
      BY <2>1, <2>2, <2>3, <1>1, <1>3, <1>7
    <3> QED BY <3>1 DEF Listed
  <2>4. CASE i > at
    <3>1. i - 1 \in DOMAIN registry' /\ registry'[i - 1] = d
      BY <2>1, <2>2, <2>4, <1>1, <1>3, <1>7
    <3> QED BY <3>1 DEF Listed
  <2> QED BY <2>2, <2>3, <2>4, <1>3
<1>11. ASSUME NEW d \in Controls, Listed(d)' PROVE Listed(d) /\ d # c
  <2>1. PICK i \in DOMAIN registry' : registry'[i] = d
    BY <1>11 DEF Listed
  <2> QED BY <2>1, <1>1, <1>2, <1>7, <1>8 DEF Listed
<1> QED BY <1>9, <1>10, <1>11

(* The searches of the registry return a listed control.                   *)
LEMMA FoundListed ==
    ASSUME RegType, NEW tid, FindControl(tid) # None
    PROVE  /\ FindControl(tid) \in Controls
           /\ Listed(FindControl(tid)) /\ ctl[FindControl(tid)].published
<1> DEFINE hits == {i \in DOMAIN registry : /\ ctl[registry[i]].published
                                            /\ ctl[registry[i]].tid = tid}
<1>1. hits # {} /\ hits \in SUBSET Nat
  BY DEF FindControl, RegType
<1>2. \E i \in hits : \A j \in hits : i <= j
  <2> HIDE DEF hits
  <2> QED BY <1>1, Least
<1>3. PICK at \in hits : FindControl(tid) = registry[at]
  BY <1>1, <1>2 DEF FindControl
<1> QED BY <1>3 DEF RegType, Listed

LEMMA FirstListed ==
    ASSUME RegType, FirstDetached # None
    PROVE  /\ FirstDetached \in Controls /\ Listed(FirstDetached)
           /\ ctl[FirstDetached].published /\ ctl[FirstDetached].life = "DETACHED"
<1> DEFINE hits == {i \in DOMAIN registry : /\ ctl[registry[i]].published
                                            /\ ctl[registry[i]].life = "DETACHED"}
<1>1. hits # {} /\ hits \in SUBSET Nat
  BY DEF FirstDetached, RegType
<1>2. \E i \in hits : \A j \in hits : i <= j
  <2> HIDE DEF hits
  <2> QED BY <1>1, Least
<1>3. PICK at \in hits : FirstDetached = registry[at]
  BY <1>1, <1>2 DEF FirstDetached
<1> QED BY <1>3 DEF RegType, Listed

-----------------------------------------------------------------------------
(* Nobody works on a published control that is JOINABLE or that only the   *)
(* reaper polls.                                                           *)
LEMMA Unclaimed ==
    ASSUME LifeInv, NEW c \in Controls, Listed(c), ctl[c].published,
           ctl[c].life \in {"JOINABLE", "DETACHED"}
    PROVE  /\ \A u \in Threads : thr[u].c # c
           /\ ctl[c].life = "JOINABLE" => reaper.c # c
<1>1. ASSUME NEW u \in Threads, thr[u].c = c PROVE FALSE
  <2>1. thr[u].pc \in Busy /\ User(u) /\ c # None
    BY <1>1, ThreadConstants DEF LifeInv, User
  <2> QED BY <2>1, <1>1 DEF User, Busy, InCreate, Reclaiming
<1>2. c # None
  BY ThreadConstants
<1> QED BY <1>1, <1>2 DEF LifeInv, Reaping, ReaperBusy

(* A control as those that work on it see it.                              *)
SameControl(d) ==
    /\ ctl'[d].heap = ctl[d].heap /\ ctl'[d].mapped = ctl[d].mapped
    /\ ctl'[d].life = ctl[d].life /\ ctl'[d].published = ctl[d].published
    /\ ctl'[d].clear = ctl[d].clear /\ ctl'[d].serial = ctl[d].serial
    /\ Listed(d)' = Listed(d)

(* A step of thread t, in which it works on control c or on none.          *)
ThreadMoves(t, c) ==
    /\ thr[t].pc # "none" /\ thr'[t].pc # "none" /\ thr'[t].c \in {c, None, thr[t].c}
    /\ \A u \in Threads \ {t} : thr'[u] = thr[u] /\ (c # None => thr[u].c # c)
    /\ \A d \in Controls \ {c} : SameControl(d)
    /\ c # None => reaper.c # c /\ Control(c)'
    /\ User(t)'

ReaperKept ==
    /\ reaper'.c = reaper.c /\ reaper'.next = reaper.next
    /\ \/ reaper'.pc = reaper.pc
       \/ {reaper.pc, reaper'.pc} \cap (ReaperBusy \cup {"scan"}) = {}

LEMMA ThreadFrame ==
    ASSUME LifeInv, Types', NEW t \in Threads, NEW c \in Controls \cup {None},
           ThreadMoves(t, c), ReaperKept
    PROVE  LifeInv'
<1>1. \A d \in Controls : Runs(d)' = Runs(d)
  BY DEF ThreadMoves, Runs, Threads
<1>2. ASSUME NEW u \in Threads \ {t} PROVE User(u)'
  <2>1. User(u) /\ thr'[u] = thr[u] /\ (thr[u].pc \in Busy <=> thr[u].c # None)
    BY DEF LifeInv, ThreadMoves, User
  <2>2. thr[u] \in ThreadState
    BY DEF LifeInv, Types, ThrType
  <2>3. CASE thr[u].c = None
    BY <2>1, <2>3 DEF User, Busy, InCreate, Reclaiming, NoneRuns
  <2>4. CASE thr[u].c # None
    <3>1. thr[u].c \in Controls \ {c}
      BY <2>2, <2>4 DEF ThreadState, ThreadMoves
    <3>2. SameControl(thr[u].c) /\ Runs(thr[u].c)' = Runs(thr[u].c)
      BY <3>1, <1>1 DEF ThreadMoves
    <3> QED BY <2>1, <3>2 DEF User, SameControl, Runs
  <2> QED BY <2>3, <2>4
<1>3. ASSUME NEW d \in Controls PROVE Control(d)'
  <2>1. CASE d = c
    BY <2>1, ThreadConstants DEF ThreadMoves
  <2>2. CASE d # c
    <3>1. SameControl(d) /\ Control(d)
      BY <2>2 DEF ThreadMoves, LifeInv
    <3> QED BY <3>1, <1>1 DEF SameControl, Control
  <2> QED BY <2>1, <2>2
<1>4. Reaping'
  <2>1. Reaping /\ ReaperKept /\ (c # None => reaper.c # c)
    BY DEF LifeInv, ThreadMoves
  <2>2. CASE reaper.c = None
    BY <2>1, <2>2 DEF Reaping, ReaperKept
  <2>3. CASE reaper.c # None
    <3>1. reaper.c \in Controls \ {c} /\ reaper'.pc = reaper.pc
      BY <2>1, <2>3 DEF LifeInv, Types, RestType, Reaping, ReaperKept
    <3>2. SameControl(reaper.c)
      BY <3>1 DEF ThreadMoves
    <3>3. Runs(reaper.c)' = Runs(reaper.c) /\ reaper'.c = reaper.c
      BY <3>1, <1>1, <2>1 DEF ReaperKept, Runs
    <3> QED BY <3>1, <3>2, <3>3, <2>1 DEF Reaping, SameControl, ReaperKept, Runs
  <2> QED BY <2>2, <2>3
<1>5. Exclusive'
  BY DEF LifeInv, Exclusive, ThreadMoves, ReaperKept
<1>6. User(t)'
  BY DEF ThreadMoves
<1> QED BY <1>2, <1>3, <1>4, <1>5, <1>6 DEF LifeInv

-----------------------------------------------------------------------------
(* How the steps change the state of a thread.                             *)
LEMMA GotoMoves ==
    ASSUME ThrType, NEW t \in Threads, NEW label \in ThreadPCs, Goto(t, label)
    PROVE  /\ ThrType' /\ \A u \in Threads \ {t} : thr'[u] = thr[u]
           /\ thr'[t].pc = label /\ thr'[t].c = thr[t].c
           /\ thr'[t].tid = thr[t].tid /\ thr'[t].seen = thr[t].seen
  BY DEF ThrType, ThreadState, Goto

LEMMA ReturnMoves ==
    ASSUME ThrType, NEW t \in Threads, Return(t)
    PROVE  /\ ThrType' /\ \A u \in Threads \ {t} : thr'[u] = thr[u]
           /\ thr'[t].pc = "idle" /\ thr'[t].c = None
<1>1. PICK r : r = [Asleep EXCEPT !.pc = "idle", !.tid = thr[t].tid]
  OBVIOUS
<1>2. thr[t].tid \in Tids \cup {None}
  BY DEF ThrType, ThreadState
<1>3. r \in ThreadState /\ r.pc = "idle" /\ r.c = None
  <2>1. 0 \in 0 .. MaxThreads /\ "idle" \in ThreadPCs /\ "none" \in ThreadPCs
    BY ThreadConstants DEF ThreadPCs
  <2>2. Asleep \in ThreadState
    BY <2>1 DEF Asleep, ThreadState
  <2>3. r \in ThreadState
    BY <1>1, <1>2, <2>1, <2>2 DEF ThreadState
  <2> QED BY <1>1, <2>3 DEF Asleep
<1>4. thr' = [thr EXCEPT ![t] = r]
  BY <1>1 DEF Return
<1> QED BY <1>3, <1>4 DEF ThrType

(* The control that a thread works on is its own meanwhile.                *)
LEMMA Mine ==
    ASSUME LifeInv, NEW t \in Threads, thr[t].pc \in Busy
    PROVE  /\ thr[t].c \in Controls /\ thr[t].c # None /\ reaper.c # thr[t].c
           /\ \A u \in Threads \ {t} : thr[u].c # thr[t].c
           /\ Control(thr[t].c) /\ User(t) /\ ctl[thr[t].c] \in ControlType
<1>1. User(t) /\ thr[t] \in ThreadState
  BY DEF LifeInv, Types, ThrType
<1>2. thr[t].c \in Controls /\ thr[t].c # None
  BY <1>1 DEF User, ThreadState
<1> QED BY <1>1, <1>2 DEF LifeInv, Exclusive, Types, CtlType

(* A thread in no call works on no control.                                *)
LEMMA AtLarge ==
    ASSUME LifeInv, NEW t \in Threads, thr[t].pc \notin Busy
    PROVE  thr[t].c = None
  BY DEF LifeInv, User

LEMMA SameControls ==
    ASSUME UNCHANGED <<ctl, registry>>
    PROVE  \A d \in Controls : SameControl(d)
  BY DEF SameControl, Listed

LEMMA SameRest ==
    ASSUME RestType, UNCHANGED <<reaper, dying, born, handles, owed>>, faults' \in 0 .. MaxFaults
    PROVE  RestType'
  BY DEF RestType

ReaperState == [pc : ReaperPCs, c : Controls \cup {None}, next : Nat, notified : BOOLEAN]

LEMMA Notified ==
    ASSUME NEW r \in ReaperState
    PROVE  /\ NotifyReaper(r) \in ReaperState
           /\ NotifyReaper(r).c = r.c /\ NotifyReaper(r).next = r.next
           /\ NotifyReaper(r).pc = (IF r.pc = "asleep" THEN "lock" ELSE r.pc)
  BY DEF NotifyReaper, ReaperState, ReaperPCs

LEMMA FaultCounted ==
    ASSUME RestType
    PROVE  /\ MayFault /\ CountFault => faults' \in 0 .. MaxFaults
           /\ UNCHANGED faults => faults' \in 0 .. MaxFaults
  BY ThreadConstants DEF RestType, MayFault, CountFault

(* A step that changes the program counter of a thread and nothing that    *)
(* others see of the controls.                                             *)
LEMMA GotoFrame ==
    ASSUME LifeInv, NEW t \in Threads, NEW label \in ThreadPCs \ {"none"}, Goto(t, label),
           thr[t].pc # "none", UNCHANGED <<registry, reaper>>, CtlType', RestType',
           \A d \in Controls : SameControl(d),
           ASSUME thr'[t].pc = label, thr'[t].c = thr[t].c, thr'[t].tid = thr[t].tid,
                  thr'[t].seen = thr[t].seen, \A d \in Controls : Runs(d)' = Runs(d),
                  thr[t].c \in Controls \cup {None}
           PROVE  User(t)'
    PROVE  LifeInv'
<1>1. /\ ThrType' /\ \A u \in Threads \ {t} : thr'[u] = thr[u]
      /\ thr'[t].pc = label /\ thr'[t].c = thr[t].c
      /\ thr'[t].tid = thr[t].tid /\ thr'[t].seen = thr[t].seen
  BY GotoMoves DEF LifeInv, Types
<1>2. \A d \in Controls : Runs(d)' = Runs(d)
  BY <1>1 DEF Runs, Threads
<1>3. thr[t].c \in Controls \cup {None}
  BY DEF LifeInv, Types, ThrType, ThreadState
<1>4. User(t)'
  BY <1>1, <1>2, <1>3
<1>5. ThreadMoves(t, None) /\ ReaperKept
  BY <1>1, <1>4 DEF ThreadMoves, ReaperKept
<1>6. Types'
  BY <1>1 DEF LifeInv, Types, RegType
<1> QED BY <1>5, <1>6, ThreadFrame

-----------------------------------------------------------------------------
(* thrd_create.                                                            *)
LEMMA AllocStep ==
    ASSUME LifeInv, NEW t \in Threads, CreateAlloc(t)
    PROVE  LifeInv'
<1>1. PICK c \in Controls :
        /\ ~ctl[c].heap
        /\ ctl' = [ctl EXCEPT ![c].heap = TRUE, ![c].serial = born + 1]
        /\ thr' = [thr EXCEPT ![t].pc = "map", ![t].c = c]
  BY DEF CreateAlloc
<1>2. /\ thr[t].pc = "idle" /\ born' = born + 1 /\ born < MaxThreads
      /\ UNCHANGED <<registry, reaper, dying, faults, handles, owed>>
  BY DEF CreateAlloc
<1>3. ctl[c] \in ControlType /\ Control(c) /\ c # None
  BY ThreadConstants DEF LifeInv, Types, CtlType
<1>4. ~ctl[c].mapped /\ ~Listed(c) /\ ~Runs(c) /\ c # t
  BY <1>1, <1>2, <1>3 DEF Control, Runs
<1>5. born \in Nat /\ born + 1 \in 0 .. MaxThreads /\ born + 1 # 0
  BY <1>2, ThreadConstants DEF LifeInv, Types, RestType
<1>6. /\ ctl' \in [Controls -> ControlType] /\ \A d \in Controls \ {c} : ctl'[d] = ctl[d]
      /\ ctl'[c].heap /\ ~ctl'[c].mapped /\ ctl'[c].serial # 0
  BY <1>1, <1>3, <1>4, <1>5 DEF LifeInv, Types, CtlType, ControlType
<1>7. /\ ThrType' /\ thr'[t].pc = "map" /\ thr'[t].c = c
      /\ \A u \in Threads \ {t} : thr'[u] = thr[u]
  <2>1. "map" \in ThreadPCs /\ thr[t] \in ThreadState /\ thr \in [Threads -> ThreadState]
    BY DEF ThreadPCs, LifeInv, Types, ThrType
  <2>2. PICK r : r = [thr[t] EXCEPT !.pc = "map", !.c = c]
    OBVIOUS
  <2>3. r \in ThreadState /\ r.pc = "map" /\ r.c = c
    BY <2>1, <2>2 DEF ThreadState
  <2>4. thr' = [thr EXCEPT ![t] = r]
    BY <1>1, <2>1, <2>2
  <2> QED BY <2>1, <2>3, <2>4 DEF ThrType
<1>8. (\A u \in Threads : thr[u].c # c) /\ reaper.c # c
  BY <1>1, <1>3 DEF LifeInv, User, Reaping
<1>9. Types'
  BY <1>2, <1>5, <1>6, <1>7 DEF LifeInv, Types, CtlType, RegType, RestType
<1>10. \A d \in Controls \ {c} : SameControl(d)
  BY <1>2, <1>6 DEF SameControl, Listed
<1>11. ~Listed(c)' /\ ~Runs(c)'
  BY <1>2, <1>4, <1>7 DEF Listed, Runs, Threads
<1>12. User(t)' /\ Control(c)'
  BY <1>3, <1>6, <1>7, <1>11 DEF User, Control, Busy, InCreate, Reclaiming, NoneRuns
<1>13. ThreadMoves(t, c) /\ ReaperKept
  BY <1>2, <1>7, <1>8, <1>10, <1>12 DEF ThreadMoves, ReaperKept
<1> QED BY <1>9, <1>13, ThreadFrame

LEMMA MapStep ==
    ASSUME LifeInv, NEW t \in Threads, CreateMap(t)
    PROVE  LifeInv'
<1> DEFINE c == thr[t].c
<1>1. /\ thr[t].pc = "map" /\ "map" \in Busy
      /\ UNCHANGED <<registry, reaper, dying, born, handles, owed>>
  BY DEF CreateMap, Busy, InCreate
<1>2. PICK k \in Controls : k = c
  BY <1>1, Mine
<1>3. /\ k # None /\ reaper.c # k /\ \A u \in Threads \ {t} : thr[u].c # k
      /\ Control(k) /\ User(t) /\ ctl[k] \in ControlType
  BY <1>1, <1>2, Mine
<1>4. ~Listed(k) /\ ~Runs(k) /\ ctl[k].heap /\ ~ctl[k].mapped /\ ctl[k].serial # 0
  BY <1>1, <1>2, <1>3 DEF User, Control, Busy, InCreate, NoneRuns
<1>5. ASSUME NEW r \in ControlType, ctl' = [ctl EXCEPT ![k] = r], r.serial = ctl[k].serial
      PROVE  /\ CtlType' /\ (\A d \in Controls \ {k} : SameControl(d))
             /\ ctl'[k] = r
  BY <1>1, <1>5 DEF LifeInv, Types, CtlType, SameControl, Listed
<1>7. faults' \in 0 .. MaxFaults
  BY FaultCounted DEF CreateMap, LifeInv, Types
<1>8. RegType' /\ RestType'
  BY <1>1, <1>7, SameRest DEF LifeInv, Types, RegType
<1>9. CASE Goto(t, "insert") /\ ctl' = [ctl EXCEPT ![c] = [@ EXCEPT !.mapped = TRUE, !.life = "JOINABLE",
                                          !.published = FALSE, !.tid = None,
                                          !.clear = "unset", !.result = 0]]
  <2>1. /\ ThrType' /\ thr'[t].pc = "insert" /\ thr'[t].c = k
        /\ \A u \in Threads \ {t} : thr'[u] = thr[u]
    BY <1>2, <1>9, GotoMoves DEF LifeInv, Types, ThreadPCs
  <2>2. PICK r : r = [ctl[k] EXCEPT !.mapped = TRUE, !.life = "JOINABLE", !.published = FALSE,
                                    !.tid = None, !.clear = "unset", !.result = 0]
    OBVIOUS
  <2>3. /\ r \in ControlType /\ r.heap = ctl[k].heap /\ r.mapped /\ ~r.published
        /\ r.clear = "unset" /\ r.serial = ctl[k].serial
    <3>1. /\ 0 \in 0 .. MaxThreads /\ None \in Tids \cup {None} /\ "JOINABLE" \in Lifecycles
          /\ "unset" \in Tids \cup {"unset", "cleared"}
      BY ThreadConstants DEF Lifecycles
    <3>2. r \in ControlType
      BY <2>2, <1>3, <3>1 DEF ControlType
    <3> QED BY <2>2, <1>3, <3>2 DEF ControlType
  <2>4. ctl' = [ctl EXCEPT ![k] = r]
    BY <1>2, <1>9, <2>2 DEF LifeInv, Types, CtlType
  <2>5. CtlType' /\ (\A d \in Controls \ {k} : SameControl(d)) /\ ctl'[k] = r
    BY <2>3, <2>4, <1>5
  <2>6. ~Listed(k)' /\ ~Runs(k)'
    BY <1>1, <1>4, <2>1 DEF Listed, Runs, Threads
  <2>7. User(t)' /\ Control(k)'
    BY <1>3, <1>4, <2>1, <2>3, <2>5, <2>6 DEF User, Control, Busy, InCreate, Reclaiming, NoneRuns
  <2>8. ThreadMoves(t, k) /\ ReaperKept
    BY <1>1, <1>3, <2>1, <2>5, <2>7 DEF ThreadMoves, ReaperKept
  <2> QED BY <1>8, <2>1, <2>5, <2>8, ThreadFrame DEF Types
<1>10. CASE Return(t) /\ ctl' = [ctl EXCEPT ![c].heap = FALSE]
  <2>1. /\ ThrType' /\ thr'[t].pc = "idle" /\ thr'[t].c = None
        /\ \A u \in Threads \ {t} : thr'[u] = thr[u]
    BY <1>10, ReturnMoves DEF LifeInv, Types
  <2>2. PICK r : r = [ctl[k] EXCEPT !.heap = FALSE]
    OBVIOUS
  <2>3. r \in ControlType /\ ~r.heap /\ ~r.mapped /\ r.serial = ctl[k].serial
    BY <2>2, <1>3, <1>4 DEF ControlType
  <2>4. ctl' = [ctl EXCEPT ![k] = r]
    BY <1>2, <1>10, <2>2 DEF LifeInv, Types, CtlType
  <2>5. CtlType' /\ (\A d \in Controls \ {k} : SameControl(d)) /\ ctl'[k] = r
    BY <2>3, <2>4, <1>5
  <2>6. ~Listed(k)' /\ ~Runs(k)'
    BY <1>1, <1>4, <2>1 DEF Listed, Runs, Threads
  <2>7. User(t)' /\ Control(k)'
    BY <2>1, <2>3, <2>5, <2>6 DEF User, Control, Busy, InCreate, Reclaiming, NoneRuns
  <2>8. ThreadMoves(t, k) /\ ReaperKept
    BY <1>1, <1>3, <2>1, <2>5, <2>7 DEF ThreadMoves, ReaperKept
  <2> QED BY <1>8, <2>1, <2>5, <2>8, ThreadFrame DEF Types
<1> QED BY <1>9, <1>10 DEF CreateMap

LEMMA InsertStep ==
    ASSUME LifeInv, NEW t \in Threads, CreateInsert(t)
    PROVE  LifeInv'
<1>1. /\ thr[t].pc = "insert" /\ "insert" \in Busy /\ Goto(t, "count")
      /\ UNCHANGED <<ctl, reaper, dying, faults, born, handles, owed>>
  BY DEF CreateInsert, Busy, InCreate
<1>2. PICK k \in Controls : k = thr[t].c
  BY <1>1, Mine
<1>3. /\ k # None /\ reaper.c # k /\ \A u \in Threads \ {t} : thr[u].c # k
      /\ Control(k) /\ User(t)
  BY <1>1, <1>2, Mine
<1>4. ~Listed(k) /\ ~Runs(k) /\ ctl[k].heap /\ ctl[k].mapped /\ ~ctl[k].published
      /\ ctl[k].clear = "unset"
  BY <1>1, <1>2, <1>3 DEF User, Busy, InCreate, NoneRuns
<1>5. registry' = <<k>> \o registry
  BY <1>2 DEF CreateInsert
<1>6. RegType' /\ \A d \in Controls : Listed(d)' <=> Listed(d) \/ d = k
  BY <1>4, <1>5, InsertList DEF LifeInv, Types
<1>7. /\ ThrType' /\ thr'[t].pc = "count" /\ thr'[t].c = k
      /\ \A u \in Threads \ {t} : thr'[u] = thr[u]
  BY <1>1, <1>2, GotoMoves DEF LifeInv, Types, ThreadPCs
<1>8. Types'
  BY <1>1, <1>6, <1>7, SameRest DEF LifeInv, Types, CtlType, RestType
<1>9. ~Runs(k)'
  BY <1>1, <1>4, <1>7 DEF Runs, Threads
<1>10. User(t)' /\ Control(k)'
  BY <1>1, <1>3, <1>4, <1>6, <1>7, <1>9 DEF User, Control, Busy, InCreate, Reclaiming, NoneRuns
<1>11. \A d \in Controls \ {k} : SameControl(d)
  BY <1>1, <1>6 DEF SameControl, Listed
<1>12. ThreadMoves(t, k) /\ ReaperKept
  BY <1>1, <1>3, <1>7, <1>10, <1>11 DEF ThreadMoves, ReaperKept
<1> QED BY <1>8, <1>12, ThreadFrame

(* The count is stored before the clone, and taken back after a failed one.*)
LEMMA CountSteps ==
    ASSUME LifeInv, NEW t \in Threads, CreateCount(t) \/ CreateUncount(t)
    PROVE  LifeInv'
<1>1. PICK label \in {"clone", "remove"} :
        /\ Goto(t, label) /\ thr[t].pc \in {"count", "uncount"}
        /\ UNCHANGED <<ctl, registry, reaper, dying, faults, born, handles, owed>>
  BY DEF CreateCount, CreateUncount
<1>2. User(t) /\ thr[t].pc \in Busy
  BY <1>1 DEF LifeInv, Busy, InCreate
<1>3. ASSUME thr'[t].pc = label, thr'[t].c = thr[t].c, \A d \in Controls : Runs(d)' = Runs(d),
             thr[t].c \in Controls \cup {None}
      PROVE  User(t)'
  BY <1>1, <1>2, <1>3 DEF User, Busy, InCreate, Reclaiming, NoneRuns, Listed
<1>4. CtlType' /\ RestType' /\ \A d \in Controls : SameControl(d)
  BY <1>1, SameControls DEF LifeInv, Types, CtlType, RestType
<1> QED BY <1>1, <1>3, <1>4, GotoFrame DEF ThreadPCs

LEMMA RemoveStep ==
    ASSUME LifeInv, NEW t \in Threads, CreateRemove(t) \/ Unlink(t)
    PROVE  LifeInv'
<1>1. PICK label \in {"unwind", "free"} :
        /\ thr[t].pc = (IF label = "unwind" THEN "remove" ELSE "unlink")
        /\ thr[t].pc \in Busy /\ Goto(t, label)
        /\ UNCHANGED <<ctl, reaper, dying, faults, born, handles, owed>>
  BY DEF CreateRemove, Unlink, Busy, InCreate, Reclaiming
<1>2. PICK k \in Controls : k = thr[t].c
  BY <1>1, Mine
<1>3. /\ k # None /\ reaper.c # k /\ \A u \in Threads \ {t} : thr[u].c # k
      /\ Control(k) /\ User(t)
  BY <1>1, <1>2, Mine
<1>4. Listed(k) /\ ~Runs(k) /\ ctl[k].heap
  BY <1>1, <1>2, <1>3 DEF User, Busy, InCreate, Reclaiming, NoneRuns
<1>5. registry' = Unlinked(k)
  BY <1>2 DEF CreateRemove, Unlink
<1>6. RegType' /\ \A d \in Controls : Listed(d)' <=> Listed(d) /\ d # k
  BY <1>4, <1>5, UnlinkList DEF LifeInv, Types
<1>7. /\ ThrType' /\ thr'[t].pc = label /\ thr'[t].c = k
      /\ \A u \in Threads \ {t} : thr'[u] = thr[u]
  BY <1>1, <1>2, GotoMoves DEF LifeInv, Types, ThreadPCs
<1>8. Types'
  BY <1>1, <1>6, <1>7, SameRest DEF LifeInv, Types, CtlType, RestType
<1>9. ~Runs(k)'
  BY <1>1, <1>4, <1>7 DEF Runs, Threads
<1>10. User(t)' /\ Control(k)'
  BY <1>1, <1>2, <1>3, <1>4, <1>6, <1>7, <1>9
     DEF User, Control, Busy, InCreate, Reclaiming, NoneRuns
<1>11. \A d \in Controls \ {k} : SameControl(d)
  BY <1>1, <1>6 DEF SameControl, Listed
<1>12. ThreadMoves(t, k) /\ ReaperKept
  BY <1>1, <1>3, <1>7, <1>10, <1>11 DEF ThreadMoves, ReaperKept
<1> QED BY <1>8, <1>12, ThreadFrame

(* The cell is freed: after a failed clone, or by the reclaiming thread.   *)
LEMMA FreeStep ==
    ASSUME LifeInv, NEW t \in Threads, CreateUnwind(t) \/ FreeControl(t)
    PROVE  LifeInv'
<1>1. /\ thr[t].pc \in {"unwind", "free"} /\ thr[t].pc \in Busy /\ Return(t)
      /\ UNCHANGED <<registry, reaper, dying, faults, born, handles>>
      /\ owed' \subseteq owed
  BY DEF CreateUnwind, FreeControl, Busy, InCreate, Reclaiming
<1>2. PICK k \in Controls : k = thr[t].c
  BY <1>1, Mine
<1>3. /\ k # None /\ reaper.c # k /\ \A u \in Threads \ {t} : thr[u].c # k
      /\ User(t) /\ ctl[k] \in ControlType
  BY <1>1, <1>2, Mine
<1>4. ~Listed(k) /\ ~Runs(k) /\ (thr[t].pc = "free" => ~ctl[k].mapped)
  BY <1>1, <1>2, <1>3 DEF User, Busy, InCreate, Reclaiming, NoneRuns
<1>5. /\ CtlType' /\ ~ctl'[k].heap /\ ~ctl'[k].mapped
      /\ \A d \in Controls \ {k} : ctl'[d] = ctl[d]
  <2>1. CASE CreateUnwind(t)
    <3>1. ctl' = [ctl EXCEPT ![k].mapped = FALSE, ![k].heap = FALSE]
      BY <2>1, <1>2 DEF CreateUnwind
    <3> QED BY <3>1, <1>3 DEF LifeInv, Types, CtlType, ControlType
  <2>2. CASE FreeControl(t)
    <3>1. ctl' = [ctl EXCEPT ![k].heap = FALSE] /\ thr[t].pc = "free"
      BY <2>2, <1>2 DEF FreeControl
    <3> QED BY <3>1, <1>3, <1>4 DEF LifeInv, Types, CtlType, ControlType
  <2> QED BY <2>1, <2>2
<1>6. /\ ThrType' /\ thr'[t].pc = "idle" /\ thr'[t].c = None
      /\ \A u \in Threads \ {t} : thr'[u] = thr[u]
  BY <1>1, ReturnMoves DEF LifeInv, Types
<1>7. Types'
  BY <1>1, <1>5, <1>6 DEF LifeInv, Types, RegType, RestType
<1>8. ~Listed(k)' /\ ~Runs(k)'
  BY <1>1, <1>4, <1>6 DEF Listed, Runs, Threads
<1>9. User(t)' /\ Control(k)'
  BY <1>5, <1>6, <1>8 DEF User, Control, Busy, InCreate, Reclaiming, NoneRuns
<1>10. \A d \in Controls \ {k} : SameControl(d)
  BY <1>1, <1>5 DEF SameControl, Listed
<1>11. ThreadMoves(t, k) /\ ReaperKept
  BY <1>1, <1>3, <1>6, <1>9, <1>10 DEF ThreadMoves, ReaperKept
<1> QED BY <1>7, <1>11, ThreadFrame

LEMMA CloneStep ==
    ASSUME LifeInv, NEW t \in Threads, CreateClone(t)
    PROVE  LifeInv'
<1>1. /\ thr[t].pc = "clone" /\ "clone" \in Busy
      /\ UNCHANGED <<ctl, registry, reaper, dying, born, handles>>
  BY DEF CreateClone, Busy, InCreate
<1>2. PICK k \in Controls : k = thr[t].c
  BY <1>1, Mine
<1>3. /\ k # None /\ reaper.c # k /\ \A u \in Threads \ {t} : thr[u].c # k
      /\ Control(k) /\ User(t) /\ ctl[k] \in ControlType
  BY <1>1, <1>2, Mine
<1>4. /\ Listed(k) /\ ~Runs(k) /\ ctl[k].heap /\ ctl[k].mapped /\ ~ctl[k].published
      /\ ctl[k].clear = "unset"
  BY <1>1, <1>2, <1>3 DEF User, Busy, InCreate, NoneRuns
<1>5. faults' \in 0 .. MaxFaults
  BY FaultCounted DEF CreateClone, LifeInv, Types
<1>6. CtlType' /\ RegType' /\ \A d \in Controls : SameControl(d)
  BY <1>1, SameControls DEF LifeInv, Types, CtlType, RegType
<1>7. ASSUME NEW tid \in Tids, owed' = owed \cup {ctl[k].serial},
             thr' = [thr EXCEPT ![t].pc = "publish", ![t].seen = tid,
                                ![k] = [Asleep EXCEPT !.pc = "born", !.tid = tid]]
      PROVE  LifeInv'
  <2>1. t # k /\ k \in Threads
    BY <1>1, <1>4 DEF Runs, Threads
  <2>2. PICK r : r = [Asleep EXCEPT !.pc = "born", !.tid = tid]
    OBVIOUS
  <2>3. r \in ThreadState /\ r.pc = "born" /\ r.tid = tid /\ r.c = None
    <3>1. 0 \in 0 .. MaxThreads /\ "born" \in ThreadPCs /\ "none" \in ThreadPCs
      BY ThreadConstants DEF ThreadPCs
    <3>2. Asleep \in ThreadState
      BY <3>1 DEF Asleep, ThreadState
    <3>3. r \in ThreadState
      BY <2>2, <3>1, <3>2 DEF ThreadState
    <3> QED BY <2>2, <3>3 DEF Asleep
  <2>4. /\ ThrType' /\ thr'[k] = r /\ thr'[t].pc = "publish" /\ thr'[t].seen = tid
        /\ thr'[t].c = k /\ \A u \in Threads \ {t, k} : thr'[u] = thr[u]
    <3>1. thr' = [thr EXCEPT ![t].pc = "publish", ![t].seen = tid, ![k] = r]
      BY <1>7, <2>2
    <3> QED BY <3>1, <1>2, <2>1, <2>3 DEF LifeInv, Types, ThrType, ThreadState, ThreadPCs
  <2>5. RestType'
    <3>1. ctl[k].serial \in 1 .. MaxThreads
      BY <1>3, <1>4, ThreadConstants DEF ControlType, Control
    <3> QED BY <1>1, <1>5, <1>7, <3>1 DEF LifeInv, Types, RestType
  <2>6. Runs(k)' /\ \A d \in Controls \ {k} : Runs(d)' = Runs(d)
    BY <1>1, <2>3, <2>4 DEF Runs, Threads
  <2>7. User(t)' /\ User(k)'
    BY <1>1, <1>3, <1>4, <1>6, <2>3, <2>4, <2>6
       DEF User, Busy, InCreate, Reclaiming, NoneRuns, SameControl
  <2>8. ASSUME NEW u \in Threads \ {t, k} PROVE User(u)'
    <3>1. /\ User(u) /\ thr'[u] = thr[u] /\ thr[u].c \in Controls \cup {None}
          /\ (thr[u].pc \in Busy <=> thr[u].c # None)
      BY <2>4 DEF LifeInv, User, Types, ThrType, ThreadState
    <3>2. CASE thr[u].c = None
      BY <3>1, <3>2 DEF User, Busy, InCreate, Reclaiming, NoneRuns
    <3>3. CASE thr[u].c # None
      <4>1. thr[u].c \in Controls \ {k}
        BY <3>1, <3>3, <1>3
      <4> QED BY <3>1, <4>1, <1>6, <2>6 DEF User, SameControl
    <3> QED BY <3>2, <3>3
  <2>9. ASSUME NEW d \in Controls PROVE Control(d)'
    <3>1. Control(d) /\ SameControl(d)
      BY <1>6 DEF LifeInv
    <3> QED BY <3>1, <1>4, <2>6 DEF Control, SameControl
  <2>10. Reaping'
    <3>1. reaper.c # None => reaper.c \in Controls \ {k}
      BY <1>3 DEF LifeInv, Types, RestType
    <3> QED BY <3>1, <1>1, <1>6, <2>6 DEF LifeInv, Reaping, SameControl, ReaperBusy
  <2>11. Exclusive'
    BY <1>1, <1>2, <2>3, <2>4 DEF LifeInv, Exclusive
  <2> QED BY <1>6, <2>4, <2>5, <2>7, <2>8, <2>9, <2>10, <2>11 DEF LifeInv, Types
<1>8. CASE Goto(t, "uncount") /\ UNCHANGED owed
  <2>1. RestType'
    BY <1>1, <1>5, <1>8, SameRest DEF LifeInv, Types
  <2>2. ASSUME thr'[t].pc = "uncount", thr'[t].c = thr[t].c, \A d \in Controls : Runs(d)' = Runs(d)
        PROVE  User(t)'
    BY <1>1, <1>2, <1>3, <1>4, <1>6, <2>2
       DEF User, Busy, InCreate, Reclaiming, NoneRuns, SameControl
  <2> QED BY <1>1, <1>6, <1>8, <2>1, <2>2, GotoFrame DEF ThreadPCs
<1> QED BY <1>2, <1>7, <1>8 DEF CreateClone

LEMMA PublishStep ==
    ASSUME LifeInv, NEW t \in Threads, CreatePublish(t)
    PROVE  LifeInv'
<1>1. /\ thr[t].pc = "publish" /\ "publish" \in Busy /\ Return(t)
      /\ UNCHANGED <<registry, dying, faults, born, owed>>
  BY DEF CreatePublish, Busy, InCreate
<1>2. PICK k \in Controls : k = thr[t].c
  BY <1>1, Mine
<1>3. /\ k # None /\ reaper.c # k /\ \A u \in Threads \ {t} : thr[u].c # k
      /\ Control(k) /\ User(t) /\ ctl[k] \in ControlType
  BY <1>1, <1>2, Mine
<1>4. /\ Listed(k) /\ ctl[k].heap /\ (Runs(k) \/ ctl[k].clear = "cleared")
      /\ thr[t].seen \in Tids
  BY <1>1, <1>2, <1>3 DEF User, Busy, InCreate, NoneRuns
<1>5. /\ CtlType' /\ \A d \in Controls \ {k} : ctl'[d] = ctl[d]
      /\ ctl'[k].heap = ctl[k].heap /\ ctl'[k].mapped = ctl[k].mapped
      /\ ctl'[k].clear = ctl[k].clear /\ ctl'[k].serial = ctl[k].serial
  <2>1. ctl' = [ctl EXCEPT ![k].tid = thr[t].seen, ![k].published = TRUE]
    BY <1>2 DEF CreatePublish
  <2> QED BY <2>1, <1>3, <1>4 DEF LifeInv, Types, CtlType, ControlType
<1>6. /\ ThrType' /\ thr'[t].pc = "idle" /\ thr'[t].c = None
      /\ \A u \in Threads \ {t} : thr'[u] = thr[u]
  BY <1>1, ReturnMoves DEF LifeInv, Types
<1>7. reaper' \in ReaperState /\ ReaperKept
  BY Notified DEF LifeInv, Types, RestType, ReaperState, CreatePublish, ReaperKept, ReaperBusy
<1>8. handles' \subseteq [tid : Tids, serial : 1 .. MaxThreads]
  <2>1. ctl[k].serial \in 1 .. MaxThreads
    BY <1>3, <1>4, ThreadConstants DEF ControlType, Control
  <2> QED BY <2>1, <1>2, <1>4 DEF CreatePublish, LifeInv, Types, RestType
<1>9. Types'
  BY <1>1, <1>5, <1>6, <1>7, <1>8 DEF LifeInv, Types, RegType, RestType, ReaperState
<1>10. Runs(k)' = Runs(k) /\ Listed(k)' = Listed(k)
  BY <1>1, <1>6 DEF Listed, Runs, Threads
<1>11. User(t)' /\ Control(k)'
  BY <1>3, <1>4, <1>5, <1>6, <1>10 DEF User, Control, Busy, InCreate, Reclaiming, NoneRuns
<1>12. \A d \in Controls \ {k} : SameControl(d)
  BY <1>1, <1>5 DEF SameControl, Listed
<1>13. ThreadMoves(t, k)
  BY <1>1, <1>3, <1>6, <1>11, <1>12 DEF ThreadMoves
<1> QED BY <1>7, <1>9, <1>13, ThreadFrame

-----------------------------------------------------------------------------
(* The thread and the kernel.                                              *)
LEMMA StartStep ==
    ASSUME LifeInv, NEW c \in Controls, ThreadStart(c)
    PROVE  LifeInv'
<1>1. /\ thr[c].pc = "born" /\ Goto(c, "idle") /\ c \in Threads
      /\ ctl' = [ctl EXCEPT ![c].clear = thr[c].tid]
      /\ UNCHANGED <<registry, reaper, dying, faults, born, handles, owed>>
  BY DEF ThreadStart, Threads
<1>2. /\ User(c) /\ Control(c) /\ ctl[c] \in ControlType
      /\ thr[c].tid \in Tids /\ thr[c].tid # "cleared" /\ thr[c].c = None
  BY <1>1, ThreadConstants
     DEF LifeInv, Types, CtlType, User, Busy, InCreate, Reclaiming
<1>3. /\ ThrType' /\ thr'[c].pc = "idle" /\ thr'[c].c = None
      /\ \A u \in Threads \ {c} : thr'[u] = thr[u]
  BY <1>1, <1>2, GotoMoves DEF LifeInv, Types, ThreadPCs
<1>4. /\ CtlType' /\ \A d \in Controls \ {c} : ctl'[d] = ctl[d]
      /\ ctl'[c].heap = ctl[c].heap /\ ctl'[c].mapped = ctl[c].mapped
      /\ ctl'[c].life = ctl[c].life /\ ctl'[c].published = ctl[c].published
      /\ ctl'[c].clear = thr[c].tid /\ ctl'[c].serial = ctl[c].serial
  BY <1>1, <1>2 DEF LifeInv, Types, CtlType, ControlType
<1>5. Types'
  BY <1>1, <1>3, <1>4, SameRest DEF LifeInv, Types, RegType, RestType
<1>6. \A d \in Controls : Listed(d)' = Listed(d) /\ Runs(d)' = Runs(d)
  BY <1>1, <1>3 DEF Listed, Runs, Threads
<1>7. Runs(c)
  BY <1>1 DEF Runs
<1>8. ASSUME NEW u \in Threads PROVE User(u)'
  <2>1. CASE u = c
    BY <2>1, <1>3 DEF User, Busy, InCreate, Reclaiming, NoneRuns
  <2>2. CASE u # c
    <3>1. /\ User(u) /\ thr'[u] = thr[u] /\ thr[u].c \in Controls \cup {None}
          /\ (thr[u].pc \in Busy <=> thr[u].c # None)
      BY <2>2, <1>3 DEF LifeInv, User, Types, ThrType, ThreadState
    <3>2. CASE thr[u].c = None
      BY <3>1, <3>2 DEF User, Busy, InCreate, Reclaiming, NoneRuns
    <3>3. CASE thr[u].c = c
      BY <3>1, <3>3, <1>4, <1>6, <1>7 DEF User
    <3>4. CASE thr[u].c \in Controls \ {c}
      BY <3>1, <3>4, <1>4, <1>6 DEF User
    <3> QED BY <3>1, <3>2, <3>3, <3>4
  <2> QED BY <2>1, <2>2
<1>9. ASSUME NEW d \in Controls PROVE Control(d)'
  BY <1>2, <1>4, <1>6, <1>7 DEF LifeInv, Control
<1>10. Reaping'
  <2>1. reaper.c # None => reaper.c \in Controls
    BY DEF LifeInv, Types, RestType
  <2> QED BY <2>1, <1>1, <1>4, <1>6 DEF LifeInv, Reaping, ReaperBusy
<1>11. Exclusive'
  BY <1>1, <1>2, <1>3 DEF LifeInv, Exclusive
<1> QED BY <1>5, <1>8, <1>9, <1>10, <1>11 DEF LifeInv

LEMMA ExitResultStep ==
    ASSUME LifeInv, NEW t \in Threads, ExitResult(t)
    PROVE  LifeInv'
<1>1. /\ thr[t].pc = "idle" /\ Goto(t, "leave") /\ User(t)
      /\ UNCHANGED <<registry, reaper, dying, faults, born, handles, owed>>
  BY DEF ExitResult, LifeInv
<1>2. CtlType' /\ \A d \in Controls : SameControl(d)
  <2>1. CASE t = Main
    BY <1>1, <2>1, SameControls DEF ExitResult, LifeInv, Types, CtlType
  <2>2. CASE t # Main
    <3>1. t \in Controls /\ ctl' = [ctl EXCEPT ![t].result = ctl[t].serial]
      BY <2>2 DEF ExitResult, Threads
    <3>2. ctl[t] \in ControlType
      BY <3>1 DEF LifeInv, Types, CtlType
    <3>3. /\ CtlType' /\ \A d \in Controls \ {t} : ctl'[d] = ctl[d]
          /\ ctl'[t].heap = ctl[t].heap /\ ctl'[t].mapped = ctl[t].mapped
          /\ ctl'[t].life = ctl[t].life /\ ctl'[t].published = ctl[t].published
          /\ ctl'[t].clear = ctl[t].clear /\ ctl'[t].serial = ctl[t].serial
      BY <3>1, <3>2 DEF LifeInv, Types, CtlType, ControlType
    <3> QED BY <1>1, <3>3 DEF SameControl, Listed
  <2> QED BY <2>1, <2>2
<1>3. ASSUME thr'[t].pc = "leave", thr'[t].c = thr[t].c
      PROVE  User(t)'
  BY <1>1, <1>3 DEF User, Busy, InCreate, Reclaiming, NoneRuns
<1>4. RestType'
  BY <1>1 DEF LifeInv, Types, RestType
<1> QED BY <1>1, <1>2, <1>3, <1>4, GotoFrame DEF ThreadPCs

LEMMA ExitCountStep ==
    ASSUME LifeInv, NEW t \in Threads, ExitCount(t)
    PROVE  LifeInv'
<1>1. PICK label \in {"exiting", "dead"} :
        /\ thr[t].pc = "leave" /\ Goto(t, label) /\ User(t)
        /\ UNCHANGED <<ctl, registry, reaper, dying, faults, born, handles, owed>>
  BY DEF ExitCount, LifeInv
<1>2. ASSUME thr'[t].pc = label, thr'[t].c = thr[t].c
      PROVE  User(t)'
  BY <1>1, <1>2 DEF User, Busy, InCreate, Reclaiming, NoneRuns
<1>3. CtlType' /\ RestType' /\ \A d \in Controls : SameControl(d)
  BY <1>1, SameControls DEF LifeInv, Types, CtlType, RestType
<1> QED BY <1>1, <1>2, <1>3, GotoFrame DEF ThreadPCs

(* The clear wakes the joiner; a joiner about to sleep finds it changed.   *)
LEMMA KernelExitStep ==
    ASSUME LifeInv, NEW t \in Threads, KernelExit(t)
    PROVE  LifeInv'
<1>1. /\ thr[t].pc = "dead" /\ User(t) /\ thr[t].c = None
      /\ UNCHANGED <<registry, reaper, faults, born, handles, owed>>
      /\ dying' = dying \cup ({thr[t].tid} \ {None})
  BY DEF KernelExit, LifeInv, User, Busy, InCreate, Reclaiming
<1>2. Asleep \in ThreadState /\ Asleep.pc = "none" /\ Asleep.c = None
  BY ThreadConstants DEF Asleep, ThreadState, ThreadPCs
<1>3. /\ ThrType' /\ thr'[t] = Asleep
      /\ \A u \in Threads \ {t} :
           /\ thr'[u].c = thr[u].c /\ thr'[u].tid = thr[u].tid /\ thr'[u].seen = thr[u].seen
           /\ thr'[u].pc = (IF thr[u].pc = "joinsleep" /\ thr[u].c = t THEN "join" ELSE thr[u].pc)
  BY <1>2 DEF KernelExit, LifeInv, Types, ThrType, ThreadState, ThreadPCs
<1>4. RestType'
  <2>1. thr[t].tid \in Tids \cup {None}
    BY DEF LifeInv, Types, ThrType, ThreadState
  <2> QED BY <1>1, <2>1 DEF LifeInv, Types, RestType
<1>5. \A d \in Controls : Listed(d)' = Listed(d)
  BY <1>1 DEF Listed
<1>6. \A d \in Controls : Runs(d)' = (Runs(d) /\ d # t)
  BY <1>2, <1>3 DEF Runs, Threads
<1>7. /\ CtlType'
      /\ \A d \in Controls :
           /\ ctl'[d].heap = ctl[d].heap /\ ctl'[d].mapped = ctl[d].mapped
           /\ ctl'[d].life = ctl[d].life /\ ctl'[d].published = ctl[d].published
           /\ ctl'[d].serial = ctl[d].serial
           /\ ctl'[d].clear = (IF d = t THEN "cleared" ELSE ctl[d].clear)
  <2>1. CASE t = Main
    BY <2>1, ThreadConstants DEF KernelExit, LifeInv, Types, CtlType
  <2>2. CASE t # Main
    <3>1. t \in Controls /\ ctl' = [ctl EXCEPT ![t].clear = "cleared"]
      BY <2>2 DEF KernelExit, Threads
    <3>2. ctl[t] \in ControlType
      BY <3>1 DEF LifeInv, Types, CtlType
    <3> QED BY <3>1, <3>2 DEF LifeInv, Types, CtlType, ControlType
  <2> QED BY <2>1, <2>2
<1>8. t \in Controls => Runs(t)
  BY <1>1 DEF Runs
<1>9. ASSUME NEW u \in Threads PROVE User(u)'
  <2>1. CASE u = t
    BY <2>1, <1>2, <1>3 DEF User, Busy, InCreate, Reclaiming, NoneRuns
  <2>2. CASE u # t
    <3>1. /\ User(u) /\ thr[u].c \in Controls \cup {None}
          /\ (thr[u].pc \in Busy <=> thr[u].c # None)
      BY DEF LifeInv, User, Types, ThrType, ThreadState
    <3>2. /\ thr'[u].c = thr[u].c /\ thr'[u].tid = thr[u].tid /\ thr'[u].seen = thr[u].seen
          /\ thr'[u].pc = (IF thr[u].pc = "joinsleep" /\ thr[u].c = t THEN "join" ELSE thr[u].pc)
      BY <2>2, <1>3
    <3>3. CASE thr[u].c = None
      BY <3>1, <3>2, <3>3 DEF User, Busy, InCreate, Reclaiming, NoneRuns
    <3>4. CASE thr[u].c = t /\ t \in Controls
      BY <3>1, <3>2, <3>4, <1>5, <1>6, <1>7, <1>8
         DEF User, Busy, InCreate, Reclaiming, NoneRuns
    <3>5. CASE thr[u].c \in Controls \ {t}
      <4>1. PICK d \in Controls \ {t} : d = thr[u].c
        BY <3>5
      <4>2. thr'[u].c = d /\ thr'[u].pc = thr[u].pc
        BY <3>2, <4>1
      <4>3. Runs(d)' <=> Runs(d)
        BY <4>1, <1>6
      <4> QED BY <3>1, <3>2, <4>1, <4>2, <4>3, <1>5, <1>7 DEF User, Runs
    <3> QED BY <3>1, <3>3, <3>4, <3>5
  <2> QED BY <2>1, <2>2
<1>10. ASSUME NEW d \in Controls PROVE Control(d)'
  BY <1>5, <1>6, <1>7 DEF LifeInv, Control
<1>11. Reaping'
  <2>1. reaper.c # None => reaper.c \in Controls
    BY DEF LifeInv, Types, RestType
  <2> QED BY <2>1, <1>1, <1>5, <1>6, <1>7 DEF LifeInv, Reaping, ReaperBusy
<1>12. Exclusive'
  BY <1>1, <1>2, <1>3 DEF LifeInv, Exclusive
<1> QED BY <1>1, <1>3, <1>4, <1>7, <1>9, <1>10, <1>11, <1>12 DEF LifeInv, Types, RegType

LEMMA BuryStep ==
    ASSUME LifeInv, NEW tid \in dying, KernelBury(tid)
    PROVE  LifeInv'
<1>1. dying' = dying \ {tid} /\ UNCHANGED <<ctl, registry, thr, reaper, faults, born, handles, owed>>
  BY DEF KernelBury
<1>2. Types'
  BY <1>1 DEF LifeInv, Types, CtlType, RegType, ThrType, RestType
<1>3. \A d \in Controls : Listed(d)' = Listed(d) /\ Runs(d)' = Runs(d)
  BY <1>1 DEF Listed, Runs
<1>4. \A u \in Threads : User(u)'
  BY <1>1, <1>3 DEF LifeInv, User, Listed, Runs
<1>5. (\A d \in Controls : Control(d)') /\ Exclusive'
  BY <1>1, <1>3 DEF LifeInv, Control, Exclusive
<1>6. Reaping'
  BY <1>1 DEF LifeInv, Reaping, Listed, Runs
<1> QED BY <1>2, <1>4, <1>5, <1>6 DEF LifeInv

-----------------------------------------------------------------------------
(* thrd_join and thrd_detach.                                              *)

(* A joiner or detacher takes a JOINABLE control that it found.            *)
LEMMA ClaimFrame ==
    ASSUME LifeInv, NEW t \in Threads, NEW k \in Controls, Listed(k), ctl[k].published,
           ctl[k].life = "JOINABLE", thr[t].pc = "idle",
           NEW life \in {"JOINING", "REAPING"}, ctl' = [ctl EXCEPT ![k].life = life],
           NEW label \in {"join", "detachunmap"}, label = "detachunmap" => ~Runs(k),
           NEW want \in 0 .. MaxThreads,
           thr' = [thr EXCEPT ![t].pc = label, ![t].c = k, ![t].want = want],
           UNCHANGED <<registry, reaper, dying, faults, born, handles, owed>>
    PROVE  LifeInv'
<1>1. /\ \A u \in Threads : thr[u].c # k
      /\ reaper.c # k /\ k # None
  BY Unclaimed, ThreadConstants
<1>2. /\ Control(k) /\ ctl[k] \in ControlType /\ ctl[k].heap
  BY DEF LifeInv, Types, CtlType, Control
<1>3. /\ CtlType' /\ \A d \in Controls \ {k} : ctl'[d] = ctl[d]
      /\ ctl'[k].heap = ctl[k].heap /\ ctl'[k].mapped = ctl[k].mapped
      /\ ctl'[k].life = life /\ ctl'[k].published = ctl[k].published
      /\ ctl'[k].clear = ctl[k].clear /\ ctl'[k].serial = ctl[k].serial
  BY <1>2 DEF LifeInv, Types, CtlType, ControlType, Lifecycles
<1>4. /\ ThrType' /\ thr'[t].pc = label /\ thr'[t].c = k
      /\ \A u \in Threads \ {t} : thr'[u] = thr[u]
  <2>1. label \in ThreadPCs /\ thr[t] \in ThreadState
    BY DEF ThreadPCs, LifeInv, Types, ThrType
  <2>2. PICK r : r = [thr[t] EXCEPT !.pc = label, !.c = k, !.want = want]
    OBVIOUS
  <2>3. r \in ThreadState /\ r.pc = label /\ r.c = k
    BY <2>1, <2>2 DEF ThreadState
  <2>4. thr' = [thr EXCEPT ![t] = r]
    BY <2>2 DEF LifeInv, Types, ThrType
  <2>5. thr \in [Threads -> ThreadState]
    BY DEF LifeInv, Types, ThrType
  <2>6. thr' \in [Threads -> ThreadState]
    BY <2>3, <2>4, <2>5
  <2>7. thr'[t] = r /\ \A u \in Threads \ {t} : thr'[u] = thr[u]
    BY <2>4, <2>5
  <2> QED BY <2>3, <2>6, <2>7 DEF ThrType
<1>5. Types'
  BY <1>3, <1>4 DEF LifeInv, Types, RegType, RestType
<1>6. \A d \in Controls : Listed(d)' = Listed(d) /\ Runs(d)' = Runs(d)
  BY <1>4 DEF Listed, Runs, Threads
<1>7. User(t)' /\ Control(k)'
  BY <1>1, <1>2, <1>3, <1>4, <1>6 DEF User, Control, Busy, InCreate, Reclaiming, NoneRuns
<1>8. \A d \in Controls \ {k} : SameControl(d)
  BY <1>3, <1>6 DEF SameControl
<1>9. ThreadMoves(t, k) /\ ReaperKept
  BY <1>1, <1>4, <1>7, <1>8 DEF ThreadMoves, ReaperKept
<1> QED BY <1>5, <1>9, ThreadFrame

LEMMA JoinClaimStep ==
    ASSUME LifeInv, NEW t \in Threads, NEW h \in handles, JoinClaim(t, h)
    PROVE  LifeInv'
<1>1. PICK k : k = FindControl(h.tid)
  OBVIOUS
<1>2. k \in Controls /\ Listed(k) /\ ctl[k].published
  BY <1>1, FoundListed DEF JoinClaim, LifeInv, Types
<1>3. h.serial \in 0 .. MaxThreads
  BY ThreadConstants DEF LifeInv, Types, RestType
<1>4. /\ thr[t].pc = "idle" /\ ctl[k].life = "JOINABLE"
      /\ ctl' = [ctl EXCEPT ![k].life = "JOINING"]
      /\ thr' = [thr EXCEPT ![t].pc = "join", ![t].c = k, ![t].want = h.serial]
      /\ UNCHANGED <<registry, reaper, dying, faults, born, handles, owed>>
  BY <1>1 DEF JoinClaim
<1> QED BY <1>2, <1>3, <1>4, ClaimFrame

(* thrd_detach of a thread that may run, be dead or be in thrd_create's    *)
(* hands: only the last is not claimed, since it is not published.         *)
LEMMA DetachFoundStep ==
    ASSUME LifeInv, NEW t \in Threads, NEW k \in Controls, NEW serial \in 0 .. MaxThreads,
           thr[t].pc = "idle", (Listed(k) /\ ctl[k].published) \/ k = t, DetachFound(t, k, serial),
           UNCHANGED <<registry, dying, faults, born, handles>>
    PROVE  LifeInv'
<1>1. Control(k) /\ ctl[k] \in ControlType /\ ctl[k].life = "JOINABLE"
  BY DEF LifeInv, Types, CtlType, DetachFound
<1>2. k = t => Runs(k)
  BY DEF Runs
<1>3. CASE ctl[k].clear = "cleared" /\ ctl[k].published
  <2>1. Listed(k) /\ ~Runs(k)
    BY <1>1, <1>2, <1>3 DEF Control
  <2>2. /\ ctl' = [ctl EXCEPT ![k].life = "REAPING"]
        /\ thr' = [thr EXCEPT ![t].pc = "detachunmap", ![t].c = k, ![t].want = serial]
        /\ UNCHANGED <<reaper, owed>>
    BY <1>3 DEF DetachFound
  <2> QED BY <1>1, <1>3, <2>1, <2>2, ClaimFrame
<1>4. CASE ~(ctl[k].clear = "cleared" /\ ctl[k].published)
  <2>1. /\ ctl' = [ctl EXCEPT ![k].life = "DETACHED"] /\ thr' = thr
        /\ owed' = owed \ {serial}
    BY <1>4 DEF DetachFound
  <2>2. PICK r : /\ r = (IF reaper.pc = "none" THEN [reaper EXCEPT !.pc = "lock"] ELSE reaper)
                 /\ reaper' = (IF ctl[k].published THEN NotifyReaper(r) ELSE r)
    BY <1>4 DEF DetachFound
  <2>3. reaper \in ReaperState
    BY DEF LifeInv, Types, RestType, ReaperState
  <2>4. /\ r \in ReaperState /\ r.c = reaper.c /\ r.next = reaper.next
        /\ r.pc = (IF reaper.pc = "none" THEN "lock" ELSE reaper.pc)
    BY <2>2, <2>3 DEF ReaperState, ReaperPCs
  <2>5. reaper' \in ReaperState /\ ReaperKept
    <3>1. PICK n : n = NotifyReaper(r)
      OBVIOUS
    <3>2. /\ n \in ReaperState /\ n.c = r.c /\ n.next = r.next
          /\ n.pc = (IF r.pc = "asleep" THEN "lock" ELSE r.pc)
      BY <3>1, <2>4, Notified
    <3>3. reaper' \in {r, n}
      BY <2>2, <3>1
    <3> QED BY <2>4, <3>2, <3>3 DEF ReaperKept, ReaperBusy
  <2>6. /\ CtlType' /\ \A d \in Controls \ {k} : ctl'[d] = ctl[d]
        /\ ctl'[k].heap = ctl[k].heap /\ ctl'[k].mapped = ctl[k].mapped
        /\ ctl'[k].life = "DETACHED" /\ ctl'[k].published = ctl[k].published
        /\ ctl'[k].clear = ctl[k].clear /\ ctl'[k].serial = ctl[k].serial
    BY <2>1, <1>1 DEF LifeInv, Types, CtlType, ControlType, Lifecycles
  <2>7. Types'
    BY <2>1, <2>5, <2>6 DEF LifeInv, Types, RegType, ThrType, RestType, ReaperState
  <2>8. \A d \in Controls : Listed(d)' = Listed(d) /\ Runs(d)' = Runs(d)
    BY <2>1 DEF Listed, Runs
  <2>9. ASSUME NEW u \in Threads PROVE User(u)'
    <3>1. /\ User(u) /\ thr'[u] = thr[u] /\ thr[u].c \in Controls \cup {None}
          /\ (thr[u].pc \in Busy <=> thr[u].c # None)
      BY <2>1 DEF LifeInv, User, Types, ThrType, ThreadState
    <3>2. CASE thr[u].c = None
      BY <3>1, <3>2 DEF User, Busy, InCreate, Reclaiming, NoneRuns
    <3>3. CASE thr[u].c = k
      BY <3>1, <3>3, <1>1, <2>6, <2>8 DEF User
    <3>4. CASE thr[u].c \in Controls \ {k}
      BY <3>1, <3>4, <2>6, <2>8 DEF User
    <3> QED BY <3>1, <3>2, <3>3, <3>4
  <2>10. ASSUME NEW d \in Controls PROVE Control(d)'
    BY <2>6, <2>8 DEF LifeInv, Control
  <2>11. Reaping'
    <3>1. Reaping /\ (reaper.c # None => reaper.c \in Controls)
      BY DEF LifeInv, Types, RestType
    <3>2. CASE reaper.c = None
      BY <3>1, <3>2, <2>5 DEF Reaping, ReaperKept, ReaperBusy
    <3>3. CASE reaper.c # None
      <4>1. /\ reaper.c \in Controls \ {k} /\ reaper'.c = reaper.c /\ reaper'.pc = reaper.pc
            /\ reaper'.next = reaper.next
        BY <3>1, <3>3, <1>1, <2>5 DEF Reaping, ReaperBusy, ReaperKept
      <4> QED BY <3>1, <4>1, <2>6, <2>8 DEF Reaping, ReaperBusy
    <3> QED BY <3>2, <3>3
  <2>12. Exclusive'
    BY <2>1, <2>5 DEF LifeInv, Exclusive, ReaperKept
  <2> QED BY <2>7, <2>9, <2>10, <2>11, <2>12 DEF LifeInv
<1> QED BY <1>3, <1>4

LEMMA DetachSteps ==
    ASSUME LifeInv,
           \/ \E t \in Threads : \E h \in handles : Detach(t, h)
           \/ \E c \in Controls : DetachSelf(c)
    PROVE  LifeInv'
<1>1. ASSUME NEW t \in Threads, NEW h \in handles, Detach(t, h) PROVE LifeInv'
  <2>1. PICK k : k = FindControl(h.tid)
    OBVIOUS
  <2>2. k \in Controls /\ Listed(k) /\ ctl[k].published
    BY <1>1, <2>1, FoundListed DEF Detach, LifeInv, Types
  <2>3. h.serial \in 0 .. MaxThreads
    BY ThreadConstants DEF LifeInv, Types, RestType
  <2>4. /\ thr[t].pc = "idle" /\ DetachFound(t, k, h.serial)
        /\ UNCHANGED <<registry, dying, faults, born, handles>>
    BY <1>1, <2>1 DEF Detach
  <2> QED BY <2>2, <2>3, <2>4, DetachFoundStep
<1>2. ASSUME NEW c \in Controls, DetachSelf(c) PROVE LifeInv'
  <2>1. ctl[c].serial \in 0 .. MaxThreads /\ c \in Threads
    BY DEF LifeInv, Types, CtlType, ControlType, Threads
  <2>2. /\ thr[c].pc = "idle" /\ DetachFound(c, c, ctl[c].serial)
        /\ UNCHANGED <<registry, dying, faults, born, handles>>
    BY <1>2 DEF DetachSelf
  <2> QED BY <2>1, <2>2, DetachFoundStep
<1> QED BY <1>1, <1>2

LEMMA JoinCheckStep ==
    ASSUME LifeInv, NEW t \in Threads, JoinCheck(t)
    PROVE  LifeInv'
<1>1. /\ thr[t].pc = "join" /\ "join" \in Busy
      /\ UNCHANGED <<ctl, registry, reaper, dying, faults, born, handles, owed>>
  BY DEF JoinCheck, Busy, Reclaiming
<1>2. PICK k \in Controls : k = thr[t].c
  BY <1>1, Mine
<1>3. Control(k) /\ User(t) /\ ctl[k] \in ControlType
  BY <1>1, <1>2, Mine
<1>4. PICK label \in {"joinunmap", "joinwait"} :
        label = IF ctl[k].clear = "cleared" THEN "joinunmap" ELSE "joinwait"
  OBVIOUS
<1>5. PICK r : r = [thr[t] EXCEPT !.pc = label, !.seen = ctl[k].clear]
  OBVIOUS
<1>6. thr' = [thr EXCEPT ![t] = r]
  BY <1>2, <1>4, <1>5 DEF JoinCheck, LifeInv, Types, ThrType
<1>7. r \in ThreadState /\ r.pc = label /\ r.c = k /\ r.seen = ctl[k].clear
  <2>1. label \in ThreadPCs /\ thr[t] \in ThreadState /\ ctl[k].clear \in Tids \cup {"unset", "cleared"}
    BY <1>3 DEF ThreadPCs, LifeInv, Types, ThrType, ControlType
  <2> QED BY <1>2, <1>5, <2>1 DEF ThreadState
<1>8. ThrType' /\ thr'[t] = r /\ \A u \in Threads \ {t} : thr'[u] = thr[u]
  BY <1>6, <1>7 DEF LifeInv, Types, ThrType
<1>9. Types' /\ \A d \in Controls : SameControl(d)
  BY <1>1, <1>8, SameControls DEF LifeInv, Types, CtlType, RegType, RestType
<1>10. \A d \in Controls : Runs(d)' = Runs(d)
  BY <1>1, <1>4, <1>7, <1>8 DEF Runs, Threads
<1>11. User(t)'
  BY <1>1, <1>2, <1>3, <1>4, <1>7, <1>8, <1>9, <1>10
     DEF User, Control, Busy, InCreate, Reclaiming, NoneRuns, SameControl
<1>12. ThreadMoves(t, None) /\ ReaperKept
  BY <1>1, <1>2, <1>4, <1>7, <1>8, <1>9, <1>11 DEF ThreadMoves, ReaperKept
<1> QED BY <1>9, <1>12, ThreadFrame

(* A sleeper on an unchanged word sleeps on a thread that still runs.      *)
LEMMA JoinSleepSteps ==
    ASSUME LifeInv, NEW t \in Threads, JoinWait(t) \/ JoinInterrupted(t)
    PROVE  LifeInv'
<1>1. PICK label \in {"joinsleep", "join", "restore"} :
        /\ Goto(t, label) /\ thr[t].pc \in {"joinwait", "joinsleep"}
        /\ label = "joinsleep" => thr[t].pc = "joinwait" /\ ctl[thr[t].c].clear = thr[t].seen
        /\ UNCHANGED <<ctl, registry, reaper, dying, born, handles, owed>>
        /\ faults' \in 0 .. MaxFaults
  BY FaultCounted DEF JoinWait, JoinInterrupted, LifeInv, Types
<1>2. PICK k \in Controls : k = thr[t].c
  BY <1>1, Mine DEF Busy, Reclaiming
<1>3. Control(k) /\ User(t)
  BY DEF LifeInv
<1>4. label = "joinsleep" => Runs(k)
  BY <1>1, <1>2, <1>3 DEF User, Control, Busy, Reclaiming
<1>5. CtlType' /\ RestType' /\ \A d \in Controls : SameControl(d)
  BY <1>1, SameControls, SameRest DEF LifeInv, Types, CtlType
<1>6. ASSUME thr'[t].pc = label, thr'[t].c = thr[t].c, \A d \in Controls : Runs(d)' = Runs(d)
      PROVE  User(t)'
  BY <1>1, <1>2, <1>3, <1>4, <1>5, <1>6
     DEF User, Busy, InCreate, Reclaiming, NoneRuns, SameControl
<1> QED BY <1>1, <1>5, <1>6, GotoFrame DEF ThreadPCs

LEMMA UnmapStep ==
    ASSUME LifeInv, NEW t \in Threads, Unmap(t)
    PROVE  LifeInv'
<1>1. /\ thr[t].pc \in {"joinunmap", "detachunmap"} /\ thr[t].pc \in Busy
      /\ UNCHANGED <<registry, reaper, dying, born, handles, owed>>
      /\ faults' \in 0 .. MaxFaults
  BY FaultCounted DEF Unmap, Busy, Reclaiming, LifeInv, Types
<1>2. PICK k \in Controls : k = thr[t].c
  BY <1>1, Mine
<1>3. /\ k # None /\ reaper.c # k /\ \A u \in Threads \ {t} : thr[u].c # k
      /\ Control(k) /\ User(t) /\ ctl[k] \in ControlType
  BY <1>1, <1>2, Mine
<1>4. ~Runs(k)
  BY <1>1, <1>2, <1>3 DEF User, NoneRuns
<1>5. RestType'
  BY <1>1, SameRest DEF LifeInv, Types
<1>6. ASSUME NEW label \in {"collect", "unlink"}, Goto(t, label),
             ctl' = [ctl EXCEPT ![k].mapped = FALSE]
      PROVE  LifeInv'
  <2>1. /\ CtlType' /\ \A d \in Controls \ {k} : ctl'[d] = ctl[d]
        /\ ctl'[k].heap = ctl[k].heap /\ ~ctl'[k].mapped
        /\ ctl'[k].life = ctl[k].life /\ ctl'[k].published = ctl[k].published
        /\ ctl'[k].clear = ctl[k].clear /\ ctl'[k].serial = ctl[k].serial
    BY <1>3, <1>6 DEF LifeInv, Types, CtlType, ControlType
  <2>2. /\ ThrType' /\ thr'[t].pc = label /\ thr'[t].c = k
        /\ \A u \in Threads \ {t} : thr'[u] = thr[u]
    BY <1>2, <1>6, GotoMoves DEF LifeInv, Types, ThreadPCs
  <2>3. Listed(k)' = Listed(k) /\ ~Runs(k)'
    BY <1>1, <1>4, <2>2 DEF Listed, Runs, Threads
  <2>4. User(t)' /\ Control(k)'
    BY <1>1, <1>2, <1>3, <1>4, <2>1, <2>2, <2>3
       DEF User, Control, Busy, InCreate, Reclaiming, NoneRuns
  <2>5. \A d \in Controls \ {k} : SameControl(d)
    BY <1>1, <2>1 DEF SameControl, Listed
  <2>6. ThreadMoves(t, k) /\ ReaperKept
    BY <1>1, <1>3, <2>2, <2>4, <2>5 DEF ThreadMoves, ReaperKept
  <2>7. Types'
    BY <1>1, <1>5, <2>1, <2>2 DEF LifeInv, Types, RegType
  <2> QED BY <2>6, <2>7, ThreadFrame
<1>7. CASE Goto(t, "restore") /\ UNCHANGED ctl
  <2>1. CtlType' /\ \A d \in Controls : SameControl(d)
    BY <1>1, <1>7, SameControls DEF LifeInv, Types, CtlType
  <2>2. ASSUME thr'[t].pc = "restore", thr'[t].c = thr[t].c
        PROVE  User(t)'
    BY <1>1, <1>2, <1>3, <2>1, <2>2
       DEF User, Busy, InCreate, Reclaiming, NoneRuns, SameControl
  <2> QED BY <1>1, <1>5, <1>7, <2>1, <2>2, GotoFrame DEF ThreadPCs
<1> QED BY <1>2, <1>6, <1>7 DEF Unmap

LEMMA RestoreStep ==
    ASSUME LifeInv, NEW t \in Threads, Restore(t)
    PROVE  LifeInv'
<1>1. /\ thr[t].pc = "restore" /\ "restore" \in Busy /\ Return(t)
      /\ UNCHANGED <<registry, reaper, dying, faults, born, handles, owed>>
  BY DEF Restore, Busy, Reclaiming
<1>2. PICK k \in Controls : k = thr[t].c
  BY <1>1, Mine
<1>3. /\ k # None /\ reaper.c # k /\ \A u \in Threads \ {t} : thr[u].c # k
      /\ Control(k) /\ ctl[k] \in ControlType
  BY <1>1, <1>2, Mine
<1>4. /\ CtlType' /\ \A d \in Controls \ {k} : ctl'[d] = ctl[d]
      /\ ctl'[k].heap = ctl[k].heap /\ ctl'[k].mapped = ctl[k].mapped
      /\ ctl'[k].published = ctl[k].published
      /\ ctl'[k].clear = ctl[k].clear /\ ctl'[k].serial = ctl[k].serial
  <2>1. ctl' = [ctl EXCEPT ![k].life = "JOINABLE"]
    BY <1>2 DEF Restore
  <2> QED BY <2>1, <1>3 DEF LifeInv, Types, CtlType, ControlType, Lifecycles
<1>5. /\ ThrType' /\ thr'[t].pc = "idle" /\ thr'[t].c = None
      /\ \A u \in Threads \ {t} : thr'[u] = thr[u]
  BY <1>1, ReturnMoves DEF LifeInv, Types
<1>6. Types'
  BY <1>1, <1>4, <1>5 DEF LifeInv, Types, RegType, RestType
<1>7. Listed(k)' = Listed(k) /\ Runs(k)' = Runs(k)
  BY <1>1, <1>5 DEF Listed, Runs, Threads
<1>8. User(t)' /\ Control(k)'
  BY <1>3, <1>4, <1>5, <1>7 DEF User, Control, Busy, InCreate, Reclaiming, NoneRuns
<1>9. \A d \in Controls \ {k} : SameControl(d)
  BY <1>1, <1>4 DEF SameControl, Listed
<1>10. ThreadMoves(t, k) /\ ReaperKept
  BY <1>1, <1>3, <1>5, <1>8, <1>9 DEF ThreadMoves, ReaperKept
<1> QED BY <1>6, <1>10, ThreadFrame

LEMMA CollectStep ==
    ASSUME LifeInv, NEW t \in Threads, JoinCollect(t)
    PROVE  LifeInv'
<1>1. /\ thr[t].pc = "collect" /\ "collect" \in Busy
      /\ UNCHANGED <<ctl, registry, reaper, dying, faults, born, handles, owed>>
  BY DEF JoinCollect, Busy, Reclaiming
<1>2. PICK k \in Controls : k = thr[t].c
  BY <1>1, Mine
<1>3. Control(k) /\ User(t) /\ ctl[k] \in ControlType
  BY <1>1, <1>2, Mine
<1>4. PICK r : r = [thr[t] EXCEPT !.pc = "unlink", !.got = ctl[k].result]
  OBVIOUS
<1>5. thr' = [thr EXCEPT ![t] = r]
  BY <1>2, <1>4 DEF JoinCollect, LifeInv, Types, ThrType
<1>6. r \in ThreadState /\ r.pc = "unlink" /\ r.c = k
  <2>1. "unlink" \in ThreadPCs /\ thr[t] \in ThreadState /\ ctl[k].result \in 0 .. MaxThreads
    BY <1>3 DEF ThreadPCs, LifeInv, Types, ThrType, ControlType
  <2> QED BY <1>2, <1>4, <2>1 DEF ThreadState
<1>7. ThrType' /\ thr'[t] = r /\ \A u \in Threads \ {t} : thr'[u] = thr[u]
  BY <1>5, <1>6 DEF LifeInv, Types, ThrType
<1>8. Types' /\ \A d \in Controls : SameControl(d)
  BY <1>1, <1>7, SameControls DEF LifeInv, Types, CtlType, RegType, RestType
<1>9. \A d \in Controls : Runs(d)' = Runs(d)
  BY <1>1, <1>6, <1>7 DEF Runs, Threads
<1>10. User(t)'
  BY <1>1, <1>2, <1>3, <1>6, <1>7, <1>8, <1>9
     DEF User, Busy, InCreate, Reclaiming, NoneRuns, SameControl
<1>11. ThreadMoves(t, None) /\ ReaperKept
  BY <1>1, <1>2, <1>6, <1>7, <1>8, <1>10 DEF ThreadMoves, ReaperKept
<1> QED BY <1>8, <1>11, ThreadFrame

-----------------------------------------------------------------------------
(* The reaper.                                                             *)

(* A step of the reaper, in which it works on control c or on none.        *)
ReaperMoves(c) ==
    /\ thr' = thr /\ reaper'.c \in {c, None, reaper.c}
    /\ c # None => Control(c)' /\ \A u \in Threads : thr[u].c # c
    /\ \A d \in Controls \ {c} : SameControl(d)
    /\ Reaping'

LEMMA ReaperFrame ==
    ASSUME LifeInv, Types', NEW c \in Controls \cup {None}, ReaperMoves(c)
    PROVE  LifeInv'
<1>1. thr' = thr /\ \A d \in Controls : Runs(d)' = Runs(d)
  BY DEF ReaperMoves, Runs
<1>2. ASSUME NEW u \in Threads PROVE User(u)'
  <2>1. User(u) /\ thr'[u] = thr[u] /\ (thr[u].pc \in Busy <=> thr[u].c # None)
    BY <1>1 DEF LifeInv, User
  <2>2. thr[u] \in ThreadState
    BY DEF LifeInv, Types, ThrType
  <2>3. CASE thr[u].c = None
    BY <2>1, <2>3 DEF User, Busy, InCreate, Reclaiming, NoneRuns
  <2>4. CASE thr[u].c # None
    <3>1. thr[u].c \in Controls \ {c}
      BY <2>2, <2>4 DEF ThreadState, ReaperMoves
    <3>2. SameControl(thr[u].c) /\ Runs(thr[u].c)' = Runs(thr[u].c)
      BY <3>1, <1>1 DEF ReaperMoves
    <3> QED BY <2>1, <3>2 DEF User, SameControl, Runs
  <2> QED BY <2>3, <2>4
<1>3. ASSUME NEW d \in Controls PROVE Control(d)'
  <2>1. CASE d = c
    BY <2>1, ThreadConstants DEF ReaperMoves
  <2>2. CASE d # c
    <3>1. SameControl(d) /\ Control(d)
      BY <2>2 DEF ReaperMoves, LifeInv
    <3> QED BY <3>1, <1>1 DEF SameControl, Control
  <2> QED BY <2>1, <2>2
<1>4. Exclusive'
  BY <1>1 DEF LifeInv, Exclusive, ReaperMoves
<1>5. Reaping'
  BY DEF ReaperMoves
<1> QED BY <1>2, <1>3, <1>4, <1>5 DEF LifeInv

(* The reaper's control, while it works on one.                            *)
LEMMA Reaped ==
    ASSUME LifeInv, reaper.pc \in ReaperBusy
    PROVE  /\ reaper.c \in Controls /\ reaper.c # None /\ \A u \in Threads : thr[u].c # reaper.c
           /\ Control(reaper.c) /\ ctl[reaper.c] \in ControlType /\ Reaping
<1>1. Reaping /\ reaper.c \in Controls /\ reaper.c # None
  BY DEF LifeInv, Types, RestType, Reaping
<1> QED BY <1>1 DEF LifeInv, Exclusive, Types, CtlType

(* Waits, the start of a scan and its end: no control changes.             *)
LEMMA ReaperWaitSteps ==
    ASSUME LifeInv,
           ReaperLock \/ ReaperPoll \/ ReaperWaitEvent \/ ReaperInterrupted
    PROVE  LifeInv'
<1>1. UNCHANGED <<ctl, registry, count, thr, dying, faults, born, handles, owed>>
  BY DEF ReaperLock, ReaperPoll, ReaperWaitEvent, ReaperInterrupted
<1>2. reaper \in ReaperState /\ Reaping
  BY DEF LifeInv, Types, RestType, ReaperState
<1>3. /\ reaper' \in ReaperState /\ reaper'.c = None
      /\ reaper'.pc \in {"scan", "lock", "asleep"}
      /\ reaper'.pc = "scan" => reaper'.next = 1
  <2>1. CASE ReaperLock
    <3>1. /\ reaper.c = None /\ reaper' = [reaper EXCEPT !.pc = "scan", !.next = 1]
      BY <1>2, <2>1 DEF ReaperLock, Reaping, ReaperBusy
    <3> QED BY <1>2, <3>1 DEF ReaperState, ReaperPCs
  <2>2. CASE ReaperPoll
    <3>1. reaper' = [reaper EXCEPT !.pc = "lock", !.c = None]
      BY <2>2 DEF ReaperPoll
    <3> QED BY <1>2, <3>1 DEF ReaperState, ReaperPCs
  <2>3. CASE ReaperWaitEvent \/ ReaperInterrupted
    <3>1. PICK label \in {"lock", "asleep"} : reaper' = [reaper EXCEPT !.pc = label]
      BY <2>3 DEF ReaperWaitEvent, ReaperInterrupted, ReaperGoto
    <3>2. reaper.c = None
      BY <1>2, <2>3 DEF ReaperWaitEvent, ReaperInterrupted, Reaping, ReaperBusy
    <3> QED BY <1>2, <3>1, <3>2 DEF ReaperState, ReaperPCs
  <2> QED BY <2>1, <2>2, <2>3
<1>4. Types' /\ \A d \in Controls : SameControl(d)
  BY <1>1, <1>3, SameControls DEF LifeInv, Types, CtlType, RegType, ThrType, RestType, ReaperState
<1>5. Reaping'
  BY <1>3 DEF Reaping, ReaperBusy
<1>6. ReaperMoves(None)
  BY <1>1, <1>3, <1>4, <1>5 DEF ReaperMoves
<1> QED BY <1>4, <1>6, ReaperFrame

LEMMA ObserveStep ==
    ASSUME LifeInv, ReaperObserve
    PROVE  LifeInv'
<1>1. UNCHANGED <<ctl, registry, thr, dying, faults, born, handles, owed>>
  BY DEF ReaperObserve
<1>2. reaper \in ReaperState /\ Reaping
  BY DEF LifeInv, Types, RestType, ReaperState
<1>3. \A d \in Controls : SameControl(d) /\ Runs(d)' = Runs(d)
  BY <1>1, SameControls DEF Runs
<1>4. CASE reaper' = [pc |-> "poll", c |-> FirstDetached, next |-> 0, notified |-> FALSE]
           /\ FirstDetached # None
  <2>1. PICK k : k = FirstDetached
    OBVIOUS
  <2>2. /\ k \in Controls /\ k # None /\ Listed(k) /\ ctl[k].published
        /\ ctl[k].life = "DETACHED"
    BY <1>4, <2>1, FirstListed DEF LifeInv, Types
  <2>3. (\A u \in Threads : thr[u].c # k) /\ Control(k)
    BY <2>2, Unclaimed DEF LifeInv
  <2>4. reaper' \in ReaperState /\ reaper'.c = k /\ reaper'.pc = "poll" /\ reaper'.next = 0
    BY <1>4, <2>1, <2>2 DEF ReaperState, ReaperPCs
  <2>5. Reaping'
    BY <1>3, <2>2, <2>3, <2>4 DEF Reaping, ReaperBusy, SameControl, Control
  <2>6. Control(k)'
    BY <1>3, <2>2, <2>3 DEF Control, SameControl
  <2>7. ReaperMoves(k)
    BY <1>1, <1>3, <2>3, <2>4, <2>5, <2>6 DEF ReaperMoves
  <2>8. Types'
    BY <1>1, <2>4 DEF LifeInv, Types, CtlType, RegType, ThrType, RestType, ReaperState
  <2> QED BY <2>2, <2>7, <2>8, ReaperFrame
<1>5. CASE reaper' = [pc |-> "event", c |-> None, next |-> 0, notified |-> FALSE]
  <2>1. reaper' \in ReaperState /\ reaper'.c = None /\ reaper'.pc = "event"
    BY <1>5 DEF ReaperState, ReaperPCs
  <2>2. Reaping'
    BY <2>1 DEF Reaping, ReaperBusy
  <2>3. ReaperMoves(None)
    BY <1>1, <1>3, <2>1, <2>2 DEF ReaperMoves
  <2>4. Types'
    BY <1>1, <2>1 DEF LifeInv, Types, CtlType, RegType, ThrType, RestType, ReaperState
  <2> QED BY <2>3, <2>4, ReaperFrame
<1> QED BY <1>4, <1>5 DEF ReaperObserve

LEMMA ScanStep ==
    ASSUME LifeInv, ReaperScan
    PROVE  LifeInv'
<1>1. /\ reaper.pc = "scan" /\ reaper.next <= Len(registry)
      /\ UNCHANGED <<registry, thr, dying, faults, born, handles, owed>>
  BY DEF ReaperScan
<1>2. reaper \in ReaperState /\ Reaping
  BY DEF LifeInv, Types, RestType, ReaperState
<1>3. reaper.next \in DOMAIN registry /\ reaper.c = None
  BY <1>1, <1>2 DEF ReaperState, Reaping, ReaperBusy, LifeInv, Types, RegType
<1>4. PICK k \in Controls : k = registry[reaper.next]
  BY <1>3 DEF LifeInv, Types, RegType
<1>5. Listed(k) /\ ctl[k] \in ControlType /\ Control(k) /\ k # None
  BY <1>3, <1>4, ThreadConstants DEF Listed, LifeInv, Types, CtlType
<1>6. \A d \in Controls : Runs(d)' = Runs(d) /\ Listed(d)' = Listed(d)
  BY <1>1 DEF Runs, Listed
<1>7. CASE Reapable(k)
  <2>1. /\ ctl' = [ctl EXCEPT ![k].life = "REAPING"]
        /\ reaper' = [reaper EXCEPT !.pc = "unmap", !.c = k, !.next = 0]
    BY <1>4, <1>7 DEF ReaperScan
  <2>2. ~Runs(k) /\ ctl[k].heap /\ ctl[k].published /\ \A u \in Threads : thr[u].c # k
    BY <1>5, <1>7, Unclaimed DEF Reapable, Control
  <2>3. /\ CtlType' /\ \A d \in Controls \ {k} : ctl'[d] = ctl[d]
        /\ ctl'[k].heap = ctl[k].heap /\ ctl'[k].mapped = ctl[k].mapped
        /\ ctl'[k].life = "REAPING" /\ ctl'[k].published = ctl[k].published
        /\ ctl'[k].clear = ctl[k].clear /\ ctl'[k].serial = ctl[k].serial
    BY <2>1, <1>5 DEF LifeInv, Types, CtlType, ControlType, Lifecycles
  <2>4. reaper' \in ReaperState /\ reaper'.pc = "unmap" /\ reaper'.c = k
    BY <2>1, <1>2 DEF ReaperState, ReaperPCs
  <2>5. Reaping' /\ Control(k)'
    BY <1>5, <1>6, <2>2, <2>3, <2>4 DEF Reaping, ReaperBusy, Control
  <2>6. \A d \in Controls \ {k} : SameControl(d)
    BY <1>6, <2>3 DEF SameControl
  <2>7. ReaperMoves(k)
    BY <1>1, <2>2, <2>4, <2>5, <2>6 DEF ReaperMoves
  <2>8. Types'
    BY <1>1, <2>3, <2>4 DEF LifeInv, Types, RegType, ThrType, RestType, ReaperState
  <2> QED BY <2>7, <2>8, ReaperFrame
<1>8. CASE ~Reapable(k)
  <2>1. ctl' = ctl /\ reaper' = [reaper EXCEPT !.next = @ + 1]
    BY <1>4, <1>8 DEF ReaperScan
  <2>2. /\ reaper' \in ReaperState /\ reaper'.pc = "scan" /\ reaper'.c = None
        /\ reaper'.next # 0
    BY <2>1, <1>1, <1>2, <1>3 DEF ReaperState
  <2>3. Reaping'
    BY <2>2 DEF Reaping, ReaperBusy
  <2>4. Types' /\ \A d \in Controls : SameControl(d)
    BY <1>1, <2>1, <2>2, SameControls
       DEF LifeInv, Types, CtlType, RegType, ThrType, RestType, ReaperState
  <2>5. ReaperMoves(None)
    BY <1>1, <2>2, <2>3, <2>4 DEF ReaperMoves
  <2> QED BY <2>4, <2>5, ReaperFrame
<1> QED BY <1>7, <1>8

LEMMA ReaperUnmapStep ==
    ASSUME LifeInv, ReaperUnmap
    PROVE  LifeInv'
<1>1. /\ reaper.pc = "unmap" /\ "unmap" \in ReaperBusy
      /\ UNCHANGED <<registry, thr, dying, born, handles, owed>>
      /\ faults' \in 0 .. MaxFaults
  BY FaultCounted DEF ReaperUnmap, ReaperBusy, LifeInv, Types
<1>2. PICK k \in Controls : k = reaper.c
  BY <1>1, Reaped
<1>3. /\ k # None /\ (\A u \in Threads : thr[u].c # k) /\ Control(k)
      /\ ctl[k] \in ControlType /\ Reaping /\ reaper \in ReaperState
  BY <1>1, <1>2, Reaped DEF LifeInv, Types, RestType, ReaperState
<1>4. /\ Listed(k) /\ ~Runs(k) /\ ctl[k].heap /\ ctl[k].published
      /\ ctl[k].life = "REAPING"
  BY <1>1, <1>2, <1>3 DEF Reaping
<1>5. \A d \in Controls : Runs(d)' = Runs(d) /\ Listed(d)' = Listed(d)
  BY <1>1 DEF Runs, Listed
<1>6. ASSUME NEW label \in {"unlink", "restore"}, ReaperGoto(label),
             NEW m \in BOOLEAN, label = "unlink" => ~m, m => ctl[k].mapped,
             ctl' = [ctl EXCEPT ![k].mapped = m]
      PROVE  LifeInv'
  <2>1. /\ CtlType' /\ \A d \in Controls \ {k} : ctl'[d] = ctl[d]
        /\ ctl'[k].heap = ctl[k].heap /\ ctl'[k].mapped = m
        /\ ctl'[k].life = ctl[k].life /\ ctl'[k].published = ctl[k].published
        /\ ctl'[k].clear = ctl[k].clear /\ ctl'[k].serial = ctl[k].serial
    BY <1>3, <1>6 DEF LifeInv, Types, CtlType, ControlType
  <2>2. reaper' \in ReaperState /\ reaper'.pc = label /\ reaper'.c = k
    BY <1>2, <1>3, <1>6 DEF ReaperState, ReaperPCs, ReaperGoto
  <2>3. Reaping' /\ Control(k)'
    BY <1>3, <1>4, <1>5, <1>6, <2>1, <2>2 DEF Reaping, ReaperBusy, Control
  <2>4. \A d \in Controls \ {k} : SameControl(d)
    BY <1>5, <2>1 DEF SameControl
  <2>5. ReaperMoves(k)
    BY <1>1, <1>3, <2>2, <2>3, <2>4 DEF ReaperMoves
  <2>6. Types'
    BY <1>1, <2>1, <2>2 DEF LifeInv, Types, RegType, ThrType, RestType, ReaperState
  <2> QED BY <2>5, <2>6, ReaperFrame
<1>7. CASE ReaperGoto("restore") /\ UNCHANGED ctl
  <2>1. ctl[k].mapped \in BOOLEAN /\ ctl' = [ctl EXCEPT ![k].mapped = ctl[k].mapped]
    BY <1>3, <1>7 DEF LifeInv, Types, CtlType, ControlType
  <2> QED BY <1>6, <1>7, <2>1
<1> QED BY <1>2, <1>6, <1>7 DEF ReaperUnmap

LEMMA ReaperLastSteps ==
    ASSUME LifeInv, ReaperRestore \/ ReaperFree
    PROVE  LifeInv'
<1>1. /\ reaper.pc \in {"restore", "free"} /\ reaper.pc \in ReaperBusy
      /\ UNCHANGED <<registry, thr, dying, faults, born, handles, owed>>
  BY DEF ReaperRestore, ReaperFree, ReaperBusy
<1>2. PICK k \in Controls : k = reaper.c
  BY <1>1, Reaped
<1>3. /\ k # None /\ (\A u \in Threads : thr[u].c # k) /\ Control(k)
      /\ ctl[k] \in ControlType /\ Reaping /\ reaper \in ReaperState
  BY <1>1, <1>2, Reaped DEF LifeInv, Types, RestType, ReaperState
<1>4. \A d \in Controls : Runs(d)' = Runs(d) /\ Listed(d)' = Listed(d)
  BY <1>1 DEF Runs, Listed
<1>5. reaper' \in ReaperState /\ reaper'.pc = "lock" /\ reaper'.c = None
  <2>1. CASE ReaperRestore
    <3>1. PICK n : n = NotifyReaper(reaper)
      OBVIOUS
    <3>2. n \in ReaperState
      BY <1>3, <3>1, Notified
    <3>3. reaper' = [n EXCEPT !.pc = "lock", !.c = None]
      BY <2>1, <3>1 DEF ReaperRestore
    <3> QED BY <3>2, <3>3 DEF ReaperState, ReaperPCs
  <2>2. CASE ReaperFree
    <3>1. reaper' = [reaper EXCEPT !.pc = "lock", !.c = None]
      BY <2>2 DEF ReaperFree
    <3> QED BY <1>3, <3>1 DEF ReaperState, ReaperPCs
  <2> QED BY <2>1, <2>2
<1>6. Reaping'
  BY <1>5 DEF Reaping, ReaperBusy
<1>7. /\ CtlType' /\ \A d \in Controls \ {k} : ctl'[d] = ctl[d]
      /\ Control(k)'
  <2>1. CASE ReaperRestore
    <3>1. ctl' = [ctl EXCEPT ![k].life = "DETACHED"]
      BY <2>1, <1>2 DEF ReaperRestore
    <3>2. /\ CtlType' /\ \A d \in Controls \ {k} : ctl'[d] = ctl[d]
          /\ ctl'[k].heap = ctl[k].heap /\ ctl'[k].mapped = ctl[k].mapped
          /\ ctl'[k].published = ctl[k].published
          /\ ctl'[k].clear = ctl[k].clear /\ ctl'[k].serial = ctl[k].serial
      BY <3>1, <1>3 DEF LifeInv, Types, CtlType, ControlType, Lifecycles
    <3> QED BY <3>2, <1>3, <1>4 DEF Control
  <2>2. CASE ReaperFree
    <3>1. ctl' = [ctl EXCEPT ![k].heap = FALSE] /\ reaper.pc = "free"
      BY <2>2, <1>2 DEF ReaperFree
    <3>2. ~Listed(k) /\ ~Runs(k) /\ ~ctl[k].mapped
      BY <3>1, <1>2, <1>3 DEF Reaping, ReaperBusy
    <3>3. /\ CtlType' /\ \A d \in Controls \ {k} : ctl'[d] = ctl[d]
          /\ ~ctl'[k].heap /\ ctl'[k].mapped = ctl[k].mapped
      BY <3>1, <1>3 DEF LifeInv, Types, CtlType, ControlType
    <3> QED BY <3>2, <3>3, <1>4 DEF Control
  <2> QED BY <2>1, <2>2
<1>8. \A d \in Controls \ {k} : SameControl(d)
  BY <1>4, <1>7 DEF SameControl
<1>9. ReaperMoves(k)
  BY <1>1, <1>3, <1>5, <1>6, <1>7, <1>8 DEF ReaperMoves
<1>10. Types'
  BY <1>1, <1>5, <1>7 DEF LifeInv, Types, RegType, ThrType, RestType, ReaperState
<1> QED BY <1>9, <1>10, ReaperFrame

LEMMA ReaperUnlinkStep ==
    ASSUME LifeInv, ReaperUnlink
    PROVE  LifeInv'
<1>1. /\ reaper.pc = "unlink" /\ "unlink" \in ReaperBusy /\ ReaperGoto("free")
      /\ UNCHANGED <<ctl, thr, dying, faults, born, handles, owed>>
  BY DEF ReaperUnlink, ReaperBusy
<1>2. PICK k \in Controls : k = reaper.c
  BY <1>1, Reaped
<1>3. /\ k # None /\ (\A u \in Threads : thr[u].c # k) /\ Control(k)
      /\ Reaping /\ reaper \in ReaperState
  BY <1>1, <1>2, Reaped DEF LifeInv, Types, RestType, ReaperState
<1>4. Listed(k) /\ ~Runs(k) /\ ~ctl[k].mapped /\ ctl[k].heap /\ ctl[k].published
      /\ ctl[k].life = "REAPING"
  BY <1>1, <1>2, <1>3 DEF Reaping
<1>5. registry' = Unlinked(k)
  BY <1>2 DEF ReaperUnlink
<1>6. RegType' /\ \A d \in Controls : Listed(d)' <=> Listed(d) /\ d # k
  BY <1>4, <1>5, UnlinkList DEF LifeInv, Types
<1>7. reaper' \in ReaperState /\ reaper'.pc = "free" /\ reaper'.c = k
  BY <1>1, <1>2, <1>3 DEF ReaperState, ReaperPCs, ReaperGoto
<1>8. \A d \in Controls : Runs(d)' = Runs(d)
  BY <1>1 DEF Runs
<1>9. Reaping' /\ Control(k)'
  BY <1>1, <1>3, <1>4, <1>6, <1>7, <1>8 DEF Reaping, ReaperBusy, Control
<1>10. \A d \in Controls \ {k} : SameControl(d)
  BY <1>1, <1>6 DEF SameControl, Listed
<1>11. ReaperMoves(k)
  BY <1>1, <1>3, <1>7, <1>9, <1>10 DEF ReaperMoves
<1>12. Types'
  BY <1>1, <1>6, <1>7 DEF LifeInv, Types, CtlType, ThrType, RestType, ReaperState
<1> QED BY <1>11, <1>12, ReaperFrame

-----------------------------------------------------------------------------
(* The invariant and what it says of memory and of joiners.                *)
LEMMA LifeInitInv == Init => LifeInv
<1> SUFFICES ASSUME Init PROVE LifeInv
  OBVIOUS
<1>1. /\ 0 \in 0 .. MaxThreads /\ 0 \in 0 .. MaxFaults /\ "none" \in ThreadPCs
      /\ "idle" \in ThreadPCs /\ "none" \in ReaperPCs /\ "JOINABLE" \in Lifecycles
  BY ThreadConstants DEF ThreadPCs, ReaperPCs, Lifecycles
<1>2. /\ Asleep \in ThreadState /\ Asleep.pc = "none" /\ Asleep.c = None
  BY <1>1 DEF Asleep, ThreadState
<1>3. ThrType /\ \A t \in Threads : thr[t].pc = (IF t = Main THEN "idle" ELSE "none") /\ thr[t].c = None
  <2>1. PICK r : r = [Asleep EXCEPT !.pc = "idle"]
    OBVIOUS
  <2>2. r \in ThreadState /\ r.pc = "idle" /\ r.c = None
    BY <1>1, <1>2, <2>1 DEF ThreadState
  <2>3. thr = [t \in Threads |-> IF t = Main THEN r ELSE Asleep]
    BY <2>1 DEF Init
  <2> QED BY <1>2, <2>2, <2>3 DEF ThrType
<1>4. CtlType
  BY <1>1 DEF Init, CtlType, ControlType
<1>5. /\ \A c \in Controls : ~ctl[c].heap /\ ~ctl[c].mapped /\ ~ctl[c].published
      /\ RegType /\ \A c \in Controls : ~Listed(c)
  BY DEF Init, RegType, Listed
<1>6. RestType /\ reaper.pc = "none" /\ reaper.c = None
  BY <1>1, ThreadConstants DEF Init, RestType
<1>7. \A t \in Threads : User(t)
  BY <1>3 DEF User, Busy, InCreate, Reclaiming, NoneRuns
<1>8. \A c \in Controls : Control(c)
  <2>1. \A c \in Controls : ~Runs(c)
    BY <1>3, ThreadConstants DEF Runs, Threads
  <2> QED BY <1>5, <2>1 DEF Control
<1>9. Reaping
  BY <1>6 DEF Reaping, ReaperBusy
<1>10. Exclusive
  BY <1>3 DEF Exclusive
<1> QED BY <1>3, <1>4, <1>5, <1>6, <1>7, <1>8, <1>9, <1>10 DEF LifeInv, Types

LEMMA LifeStutter == LifeInv /\ UNCHANGED vars => LifeInv'
<1> SUFFICES ASSUME LifeInv, UNCHANGED vars PROVE LifeInv'
  OBVIOUS
<1>1. UNCHANGED <<ctl, registry, thr, reaper, dying, faults, born, handles, owed>>
  BY DEF vars
<1>2. Types'
  BY <1>1 DEF LifeInv, Types, CtlType, RegType, ThrType, RestType
<1>3. Reaping'
  BY <1>1 DEF LifeInv, Reaping, Listed, Runs
<1>4. \A d \in Controls : SameControl(d)
  BY <1>1, SameControls
<1>5. ReaperMoves(None)
  BY <1>1, <1>3, <1>4 DEF ReaperMoves
<1> QED BY <1>2, <1>5, ReaperFrame

LEMMA LifeStep == LifeInv /\ [Next]_vars => LifeInv'
<1> SUFFICES ASSUME LifeInv, [Next]_vars PROVE LifeInv'
  OBVIOUS
<1>1. ASSUME NEW t \in Threads, CreateStep(t) PROVE LifeInv'
  BY <1>1, AllocStep, MapStep, InsertStep, CountSteps, CloneStep, PublishStep, RemoveStep,
     FreeStep DEF CreateStep
<1>2. ASSUME NEW t \in Threads, ReclaimStep(t) PROVE LifeInv'
  BY <1>2, JoinCheckStep, JoinSleepSteps, UnmapStep, RestoreStep, CollectStep, RemoveStep,
     FreeStep DEF ReclaimStep
<1>3. ASSUME NEW t \in Threads,
             ExitResult(t) \/ ExitCount(t) \/ KernelExit(t) \/ JoinInterrupted(t)
      PROVE  LifeInv'
  BY <1>3, ExitResultStep, ExitCountStep, KernelExitStep, JoinSleepSteps
<1>4. ASSUME NEW t \in Threads, NEW h \in handles, JoinClaim(t, h) \/ Detach(t, h) PROVE LifeInv'
  BY <1>4, JoinClaimStep, DetachSteps
<1>5. ASSUME NEW c \in Controls, ThreadStart(c) \/ DetachSelf(c) PROVE LifeInv'
  BY <1>5, StartStep, DetachSteps
<1>6. ASSUME NEW tid \in dying, KernelBury(tid) PROVE LifeInv'
  BY <1>6, BuryStep
<1>7. ASSUME ReaperStep \/ ReaperInterrupted PROVE LifeInv'
  BY <1>7, ReaperWaitSteps, ObserveStep, ScanStep, ReaperUnmapStep, ReaperLastSteps,
     ReaperUnlinkStep DEF ReaperStep
<1> QED BY <1>1, <1>2, <1>3, <1>4, <1>5, <1>6, <1>7, LifeStutter DEF Next

(* Every behaviour of the library keeps the invariant.                     *)
(* lifecycle.c: at every step, what each actor knows of the control it     *)
(* works on is still true.                                                 *)
THEOREM LifeInvariant == Spec => []LifeInv
<1>1. Init => LifeInv
  BY LifeInitInv
<1>2. LifeInv /\ [Next]_vars => LifeInv'
  BY LifeStep
<1> QED BY <1>1, <1>2, PTL DEF Spec

LEMMA InvSafe ==
    ASSUME LifeInv
    PROVE  NoUseAfterFree /\ StackOutlivesThread /\ SingleReclaimer /\ JoinerNotStranded
<1>1. \A t \in Threads : User(t) /\ thr[t].c \in Controls \cup {None}
  BY DEF LifeInv, Types, ThrType, ThreadState
<1>2. NoUseAfterFree
  <2>1. ASSUME NEW c \in Controls, UsesControl(c) PROVE ctl[c].heap
    BY <1>1, <2>1, ThreadConstants DEF UsesControl, LifeInv, Control, User, Reaping
  <2>2. ASSUME NEW i \in DOMAIN registry PROVE ctl[registry[i]].heap
    <3>1. registry[i] \in Controls /\ Listed(registry[i])
      BY DEF LifeInv, Types, RegType, Listed
    <3> QED BY <3>1 DEF LifeInv, Control
  <2> QED BY <2>1, <2>2 DEF NoUseAfterFree, LifeInv, Types, RegType
<1>3. StackOutlivesThread
  BY DEF StackOutlivesThread, LifeInv, Control
<1>4. SingleReclaimer
  <2> SUFFICES ASSUME NEW c \in Controls
               PROVE  /\ Cardinality(Reclaimers(c)) <= 1
                      /\ Reclaimers(c) # {} => ctl[c].life \in {"JOINING", "REAPING"}
    BY DEF SingleReclaimer
  <2>1. c # None
    BY ThreadConstants
  <2>2. \A x, y \in Reclaimers(c) : x = y
    BY <2>1 DEF Reclaimers, LifeInv, Exclusive
  <2>3. Reclaimers(c) = {} \/ \E x : Reclaimers(c) = {x}
    BY <2>2
  <2>4. Cardinality(Reclaimers(c)) \in {0, 1}
    BY <2>3, FS_EmptySet, FS_Singleton
  <2>5. ASSUME NEW t \in Threads, thr[t].c = c, thr[t].pc \notin InCreate
        PROVE  ctl[c].life \in {"JOINING", "REAPING"}
    BY <1>1, <2>1, <2>5 DEF User, Busy
  <2>6. ASSUME reaper.c = c, reaper.pc # "poll"
        PROVE  ctl[c].life \in {"JOINING", "REAPING"}
    BY <2>1, <2>6 DEF LifeInv, Reaping
  <2> QED BY <2>4, <2>5, <2>6 DEF Reclaimers
<1>5. JoinerNotStranded
  BY <1>1 DEF JoinerNotStranded, User
<1> QED BY <1>2, <1>3, <1>4, <1>5

(* lifecycle.c, thrd_join: the clear of the tid word and the joiner's      *)
(* FUTEX_WAIT cannot miss each other.                                      *)
THEOREM JoinersWoken == Spec => []JoinerNotStranded
  BY LifeInvariant, InvSafe, PTL

-----------------------------------------------------------------------------
(* The user-thread count.                                                  *)

(* How the count sees a thread.                                            *)
Kind(t) ==
    IF thr[t].pc \in {"none", "dead"} THEN "out"
    ELSE IF thr[t].pc = "exiting" THEN "exiting"
    ELSE IF thr[t].pc \in {"clone", "uncount"} THEN "promising"
    ELSE "running"

LEMMA ByKind ==
    /\ Counted = {t \in Threads : Kind(t) \in {"running", "promising"}}
    /\ Promised = {t \in Threads : Kind(t) = "promising"}
    /\ LastThreadExits <=>
         \A t \in Threads : Kind(t) = "exiting" => \A u \in Threads \ {t} : Kind(u) = "out"
  BY DEF Kind, Counted, Promised, LastThreadExits

LEMMA ByKindNext ==
    /\ Counted' = {t \in Threads : Kind(t)' \in {"running", "promising"}}
    /\ Promised' = {t \in Threads : Kind(t)' = "promising"}
    /\ LastThreadExits' <=>
         \A t \in Threads : Kind(t)' = "exiting" => \A u \in Threads \ {t} : Kind(u)' = "out"
  BY DEF Kind, Counted, Promised, LastThreadExits

LEMMA CountFinite ==
    /\ IsFiniteSet(Counted) /\ IsFiniteSet(Promised)
    /\ Cardinality(Counted) \in Nat /\ Cardinality(Promised) \in Nat
<1>1. IsFiniteSet(Threads)
  BY ThreadConstants, FS_AddElement DEF Threads
<1> QED BY <1>1, FS_Subset, FS_CardinalityType DEF Counted, Promised

LEMMA KindsKept ==
    ASSUME CountRight, UNCHANGED count, \A t \in Threads : Kind(t)' = Kind(t)
    PROVE  CountRight'
<1>1. Counted' = Counted /\ Promised' = Promised
  BY ByKind, ByKindNext
<1>2. LastThreadExits'
  BY ByKind, ByKindNext DEF CountRight
<1> QED BY <1>1, <1>2 DEF CountRight, CountExact

(* Steps that the count has nothing to do with.                            *)
LEMMA QuietSteps ==
    ASSUME LifeInv, CountRight, NEW t \in Threads,
           \/ CreateAlloc(t) \/ CreateMap(t) \/ CreateInsert(t) \/ CreatePublish(t)
           \/ CreateRemove(t) \/ CreateUnwind(t) \/ ReclaimStep(t) \/ JoinInterrupted(t)
           \/ ExitResult(t) \/ KernelExit(t)
           \/ \E h \in handles : JoinClaim(t, h) \/ Detach(t, h)
           \/ t \in Controls /\ (ThreadStart(t) \/ DetachSelf(t))
    PROVE  CountRight'
<1>1. thr \in [Threads -> ThreadState] /\ UNCHANGED count
  BY DEF LifeInv, Types, ThrType, CreateAlloc, CreateMap, CreateInsert, CreatePublish,
     CreateRemove, CreateUnwind, ReclaimStep, JoinCheck, JoinWait, Unmap, Restore, JoinCollect,
     Unlink, FreeControl, JoinInterrupted, ExitResult, KernelExit, JoinClaim, Detach,
     ThreadStart, DetachSelf
<1>2. ASSUME NEW label, Goto(t, label), label \notin {"none", "dead", "exiting", "clone", "uncount"},
             thr[t].pc \notin {"none", "dead", "exiting", "clone", "uncount"}
      PROVE  \A u \in Threads : Kind(u)' = Kind(u)
  BY <1>1, <1>2 DEF Goto, Kind, ThreadState
<1>3. ASSUME Return(t), thr[t].pc \notin {"none", "dead", "exiting", "clone", "uncount"}
      PROVE  \A u \in Threads : Kind(u)' = Kind(u)
  <2>1. thr'[t].pc = "idle" /\ \A u \in Threads \ {t} : thr'[u] = thr[u]
    BY <1>3, ReturnMoves DEF LifeInv, Types
  <2> QED BY <1>3, <2>1 DEF Kind
<1>4. ASSUME CreateAlloc(t)
      PROVE  \A u \in Threads : Kind(u)' = Kind(u)
  <2>1. PICK c \in Controls : thr' = [thr EXCEPT ![t].pc = "map", ![t].c = c]
    BY <1>4 DEF CreateAlloc
  <2>2. thr[t].pc = "idle" /\ thr'[t].pc = "map" /\ \A u \in Threads \ {t} : thr'[u] = thr[u]
    <3>1. PICK r : r = [thr[t] EXCEPT !.pc = "map", !.c = c]
      OBVIOUS
    <3>2. r.pc = "map" /\ thr' = [thr EXCEPT ![t] = r]
      BY <1>1, <2>1, <3>1 DEF ThreadState
    <3> QED BY <1>1, <1>4, <3>2 DEF CreateAlloc
  <2> QED BY <2>2 DEF Kind
<1>5. ASSUME NEW h \in handles, JoinClaim(t, h)
      PROVE  \A u \in Threads : Kind(u)' = Kind(u)
  <2>1. thr' = [thr EXCEPT ![t].pc = "join", ![t].c = FindControl(h.tid), ![t].want = h.serial]
    BY <1>5 DEF JoinClaim
  <2>2. thr[t].pc = "idle" /\ thr'[t].pc = "join" /\ \A u \in Threads \ {t} : thr'[u] = thr[u]
    <3>1. PICK r : r = [thr[t] EXCEPT !.pc = "join", !.c = FindControl(h.tid), !.want = h.serial]
      OBVIOUS
    <3>2. r.pc = "join" /\ thr' = [thr EXCEPT ![t] = r]
      BY <1>1, <2>1, <3>1 DEF ThreadState
    <3> QED BY <1>1, <1>5, <3>2 DEF JoinClaim
  <2> QED BY <2>2 DEF Kind
<1>6. ASSUME NEW c, NEW serial, DetachFound(t, c, serial), thr[t].pc = "idle"
      PROVE  \A u \in Threads : Kind(u)' = Kind(u)
  <2>1. CASE UNCHANGED thr
    BY <2>1 DEF Kind
  <2>2. CASE thr' = [thr EXCEPT ![t].pc = "detachunmap", ![t].c = c, ![t].want = serial]
    <3>1. thr'[t].pc = "detachunmap" /\ \A u \in Threads \ {t} : thr'[u] = thr[u]
      BY <1>1, <2>2 DEF ThreadState
    <3> QED BY <1>6, <3>1 DEF Kind
  <2> QED BY <1>6, <2>1, <2>2 DEF DetachFound
<1>7. ASSUME JoinCheck(t) \/ JoinCollect(t)
      PROVE  \A u \in Threads : Kind(u)' = Kind(u)
  <2>1. /\ thr[t].pc \in {"join", "collect"} /\ thr'[t].pc \in {"joinunmap", "joinwait", "unlink"}
        /\ \A u \in Threads \ {t} : thr'[u] = thr[u]
    BY <1>1, <1>7 DEF JoinCheck, JoinCollect, ThreadState
  <2> QED BY <2>1 DEF Kind
<1>8. ASSUME KernelExit(t)
      PROVE  \A u \in Threads : Kind(u)' = Kind(u)
  <2>1. /\ thr[t].pc = "dead" /\ thr'[t].pc = "none"
        /\ \A u \in Threads \ {t} :
             thr'[u].pc = (IF thr[u].pc = "joinsleep" /\ thr[u].c = t THEN "join" ELSE thr[u].pc)
    BY <1>1, <1>8 DEF KernelExit, Asleep, ThreadState
  <2> QED BY <2>1 DEF Kind
<1>9. CASE CreateMap(t)
  <2>1. thr[t].pc = "map" /\ (Goto(t, "insert") \/ Return(t))
    BY <1>9 DEF CreateMap
  <2> QED BY <1>1, <1>2, <1>3, <2>1, KindsKept
<1>10. CASE CreateInsert(t)
  <2>1. thr[t].pc = "insert" /\ Goto(t, "count")
    BY <1>10 DEF CreateInsert
  <2> QED BY <1>1, <1>2, <2>1, KindsKept
<1>11. CASE CreatePublish(t) \/ CreateUnwind(t) \/ Restore(t) \/ FreeControl(t)
  <2>1. thr[t].pc \in {"publish", "unwind", "restore", "free"} /\ Return(t)
    BY <1>11 DEF CreatePublish, CreateUnwind, Restore, FreeControl
  <2> QED BY <1>1, <1>3, <2>1, KindsKept
<1>12. CASE CreateRemove(t) \/ Unlink(t) \/ ExitResult(t) \/ ThreadStart(t)
  <2>1. /\ thr[t].pc \in {"remove", "unlink", "idle", "born"}
        /\ \E label \in {"unwind", "free", "leave", "idle"} : Goto(t, label)
    BY <1>12 DEF CreateRemove, Unlink, ExitResult, ThreadStart
  <2> QED BY <1>1, <1>2, <2>1, KindsKept
<1>13. CASE JoinWait(t) \/ JoinInterrupted(t) \/ Unmap(t)
  <2>1. /\ thr[t].pc \in {"joinwait", "joinsleep", "joinunmap", "detachunmap"}
        /\ \E label \in {"joinsleep", "join", "restore", "collect", "unlink"} : Goto(t, label)
    BY <1>13 DEF JoinWait, JoinInterrupted, Unmap
  <2> QED BY <1>1, <1>2, <2>1, KindsKept
<1>14. CASE \/ \E h \in handles : Detach(t, h)
            \/ DetachSelf(t)
  <2>1. thr[t].pc = "idle" /\ \E c, serial : DetachFound(t, c, serial)
    BY <1>14 DEF Detach, DetachSelf
  <2> QED BY <1>1, <1>6, <2>1, KindsKept
<1>15. CASE CreateAlloc(t) \/ JoinCheck(t) \/ JoinCollect(t) \/ KernelExit(t)
  BY <1>1, <1>4, <1>7, <1>8, <1>15, KindsKept
<1>16. CASE \E h \in handles : JoinClaim(t, h)
  BY <1>1, <1>5, <1>16, KindsKept
<1> QED BY <1>9, <1>10, <1>11, <1>12, <1>13, <1>14, <1>15, <1>16 DEF ReclaimStep

(* While a thread still counts, nobody is in exit processing.              *)
LEMMA NobodyExits ==
    ASSUME CountRight, NEW t \in Threads, Kind(t) \in {"running", "promising"}
    PROVE  \A u \in Threads : Kind(u) # "exiting"
  BY ByKind DEF CountRight

LEMMA PromiseSteps ==
    ASSUME LifeInv, CountRight, NEW t \in Threads, CreateCount(t) \/ CreateUncount(t)
    PROVE  CountRight'
<1>1. PICK label \in {"clone", "remove"} :
        /\ Goto(t, label)
        /\ thr[t].pc = (IF label = "clone" THEN "count" ELSE "uncount")
        /\ count' = (IF label = "clone" THEN count + 1 ELSE count - 1)
  BY DEF CreateCount, CreateUncount
<1>2. thr'[t].pc = label /\ \A u \in Threads \ {t} : thr'[u] = thr[u]
  BY <1>1, GotoMoves DEF LifeInv, Types, ThreadPCs
<1>3. /\ Kind(t) = (IF label = "clone" THEN "running" ELSE "promising")
      /\ Kind(t)' = (IF label = "clone" THEN "promising" ELSE "running")
      /\ \A u \in Threads \ {t} : Kind(u)' = Kind(u)
  BY <1>1, <1>2 DEF Kind
<1>4. LastThreadExits'
  BY <1>3, ByKindNext, NobodyExits
<1>5. Counted' = Counted
  BY <1>3, ByKind, ByKindNext
<1>6. CASE label = "clone"
  <2>1. Promised' = Promised \cup {t} /\ t \notin Promised
    BY <1>3, <1>6, ByKind, ByKindNext
  <2>2. Cardinality(Promised') = Cardinality(Promised) + 1
    BY <2>1, CountFinite, FS_AddElement
  <2> QED BY <1>1, <1>4, <1>5, <1>6, <2>2, CountFinite DEF CountRight, CountExact
<1>7. CASE label = "remove"
  <2>1. Promised' = Promised \ {t} /\ t \in Promised
    BY <1>3, <1>7, ByKind, ByKindNext
  <2>2. Cardinality(Promised') = Cardinality(Promised) - 1
    BY <2>1, CountFinite, FS_RemoveElement
  <2> QED BY <1>1, <1>4, <1>5, <1>7, <2>2, CountFinite DEF CountRight, CountExact
<1> QED BY <1>6, <1>7

(* A promised child is counted as itself from the clone on.                *)
LEMMA CloneCounts ==
    ASSUME LifeInv, CountRight, NEW t \in Threads, CreateClone(t)
    PROVE  CountRight'
<1>1. thr[t].pc = "clone" /\ "clone" \in Busy /\ UNCHANGED count
  BY DEF CreateClone, Busy, InCreate
<1>2. PICK k \in Controls : k = thr[t].c
  BY <1>1, Mine
<1>3. ~Runs(k) /\ k # t /\ k \in Threads
  BY <1>1, <1>2, Mine DEF User, NoneRuns, Runs, Threads
<1>4. CASE Goto(t, "uncount")
  <2>1. thr'[t].pc = "uncount" /\ \A u \in Threads \ {t} : thr'[u] = thr[u]
    BY <1>4, GotoMoves DEF LifeInv, Types, ThreadPCs
  <2>2. \A u \in Threads : Kind(u)' = Kind(u)
    BY <1>1, <2>1 DEF Kind
  <2> QED BY <1>1, <2>2, KindsKept
<1>5. ASSUME NEW tid \in Tids,
             thr' = [thr EXCEPT ![t].pc = "publish", ![t].seen = tid,
                                ![k] = [Asleep EXCEPT !.pc = "born", !.tid = tid]]
      PROVE  CountRight'
  <2>1. PICK r : r = [Asleep EXCEPT !.pc = "born", !.tid = tid]
    OBVIOUS
  <2>2. r.pc = "born"
    BY <2>1 DEF Asleep
  <2>3. PICK q : q = [thr[t] EXCEPT !.pc = "publish", !.seen = tid]
    OBVIOUS
  <2>4. thr[t] \in ThreadState /\ thr \in [Threads -> ThreadState]
    BY DEF LifeInv, Types, ThrType
  <2>5. q.pc = "publish"
    BY <2>3, <2>4 DEF ThreadState
  <2>6. thr' = [thr EXCEPT ![t] = q, ![k] = r]
    BY <1>3, <1>5, <2>1, <2>3, <2>4
  <2>7. thr'[t] = q /\ thr'[k] = r /\ \A u \in Threads \ {t, k} : thr'[u] = thr[u]
    BY <1>3, <2>4, <2>6
  <2>8. /\ Kind(t) = "promising" /\ Kind(k) = "out" /\ Kind(t)' = "running" /\ Kind(k)' = "running"
        /\ \A u \in Threads \ {t, k} : Kind(u)' = Kind(u)
    BY <1>1, <1>3, <2>2, <2>5, <2>7 DEF Kind, Runs
  <2>9. LastThreadExits'
    BY <2>8, ByKindNext, NobodyExits
  <2>10. Counted' = Counted \cup {k} /\ k \notin Counted
    BY <1>3, <2>8, ByKind, ByKindNext
  <2>11. Promised' = Promised \ {t} /\ t \in Promised
    BY <1>3, <2>8, ByKind, ByKindNext
  <2>12. /\ Cardinality(Counted') = Cardinality(Counted) + 1
         /\ Cardinality(Promised') = Cardinality(Promised) - 1
    BY <2>10, <2>11, CountFinite, FS_AddElement, FS_RemoveElement
  <2> QED BY <1>1, <2>9, <2>12, CountFinite DEF CountRight, CountExact
<1> QED BY <1>2, <1>4, <1>5 DEF CreateClone

(* Count 1 before the decrement: nobody else can run program code.         *)
LEMMA ExitCounts ==
    ASSUME LifeInv, CountRight, NEW t \in Threads, ExitCount(t)
    PROVE  CountRight'
<1>1. PICK label \in {"exiting", "dead"} :
        /\ Goto(t, label) /\ thr[t].pc = "leave" /\ count' = count - 1
        /\ label = "exiting" => count = 1
  BY DEF ExitCount
<1>2. thr'[t].pc = label /\ \A u \in Threads \ {t} : thr'[u] = thr[u]
  BY <1>1, GotoMoves DEF LifeInv, Types, ThreadPCs
<1>3. /\ Kind(t) = "running" /\ Kind(t)' = (IF label = "dead" THEN "out" ELSE "exiting")
      /\ \A u \in Threads \ {t} : Kind(u)' = Kind(u)
  BY <1>1, <1>2 DEF Kind
<1>4. /\ Counted' = Counted \ {t} /\ t \in Counted
      /\ Promised' = Promised
  BY <1>3, ByKind, ByKindNext
<1>5. Cardinality(Counted') = Cardinality(Counted) - 1
  BY <1>4, CountFinite, FS_RemoveElement
<1>6. CountExact'
  BY <1>1, <1>4, <1>5, CountFinite DEF CountRight, CountExact
<1>7. \A u \in Threads : Kind(u) # "exiting"
  BY <1>3, NobodyExits
<1>8. CASE label = "dead"
  <2>1. LastThreadExits'
    BY <1>3, <1>7, <1>8, ByKindNext
  <2> QED BY <1>6, <2>1 DEF CountRight
<1>9. CASE label = "exiting"
  <2>1. Cardinality(Counted) + Cardinality(Promised) = 1
    BY <1>1, <1>9 DEF CountRight, CountExact
  <2>2. Cardinality(Counted \ {t}) \in Nat /\ Cardinality(Counted \ {t}) = Cardinality(Counted) - 1
        /\ IsFiniteSet(Counted \ {t})
    <3>1. IsFiniteSet(Counted \ {t}) /\ Cardinality(Counted \ {t}) = Cardinality(Counted) - 1
      BY <1>4, CountFinite, FS_RemoveElement
    <3> QED BY <3>1, FS_CardinalityType
  <2>3. Cardinality(Counted \ {t}) = 0
    BY <2>1, <2>2, CountFinite
  <2>4. Counted \ {t} = {}
    BY <2>2, <2>3, FS_EmptySet
  <2>5. \A u \in Threads : Kind(u) \in {"out", "exiting", "running", "promising"}
    BY DEF Kind
  <2>6. \A u \in Threads \ {t} : Kind(u) = "out"
    BY <1>7, <2>4, <2>5, ByKind
  <2>7. LastThreadExits'
    BY <1>3, <2>6, ByKindNext
  <2> QED BY <1>6, <2>7 DEF CountRight
<1> QED BY <1>8, <1>9

LEMMA CountStep == LifeInv /\ CountRight /\ [Next]_vars => CountRight'
<1> SUFFICES ASSUME LifeInv, CountRight, [Next]_vars PROVE CountRight'
  OBVIOUS
<1>1. ASSUME UNCHANGED <<count, thr>> PROVE CountRight'
  <2>1. \A u \in Threads : Kind(u)' = Kind(u)
    BY <1>1 DEF Kind
  <2> QED BY <1>1, <2>1, KindsKept
<1>2. ASSUME NEW t \in Threads, CreateStep(t) PROVE CountRight'
  BY <1>2, QuietSteps, PromiseSteps, CloneCounts DEF CreateStep
<1>3. ASSUME NEW t \in Threads,
             \/ ReclaimStep(t) \/ ExitResult(t) \/ KernelExit(t) \/ JoinInterrupted(t)
             \/ \E h \in handles : JoinClaim(t, h) \/ Detach(t, h)
      PROVE  CountRight'
  BY <1>3, QuietSteps
<1>4. ASSUME NEW t \in Threads, ExitCount(t) PROVE CountRight'
  BY <1>4, ExitCounts
<1>5. ASSUME NEW c \in Controls, ThreadStart(c) \/ DetachSelf(c) PROVE CountRight'
  BY <1>5, QuietSteps DEF Threads
<1>6. ASSUME NEW tid \in dying, KernelBury(tid) PROVE CountRight'
  BY <1>1, <1>6 DEF KernelBury
<1>7. ASSUME ReaperStep \/ ReaperInterrupted PROVE CountRight'
  BY <1>1, <1>7 DEF ReaperStep, ReaperLock, ReaperScan, ReaperObserve, ReaperPoll,
     ReaperWaitEvent, ReaperInterrupted, ReaperUnmap, ReaperRestore, ReaperUnlink, ReaperFree
<1>8. CASE UNCHANGED vars
  BY <1>1, <1>8 DEF vars
<1> QED BY <1>2, <1>3, <1>4, <1>5, <1>6, <1>7, <1>8 DEF Next

LEMMA CountInit == Init => CountRight
<1> SUFFICES ASSUME Init PROVE CountRight
  OBVIOUS
<1>1. Asleep.pc = "none"
  BY DEF Asleep
<1>2. PICK r : r = [Asleep EXCEPT !.pc = "idle"]
  OBVIOUS
<1>3. r.pc = "idle"
  BY <1>2 DEF Asleep
<1>4. thr = [t \in Threads |-> IF t = Main THEN r ELSE Asleep] /\ count = 1
  BY <1>2 DEF Init
<1>5. \A t \in Threads : Kind(t) = (IF t = Main THEN "running" ELSE "out")
  BY <1>1, <1>3, <1>4 DEF Kind
<1>6. Counted = {Main} /\ Promised = {} /\ LastThreadExits
  BY <1>5, ByKind DEF Threads
<1>7. Cardinality(Counted) = 1 /\ Cardinality(Promised) = 0
  BY <1>6, FS_EmptySet, FS_Singleton
<1> QED BY <1>4, <1>6, <1>7 DEF CountRight, CountExact

LEMMA CountInvariant == Spec => [](LifeInv /\ CountRight)
<1>1. Init => LifeInv /\ CountRight
  BY LifeInitInv, CountInit
<1>2. LifeInv /\ CountRight /\ [Next]_vars => LifeInv' /\ CountRight'
  BY LifeStep, CountStep
<1> QED BY <1>1, <1>2, PTL DEF Spec

(* lifecycle.c, mini_user_thread_count: it is exact at every step of every *)
(* creator and leaver, and one thread, the last, starts exit processing.   *)
THEOREM CountHolds == Spec => []CountRight
  BY CountInvariant, PTL

LEMMA TypesRight == LifeInv /\ CountRight => TypeOK
<1> SUFFICES ASSUME LifeInv, CountRight PROVE TypeOK
  OBVIOUS
<1>1. count \in Nat
  BY CountFinite DEF CountRight, CountExact
<1> QED BY <1>1 DEF TypeOK, LifeInv, Types, CtlType, RegType, ThrType, RestType, ThreadState

(* lifecycle.c: a control and a stack are given back once, by the actor    *)
(* that the lifecycle word elected, and nobody works on them afterwards.   *)
THEOREM MemoryHolds == Spec => []MemorySafe
<1>1. LifeInv /\ CountRight => MemorySafe
  BY TypesRight, InvSafe DEF MemorySafe
<1> QED BY <1>1, CountInvariant, PTL
=============================================================================
