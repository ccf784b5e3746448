-------------------------- MODULE ThreadLifecycle --------------------------
(***************************************************************************)
(* thrd_create, thrd_exit, thrd_join, thrd_detach and the reaper thread of *)
(* src/thread/lifecycle.c, with the part of the kernel they rely on        *)
(* (clone, the child-set/clear-tid word, munmap, recycling of TIDs).       *)
(*                                                                         *)
(* A control block is a heap cell in Controls; freed cells are allocated   *)
(* again.  A user thread other than the main one runs on the TCB inside    *)
(* its control, so that thread is named by its control.  A critical        *)
(* section of the registry lock is one action (FutexLock shows the lock is *)
(* a lock), except the reaper's scan: it reads clear_tid, which the kernel *)
(* writes without the lock, at several points of one critical section.     *)
(*                                                                         *)
(* A call that fails before it changed anything is not a step.  System     *)
(* calls that fail after something was changed draw on a budget of         *)
(* MaxFaults, and thrd_create is called at most MaxThreads times.          *)
(***************************************************************************)
EXTENDS Naturals, Sequences, FiniteSets

CONSTANTS Controls,      \* heap cells a control block can occupy
          Tids,          \* kernel thread ids
          Main,          \* the initial thread
          None,          \* no control, no tid, no thread
          MaxThreads,    \* bound on calls of thrd_create
          MaxFaults,     \* bound on failing system calls
          StaleHandles   \* may a thrd_t be used again after join or detach?

ASSUME ThreadConstants ==
    /\ Main \notin Controls /\ None \notin Controls \cup Tids \cup {Main}
    /\ IsFiniteSet(Controls) /\ "cleared" \notin Tids
    /\ MaxThreads \in Nat /\ MaxFaults \in Nat /\ StaleHandles \in BOOLEAN

Threads == {Main} \cup Controls

VARIABLES ctl,       \* struct mini_thread_control of each cell
          registry,  \* mini_thread_controls, head first
          count,     \* mini_user_thread_count
          thr,       \* what each user thread is executing
          reaper,    \* what the reaper is executing
          dying,     \* TIDs of threads the kernel has not yet buried
          faults,    \* failed system calls so far
          born,      \* how many thread creations have begun
          handles,   \* thrd_t values returned to the program
          owed       \* threads neither joined nor detached yet

vars == <<ctl, registry, count, thr, reaper, dying, faults, born, handles, owed>>

Lifecycles == {"JOINABLE", "JOINING", "DETACHED", "REAPING"}

(* heap: the cell is allocated; mapped: its stack is mapped; serial names  *)
(* the thread that runs on it and is also the result the thread returns.   *)
ControlType ==
    [heap : BOOLEAN, mapped : BOOLEAN, life : Lifecycles, published : BOOLEAN,
     tid : Tids \cup {None}, clear : Tids \cup {"unset", "cleared"},
     result : 0 .. MaxThreads, serial : 0 .. MaxThreads]

ThreadPCs ==
    {"none", "born", "idle",
     "map", "insert", "count", "clone", "publish", "uncount", "remove", "unwind",
     "join", "joinwait", "joinsleep", "joinunmap", "collect", "restore",
     "detachunmap", "unlink", "free",
     "leave", "exiting", "dead"}

ReaperPCs == {"none", "lock", "scan", "poll", "event", "asleep",
              "unmap", "restore", "unlink", "free"}

TypeOK ==
    /\ ctl \in [Controls -> ControlType]
    /\ registry \in Seq(Controls)
    /\ count \in Nat
    /\ thr \in [Threads -> [pc : ThreadPCs, tid : Tids \cup {None},
                            c : Controls \cup {None}, want : 0 .. MaxThreads,
                            seen : Tids \cup {"unset", "cleared"},
                            got : 0 .. MaxThreads]]
    /\ reaper \in [pc : ReaperPCs, c : Controls \cup {None}, next : Nat,
                   notified : BOOLEAN]
    /\ dying \subseteq Tids
    /\ faults \in 0 .. MaxFaults /\ born \in 0 .. MaxThreads
    /\ handles \subseteq [tid : Tids, serial : 1 .. MaxThreads]
    /\ owed \subseteq 1 .. MaxThreads

Asleep == [pc |-> "none", tid |-> None, c |-> None, want |-> 0,
           seen |-> "unset", got |-> 0]

Init ==
    /\ ctl = [c \in Controls |->
                [heap |-> FALSE, mapped |-> FALSE, life |-> "JOINABLE",
                 published |-> FALSE, tid |-> None, clear |-> "unset",
                 result |-> 0, serial |-> 0]]
    /\ registry = <<>>
    /\ count = 1
    /\ thr = [t \in Threads |-> IF t = Main THEN [Asleep EXCEPT !.pc = "idle"]
                                            ELSE Asleep]
    /\ reaper = [pc |-> "none", c |-> None, next |-> 0, notified |-> FALSE]
    /\ dying = {} /\ faults = 0 /\ born = 0 /\ handles = {} /\ owed = {}

-----------------------------------------------------------------------------
(* The registry lock is held across steps only by the reaper's scan.       *)
RegistryFree == reaper.pc # "scan"

Goto(t, label) == thr' = [thr EXCEPT ![t].pc = label]

(* A call is over: nothing of its locals survives.                         *)
Return(t) == thr' = [thr EXCEPT ![t] = [Asleep EXCEPT !.pc = "idle", !.tid = thr[t].tid]]

MayFault == faults < MaxFaults
CountFault == faults' = faults + 1

LiveTids == {thr[t].tid : t \in Threads} \ {None}

(* The newest published control that carries the tid.                      *)
FindControl(tid) ==
    LET hits == {i \in DOMAIN registry : /\ ctl[registry[i]].published
                                         /\ ctl[registry[i]].tid = tid}
    IN  IF hits = {} THEN None
        ELSE registry[CHOOSE i \in hits : \A j \in hits : i <= j]

(* Wakes the reaper if it sleeps on the event, and makes a wait it is      *)
(* about to enter return at once.  The caller holds the registry lock.     *)
NotifyReaper(r) ==
    [r EXCEPT !.notified = TRUE, !.pc = IF @ = "asleep" THEN "lock" ELSE @]

(* remove_control_locked.                                                  *)
Unlinked(c) ==
    LET hits == {i \in DOMAIN registry : registry[i] = c}
        at == CHOOSE i \in hits : \A j \in hits : i <= j
    IN  IF hits = {} THEN registry
        ELSE [i \in 1 .. Len(registry) - 1 |-> registry[IF i < at THEN i ELSE i + 1]]

-----------------------------------------------------------------------------
(* thrd_create.                                                            *)
(*                                                                         *)
(* Variants marked "Deliberately wrong" are never part of Next: each is a  *)
(* plausible slip in the definition that follows it, kept to show which    *)
(* property notices it.                                                    *)

CreateAlloc(t) ==
    /\ thr[t].pc = "idle" /\ born < MaxThreads
    /\ \E c \in Controls :
         /\ ~ctl[c].heap
         /\ ctl' = [ctl EXCEPT ![c].heap = TRUE, ![c].serial = born + 1]
         /\ thr' = [thr EXCEPT ![t].pc = "map", ![t].c = c]
    /\ born' = born + 1
    /\ UNCHANGED <<registry, count, reaper, dying, faults, handles, owed>>

(* mmap of the stack and initialisation, or free of the control.           *)
CreateMap(t) ==
    LET c == thr[t].c IN
    /\ thr[t].pc = "map"
    /\ \/ /\ ctl' = [ctl EXCEPT ![c] = [@ EXCEPT !.mapped = TRUE, !.life = "JOINABLE",
                                          !.published = FALSE, !.tid = None,
                                          !.clear = "unset", !.result = 0]]
          /\ Goto(t, "insert")
          /\ UNCHANGED faults
       \/ /\ MayFault /\ CountFault
          /\ ctl' = [ctl EXCEPT ![c].heap = FALSE]
          /\ Return(t)
    /\ UNCHANGED <<registry, count, reaper, dying, born, handles, owed>>

CreateInsert(t) ==
    /\ thr[t].pc = "insert" /\ RegistryFree
    /\ registry' = <<thr[t].c>> \o registry
    /\ Goto(t, "count")
    /\ UNCHANGED <<ctl, count, reaper, dying, faults, born, handles, owed>>

CreateCount(t) ==
    /\ thr[t].pc = "count"
    /\ count' = count + 1
    /\ Goto(t, "clone")
    /\ UNCHANGED <<ctl, registry, reaper, dying, faults, born, handles, owed>>

(* clone: the child exists from here on and may run before the parent.     *)
CreateClone(t) ==
    LET c == thr[t].c IN
    /\ thr[t].pc = "clone"
    /\ \/ /\ \E tid \in Tids \ (LiveTids \cup dying) :
               thr' = [thr EXCEPT ![t].pc = "publish", ![t].seen = tid,
                                  ![c] = [Asleep EXCEPT !.pc = "born", !.tid = tid]]
          /\ owed' = owed \cup {ctl[c].serial}
          /\ UNCHANGED faults
       \/ /\ MayFault /\ CountFault
          /\ Goto(t, "uncount")
          /\ UNCHANGED owed
    /\ UNCHANGED <<ctl, registry, count, reaper, dying, born, handles>>

(* The parent stores the tid and publishes; nothing of the control is      *)
(* touched after the unlock.                                               *)
CreatePublish(t) ==
    LET c == thr[t].c  tid == thr[t].seen IN
    /\ thr[t].pc = "publish" /\ RegistryFree
    /\ ctl' = [ctl EXCEPT ![c].tid = tid, ![c].published = TRUE]
    /\ reaper' = IF ctl[c].life = "DETACHED" THEN NotifyReaper(reaper) ELSE reaper
    /\ handles' = handles \cup {[tid |-> tid, serial |-> ctl[c].serial]}
    /\ Return(t)
    /\ UNCHANGED <<registry, count, dying, faults, born, owed>>

(* clone failed: the count, the registry entry and the memory are undone.  *)
CreateUncount(t) ==
    /\ thr[t].pc = "uncount"
    /\ count' = count - 1
    /\ Goto(t, "remove")
    /\ UNCHANGED <<ctl, registry, reaper, dying, faults, born, handles, owed>>

CreateRemove(t) ==
    /\ thr[t].pc = "remove" /\ RegistryFree
    /\ registry' = Unlinked(thr[t].c)
    /\ Goto(t, "unwind")
    /\ UNCHANGED <<ctl, count, reaper, dying, faults, born, handles, owed>>

CreateUnwind(t) ==
    /\ thr[t].pc = "unwind"
    /\ ctl' = [ctl EXCEPT ![thr[t].c].mapped = FALSE, ![thr[t].c].heap = FALSE]
    /\ Return(t)
    /\ UNCHANGED <<registry, count, reaper, dying, faults, born, handles, owed>>

-----------------------------------------------------------------------------
(* The thread and the kernel.                                              *)

(* CLONE_CHILD_SETTID: the word is written in the child's context.         *)
ThreadStart(c) ==
    /\ thr[c].pc = "born"
    /\ ctl' = [ctl EXCEPT ![c].clear = thr[c].tid]
    /\ Goto(c, "idle")
    /\ UNCHANGED <<registry, count, reaper, dying, faults, born, handles, owed>>

(* thrd_exit stores the result in the control; the main thread has none.   *)
ExitResult(t) ==
    /\ thr[t].pc = "idle"
    /\ ctl' = IF t = Main THEN ctl ELSE [ctl EXCEPT ![t].result = ctl[t].serial]
    /\ Goto(t, "leave")
    /\ UNCHANGED <<registry, count, reaper, dying, faults, born, handles, owed>>

(* Deliberately wrong: the value after the decrement decides.              *)
ExitCountAfter(t) ==
    /\ thr[t].pc = "leave"
    /\ count' = count - 1
    /\ Goto(t, IF count' = 1 THEN "exiting" ELSE "dead")
    /\ UNCHANGED <<ctl, registry, reaper, dying, faults, born, handles, owed>>

(* The thread that takes the count from 1 calls exit; others leave.        *)
ExitCount(t) ==
    /\ thr[t].pc = "leave"
    /\ count' = count - 1
    /\ Goto(t, IF count = 1 THEN "exiting" ELSE "dead")
    /\ UNCHANGED <<ctl, registry, reaper, dying, faults, born, handles, owed>>

(* CLONE_CHILD_CLEARTID: the kernel writes 0 and wakes one waiter on the   *)
(* word, after which the thread no longer uses its stack.  The TID stays   *)
(* taken until the thread is buried.                                       *)
KernelExit(t) ==
    /\ thr[t].pc = "dead"
    /\ ctl' = IF t = Main THEN ctl ELSE [ctl EXCEPT ![t].clear = "cleared"]
    /\ thr' = [u \in Threads |->
                 IF u = t THEN Asleep
                 ELSE IF thr[u].pc = "joinsleep" /\ thr[u].c = t
                      THEN [thr[u] EXCEPT !.pc = "join"]
                      ELSE thr[u]]
    /\ dying' = dying \cup ({thr[t].tid} \ {None})
    /\ UNCHANGED <<registry, count, reaper, faults, born, handles, owed>>

KernelBury(tid) ==
    /\ tid \in dying
    /\ dying' = dying \ {tid}
    /\ UNCHANGED <<ctl, registry, count, thr, reaper, faults, born, handles, owed>>

-----------------------------------------------------------------------------
(* thrd_join and thrd_detach.                                              *)

(* A handle the program may pass: any it was given, or only those whose    *)
(* thread it has neither joined nor detached.                              *)
Usable(h) == StaleHandles \/ h.serial \in owed

(* thrd_join up to the claim; any other outcome is thrd_error and no step. *)
JoinClaim(t, h) ==
    LET c == FindControl(h.tid) IN
    /\ thr[t].pc = "idle" /\ RegistryFree /\ Usable(h) /\ h.tid # thr[t].tid
    /\ c # None /\ ctl[c].life = "JOINABLE"
    /\ ctl' = [ctl EXCEPT ![c].life = "JOINING"]
    /\ thr' = [thr EXCEPT ![t].pc = "join", ![t].c = c, ![t].want = h.serial]
    /\ UNCHANGED <<registry, count, reaper, dying, faults, born, handles, owed>>

JoinCheck(t) ==
    LET seen == ctl[thr[t].c].clear IN
    /\ thr[t].pc = "join"
    /\ thr' = [thr EXCEPT ![t].pc = IF seen = "cleared" THEN "joinunmap" ELSE "joinwait",
                          ![t].seen = seen]
    /\ UNCHANGED <<ctl, registry, count, reaper, dying, faults, born, handles, owed>>

(* Deliberately wrong: the sleep does not depend on the word.              *)
JoinWaitUnchecked(t) ==
    /\ thr[t].pc = "joinwait"
    /\ Goto(t, "joinsleep")
    /\ UNCHANGED <<ctl, registry, count, reaper, dying, faults, born, handles, owed>>

(* FUTEX_WAIT on the clear-tid word: EAGAIN, sleep, or an unexpected error.*)
JoinWait(t) ==
    /\ thr[t].pc = "joinwait"
    /\ \/ /\ Goto(t, IF ctl[thr[t].c].clear = thr[t].seen THEN "joinsleep" ELSE "join")
          /\ UNCHANGED faults
       \/ /\ MayFault /\ CountFault
          /\ Goto(t, "restore")
    /\ UNCHANGED <<ctl, registry, count, reaper, dying, born, handles, owed>>

(* EINTR: the loop reads the word again.                                   *)
JoinInterrupted(t) ==
    /\ thr[t].pc = "joinsleep"
    /\ Goto(t, "join")
    /\ UNCHANGED <<ctl, registry, count, reaper, dying, faults, born, handles, owed>>

(* munmap of the dead thread's stack, by a joiner or a detacher that found *)
(* the thread dead.                                                        *)
Unmap(t) ==
    /\ thr[t].pc \in {"joinunmap", "detachunmap"}
    /\ \/ /\ ctl' = [ctl EXCEPT ![thr[t].c].mapped = FALSE]
          /\ Goto(t, IF thr[t].pc = "joinunmap" THEN "collect" ELSE "unlink")
          /\ UNCHANGED faults
       \/ /\ MayFault /\ CountFault
          /\ Goto(t, "restore")
          /\ UNCHANGED ctl
    /\ UNCHANGED <<registry, count, reaper, dying, born, handles, owed>>

(* After a failure the control is JOINABLE again and the call fails.       *)
Restore(t) ==
    /\ thr[t].pc = "restore" /\ RegistryFree
    /\ ctl' = [ctl EXCEPT ![thr[t].c].life = "JOINABLE"]
    /\ Return(t)
    /\ UNCHANGED <<registry, count, reaper, dying, faults, born, handles, owed>>

(* *res = control->result.                                                 *)
JoinCollect(t) ==
    /\ thr[t].pc = "collect"
    /\ thr' = [thr EXCEPT ![t].pc = "unlink", ![t].got = ctl[thr[t].c].result]
    /\ UNCHANGED <<ctl, registry, count, reaper, dying, faults, born, handles, owed>>

Unlink(t) ==
    /\ thr[t].pc = "unlink" /\ RegistryFree
    /\ registry' = Unlinked(thr[t].c)
    /\ Goto(t, "free")
    /\ UNCHANGED <<ctl, count, reaper, dying, faults, born, handles, owed>>

FreeControl(t) ==
    /\ thr[t].pc = "free"
    /\ ctl' = [ctl EXCEPT ![thr[t].c].heap = FALSE]
    /\ owed' = owed \ {thr[t].want}
    /\ Return(t)
    /\ UNCHANGED <<registry, count, reaper, dying, faults, born, handles>>

(* thrd_detach of the control c found for a handle of thread `serial`.     *)
(* Starting the reaper may fail, which fails the call and changes nothing. *)
DetachFound(t, c, serial) ==
    /\ ctl[c].life = "JOINABLE"
    /\ IF ctl[c].clear = "cleared" /\ ctl[c].published
         THEN /\ ctl' = [ctl EXCEPT ![c].life = "REAPING"]
              /\ thr' = [thr EXCEPT ![t].pc = "detachunmap", ![t].c = c,
                                    ![t].want = serial]
              /\ UNCHANGED <<reaper, owed>>
         ELSE /\ ctl' = [ctl EXCEPT ![c].life = "DETACHED"]
              /\ LET r == IF reaper.pc = "none" THEN [reaper EXCEPT !.pc = "lock"]
                                                ELSE reaper
                 IN  reaper' = IF ctl[c].published THEN NotifyReaper(r) ELSE r
              /\ owed' = owed \ {serial}
              /\ UNCHANGED thr

Detach(t, h) ==
    /\ thr[t].pc = "idle" /\ RegistryFree /\ Usable(h) /\ h.tid # thr[t].tid
    /\ FindControl(h.tid) # None
    /\ DetachFound(t, FindControl(h.tid), h.serial)
    /\ UNCHANGED <<registry, count, dying, faults, born, handles>>

(* thrd_detach(thrd_current()) reaches the control through the TCB, so it  *)
(* works before the parent has published the tid.                          *)
DetachSelf(c) ==
    /\ thr[c].pc = "idle" /\ RegistryFree
    /\ DetachFound(c, c, ctl[c].serial)
    /\ UNCHANGED <<registry, count, dying, faults, born, handles>>

-----------------------------------------------------------------------------
(* The reaper.                                                             *)

Reapable(c) ==
    ctl[c].published /\ ctl[c].life = "DETACHED" /\ ctl[c].clear = "cleared"

(* The first detached control of the registry, whatever its clear_tid.     *)
FirstDetached ==
    LET hits == {i \in DOMAIN registry : /\ ctl[registry[i]].published
                                         /\ ctl[registry[i]].life = "DETACHED"}
    IN  IF hits = {} THEN None
        ELSE registry[CHOOSE i \in hits : \A j \in hits : i <= j]

ReaperGoto(label) == reaper' = [reaper EXCEPT !.pc = label]

ReaperLock ==
    /\ reaper.pc = "lock"
    /\ reaper' = [reaper EXCEPT !.pc = "scan", !.next = 1]
    /\ UNCHANGED <<ctl, registry, count, thr, dying, faults, born, handles, owed>>

(* Deliberately wrong: the reaper also claims controls whose parent is     *)
(* still inside thrd_create.                                               *)
ReaperScanUnpublished ==
    /\ reaper.pc = "scan" /\ reaper.next <= Len(registry)
    /\ LET c == registry[reaper.next] IN
       IF ctl[c].life = "DETACHED" /\ ctl[c].clear = "cleared"
         THEN /\ ctl' = [ctl EXCEPT ![c].life = "REAPING"]
              /\ reaper' = [reaper EXCEPT !.pc = "unmap", !.c = c, !.next = 0]
         ELSE /\ reaper' = [reaper EXCEPT !.next = @ + 1]
              /\ UNCHANGED ctl
    /\ UNCHANGED <<registry, count, thr, dying, faults, born, handles, owed>>

(* find_reapable_locked looks at one control; the claim ends the scan.     *)
ReaperScan ==
    /\ reaper.pc = "scan" /\ reaper.next <= Len(registry)
    /\ LET c == registry[reaper.next] IN
       IF Reapable(c)
         THEN /\ ctl' = [ctl EXCEPT ![c].life = "REAPING"]
              /\ reaper' = [reaper EXCEPT !.pc = "unmap", !.c = c, !.next = 0]
         ELSE /\ reaper' = [reaper EXCEPT !.next = @ + 1]
              /\ UNCHANGED ctl
    /\ UNCHANGED <<registry, count, thr, dying, faults, born, handles, owed>>

(* Nothing was reapable: still under the lock the reaper picks the first   *)
(* detached control, observes the event and reads that control's clear_tid *)
(* (again: the kernel may have cleared it since the scan passed by), then  *)
(* unlocks.                                                                *)
ReaperObserve ==
    /\ reaper.pc = "scan" /\ reaper.next > Len(registry)
    /\ reaper' = IF FirstDetached # None /\ ctl[FirstDetached].clear # "cleared"
                   THEN [pc |-> "poll", c |-> FirstDetached, next |-> 0, notified |-> FALSE]
                   ELSE [pc |-> "event", c |-> None, next |-> 0, notified |-> FALSE]
    /\ UNCHANGED <<ctl, registry, count, thr, dying, faults, born, handles, owed>>

(* FUTEX_WAIT on the target's clear_tid: over after 10 ms at the latest.   *)
ReaperPoll ==
    /\ reaper.pc = "poll"
    /\ reaper' = [reaper EXCEPT !.pc = "lock", !.c = None]
    /\ UNCHANGED <<ctl, registry, count, thr, dying, faults, born, handles, owed>>

(* FUTEX_WAIT on mini_reaper_event, without a timeout.                     *)
ReaperWaitEvent ==
    /\ reaper.pc = "event"
    /\ ReaperGoto(IF reaper.notified THEN "lock" ELSE "asleep")
    /\ UNCHANGED <<ctl, registry, count, thr, dying, faults, born, handles, owed>>

ReaperInterrupted ==
    /\ reaper.pc = "asleep"
    /\ ReaperGoto("lock")
    /\ UNCHANGED <<ctl, registry, count, thr, dying, faults, born, handles, owed>>

ReaperUnmap ==
    /\ reaper.pc = "unmap"
    /\ \/ /\ ctl' = [ctl EXCEPT ![reaper.c].mapped = FALSE]
          /\ ReaperGoto("unlink")
          /\ UNCHANGED faults
       \/ /\ MayFault /\ CountFault
          /\ ReaperGoto("restore")
          /\ UNCHANGED ctl
    /\ UNCHANGED <<registry, count, thr, dying, born, handles, owed>>

ReaperRestore ==
    /\ reaper.pc = "restore"
    /\ ctl' = [ctl EXCEPT ![reaper.c].life = "DETACHED"]
    /\ reaper' = [NotifyReaper(reaper) EXCEPT !.pc = "lock", !.c = None]
    /\ UNCHANGED <<registry, count, thr, dying, faults, born, handles, owed>>

ReaperUnlink ==
    /\ reaper.pc = "unlink"
    /\ registry' = Unlinked(reaper.c)
    /\ ReaperGoto("free")
    /\ UNCHANGED <<ctl, count, thr, dying, faults, born, handles, owed>>

ReaperFree ==
    /\ reaper.pc = "free"
    /\ ctl' = [ctl EXCEPT ![reaper.c].heap = FALSE]
    /\ reaper' = [reaper EXCEPT !.pc = "lock", !.c = None]
    /\ UNCHANGED <<registry, count, thr, dying, faults, born, handles, owed>>

-----------------------------------------------------------------------------
CreateStep(t) ==
    \/ CreateAlloc(t) \/ CreateMap(t) \/ CreateInsert(t) \/ CreateCount(t)
    \/ CreateClone(t) \/ CreatePublish(t)
    \/ CreateUncount(t) \/ CreateRemove(t) \/ CreateUnwind(t)

ReclaimStep(t) ==
    \/ JoinCheck(t) \/ JoinWait(t) \/ Unmap(t) \/ Restore(t)
    \/ JoinCollect(t) \/ Unlink(t) \/ FreeControl(t)

ReaperStep ==
    \/ ReaperLock \/ ReaperScan \/ ReaperObserve \/ ReaperPoll \/ ReaperWaitEvent
    \/ ReaperUnmap \/ ReaperRestore \/ ReaperUnlink \/ ReaperFree

Next ==
    \/ \E t \in Threads :
         \/ CreateStep(t) \/ ReclaimStep(t)
         \/ ExitResult(t) \/ ExitCount(t) \/ KernelExit(t)
         \/ JoinInterrupted(t)
         \/ \E h \in handles : JoinClaim(t, h) \/ Detach(t, h)
    \/ \E c \in Controls : ThreadStart(c) \/ DetachSelf(c)
    \/ \E tid \in dying : KernelBury(tid)
    \/ ReaperStep \/ ReaperInterrupted

(* Code that has been entered runs on, the kernel finishes what it began,  *)
(* and a started thread comes to its end; nobody has to create, join or    *)
(* detach, and no signal is owed to a sleeper.                             *)
Fairness ==
    /\ \A t \in Threads :
         /\ WF_vars(CreateStep(t) /\ thr[t].pc # "idle")
         /\ WF_vars(ReclaimStep(t))
         /\ WF_vars(ExitCount(t)) /\ WF_vars(KernelExit(t))
    /\ \A c \in Controls : WF_vars(ThreadStart(c))
    /\ WF_vars(ReaperStep)

Spec == Init /\ [][Next]_vars

FairSpec == Spec /\ Fairness

-----------------------------------------------------------------------------
(* Threads the kernel still runs on control c.                             *)
Runs(c) == thr[c].pc # "none"

InCreate == {"map", "insert", "count", "clone", "publish", "uncount", "remove", "unwind"}

(* Actors that still dereference control c: a creator, a joiner or         *)
(* detacher that claimed it, the reaper that claimed or polls it.          *)
UsesControl(c) ==
    \/ Runs(c)
    \/ \E t \in Threads : thr[t].c = c
    \/ reaper.c = c

(* No actor, not even the parent that is still publishing or the reaper    *)
(* that polls the clear_tid word, ever holds a freed control, and the      *)
(* registry holds no freed control and none twice.                         *)
NoUseAfterFree ==
    /\ \A c \in Controls : UsesControl(c) => ctl[c].heap
    /\ \A i \in DOMAIN registry : ctl[registry[i]].heap
    /\ \A i, j \in DOMAIN registry : registry[i] = registry[j] => i = j

(* Reclaimed means off the stack: a thread's stack stays mapped until the  *)
(* kernel has cleared its tid word, and a mapped stack is not forgotten.   *)
StackOutlivesThread ==
    \A c \in Controls :
        /\ Runs(c) => ctl[c].mapped
        /\ ctl[c].mapped => ctl[c].heap

Reclaimers(c) ==
    {t \in Threads : thr[t].c = c /\ thr[t].pc \notin InCreate}
        \cup {x \in {"reaper"} : reaper.c = c /\ reaper.pc # "poll"}

(* The lifecycle word elects one reclaimer: never two joiners, detachers   *)
(* or a joiner and the reaper at work on one control, and the word says    *)
(* which kind is.                                                          *)
SingleReclaimer ==
    \A c \in Controls :
        /\ Cardinality(Reclaimers(c)) <= 1
        /\ ctl[c].heap /\ Reclaimers(c) # {} => ctl[c].life \in {"JOINING", "REAPING"}

(* thread.c: a control and a stack are given back once, by the actor that  *)
(* the lifecycle word elected, after everybody else has let go of them.    *)
MemorySafe == TypeOK /\ NoUseAfterFree /\ StackOutlivesThread /\ SingleReclaimer

(* Threads that the count must include: those that have not yet passed     *)
(* their decrement, and children promised by a creator but not yet cloned. *)
Counted ==
    {t \in Threads : thr[t].pc \notin {"none", "dead", "exiting"}}

Promised == {t \in Threads : thr[t].pc \in {"clone", "uncount"}}

(* mini_user_thread_count is exact at every step of every creator and      *)
(* leaver, which is what makes "previous count 1" mean "last user thread". *)
CountExact == count = Cardinality(Counted) + Cardinality(Promised)

(* Exit processing is started by one thread, when no other user thread can *)
(* still run program code.                                                 *)
LastThreadExits ==
    \A t \in Threads : thr[t].pc = "exiting" =>
        \A u \in Threads \ {t} : thr[u].pc \in {"none", "dead"}

(* The user-thread count is exact, and the process ends with the last one. *)
CountRight == CountExact /\ LastThreadExits

(* What the program passed to thrd_join names the thread that is joined,   *)
(* as long as that thread has been neither joined nor detached.            *)
HandleNamesThread ==
    \A t \in Threads : thr[t].pc \in {"join", "joinwait", "joinsleep", "joinunmap", "collect"} =>
        thr[t].want = ctl[thr[t].c].serial

(* No joiner sleeps in the kernel on the word of a thread that has already *)
(* cleared it: the clear and the sleep cannot miss each other.             *)
JoinerNotStranded ==
    \A t \in Threads : thr[t].pc = "joinsleep" => Runs(thr[t].c)

(* A detached thread that is dead is eventually claimed for reclamation,   *)
(* unless the whole process is on its way out.                             *)
DetachedReclaimed ==
    \A c \in Controls :
        Reapable(c) ~> (~Reapable(c) \/ \E t \in Threads : thr[t].pc = "exiting")
=============================================================================
