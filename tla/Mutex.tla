------------------------------- MODULE Mutex -------------------------------
(***************************************************************************)
(* mtx_t of src/thread/mutex.c: one mutex used by several threads through  *)
(* mtx_lock, mtx_timedlock, mtx_trylock and mtx_unlock.  Every load, store *)
(* and exchange of state, owner and depth is a step, because no lock       *)
(* protects the three words; only the owner's accesses to depth, which no  *)
(* other thread reads or writes, are joined.                               *)
(*                                                                         *)
(* Arguments are valid here (a null or unknown-type argument returns       *)
(* thrd_error before any load).  The owner token, a TCB address, is the    *)
(* thread itself: Threads are threads that live as long as the mutex.      *)
(***************************************************************************)
EXTENDS Naturals, FiniteSets

CONSTANTS Threads,
          NoThread,    \* owner 0
          Recursive,   \* mtx_recursive is in the type
          DepthMax     \* stands for INT_MAX

ASSUME MutexConstants ==
    /\ NoThread \notin Threads
    /\ Recursive \in BOOLEAN
    /\ DepthMax \in Nat \ {0}

VARIABLES state,   \* __state
          owner,   \* __owner
          depth,   \* __depth
          call,    \* the mutex call each thread executes
          held     \* how often each thread holds the mutex by its calls' results

mutexVars == <<state, owner, depth, call, held>>

(* "expired" is mtx_timedlock with a deadline before 1970.  The result of a*)
(* call is kept when cnd_wait made it; the program may do as it likes.     *)
Ops == {"lock", "timedlock", "expired", "trylock", "unlock"}

Results == {"none", "success", "busy", "timedout", "error"}

MutexPCs ==
    {"idle",
     "loadstate", "loadowner",          \* owned_by
     "recurse",                         \* recurse_owned
     "exchange", "setowner", "setdepth",\* acquire_unlocked
     "wait", "asleep",                  \* FUTEX_WAIT or FUTEX_WAIT_BITSET
     "depth", "clearowner", "clearstate", "wake"}

NoCall == [pc |-> "idle", op |-> "lock", res |-> "none", by |-> "program"]

MutexTypeOK ==
    /\ state \in {0, 1}
    /\ owner \in Threads \cup {NoThread}
    /\ depth \in 0 .. DepthMax
    /\ call \in [Threads -> [pc : MutexPCs, op : Ops, res : Results,
                            by : {"program", "wait"}]]
    /\ held \in [Threads -> 0 .. DepthMax]

MutexInit ==
    /\ state = 0 /\ owner = NoThread /\ depth = 0
    /\ call = [t \in Threads |-> NoCall]
    /\ held = [t \in Threads |-> 0]

At(t, label) == call[t].pc = label

Goto(t, label) == call' = [call EXCEPT ![t].pc = label]

Answer(t, result) ==
    [NoCall EXCEPT !.res = IF call[t].by = "wait" THEN result ELSE "none"]

Return(t, result) == call' = [call EXCEPT ![t] = Answer(t, result)]

-----------------------------------------------------------------------------
Begin(op, by) == [pc |-> "loadstate", op |-> op, res |-> "none", by |-> by]

Call(t, op) ==
    /\ At(t, "idle")
    /\ call' = [call EXCEPT ![t] = Begin(op, "program")]
    /\ UNCHANGED <<state, owner, depth, held>>

(* A thread that does not own the mutex goes on to the exchange, or fails. *)
NotOwned(t) ==
    IF call[t].op = "unlock" THEN Return(t, "error") ELSE Goto(t, "exchange")

(* An owner unlocks, recurses, or is refused.                              *)
Owned(t) ==
    IF call[t].op = "unlock" THEN Goto(t, "depth")
    ELSE IF Recursive THEN Goto(t, "recurse")
    ELSE Return(t, IF call[t].op = "trylock" THEN "busy" ELSE "error")

LoadState(t) ==
    /\ At(t, "loadstate")
    /\ IF state # 0 THEN Goto(t, "loadowner") ELSE NotOwned(t)
    /\ UNCHANGED <<state, owner, depth, held>>

(* Deliberately wrong: any held mutex counts as the caller's own.          *)
LoadOwnerAny(t) ==
    /\ At(t, "loadowner")
    /\ IF owner # NoThread THEN Owned(t) ELSE NotOwned(t)
    /\ UNCHANGED <<state, owner, depth, held>>

LoadOwner(t) ==
    /\ At(t, "loadowner")
    /\ IF owner = t THEN Owned(t) ELSE NotOwned(t)
    /\ UNCHANGED <<state, owner, depth, held>>

(* Deliberately wrong: the depth is not bounded.                           *)
RecurseUnbounded(t) ==
    /\ At(t, "recurse")
    /\ depth' = depth + 1
    /\ held' = [held EXCEPT ![t] = @ + 1]
    /\ Return(t, "success")
    /\ UNCHANGED <<state, owner>>

Recurse(t) ==
    /\ At(t, "recurse")
    /\ IF depth = 0 \/ depth = DepthMax
         THEN /\ Return(t, "error")
              /\ UNCHANGED <<depth, held>>
         ELSE /\ depth' = depth + 1
              /\ held' = [held EXCEPT ![t] = @ + 1]
              /\ Return(t, "success")
    /\ UNCHANGED <<state, owner>>

(* acquire_unlocked: winning the exchange is winning the mutex.            *)
Exchange(t) ==
    /\ At(t, "exchange")
    /\ state' = 1
    /\ IF state = 0
         THEN /\ Goto(t, "setowner")
              /\ held' = [held EXCEPT ![t] = 1]
         ELSE /\ UNCHANGED held
              /\ CASE call[t].op = "trylock" -> Return(t, "busy")
                   [] call[t].op = "expired" -> Return(t, "timedout")
                   [] OTHER                  -> Goto(t, "wait")
    /\ UNCHANGED <<owner, depth>>

SetOwner(t) ==
    /\ At(t, "setowner")
    /\ owner' = t
    /\ Goto(t, "setdepth")
    /\ UNCHANGED <<state, depth, held>>

SetDepth(t) ==
    /\ At(t, "setdepth")
    /\ depth' = 1
    /\ Return(t, "success")
    /\ UNCHANGED <<state, owner, held>>

(* The kernel compares and sleeps; EAGAIN runs the loop again, any other   *)
(* error ends the call.                                                    *)
Wait(t) ==
    /\ At(t, "wait")
    /\ \/ Goto(t, IF state = 1 THEN "asleep" ELSE "exchange")
       \/ Return(t, "error")
    /\ UNCHANGED <<state, owner, depth, held>>

(* A signal (EINTR) runs the loop again.                                   *)
Interrupt(t) ==
    /\ At(t, "asleep")
    /\ Goto(t, "exchange")
    /\ UNCHANGED <<state, owner, depth, held>>

(* The deadline of a timed lock passes while it sleeps.                    *)
Timeout(t) ==
    /\ At(t, "asleep") /\ call[t].op = "timedlock"
    /\ Return(t, "timedout")
    /\ UNCHANGED <<state, owner, depth, held>>

(* Deliberately wrong: an inner unlock of a recursive mutex frees it.      *)
UnlockDepthIgnored(t) ==
    /\ At(t, "depth")
    /\ depth' = 0
    /\ Goto(t, "clearowner")
    /\ UNCHANGED <<state, owner, held>>

(* mtx_unlock by the owner: an inner unlock only counts down.              *)
UnlockDepth(t) ==
    /\ At(t, "depth")
    /\ \/ /\ Recursive /\ depth > 1
          /\ depth' = depth - 1
          /\ held' = [held EXCEPT ![t] = @ - 1]
          /\ Return(t, "success")
       \/ /\ depth = 1
          /\ depth' = 0
          /\ Goto(t, "clearowner")
          /\ UNCHANGED held
       \/ /\ depth = 0 \/ (depth > 1 /\ ~Recursive)
          /\ Return(t, "error")
          /\ UNCHANGED <<depth, held>>
    /\ UNCHANGED <<state, owner>>

ClearOwner(t) ==
    /\ At(t, "clearowner")
    /\ owner' = NoThread
    /\ Goto(t, "clearstate")
    /\ UNCHANGED <<state, depth, held>>

(* Deliberately wrong: no FUTEX_WAKE after the exchange.                   *)
ClearStateSilently(t) ==
    /\ At(t, "clearstate")
    /\ state' = 0
    /\ held' = [held EXCEPT ![t] = 0]
    /\ Return(t, "success")
    /\ UNCHANGED <<owner, depth>>

(* The exchange that frees the mutex; the wake call follows it.            *)
ClearState(t) ==
    /\ At(t, "clearstate")
    /\ state' = 0
    /\ IF state = 0
         THEN /\ Return(t, "error")
              /\ UNCHANGED held
         ELSE /\ Goto(t, "wake")
              /\ held' = [held EXCEPT ![t] = 0]
    /\ UNCHANGED <<owner, depth>>

Sleepers == {t \in Threads : At(t, "asleep")}

(* FUTEX_WAKE of one sleeper, if there is one.                             *)
Wake(t) ==
    /\ At(t, "wake")
    /\ \/ Sleepers = {} /\ Return(t, "success")
       \/ \E u \in Sleepers :
            call' = [call EXCEPT ![t] = Answer(t, "success"), ![u].pc = "exchange"]
    /\ UNCHANGED <<state, owner, depth, held>>

(* Everything a call does once it has been made.                           *)
MutexStep(t) ==
    \/ LoadState(t) \/ LoadOwner(t) \/ Recurse(t)
    \/ Exchange(t) \/ SetOwner(t) \/ SetDepth(t)
    \/ Wait(t) \/ Interrupt(t) \/ Timeout(t)
    \/ UnlockDepth(t) \/ ClearOwner(t) \/ ClearState(t) \/ Wake(t)

MutexNext == \E t \in Threads : MutexStep(t) \/ \E op \in Ops : Call(t, op)

MutexSpec == MutexInit /\ [][MutexNext]_mutexVars

-----------------------------------------------------------------------------
(* The three words and the callers' view of the mutex agree although they  *)
(* are updated one by one: at most one thread holds it, state is 1 exactly *)
(* then, owner can only ever name the holder, and between calls the depth  *)
(* is the number of acquisitions the holder has been told of.              *)
OwnershipAgrees ==
    /\ \A t, u \in Threads : held[t] > 0 /\ held[u] > 0 => t = u
    /\ state = 1 <=> \E t \in Threads : held[t] > 0
    /\ \A t \in Threads :
        /\ owner = t => held[t] > 0
        /\ At(t, "idle") /\ held[t] > 0 => owner = t /\ depth = held[t]

(* No thread is left asleep on a free mutex, even when the one wake of an  *)
(* unlock is taken by a thread that then times out or fails.               *)
NoLostWakeup ==
    Sleepers # {} /\ state = 0 =>
        \E t \in Threads : At(t, "wake") \/ At(t, "exchange")

(* The results of the calls are those of an atomic, possibly recursive     *)
(* mutex.                                                                  *)
Abstract == INSTANCE AbstractMutex

ImplementsMutex == Abstract!Spec
=============================================================================
