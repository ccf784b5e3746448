----------------------------- MODULE Processes -----------------------------
(***************************************************************************)
(* New processes: fork with the handlers of pthread_atfork, _Fork, exec    *)
(* and waitpid (src/process/process.c, atfork.c), and posix_spawn with its *)
(* list of file actions (src/process/spawn.c).  A child is a copy of the   *)
(* memory of a process in which other threads may be in the middle of      *)
(* anything: it inherits every lock as it is, but not the thread that      *)
(* holds it.  The child of posix_spawn runs library code only.             *)
(***************************************************************************)
EXTENDS Naturals, Sequences, Functions, FiniteSets

CONSTANTS Threads,
          Children,  \* processes that can be made
          Handlers,  \* triplets a program may register, each once
          Roles,     \* which functions of each triplet are not null
          Capacity,  \* MINI_ATFORK_CAPACITY
          Slots,     \* __MINI_POSIX_SPAWN_ACTION_CAPACITY
          Locks,     \* the library's other locks: stdio, heap, threads
          Actions,   \* file actions a program may add: kind, fd, newfd
          Table,     \* the descriptors of the parent: file and cloexec
          MaxForks,  \* bound on fork and posix_spawn calls that fail
          NoOne

Fds == DOMAIN Table

NoFile == [file |-> "none", cloexec |-> FALSE]

ProcessesAssumption ==
    /\ Capacity \in Nat /\ Slots \in Nat /\ MaxForks \in Nat
    /\ Roles \in [Handlers -> SUBSET {"prepare", "parent", "child"}]
    /\ NoOne \notin Threads /\ "atfork" \notin Locks
    /\ \A a \in Actions : a.kind \in {"close", "dup2"} /\ a.newfd \in Fds

VARIABLES
    registry,   \* atfork_handlers, up to atfork_count
    locks,      \* who holds each lock of the parent
    actions,    \* a posix_spawn_file_actions_t that the threads share
    task,       \* where each thread of the parent is
    child,      \* the processes made so far
    failed      \* failed system calls so far

vars == <<registry, locks, actions, task, child, failed>>

Idle == [at |-> "idle"]

NotMade == [at |-> "none"]

AllLocks == Locks \cup {"atfork"}

Init ==
    /\ registry = <<>>
    /\ locks = [l \in AllLocks |-> NoOne]
    /\ actions = <<>>
    /\ task = [t \in Threads |-> Idle]
    /\ child = [p \in Children |-> NotMade]
    /\ failed = 0

-----------------------------------------------------------------------------
(* Other library code of the parent: it takes a lock and gives it back.    *)
Take(t, l) ==
    /\ task[t] = Idle /\ locks[l] = NoOne
    /\ locks' = [locks EXCEPT ![l] = t]
    /\ task' = [task EXCEPT ![t] = [at |-> "inside", lock |-> l]]
    /\ UNCHANGED <<registry, actions, child, failed>>

Leave(t) ==
    /\ task[t].at = "inside"
    /\ locks' = [locks EXCEPT ![task[t].lock] = NoOne]
    /\ task' = [task EXCEPT ![t] = Idle]
    /\ UNCHANGED <<registry, actions, child, failed>>

(* pthread_atfork; a full registry refuses the triplet.                    *)
Atfork(t) ==
    /\ task[t] = Idle /\ locks["atfork"] = NoOne
    /\ locks' = [locks EXCEPT !["atfork"] = t]
    /\ task' = [task EXCEPT ![t] = [at |-> "registering"]]
    /\ UNCHANGED <<registry, actions, child, failed>>

AtforkStore(t) ==
    /\ task[t].at = "registering"
    /\ IF Len(registry) = Capacity THEN UNCHANGED registry
       ELSE \E h \in Handlers \ Range(registry) : registry' = Append(registry, h)
    /\ locks' = [locks EXCEPT !["atfork"] = NoOne]
    /\ task' = [task EXCEPT ![t] = Idle]
    /\ UNCHANGED <<actions, child, failed>>

-----------------------------------------------------------------------------
(* fork.  __mini_atfork_snapshot copies the registry under its lock; ran   *)
(* is what has been called since, history.                                 *)
Fork(t) ==
    /\ task[t] = Idle /\ locks["atfork"] = NoOne
    /\ task' = [task EXCEPT ![t] =
         [at |-> "prepare", handlers |-> registry, index |-> Len(registry),
          prepared |-> <<>>, ran |-> <<>>]]
    /\ UNCHANGED <<registry, locks, actions, child, failed>>

Called(ran, h, role) == IF role \in Roles[h] THEN Append(ran, h) ELSE ran

(* Prepare handlers from the last to the first; a handler may itself       *)
(* register a triplet, which this fork does not see.                       *)
Prepare(t, registers) ==
    /\ task[t].at = "prepare" /\ task[t].index > 0
    /\ LET i == task[t].index
       IN  task' = [task EXCEPT ![t].index = i - 1,
                                ![t].prepared = Called(@, task[t].handlers[i], "prepare")]
    /\ IF registers
       THEN /\ locks["atfork"] = NoOne /\ Len(registry) < Capacity
            /\ \E h \in Handlers \ Range(registry) : registry' = Append(registry, h)
       ELSE UNCHANGED registry
    /\ UNCHANGED <<locks, actions, child, failed>>

(* The child's copy: its memory at the moment of the system call, with the *)
(* locks other threads hold and nobody to release them.                    *)
Copy(t, at) ==
    [at |-> at, handlers |-> <<>>, index |-> 0, prepared |-> <<>>, ran |-> <<>>,
     held |-> {l \in AllLocks : locks[l] \notin {NoOne, t}},
     fds |-> Table, todo |-> <<>>, status |-> 0, asked |-> <<>>, spawned |-> FALSE]

SysFork(t) ==
    /\ task[t].at = "prepare" /\ task[t].index = 0
    /\ \/ /\ \E p \in Children :
               /\ child[p] = NotMade
               /\ child' = [child EXCEPT ![p] =
                    [Copy(t, "handlers") EXCEPT !.handlers = task[t].handlers,
                                                !.prepared = task[t].prepared]]
          /\ UNCHANGED failed
       \/ /\ failed < MaxForks
          /\ failed' = failed + 1
          /\ UNCHANGED child
    /\ task' = [task EXCEPT ![t].at = "parent"]
    /\ UNCHANGED <<registry, locks, actions>>

(* Parent handlers from the first to the last, also after a failed call.   *)
Parent(t) ==
    /\ task[t].at = "parent" /\ task[t].index < Len(task[t].handlers)
    /\ LET i == task[t].index + 1
       IN  task' = [task EXCEPT ![t].index = i,
                                ![t].ran = Called(@, task[t].handlers[i], "parent")]
    /\ UNCHANGED <<registry, locks, actions, child, failed>>

ForkReturn(t) ==
    /\ task[t].at = "parent" /\ task[t].index = Len(task[t].handlers)
    /\ task' = [task EXCEPT ![t] = Idle]
    /\ UNCHANGED <<registry, locks, actions, child, failed>>

(* Deliberately wrong: the child takes the registry's lock for its walk.   *)
ChildHandlerLocked(p) ==
    /\ child[p].at = "handlers" /\ child[p].index < Len(child[p].handlers)
    /\ "atfork" \notin child[p].held
    /\ LET i == child[p].index + 1
       IN  child' = [child EXCEPT ![p].index = i,
                                  ![p].ran = Called(@, child[p].handlers[i], "child")]
    /\ UNCHANGED <<registry, locks, actions, task, failed>>

ChildHandler(p) ==
    /\ child[p].at = "handlers" /\ child[p].index < Len(child[p].handlers)
    /\ LET i == child[p].index + 1
       IN  child' = [child EXCEPT ![p].index = i,
                                  ![p].ran = Called(@, child[p].handlers[i], "child")]
    /\ UNCHANGED <<registry, locks, actions, task, failed>>

ChildReturn(p) ==
    /\ child[p].at = "handlers" /\ child[p].index = Len(child[p].handlers)
    /\ child' = [child EXCEPT ![p].at = "program"]
    /\ UNCHANGED <<registry, locks, actions, task, failed>>

RawFork(t) ==
    /\ task[t] = Idle
    /\ \E p \in Children :
         /\ child[p] = NotMade
         /\ child' = [child EXCEPT ![p] = Copy(t, "program")]
    /\ UNCHANGED <<registry, locks, actions, task, failed>>

(* What the program of a forked child may do: execve, or _exit.            *)
Image(fds) == [d \in DOMAIN fds |-> IF fds[d].cloexec THEN NoFile ELSE fds[d]]

ChildEnds(p) ==
    /\ child[p].at = "program"
    /\ child' = [child EXCEPT ![p].at = "exited"]
    /\ UNCHANGED <<registry, locks, actions, task, failed>>

-----------------------------------------------------------------------------
(* posix_spawn_file_actions_addclose and _adddup2; a full list refuses.    *)
AddAction(t, a) ==
    /\ task[t] = Idle /\ Len(actions) < Slots
    /\ actions' = Append(actions, a)
    /\ UNCHANGED <<registry, locks, task, child, failed>>

InitActions(t) ==
    /\ task[t] = Idle
    /\ actions' = <<>>
    /\ UNCHANGED <<registry, locks, task, child, failed>>

(* The child sees the list as it is at the system call; asked keeps it,    *)
(* history.                                                                *)
Spawn(t) ==
    /\ task[t] = Idle
    /\ \E p \in Children :
         /\ child[p] = NotMade
         /\ child' = [child EXCEPT ![p] =
              [Copy(t, "spawn") EXCEPT !.spawned = TRUE, !.asked = actions,
                                       !.todo = actions]]
    /\ UNCHANGED <<registry, locks, actions, task, failed>>

Exited(p, status) == child' = [child EXCEPT ![p].at = "exited", ![p].status = status]

(* close and dup2 of the kernel; the copy of dup2 survives execve, and     *)
(* dup2 of a descriptor to itself changes nothing.                         *)
Performed(fds, a) ==
    CASE a.kind = "close"    -> [fds EXCEPT ![a.fd] = NoFile]
      [] a.fd = a.newfd      -> fds
      [] OTHER -> [fds EXCEPT ![a.newfd] = [file |-> fds[a.fd].file, cloexec |-> FALSE]]

(* Deliberately wrong: a file action that fails is passed over.            *)
SpawnActionLenient(p) ==
    /\ child[p].at = "spawn" /\ child[p].todo # <<>>
    /\ LET a == child[p].todo[1]
           done == IF child[p].fds[a.fd] = NoFile THEN child[p].fds
                   ELSE Performed(child[p].fds, a)
       IN  child' = [child EXCEPT ![p].fds = done, ![p].todo = Tail(@)]
    /\ UNCHANGED <<registry, locks, actions, task, failed>>

(* spawn_child: each action in order; one that fails ends the child.       *)
SpawnAction(p) ==
    /\ child[p].at = "spawn" /\ child[p].todo # <<>>
    /\ LET a == child[p].todo[1]
       IN  IF child[p].fds[a.fd] = NoFile THEN Exited(p, 127)
           ELSE child' = [child EXCEPT ![p].fds = Performed(@, a), ![p].todo = Tail(@)]
    /\ UNCHANGED <<registry, locks, actions, task, failed>>

SpawnExec(p) ==
    /\ child[p].at = "spawn" /\ child[p].todo = <<>>
    /\ \/ /\ child' = [child EXCEPT ![p].at = "image", ![p].fds = Image(@)]
          /\ UNCHANGED failed
       \/ /\ failed < MaxForks /\ failed' = failed + 1
          /\ Exited(p, 127)
    /\ UNCHANGED <<registry, locks, actions, task>>

(* A new image runs a program of its own, which ends.                      *)
ImageEnds(p) ==
    /\ child[p].at = "image"
    /\ Exited(p, 0)
    /\ UNCHANGED <<registry, locks, actions, task, failed>>

Waitpid(t, p) ==
    /\ task[t] = Idle /\ child[p].at = "exited"
    /\ child' = [child EXCEPT ![p].at = "reaped"]
    /\ UNCHANGED <<registry, locks, actions, task, failed>>

ChildStep(p) == ChildHandler(p) \/ ChildReturn(p) \/ SpawnAction(p) \/ SpawnExec(p)

Next ==
    \/ \E t \in Threads :
         \/ \E l \in Locks : Take(t, l)
         \/ Leave(t) \/ Atfork(t) \/ AtforkStore(t)
         \/ Fork(t) \/ SysFork(t) \/ Parent(t) \/ ForkReturn(t) \/ RawFork(t)
         \/ \E registers \in BOOLEAN : Prepare(t, registers)
         \/ \E a \in Actions : AddAction(t, a)
         \/ InitActions(t) \/ Spawn(t)
         \/ \E p \in Children : Waitpid(t, p)
    \/ \E p \in Children : ChildStep(p) \/ ChildEnds(p) \/ ImageEnds(p)

Spec == Init /\ [][Next]_vars

-----------------------------------------------------------------------------
(* The functions called after a fork are the partners of those called      *)
(* before it, youngest first before and oldest first after, in the parent, *)
(* in the child and when the fork fails, whatever is registered meanwhile: *)
(* each has been prepared, they come in the opposite order and without a   *)
(* gap, and at the end none is missing.                                    *)
Paired(prepared, ran, role, done) ==
    LET due == {x \in DOMAIN prepared : role \in Roles[prepared[x]]}
    IN  /\ \A i \in DOMAIN ran :
             "prepare" \in Roles[ran[i]] => \E x \in due : ran[i] = prepared[x]
        /\ \A i, j \in DOMAIN ran, x, y \in due :
             i < j /\ ran[i] = prepared[x] /\ ran[j] = prepared[y] => y < x
        /\ \A i \in DOMAIN ran, x, y \in due :
             ran[i] = prepared[x] /\ x < y => prepared[y] \in Range(ran)
        /\ done => \A x \in due : prepared[x] \in Range(ran)

HandlersPaired ==
    /\ \A t \in Threads : task[t].at = "parent" =>
         Paired(task[t].prepared, task[t].ran, "parent",
                task[t].index = Len(task[t].handlers))
    /\ \A p \in Children : child[p].at \in {"handlers", "program"} =>
         Paired(child[p].prepared, child[p].ran, "child", child[p].at = "program")

(* Library code in a child never waits for a lock that it inherited.       *)
ChildRunsOn ==
    \A p \in Children : child[p].at \in {"handlers", "spawn"} => ENABLED ChildStep(p)

(* The descriptors after n of the actions, done in order: one table, and   *)
(* none when one of the n fails.                                           *)
Tables(list) ==
    LET table[n \in 0 .. Len(list)] ==
          IF n = 0 THEN {Table}
          ELSE {Performed(f, list[n]) : f \in {g \in table[n - 1] : g[list[n].fd] # NoFile}}
    IN  table

(* The image that posix_spawn starts has the parent's descriptors with all *)
(* the file actions done in order; if one of them fails no image starts.   *)
SpawnApplied ==
    \A p \in {c \in Children : child[c].at # "none" /\ child[c].spawned} :
        LET wanted == Tables(child[p].asked)[Len(child[p].asked)]
        IN  /\ child[p].at = "image" =>
                 \E f \in wanted : child[p].fds = Image(f)
            /\ child[p].at = "exited" /\ wanted = {} => child[p].status = 127
=============================================================================
