--------------------------- MODULE LocaleObjects ---------------------------
(***************************************************************************)
(* Locales: the state and the names of src/locale/locale.c, the registry   *)
(* of locale objects of src/locale/locale_object.c, whose newlocale copies *)
(* a base, changes the copy and replaces the base in three steps, and the  *)
(* locale each thread has chosen for itself (src/locale/thread_locale.c).  *)
(* A handle is the address of an object, and an address is reused.         *)
(***************************************************************************)
EXTENDS Naturals, Sequences, SequencesExt, FiniteSets

CONSTANTS Threads,
          Cells,        \* heap cells an object can be allocated in
          Categories,   \* LC_CTYPE and some of the others
          Names,        \* the locale names that are tried
          Environments, \* values of the variables, "" when absent or empty
          SharedBases   \* may two threads change, or change and free, one object?

LocaleAssumption ==
    /\ "LC_CTYPE" \in Categories /\ SharedBases \in BOOLEAN
    /\ "LC_ALL" \notin Categories /\ "LC_GLOBAL_LOCALE" \notin Cells
    /\ \A e \in Environments : DOMAIN e = Categories \cup {"LC_ALL", "LANG"}

Global == "LC_GLOBAL_LOCALE"

Gone == [c \in Categories |-> "gone"]

VARIABLES
    objects,    \* the state of the object in a cell, or Gone
    list,       \* mini_locale_objects and its successors
    process,    \* mini_process_locale
    tcb,        \* locale_handle and locale_state of each thread; Global: no override
    task,       \* a newlocale or duplocale between two critical sections
    environ,
    promised,   \* history: each object with the changes that were reported done
    took        \* history: what uselocale found in the object it installed

vars == <<objects, list, process, tcb, task, environ, promised, took>>

-----------------------------------------------------------------------------
(* States and names.  A result is the set with the new state in it, or the *)
(* empty set when the name is refused.                                     *)
Baseline == [c \in Categories |-> "C"]

CName(name) == name \in {"C", "POSIX"}

Utf8Name(name) == name \in {"C.UTF-8", "C.utf8"}

Composite == "LC_CTYPE=C.UTF-8;LC_NUMERIC=C;LC_TIME=C;LC_COLLATE=C;LC_MONETARY=C"

Utf8 == [Baseline EXCEPT !["LC_CTYPE"] = "C.UTF-8"]

(* environment_locale: the first that is set of LC_ALL, the category's own *)
(* variable and LANG, or "C".                                              *)
EnvironmentLocale(category) ==
    LET candidates == <<environ["LC_ALL"], environ[category], environ["LANG"], "C">>
    IN  candidates[CHOOSE i \in 1 .. 4 : /\ candidates[i] # ""
                                         /\ \A j \in 1 .. i - 1 : candidates[j] = ""]

Selected(category, name) == IF name = "" THEN EnvironmentLocale(category) ELSE name

(* apply_category_unchecked: a name is C's, or UTF-8's for LC_CTYPE.       *)
Settable(category, name) == CName(name) \/ (Utf8Name(name) /\ category = "LC_CTYPE")

ModeOf(name) == IF CName(name) THEN "C" ELSE "C.UTF-8"

ApplyCategory(state, category, name) ==
    IF Settable(category, name) THEN {[state EXCEPT ![category] = ModeOf(name)]} ELSE {}

ApplyAll(name) ==
    CASE CName(name) -> {Baseline}
      [] Utf8Name(name) \/ name = Composite -> {Utf8}
      [] OTHER -> {}

Apply(state, category, name) ==
    IF category = "LC_ALL" THEN ApplyAll(Selected(category, name))
    ELSE ApplyCategory(state, category, Selected(category, name))

(* apply_category_mask: each category of the mask, or none.                *)
ApplyMask(state, mask, name) ==
    IF \A category \in mask : Settable(category, Selected(category, name))
    THEN {[category \in Categories |->
             IF category \in mask THEN ModeOf(Selected(category, name))
             ELSE state[category]]}
    ELSE {}

Query(state, category) ==
    IF category # "LC_ALL" THEN state[category]
    ELSE IF state = Baseline THEN "C" ELSE IF state = Utf8 THEN Composite ELSE ""

-----------------------------------------------------------------------------
Idle == [at |-> "idle"]

Init ==
    /\ objects = [c \in Cells |-> Gone]
    /\ list = <<>>
    /\ process = Baseline
    /\ tcb = [t \in Threads |-> [handle |-> Global, state |-> Baseline]]
    /\ task = [t \in Threads |-> Idle]
    /\ environ \in Environments
    /\ promised = [c \in Cells |-> Gone]
    /\ took = [t \in Threads |-> Baseline]

(* The lookup of a handle under the lock.                                  *)
Registered(c) == c \in Range(list)

Busy(c) == \E t \in Threads : task[t].at = "replace" /\ task[t].base = c

Allowed(c) == SharedBases \/ ~Busy(c)

(* create_object_from_state: malloc, then the insertion; without memory    *)
(* the call fails and changes nothing.                                     *)
Create(state) ==
    IF \A c \in Cells : objects[c] # Gone THEN UNCHANGED <<objects, list, promised>>
    ELSE \E c \in {d \in Cells : objects[d] = Gone} :
           /\ objects' = [objects EXCEPT ![c] = state]
           /\ promised' = [promised EXCEPT ![c] = state]
           /\ list' = <<c>> \o list

Newlocale(t, mask, name) ==
    /\ task[t] = Idle
    /\ \E state \in ApplyMask(Baseline, mask, name) : Create(state)
    /\ UNCHANGED <<process, tcb, task, environ, took>>

(* Deliberately wrong: the base itself is changed, category by category,   *)
(* and a name that is refused for one of them leaves the others changed.   *)
NewlocaleCopyInPlace(t, c, mask, name) ==
    /\ task[t] = Idle /\ Registered(c) /\ Allowed(c)
    /\ objects' = [objects EXCEPT ![c] =
         FoldSet(LAMBDA k, s : IF Apply(s, k, name) = {} THEN s
                               ELSE CHOOSE n \in Apply(s, k, name) : TRUE, @, mask)]
    /\ promised' = [promised EXCEPT ![c] =
         IF ApplyMask(@, mask, name) = {} THEN @
         ELSE CHOOSE n \in ApplyMask(@, mask, name) : TRUE]
    /\ UNCHANGED <<list, process, tcb, task, environ, took>>

(* newlocale with a base: copy and change ...                              *)
NewlocaleCopy(t, c, mask, name) ==
    /\ task[t] = Idle /\ Registered(c) /\ Allowed(c)
    /\ \E state \in ApplyMask(objects[c], mask, name) :
         task' = [task EXCEPT ![t] = [at |-> "replace", base |-> c, candidate |-> state,
                                      mask |-> mask, name |-> name]]
    /\ UNCHANGED <<objects, list, process, tcb, environ, promised, took>>

(* ... and replace, if the handle is still registered.                     *)
NewlocaleReplace(t) ==
    /\ task[t].at = "replace"
    /\ LET c == task[t].base
       IN  IF Registered(c)
           THEN /\ objects' = [objects EXCEPT ![c] = task[t].candidate]
                /\ \E state \in ApplyMask(promised[c], task[t].mask, task[t].name) :
                     promised' = [promised EXCEPT ![c] = state]
           ELSE UNCHANGED <<objects, promised>>
    /\ task' = [task EXCEPT ![t] = Idle]
    /\ UNCHANGED <<list, process, tcb, environ, took>>

Duplocale(t, h) ==
    /\ task[t] = Idle
    /\ h = Global \/ Registered(h)
    /\ task' = [task EXCEPT ![t] =
         [at |-> "create", candidate |-> IF h = Global THEN process ELSE objects[h]]]
    /\ UNCHANGED <<objects, list, process, tcb, environ, promised, took>>

DuplocaleCreate(t) ==
    /\ task[t].at = "create"
    /\ Create(task[t].candidate)
    /\ task' = [task EXCEPT ![t] = Idle]
    /\ UNCHANGED <<process, tcb, environ, took>>

(* freelocale of an object that other threads may have installed.          *)
Freelocale(t, c) ==
    /\ task[t] = Idle /\ Registered(c) /\ Allowed(c)
    /\ list' = RemoveAt(list, CHOOSE i \in DOMAIN list : list[i] = c)
    /\ objects' = [objects EXCEPT ![c] = Gone]
    /\ promised' = [promised EXCEPT ![c] = Gone]
    /\ UNCHANGED <<process, tcb, task, environ, took>>

(* uselocale copies the state into the thread's TCB; a handle that is not  *)
(* registered is refused and changes nothing.                              *)
Uselocale(t, h) ==
    /\ task[t] = Idle
    /\ IF h = Global
       THEN /\ tcb' = [tcb EXCEPT ![t].handle = Global]
            /\ UNCHANGED took
       ELSE /\ Registered(h)
            /\ tcb' = [tcb EXCEPT ![t] = [handle |-> h, state |-> objects[h]]]
            /\ took' = [took EXCEPT ![t] = objects[h]]
    /\ UNCHANGED <<objects, list, process, task, environ, promised>>

Setlocale(t, category, name) ==
    /\ task[t] = Idle
    /\ \E state \in Apply(process, category, name) : process' = state
    /\ UNCHANGED <<objects, list, tcb, task, environ, promised, took>>

Next ==
    \E t \in Threads :
        \/ NewlocaleReplace(t) \/ DuplocaleCreate(t)
        \/ \E mask \in SUBSET Categories, name \in Names :
             \/ Newlocale(t, mask, name)
             \/ \E c \in Cells : NewlocaleCopy(t, c, mask, name)
        \/ \E h \in Cells \cup {Global} : Duplocale(t, h) \/ Uselocale(t, h)
        \/ \E c \in Cells : Freelocale(t, c)
        \/ \E category \in Categories \cup {"LC_ALL"}, name \in Names :
             Setlocale(t, category, name)

Spec == Init /\ [][Next]_vars

-----------------------------------------------------------------------------
(* Deliberately wrong: the override is looked up through its handle.       *)
EffectiveByHandle(t) ==
    LET h == tcb[t].handle
    IN  IF h = Global THEN process ELSE IF objects[h] = Gone THEN Baseline ELSE objects[h]

(* The state a locale-sensitive call of thread t consults.                 *)
Effective(t) == IF tcb[t].handle = Global THEN process ELSE tcb[t].state

(* The registry is exactly the live objects; each holds every change that  *)
(* was reported done and no part of one that was refused; and the string   *)
(* that LC_ALL reports names the state it was reported for.                *)
ObjectsWhole ==
    /\ \A i, j \in DOMAIN list : i # j => list[i] # list[j]
    /\ Range(list) = {c \in Cells : objects[c] # Gone}
    /\ \A c \in Cells : objects[c] = promised[c]
    /\ \A s \in {process} \cup {objects[c] : c \in Range(list)} :
         Apply(s, "LC_ALL", Query(s, "LC_ALL")) = {s}

(* A thread's own locale stays what the object was when it was installed,  *)
(* whatever other threads do to the object or to the process meanwhile.    *)
LocaleFrozen ==
    \A t \in Threads : tcb[t].handle # Global => Effective(t) = took[t]
=============================================================================
