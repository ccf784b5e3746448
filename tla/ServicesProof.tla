--------------------------- MODULE ServicesProof ---------------------------
(***************************************************************************)
(* Proofs about locale objects, the bytes of one stream and new processes, *)
(* for every value of the services' constants.                             *)
(***************************************************************************)
EXTENDS Services, Integers, Functions, FiniteSetTheorems, SequenceTheorems,
        WellFoundedInduction, TLAPS

-----------------------------------------------------------------------------
(* Locale objects.  A state is one of two; a newlocale that is between its *)
(* copy and its replacement has the base to itself, so what it will store  *)
(* is what the call was asked for.                                         *)
States == {Locales!Baseline, Locales!Utf8}

LocaleTask(t) ==
    \/ localeTask[t] = Locales!Idle
    \/ localeTask[t].at = "create" /\ localeTask[t].candidate \in States
    \/ /\ localeTask[t].at = "replace"
       /\ localeTask[t].base \in Range(locales)
       /\ \E o \in States, mask \in SUBSET Categories, name \in Names :
            /\ o = objects[localeTask[t].base]
            /\ mask = localeTask[t].mask /\ name = localeTask[t].name
            /\ Locales!ApplyMask(o, mask, name) = {localeTask[t].candidate}
       /\ localeTask[t].candidate \in States

Distinct(list) == \A i, j \in DOMAIN list : i # j => list[i] # list[j]

LocaleTypes ==
    /\ objects \in [LocaleCells -> States \cup {Locales!Gone}]
    /\ promised = objects
    /\ locales \in Seq(LocaleCells)
    /\ process \in States
    /\ DOMAIN tcb = Threads /\ DOMAIN took = Threads /\ DOMAIN localeTask = Threads
    /\ \A t \in Threads : tcb[t] = [handle |-> tcb[t].handle, state |-> tcb[t].state]

LocaleInv ==
    /\ LocaleTypes
    /\ Distinct(locales)
    /\ Range(locales) = {c \in LocaleCells : objects[c] # Locales!Gone}
    /\ \A t \in Threads : LocaleTask(t)
    /\ \A t, u \in Threads :
         /\ localeTask[t].at = "replace" /\ localeTask[u].at = "replace"
         /\ localeTask[t].base = localeTask[u].base
         => t = u
    /\ \A t \in Threads :
         tcb[t].handle # Locales!Global => tcb[t].state = took[t]

(* What a name selects depends on the environment, which never changes.    *)
LEMMA SelectedStable ==
    ASSUME environ' = environ, NEW k, NEW n
    PROVE  Locales!Selected(k, n)' = Locales!Selected(k, n)
BY DEF Locales!Selected, Locales!EnvironmentLocale

LEMMA ApplyMaskStable ==
    ASSUME environ' = environ, NEW s, NEW mask, NEW n
    PROVE  Locales!ApplyMask(s, mask, n)' = Locales!ApplyMask(s, mask, n)
BY SelectedStable DEF Locales!ApplyMask, Locales!Settable, Locales!ModeOf, Locales!CName,
   Locales!Utf8Name

LEMMA ApplyMaskStates ==
    ASSUME NEW s \in States, NEW mask \in SUBSET Categories, NEW n,
           NEW r \in Locales!ApplyMask(s, mask, n)
    PROVE  r \in States /\ Locales!ApplyMask(s, mask, n) = {r}
<1>1. Locales!ApplyMask(s, mask, n) = {r}
  BY DEF Locales!ApplyMask
<1>2. \A k \in mask : Locales!Settable(k, Locales!Selected(k, n))
  BY DEF Locales!ApplyMask
<1>3. r = [k \in Categories |-> IF k \in mask THEN Locales!ModeOf(Locales!Selected(k, n))
                                ELSE s[k]]
  BY <1>1, <1>2 DEF Locales!ApplyMask
<1>4. r["LC_CTYPE"] \in {"C", "C.UTF-8"} /\ \A k \in Categories \ {"LC_CTYPE"} : r[k] = "C"
  BY <1>2, <1>3, ServicesAssumption
     DEF Locales!LocaleAssumption, Locales!Settable, Locales!ModeOf, States,
         Locales!Baseline, Locales!Utf8
<1>5. r = Locales!Baseline \/ r = Locales!Utf8
  BY <1>3, <1>4 DEF Locales!Baseline, Locales!Utf8
<1> QED BY <1>1, <1>5 DEF States

LEMMA ApplyStates ==
    ASSUME NEW s \in States, NEW k \in Categories \cup {"LC_ALL"}, NEW n,
           NEW r \in Locales!Apply(s, k, n)
    PROVE  r \in States
<1>1. CASE k = "LC_ALL"
  BY <1>1 DEF Locales!Apply, Locales!ApplyAll, States
<1>2. CASE k \in Categories /\ k # "LC_ALL"
  <2>1. /\ Locales!Settable(k, Locales!Selected(k, n))
        /\ r = [s EXCEPT ![k] = Locales!ModeOf(Locales!Selected(k, n))]
    BY <1>2 DEF Locales!Apply, Locales!ApplyCategory
  <2>2. r["LC_CTYPE"] \in {"C", "C.UTF-8"} /\ \A j \in Categories \ {"LC_CTYPE"} : r[j] = "C"
    BY <1>2, <2>1, ServicesAssumption
       DEF Locales!LocaleAssumption, Locales!Settable, Locales!ModeOf, States,
           Locales!Baseline, Locales!Utf8
  <2>3. r = Locales!Baseline \/ r = Locales!Utf8
    BY <2>1, <2>2 DEF Locales!Baseline, Locales!Utf8, States
  <2> QED BY <2>3 DEF States
<1> QED BY <1>1, <1>2

LEMMA StatesLive == Locales!Gone \notin States
BY ServicesAssumption
   DEF Locales!LocaleAssumption, States, Locales!Gone, Locales!Baseline, Locales!Utf8

(* The registry with a new object at its head, and without one of its own. *)
LEMMA Prepended ==
    ASSUME NEW S, NEW s \in Seq(S), Distinct(s), NEW x \in S, x \notin Range(s)
    PROVE  /\ <<x>> \o s \in Seq(S) /\ Distinct(<<x>> \o s)
           /\ Range(<<x>> \o s) = Range(s) \cup {x}
<1> DEFINE r == <<x>> \o s
<1>1. /\ r \in Seq(S) /\ Len(r) = Len(s) + 1 /\ r[1] = x
      /\ \A i \in 1 .. Len(s) : r[i + 1] = s[i]
  OBVIOUS
<1>2. DOMAIN r = 1 .. Len(s) + 1 /\ DOMAIN s = 1 .. Len(s) /\ Len(s) \in Nat
  BY <1>1
<1>3. \A i \in 2 .. Len(s) + 1 : i - 1 \in 1 .. Len(s) /\ r[i] = s[i - 1]
  BY <1>1, <1>2
<1> HIDE DEF r
<1>4. Range(r) = Range(s) \cup {x}
  <2>1. ASSUME NEW y \in Range(r) PROVE y \in Range(s) \cup {x}
    <3>1. PICK i \in 1 .. Len(s) + 1 : y = r[i]
      BY <1>2 DEF Range
    <3>2. i = 1 \/ i \in 2 .. Len(s) + 1
      BY <1>2, <3>1
    <3> QED BY <1>1, <1>2, <1>3, <3>1, <3>2 DEF Range
  <2>2. ASSUME NEW y \in Range(s) PROVE y \in Range(r)
    <3>1. PICK i \in 1 .. Len(s) : y = s[i]
      BY <1>2 DEF Range
    <3>2. i + 1 \in DOMAIN r /\ r[i + 1] = y
      BY <1>1, <1>2, <3>1
    <3> QED BY <3>2 DEF Range
  <2>3. x \in Range(r)
    BY <1>1, <1>2 DEF Range
  <2> QED BY <2>1, <2>2, <2>3
<1>5. Distinct(r)
  <2> SUFFICES ASSUME NEW i \in DOMAIN r, NEW j \in DOMAIN r, i < j, r[i] = r[j] PROVE FALSE
    BY <1>2 DEF Distinct
  <2>1. j \in 2 .. Len(s) + 1 /\ r[j] = s[j - 1] /\ j - 1 \in DOMAIN s
    BY <1>2, <1>3
  <2>2. CASE i = 1
    BY <1>1, <2>1, <2>2 DEF Range
  <2>3. CASE i # 1
    <3>1. r[i] = s[i - 1] /\ i - 1 \in DOMAIN s /\ i - 1 # j - 1
      BY <1>2, <1>3, <2>1, <2>3
    <3> QED BY <2>1, <3>1 DEF Distinct
  <2> QED BY <2>2, <2>3
<1> QED BY <1>1, <1>4, <1>5 DEF r

LEMMA Removed ==
    ASSUME NEW S, NEW s \in Seq(S), Distinct(s), NEW x \in Range(s)
    PROVE  LET r == Locales!RemoveAt(s, CHOOSE i \in DOMAIN s : s[i] = x)
           IN  r \in Seq(S) /\ Distinct(r) /\ Range(r) = Range(s) \ {x}
<1>1. PICK k : k = CHOOSE i \in DOMAIN s : s[i] = x
  OBVIOUS
<1>2. k \in DOMAIN s /\ s[k] = x
  BY <1>1 DEF Range
<1>3. PICK r : r = SubSeq(s, 1, k - 1) \o SubSeq(s, k + 1, Len(s))
  OBVIOUS
<1>4. PICK n : n = Len(s)
  OBVIOUS
<1>5. n \in Nat /\ DOMAIN s = 1 .. n /\ k \in 1 .. n
  BY <1>2, <1>4
<1>6. /\ r \in Seq(S) /\ Len(r) = n - 1
      /\ \A i \in 1 .. k - 1 : r[i] = s[i]
      /\ \A i \in k .. n - 1 : r[i] = s[i + 1]
  <2>1. PICK a : a = SubSeq(s, 1, k - 1)
    OBVIOUS
  <2>2. PICK b : b = SubSeq(s, k + 1, n)
    OBVIOUS
  <2>3. a \in Seq(S) /\ Len(a) = k - 1 /\ \A i \in 1 .. k - 1 : a[i] = s[i]
    BY <1>4, <1>5, <2>1
  <2>4. b \in Seq(S) /\ Len(b) = n - k /\ \A i \in 1 .. n - k : b[i] = s[i + k]
    BY <1>4, <1>5, <2>2
  <2>5. r = a \o b
    BY <1>3, <1>4, <2>1, <2>2
  <2>6. r \in Seq(S) /\ Len(r) = n - 1
    <3>1. r \in Seq(S) /\ Len(r) = Len(a) + Len(b)
      BY <2>3, <2>4, <2>5, ConcatProperties
    <3> QED BY <1>5, <2>3, <2>4, <3>1
  <2>7. \A i \in 1 .. k - 1 : r[i] = a[i]
    <3> SUFFICES ASSUME NEW i \in 1 .. k - 1 PROVE r[i] = a[i]
      OBVIOUS
    <3>1. i \in 1 .. Len(a) + Len(b) /\ i <= Len(a)
      BY <1>5, <2>3, <2>4
    <3> QED BY <2>3, <2>4, <2>5, <3>1, ConcatProperties
  <2>8. \A i \in k .. n - 1 : r[i] = b[i - k + 1] /\ i - k + 1 \in 1 .. n - k
    <3> SUFFICES ASSUME NEW i \in k .. n - 1
                 PROVE  r[i] = b[i - k + 1] /\ i - k + 1 \in 1 .. n - k
      OBVIOUS
    <3>1. /\ i \in 1 .. Len(a) + Len(b) /\ i > Len(a) /\ i - Len(a) = i - k + 1
          /\ i - k + 1 \in 1 .. n - k
      BY <1>5, <2>3, <2>4
    <3>2. r[i] = b[i - Len(a)]
      BY <2>3, <2>4, <2>5, <3>1, ConcatProperties
    <3> QED BY <3>1, <3>2
  <2>9. \A i \in k .. n - 1 : r[i] = s[i + 1]
    <3> SUFFICES ASSUME NEW i \in k .. n - 1 PROVE r[i] = s[i + 1]
      OBVIOUS
    <3>1. i - k + 1 \in 1 .. n - k /\ (i - k + 1) + k = i + 1
      BY <1>5
    <3> QED BY <2>4, <2>8, <3>1
  <2> QED BY <2>3, <2>6, <2>7, <2>9
<1>7. DOMAIN r = 1 .. n - 1
  BY <1>5, <1>6
<1>8. Range(r) = Range(s) \ {x}
  <2>1. ASSUME NEW y \in Range(r) PROVE y \in Range(s) /\ y # x
    <3>1. PICK i \in 1 .. n - 1 : y = r[i]
      BY <1>7 DEF Range
    <3>2. PICK j \in 1 .. n : y = s[j] /\ j # k
      BY <1>5, <1>6, <3>1
    <3> QED BY <1>2, <1>5, <3>2 DEF Distinct, Range
  <2>2. ASSUME NEW y \in Range(s), y # x PROVE y \in Range(r)
    <3>1. PICK j \in 1 .. n : y = s[j] /\ j # k
      BY <1>2, <1>5, <2>2 DEF Range
    <3>2. CASE j < k
      BY <1>5, <1>6, <1>7, <3>1, <3>2 DEF Range
    <3>3. CASE j > k
      <4>1. j - 1 \in k .. n - 1 /\ (j - 1) + 1 = j /\ j - 1 \in 1 .. n - 1
        BY <1>5, <3>1, <3>3
      <4>2. r[j - 1] = y
        BY <1>6, <3>1, <4>1
      <4> QED BY <1>7, <4>1, <4>2 DEF Range
    <3> QED BY <1>5, <3>1, <3>2, <3>3
  <2> QED BY <2>1, <2>2
<1>9. Distinct(r)
  <2> SUFFICES ASSUME NEW i \in 1 .. n - 1, NEW j \in 1 .. n - 1, i < j PROVE r[i] # r[j]
    BY <1>5, <1>7 DEF Distinct
  <2>1. PICK p \in 1 .. n : r[i] = s[p] /\ p = (IF i < k THEN i ELSE i + 1)
    BY <1>5, <1>6
  <2>2. PICK q \in 1 .. n : r[j] = s[q] /\ q = (IF j < k THEN j ELSE j + 1)
    BY <1>5, <1>6
  <2>3. p # q
    BY <1>5, <2>1, <2>2
  <2> QED BY <1>5, <2>1, <2>2, <2>3 DEF Distinct
<1> QED BY <1>1, <1>3, <1>4, <1>6, <1>8, <1>9 DEF Locales!RemoveAt

LEMMA LocaleInit == AtRest => LocaleInv
<1> SUFFICES ASSUME AtRest PROVE LocaleInv
  OBVIOUS
<1>1. Locales!Init
  BY DEF AtRest
<1>2. LocaleTypes
  BY <1>1 DEF Locales!Init, LocaleTypes, States
<1>3. Distinct(locales) /\ Range(locales) = {}
  BY <1>1 DEF Locales!Init, Distinct, Range
<1>4. \A t \in Threads : localeTask[t] = Locales!Idle /\ localeTask[t].at # "replace"
  BY <1>1 DEF Locales!Init, Locales!Idle
<1> QED BY <1>1, <1>2, <1>3, <1>4 DEF Locales!Init, LocaleInv, LocaleTask

LEMMA TaskKept ==
    ASSUME environ' = environ, NEW t, LocaleTask(t), localeTask'[t] = localeTask[t],
           localeTask[t].at = "replace" =>
             /\ localeTask[t].base \in Range(locales)'
             /\ objects'[localeTask[t].base] = objects[localeTask[t].base]
    PROVE  LocaleTask(t)'
<1>1. CASE localeTask[t] = Locales!Idle
  BY <1>1 DEF LocaleTask, Locales!Idle
<1>2. CASE localeTask[t].at = "create" /\ localeTask[t].candidate \in States
  BY <1>2 DEF LocaleTask, States, Locales!Baseline, Locales!Utf8
<1>3. CASE localeTask[t].at = "replace"
  <2>1. localeTask[t] # Locales!Idle /\ localeTask[t].at # "create"
    BY <1>3 DEF Locales!Idle
  <2>2. PICK o \in States, mask \in SUBSET Categories, name \in Names :
          /\ o = objects[localeTask[t].base]
          /\ mask = localeTask[t].mask /\ name = localeTask[t].name
          /\ Locales!ApplyMask(o, mask, name) = {localeTask[t].candidate}
    BY <2>1 DEF LocaleTask
  <2>3. Locales!ApplyMask(o, mask, name)' = Locales!ApplyMask(o, mask, name)
    BY ApplyMaskStable
  <2>4. States' = States
    BY DEF States, Locales!Baseline, Locales!Utf8
  <2>5. localeTask[t].candidate \in States
    BY <2>1 DEF LocaleTask
  <2>6. /\ localeTask'[t].at = "replace" /\ localeTask'[t].base \in Range(locales)'
        /\ o = objects'[localeTask'[t].base]
        /\ mask = localeTask'[t].mask /\ name = localeTask'[t].name
        /\ Locales!ApplyMask(o, mask, name)' = {localeTask'[t].candidate}
        /\ localeTask'[t].candidate \in States'
    BY <1>3, <2>2, <2>3, <2>4, <2>5
  <2> QED BY <2>4, <2>6 DEF LocaleTask
<1> QED BY <1>1, <1>2, <1>3 DEF LocaleTask


(* create_object_from_state, by a thread that is idle again afterwards.    *)
LEMMA CreateStep ==
    ASSUME LocaleInv, NEW t \in Threads, NEW s \in States, Locales!Create(s),
           UNCHANGED <<process, tcb, environ, took>>,
           \/ localeTask' = localeTask
           \/ localeTask' = [localeTask EXCEPT ![t] = Locales!Idle]
    PROVE  LocaleInv'
<1> USE DEF LocaleInv
<1>1. States' = States /\ Locales!Gone' = Locales!Gone
  BY DEF States, Locales!Baseline, Locales!Utf8, Locales!Gone
<1>2. CASE UNCHANGED <<objects, locales, promised>>
  <2>1. LocaleTypes'
    BY <1>1, <1>2 DEF LocaleTypes
  <2>2. \A u \in Threads : localeTask'[u] = localeTask[u] \/ localeTask'[u] = Locales!Idle
    BY DEF LocaleTypes
  <2>3. \A u \in Threads : LocaleTask(u)'
    <3> SUFFICES ASSUME NEW u \in Threads PROVE LocaleTask(u)'
      OBVIOUS
    <3>1. CASE localeTask'[u] = localeTask[u]
      BY <1>2, <3>1, TaskKept DEF LocaleTask, Locales!Idle
    <3>2. CASE localeTask'[u] = Locales!Idle
      BY <3>2 DEF LocaleTask, Locales!Idle
    <3> QED BY <2>2, <3>1, <3>2
  <2>4. \A u \in Threads : localeTask'[u].at = "replace" => localeTask'[u] = localeTask[u]
    BY <2>2 DEF Locales!Idle
  <2>5. Distinct(locales)' /\ Range(locales)' = Range(locales)
    BY <1>2 DEF Distinct, Range
  <2> QED BY <1>1, <1>2, <2>1, <2>3, <2>4, <2>5
<1>3. ASSUME NEW c \in LocaleCells, objects[c] = Locales!Gone,
             objects' = [objects EXCEPT ![c] = s],
             promised' = [promised EXCEPT ![c] = s],
             locales' = <<c>> \o locales
      PROVE  LocaleInv'
  <2>1. c \notin Range(locales)
    BY <1>3
  <2>2. /\ locales' \in Seq(LocaleCells) /\ Distinct(locales')
        /\ Range(locales') = Range(locales) \cup {c}
    BY <1>3, <2>1, Prepended DEF LocaleTypes
  <2>3. LocaleTypes'
    BY <1>1, <1>3, <2>2 DEF LocaleTypes
  <2>4. Range(locales)' = {d \in LocaleCells : objects'[d] # Locales!Gone}
    BY <1>3, <2>2, StatesLive DEF LocaleTypes, Range
  <2>5. \A u \in Threads : localeTask'[u] = localeTask[u] \/ localeTask'[u] = Locales!Idle
    BY DEF LocaleTypes
  <2>6. \A u \in Threads : LocaleTask(u)'
    <3> SUFFICES ASSUME NEW u \in Threads PROVE LocaleTask(u)'
      OBVIOUS
    <3>1. CASE localeTask'[u] = localeTask[u]
      <4>1. localeTask[u].at = "replace" =>
              /\ localeTask[u].base \in Range(locales)
              /\ localeTask[u].base \in LocaleCells /\ localeTask[u].base # c
        BY <2>1 DEF LocaleTask, Locales!Idle
      <4>2. localeTask[u].at = "replace" =>
              /\ localeTask[u].base \in Range(locales)'
              /\ objects'[localeTask[u].base] = objects[localeTask[u].base]
        BY <1>3, <2>2, <4>1 DEF LocaleTypes, Range
      <4> QED BY <3>1, <4>2, TaskKept
    <3>2. CASE localeTask'[u] = Locales!Idle
      BY <3>2 DEF LocaleTask, Locales!Idle
    <3> QED BY <2>5, <3>1, <3>2
  <2>7. \A u \in Threads : localeTask'[u].at = "replace" => localeTask'[u] = localeTask[u]
    BY <2>5 DEF Locales!Idle
  <2>8. Distinct(locales)'
    BY <2>2 DEF Distinct
  <2> QED BY <1>1, <2>3, <2>4, <2>6, <2>7, <2>8
<1> QED BY <1>2, <1>3 DEF Locales!Create

LEMMA LocaleIdleStep ==
    ASSUME LocaleInv, UNCHANGED <<objects, locales, localeTask, environ, promised>>,
           process' \in States,
           DOMAIN tcb' = Threads, DOMAIN took' = Threads,
           \A t \in Threads :
             /\ tcb'[t] = [handle |-> tcb'[t].handle, state |-> tcb'[t].state]
             /\ tcb'[t].handle # Locales!Global => tcb'[t].state = took'[t]
    PROVE  LocaleInv'
<1> USE DEF LocaleInv
<1>1. States' = States /\ Locales!Gone' = Locales!Gone
  BY DEF States, Locales!Baseline, Locales!Utf8, Locales!Gone
<1>2. LocaleTypes'
  BY <1>1 DEF LocaleTypes
<1>3. \A t \in Threads : LocaleTask(t)'
  <2> SUFFICES ASSUME NEW t \in Threads PROVE LocaleTask(t)'
    OBVIOUS
  <2>1. localeTask[t].at = "replace" => localeTask[t].base \in Range(locales)'
    BY DEF LocaleTask, Locales!Idle, Range
  <2> QED BY <2>1, TaskKept
<1> QED BY <1>1, <1>2, <1>3 DEF Distinct, Range, Locales!Global

LEMMA LocaleStep == ASSUME LocaleInv, Locales!Next PROVE LocaleInv'
<1> USE DEF LocaleInv
<1>1. /\ States' = States /\ Locales!Gone' = Locales!Gone /\ Locales!Idle' = Locales!Idle
      /\ Locales!Global' = Locales!Global
  BY DEF States, Locales!Baseline, Locales!Utf8, Locales!Gone, Locales!Idle, Locales!Global
<1>2. ASSUME NEW t \in Threads, Locales!NewlocaleReplace(t) PROVE LocaleInv'
  <2>1. PICK c : c = localeTask[t].base
    OBVIOUS
  <2>2. PICK k : k = localeTask[t]
    OBVIOUS
  <2>3. /\ k.at = "replace" /\ k.base = c /\ c \in Range(locales) /\ c \in LocaleCells
        /\ objects[c] \in States /\ promised[c] = objects[c]
    <3>1. localeTask[t].at = "replace" /\ localeTask[t] # Locales!Idle
      BY <1>2 DEF Locales!NewlocaleReplace, Locales!Idle
    <3>2. LocaleTask(t)
      OBVIOUS
    <3>3. c \in Range(locales)
      BY <2>1, <3>1, <3>2 DEF LocaleTask
    <3>4. c \in LocaleCells /\ objects[c] \in States
      BY <3>3 DEF LocaleTypes
    <3> QED BY <2>1, <2>2, <3>1, <3>3, <3>4 DEF LocaleTypes
  <2>4. k.candidate \in States /\ Locales!ApplyMask(objects[c], k.mask, k.name) = {k.candidate}
    <3>1. localeTask[t].at = "replace" /\ localeTask[t] # Locales!Idle
      BY <1>2 DEF Locales!NewlocaleReplace, Locales!Idle
    <3>2. LocaleTask(t)
      OBVIOUS
    <3>3. PICK o \in States, mask \in SUBSET Categories, name \in Names :
            /\ o = objects[localeTask[t].base]
            /\ mask = localeTask[t].mask /\ name = localeTask[t].name
            /\ Locales!ApplyMask(o, mask, name) = {localeTask[t].candidate}
            /\ localeTask[t].candidate \in States
      BY <3>1, <3>2 DEF LocaleTask
    <3> QED BY <2>1, <2>2, <3>3
  <2>5. Locales!Registered(c)
    BY <2>3 DEF Locales!Registered, Range, Locales!Range
  <2>6. /\ objects' = [objects EXCEPT ![c] = k.candidate]
        /\ promised' = [promised EXCEPT ![c] = k.candidate]
        /\ localeTask' = [localeTask EXCEPT ![t] = Locales!Idle]
        /\ UNCHANGED <<locales, process, tcb, environ, took>>
    BY <1>2, <2>1, <2>2, <2>3, <2>4, <2>5 DEF Locales!NewlocaleReplace
  <2>7. LocaleTypes'
    BY <1>1, <2>3, <2>4, <2>6 DEF LocaleTypes
  <2>8. Distinct(locales)' /\ Range(locales)' = Range(locales)
    BY <2>6 DEF Distinct, Range
  <2>9. Range(locales)' = {d \in LocaleCells : objects'[d] # Locales!Gone}
    BY <2>3, <2>4, <2>6, <2>8, StatesLive DEF LocaleTypes
  <2>10. \A u \in Threads : LocaleTask(u)'
    <3> SUFFICES ASSUME NEW u \in Threads PROVE LocaleTask(u)'
      OBVIOUS
    <3>1. CASE u = t
      BY <2>6, <3>1 DEF LocaleTypes, LocaleTask, Locales!Idle
    <3>2. CASE u # t
      <4>1. localeTask'[u] = localeTask[u]
        BY <2>6, <3>2 DEF LocaleTypes
      <4>2. localeTask[u].at = "replace" =>
              localeTask[u].base \in Range(locales) /\ localeTask[u].base # c
        BY <2>2, <2>3, <3>2 DEF LocaleTask, Locales!Idle
      <4>3. localeTask[u].at = "replace" =>
              objects'[localeTask[u].base] = objects[localeTask[u].base]
        BY <2>6, <4>2 DEF LocaleTypes
      <4> QED BY <2>6, <2>8, <4>1, <4>2, <4>3, TaskKept
    <3> QED BY <3>1, <3>2
  <2>11. \A u \in Threads : localeTask'[u].at = "replace" => localeTask'[u] = localeTask[u]
    BY <2>6 DEF LocaleTypes, Locales!Idle
  <2> QED BY <1>1, <2>6, <2>7, <2>8, <2>9, <2>10, <2>11
<1>3. ASSUME NEW t \in Threads, Locales!DuplocaleCreate(t) PROVE LocaleInv'
  <2>1. localeTask[t].candidate \in States
    BY <1>3 DEF Locales!DuplocaleCreate, LocaleTask, Locales!Idle
  <2> QED BY <1>3, <2>1, CreateStep DEF Locales!DuplocaleCreate
<1>4. ASSUME NEW t \in Threads, NEW mask \in SUBSET Categories, NEW name \in Names,
             Locales!Newlocale(t, mask, name)
      PROVE  LocaleInv'
  <2>1. PICK s \in Locales!ApplyMask(Locales!Baseline, mask, name) : Locales!Create(s)
    BY <1>4 DEF Locales!Newlocale
  <2>2. s \in States
    BY ApplyMaskStates DEF States
  <2> QED BY <1>4, <2>1, <2>2, CreateStep DEF Locales!Newlocale
<1>5. ASSUME NEW t \in Threads, NEW mask \in SUBSET Categories, NEW name \in Names,
             NEW c \in LocaleCells, Locales!NewlocaleCopy(t, c, mask, name)
      PROVE  LocaleInv'
  <2>1. c \in Range(locales) /\ localeTask[t] = Locales!Idle /\ ~Locales!Busy(c)
    BY <1>5 DEF Locales!NewlocaleCopy, Locales!Registered, Range, Locales!Range,
       Locales!Allowed
  <2>2. objects[c] \in States
    BY <2>1 DEF LocaleTypes
  <2>3. PICK s \in Locales!ApplyMask(objects[c], mask, name) :
          localeTask' = [localeTask EXCEPT ![t] =
            [at |-> "replace", base |-> c, candidate |-> s, mask |-> mask, name |-> name]]
    BY <1>5 DEF Locales!NewlocaleCopy
  <2>4. s \in States /\ Locales!ApplyMask(objects[c], mask, name) = {s}
    BY <2>2, <2>3, ApplyMaskStates
  <2>5. UNCHANGED <<objects, locales, process, tcb, environ, promised, took>>
    BY <1>5 DEF Locales!NewlocaleCopy
  <2>6. LocaleTypes'
    BY <1>1, <2>3, <2>5 DEF LocaleTypes
  <2>7. Distinct(locales)' /\ Range(locales)' = Range(locales)
    BY <2>5 DEF Distinct, Range
  <2>8. \A u \in Threads : u # t => localeTask'[u] = localeTask[u]
    BY <2>3 DEF LocaleTypes
  <2>9. localeTask'[t] =
          [at |-> "replace", base |-> c, candidate |-> s, mask |-> mask, name |-> name]
    BY <2>3 DEF LocaleTypes
  <2>10. LocaleTask(t)'
    <3>1. PICK o \in States : o = objects[c]
      BY <2>2
    <3>2. Locales!ApplyMask(o, mask, name)' = {s}
      BY <2>4, <2>5, <3>1, ApplyMaskStable
    <3> QED BY <1>1, <2>1, <2>4, <2>5, <2>7, <2>9, <3>1, <3>2 DEF LocaleTask
  <2>11. ASSUME NEW u \in Threads, u # t PROVE LocaleTask(u)'
    <3>1. localeTask[u].at = "replace" => localeTask[u].base \in Range(locales)
      BY DEF LocaleTask, Locales!Idle
    <3> QED BY <2>5, <2>7, <2>8, <2>11, <3>1, TaskKept
  <2>12. ASSUME NEW u \in Threads, u # t, localeTask'[u].at = "replace"
         PROVE  localeTask'[u].base # c
    BY <2>1, <2>8, <2>12 DEF Locales!Busy
  <2>13. \A u, v \in Threads :
           /\ localeTask'[u].at = "replace" /\ localeTask'[v].at = "replace"
           /\ localeTask'[u].base = localeTask'[v].base
           => u = v
    BY <2>8, <2>9, <2>12
  <2> QED BY <1>1, <2>5, <2>6, <2>7, <2>10, <2>11, <2>13
<1>6. ASSUME NEW t \in Threads, NEW h \in LocaleCells \cup {Locales!Global},
             Locales!Duplocale(t, h)
      PROVE  LocaleInv'
  <2>1. PICK s : s = IF h = Locales!Global THEN process ELSE objects[h]
    OBVIOUS
  <2>2. s \in States
    BY <1>6, <2>1
       DEF Locales!Duplocale, Locales!Registered, Range, Locales!Range, LocaleTypes
  <2>3. /\ localeTask' = [localeTask EXCEPT ![t] = [at |-> "create", candidate |-> s]]
        /\ UNCHANGED <<objects, locales, process, tcb, environ, promised, took>>
    BY <1>6, <2>1 DEF Locales!Duplocale
  <2>4. LocaleTypes'
    BY <1>1, <2>3 DEF LocaleTypes
  <2>5. Distinct(locales)' /\ Range(locales)' = Range(locales)
    BY <2>3 DEF Distinct, Range
  <2>6. localeTask'[t] = [at |-> "create", candidate |-> s]
    BY <2>3 DEF LocaleTypes
  <2>7. \A u \in Threads : u # t => localeTask'[u] = localeTask[u]
    BY <2>3 DEF LocaleTypes
  <2>8. ASSUME NEW u \in Threads PROVE LocaleTask(u)'
    <3>1. CASE u = t
      BY <1>1, <2>2, <2>6, <3>1 DEF LocaleTask
    <3>2. CASE u # t
      <4>1. localeTask[u].at = "replace" => localeTask[u].base \in Range(locales)
        BY DEF LocaleTask, Locales!Idle
      <4> QED BY <2>3, <2>5, <2>7, <3>2, <4>1, TaskKept
    <3> QED BY <3>1, <3>2
  <2>9. \A u \in Threads : localeTask'[u].at = "replace" => localeTask'[u] = localeTask[u]
    BY <2>6, <2>7
  <2> QED BY <1>1, <2>3, <2>4, <2>5, <2>8, <2>9
<1>7. ASSUME NEW t \in Threads, NEW c \in LocaleCells, Locales!Freelocale(t, c)
      PROVE  LocaleInv'
  <2>1. c \in Range(locales) /\ ~Locales!Busy(c)
    BY <1>7 DEF Locales!Freelocale, Locales!Registered, Range, Locales!Range, Locales!Allowed
  <2>2. /\ locales' = Locales!RemoveAt(locales, CHOOSE i \in DOMAIN locales : locales[i] = c)
        /\ objects' = [objects EXCEPT ![c] = Locales!Gone]
        /\ promised' = [promised EXCEPT ![c] = Locales!Gone]
        /\ UNCHANGED <<process, tcb, localeTask, environ, took>>
    BY <1>7 DEF Locales!Freelocale
  <2>3. /\ locales' \in Seq(LocaleCells) /\ Distinct(locales')
        /\ Range(locales') = Range(locales) \ {c}
    BY <2>1, <2>2, Removed DEF LocaleTypes
  <2>4. LocaleTypes'
    BY <1>1, <2>2, <2>3 DEF LocaleTypes
  <2>5. Distinct(locales)' /\ Range(locales)' = Range(locales) \ {c}
    BY <2>3 DEF Distinct, Range
  <2>6. Range(locales)' = {d \in LocaleCells : objects'[d] # Locales!Gone}
    BY <2>2, <2>5 DEF LocaleTypes
  <2>7. ASSUME NEW u \in Threads PROVE LocaleTask(u)'
    <3>1. localeTask[u].at = "replace" =>
            localeTask[u].base \in Range(locales) /\ localeTask[u].base # c
      BY <2>1 DEF LocaleTask, Locales!Idle, Locales!Busy
    <3>2. localeTask[u].at = "replace" =>
            objects'[localeTask[u].base] = objects[localeTask[u].base]
      BY <2>2, <3>1 DEF LocaleTypes
    <3> QED BY <2>2, <2>5, <3>1, <3>2, TaskKept
  <2> QED BY <1>1, <2>2, <2>4, <2>5, <2>6, <2>7
<1>8. ASSUME NEW t \in Threads, NEW h \in LocaleCells \cup {Locales!Global},
             Locales!Uselocale(t, h)
      PROVE  LocaleInv'
  <2>1. process \in States
    BY DEF LocaleTypes
  <2>2. UNCHANGED <<objects, locales, localeTask, environ, promised, process>>
    BY <1>8 DEF Locales!Uselocale
  <2>3. CASE h = Locales!Global
    <3>1. tcb' = [tcb EXCEPT ![t].handle = Locales!Global] /\ took' = took
      BY <1>8, <2>3 DEF Locales!Uselocale
    <3>2. /\ tcb'[t] = [handle |-> Locales!Global, state |-> tcb[t].state]
          /\ \A u \in Threads : u # t => tcb'[u] = tcb[u]
          /\ DOMAIN tcb' = Threads
      BY <3>1 DEF LocaleTypes
    <3> QED BY <2>1, <2>2, <3>1, <3>2, LocaleIdleStep DEF LocaleTypes
  <2>4. CASE h # Locales!Global
    <3>1. /\ tcb' = [tcb EXCEPT ![t] = [handle |-> h, state |-> objects[h]]]
          /\ took' = [took EXCEPT ![t] = objects[h]]
      BY <1>8, <2>4 DEF Locales!Uselocale
    <3>2. /\ tcb'[t] = [handle |-> h, state |-> objects[h]] /\ took'[t] = objects[h]
          /\ \A u \in Threads : u # t => tcb'[u] = tcb[u] /\ took'[u] = took[u]
          /\ DOMAIN tcb' = Threads /\ DOMAIN took' = Threads
      BY <3>1 DEF LocaleTypes
    <3> QED BY <2>1, <2>2, <3>2, LocaleIdleStep DEF LocaleTypes
  <2> QED BY <2>3, <2>4
<1>9. ASSUME NEW t \in Threads, NEW k \in Categories \cup {"LC_ALL"}, NEW name \in Names,
             Locales!Setlocale(t, k, name)
      PROVE  LocaleInv'
  <2>1. process' \in States
    BY <1>9, ApplyStates DEF Locales!Setlocale, LocaleTypes
  <2> QED BY <1>9, <2>1, LocaleIdleStep DEF Locales!Setlocale, LocaleTypes
<1> HIDE DEF LocaleInv
<1> QED BY <1>2, <1>3, <1>4, <1>5, <1>6, <1>7, <1>8, <1>9 DEF Locales!Next

LEMMA LocaleStays == ASSUME LocaleInv, UNCHANGED localeVars PROVE LocaleInv'
<1>1. States' = States /\ Locales!Gone' = Locales!Gone /\ Locales!Global' = Locales!Global
  BY DEF States, Locales!Baseline, Locales!Utf8, Locales!Gone, Locales!Global
<1>2. UNCHANGED <<objects, locales, process, tcb, localeTask, environ, promised, took>>
  BY DEF localeVars
<1>3. process' \in States
  BY <1>2 DEF LocaleInv, LocaleTypes
<1> QED BY <1>2, <1>3, LocaleIdleStep DEF LocaleInv, LocaleTypes

LEMMA LocaleAlways == Spec => []LocaleInv
<1>1. Init => LocaleInv
  BY LocaleInit DEF Init
<1>2. LocaleInv /\ [Next]_vars => LocaleInv'
  <2> SUFFICES ASSUME LocaleInv, [Next]_vars PROVE LocaleInv'
    OBVIOUS
  <2>1. Locales!Next \/ UNCHANGED localeVars
    BY DEF Next, vars
  <2> QED BY <2>1, LocaleStep, LocaleStays
<1> QED BY <1>1, <1>2, PTL DEF Spec

(* newlocale and freelocale (locale_object.c): the registry is exactly the *)
(* live objects, each once; an object has every change that was reported   *)
(* and no part of one that was refused, although its copy and its          *)
(* replacement are two critical sections.                                  *)
THEOREM WholeObjects == Spec => []ObjectsWhole
<1>1. LocaleInv => ObjectsWhole
  <2> SUFFICES ASSUME LocaleInv PROVE ObjectsWhole
    OBVIOUS
  <2>1. \A s \in States : Locales!Apply(s, "LC_ALL", Locales!Query(s, "LC_ALL")) = {s}
    <3>1. Locales!Baseline # Locales!Utf8
      BY ServicesAssumption
         DEF Locales!LocaleAssumption, Locales!Baseline, Locales!Utf8
    <3> QED BY <3>1 DEF States, Locales!Apply, Locales!Query, Locales!ApplyAll,
                        Locales!Selected, Locales!CName, Locales!Utf8Name, Locales!Composite
  <2>2. \A c \in Range(locales) : objects[c] \in States
    BY DEF LocaleInv, LocaleTypes
  <2>3. \A s \in {process} \cup {objects[c] : c \in Range(locales)} : s \in States
    BY <2>2 DEF LocaleInv, LocaleTypes
  <2>4. Range(locales) = Locales!Range(locales)
    BY DEF Range, Locales!Range
  <2> QED BY <2>1, <2>3, <2>4 DEF ObjectsWhole, Locales!ObjectsWhole, LocaleInv, LocaleTypes,
                                  Distinct
<1> QED BY <1>1, LocaleAlways, PTL

(* uselocale (thread_locale.c): a thread's own locale is what the object   *)
(* was when it was installed, whatever becomes of the object afterwards.   *)
THEOREM FrozenLocale == Spec => []LocaleFrozen
<1>1. LocaleInv => LocaleFrozen
  BY DEF LocaleInv, LocaleFrozen, Locales!LocaleFrozen, Locales!Effective
<1> QED BY <1>1, LocaleAlways, PTL

-----------------------------------------------------------------------------
(* One stream.  Bytes laid over a sequence, then more bytes behind them,   *)
(* are the two laid over it together.                                      *)
LEMMA PutWhole ==
    ASSUME NEW B, NEW s \in Seq(B), NEW at \in 0 .. Len(s), NEW b \in Seq(B)
    PROVE  LET r == One!Put(s, at, b)
           IN  /\ r \in Seq(B)
               /\ Len(r) = IF at + Len(b) > Len(s) THEN at + Len(b) ELSE Len(s)
               /\ \A i \in 1 .. Len(r) :
                    r[i] = IF i <= at \/ i > at + Len(b) THEN s[i] ELSE b[i - at]
<1>1. PICK n : n = Len(s)
  OBVIOUS
<1>2. PICK m : m = Len(b)
  OBVIOUS
<1>3. n \in Nat /\ m \in Nat /\ at \in Nat /\ at <= n
  BY <1>1, <1>2
<1>4. PICK x : x = SubSeq(s, 1, at)
  OBVIOUS
<1>5. PICK y : y = SubSeq(s, at + m + 1, n)
  OBVIOUS
<1>6. PICK k : k = IF at + m > n THEN 0 ELSE n - (at + m)
  OBVIOUS
<1>7. k \in Nat /\ at + m + k = IF at + m > n THEN at + m ELSE n
  BY <1>3, <1>6
<1>8. x \in Seq(B) /\ Len(x) = at /\ \A i \in 1 .. at : x[i] = s[i]
  BY <1>1, <1>3, <1>4
<1>9. y \in Seq(B) /\ Len(y) = k /\ \A i \in 1 .. k : y[i] = s[at + m + i]
  <2>1. \A i \in at + m + 1 .. n : s[i] \in B
    BY <1>1, <1>3
  <2>2. /\ y \in Seq(B)
        /\ Len(y) = IF at + m + 1 <= n THEN n - (at + m + 1) + 1 ELSE 0
        /\ \A i \in 1 .. n - (at + m + 1) + 1 : y[i] = s[(at + m + 1) + i - 1]
    BY <1>3, <1>5, <2>1, SubSeqProperties
  <2>3. Len(y) = k
    BY <1>3, <1>6, <2>2
  <2>4. \A i \in 1 .. k : i \in 1 .. n - (at + m + 1) + 1 /\ (at + m + 1) + i - 1 = at + m + i
    BY <1>3, <1>6
  <2> QED BY <2>2, <2>3, <2>4
<1>10. PICK xb : xb = x \o b
  OBVIOUS
<1>11. xb \in Seq(B) /\ Len(xb) = at + m
  BY <1>2, <1>8, <1>10, ConcatProperties
<1>12. \A i \in 1 .. at + m : xb[i] = IF i <= at THEN s[i] ELSE b[i - at]
  <2> SUFFICES ASSUME NEW i \in 1 .. at + m
               PROVE  xb[i] = IF i <= at THEN s[i] ELSE b[i - at]
    OBVIOUS
  <2>1. xb[i] = IF i <= at THEN x[i] ELSE b[i - at]
    BY <1>2, <1>8, <1>10, ConcatProperties
  <2> QED BY <1>3, <1>8, <2>1
<1>13. PICK r : r = xb \o y
  OBVIOUS
<1>14. r \in Seq(B) /\ Len(r) = at + m + k
  BY <1>9, <1>11, <1>13, ConcatProperties
<1>15. \A i \in 1 .. at + m + k :
         r[i] = IF i <= at \/ i > at + m THEN s[i] ELSE b[i - at]
  <2> SUFFICES ASSUME NEW i \in 1 .. at + m + k
               PROVE  r[i] = IF i <= at \/ i > at + m THEN s[i] ELSE b[i - at]
    OBVIOUS
  <2>1. r[i] = IF i <= at + m THEN xb[i] ELSE y[i - (at + m)]
    <3>1. i \in 1 .. Len(xb) + Len(y)
      BY <1>9, <1>11
    <3>2. r[i] = IF i <= Len(xb) THEN xb[i] ELSE y[i - Len(xb)]
      BY <1>9, <1>11, <1>13, <3>1, ConcatProperties
    <3> QED BY <1>11, <3>2
  <2>2. CASE i <= at + m
    BY <1>3, <1>12, <2>1, <2>2
  <2>3. CASE i > at + m
    <3>1. i - (at + m) \in 1 .. k /\ at + m + (i - (at + m)) = i
      BY <1>3, <1>7, <2>3
    <3>2. y[i - (at + m)] = s[i]
      BY <1>9, <3>1
    <3> QED BY <1>3, <2>1, <2>3, <3>2
  <2> QED BY <1>3, <2>2, <2>3
<1>16. r = One!Put(s, at, b)
  BY <1>1, <1>2, <1>4, <1>5, <1>10, <1>13 DEF One!Put
<1>17. Len(r) = IF at + Len(b) > Len(s) THEN at + Len(b) ELSE Len(s)
  BY <1>1, <1>2, <1>7, <1>14
<1>18. \A i \in 1 .. Len(r) : r[i] = IF i <= at \/ i > at + Len(b) THEN s[i] ELSE b[i - at]
  BY <1>2, <1>14, <1>15
<1> QED BY <1>14, <1>16, <1>17, <1>18

LEMMA PutNothing ==
    ASSUME NEW B, NEW s \in Seq(B), NEW at \in 0 .. Len(s)
    PROVE  One!Put(s, at, <<>>) = s
<1>1. PICK r : r = One!Put(s, at, <<>>)
  OBVIOUS
<1>2. r \in Seq(B) /\ Len(r) = Len(s) /\ \A i \in 1 .. Len(r) : r[i] = s[i]
  <2>1. <<>> \in Seq(B) /\ Len(<<>>) = 0
    OBVIOUS
  <2>2. PICK e \in Seq(B) : e = <<>> /\ Len(e) = 0
    BY <2>1
  <2>3. PICK n \in Nat : n = Len(s)
    OBVIOUS
  <2>4. r = One!Put(s, at, e)
    BY <1>1, <2>2
  <2>5. /\ r \in Seq(B)
        /\ Len(r) = IF at + Len(e) > Len(s) THEN at + Len(e) ELSE Len(s)
        /\ \A i \in 1 .. Len(r) :
             r[i] = IF i <= at \/ i > at + Len(e) THEN s[i] ELSE e[i - at]
    BY <2>4, PutWhole
  <2>6. Len(r) = n
    BY <2>2, <2>3, <2>5
  <2>7. \A i \in 1 .. Len(r) : i <= at \/ i > at + Len(e)
    BY <2>2, <2>3, <2>6
  <2> QED BY <2>3, <2>5, <2>6, <2>7
<1> QED BY <1>1, <1>2, SeqEqual

LEMMA PutMore ==
    ASSUME NEW B, NEW s \in Seq(B), NEW at \in 0 .. Len(s), NEW b \in Seq(B), NEW c \in Seq(B)
    PROVE  One!Put(One!Put(s, at, b), at + Len(b), c) = One!Put(s, at, b \o c)
<1>1. PICK n \in Nat, m \in Nat, k \in Nat : n = Len(s) /\ m = Len(b) /\ k = Len(c)
  OBVIOUS
<1>2. PICK r : r = One!Put(s, at, b)
  OBVIOUS
<1>3. PICK q : q = One!Put(r, at + m, c)
  OBVIOUS
<1>4. PICK bc : bc = b \o c
  OBVIOUS
<1>5. PICK p : p = One!Put(s, at, bc)
  OBVIOUS
<1>6. bc \in Seq(B) /\ Len(bc) = m + k
  BY <1>1, <1>4, ConcatProperties
<1>7. \A i \in 1 .. m + k : bc[i] = IF i <= m THEN b[i] ELSE c[i - m]
  BY <1>1, <1>4, ConcatProperties
<1>8. PICK l \in Nat : l = Len(r)
  <2>1. r \in Seq(B)
    BY <1>2, PutWhole
  <2> QED BY <2>1
<1>9. /\ r \in Seq(B) /\ l = (IF at + m > n THEN at + m ELSE n)
      /\ \A i \in 1 .. l : r[i] = IF i <= at \/ i > at + m THEN s[i] ELSE b[i - at]
  BY <1>1, <1>2, <1>8, PutWhole
<1>10. at + m \in 0 .. l
  BY <1>1, <1>9
<1>11. /\ q \in Seq(B) /\ Len(q) = (IF at + m + k > l THEN at + m + k ELSE l)
       /\ \A i \in 1 .. Len(q) :
            q[i] = IF i <= at + m \/ i > at + m + k THEN r[i] ELSE c[i - (at + m)]
  <2>1. PICK a : a = at + m
    OBVIOUS
  <2>2. a \in 0 .. Len(r)
    BY <1>8, <1>10, <2>1
  <2>3. q = One!Put(r, a, c)
    BY <1>3, <2>1
  <2>4. /\ q \in Seq(B) /\ Len(q) = (IF a + Len(c) > Len(r) THEN a + Len(c) ELSE Len(r))
        /\ \A i \in 1 .. Len(q) :
             q[i] = IF i <= a \/ i > a + Len(c) THEN r[i] ELSE c[i - a]
    BY <1>9, <2>2, <2>3, PutWhole
  <2> QED BY <1>1, <1>8, <2>1, <2>4
<1>12. /\ p \in Seq(B) /\ Len(p) = (IF at + (m + k) > n THEN at + (m + k) ELSE n)
       /\ \A i \in 1 .. Len(p) :
            p[i] = IF i <= at \/ i > at + (m + k) THEN s[i] ELSE bc[i - at]
  <2>1. bc \in Seq(B)
    BY <1>6
  <2>2. /\ p \in Seq(B)
        /\ Len(p) = (IF at + Len(bc) > Len(s) THEN at + Len(bc) ELSE Len(s))
        /\ \A i \in 1 .. Len(p) :
             p[i] = IF i <= at \/ i > at + Len(bc) THEN s[i] ELSE bc[i - at]
    BY <1>5, <2>1, PutWhole
  <2> QED BY <1>1, <1>6, <2>2
<1>13. Len(p) = Len(q)
  <2>1. PICK x \in Nat : x = at
    BY <1>1
  <2>2. (IF x + m + k > l THEN x + m + k ELSE l) = (IF x + (m + k) > n THEN x + (m + k) ELSE n)
    BY <1>9, <2>1
  <2> QED BY <1>11, <1>12, <2>1, <2>2
<1>14. ASSUME NEW i \in 1 .. Len(q) PROVE q[i] = p[i]
  <2>1. i \in Nat /\ i >= 1 /\ i <= (IF at + m + k > l THEN at + m + k ELSE l)
    BY <1>1, <1>8, <1>11
  <2>2. CASE i <= at
    BY <1>1, <1>9, <1>11, <1>12, <1>13, <2>1, <2>2
  <2>3. CASE i > at /\ i <= at + m
    <3>1. q[i] = r[i] /\ r[i] = b[i - at]
      BY <1>1, <1>9, <1>11, <2>1, <2>3
    <3>2. p[i] = bc[i - at] /\ i - at \in 1 .. m + k /\ i - at <= m
      <4>1. at \in Nat
        OBVIOUS
      <4>2. ~(i <= at) /\ ~(i > at + (m + k)) /\ i - at \in 1 .. m + k /\ i - at <= m
        BY <1>1, <2>1, <2>3, <4>1
      <4> QED BY <1>12, <1>13, <4>2
    <3> QED BY <1>7, <3>1, <3>2
  <2>4. CASE i > at + m /\ i <= at + m + k
    <3>1. q[i] = c[i - (at + m)]
      <4>1. at \in Nat
        OBVIOUS
      <4>2. ~(i <= at + m) /\ ~(i > at + m + k)
        BY <1>1, <2>1, <2>4, <4>1
      <4> QED BY <1>11, <4>2
    <3>2. p[i] = bc[i - at] /\ i - at \in 1 .. m + k /\ ~(i - at <= m)
      BY <1>1, <1>12, <1>13, <2>1, <2>4
    <3>3. (i - at) - m = i - (at + m)
      BY <1>1, <2>1
    <3> QED BY <1>7, <3>1, <3>2, <3>3
  <2>5. CASE i > at + m + k
    BY <1>1, <1>9, <1>11, <1>12, <1>13, <2>1, <2>5
  <2> QED BY <1>1, <2>1, <2>2, <2>3, <2>4, <2>5
<1>15. q = p
  BY <1>11, <1>12, <1>13, <1>14, SeqEqual
<1> QED BY <1>1, <1>2, <1>3, <1>4, <1>5, <1>15

LEMMA Halves ==
    ASSUME NEW B, NEW s \in Seq(B), NEW n \in 0 .. Len(s)
    PROVE  /\ One!Start(s, n) \in Seq(B) /\ Len(One!Start(s, n)) = n
           /\ One!Rest(s, n) \in Seq(B) /\ Len(One!Rest(s, n)) = Len(s) - n
           /\ \A i \in 1 .. Len(s) - n : One!Rest(s, n)[i] = s[n + i]
           /\ One!Start(s, n) \o One!Rest(s, n) = s
<1>1. PICK m \in Nat : m = Len(s)
  OBVIOUS
<1>2. PICK x : x = SubSeq(s, 1, n)
  OBVIOUS
<1>3. PICK y : y = SubSeq(s, n + 1, m)
  OBVIOUS
<1>4. x \in Seq(B) /\ Len(x) = n /\ \A i \in 1 .. n : x[i] = s[i]
  BY <1>1, <1>2
<1>5. y \in Seq(B) /\ Len(y) = m - n /\ \A i \in 1 .. m - n : y[i] = s[n + i]
  <2>1. \A i \in n + 1 .. m : s[i] \in B
    BY <1>1
  <2>2. /\ y \in Seq(B)
        /\ Len(y) = IF n + 1 <= m THEN m - (n + 1) + 1 ELSE 0
        /\ \A i \in 1 .. m - (n + 1) + 1 : y[i] = s[(n + 1) + i - 1]
    BY <1>1, <1>3, <2>1, SubSeqProperties
  <2>3. Len(y) = m - n
    BY <1>1, <2>2
  <2>4. \A i \in 1 .. m - n : i \in 1 .. m - (n + 1) + 1 /\ (n + 1) + i - 1 = n + i
    BY <1>1
  <2> QED BY <2>2, <2>3, <2>4
<1>6. PICK r : r = x \o y
  OBVIOUS
<1>7. r \in Seq(B) /\ Len(r) = m
  <2>1. r \in Seq(B) /\ Len(r) = Len(x) + Len(y)
    BY <1>4, <1>5, <1>6, ConcatProperties
  <2> QED BY <1>1, <1>4, <1>5, <2>1
<1>8. ASSUME NEW i \in 1 .. m PROVE r[i] = s[i]
  <2>1. i \in 1 .. Len(x) + Len(y)
    BY <1>1, <1>4, <1>5
  <2>2. r[i] = IF i <= Len(x) THEN x[i] ELSE y[i - Len(x)]
    BY <1>4, <1>5, <1>6, <2>1, ConcatProperties
  <2>3. CASE i <= n
    BY <1>1, <1>4, <2>2, <2>3
  <2>4. CASE i > n
    <3>1. i - n \in 1 .. m - n /\ n + (i - n) = i
      BY <1>1, <2>4
    <3>2. y[i - n] = s[i]
      BY <1>5, <3>1
    <3> QED BY <1>1, <1>4, <2>2, <2>4, <3>2
  <2> QED BY <1>1, <2>3, <2>4
<1>9. r = s
  BY <1>1, <1>7, <1>8, SeqEqual
<1> QED BY <1>1, <1>2, <1>3, <1>4, <1>5, <1>6, <1>9 DEF One!Start, One!Rest

(* What does not depend on the call in progress.  A byte that waits to be  *)
(* written is in no file yet; input that waits to be read is the file's.   *)
BytesInv ==
    /\ mode \in Modes /\ buffering \in One!Bufferings
    /\ eof \in BOOLEAN /\ position \in BOOLEAN /\ sync \in BOOLEAN
    /\ wbuf \in Seq(One!Bytes) /\ Len(wbuf) <= buffering.cap
    /\ rbuf \in Seq(One!Bytes) /\ Len(rbuf) <= buffering.cap
    /\ pushback \in Seq(One!Bytes) /\ Len(pushback) <= 1
    /\ file \in Seq(One!Bytes) /\ Len(file) <= MaxFile
    /\ want \in Seq(One!Bytes) /\ Len(want) <= MaxFile
    /\ off \in Nat /\ off <= Len(file) /\ Len(rbuf) <= off
    /\ pos \in -1 .. MaxFile
    /\ One!OutputKept
    /\ One!PositionAgrees
    /\ \A i \in 1 .. Len(rbuf) : rbuf[i] = file[off - Len(rbuf) + i]
    /\ wbuf # <<>> => sync /\ rbuf = <<>> /\ pushback = <<>>
    /\ pushback # <<>> => buffering.kind # "none"
    /\ ~mode.read => rbuf = <<>> /\ pushback = <<>>

StreamCalls ==
    [pc: {"idle", "read", "write", "flush", "seek", "realign"}, left: Nat,
     data: Seq(One!Bytes), then: {"return", "write", "fflush", "seek", "setvbuf"},
     whence: {"set", "rewind", "cur", "end"}, offset: Int, change: One!Bufferings]

Writing == call.pc = "write" \/ (call.pc = "flush" /\ call.then = "write")

CallInv ==
    /\ call \in StreamCalls
    /\ rbuf # <<>> \/ pushback # <<>> => position \/ call.pc = "read"
    /\ call.pc = "read" => mode.read /\ ~sync /\ call.left > 0
    /\ Writing => sync /\ ~position /\ One!WriteAt + Len(call.data) <= MaxFile
    /\ call.pc \in {"seek", "realign"} => wbuf = <<>>

StreamInv == BytesInv /\ CallInv

LEMMA StreamConstants ==
    /\ Modes \subseteq [read : BOOLEAN, write : BOOLEAN, append : BOOLEAN]
    /\ Capacities \subseteq Nat \ {0} /\ ReadSizes \subseteq Nat \ {0}
    /\ Data \subseteq Seq(One!Bytes) /\ Contents \in Seq(One!Bytes)
    /\ MaxFile \in Nat /\ Len(Contents) <= MaxFile
    /\ PushedBack \in One!Bytes
BY ServicesAssumption DEF One!StreamConstants, One!Bytes

LEMMA BufferingFacts ==
    /\ One!Unbuffered \in One!Bufferings
    /\ \A b \in One!Bufferings :
         b.cap \in Nat /\ (b.kind = "none" => b.cap = 0) /\ (b.kind # "none" => b.cap > 0)
BY StreamConstants DEF One!Bufferings, One!Full, One!Line, One!Unbuffered

LEMMA StreamInit == AtRest => StreamInv
<1> SUFFICES ASSUME AtRest PROVE StreamInv
  OBVIOUS
<1>1. One!Init
  BY DEF AtRest
<1>2. buffering \in One!Bufferings /\ buffering.cap \in Nat
  <2>1. buffering \in One!Bufferings
    BY <1>1 DEF One!Init, One!Bufferings
  <2> QED BY <2>1, BufferingFacts
<1>3. One!OutputKept
  <2>1. PICK at \in 0 .. Len(file) : at = IF mode.append THEN Len(file) ELSE off
    BY <1>1, StreamConstants DEF One!Init
  <2>2. file \in Seq(One!Bytes) /\ want = file /\ wbuf = <<>>
    BY <1>1, StreamConstants DEF One!Init
  <2> QED BY <2>1, <2>2, PutNothing DEF One!OutputKept
<1>4. One!PositionAgrees
  <2>1. /\ Len(wbuf) = 0 /\ Len(rbuf) = 0 /\ Len(pushback) = 0 /\ wbuf = <<>>
        /\ pos = 0 /\ off = 0
    BY <1>1 DEF One!Init
  <2> QED BY <2>1 DEF One!PositionAgrees, One!Unread
<1>5. BytesInv
  <2>1. PICK c \in Seq(One!Bytes) : c = Contents /\ Len(c) \in Nat /\ Len(c) <= MaxFile
    BY StreamConstants
  <2>2. wbuf = <<>> /\ rbuf = <<>> /\ pushback = <<>> /\ file = c /\ want = c /\ off = 0 /\ pos = 0
    BY <1>1, <2>1 DEF One!Init
  <2>3. mode \in Modes /\ eof = FALSE /\ position = FALSE /\ sync = FALSE
    BY <1>1 DEF One!Init
  <2>4. Len(<<>>) = 0 /\ <<>> \in Seq(One!Bytes) /\ pos \in -1 .. MaxFile
    BY <2>2, StreamConstants
  <2>5. /\ wbuf \in Seq(One!Bytes) /\ rbuf \in Seq(One!Bytes) /\ pushback \in Seq(One!Bytes)
        /\ Len(wbuf) <= buffering.cap /\ Len(rbuf) <= buffering.cap /\ Len(pushback) <= 1
        /\ off \in Nat /\ off <= Len(file) /\ Len(rbuf) <= off
        /\ file \in Seq(One!Bytes) /\ Len(file) <= MaxFile
        /\ want \in Seq(One!Bytes) /\ Len(want) <= MaxFile
    BY <1>2, <2>1, <2>2, <2>4
  <2>6. \A i \in 1 .. Len(rbuf) : rbuf[i] = file[off - Len(rbuf) + i]
    BY <2>2, <2>4
  <2> QED BY <1>2, <1>3, <1>4, <2>2, <2>3, <2>4, <2>5, <2>6 DEF BytesInv
<1>6. CallInv
  <2>1. call = [pc |-> "idle", left |-> 0, data |-> <<>>, then |-> "return",
                whence |-> "cur", offset |-> 0, change |-> One!Unbuffered]
    BY <1>1 DEF One!Init, One!NoCall
  <2>2. rbuf = <<>> /\ pushback = <<>>
    BY <1>1 DEF One!Init
  <2> QED BY <2>1, <2>2, BufferingFacts DEF CallInv, StreamCalls, Writing
<1> QED BY <1>5, <1>6 DEF StreamInv

(* Where output goes.                                                      *)
Place == IF mode.append THEN Len(file) ELSE off

LEMMA PlaceFacts ==
    ASSUME BytesInv
    PROVE  /\ Place \in Nat /\ Place <= Len(file)
           /\ want = One!Put(file, Place, wbuf)
           /\ Len(want) = IF Place + Len(wbuf) > Len(file) THEN Place + Len(wbuf) ELSE Len(file)
           /\ wbuf = <<>> => want = file
           /\ rbuf = <<>> /\ pushback = <<>> => One!WriteAt = Place + Len(wbuf)
           /\ wbuf # <<>> => pos = Place + Len(wbuf)
<1> USE DEF BytesInv
<1>1. PICK n \in Nat : n = Len(file)
  OBVIOUS
<1>2. PICK m \in Nat : m = Len(wbuf)
  OBVIOUS
<1>3. mode.append \in BOOLEAN
  BY StreamConstants
<1>4. PICK at \in 0 .. n : at = Place
  BY <1>1, <1>3 DEF Place
<1>5. want = One!Put(file, at, wbuf)
  BY <1>4 DEF One!OutputKept, Place
<1>6. Len(want) = IF at + m > n THEN at + m ELSE n
  <2> HIDE DEF BytesInv
  <2>1. at \in 0 .. Len(file)
    BY <1>1
  <2>2. file \in Seq(One!Bytes) /\ wbuf \in Seq(One!Bytes)
    BY DEF BytesInv
  <2>3. Len(want) = IF at + Len(wbuf) > Len(file) THEN at + Len(wbuf) ELSE Len(file)
    BY <1>5, <2>1, <2>2, PutWhole
  <2> QED BY <1>1, <1>2, <2>3
<1>7. ASSUME wbuf = <<>> PROVE want = file
  BY <1>1, <1>5, <1>7, PutNothing
<1>8. ASSUME rbuf = <<>>, pushback = <<>> PROVE One!WriteAt = at + m
  <2>1. CASE mode.append
    BY <1>1, <1>4, <1>6, <2>1 DEF One!WriteAt, Place
  <2>2. CASE ~mode.append
    <3>1. One!Unread = 0
      BY <1>8 DEF One!Unread
    <3>2. pos = off + m - 0
      BY <1>2, <2>2, <3>1 DEF One!PositionAgrees
    <3> QED BY <1>2, <1>4, <2>2, <3>2 DEF One!WriteAt, Place
  <2> QED BY <1>3, <2>1, <2>2
<1>9. ASSUME wbuf # <<>> PROVE pos = at + m
  <2>1. One!Unread = 0
    BY <1>9 DEF One!Unread
  <2> QED BY <1>1, <1>2, <1>3, <1>4, <1>9, <2>1 DEF One!PositionAgrees, Place
<1> QED BY <1>1, <1>2, <1>4, <1>5, <1>6, <1>7, <1>8, <1>9

LEMMA BytesStay ==
    ASSUME BytesInv, UNCHANGED <<mode, buffering, wbuf, rbuf, pushback, file, off, want, pos>>,
           eof' \in BOOLEAN, position' \in BOOLEAN, sync' \in BOOLEAN,
           wbuf # <<>> => sync'
    PROVE  BytesInv'
<1>1. One!OutputKept' = One!OutputKept /\ One!PositionAgrees' = One!PositionAgrees
  BY DEF One!OutputKept, One!PositionAgrees, One!Unread, One!Put
<1> QED BY <1>1 DEF BytesInv

(* A step with nothing to be written: input is read, pushed back or        *)
(* dropped, the offset moves, or the buffering changes.                    *)
LEMMA InputStep ==
    ASSUME BytesInv, wbuf = <<>>, wbuf' = <<>>, UNCHANGED <<mode, file, want>>,
           buffering' \in One!Bufferings,
           eof' \in BOOLEAN, position' \in BOOLEAN, sync' \in BOOLEAN,
           off' \in Nat, off' <= Len(file),
           rbuf' \in Seq(One!Bytes), Len(rbuf') <= buffering'.cap, Len(rbuf') <= off',
           \A i \in 1 .. Len(rbuf') : rbuf'[i] = file[off' - Len(rbuf') + i],
           pushback' \in Seq(One!Bytes), Len(pushback') <= 1,
           pushback' # <<>> => buffering'.kind # "none",
           ~mode.read => rbuf' = <<>> /\ pushback' = <<>>,
           pos' = off' - (Len(rbuf') + Len(pushback'))
    PROVE  BytesInv'
<1>1. /\ mode \in Modes /\ file \in Seq(One!Bytes) /\ Len(file) <= MaxFile /\ want = file
      /\ Len(file) \in Nat /\ MaxFile \in Nat
  BY PlaceFacts, StreamConstants DEF BytesInv
<1>2. /\ Len(rbuf') \in Nat /\ Len(pushback') \in Nat /\ Len(wbuf') = 0
      /\ buffering'.cap \in Nat
  BY BufferingFacts
<1>3. pos' \in -1 .. MaxFile
  <2>1. PICK a \in Nat, b \in Nat, c \in Nat : a = off' /\ b = Len(rbuf') /\ c = Len(pushback')
    BY <1>2
  <2>2. a - (b + c) \in -1 .. MaxFile
    BY <1>1, <2>1
  <2> QED BY <2>1, <2>2
<1>4. One!PositionAgrees'
  <2>1. One!Unread' = Len(rbuf') + Len(pushback')
    BY DEF One!Unread
  <2>2. off' + Len(wbuf') - One!Unread' = pos'
    BY <1>2, <2>1
  <2> QED BY <2>2 DEF One!PositionAgrees
<1>5. One!OutputKept'
  <2>1. PICK at \in 0 .. Len(file) : at = IF mode.append THEN Len(file) ELSE off'
    BY <1>1
  <2>2. One!Put(file, at, <<>>) = file
    BY <1>1, PutNothing
  <2>3. One!Put(file', at, wbuf') = want'
    BY <1>1, <2>2
  <2> QED BY <2>1, <2>3 DEF One!OutputKept, One!Put
<1>6. wbuf' \in Seq(One!Bytes) /\ Len(wbuf') <= buffering'.cap
  BY <1>2
<1> QED BY <1>1, <1>3, <1>4, <1>5, <1>6 DEF BytesInv

(* Bytes are accepted into the buffer.                                     *)
LEMMA AcceptStep ==
    ASSUME BytesInv, rbuf = <<>>, pushback = <<>>, NEW c \in Seq(One!Bytes),
           UNCHANGED <<mode, buffering, eof, position, sync, rbuf, pushback, file, off>>,
           sync, wbuf' = wbuf \o c, Len(wbuf) + Len(c) <= buffering.cap,
           One!WriteAt + Len(c) <= MaxFile,
           want' = One!Put(want, One!WriteAt, c), pos' = One!WriteAt + Len(c),
           wbuf' # <<>>
    PROVE  BytesInv'
<1>1. PICK n \in Nat, m \in Nat, k \in Nat : n = Len(file) /\ m = Len(wbuf) /\ k = Len(c)
  BY DEF BytesInv
<1>2. PICK at \in 0 .. n : at = Place
  BY <1>1, PlaceFacts
<1>3. /\ want = One!Put(file, at, wbuf) /\ One!WriteAt = at + m
      /\ file \in Seq(One!Bytes) /\ wbuf \in Seq(One!Bytes) /\ want \in Seq(One!Bytes)
      /\ Len(want) = (IF at + m > n THEN at + m ELSE n) /\ Len(want) <= MaxFile
      /\ MaxFile \in Nat
  BY <1>1, <1>2, PlaceFacts, StreamConstants DEF BytesInv
<1>4. want' = One!Put(file, at, wbuf')
  <2>1. at \in 0 .. Len(file)
    BY <1>1
  <2>2. One!Put(One!Put(file, at, wbuf), at + Len(wbuf), c) = One!Put(file, at, wbuf \o c)
    BY <1>3, <2>1, PutMore
  <2> QED BY <1>1, <1>3, <2>2
<1>5. want' \in Seq(One!Bytes) /\ Len(want') <= MaxFile
  <2> HIDE DEF BytesInv
  <2>1. PICK v \in Seq(One!Bytes) : v = want
    BY <1>3
  <2>2. PICK w \in 0 .. Len(v) : w = at + m
    BY <1>2, <1>3, <2>1
  <2>3. PICK r : r = One!Put(v, w, c)
    OBVIOUS
  <2>4. /\ r \in Seq(One!Bytes)
        /\ Len(r) = IF w + Len(c) > Len(v) THEN w + Len(c) ELSE Len(v)
    BY <2>3, PutWhole
  <2>5. want' = r
    BY <1>3, <2>1, <2>2, <2>3
  <2>6. w + Len(c) <= MaxFile
    BY <1>3, <2>2
  <2> QED BY <1>3, <2>1, <2>4, <2>5, <2>6
<1>6. One!OutputKept'
  BY <1>2, <1>4 DEF One!OutputKept, One!Put, Place
<1>7. wbuf' \in Seq(One!Bytes) /\ Len(wbuf') = m + k /\ Len(wbuf') <= buffering'.cap
  <2>1. wbuf' \in Seq(One!Bytes) /\ Len(wbuf') = Len(wbuf) + Len(c)
    BY <1>3, ConcatProperties
  <2> QED BY <1>1, <2>1
<1>8. pos' = at + m + k
  BY <1>1, <1>3
<1>9. One!PositionAgrees'
  <2>1. One!Unread' = 0
    BY DEF One!Unread
  <2>2. CASE mode.append
    <3>1. at = n
      BY <1>1, <1>2, <2>2 DEF Place
    <3> QED BY <1>1, <1>7, <1>8, <2>2, <3>1 DEF One!PositionAgrees
  <2>3. CASE ~mode.append
    <3>1. at = off
      BY <1>1, <1>2, <2>3 DEF Place
    <3> QED BY <1>1, <1>7, <1>8, <2>1, <2>3, <3>1 DEF One!PositionAgrees
  <2> QED BY <2>2, <2>3
<1>10. pos' \in -1 .. MaxFile
  BY <1>1, <1>3, <1>8
<1> QED BY <1>5, <1>6, <1>7, <1>9, <1>10 DEF BytesInv

(* The kernel writes n bytes of the buffer.                                *)
LEMMA DrainStep ==
    ASSUME BytesInv, NEW n \in 1 .. Len(wbuf), One!KernelWrite(One!Start(wbuf, n)),
           wbuf' = One!Rest(wbuf, n),
           UNCHANGED <<mode, buffering, eof, position, sync, rbuf, pushback, want, pos>>
    PROVE  BytesInv'
<1>1. PICK f \in Seq(One!Bytes), b \in Seq(One!Bytes), w \in Seq(One!Bytes) :
        f = file /\ b = wbuf /\ w = want
  BY DEF BytesInv
<1>2. PICK l \in Nat, m \in Nat : l = Len(f) /\ m = Len(b)
  OBVIOUS
<1>3. n \in 0 .. m /\ n > 0 /\ n \in Nat
  BY <1>1, <1>2
<1>4. PICK x, y : x = One!Start(b, n) /\ y = One!Rest(b, n)
  OBVIOUS
<1>5. /\ x \in Seq(One!Bytes) /\ Len(x) = n /\ y \in Seq(One!Bytes) /\ Len(y) = m - n
      /\ x \o y = b
  BY <1>2, <1>3, <1>4, Halves
<1>6. PICK at \in 0 .. Len(f) : at = Place
  BY <1>1, PlaceFacts
<1>7. PICK g : g = One!Put(f, at, x)
  OBVIOUS
<1>8. g \in Seq(One!Bytes) /\ Len(g) = IF at + n > l THEN at + n ELSE l
  BY <1>2, <1>5, <1>7, PutWhole
<1>9. file' = g /\ off' = at + n /\ wbuf' = y
  BY <1>1, <1>4, <1>5, <1>6, <1>7 DEF One!KernelWrite, Place
<1>10. w = One!Put(g, at + n, y)
  <2> HIDE DEF BytesInv
  <2>0. x \in Seq(One!Bytes) /\ y \in Seq(One!Bytes)
    BY <1>5
  <2>1. One!Put(One!Put(f, at, x), at + Len(x), y) = One!Put(f, at, x \o y)
    BY <2>0, PutMore
  <2> QED BY <1>1, <1>5, <1>6, <1>7, <2>1, PlaceFacts
<1>11. /\ rbuf = <<>> /\ pushback = <<>> /\ sync /\ pos = at + m /\ mode \in Modes
       /\ Len(w) = (IF at + m > l THEN at + m ELSE l) /\ Len(w) <= MaxFile
       /\ Len(b) <= buffering.cap /\ buffering.cap \in Nat /\ MaxFile \in Nat
  BY <1>1, <1>2, <1>3, <1>6, PlaceFacts, BufferingFacts, StreamConstants DEF BytesInv
<1>12. Len(g) \in Nat /\ Len(g) <= MaxFile /\ at + n <= Len(g) /\ at + n \in Nat
  BY <1>2, <1>3, <1>8, <1>11
<1>13. Place' = at + n
  <2>1. CASE mode.append
    <3>1. at = l
      BY <1>1, <1>2, <1>6, <2>1 DEF Place
    <3> QED BY <1>2, <1>3, <1>8, <1>9, <2>1, <3>1 DEF Place
  <2>2. CASE ~mode.append
    BY <1>9, <2>2 DEF Place
  <2> QED BY <2>1, <2>2
<1>14. One!OutputKept'
  BY <1>1, <1>9, <1>10, <1>13 DEF One!OutputKept, One!Put, Place
<1>15. One!PositionAgrees'
  <2>1. One!Unread' = 0
    BY <1>11 DEF One!Unread
  <2>2. /\ mode.append => at + n = Len(file')
        /\ ~mode.append => at + n = off'
    BY <1>13 DEF Place
  <2>3. (at + n) + Len(wbuf') = pos' /\ (at + n) + Len(wbuf') - 0 = pos'
    <3>1. at \in Nat /\ (at + n) + (m - n) = at + m /\ (at + n) + (m - n) - 0 = at + m
      BY <1>2, <1>3, <1>6
    <3>2. Len(wbuf') = m - n /\ pos' = at + m
      BY <1>5, <1>9, <1>11
    <3> QED BY <3>1, <3>2
  <2>4. mode' = mode /\ off' = at + n
    BY <1>9
  <2> QED BY <2>1, <2>2, <2>3, <2>4 DEF One!PositionAgrees
<1>16. /\ wbuf' \in Seq(One!Bytes) /\ Len(wbuf') <= buffering'.cap
       /\ file' \in Seq(One!Bytes) /\ Len(file') <= MaxFile
       /\ off' \in Nat /\ off' <= Len(file')
  <2>1. m <= buffering.cap
    BY <1>1, <1>2, <1>11
  <2>2. m - n <= buffering.cap
    BY <1>2, <1>3, <1>11, <2>1
  <2> QED BY <1>5, <1>8, <1>9, <1>12, <2>2
<1>17. /\ rbuf' = <<>> /\ pushback' = <<>> /\ Len(rbuf') <= off'
       /\ \A i \in 1 .. Len(rbuf') : rbuf'[i] = file'[off' - Len(rbuf') + i]
  BY <1>11, <1>16
<1> QED BY <1>11, <1>14, <1>15, <1>16, <1>17 DEF BytesInv

(* The kernel writes straight from the caller's memory.                    *)
LEMMA DirectStep ==
    ASSUME BytesInv, buffering.kind = "none", NEW c \in Seq(One!Bytes), rbuf = <<>>,
           pushback = <<>>, One!KernelWrite(c), One!WriteAt + Len(c) <= MaxFile,
           want' = One!Put(want, One!WriteAt, c), pos' = One!WriteAt + Len(c),
           UNCHANGED <<mode, buffering, eof, position, sync, wbuf, rbuf, pushback>>
    PROVE  BytesInv'
<1>1. wbuf = <<>> /\ want = file /\ One!WriteAt = Place /\ Place \in Nat /\ Place <= Len(file)
  <2>1. wbuf = <<>> /\ Len(wbuf) = 0
    <3>1. buffering.cap = 0
      BY BufferingFacts DEF BytesInv
    <3> QED BY <3>1 DEF BytesInv
  <2> QED BY <2>1, PlaceFacts
<1>2. PICK f \in Seq(One!Bytes) : f = file
  BY DEF BytesInv
<1>3. PICK l \in Nat, k \in Nat : l = Len(f) /\ k = Len(c)
  OBVIOUS
<1>4. PICK at \in 0 .. Len(f) : at = Place
  BY <1>1, <1>2
<1>5. PICK g : g = One!Put(f, at, c)
  OBVIOUS
<1>6. g \in Seq(One!Bytes) /\ Len(g) = IF at + k > l THEN at + k ELSE l
  BY <1>3, <1>5, PutWhole
<1>7. file' = g /\ want' = g /\ off' = at + k /\ pos' = at + k
  BY <1>1, <1>2, <1>3, <1>4, <1>5 DEF One!KernelWrite, Place
<1>8. /\ l <= MaxFile /\ MaxFile \in Nat /\ at + k <= MaxFile /\ at + k \in Nat
      /\ mode \in Modes /\ Len(g) <= MaxFile /\ at + k \in 0 .. Len(g)
  <2>1. l <= MaxFile /\ MaxFile \in Nat /\ mode \in Modes
    BY <1>2, <1>3, StreamConstants DEF BytesInv
  <2>2. at + k <= MaxFile /\ at + k \in Nat
    BY <1>1, <1>3, <1>4
  <2> QED BY <1>3, <1>6, <2>1, <2>2
<1>9. One!OutputKept'
  <2>1. PICK p \in 0 .. Len(g) : p = IF mode.append THEN Len(g) ELSE at + k
    BY <1>6, <1>8
  <2>2. One!Put(g, p, <<>>) = g
    BY <1>6, PutNothing
  <2>3. want' = One!Put(file', p, wbuf')
    BY <1>1, <1>7, <2>2
  <2> QED BY <1>7, <2>1, <2>3 DEF One!OutputKept, One!Put
<1>10. One!PositionAgrees'
  <2>1. One!Unread' = 0 /\ Len(wbuf') = 0
    BY <1>1 DEF One!Unread
  <2> QED BY <1>1, <1>7, <1>8, <2>1 DEF One!PositionAgrees
<1>11. /\ file' \in Seq(One!Bytes) /\ Len(file') <= MaxFile
       /\ want' \in Seq(One!Bytes) /\ Len(want') <= MaxFile
       /\ off' \in Nat /\ off' <= Len(file') /\ Len(rbuf') <= off' /\ pos' \in -1 .. MaxFile
       /\ \A i \in 1 .. Len(rbuf') : rbuf'[i] = file'[off' - Len(rbuf') + i]
  BY <1>6, <1>7, <1>8
<1> QED BY <1>1, <1>9, <1>10, <1>11 DEF BytesInv

LEMMA CallStep ==
    ASSUME StreamInv, UNCHANGED <<mode, buffering, eof, position, sync, wbuf, rbuf, pushback,
                                  file, off, want, pos>>,
           call' \in StreamCalls,
           rbuf # <<>> \/ pushback # <<>> => position \/ call'.pc = "read",
           call'.pc = "read" => mode.read /\ ~sync /\ call'.left > 0,
           call'.pc = "write" \/ (call'.pc = "flush" /\ call'.then = "write") =>
             sync /\ ~position /\ One!WriteAt + Len(call'.data) <= MaxFile,
           call'.pc \in {"seek", "realign"} => wbuf = <<>>
    PROVE  StreamInv'
<1>1. BytesInv'
  BY BytesStay DEF StreamInv, BytesInv
<1>2. One!WriteAt' = One!WriteAt
  BY DEF One!WriteAt
<1> QED BY <1>1, <1>2 DEF StreamInv, CallInv, StreamCalls, Writing

LEMMA Returned ==
    ASSUME One!Return, rbuf' # <<>> \/ pushback' # <<>> => position'
    PROVE  CallInv'
<1>1. call' = [pc |-> "idle", left |-> 0, data |-> <<>>, then |-> "return",
               whence |-> "cur", offset |-> 0, change |-> One!Unbuffered]
  BY DEF One!Return, One!NoCall
<1>2. One!Bufferings' = One!Bufferings /\ One!Bytes' = One!Bytes
  BY DEF One!Bufferings, One!Full, One!Line, One!Unbuffered, One!Bytes
<1> QED BY <1>1, <1>2, BufferingFacts DEF CallInv, StreamCalls, Writing

(* The calls of the program.                                               *)
LEMMA CallBegins == ASSUME StreamInv, One!Call PROVE StreamInv'
<1> USE DEF One!stream
<1>1. /\ call \in StreamCalls /\ mode \in Modes /\ position \in BOOLEAN /\ eof \in BOOLEAN
      /\ sync \in BOOLEAN /\ One!Unbuffered \in One!Bufferings
  BY BufferingFacts DEF StreamInv, CallInv, BytesInv
<1>2. call.pc = "idle" => (rbuf # <<>> \/ pushback # <<>> => position)
  BY DEF StreamInv, CallInv
<1>3. ASSUME NEW n \in ReadSizes, One!StartRead(n) PROVE StreamInv'
  <2>1. n \in Nat \ {0}
    BY StreamConstants
  <2>2. /\ call' = [pc |-> "read", left |-> n, data |-> <<>>, then |-> "return",
                    whence |-> "cur", offset |-> 0, change |-> One!Unbuffered]
        /\ mode.read /\ ~sync
        /\ UNCHANGED <<mode, buffering, eof, position, sync, wbuf, rbuf, pushback, file, off,
                       want, pos>>
    BY <1>3 DEF One!StartRead, One!NoCall
  <2>3. call' \in StreamCalls
    BY <1>1, <2>1, <2>2 DEF StreamCalls
  <2> QED BY <2>1, <2>2, <2>3, CallStep
<1>4. ASSUME NEW data \in Data, One!StartWrite(data) PROVE StreamInv'
  <2>1. data \in Seq(One!Bytes)
    BY StreamConstants
  <2>2. /\ call' = [pc |-> "write", left |-> 0, data |-> data, then |-> "return",
                    whence |-> "cur", offset |-> 0, change |-> One!Unbuffered]
        /\ ~position /\ sync' = TRUE /\ One!WriteAt + Len(data) <= MaxFile /\ call.pc = "idle"
        /\ UNCHANGED <<mode, buffering, eof, position, wbuf, rbuf, pushback, file, off,
                       want, pos>>
    BY <1>4 DEF One!StartWrite, One!NoCall, One!At
  <2>3. call' \in StreamCalls
    BY <1>1, <2>1, <2>2 DEF StreamCalls
  <2>4. BytesInv'
    BY <1>1, <2>2, BytesStay DEF StreamInv
  <2>5. One!WriteAt' = One!WriteAt
    BY <2>2 DEF One!WriteAt
  <2>6. rbuf = <<>> /\ pushback = <<>>
    BY <1>2, <2>2
  <2> QED BY <2>2, <2>3, <2>4, <2>5, <2>6 DEF StreamInv, CallInv, StreamCalls, Writing
<1>5. ASSUME One!Unget PROVE StreamInv'
  <2>1. /\ call.pc = "idle" /\ mode.read /\ ~sync /\ pushback = <<>>
        /\ buffering.kind # "none"
        /\ pushback' = <<PushedBack>> /\ eof' = FALSE /\ position' = TRUE /\ pos' = pos - 1
        /\ UNCHANGED <<mode, buffering, sync, wbuf, rbuf, file, off, call, want>>
    BY <1>5 DEF One!Unget, One!At, One!Buffered
  <2>2. wbuf = <<>>
    BY <2>1 DEF StreamInv, BytesInv
  <2>3. pushback' \in Seq(One!Bytes) /\ Len(pushback') = 1
    BY <2>1, StreamConstants
  <2>4. pos' = off' - (Len(rbuf') + Len(pushback'))
    <3>1. pos = off + 0 - (Len(rbuf) + 0)
      BY <2>1, <2>2 DEF StreamInv, BytesInv, One!PositionAgrees, One!Unread
    <3>2. off \in Nat /\ Len(rbuf) \in Nat
      BY DEF StreamInv, BytesInv
    <3> QED BY <2>1, <2>3, <3>1, <3>2
  <2>5. BytesInv'
    <3>1. /\ BytesInv /\ buffering' \in One!Bufferings /\ off' \in Nat /\ off' <= Len(file)
          /\ rbuf' \in Seq(One!Bytes) /\ Len(rbuf') <= buffering'.cap /\ Len(rbuf') <= off'
          /\ Len(pushback') <= 1
      BY <2>1, <2>3 DEF StreamInv, BytesInv
    <3>2. \A i \in 1 .. Len(rbuf') : rbuf'[i] = file[off' - Len(rbuf') + i]
      BY <2>1 DEF StreamInv, BytesInv
    <3> QED BY <1>1, <2>1, <2>2, <2>3, <2>4, <3>1, <3>2, InputStep
  <2> QED BY <2>1, <2>2, <2>5 DEF StreamInv, CallInv, StreamCalls, Writing
<1>6. ASSUME One!ClearErr PROVE StreamInv'
  <2>1. /\ call.pc = "idle" /\ eof' = FALSE
        /\ UNCHANGED <<mode, buffering, position, sync, wbuf, rbuf, pushback, file, off,
                       call, want, pos>>
    BY <1>6 DEF One!ClearErr, One!At
  <2>2. BytesInv'
    BY <1>1, <2>1, BytesStay DEF StreamInv, BytesInv
  <2> QED BY <2>1, <2>2 DEF StreamInv, CallInv, StreamCalls, Writing
<1>7. ASSUME NEW d, call' = d, d \in StreamCalls, d.pc = "flush", d.then # "write",
             call.pc = "idle",
             UNCHANGED <<mode, buffering, eof, position, sync, wbuf, rbuf, pushback, file, off,
                         want, pos>>
      PROVE  StreamInv'
  BY <1>2, <1>7, CallStep
<1>8. ASSUME NEW then \in {"return", "fflush"}, One!StartFlush(then) PROVE StreamInv'
  <2>1. PICK d : d = [pc |-> "flush", left |-> 0, data |-> <<>>, then |-> then,
                      whence |-> "cur", offset |-> 0, change |-> One!Unbuffered]
    OBVIOUS
  <2>2. /\ call' = d /\ call.pc = "idle"
        /\ UNCHANGED <<mode, buffering, eof, position, sync, wbuf, rbuf, pushback, file, off,
                       want, pos>>
    <3>1. /\ call' = [pc |-> "flush", left |-> 0, data |-> <<>>, then |-> then,
                      whence |-> "cur", offset |-> 0, change |-> One!Unbuffered]
          /\ call.pc = "idle"
          /\ UNCHANGED <<mode, buffering, eof, position, sync, wbuf, rbuf, pushback, file, off,
                         want, pos>>
      BY <1>8 DEF One!StartFlush, One!NoCall, One!At
    <3> QED BY <2>1, <3>1
  <2>3. d \in StreamCalls /\ d.pc = "flush" /\ d.then # "write"
    BY <1>1, <2>1 DEF StreamCalls
  <2> QED BY <1>7, <2>2, <2>3
<1>9. ASSUME NEW c \in One!Bufferings, One!SetVBuf(c) PROVE StreamInv'
  <2>1. PICK d : d = [pc |-> "flush", left |-> 0, data |-> <<>>, then |-> "setvbuf",
                      whence |-> "cur", offset |-> 0, change |-> c]
    OBVIOUS
  <2>2. /\ call' = d /\ call.pc = "idle"
        /\ UNCHANGED <<mode, buffering, eof, position, sync, wbuf, rbuf, pushback, file, off,
                       want, pos>>
    <3>1. /\ call' = [pc |-> "flush", left |-> 0, data |-> <<>>, then |-> "setvbuf",
                      whence |-> "cur", offset |-> 0, change |-> c]
          /\ call.pc = "idle"
          /\ UNCHANGED <<mode, buffering, eof, position, sync, wbuf, rbuf, pushback, file, off,
                         want, pos>>
      BY <1>9 DEF One!SetVBuf, One!NoCall, One!At
    <3> QED BY <2>1, <3>1
  <2>3. d \in StreamCalls /\ d.pc = "flush" /\ d.then # "write"
    BY <1>1, <2>1 DEF StreamCalls
  <2> QED BY <1>7, <2>2, <2>3
<1>10. ASSUME NEW whence \in {"set", "rewind", "cur", "end"}, NEW offset \in Int,
              One!StartSeek(whence, offset)
       PROVE  StreamInv'
  <2>1. PICK d : d = [pc |-> "flush", left |-> 0, data |-> <<>>, then |-> "seek",
                      whence |-> whence, offset |-> offset, change |-> One!Unbuffered]
    OBVIOUS
  <2>2. /\ call' = d /\ call.pc = "idle"
        /\ UNCHANGED <<mode, buffering, eof, position, sync, wbuf, rbuf, pushback, file, off,
                       want, pos>>
    <3>1. /\ call' = [pc |-> "flush", left |-> 0, data |-> <<>>, then |-> "seek",
                      whence |-> whence, offset |-> offset, change |-> One!Unbuffered]
          /\ call.pc = "idle"
          /\ UNCHANGED <<mode, buffering, eof, position, sync, wbuf, rbuf, pushback, file, off,
                         want, pos>>
      BY <1>10 DEF One!StartSeek, One!NoCall, One!At
    <3> QED BY <2>1, <3>1
  <2>3. d \in StreamCalls /\ d.pc = "flush" /\ d.then # "write"
    BY <1>1, <2>1 DEF StreamCalls
  <2> QED BY <1>7, <2>2, <2>3
<1>11. 0 .. Len(want) \subseteq Int /\ {-1, 0} \subseteq Int /\ 0 \in Int
  BY DEF StreamInv, BytesInv
<1> QED BY <1>3, <1>4, <1>5, <1>6, <1>8, <1>9, <1>10, <1>11
        DEF One!Call, One!Flush, One!FlushAll, One!Tell

LEMMA ReadFacts ==
    ASSUME StreamInv, wbuf = <<>>
    PROVE  /\ pos = off - (Len(rbuf) + Len(pushback))
           /\ off \in Nat /\ off <= Len(file) /\ Len(rbuf) \in Nat /\ Len(pushback) \in Nat
           /\ Len(rbuf) <= off
           /\ Len(file) \in Nat /\ buffering.cap \in Nat
           /\ eof \in BOOLEAN /\ position \in BOOLEAN /\ sync \in BOOLEAN
           /\ buffering \in One!Bufferings /\ file \in Seq(One!Bytes)
           /\ rbuf \in Seq(One!Bytes) /\ Len(rbuf) <= buffering.cap
           /\ pushback \in Seq(One!Bytes) /\ Len(pushback) <= 1
           /\ pushback # <<>> => buffering.kind # "none"
           /\ ~mode.read => rbuf = <<>> /\ pushback = <<>>
           /\ BytesInv
<1>1. off \in Nat /\ Len(rbuf) \in Nat /\ Len(pushback) \in Nat /\ Len(wbuf) = 0
  BY DEF StreamInv, BytesInv
<1>2. pos = off + 0 - (Len(rbuf) + Len(pushback))
  BY <1>1 DEF StreamInv, BytesInv, One!PositionAgrees, One!Unread
<1>3. pos = off - (Len(rbuf) + Len(pushback))
  BY <1>1, <1>2
<1> QED BY <1>1, <1>3, BufferingFacts DEF StreamInv, BytesInv

LEMMA DeliveredStep ==
    ASSUME StreamInv, call.pc = "read", NEW n \in Nat, n > 0, n <= call.left,
           One!Delivered(n), position' = TRUE, UNCHANGED <<mode, sync>>
    PROVE  CallInv'
<1>1. CASE n = call.left
  BY <1>1, Returned DEF One!Delivered, One!Return
<1>2. CASE n # call.left
  <2>1. call' = [call EXCEPT !.left = call.left - n]
    BY <1>2 DEF One!Delivered
  <2>2. call \in StreamCalls /\ call.left \in Nat /\ mode.read /\ ~sync
    BY DEF StreamInv, CallInv, StreamCalls
  <2>3. call.left - n \in Nat /\ call.left - n > 0
    BY <1>2, <2>2
  <2>4. call' \in StreamCalls /\ call'.pc = "read" /\ call'.left > 0
    BY <2>1, <2>2, <2>3 DEF StreamCalls
  <2> QED BY <2>2, <2>4 DEF CallInv, StreamCalls, Writing
<1> QED BY <1>1, <1>2

LEMMA ReadStep ==
    ASSUME StreamInv,
           \/ One!ReadPushback \/ One!ReadCache \/ One!ReadNothing \/ One!Refill
           \/ One!ReadEnd \/ One!ReadFails \/ One!ReadDirect
    PROVE  StreamInv'
<1> USE DEF One!stream
<1>1. call.pc = "read"
  BY DEF One!At, One!ReadPushback, One!ReadCache, One!ReadNothing, One!Refill, One!Exhausted,
         One!ReadEnd, One!ReadFails, One!ReadDirect
<1>2. /\ mode.read /\ ~sync /\ wbuf = <<>> /\ call.left \in Nat /\ call.left > 0
  BY <1>1 DEF StreamInv, CallInv, BytesInv, StreamCalls
<1>3. /\ pos = off - (Len(rbuf) + Len(pushback))
      /\ off \in Nat /\ off <= Len(file) /\ Len(rbuf) \in Nat /\ Len(pushback) \in Nat
      /\ Len(rbuf) <= off
      /\ Len(file) \in Nat /\ buffering.cap \in Nat
      /\ eof \in BOOLEAN /\ position \in BOOLEAN /\ sync \in BOOLEAN
      /\ buffering \in One!Bufferings /\ file \in Seq(One!Bytes)
      /\ rbuf \in Seq(One!Bytes) /\ Len(rbuf) <= buffering.cap
      /\ pushback \in Seq(One!Bytes) /\ Len(pushback) <= 1
      /\ pushback # <<>> => buffering.kind # "none"
      /\ ~mode.read => rbuf = <<>> /\ pushback = <<>>
      /\ BytesInv
  BY <1>2, ReadFacts
<1>4. \A i \in 1 .. Len(rbuf) : rbuf[i] = file[off - Len(rbuf) + i]
  BY DEF StreamInv, BytesInv
<1>5. buffering.kind = "none" => rbuf = <<>> /\ pushback = <<>>
  BY <1>3, BufferingFacts
<1>6. ASSUME One!ReadPushback PROVE StreamInv'
  <2>1. /\ pushback # <<>> /\ pushback' = <<>> /\ position' = TRUE /\ One!Delivered(1)
        /\ pos' = pos + 1
        /\ UNCHANGED <<mode, buffering, eof, sync, wbuf, rbuf, file, off, want>>
    BY <1>6 DEF One!ReadPushback, One!Delivered
  <2>2. Len(pushback) = 1 /\ Len(pushback') = 0 /\ pushback' \in Seq(One!Bytes)
    <3>1. Len(pushback) # 0
      BY <1>3, <2>1
    <3>2. PICK k \in Nat : k = Len(pushback) /\ k <= 1
      BY <1>3
    <3>3. k = 1
      BY <3>1, <3>2
    <3> QED BY <2>1, <3>2, <3>3
  <2>3. pos' = off' - (Len(rbuf') + Len(pushback'))
    BY <1>3, <2>1, <2>2
  <2>4. BytesInv'
    BY <1>2, <1>3, <1>4, <2>1, <2>2, <2>3, InputStep
  <2>5. CallInv'
    BY <1>1, <1>2, <2>1, DeliveredStep
  <2> QED BY <2>4, <2>5 DEF StreamInv
<1>7. ASSUME One!ReadCache PROVE StreamInv'
  <2>1. PICK n : n = One!Least(Len(rbuf), call.left)
    OBVIOUS
  <2>2. /\ pushback = <<>> /\ rbuf # <<>> /\ One!Delivered(n) /\ pos' = pos + n
        /\ rbuf' = One!Rest(rbuf, n) /\ position' = TRUE
        /\ UNCHANGED <<mode, buffering, eof, sync, wbuf, pushback, file, off, want>>
    BY <1>7, <2>1 DEF One!ReadCache, One!Delivered
  <2>3. Len(rbuf) > 0
    BY <1>3, <2>2
  <2>4. n \in Nat /\ n > 0 /\ n <= call.left /\ n \in 0 .. Len(rbuf)
    BY <1>2, <1>3, <2>1, <2>3 DEF One!Least
  <2>5. PICK b, r : b \in Seq(One!Bytes) /\ b = rbuf /\ r = One!Rest(b, n)
    BY <1>3
  <2>6. PICK m \in Nat : m = Len(b)
    BY <1>3, <2>5
  <2>7. /\ r \in Seq(One!Bytes) /\ Len(r) = m - n
        /\ \A i \in 1 .. m - n : r[i] = b[n + i]
    BY <2>4, <2>5, <2>6, Halves
  <2>8. rbuf' = r /\ Len(rbuf') = m - n /\ m - n \in Nat /\ m - n <= m /\ Len(rbuf) = m
    BY <2>2, <2>4, <2>5, <2>6, <2>7
  <2>9. \A i \in 1 .. Len(rbuf') : rbuf'[i] = file[off' - Len(rbuf') + i]
    <3> SUFFICES ASSUME NEW i \in 1 .. m - n PROVE r[i] = file[off - (m - n) + i]
      BY <2>2, <2>8
    <3>1. n + i \in 1 .. m /\ off - m + (n + i) = off - (m - n) + i
      BY <1>3, <2>4
    <3>2. b[n + i] = file[off - m + (n + i)]
      BY <1>4, <2>5, <2>8, <3>1
    <3> QED BY <2>7, <3>1, <3>2
  <2>10. pos' = off' - (Len(rbuf') + Len(pushback'))
    BY <1>3, <2>2, <2>4, <2>8
  <2>11. /\ rbuf' \in Seq(One!Bytes) /\ Len(rbuf') <= buffering'.cap /\ Len(rbuf') <= off'
    BY <1>3, <2>2, <2>7, <2>8
  <2>12. BytesInv'
    BY <1>2, <1>3, <2>2, <2>9, <2>10, <2>11, InputStep
  <2>13. CallInv'
    BY <1>1, <1>2, <2>2, <2>4, DeliveredStep
  <2> QED BY <2>12, <2>13 DEF StreamInv
<1>8. ASSUME One!ReadNothing PROVE StreamInv'
  <2>1. /\ One!Return /\ pushback = <<>> /\ rbuf = <<>>
        /\ UNCHANGED <<mode, buffering, eof, position, sync, wbuf, rbuf, pushback, file, off,
                       want, pos>>
    BY <1>8 DEF One!ReadNothing, One!Exhausted
  <2> QED BY <1>3, <1>2, <2>1, BytesStay, Returned DEF StreamInv
<1>9. ASSUME One!Refill PROVE StreamInv'
  <2>1. PICK n \in 1 .. One!Least(buffering.cap, Len(file) - off) :
          rbuf' = SubSeq(file, off + 1, off + n) /\ off' = off + n
    BY <1>9 DEF One!Refill
  <2>2. /\ pushback = <<>> /\ rbuf = <<>>
        /\ UNCHANGED <<mode, buffering, eof, position, sync, wbuf, pushback, file, call,
                       want, pos>>
    BY <1>9 DEF One!Refill, One!Exhausted
  <2>3. n \in Nat /\ n <= buffering.cap /\ off + n <= Len(file) /\ off + n \in Nat
    BY <1>3, <2>1 DEF One!Least
  <2>4. PICK f, o, r :
        /\ f \in Seq(One!Bytes) /\ o \in Nat
        /\ f = file /\ o = off /\ r = rbuf'
    BY <1>3
  <2>5. /\ r \in Seq(One!Bytes) /\ Len(r) = n /\ \A i \in 1 .. n : r[i] = f[o + i]
    <3>1. r = SubSeq(f, o + 1, o + n) /\ o + n <= Len(f) /\ o + 1 <= o + n
      BY <2>1, <2>3, <2>4
    <3>2. \A i \in o + 1 .. o + n : f[i] \in One!Bytes
      BY <2>3, <2>4, <3>1
    <3>3. /\ r \in Seq(One!Bytes) /\ Len(r) = o + n - (o + 1) + 1
          /\ \A i \in 1 .. o + n - (o + 1) + 1 : r[i] = f[o + 1 + i - 1]
      BY <2>3, <2>4, <3>1, <3>2, SubSeqProperties
    <3>4. o + n - (o + 1) + 1 = n /\ \A i \in 1 .. n : o + 1 + i - 1 = o + i
      BY <2>3, <2>4
    <3> QED BY <3>3, <3>4
  <2>6. \A i \in 1 .. Len(rbuf') : rbuf'[i] = file[off' - Len(rbuf') + i]
    <3>1. Len(rbuf') = n /\ off' = o + n /\ o \in Nat
      BY <2>1, <2>3, <2>4, <2>5
    <3>2. o + n - n = o
      BY <2>3, <3>1
    <3> QED BY <2>4, <2>5, <3>1, <3>2
  <2>7. Len(rbuf) = 0 /\ Len(pushback) = 0 /\ Len(pushback') = 0 /\ Len(rbuf') = n
    BY <2>2, <2>4, <2>5
  <2>8. pos' = off' - (Len(rbuf') + Len(pushback'))
    BY <1>3, <2>1, <2>2, <2>3, <2>7
  <2>9. /\ rbuf' \in Seq(One!Bytes) /\ Len(rbuf') <= buffering'.cap /\ Len(rbuf') <= off'
    BY <1>3, <2>1, <2>2, <2>3, <2>4, <2>5
  <2>10. BytesInv'
    BY <1>2, <1>3, <2>1, <2>2, <2>3, <2>6, <2>7, <2>8, <2>9, InputStep
  <2> QED BY <1>1, <2>2, <2>10 DEF StreamInv, CallInv, StreamCalls, Writing
<1>10. ASSUME One!ReadEnd \/ One!ReadFails PROVE StreamInv'
  <2>1. /\ One!Return /\ eof' \in BOOLEAN /\ position' \in BOOLEAN
        /\ UNCHANGED <<mode, buffering, sync, wbuf, rbuf, pushback, file, off, want, pos>>
        /\ position' \/ (buffering.kind # "none" => pushback = <<>> /\ rbuf = <<>>)
    BY <1>3, <1>10 DEF One!ReadEnd, One!ReadFails, One!Exhausted, One!Buffered
  <2>2. BytesInv'
    BY <1>2, <1>3, <2>1, BytesStay
  <2>3. CallInv'
    BY <1>5, <2>1, Returned
  <2> QED BY <2>2, <2>3 DEF StreamInv
<1>11. ASSUME One!ReadDirect PROVE StreamInv'
  <2>1. PICK n \in 1 .. One!Least(call.left, Len(file) - off) :
          One!Delivered(n) /\ off' = off + n
    BY <1>11 DEF One!ReadDirect
  <2>2. /\ buffering.kind = "none" /\ position' = TRUE /\ pos' = pos + n
        /\ UNCHANGED <<mode, buffering, eof, sync, wbuf, rbuf, pushback, file, want>>
    BY <1>11, <2>1 DEF One!ReadDirect, One!Buffered, One!Delivered
  <2>3. n \in Nat /\ n > 0 /\ n <= call.left /\ off + n <= Len(file) /\ off + n \in Nat
    BY <1>2, <1>3, <2>1 DEF One!Least
  <2>4. rbuf = <<>> /\ pushback = <<>> /\ Len(rbuf) = 0 /\ Len(pushback) = 0
    BY <1>5, <2>2
  <2>5. pos' = off' - (Len(rbuf') + Len(pushback'))
    BY <1>3, <2>1, <2>2, <2>3, <2>4
  <2>6. Len(rbuf') <= off' /\ \A i \in 1 .. Len(rbuf') : rbuf'[i] = file[off' - Len(rbuf') + i]
    BY <2>1, <2>2, <2>3, <2>4
  <2>7. BytesInv'
    BY <1>2, <1>3, <2>1, <2>2, <2>3, <2>4, <2>5, <2>6, InputStep
  <2>8. CallInv'
    BY <1>1, <2>1, <2>2, <2>3, DeliveredStep
  <2> QED BY <2>7, <2>8 DEF StreamInv
<1> QED BY <1>6, <1>7, <1>8, <1>9, <1>10, <1>11

LEMMA LeastNatural ==
    ASSUME NEW T \in SUBSET Nat, T # {}
    PROVE  \E i \in T : \A j \in T : i <= j
<1>1. IsWellFoundedOn(OpToRel(<, Nat), Nat)
  BY Zenon, NatLessThanWellFounded
<1>2. PICK R : R = OpToRel(<, Nat)
  BY Zenon
<1>3. \E x \in T : \A y \in T : ~(<<y, x>> \in R)
  BY Zenon, <1>1, <1>2, WFMin
<1>4. \A x, y \in Nat : y < x => <<y, x>> \in R
  BY Zenon, <1>2 DEF OpToRel
<1>5. \A x, y \in T : x \in Nat /\ y \in Nat /\ (~(y < x) => x <= y)
  OBVIOUS
<1> QED BY <1>3, <1>4, <1>5

LEMMA WriteAtMoves ==
    ASSUME BytesInv, NEW c \in Seq(One!Bytes), mode' = mode,
           want' = One!Put(want, One!WriteAt, c), pos' = One!WriteAt + Len(c)
    PROVE  One!WriteAt' = One!WriteAt + Len(c)
<1>1. CASE ~mode.append
  BY <1>1 DEF One!WriteAt
<1>2. CASE mode.append
  <2>1. PICK w \in Seq(One!Bytes) : w = want
    BY DEF BytesInv
  <2>2. PICK at \in 0 .. Len(w) : at = Len(w) /\ at = One!WriteAt
    BY <1>2, <2>1 DEF One!WriteAt
  <2>3. PICK g : g = One!Put(w, at, c)
    OBVIOUS
  <2>4. Len(g) = IF at + Len(c) > Len(w) THEN at + Len(c) ELSE Len(w)
    BY <2>3, PutWhole
  <2>5. Len(g) = at + Len(c)
    <3>1. PICK k \in Nat, l \in Nat : k = Len(c) /\ l = Len(w)
      OBVIOUS
    <3>2. at = l /\ Len(g) = IF at + k > l THEN at + k ELSE l
      BY <2>2, <2>4, <3>1
    <3> QED BY <3>1, <3>2
  <2>6. want' = g
    BY <2>1, <2>2, <2>3
  <2> QED BY <1>2, <2>2, <2>5, <2>6 DEF One!WriteAt
<1> QED BY <1>1, <1>2

LEMMA WriteStep ==
    ASSUME StreamInv,
           \/ One!WriteDone \/ One!WriteFull \/ One!WriteChunk \/ One!WriteDirect
           \/ One!WriteFails
    PROVE  StreamInv'
<1> USE DEF One!stream
<1>1. call.pc = "write"
  BY DEF One!At, One!WriteDone, One!WriteFull, One!WriteChunk, One!WriteDirect, One!WriteFails
<1>2. /\ call \in StreamCalls /\ call.data \in Seq(One!Bytes) /\ BytesInv
      /\ sync /\ ~position /\ One!WriteAt + Len(call.data) <= MaxFile
      /\ rbuf = <<>> /\ pushback = <<>>
  BY <1>1 DEF StreamInv, CallInv, StreamCalls, Writing
<1>3. /\ wbuf \in Seq(One!Bytes) /\ Len(wbuf) \in Nat /\ Len(wbuf) <= buffering.cap
      /\ buffering.cap \in Nat /\ MaxFile \in Nat /\ Len(call.data) \in Nat
      /\ One!WriteAt \in Nat /\ One!WriteAt = Place + Len(wbuf) /\ Place \in Nat
      /\ eof \in BOOLEAN /\ position \in BOOLEAN /\ sync \in BOOLEAN
  <2>1. /\ wbuf \in Seq(One!Bytes) /\ Len(wbuf) \in Nat /\ Len(wbuf) <= buffering.cap
        /\ buffering.cap \in Nat /\ MaxFile \in Nat /\ Len(call.data) \in Nat
        /\ eof \in BOOLEAN /\ position \in BOOLEAN /\ sync \in BOOLEAN
    BY <1>2, BufferingFacts, StreamConstants DEF BytesInv
  <2>2. One!WriteAt = Place + Len(wbuf) /\ Place \in Nat
    BY <1>2, PlaceFacts
  <2> QED BY <2>1, <2>2
<1>4. ASSUME One!WriteDone \/ One!WriteFails PROVE StreamInv'
  <2>1. /\ One!Return
        /\ UNCHANGED <<mode, buffering, eof, position, sync, wbuf, rbuf, pushback, file, off,
                       want, pos>>
    BY <1>4 DEF One!WriteDone, One!WriteFails
  <2> QED BY <1>2, <1>3, <2>1, BytesStay, Returned DEF StreamInv
<1>5. ASSUME One!WriteFull PROVE StreamInv'
  <2>1. /\ call' = [call EXCEPT !.pc = "flush", !.then = "write"]
        /\ UNCHANGED <<mode, buffering, eof, position, sync, wbuf, rbuf, pushback, file, off,
                       want, pos>>
    BY <1>5 DEF One!WriteFull
  <2>2. call' \in StreamCalls /\ call'.pc = "flush" /\ call'.data = call.data
    BY <1>2, <2>1 DEF StreamCalls
  <2> QED BY <1>2, <2>1, <2>2, CallStep
<1>6. ASSUME One!WriteChunk PROVE StreamInv'
  <2>1. PICK fits : fits = One!Least(Len(call.data), buffering.cap - Len(wbuf))
    OBVIOUS
  <2>2. PICK ends : ends = {i \in 1 .. fits : buffering.kind = "line"
                                              /\ call.data[i] = Newline}
    OBVIOUS
  <2>3. PICK n : n = IF ends = {} THEN fits
                     ELSE CHOOSE i \in ends : \A j \in ends : i <= j
    OBVIOUS
  <2>4. /\ fits > 0 /\ wbuf' = wbuf \o One!Start(call.data, n) /\ One!Accepted(n)
        /\ call' = [call EXCEPT !.data = One!Rest(call.data, n), !.then = "write",
                                !.pc = IF ends = {} THEN "write" ELSE "flush"]
        /\ UNCHANGED <<mode, buffering, eof, position, sync, rbuf, pushback, file, off>>
    BY <1>6, <2>1, <2>2, <2>3 DEF One!WriteChunk
  <2>5. /\ fits \in Nat /\ fits > 0 /\ fits <= Len(call.data)
        /\ Len(wbuf) + fits <= buffering.cap
    BY <1>3, <2>1, <2>4 DEF One!Least
  <2>6. n \in 1 .. fits
    <3>1. CASE ends = {}
      BY <2>3, <2>5, <3>1
    <3>2. CASE ends # {}
      <4>1. ends \in SUBSET Nat
        BY <2>2, <2>5
      <4>2. \E i \in ends : \A j \in ends : i <= j
        BY <3>2, <4>1, LeastNatural
      <4>3. n \in ends
        BY <2>3, <3>2, <4>2
      <4> QED BY <2>2, <4>3
    <3> QED BY <3>1, <3>2
  <2>7. PICK d \in Seq(One!Bytes), l \in Nat : d = call.data /\ l = Len(d)
    BY <1>2
  <2>8. PICK c, r : c = One!Start(d, n) /\ r = One!Rest(d, n)
    OBVIOUS
  <2>9. n \in 0 .. l /\ n \in Nat /\ n > 0 /\ n <= fits
    BY <2>5, <2>6, <2>7
  <2>10. /\ c \in Seq(One!Bytes) /\ Len(c) = n
         /\ r \in Seq(One!Bytes) /\ Len(r) = l - n
    BY <2>7, <2>8, <2>9, Halves
  <2>11. /\ wbuf' = wbuf \o c /\ want' = One!Put(want, One!WriteAt, c)
         /\ pos' = One!WriteAt + Len(c)
    BY <2>4, <2>7, <2>8, <2>10 DEF One!Accepted
  <2> HIDE DEF One!WriteAt
  <2>12. One!WriteAt + l <= MaxFile /\ One!WriteAt + Len(c) <= MaxFile
    <3>1. PICK w \in Nat : w = One!WriteAt
      BY <1>3
    <3>2. w + l <= MaxFile
      BY <1>2, <2>7, <3>1
    <3>3. w + n <= MaxFile
      BY <1>3, <2>9, <3>2
    <3> QED BY <2>10, <3>1, <3>2, <3>3
  <2>13. Len(wbuf) + Len(c) <= buffering.cap
    BY <1>3, <2>5, <2>9, <2>10
  <2>14. wbuf' # <<>>
    <3>1. wbuf' \in Seq(One!Bytes) /\ Len(wbuf') = Len(wbuf) + Len(c)
      BY <1>3, <2>10, <2>11, ConcatProperties
    <3>2. Len(wbuf') > 0
      BY <1>3, <2>9, <2>10, <3>1
    <3> QED BY <3>2
  <2>15. BytesInv'
    BY <1>2, <2>4, <2>10, <2>11, <2>12, <2>13, <2>14, AcceptStep
  <2>16. One!WriteAt' = One!WriteAt + n
    BY <1>2, <2>4, <2>10, <2>11, WriteAtMoves
  <2>17. /\ call' \in StreamCalls /\ call'.data = r
         /\ call'.pc \in {"write", "flush"} /\ call'.then = "write"
    BY <1>2, <2>4, <2>7, <2>8, <2>10 DEF StreamCalls
  <2>18. One!WriteAt' + Len(call'.data) <= MaxFile
    <3>1. PICK w \in Nat : w = One!WriteAt
      BY <1>3
    <3>2. w + l <= MaxFile
      BY <2>12, <3>1
    <3>3. (w + n) + (l - n) = w + l
      BY <2>9
    <3> QED BY <2>10, <2>16, <2>17, <3>1, <3>2, <3>3
  <2>19. rbuf' = <<>> /\ pushback' = <<>> /\ sync' /\ ~position'
    BY <1>2, <2>4
  <2> QED BY <2>15, <2>17, <2>18, <2>19 DEF StreamInv, CallInv, StreamCalls, Writing
<1>7. ASSUME One!WriteDirect PROVE StreamInv'
  <2>1. PICK n \in 1 .. Len(call.data) :
          /\ One!Accepted(n)
          /\ One!KernelWrite(One!Start(call.data, n))
          /\ call' = [call EXCEPT !.data = One!Rest(call.data, n)]
    BY <1>7 DEF One!WriteDirect
  <2>2. /\ buffering.kind = "none"
        /\ UNCHANGED <<mode, buffering, eof, position, sync, wbuf, rbuf, pushback>>
    BY <1>7 DEF One!WriteDirect, One!Buffered
  <2>3. PICK d \in Seq(One!Bytes), l \in Nat : d = call.data /\ l = Len(d)
    BY <1>2
  <2>4. PICK c, r : c = One!Start(d, n) /\ r = One!Rest(d, n)
    OBVIOUS
  <2>5. n \in 0 .. l /\ n \in Nat /\ n > 0
    BY <2>1, <2>3
  <2>6. /\ c \in Seq(One!Bytes) /\ Len(c) = n
        /\ r \in Seq(One!Bytes) /\ Len(r) = l - n
    BY <2>3, <2>4, <2>5, Halves
  <2>7. /\ One!KernelWrite(c) /\ want' = One!Put(want, One!WriteAt, c)
        /\ pos' = One!WriteAt + Len(c)
    BY <2>1, <2>3, <2>4, <2>6 DEF One!Accepted
  <2>8. One!WriteAt + l <= MaxFile /\ One!WriteAt + Len(c) <= MaxFile
    <3>1. PICK w \in Nat : w = One!WriteAt
      BY <1>3
    <3>2. w + l <= MaxFile
      BY <1>2, <2>3, <3>1
    <3>3. w + n <= MaxFile
      BY <1>3, <2>5, <3>2
    <3> QED BY <2>6, <3>1, <3>2, <3>3
  <2>9. BytesInv'
    BY <1>2, <2>2, <2>6, <2>7, <2>8, DirectStep
  <2>10. One!WriteAt' = One!WriteAt + n
    BY <1>2, <2>2, <2>6, <2>7, WriteAtMoves
  <2>11. call' \in StreamCalls /\ call'.data = r /\ call'.pc = "write"
    BY <1>1, <1>2, <2>1, <2>3, <2>4, <2>6 DEF StreamCalls
  <2>12. One!WriteAt' + Len(call'.data) <= MaxFile
    <3>1. PICK w \in Nat : w = One!WriteAt
      BY <1>3
    <3>2. w + l <= MaxFile
      BY <2>8, <3>1
    <3>3. (w + n) + (l - n) = w + l
      BY <2>5
    <3> QED BY <2>6, <2>10, <2>11, <3>1, <3>2, <3>3
  <2> QED BY <1>2, <2>2, <2>9, <2>11, <2>12 DEF StreamInv, CallInv, StreamCalls, Writing
<1> QED BY <1>4, <1>5, <1>6, <1>7

(* setvbuf installs a buffering with nothing held back, and perhaps moves  *)
(* the offset back to where the program is.                                *)
LEMMA InstallStep ==
    ASSUME BytesInv, wbuf = <<>>, One!Install(call.change), call.change \in One!Bufferings,
           UNCHANGED <<mode, file, want>>,
           eof' \in BOOLEAN, position' \in BOOLEAN, sync' \in BOOLEAN,
           off' \in Nat, off' <= Len(file), pos' = off'
    PROVE  BytesInv'
<1>1. /\ buffering' = call.change /\ wbuf' = <<>> /\ rbuf' = <<>> /\ pushback' = <<>>
      /\ buffering'.cap \in Nat
  BY BufferingFacts DEF One!Install
<1>2. /\ Len(rbuf') = 0 /\ Len(pushback') = 0
      /\ rbuf' \in Seq(One!Bytes) /\ pushback' \in Seq(One!Bytes)
  BY <1>1
<1>3. pos' = off' - (Len(rbuf') + Len(pushback'))
  <2>1. \A o \in Nat : o - (0 + 0) = o
    OBVIOUS
  <2> QED BY <1>2, <2>1
<1>4. \A i \in 1 .. Len(rbuf') : rbuf'[i] = file[off' - Len(rbuf') + i]
  BY <1>2
<1> QED BY <1>1, <1>2, <1>3, <1>4, InputStep

LEMMA FlushStep ==
    ASSUME StreamInv, One!FlushSome \/ One!FlushFails \/ One!FlushDone
    PROVE  StreamInv'
<1> USE DEF One!stream
<1>1. call.pc = "flush"
  BY DEF One!At, One!FlushSome, One!FlushFails, One!FlushDone
<1>2. /\ call \in StreamCalls /\ BytesInv
      /\ rbuf # <<>> \/ pushback # <<>> => position
      /\ eof \in BOOLEAN /\ position \in BOOLEAN /\ sync \in BOOLEAN
  BY <1>1 DEF StreamInv, CallInv, BytesInv
<1>3. ASSUME One!FlushSome PROVE StreamInv'
  <2>1. PICK n \in 1 .. Len(wbuf) :
          One!KernelWrite(One!Start(wbuf, n)) /\ wbuf' = One!Rest(wbuf, n)
    BY <1>3 DEF One!FlushSome
  <2>2. UNCHANGED <<mode, buffering, eof, position, sync, rbuf, pushback, call, want, pos>>
    BY <1>3 DEF One!FlushSome
  <2>3. BytesInv'
    BY <1>2, <2>1, <2>2, DrainStep
  <2>4. One!WriteAt' = One!WriteAt
    BY <2>2 DEF One!WriteAt
  <2> QED BY <1>1, <2>2, <2>3, <2>4 DEF StreamInv, CallInv, StreamCalls, Writing
<1>4. ASSUME One!FlushFails PROVE StreamInv'
  <2>1. /\ One!Return /\ eof' \in BOOLEAN
        /\ UNCHANGED <<mode, buffering, position, sync, wbuf, rbuf, pushback, file, off,
                       want, pos>>
    BY <1>2, <1>4 DEF One!FlushFails, One!Fail
  <2>2. BytesInv'
    BY <1>2, <2>1, BytesStay DEF BytesInv
  <2> QED BY <1>2, <2>1, <2>2, Returned DEF StreamInv
<1>5. ASSUME One!FlushDone PROVE StreamInv'
  <2>1. wbuf = <<>> /\ UNCHANGED <<file, off, want, pos>>
    BY <1>5 DEF One!FlushDone
  <2>2. CASE call.then = "return"
    <3>1. One!Return /\ UNCHANGED <<mode, buffering, eof, position, sync, wbuf, rbuf, pushback>>
      BY <1>5, <2>2 DEF One!FlushDone
    <3>2. BytesInv'
      BY <1>2, <2>1, <3>1, BytesStay
    <3> QED BY <1>2, <3>1, <3>2, Returned DEF StreamInv
  <2>3. CASE call.then = "write"
    <3>1. /\ call' = [call EXCEPT !.pc = "write"]
          /\ UNCHANGED <<mode, buffering, eof, position, sync, wbuf, rbuf, pushback>>
      BY <1>5, <2>3 DEF One!FlushDone
    <3>2. call' \in StreamCalls /\ call'.pc = "write" /\ call'.data = call.data
      BY <1>2, <3>1 DEF StreamCalls
    <3>3. sync /\ ~position /\ One!WriteAt + Len(call.data) <= MaxFile
      BY <1>1, <2>3 DEF StreamInv, CallInv, Writing
    <3> QED BY <1>2, <2>1, <3>1, <3>2, <3>3, CallStep
  <2>4. CASE call.then = "seek"
    <3>1. /\ call' = [call EXCEPT !.pc = "seek"]
          /\ UNCHANGED <<mode, buffering, eof, position, sync, wbuf, rbuf, pushback>>
      BY <1>5, <2>4 DEF One!FlushDone
    <3>2. call' \in StreamCalls /\ call'.pc = "seek"
      BY <1>2, <3>1 DEF StreamCalls
    <3> QED BY <1>2, <2>1, <3>1, <3>2, CallStep
  <2>5. CASE call.then = "fflush"
    <3>1. One!Return /\ sync' = FALSE
          /\ UNCHANGED <<mode, buffering, eof, position, wbuf, rbuf, pushback>>
      BY <1>5, <2>5 DEF One!FlushDone
    <3>2. BytesInv'
      BY <1>2, <2>1, <3>1, BytesStay
    <3> QED BY <1>2, <3>1, <3>2, Returned DEF StreamInv
  <2>6. CASE call.then = "setvbuf"
    <3>1. sync' \in BOOLEAN /\ UNCHANGED <<mode, eof, position>>
      BY <1>2, <1>5, <2>6 DEF One!FlushDone
    <3>2. CASE One!NeedsRealign
      <4>1. /\ call' = [call EXCEPT !.pc = "realign"]
            /\ UNCHANGED <<buffering, wbuf, rbuf, pushback>>
        BY <1>5, <2>6, <3>2 DEF One!FlushDone
      <4>2. call' \in StreamCalls /\ call'.pc = "realign"
        BY <1>2, <4>1 DEF StreamCalls
      <4>3. BytesInv'
        BY <1>2, <2>1, <3>1, <4>1, BytesStay
      <4> QED BY <1>2, <2>1, <3>1, <4>1, <4>2, <4>3 DEF StreamInv, CallInv, StreamCalls, Writing
    <3>3. CASE ~One!NeedsRealign
      <4>1. One!Install(call.change) /\ One!Return
        BY <1>5, <2>6, <3>3 DEF One!FlushDone
      <4>2. rbuf = <<>> /\ pushback = <<>>
        BY <1>2, <3>3 DEF One!NeedsRealign, BytesInv
      <4>3. /\ pos = off - (Len(rbuf) + Len(pushback)) /\ off \in Nat /\ off <= Len(file)
        BY <2>1, ReadFacts
      <4>4. pos' = off' /\ off' \in Nat /\ off' <= Len(file)
        BY <2>1, <4>2, <4>3
      <4>5. call.change \in One!Bufferings
        BY <1>2 DEF StreamCalls
      <4>6. BytesInv'
        BY <1>2, <2>1, <3>1, <4>1, <4>4, <4>5, InstallStep
      <4>7. rbuf' = <<>> /\ pushback' = <<>>
        BY <4>1 DEF One!Install
      <4> QED BY <4>1, <4>6, <4>7, Returned DEF StreamInv
    <3> QED BY <3>2, <3>3
  <2> QED BY <1>2, <2>2, <2>3, <2>4, <2>5, <2>6 DEF StreamCalls
<1> QED BY <1>3, <1>4, <1>5

LEMMA SeekStep ==
    ASSUME StreamInv,
           One!Seek \/ One!SeekFails \/ One!Realign \/ One!RealignFails
    PROVE  StreamInv'
<1> USE DEF One!stream
<1>1. call.pc \in {"seek", "realign"}
  BY DEF One!At, One!Seek, One!SeekFails, One!Realign, One!RealignFails
<1>2. /\ call \in StreamCalls /\ BytesInv /\ wbuf = <<>>
      /\ rbuf # <<>> \/ pushback # <<>> => position
      /\ eof \in BOOLEAN /\ position \in BOOLEAN /\ sync \in BOOLEAN
  BY <1>1 DEF StreamInv, CallInv, BytesInv
<1>3. /\ pos = off - (Len(rbuf) + Len(pushback)) /\ off \in Nat /\ Len(rbuf) \in Nat
      /\ Len(pushback) \in Nat /\ Len(file) \in Nat /\ want = file /\ off <= Len(file)
      /\ buffering \in One!Bufferings /\ buffering.cap \in Nat
      /\ call.offset \in Int /\ call.change \in One!Bufferings
  BY <1>2, ReadFacts, PlaceFacts DEF StreamCalls
<1>4. ASSUME One!SeekFails \/ One!RealignFails PROVE StreamInv'
  <2>1. /\ One!Return /\ eof' \in BOOLEAN
        /\ UNCHANGED <<mode, buffering, position, sync, wbuf, rbuf, pushback, file, off,
                       want, pos>>
    BY <1>2, <1>4 DEF One!SeekFails, One!Fail, One!RealignFails
  <2>2. BytesInv'
    BY <1>2, <2>1, BytesStay
  <2> QED BY <1>2, <2>1, <2>2, Returned DEF StreamInv
<1>5. ASSUME One!Seek PROVE StreamInv'
  <2>1. /\ One!SeekTarget \in 0 .. Len(file) /\ off' = One!SeekTarget
        /\ rbuf' = <<>> /\ pushback' = <<>> /\ eof' = FALSE /\ position' = FALSE /\ sync' = FALSE
        /\ pos' = One!Destination /\ One!Return
        /\ UNCHANGED <<mode, buffering, wbuf, file, want>>
    BY <1>5 DEF One!Seek, One!Seeked
  <2>2. One!SeekTarget = One!Destination
    <3>1. CASE call.whence \in {"set", "rewind"}
      BY <3>1 DEF One!SeekTarget, One!Destination
    <3>2. CASE call.whence = "end"
      BY <1>3, <3>2 DEF One!SeekTarget, One!Destination
    <3>3. CASE call.whence = "cur"
      <4>1. PICK a \in Nat, b \in Nat, c \in Nat, o \in Int :
              a = off /\ b = Len(rbuf) /\ c = Len(pushback) /\ o = call.offset
        BY <1>3
      <4>2. a + o - (b + c) = (a - (b + c)) + o
        BY <4>1
      <4>3. One!SeekTarget = a + o - (b + c) /\ One!Destination = (a - (b + c)) + o
        BY <1>3, <3>3, <4>1 DEF One!SeekTarget, One!Destination, One!Unread
      <4> QED BY <4>2, <4>3
    <3> QED BY <1>2, <3>1, <3>2, <3>3 DEF StreamCalls
  <2>3. pos' = off' /\ off' \in Nat /\ off' <= Len(file)
    BY <1>3, <2>1, <2>2
  <2>4. Len(rbuf') = 0 /\ Len(pushback') = 0 /\ pos' = off' - (Len(rbuf') + Len(pushback'))
    BY <2>1, <2>3
  <2>5. \A i \in 1 .. Len(rbuf') : rbuf'[i] = file[off' - Len(rbuf') + i]
    BY <2>4
  <2>6. rbuf' \in Seq(One!Bytes) /\ pushback' \in Seq(One!Bytes)
    BY <2>1
  <2>7. BytesInv'
    <3>1. /\ BytesInv /\ wbuf = <<>> /\ wbuf' = <<>> /\ buffering' \in One!Bufferings
          /\ eof' \in BOOLEAN /\ position' \in BOOLEAN /\ sync' \in BOOLEAN
          /\ UNCHANGED <<mode, file, want>>
          /\ ~mode.read => rbuf' = <<>> /\ pushback' = <<>>
          /\ pushback' # <<>> => buffering'.kind # "none"
      BY <1>2, <1>3, <2>1
    <3>2. Len(rbuf') <= buffering'.cap /\ Len(rbuf') <= off' /\ Len(pushback') <= 1
      BY <1>3, <2>1, <2>3, <2>4
    <3> QED BY <2>3, <2>4, <2>5, <2>6, <3>1, <3>2, InputStep
  <2> QED BY <2>1, <2>7, Returned DEF StreamInv
<1>6. ASSUME One!Realign PROVE StreamInv'
  <2>1. /\ off - One!Unread >= 0 /\ off' = off - One!Unread
        /\ eof' = FALSE /\ position' = FALSE /\ sync' = FALSE
        /\ One!Install(call.change) /\ One!Return
        /\ UNCHANGED <<mode, file, want, pos>>
    BY <1>6 DEF One!Realign
  <2>2. One!Unread = Len(rbuf) + Len(pushback)
    BY DEF One!Unread
  <2>3. pos' = off' /\ off' \in Nat /\ off' <= Len(file)
    BY <1>3, <2>1, <2>2
  <2>4. BytesInv'
    BY <1>2, <1>3, <2>1, <2>3, InstallStep
  <2>5. rbuf' = <<>> /\ pushback' = <<>>
    BY <2>1 DEF One!Install
  <2> QED BY <2>1, <2>4, <2>5, Returned DEF StreamInv
<1> QED BY <1>4, <1>5, <1>6

LEMMA StreamStays == ASSUME StreamInv, UNCHANGED oneVars PROVE StreamInv'
<1>1. BytesInv'
  BY BytesStay DEF StreamInv, BytesInv, oneVars
<1>2. One!WriteAt' = One!WriteAt
  BY DEF One!WriteAt, oneVars
<1> QED BY <1>1, <1>2 DEF StreamInv, CallInv, StreamCalls, Writing, oneVars

LEMMA StreamAlways == Spec => []StreamInv
<1>1. Init => StreamInv
  BY StreamInit DEF Init
<1>2. StreamInv /\ [Next]_vars => StreamInv'
  <2> SUFFICES ASSUME StreamInv, [Next]_vars PROVE StreamInv'
    OBVIOUS
  <2>1. One!Next \/ UNCHANGED oneVars
    BY DEF Next, vars
  <2>2. ASSUME One!Next PROVE StreamInv'
    BY <2>2, CallBegins, ReadStep, WriteStep, FlushStep, SeekStep DEF One!Next, One!Step
  <2> QED BY <2>1, <2>2, StreamStays
<1> QED BY <1>1, <1>2, PTL DEF Spec

(* stdio_write_unlocked and stdio_flush_buffer_unlocked (stdio.c): every   *)
(* accepted byte is in the file or in the buffer, once and in its place,   *)
(* whatever short writes, failures, seeks and changes of buffering did.    *)
THEOREM KeptOutput == Spec => []OutputKept
<1>1. StreamInv => OutputKept
  BY DEF StreamInv, BytesInv, OutputKept
<1> QED BY <1>1, StreamAlways, PTL

(* ftell (position.c): the position it computes is the program's count.    *)
THEOREM AgreedPosition == Spec => []PositionAgrees
<1>1. StreamInv => PositionAgrees
  BY DEF StreamInv, BytesInv, PositionAgrees
<1> QED BY <1>1, StreamAlways, PTL

(* stdio_read_unlocked (stdio.c), ungetc and setvbuf: input held back is   *)
(* what the file holds there, and never in memory that holds output too.   *)
THEOREM ConsistentCache == Spec => []CacheConsistent
<1>1. ASSUME StreamInv PROVE CacheConsistent
  <2>1. One!TypeOK
    <3>1. off \in 0 .. MaxFile
      BY <1>1, StreamConstants DEF StreamInv, BytesInv
    <3>2. /\ call.pc \in {"idle", "read", "write", "flush", "seek", "realign"}
          /\ call.then \in {"return", "write", "fflush", "seek", "setvbuf"}
      BY <1>1 DEF StreamInv, CallInv, StreamCalls
    <3>3. \A s \in {wbuf, rbuf} : s \in Seq(One!Bytes) /\ Len(s) <= buffering.cap
      BY <1>1 DEF StreamInv, BytesInv
    <3> QED BY <1>1, <3>1, <3>2, <3>3 DEF One!TypeOK, StreamInv, BytesInv
  <2>2. One!OneDirection
    <3>1. wbuf # <<>> => rbuf = <<>> /\ pushback = <<>>
      BY <1>1 DEF StreamInv, BytesInv
    <3>2. rbuf # <<>> \/ pushback # <<>> => position \/ (call.pc = "read" /\ call.left > 0)
      BY <1>1 DEF StreamInv, CallInv
    <3> QED BY <3>1, <3>2 DEF One!OneDirection, One!At
  <2>3. One!CacheCurrent
    <3> SUFFICES ASSUME NEW i \in 1 .. Len(rbuf)
                 PROVE  /\ pos + Len(pushback) + i \in 1 .. Len(want)
                        /\ rbuf[i] = want[pos + Len(pushback) + i]
      BY DEF One!CacheCurrent
    <3>1. rbuf # <<>> /\ wbuf = <<>>
      BY <1>1 DEF StreamInv, BytesInv
    <3>2. /\ pos = off - (Len(rbuf) + Len(pushback)) /\ off \in Nat /\ Len(rbuf) \in Nat
          /\ Len(pushback) \in Nat /\ Len(rbuf) <= off /\ off <= Len(file) /\ Len(file) \in Nat
      BY <1>1, <3>1, ReadFacts
    <3>3. want = file /\ rbuf[i] = file[off - Len(rbuf) + i]
      BY <1>1, <3>1, PlaceFacts DEF StreamInv, BytesInv
    <3>4. pos + Len(pushback) + i = off - Len(rbuf) + i
      BY <3>2
    <3>5. off - Len(rbuf) + i \in 1 .. Len(file)
      BY <3>2
    <3> QED BY <3>3, <3>4, <3>5
  <2> QED BY <2>1, <2>2, <2>3 DEF CacheConsistent, One!CacheConsistent
<1> QED BY <1>1, StreamAlways, PTL

-----------------------------------------------------------------------------
(* New processes.  What the list of file actions makes of the descriptors  *)
(* is a recursive function of how many of them are done: it exists, since  *)
(* a least number for which it did not could not be, so its equations hold.*)
LEMMA TablesFacts ==
    ASSUME NEW list \in Seq(Actions)
    PROVE  /\ Procs!Tables(list)[0] = {Table}
           /\ \A n \in 1 .. Len(list) :
                Procs!Tables(list)[n] =
                  {Procs!Performed(f, list[n]) :
                     f \in {g \in Procs!Tables(list)[n - 1] : g[list[n].fd] # Procs!NoFile}}
<1> DEFINE After(s, n) == {Procs!Performed(f, list[n]) :
                             f \in {g \in s : g[list[n].fd] # Procs!NoFile}}
           Body(f, m) == [n \in 0 .. m |-> IF n = 0 THEN {Table} ELSE After(f[n - 1], n)]
<1>1. Procs!Tables(list) = CHOOSE f : f = Body(f, Len(list))
  BY DEF Procs!Tables
<1> HIDE DEF After
<1>2. Len(list) \in Nat
  OBVIOUS
<1>3. \A m \in Nat : \E f : f = Body(f, m)
  <2> DEFINE T == {m \in Nat : ~\E f : f = Body(f, m)}
  <2> SUFFICES ASSUME T # {} PROVE FALSE
    OBVIOUS
  <2>1. PICK m \in T : \A k \in T : m <= k
    BY LeastNatural
  <2>2. CASE m = 0
    <3>1. PICK f : f = [n \in 0 .. 0 |-> {Table}]
      OBVIOUS
    <3>2. f = Body(f, 0)
      BY <3>1
    <3> QED BY <2>1, <2>2, <3>2
  <2>3. CASE m # 0
    <3>1. m \in Nat \ {0} /\ m - 1 \in Nat /\ m - 1 \notin T
      <4>1. m \in Nat \ {0} /\ m - 1 \in Nat /\ ~(m <= m - 1)
        BY <2>3
      <4> HIDE DEF T
      <4> QED BY <2>1, <4>1
    <3>2. PICK f : f = Body(f, m - 1)
      BY <3>1
    <3>3. PICK g : g = [n \in 0 .. m |-> IF n = m THEN After(f[m - 1], m) ELSE f[n]]
      OBVIOUS
    <3>4. \A n \in 0 .. m - 1 : g[n] = f[n]
      BY <3>1, <3>3
    <3>5. \A n \in 0 .. m : g[n] = IF n = 0 THEN {Table} ELSE After(g[n - 1], n)
      <4> SUFFICES ASSUME NEW n \in 0 .. m
                   PROVE  g[n] = IF n = 0 THEN {Table} ELSE After(g[n - 1], n)
        OBVIOUS
      <4>1. CASE n = m
        <5>1. g[n] = After(f[m - 1], m)
          BY <3>3, <4>1
        <5> QED BY <3>1, <3>4, <4>1, <5>1
      <4>2. CASE n # m
        <5>1. n \in 0 .. m - 1 /\ g[n] = f[n]
          BY <3>1, <3>4, <4>2
        <5>2. f[n] = IF n = 0 THEN {Table} ELSE After(f[n - 1], n)
          BY <3>2, <5>1
        <5>3. n # 0 => n - 1 \in 0 .. m - 1
          BY <5>1
        <5> QED BY <3>4, <5>1, <5>2, <5>3
      <4> QED BY <4>1, <4>2
    <3>6. g = Body(g, m)
      BY <3>3, <3>5
    <3> QED BY <2>1, <3>6
  <2> QED BY <2>2, <2>3
<1>4. PICK table : table = Procs!Tables(list)
  OBVIOUS
<1>5. table = Body(table, Len(list))
  BY <1>1, <1>2, <1>3, <1>4
<1>6. table[0] = {Table}
  BY <1>2, <1>5
<1>7. \A n \in 1 .. Len(list) : table[n] = After(table[n - 1], n)
  <2> SUFFICES ASSUME NEW n \in 1 .. Len(list) PROVE table[n] = After(table[n - 1], n)
    OBVIOUS
  <2>1. n \in 0 .. Len(list) /\ n # 0
    BY <1>2
  <2>2. table[n] = IF n = 0 THEN {Table} ELSE After(table[n - 1], n)
    BY <1>5, <2>1
  <2> QED BY <2>1, <2>2
<1> USE DEF After
<1> QED BY <1>4, <1>6, <1>7

(* Who has been called: in s, those of h after the n-th that have a        *)
(* prepare function, from the last; and those up to the n-th that have one *)
(* for this role, from the first.                                          *)
Backward(h, n, s) ==
    /\ \A i \in DOMAIN s : \E a \in DOMAIN h :
         a > n /\ s[i] = h[a] /\ "prepare" \in Roles[h[a]]
    /\ \A a \in DOMAIN h :
         a > n /\ "prepare" \in Roles[h[a]] => \E i \in DOMAIN s : s[i] = h[a]
    /\ \A i, j \in DOMAIN s, a, b \in DOMAIN h : i < j /\ s[i] = h[a] /\ s[j] = h[b] => b < a

Forward(h, n, s, role) ==
    /\ \A i \in DOMAIN s : \E a \in 1 .. n : s[i] = h[a] /\ role \in Roles[h[a]]
    /\ \A a \in 1 .. n : role \in Roles[h[a]] => \E i \in DOMAIN s : s[i] = h[a]
    /\ \A i, j \in DOMAIN s, a, b \in DOMAIN h : i < j /\ s[i] = h[a] /\ s[j] = h[b] => a < b

Walk(w) ==
    /\ w.handlers \in Seq(Handlers) /\ Distinct(w.handlers)
    /\ w.index \in 0 .. Len(w.handlers)
    /\ w.prepared \in Seq(Handlers) /\ w.ran \in Seq(Handlers)

ForkGood(w) ==
    \/ w.at \notin {"prepare", "parent"}
    \/ /\ w = [at |-> w.at, handlers |-> w.handlers, index |-> w.index,
               prepared |-> w.prepared, ran |-> w.ran]
       /\ Walk(w)
       /\ \/ w.at = "prepare" /\ w.ran = <<>> /\ Backward(w.handlers, w.index, w.prepared)
          \/ /\ w.at = "parent"
             /\ Backward(w.handlers, 0, w.prepared)
             /\ Forward(w.handlers, w.index, w.ran, "parent")

Forked(c) ==
    /\ c.at \in {"handlers", "program", "exited", "reaped"}
    /\ Walk(c)
    /\ Backward(c.handlers, 0, c.prepared)
    /\ Forward(c.handlers, c.index, c.ran, "child")
    /\ c.at = "program" => c.index = Len(c.handlers)

(* What is still to do is the rest of the list, and the descriptors are    *)
(* what the actions before it make of the parent's.                        *)
Spawned(c) ==
    /\ c.todo \in Seq(Actions) /\ c.asked \in Seq(Actions)
    /\ \/ /\ c.at = "spawn"
          /\ \E k \in 0 .. Len(c.asked) :
               /\ Len(c.todo) = Len(c.asked) - k
               /\ \A i \in 1 .. Len(c.todo) : c.todo[i] = c.asked[k + i]
               /\ Procs!Tables(c.asked)[k] = {c.fds}
       \/ /\ c.at = "image"
          /\ \E f : /\ Procs!Tables(c.asked)[Len(c.asked)] = {f}
                    /\ c.fds = Procs!Image(f)
       \/ /\ c.at = "exited"
          /\ Procs!Tables(c.asked)[Len(c.asked)] = {} => c.status = 127
       \/ c.at = "reaped"

ChildGood(c) ==
    \/ c = Procs!NotMade
    \/ /\ c = [at |-> c.at, handlers |-> c.handlers, index |-> c.index,
               prepared |-> c.prepared, ran |-> c.ran, held |-> c.held, fds |-> c.fds,
               todo |-> c.todo, status |-> c.status, asked |-> c.asked,
               spawned |-> c.spawned]
       /\ c.spawned \in BOOLEAN
       /\ IF c.spawned THEN Spawned(c) ELSE Forked(c)

ProcInv ==
    /\ registry \in Seq(Handlers) /\ Distinct(registry)
    /\ actions \in Seq(Actions)
    /\ DOMAIN forkTask = Threads /\ DOMAIN child = Children
    /\ \A t \in Threads : ForkGood(forkTask[t])
    /\ \A p \in Children : ChildGood(child[p])

LEMMA ProcInit == AtRest => ProcInv
<1> SUFFICES ASSUME AtRest PROVE ProcInv
  OBVIOUS
<1>1. Procs!Idle.at = "idle" /\ Distinct(<<>>)
  BY DEF Procs!Idle, Distinct
<1> QED BY <1>1 DEF AtRest, Procs!Init, ProcInv, ForkGood, ChildGood

(* pthread_atfork stores each triplet once.                                *)
LEMMA AppendedHandler ==
    ASSUME ProcInv, NEW h \in Handlers \ Procs!Range(registry),
           registry' = Append(registry, h)
    PROVE  registry' \in Seq(Handlers) /\ Distinct(registry')
<1>1. /\ registry' \in Seq(Handlers) /\ Len(registry') = Len(registry) + 1
      /\ registry'[Len(registry) + 1] = h
      /\ \A i \in 1 .. Len(registry) : registry'[i] = registry[i]
      /\ Len(registry) \in Nat
  BY DEF ProcInv
<1>2. DOMAIN registry' = 1 .. Len(registry) + 1 /\ DOMAIN registry = 1 .. Len(registry)
  BY <1>1 DEF ProcInv
<1>3. \A i \in 1 .. Len(registry) : registry[i] # h
  BY <1>2 DEF Procs!Range
<1>4. ASSUME NEW i \in DOMAIN registry', NEW j \in DOMAIN registry', i < j
      PROVE  registry'[i] # registry'[j]
  <2>1. i \in 1 .. Len(registry)
    BY <1>1, <1>2, <1>4
  <2>2. CASE j = Len(registry) + 1
    BY <1>1, <1>3, <2>1, <2>2
  <2>3. CASE j # Len(registry) + 1
    <3>1. j \in 1 .. Len(registry) /\ i # j
      BY <1>1, <1>2, <1>4, <2>3
    <3> QED BY <1>1, <1>2, <2>1, <3>1 DEF ProcInv, Distinct
  <2> QED BY <2>2, <2>3
<1>5. \A i, j \in DOMAIN registry' : i # j => i < j \/ j < i
  BY <1>1, <1>2
<1> QED BY <1>1, <1>4, <1>5 DEF Distinct

LEMMA CalledFacts ==
    ASSUME NEW s \in Seq(Handlers), NEW h \in Handlers, NEW role
    PROVE  /\ Procs!Called(s, h, role) \in Seq(Handlers)
           /\ DOMAIN s = 1 .. Len(s) /\ Len(s) \in Nat
           /\ role \notin Roles[h] => Procs!Called(s, h, role) = s
           /\ role \in Roles[h] =>
                /\ DOMAIN Procs!Called(s, h, role) = 1 .. Len(s) + 1
                /\ Procs!Called(s, h, role)[Len(s) + 1] = h
                /\ \A i \in 1 .. Len(s) : Procs!Called(s, h, role)[i] = s[i]
BY DEF Procs!Called

(* One more handler of the snapshot, from the last.                        *)
LEMMA BackwardStep ==
    ASSUME NEW h \in Seq(Handlers), Distinct(h), NEW n \in 1 .. Len(h),
           NEW s \in Seq(Handlers), Backward(h, n, s)
    PROVE  Backward(h, n - 1, Procs!Called(s, h[n], "prepare"))
<1>1. PICK r : r = Procs!Called(s, h[n], "prepare")
  OBVIOUS
<1>2. /\ DOMAIN s = 1 .. Len(s) /\ Len(s) \in Nat
      /\ DOMAIN h = 1 .. Len(h) /\ Len(h) \in Nat /\ n \in DOMAIN h /\ h[n] \in Handlers
      /\ \A a \in DOMAIN h : a \in Nat /\ (a > n - 1 <=> a = n \/ a > n)
  BY CalledFacts
<1>3. CASE "prepare" \notin Roles[h[n]]
  <2>1. r = s
    BY <1>1, <1>2, <1>3, CalledFacts
  <2>2. ASSUME NEW a \in DOMAIN h, a > n - 1, "prepare" \in Roles[h[a]] PROVE a > n
    BY <1>2, <1>3, <2>2
  <2>3. \A a \in DOMAIN h : a > n => a > n - 1
    BY <1>2
  <2> QED BY <1>1, <2>1, <2>2, <2>3 DEF Backward
<1>4. CASE "prepare" \in Roles[h[n]]
  <2>1. /\ DOMAIN r = 1 .. Len(s) + 1 /\ r[Len(s) + 1] = h[n]
        /\ \A i \in 1 .. Len(s) : r[i] = s[i]
    <3>1. PICK x \in Handlers : x = h[n]
      BY <1>2
    <3> QED BY <1>1, <1>4, <3>1, CalledFacts
  <2>2. \A i \in DOMAIN r : i = Len(s) + 1 \/ i \in DOMAIN s
    BY <1>2, <2>1
  <2>3. \A i \in DOMAIN r : \E a \in DOMAIN h :
           a > n - 1 /\ r[i] = h[a] /\ "prepare" \in Roles[h[a]]
    BY <1>2, <1>4, <2>1, <2>2 DEF Backward
  <2>4. \A a \in DOMAIN h :
          a > n - 1 /\ "prepare" \in Roles[h[a]] => \E i \in DOMAIN r : r[i] = h[a]
    <3>1. Len(s) + 1 \in DOMAIN r /\ DOMAIN s \subseteq DOMAIN r
      BY <1>2, <2>1
    <3> QED BY <1>2, <1>4, <2>1, <3>1 DEF Backward
  <2>5. ASSUME NEW i \in DOMAIN r, NEW j \in DOMAIN r, NEW a \in DOMAIN h, NEW b \in DOMAIN h,
               i < j, r[i] = h[a], r[j] = h[b]
        PROVE  b < a
    <3>1. i \in DOMAIN s /\ r[i] = s[i]
      BY <1>2, <2>1, <2>5
    <3>2. CASE j \in DOMAIN s
      BY <1>2, <2>1, <2>5, <3>1, <3>2 DEF Backward
    <3>3. CASE j = Len(s) + 1
      <4>1. b = n
        BY <1>2, <2>1, <2>5, <3>3 DEF Distinct
      <4>2. PICK c \in DOMAIN h : c > n /\ s[i] = h[c]
        BY <3>1 DEF Backward
      <4>3. a = c
        BY <2>5, <3>1, <4>2 DEF Distinct
      <4> QED BY <1>2, <4>1, <4>2, <4>3
    <3> QED BY <2>2, <3>2, <3>3
  <2> QED BY <1>1, <2>3, <2>4, <2>5 DEF Backward
<1> QED BY <1>3, <1>4

(* And from the first.                                                     *)
LEMMA ForwardStep ==
    ASSUME NEW h \in Seq(Handlers), Distinct(h), NEW n \in 0 .. Len(h) - 1,
           NEW s \in Seq(Handlers), NEW role, Forward(h, n, s, role)
    PROVE  Forward(h, n + 1, Procs!Called(s, h[n + 1], role), role)
<1>1. PICK r : r = Procs!Called(s, h[n + 1], role)
  OBVIOUS
<1>2. /\ DOMAIN s = 1 .. Len(s) /\ Len(s) \in Nat
      /\ DOMAIN h = 1 .. Len(h) /\ Len(h) \in Nat /\ n \in Nat /\ n + 1 \in DOMAIN h
      /\ 1 .. n + 1 = {n + 1} \cup (1 .. n) /\ h[n + 1] \in Handlers
  BY CalledFacts
<1>3. CASE role \notin Roles[h[n + 1]]
  <2>1. r = s
    BY <1>1, <1>2, <1>3, CalledFacts
  <2> QED BY <1>1, <1>2, <1>3, <2>1 DEF Forward
<1>4. CASE role \in Roles[h[n + 1]]
  <2>1. /\ DOMAIN r = 1 .. Len(s) + 1 /\ r[Len(s) + 1] = h[n + 1]
        /\ \A i \in 1 .. Len(s) : r[i] = s[i]
    BY <1>1, <1>2, <1>4, CalledFacts
  <2>2. \A i \in DOMAIN r : i = Len(s) + 1 \/ i \in DOMAIN s
    BY <1>2, <2>1
  <2>3. \A i \in DOMAIN r : \E a \in 1 .. n + 1 : r[i] = h[a] /\ role \in Roles[h[a]]
    BY <1>2, <1>4, <2>1, <2>2 DEF Forward
  <2>4. \A a \in 1 .. n + 1 : role \in Roles[h[a]] => \E i \in DOMAIN r : r[i] = h[a]
    <3>1. Len(s) + 1 \in DOMAIN r /\ DOMAIN s \subseteq DOMAIN r
      BY <1>2, <2>1
    <3> QED BY <1>2, <1>4, <2>1, <3>1 DEF Forward
  <2>5. ASSUME NEW i \in DOMAIN r, NEW j \in DOMAIN r, NEW a \in DOMAIN h, NEW b \in DOMAIN h,
               i < j, r[i] = h[a], r[j] = h[b]
        PROVE  a < b
    <3>1. i \in DOMAIN s /\ r[i] = s[i]
      BY <1>2, <2>1, <2>5
    <3>2. CASE j \in DOMAIN s
      BY <1>2, <2>1, <2>5, <3>1, <3>2 DEF Forward
    <3>3. CASE j = Len(s) + 1
      <4>1. b = n + 1
        BY <1>2, <2>1, <2>5, <3>3 DEF Distinct
      <4>2. PICK c \in 1 .. n : s[i] = h[c]
        BY <3>1 DEF Forward
      <4>3. c \in DOMAIN h /\ c < n + 1
        BY <1>2, <4>2
      <4>4. a = c
        BY <2>5, <3>1, <4>2, <4>3 DEF Distinct
      <4> QED BY <1>2, <4>1, <4>3, <4>4
    <3> QED BY <2>2, <3>2, <3>3
  <2> QED BY <1>1, <2>3, <2>4, <2>5 DEF Forward
<1> QED BY <1>3, <1>4

LEMMA TaskStep ==
    ASSUME ProcInv, registry' \in Seq(Handlers), Distinct(registry'), actions' \in Seq(Actions),
           UNCHANGED child, NEW t \in Threads, DOMAIN forkTask' = Threads,
           \A u \in Threads : u # t => forkTask'[u] = forkTask[u], ForkGood(forkTask'[t])
    PROVE  ProcInv'
<1>1. \A u \in Threads : ForkGood(forkTask'[u])
  BY DEF ProcInv
<1> QED BY <1>1 DEF ProcInv

LEMMA ChildStep ==
    ASSUME ProcInv, UNCHANGED <<registry, actions, forkTask>>, NEW p \in Children,
           DOMAIN child' = Children, \A q \in Children : q # p => child'[q] = child[q],
           ChildGood(child'[p])
    PROVE  ProcInv'
<1>1. \A q \in Children : ChildGood(child'[q])
  BY DEF ProcInv
<1> QED BY <1>1 DEF ProcInv

LEMMA ProcStays == ASSUME ProcInv, UNCHANGED forkVars PROVE ProcInv'
BY DEF ProcInv, forkVars

(* Steps of a thread that is not in a fork and makes no process.           *)
LEMMA OtherStep ==
    ASSUME ProcInv, NEW t \in Threads,
           \/ \E l \in Locks : Procs!Take(t, l)
           \/ Procs!Leave(t) \/ Procs!Atfork(t) \/ Procs!AtforkStore(t)
           \/ Procs!Fork(t) \/ Procs!ForkReturn(t)
           \/ \E a \in Actions : Procs!AddAction(t, a)
           \/ Procs!InitActions(t)
    PROVE  ProcInv'
<1>1. ForkGood(Procs!Idle) /\ ForkGood([at |-> "registering"])
      /\ \A l : ForkGood([at |-> "inside", lock |-> l])
  BY DEF ForkGood, Procs!Idle
<1>2. registry \in Seq(Handlers) /\ Distinct(registry) /\ actions \in Seq(Actions)
      /\ DOMAIN forkTask = Threads /\ ForkGood(forkTask[t])
  BY DEF ProcInv
<1>3. ASSUME NEW l \in Locks, Procs!Take(t, l) PROVE ProcInv'
  BY <1>1, <1>2, <1>3, TaskStep DEF Procs!Take
<1>4. ASSUME Procs!Leave(t) PROVE ProcInv'
  BY <1>1, <1>2, <1>4, TaskStep DEF Procs!Leave
<1>5. ASSUME Procs!Atfork(t) PROVE ProcInv'
  BY <1>1, <1>2, <1>5, TaskStep DEF Procs!Atfork
<1>6. ASSUME Procs!AtforkStore(t) PROVE ProcInv'
  <2>1. registry' \in Seq(Handlers) /\ Distinct(registry')
    BY <1>2, <1>6, AppendedHandler DEF Procs!AtforkStore
  <2> QED BY <1>1, <1>2, <1>6, <2>1, TaskStep DEF Procs!AtforkStore
<1>7. ASSUME Procs!Fork(t) PROVE ProcInv'
  <2>1. PICK w : w = [at |-> "prepare", handlers |-> registry, index |-> Len(registry),
                      prepared |-> <<>>, ran |-> <<>>]
    OBVIOUS
  <2>2. Walk(w)
    BY <1>2, <2>1 DEF Walk
  <2>3. Backward(w.handlers, w.index, w.prepared)
    <3>1. DOMAIN registry = 1 .. Len(registry) /\ Len(registry) \in Nat
      BY <1>2
    <3>2. \A a \in DOMAIN registry : ~(a > Len(registry))
      BY <3>1
    <3>3. DOMAIN w.prepared = {}
      BY <2>1
    <3> QED BY <2>1, <3>2, <3>3 DEF Backward
  <2>4. ForkGood(w)
    BY <2>1, <2>2, <2>3 DEF ForkGood
  <2> QED BY <1>2, <1>7, <2>1, <2>4, TaskStep DEF Procs!Fork
<1>8. ASSUME Procs!ForkReturn(t) PROVE ProcInv'
  BY <1>1, <1>2, <1>8, TaskStep DEF Procs!ForkReturn
<1>9. ASSUME NEW a \in Actions, Procs!AddAction(t, a) PROVE ProcInv'
  BY <1>2, <1>9, TaskStep DEF Procs!AddAction
<1>10. ASSUME Procs!InitActions(t) PROVE ProcInv'
  BY <1>2, <1>10, TaskStep DEF Procs!InitActions
<1> QED BY <1>3, <1>4, <1>5, <1>6, <1>7, <1>8, <1>9, <1>10

LEMMA PrepareStep ==
    ASSUME ProcInv, NEW t \in Threads, NEW registers \in BOOLEAN, Procs!Prepare(t, registers)
    PROVE  ProcInv'
<1>1. PICK w : w = forkTask[t]
  OBVIOUS
<1>2. /\ w = [at |-> "prepare", handlers |-> w.handlers, index |-> w.index,
              prepared |-> w.prepared, ran |-> <<>>]
      /\ Walk(w) /\ Backward(w.handlers, w.index, w.prepared) /\ w.index > 0
  BY <1>1 DEF ProcInv, ForkGood, Procs!Prepare
<1>3. w.index \in 1 .. Len(w.handlers) /\ w.handlers[w.index] \in Handlers /\ w.index - 1 \in Nat
      /\ w.index - 1 \in 0 .. Len(w.handlers)
  BY <1>2 DEF Walk
<1>4. PICK s : s = Procs!Called(w.prepared, w.handlers[w.index], "prepare")
  OBVIOUS
<1>5. s \in Seq(Handlers)
  BY <1>2, <1>3, <1>4, CalledFacts DEF Walk
<1>6. PICK v : v = [at |-> "prepare", handlers |-> w.handlers, index |-> w.index - 1,
                    prepared |-> s, ran |-> <<>>]
  OBVIOUS
<1>7. Walk(v)
  BY <1>2, <1>3, <1>5, <1>6 DEF Walk
<1>8. Backward(v.handlers, v.index, v.prepared)
  BY <1>2, <1>3, <1>4, <1>6, BackwardStep DEF Walk
<1>9. ForkGood(v)
  BY <1>6, <1>7, <1>8 DEF ForkGood
<1>10. /\ DOMAIN forkTask' = Threads /\ forkTask'[t] = v
       /\ \A u \in Threads : u # t => forkTask'[u] = forkTask[u]
  <2>1. forkTask' = [forkTask EXCEPT ![t].index = w.index - 1, ![t].prepared = s]
    BY <1>1, <1>4 DEF Procs!Prepare
  <2>2. /\ DOMAIN forkTask' = Threads
        /\ forkTask'[t] = [w EXCEPT !.index = w.index - 1, !.prepared = s]
        /\ \A u \in Threads : u # t => forkTask'[u] = forkTask[u]
    BY <1>1, <2>1 DEF ProcInv
  <2>3. PICK n : n = w.index - 1
    OBVIOUS
  <2>4. [w EXCEPT !.index = n, !.prepared = s] =
          [at |-> "prepare", handlers |-> w.handlers, index |-> n, prepared |-> s, ran |-> <<>>]
    <3>1. w = [at |-> "prepare", handlers |-> w.handlers, index |-> w.index,
               prepared |-> w.prepared, ran |-> <<>>]
      BY <1>2
    <3>2. PICK x : x = [w EXCEPT !.index = n]
      OBVIOUS
    <3>3. x = [at |-> "prepare", handlers |-> w.handlers, index |-> n,
               prepared |-> w.prepared, ran |-> <<>>]
      BY <3>1, <3>2
    <3>4. [x EXCEPT !.prepared = s] =
            [at |-> "prepare", handlers |-> w.handlers, index |-> n, prepared |-> s, ran |-> <<>>]
      BY <3>3
    <3>5. [w EXCEPT !.index = n, !.prepared = s] = [x EXCEPT !.prepared = s]
      BY <3>2
    <3> QED BY <3>4, <3>5
  <2> QED BY <1>6, <2>2, <2>3, <2>4
<1>11. registry' \in Seq(Handlers) /\ Distinct(registry')
  BY AppendedHandler DEF ProcInv, Procs!Prepare
<1> QED BY <1>9, <1>10, <1>11, TaskStep DEF ProcInv, Procs!Prepare

LEMMA ParentStep ==
    ASSUME ProcInv, NEW t \in Threads, Procs!Parent(t)
    PROVE  ProcInv'
<1>1. PICK w : w = forkTask[t]
  OBVIOUS
<1>2. /\ w = [at |-> "parent", handlers |-> w.handlers, index |-> w.index,
              prepared |-> w.prepared, ran |-> w.ran]
      /\ Walk(w) /\ Backward(w.handlers, 0, w.prepared)
      /\ Forward(w.handlers, w.index, w.ran, "parent")
      /\ w.index < Len(w.handlers)
  BY <1>1 DEF ProcInv, ForkGood, Procs!Parent
<1>3. w.index \in 0 .. Len(w.handlers) - 1 /\ w.handlers[w.index + 1] \in Handlers
      /\ w.index + 1 \in 0 .. Len(w.handlers)
  BY <1>2 DEF Walk
<1>4. PICK s : s = Procs!Called(w.ran, w.handlers[w.index + 1], "parent")
  OBVIOUS
<1>5. s \in Seq(Handlers)
  BY <1>2, <1>3, <1>4, CalledFacts DEF Walk
<1>6. PICK v : v = [at |-> "parent", handlers |-> w.handlers, index |-> w.index + 1,
                    prepared |-> w.prepared, ran |-> s]
  OBVIOUS
<1>7. Walk(v)
  BY <1>2, <1>3, <1>5, <1>6 DEF Walk
<1>8. Forward(v.handlers, v.index, v.ran, "parent")
  BY <1>2, <1>3, <1>4, <1>6, ForwardStep DEF Walk
<1>9. ForkGood(v)
  BY <1>2, <1>6, <1>7, <1>8 DEF ForkGood
<1>10. /\ DOMAIN forkTask' = Threads /\ forkTask'[t] = v
       /\ \A u \in Threads : u # t => forkTask'[u] = forkTask[u]
  BY <1>1, <1>2, <1>4, <1>6 DEF ProcInv, Procs!Parent
<1> QED BY <1>9, <1>10, TaskStep DEF ProcInv, Procs!Parent

(* The child starts its walk where the parent does.                        *)
LEMMA SysForkStep ==
    ASSUME ProcInv, NEW t \in Threads, Procs!SysFork(t)
    PROVE  ProcInv'
<1>1. PICK w : w = forkTask[t]
  OBVIOUS
<1>2. /\ w = [at |-> "prepare", handlers |-> w.handlers, index |-> 0,
              prepared |-> w.prepared, ran |-> <<>>]
      /\ Walk(w) /\ Backward(w.handlers, 0, w.prepared)
  BY <1>1 DEF ProcInv, ForkGood, Procs!SysFork
<1>3. \A role : Forward(w.handlers, 0, <<>>, role)
  BY DEF Forward
<1>4. PICK v : v = [at |-> "parent", handlers |-> w.handlers, index |-> 0,
                    prepared |-> w.prepared, ran |-> <<>>]
  OBVIOUS
<1>5. Walk(v)
  BY <1>2, <1>4 DEF Walk
<1>6. ForkGood(v)
  BY <1>2, <1>3, <1>4, <1>5 DEF ForkGood
<1>7. /\ DOMAIN forkTask' = Threads /\ forkTask'[t] = v
      /\ \A u \in Threads : u # t => forkTask'[u] = forkTask[u]
  BY <1>1, <1>2, <1>4 DEF ProcInv, Procs!SysFork
<1>8. DOMAIN child' = Children /\ \A p \in Children : ChildGood(child'[p])
  <2>1. CASE UNCHANGED child
    BY <2>1 DEF ProcInv
  <2>2. ASSUME NEW p \in Children,
               child' = [child EXCEPT ![p] =
                 [Procs!Copy(t, "handlers") EXCEPT !.handlers = forkTask[t].handlers,
                                                   !.prepared = forkTask[t].prepared]]
        PROVE  DOMAIN child' = Children /\ \A q \in Children : ChildGood(child'[q])
    <3>1. PICK c : c = [Procs!Copy(t, "handlers") EXCEPT !.handlers = w.handlers,
                                                         !.prepared = w.prepared]
      OBVIOUS
    <3>2. c = [at |-> "handlers", handlers |-> w.handlers, index |-> 0,
               prepared |-> w.prepared, ran |-> <<>>, held |-> c.held, fds |-> c.fds,
               todo |-> c.todo, status |-> c.status, asked |-> c.asked, spawned |-> FALSE]
      BY <3>1 DEF Procs!Copy
    <3>3. Walk(c)
      BY <1>2, <3>2 DEF Walk
    <3>4. Forked(c)
      BY <1>2, <1>3, <3>2, <3>3 DEF Forked
    <3>5. ChildGood(c)
      <4>1. c.spawned = FALSE
        BY <3>2
      <4>2. c = [at |-> c.at, handlers |-> c.handlers, index |-> c.index,
                 prepared |-> c.prepared, ran |-> c.ran, held |-> c.held, fds |-> c.fds,
                 todo |-> c.todo, status |-> c.status, asked |-> c.asked,
                 spawned |-> c.spawned]
        BY <3>2
      <4> QED BY <3>4, <4>1, <4>2 DEF ChildGood
    <3> QED BY <1>1, <2>2, <3>1, <3>5 DEF ProcInv
  <2> QED BY <2>1, <2>2 DEF Procs!SysFork
<1>9. ForkGood(forkTask'[t]) /\ UNCHANGED <<registry, actions>>
  BY <1>6, <1>7 DEF Procs!SysFork
<1>10. \A u \in Threads : ForkGood(forkTask'[u])
  BY <1>7, <1>9 DEF ProcInv
<1> QED BY <1>7, <1>8, <1>9, <1>10 DEF ProcInv

(* The fields of a process, by which its steps replace some of them.       *)
Made(c) ==
    /\ c = [at |-> c.at, handlers |-> c.handlers, index |-> c.index,
            prepared |-> c.prepared, ran |-> c.ran, held |-> c.held, fds |-> c.fds,
            todo |-> c.todo, status |-> c.status, asked |-> c.asked,
            spawned |-> c.spawned]
    /\ c.spawned \in BOOLEAN

LEMMA MadeChild ==
    ASSUME ProcInv, NEW p \in Children,
           child[p].at \in {"handlers", "program", "spawn", "image", "exited"}
    PROVE  /\ Made(child[p])
           /\ IF child[p].spawned THEN Spawned(child[p]) ELSE Forked(child[p])
<1>1. Procs!NotMade.at = "none"
  BY DEF Procs!NotMade
<1>2. child[p] # Procs!NotMade
  BY <1>1
<1> QED BY <1>2 DEF ProcInv, ChildGood, Made

LEMMA MadeGood ==
    ASSUME NEW c, Made(c), IF c.spawned THEN Spawned(c) ELSE Forked(c)
    PROVE  ChildGood(c)
BY DEF ChildGood, Made

LEMMA ChildHandlerStep ==
    ASSUME ProcInv, NEW p \in Children, Procs!ChildHandler(p)
    PROVE  ProcInv'
<1>1. PICK c : c = child[p]
  OBVIOUS
<1>2. Made(c) /\ c.at = "handlers" /\ Forked(c) /\ ~c.spawned /\ c.index < Len(c.handlers)
  BY <1>1, MadeChild DEF Procs!ChildHandler, Spawned
<1>3. c.index \in 0 .. Len(c.handlers) - 1 /\ c.handlers[c.index + 1] \in Handlers
      /\ c.index + 1 \in 0 .. Len(c.handlers)
  BY <1>2 DEF Forked, Walk
<1>4. PICK s, n : s = Procs!Called(c.ran, c.handlers[c.index + 1], "child") /\ n = c.index + 1
  OBVIOUS
<1>5. s \in Seq(Handlers)
  BY <1>2, <1>3, <1>4, CalledFacts DEF Forked, Walk
<1>6. PICK d : d = [c EXCEPT !.index = n, !.ran = s]
  OBVIOUS
<1>7. d = [at |-> "handlers", handlers |-> c.handlers, index |-> n,
           prepared |-> c.prepared, ran |-> s, held |-> c.held, fds |-> c.fds,
           todo |-> c.todo, status |-> c.status, asked |-> c.asked, spawned |-> FALSE]
  BY <1>2, <1>6 DEF Made
<1>8. Walk(d)
  BY <1>2, <1>3, <1>4, <1>5, <1>7 DEF Forked, Walk
<1>9. Forward(d.handlers, d.index, d.ran, "child")
  BY <1>2, <1>3, <1>4, <1>7, ForwardStep DEF Forked, Walk
<1>10. Backward(d.handlers, 0, d.prepared)
  BY <1>2, <1>7 DEF Forked
<1>11. Forked(d)
  BY <1>7, <1>8, <1>9, <1>10 DEF Forked
<1>12. Made(d)
  BY <1>7 DEF Made
<1>13. ChildGood(d)
  BY <1>7, <1>11, <1>12, MadeGood
<1>14. child' = [child EXCEPT ![p].index = n, ![p].ran = s]
  BY <1>1, <1>4 DEF Procs!ChildHandler
<1>15. child'[p] = d /\ DOMAIN child' = Children
       /\ \A q \in Children : q # p => child'[q] = child[q]
  BY <1>1, <1>6, <1>14 DEF ProcInv
<1> QED BY <1>13, <1>15, ChildStep DEF Procs!ChildHandler

(* Steps after which a process is somewhere else and all else is the same. *)
LEMMA MovedChild ==
    ASSUME NEW c, Made(c), NEW at
    PROVE  /\ Made([c EXCEPT !.at = at])
           /\ [c EXCEPT !.at = at] =
                [at |-> at, handlers |-> c.handlers, index |-> c.index,
                 prepared |-> c.prepared, ran |-> c.ran, held |-> c.held, fds |-> c.fds,
                 todo |-> c.todo, status |-> c.status, asked |-> c.asked,
                 spawned |-> c.spawned]
BY DEF Made

LEMMA MoveStep ==
    ASSUME ProcInv, NEW p \in Children,
           \/ Procs!ChildReturn(p) \/ Procs!ChildEnds(p)
           \/ \E t \in Threads : Procs!Waitpid(t, p)
    PROVE  ProcInv'
<1>1. PICK c : c = child[p]
  OBVIOUS
<1>2. PICK at : /\ child' = [child EXCEPT ![p].at = at]
                /\ UNCHANGED <<registry, actions, forkTask>>
                /\ \/ c.at = "handlers" /\ c.index = Len(c.handlers) /\ at = "program"
                   \/ c.at = "program" /\ at = "exited"
                   \/ c.at = "exited" /\ at = "reaped"
  BY <1>1 DEF Procs!ChildReturn, Procs!ChildEnds, Procs!Waitpid
<1>3. Made(c) /\ IF c.spawned THEN Spawned(c) ELSE Forked(c)
  BY <1>1, <1>2, MadeChild
<1>4. PICK d : d = [c EXCEPT !.at = at]
  OBVIOUS
<1>5. /\ Made(d)
      /\ d = [at |-> at, handlers |-> c.handlers, index |-> c.index,
              prepared |-> c.prepared, ran |-> c.ran, held |-> c.held, fds |-> c.fds,
              todo |-> c.todo, status |-> c.status, asked |-> c.asked,
              spawned |-> c.spawned]
  BY <1>3, <1>4, MovedChild
<1>6. ASSUME c.spawned PROVE ChildGood(d)
  <2>1. d.at = "reaped" /\ d.spawned
    BY <1>2, <1>3, <1>5, <1>6 DEF Spawned
  <2>2. Spawned(d)
    BY <1>3, <1>5, <1>6, <2>1 DEF Spawned
  <2>3. Made(d)
    BY <1>5
  <2>4. IF d.spawned THEN Spawned(d) ELSE Forked(d)
    BY <2>1, <2>2
  <2> QED BY <2>3, <2>4, MadeGood
<1>7. ASSUME ~c.spawned PROVE ChildGood(d)
  <2>1. Walk(d)
    BY <1>3, <1>5, <1>7 DEF Forked, Walk
  <2>2. Forked(d)
    BY <1>2, <1>3, <1>5, <1>7, <2>1 DEF Forked
  <2>3. Made(d) /\ ~d.spawned
    BY <1>5, <1>7
  <2>4. IF d.spawned THEN Spawned(d) ELSE Forked(d)
    BY <2>2, <2>3
  <2> QED BY <2>3, <2>4, MadeGood
<1>8. child'[p] = d /\ DOMAIN child' = Children
       /\ \A q \in Children : q # p => child'[q] = child[q]
  BY <1>1, <1>2, <1>4 DEF ProcInv
<1> QED BY <1>2, <1>6, <1>7, <1>8, ChildStep

LEMMA RawForkStep ==
    ASSUME ProcInv, NEW t \in Threads, Procs!RawFork(t)
    PROVE  ProcInv'
<1>1. PICK p \in Children : child' = [child EXCEPT ![p] = Procs!Copy(t, "program")]
  BY DEF Procs!RawFork
<1>2. PICK c : c = Procs!Copy(t, "program")
  OBVIOUS
<1>3. c = [at |-> "program", handlers |-> <<>>, index |-> 0, prepared |-> <<>>,
           ran |-> <<>>, held |-> c.held, fds |-> c.fds, todo |-> c.todo,
           status |-> c.status, asked |-> c.asked, spawned |-> FALSE]
  BY <1>2 DEF Procs!Copy
<1>4. Walk(c)
  <2>1. Distinct(<<>>)
    BY DEF Distinct
  <2>2. /\ c.handlers = <<>> /\ c.index = 0 /\ c.prepared = <<>> /\ c.ran = <<>>
    BY <1>3
  <2>3. <<>> \in Seq(Handlers) /\ Len(<<>>) = 0
    OBVIOUS
  <2> QED BY <2>1, <2>2, <2>3 DEF Walk
<1>5. Forked(c)
  BY <1>3, <1>4 DEF Forked, Backward, Forward
<1>6. Made(c) /\ ~c.spawned
  <2>1. ~c.spawned /\ c.spawned = FALSE
    BY <1>3
  <2>2. c = [at |-> c.at, handlers |-> c.handlers, index |-> c.index,
             prepared |-> c.prepared, ran |-> c.ran, held |-> c.held, fds |-> c.fds,
             todo |-> c.todo, status |-> c.status, asked |-> c.asked,
             spawned |-> c.spawned]
    BY <1>3
  <2> QED BY <2>1, <2>2 DEF Made
<1>7. ChildGood(c)
  BY <1>5, <1>6, MadeGood
<1> QED BY <1>1, <1>2, <1>7, ChildStep DEF ProcInv, Procs!RawFork

LEMMA SpawnStep ==
    ASSUME ProcInv, NEW t \in Threads, Procs!Spawn(t)
    PROVE  ProcInv'
<1>1. PICK p \in Children :
        child' = [child EXCEPT ![p] =
          [Procs!Copy(t, "spawn") EXCEPT !.spawned = TRUE, !.asked = actions, !.todo = actions]]
  BY DEF Procs!Spawn
<1>2. PICK c : c = [Procs!Copy(t, "spawn") EXCEPT !.spawned = TRUE, !.asked = actions,
                                                  !.todo = actions]
  OBVIOUS
<1>3. c = [at |-> "spawn", handlers |-> c.handlers, index |-> c.index,
           prepared |-> c.prepared, ran |-> c.ran, held |-> c.held, fds |-> Table,
           todo |-> actions, status |-> c.status, asked |-> actions, spawned |-> TRUE]
  BY <1>2 DEF Procs!Copy
<1>4. Made(c) /\ c.spawned
  <2>1. c.spawned = TRUE
    BY <1>3
  <2>2. c = [at |-> c.at, handlers |-> c.handlers, index |-> c.index,
             prepared |-> c.prepared, ran |-> c.ran, held |-> c.held, fds |-> c.fds,
             todo |-> c.todo, status |-> c.status, asked |-> c.asked,
             spawned |-> c.spawned]
    BY <1>3
  <2> QED BY <2>1, <2>2 DEF Made
<1>5. actions \in Seq(Actions) /\ Len(actions) \in Nat
  BY DEF ProcInv
<1>6. Spawned(c)
  <2>1. c.at = "spawn" /\ c.todo = actions /\ c.asked = actions /\ c.fds = Table
    BY <1>3
  <2>2. Procs!Tables(c.asked)[0] = {c.fds}
    BY <1>5, <2>1, TablesFacts
  <2>3. 0 \in 0 .. Len(c.asked) /\ Len(c.todo) = Len(c.asked) - 0
        /\ \A i \in 1 .. Len(c.todo) : c.todo[i] = c.asked[0 + i]
    BY <1>5, <2>1
  <2> QED BY <1>5, <2>1, <2>2, <2>3 DEF Spawned
<1>7. ChildGood(c)
  BY <1>4, <1>6, MadeGood
<1> QED BY <1>1, <1>2, <1>7, ChildStep DEF ProcInv, Procs!Spawn

(* A process that posix_spawn made and that exits with a status.           *)
LEMMA ExitedStep ==
    ASSUME ProcInv, NEW p \in Children, NEW status, Made(child[p]), Spawned(child[p]),
           child[p].spawned, UNCHANGED <<registry, actions, forkTask>>,
           Procs!Exited(p, status),
           Procs!Tables(child[p].asked)[Len(child[p].asked)] = {} => status = 127
    PROVE  ProcInv'
<1>1. PICK c : c = child[p]
  OBVIOUS
<1>2. PICK d : d = [c EXCEPT !.at = "exited", !.status = status]
  OBVIOUS
<1>3. d = [at |-> "exited", handlers |-> c.handlers, index |-> c.index,
           prepared |-> c.prepared, ran |-> c.ran, held |-> c.held, fds |-> c.fds,
           todo |-> c.todo, status |-> status, asked |-> c.asked, spawned |-> c.spawned]
  BY <1>1, <1>2 DEF Made
<1>4. Made(d)
  BY <1>1, <1>3 DEF Made
<1>5. d.spawned /\ Spawned(d)
  BY <1>1, <1>3 DEF Spawned
<1>6. ChildGood(d)
  BY <1>4, <1>5, MadeGood
<1>7. child'[p] = d /\ DOMAIN child' = Children
      /\ \A q \in Children : q # p => child'[q] = child[q]
  BY <1>1, <1>2 DEF ProcInv, Procs!Exited
<1> QED BY <1>6, <1>7, ChildStep

(* A file action of spawn_child is one more of the list, or ends the child.*)
LEMMA SpawnActionStep ==
    ASSUME ProcInv, NEW p \in Children, Procs!SpawnAction(p)
    PROVE  ProcInv'
<1>1. PICK c : c = child[p]
  OBVIOUS
<1>2. Made(c) /\ c.at = "spawn" /\ c.spawned /\ Spawned(c) /\ c.todo # <<>>
  BY <1>1, MadeChild DEF Procs!SpawnAction, Forked
<1>3. PICK k \in 0 .. Len(c.asked) :
        /\ Len(c.todo) = Len(c.asked) - k
        /\ \A i \in 1 .. Len(c.todo) : c.todo[i] = c.asked[k + i]
        /\ Procs!Tables(c.asked)[k] = {c.fds}
  BY <1>2 DEF Spawned
<1>4. /\ c.todo \in Seq(Actions) /\ c.asked \in Seq(Actions)
      /\ Len(c.todo) \in Nat \ {0} /\ Len(c.asked) \in Nat
  BY <1>2 DEF Spawned
<1>5. PICK a : a = c.todo[1]
  OBVIOUS
<1>6. k + 1 \in 1 .. Len(c.asked) /\ (k + 1) - 1 = k /\ a = c.asked[k + 1]
  BY <1>3, <1>4, <1>5
<1>7. Procs!Tables(c.asked)[k + 1] =
        {Procs!Performed(f, a) : f \in {g \in {c.fds} : g[a.fd] # Procs!NoFile}}
  <2>1. PICK m \in 1 .. Len(c.asked) : m = k + 1 /\ m - 1 = k /\ a = c.asked[m]
    BY <1>6
  <2>2. Procs!Tables(c.asked)[m] =
          {Procs!Performed(f, c.asked[m]) :
             f \in {g \in Procs!Tables(c.asked)[m - 1] : g[c.asked[m].fd] # Procs!NoFile}}
    BY <1>4, TablesFacts
  <2> QED BY <1>3, <2>1, <2>2
<1>8. CASE c.fds[a.fd] = Procs!NoFile
  BY <1>1, <1>2, <1>5, <1>8, ExitedStep DEF Procs!SpawnAction
<1>9. CASE c.fds[a.fd] # Procs!NoFile
  <2>1. PICK f, r : f = Procs!Performed(c.fds, a) /\ r = Tail(c.todo)
    OBVIOUS
  <2>2. PICK d : d = [c EXCEPT !.fds = f, !.todo = r]
    OBVIOUS
  <2>3. d = [at |-> "spawn", handlers |-> c.handlers, index |-> c.index,
             prepared |-> c.prepared, ran |-> c.ran, held |-> c.held, fds |-> f,
             todo |-> r, status |-> c.status, asked |-> c.asked, spawned |-> c.spawned]
    BY <1>2, <2>2 DEF Made
  <2>4. Made(d)
    BY <1>2, <2>3 DEF Made
  <2>5. /\ d.at = "spawn" /\ d.fds = f /\ d.todo = r /\ d.asked = c.asked
        /\ d.spawned = c.spawned
    BY <2>3
  <2>6. /\ r \in Seq(Actions) /\ Len(r) = Len(c.todo) - 1
        /\ \A i \in 1 .. Len(r) : r[i] = c.todo[i + 1] /\ i + 1 \in 1 .. Len(c.todo)
    BY <1>4, <2>1
  <2>7. Procs!Tables(c.asked)[k + 1] = {f}
    BY <1>7, <1>9, <2>1
  <2>8. k + 1 \in 0 .. Len(c.asked) /\ Len(r) = Len(c.asked) - (k + 1)
    BY <1>3, <1>4, <1>6, <2>6
  <2>9. \A i \in 1 .. Len(r) : r[i] = c.asked[(k + 1) + i]
    <3>1. \A i \in 1 .. Len(r) : k + (i + 1) = (k + 1) + i
      BY <1>6, <2>6
    <3> QED BY <1>3, <2>6, <3>1
  <2>10. Spawned(d)
    BY <1>4, <2>5, <2>6, <2>7, <2>8, <2>9 DEF Spawned
  <2>11. ChildGood(d)
    BY <1>2, <2>4, <2>5, <2>10, MadeGood
  <2>12. child' = [child EXCEPT ![p].fds = f, ![p].todo = r]
    BY <1>1, <1>5, <1>9, <2>1 DEF Procs!SpawnAction
  <2>13. child'[p] = d /\ DOMAIN child' = Children
         /\ \A q \in Children : q # p => child'[q] = child[q]
    BY <1>1, <2>2, <2>12 DEF ProcInv
  <2> QED BY <2>11, <2>13, ChildStep DEF Procs!SpawnAction
<1> QED BY <1>8, <1>9

LEMMA SpawnExecStep ==
    ASSUME ProcInv, NEW p \in Children, Procs!SpawnExec(p)
    PROVE  ProcInv'
<1>1. PICK c : c = child[p]
  OBVIOUS
<1>2. Made(c) /\ c.at = "spawn" /\ c.spawned /\ Spawned(c) /\ c.todo = <<>>
  BY <1>1, MadeChild DEF Procs!SpawnExec, Forked
<1>3. Procs!Tables(c.asked)[Len(c.asked)] = {c.fds}
  <2>1. PICK k \in 0 .. Len(c.asked) :
          Len(c.todo) = Len(c.asked) - k /\ Procs!Tables(c.asked)[k] = {c.fds}
    BY <1>2 DEF Spawned
  <2>2. Len(c.todo) = 0 /\ Len(c.asked) \in Nat
    BY <1>2 DEF Spawned
  <2>3. k = Len(c.asked)
    BY <2>1, <2>2
  <2> QED BY <2>1, <2>3
<1>4. CASE Procs!Exited(p, 127)
  BY <1>1, <1>2, <1>4, ExitedStep DEF Procs!SpawnExec
<1>5. CASE child' = [child EXCEPT ![p].at = "image", ![p].fds = Procs!Image(@)]
  <2>1. PICK f : f = Procs!Image(c.fds)
    OBVIOUS
  <2>2. PICK d : d = [c EXCEPT !.at = "image", !.fds = f]
    OBVIOUS
  <2>3. d = [at |-> "image", handlers |-> c.handlers, index |-> c.index,
             prepared |-> c.prepared, ran |-> c.ran, held |-> c.held, fds |-> f,
             todo |-> c.todo, status |-> c.status, asked |-> c.asked, spawned |-> c.spawned]
    BY <1>2, <2>2 DEF Made
  <2>4. Made(d)
    BY <1>2, <2>3 DEF Made
  <2>5. /\ d.at = "image" /\ d.fds = f /\ d.asked = c.asked /\ d.todo = c.todo
        /\ d.spawned = c.spawned
    BY <2>3
  <2>6. Spawned(d)
    BY <1>2, <1>3, <2>1, <2>5 DEF Spawned
  <2>7. ChildGood(d)
    BY <1>2, <2>4, <2>5, <2>6, MadeGood
  <2>8. child' = [child EXCEPT ![p].at = "image", ![p].fds = f]
    BY <1>1, <1>5, <2>1
  <2>9. child'[p] = d /\ DOMAIN child' = Children
         /\ \A q \in Children : q # p => child'[q] = child[q]
    BY <1>1, <2>2, <2>8 DEF ProcInv
  <2> QED BY <2>7, <2>9, ChildStep DEF Procs!SpawnExec
<1> QED BY <1>4, <1>5 DEF Procs!SpawnExec

LEMMA ImageEndsStep ==
    ASSUME ProcInv, NEW p \in Children, Procs!ImageEnds(p)
    PROVE  ProcInv'
<1>1. Made(child[p]) /\ child[p].spawned /\ Spawned(child[p]) /\ child[p].at = "image"
  BY MadeChild DEF Procs!ImageEnds, Forked
<1>2. Procs!Tables(child[p].asked)[Len(child[p].asked)] # {}
  BY <1>1 DEF Spawned
<1> QED BY <1>1, <1>2, ExitedStep DEF Procs!ImageEnds

LEMMA ProcAlways == Spec => []ProcInv
<1>1. Init => ProcInv
  BY ProcInit DEF Init
<1>2. ProcInv /\ [Next]_vars => ProcInv'
  <2> SUFFICES ASSUME ProcInv, [Next]_vars PROVE ProcInv'
    OBVIOUS
  <2>1. Procs!Next \/ UNCHANGED forkVars
    BY DEF Next, vars
  <2>2. ASSUME Procs!Next PROVE ProcInv'
    BY <2>2, OtherStep, PrepareStep, ParentStep, SysForkStep, RawForkStep, SpawnStep,
       ChildHandlerStep, MoveStep, SpawnActionStep, SpawnExecStep, ImageEndsStep
       DEF Procs!Next, Procs!ChildStep
  <2> QED BY <2>1, <2>2, ProcStays
<1> QED BY <1>1, <1>2, PTL DEF Spec

(* A walk forwards through the handlers that were prepared backwards.      *)
LEMMA WalksPair ==
    ASSUME NEW h \in Seq(Handlers), Distinct(h), NEW n \in 0 .. Len(h), NEW role,
           NEW prepared \in Seq(Handlers), NEW ran \in Seq(Handlers),
           Backward(h, 0, prepared), Forward(h, n, ran, role),
           NEW done, done => n = Len(h)
    PROVE  Procs!Paired(prepared, ran, role, done)
<1> DEFINE due == {x \in DOMAIN prepared : role \in Roles[prepared[x]]}
<1>1. /\ DOMAIN h = 1 .. Len(h) /\ Len(h) \in Nat /\ n \in Nat
      /\ \A a \in 1 .. n : a \in DOMAIN h /\ a > 0
      /\ \A a \in DOMAIN h : a \in Nat /\ a > 0
  OBVIOUS
<1>2. ASSUME NEW i \in DOMAIN ran, "prepare" \in Roles[ran[i]]
      PROVE  \E x \in due : ran[i] = prepared[x]
  <2>1. PICK a \in 1 .. n : ran[i] = h[a] /\ role \in Roles[h[a]]
    BY DEF Forward
  <2>2. \E x \in DOMAIN prepared : prepared[x] = h[a]
    BY <1>1, <1>2, <2>1 DEF Backward
  <2> QED BY <2>1, <2>2
<1>3. ASSUME NEW i \in DOMAIN ran, NEW j \in DOMAIN ran, NEW x \in due, NEW y \in due,
             i < j, ran[i] = prepared[x], ran[j] = prepared[y]
      PROVE  y < x
  <2>1. PICK a \in DOMAIN h : ran[i] = h[a]
    BY <1>1 DEF Forward
  <2>2. PICK b \in DOMAIN h : ran[j] = h[b]
    BY <1>1 DEF Forward
  <2>3. a < b
    BY <1>3, <2>1, <2>2 DEF Forward
  <2>4. ~(x < y) /\ x # y
    <3>1. x < y => b < a
      BY <1>3, <2>1, <2>2 DEF Backward
    <3>2. x = y => a = b
      BY <1>3, <2>1, <2>2 DEF Distinct
    <3>3. a \in Nat /\ b \in Nat
      BY <1>1
    <3> QED BY <2>3, <3>1, <3>2, <3>3
  <2> QED BY <2>4
<1>4. ASSUME NEW y \in due, NEW b \in DOMAIN h, prepared[y] = h[b], b <= n
      PROVE  prepared[y] \in Procs!Range(ran)
  <2>1. b \in 1 .. n
    <3>1. b \in Nat /\ b > 0
      BY <1>1
    <3> QED BY <1>4, <3>1
  <2>2. PICK i \in DOMAIN ran : ran[i] = h[b]
    BY <1>4, <2>1 DEF Forward
  <2> QED BY <1>4, <2>2 DEF Procs!Range
<1>5. \A y \in due : \E b \in DOMAIN h : prepared[y] = h[b]
  BY DEF Backward
<1>6. ASSUME NEW i \in DOMAIN ran, NEW x \in due, NEW y \in due, ran[i] = prepared[x], x < y
      PROVE  prepared[y] \in Procs!Range(ran)
  <2>1. PICK a \in 1 .. n : ran[i] = h[a]
    BY DEF Forward
  <2>2. PICK b \in DOMAIN h : prepared[y] = h[b]
    BY <1>5
  <2>3. b < a
    BY <1>1, <1>6, <2>1, <2>2 DEF Backward
  <2> QED BY <1>1, <1>4, <2>1, <2>2, <2>3
<1>7. ASSUME done, NEW y \in due PROVE prepared[y] \in Procs!Range(ran)
  BY <1>1, <1>4, <1>5, <1>7
<1> QED BY <1>2, <1>3, <1>6, <1>7 DEF Procs!Paired

(* fork (process.c, atfork.c): in the parent, in the child and when the    *)
(* system call fails, the functions called after a fork are the partners   *)
(* of those called before it, in the opposite order, although other        *)
(* threads and the handlers themselves register triplets meanwhile.        *)
THEOREM PairedHandlers == Spec => []Procs!HandlersPaired
<1>1. ASSUME ProcInv PROVE Procs!HandlersPaired
  <2>1. ASSUME NEW t \in Threads, forkTask[t].at = "parent"
        PROVE  Procs!Paired(forkTask[t].prepared, forkTask[t].ran, "parent",
                            forkTask[t].index = Len(forkTask[t].handlers))
    <3>1. PICK w : w = forkTask[t]
      OBVIOUS
    <3>2. /\ Walk(w) /\ Backward(w.handlers, 0, w.prepared)
          /\ Forward(w.handlers, w.index, w.ran, "parent")
      BY <1>1, <2>1, <3>1 DEF ProcInv, ForkGood
    <3> QED BY <3>1, <3>2, WalksPair DEF Walk
  <2>2. ASSUME NEW p \in Children, child[p].at \in {"handlers", "program"}
        PROVE  Procs!Paired(child[p].prepared, child[p].ran, "child",
                            child[p].at = "program")
    <3>1. PICK c : c = child[p]
      OBVIOUS
    <3>2. Forked(c)
      BY <1>1, <2>2, <3>1, MadeChild DEF Spawned
    <3>3. c.at = "program" => c.index = Len(c.handlers)
      BY <3>2 DEF Forked
    <3> QED BY <3>1, <3>2, <3>3, WalksPair DEF Forked, Walk
  <2> QED BY <2>1, <2>2 DEF Procs!HandlersPaired
<1> QED BY <1>1, ProcAlways, PTL

(* posix_spawn (spawn.c): an image starts only with all the file actions   *)
(* done, in the order of the list as it was at the call, and a child one   *)
(* of whose actions fails ends with status 127.                            *)
THEOREM AppliedSpawn == Spec => []SpawnApplied
<1>1. ASSUME ProcInv PROVE SpawnApplied
  <2> SUFFICES ASSUME NEW p \in Children, child[p].at # "none", child[p].spawned
               PROVE  LET wanted == Procs!Tables(child[p].asked)[Len(child[p].asked)]
                      IN  /\ child[p].at = "image" =>
                               \E f \in wanted : child[p].fds = Procs!Image(f)
                          /\ child[p].at = "exited" /\ wanted = {} => child[p].status = 127
    BY DEF SpawnApplied, Procs!SpawnApplied
  <2>1. Spawned(child[p])
    <3>1. child[p] # Procs!NotMade
      BY DEF Procs!NotMade
    <3> QED BY <1>1, <3>1 DEF ProcInv, ChildGood
  <2> QED BY <2>1 DEF Spawned
<1> QED BY <1>1, ProcAlways, PTL
=============================================================================
