---------------------------- MODULE OnceTssProof ----------------------------
(***************************************************************************)
(* Proofs about thread-specific storage, for any threads, slots, passes    *)
(* and bounds: what a key shows, that each value is destroyed once, and    *)
(* that a leaving thread leaves; a step is one of TssNext, which OnceTss   *)
(* takes inside its own.  Then about call_once, for any threads and flags: *)
(* what callers find when they return, that none of them sleeps for ever,  *)
(* and the keys that the initializers create.                              *)
(***************************************************************************)
EXTENDS OnceTss, FiniteSetTheorems, TLAPS

Pass == [slot : Slots, id : 1 .. MaxKeys, value : Value \ {0}]

Types ==
    /\ slots \in [Slots -> [gen : 0 .. MaxKeys, active : BOOLEAN, dtor : BOOLEAN,
                            id : 0 .. MaxKeys]]
    /\ tcb \in [Threads -> [Slots -> [gen : 0 .. MaxKeys, value : Value]]]
    /\ tss \in [Threads -> [pc : {"idle", "snapshot", "call", "gone"},
                            storing : Key \cup {NoKey}, value : Value,
                            pass : 0 .. Iterations, todo : SUBSET Pass]]
    /\ keys \in SUBSET Key /\ IsFiniteSet(keys) /\ Cardinality(keys) <= MaxKeys
    /\ setBy \in Seq([id : 1 .. MaxKeys, by : Threads]) /\ Len(setBy) <= MaxSets
    /\ destroyed \in [1 .. MaxSets -> 0 .. MaxSets]

(* A key is named by its slot and generation, and by its number; slots     *)
(* remember the youngest key made in them.                                 *)
ActiveKey(i) ==
    [slot |-> i, gen |-> slots[i].gen, id |-> slots[i].id, dtor |-> TRUE]

SameKey(j, k) == j.slot = k.slot /\ j.gen = k.gen

KeysNamed ==
    /\ \A i \in Slots : slots[i].gen <= Cardinality(keys)
    /\ \A k \in keys : k.gen <= slots[k.slot].gen /\ k.id <= Cardinality(keys)
    /\ \A j, k \in keys : SameKey(j, k) \/ j.id = k.id => j = k
    /\ \A i \in Slots : slots[i].active =>
         \E k \in keys : k.slot = i /\ k.gen = slots[i].gen /\ k.id = slots[i].id

(* Where a value is, it is with the thread and the key that it was set for.*)
SetFor(v, k, t) == v <= Len(setBy) /\ setBy[v] = [id |-> k.id, by |-> t]

ValuesPlaced ==
    /\ \A t \in Threads : \A i \in Slots : tcb[t][i].value # 0 =>
         \E k \in keys : k.slot = i /\ k.gen = tcb[t][i].gen /\ SetFor(tcb[t][i].value, k, t)
    /\ \A t \in Threads :
         /\ tss[t].storing \in keys \cup {NoKey}
         /\ tss[t].value # 0 =>
              tss[t].storing # NoKey /\ SetFor(tss[t].value, tss[t].storing, t)
         /\ \A d \in tss[t].todo : SetFor(d.value, d, t)

(* A value is in one place: a cell, a tss_set under way, the snapshot of a *)
(* pass, or destroyed.                                                     *)
OnePlace ==
    /\ \A v \in 1 .. MaxSets : destroyed[v] <= 1 /\ (v > Len(setBy) => destroyed[v] = 0)
    /\ \A t \in Threads :
         /\ \A i, j \in Slots : tcb[t][i].value # 0 /\ tcb[t][i].value = tcb[t][j].value => i = j
         /\ \A i \in Slots : tcb[t][i].value # 0 =>
              destroyed[tcb[t][i].value] = 0 /\ tss[t].value # tcb[t][i].value
         /\ tss[t].value # 0 => destroyed[tss[t].value] = 0
         /\ \A d \in tss[t].todo :
              /\ destroyed[d.value] = 0 /\ tss[t].value # d.value
              /\ \A i \in Slots : tcb[t][i].value # d.value
         /\ \A d, e \in tss[t].todo : d.value = e.value => d = e

(* The values of one key and thread that have been destroyed: one more in  *)
(* each pass.                                                              *)
Done(t, id) == {v \in DOMAIN setBy : setBy[v] = [id |-> id, by |-> t] /\ destroyed[v] > 0}

Due(t, id) == \E d \in tss[t].todo : d.id = id

PassesCounted ==
    \A t \in Threads :
        /\ tss[t].pc \in {"snapshot", "call"} => tss[t].pass < Iterations
        /\ tss[t].pc # "call" => tss[t].todo = {}
        /\ tss[t].pc = "idle" => tss[t].pass = 0
        /\ \A d, e \in tss[t].todo : d.id = e.id => d = e
        /\ \A id \in 1 .. MaxKeys :
             /\ tss[t].pc = "idle" => Done(t, id) = {}
             /\ tss[t].pc = "snapshot" => Cardinality(Done(t, id)) <= tss[t].pass
             /\ tss[t].pc = "call" => Cardinality(Done(t, id)) <= tss[t].pass + 1
             /\ tss[t].pc = "call" /\ Due(t, id) => Cardinality(Done(t, id)) <= tss[t].pass
             /\ tss[t].pc = "gone" => Cardinality(Done(t, id)) <= Iterations

TssInv == Types /\ KeysNamed /\ ValuesPlaced /\ OnePlace /\ PassesCounted

TssNext(t) == ProgramStep(t) \/ Leave(t) \/ TssStep(t)

-----------------------------------------------------------------------------
LEMMA TssInitInv == TssInit => TssInv
<1> SUFFICES ASSUME TssInit PROVE TssInv
  OBVIOUS
<1> USE DEF TssInit
<1>1. IsFiniteSet(keys) /\ Cardinality(keys) = 0
  BY FS_EmptySet
<1>2. NoKey \in Key \cup {NoKey} /\ 0 \in Value /\ 0 \in 0 .. Iterations /\ {} \in SUBSET Pass
      /\ 0 \in 0 .. MaxKeys /\ 0 \in 0 .. MaxSets
  BY TssConstants DEF Value
<1>3. setBy \in Seq([id : 1 .. MaxKeys, by : Threads]) /\ Len(setBy) = 0
  OBVIOUS
<1>4. Types
  BY <1>1, <1>2, <1>3, TssConstants DEF Types
<1>5. KeysNamed
  BY <1>1, TssConstants DEF KeysNamed
<1>6. ValuesPlaced /\ OnePlace
  BY DEF ValuesPlaced, OnePlace
<1>7. \A t \in Threads, id \in 1 .. MaxKeys : Done(t, id) = {}
  BY DEF Done
<1>8. PassesCounted
  BY <1>7 DEF PassesCounted
<1> QED BY <1>4, <1>5, <1>6, <1>8 DEF TssInv

(* NoKey is no key.                                                        *)
LEMMA NoKeyIsNone == NoKey \notin Key
  BY DEF NoKey, Key, Slots

(* What the destroyed values are counted by.                               *)
LEMMA DoneFinite ==
    ASSUME Types, NEW t, NEW id
    PROVE  IsFiniteSet(Done(t, id)) /\ Cardinality(Done(t, id)) \in Nat
<1>1. DOMAIN setBy = 1 .. Len(setBy) /\ Len(setBy) \in Nat
  BY DEF Types
<1>2. IsFiniteSet(1 .. Len(setBy))
  BY <1>1, FS_Interval
<1>3. Done(t, id) \subseteq 1 .. Len(setBy)
  BY <1>1 DEF Done
<1>4. IsFiniteSet(Done(t, id))
  BY <1>2, <1>3, FS_Subset
<1> QED BY <1>4, FS_CardinalityType

-----------------------------------------------------------------------------
(* tss_create: the key is new by its generation and by its number.         *)
LEMMA CreateStep ==
    ASSUME TssInv, NEW t \in Threads, NEW dtor \in BOOLEAN, Create(t, dtor)
    PROVE  TssInv'
<1> DEFINE n == Cardinality(keys)
<1>0. Types /\ n \in Nat /\ MaxKeys \in Nat
  BY FS_CardinalityType, TssConstants DEF TssInv, Types
<1>1. PICK i \in Slots :
        LET k == NextKey(i, dtor)
        IN  /\ slots' = [slots EXCEPT ![i] = [gen |-> k.gen, active |-> TRUE, dtor |-> dtor,
                                             id |-> k.id]]
            /\ keys' = keys \cup {k} /\ ~slots[i].active
  BY DEF Create
<1> DEFINE k == NextKey(i, dtor)
<1>2. /\ tcb' = tcb /\ tss' = tss /\ setBy' = setBy /\ destroyed' = destroyed
      /\ n < MaxKeys
  BY DEF Create
<1>3. /\ k.slot = i /\ k.gen = slots[i].gen + 1 /\ k.id = n + 1 /\ k.dtor = dtor
      /\ slots[i].gen \in 0 .. MaxKeys /\ slots[i].gen <= n
  BY <1>0 DEF NextKey, Types, TssInv, KeysNamed
<1>4. k \in Key
  BY <1>0, <1>2, <1>3 DEF Key, NextKey
<1>5. \A j \in keys : ~SameKey(j, k) /\ j.id # k.id /\ j # k
  <2> TAKE j \in keys
  <2>1. j.gen \in Nat /\ j.id \in Nat /\ j.id <= n /\ j.gen <= slots[j.slot].gen
    BY <1>0 DEF Types, Key, TssInv, KeysNamed
  <2> QED BY <2>1, <1>0, <1>3 DEF SameKey
<1>6. IsFiniteSet(keys') /\ Cardinality(keys') = n + 1
  BY <1>0, <1>1, <1>5, FS_AddElement DEF Types
<1>7. Types'
  <2>1. [gen |-> k.gen, active |-> TRUE, dtor |-> dtor, id |-> k.id]
           \in [gen : 0 .. MaxKeys, active : BOOLEAN, dtor : BOOLEAN, id : 0 .. MaxKeys]
    BY <1>0, <1>2, <1>3
  <2>2. slots' \in [Slots -> [gen : 0 .. MaxKeys, active : BOOLEAN, dtor : BOOLEAN,
                              id : 0 .. MaxKeys]]
    BY <2>1, <1>0, <1>1 DEF Types
  <2>3. keys' \in SUBSET Key
    BY <1>0, <1>1, <1>4 DEF Types
  <2> QED BY <2>2, <2>3, <1>0, <1>2, <1>6 DEF Types
<1>8. /\ \A j \in Slots \ {i} : slots'[j] = slots[j]
      /\ slots'[i].gen = k.gen /\ slots'[i].id = k.id /\ slots'[i].active
      /\ keys' = keys \cup {k}
  BY <1>0, <1>1 DEF Types
<1> HIDE DEF k
<1>9. KeysNamed'
  <2>1. ASSUME NEW j \in Slots PROVE slots'[j].gen <= n + 1 /\ slots'[j].gen >= slots[j].gen
    <3>1. slots[j].gen \in Nat /\ slots[j].gen <= n
      BY <1>0 DEF Types, TssInv, KeysNamed
    <3> QED BY <3>1, <1>0, <1>3, <1>8
  <2>2. ASSUME NEW j \in keys' PROVE j.gen <= slots'[j.slot].gen /\ j.id <= n + 1
    <3>1. CASE j = k
      BY <3>1, <1>0, <1>3, <1>8
    <3>2. CASE j \in keys
      <4>1. /\ j.gen \in Nat /\ j.id \in Nat /\ j.slot \in Slots
            /\ j.gen <= slots[j.slot].gen /\ j.id <= n
        BY <3>2, <1>0 DEF Types, Key, TssInv, KeysNamed
      <4>2. slots[j.slot].gen \in Nat
        BY <4>1, <1>0 DEF Types
      <4>3. slots'[j.slot].gen \in Nat
        BY <4>1, <1>7 DEF Types
      <4> QED BY <4>1, <4>2, <4>3, <2>1, <1>0
    <3> QED BY <3>1, <3>2, <1>8
  <2>3. \A j, l \in keys' : SameKey(j, l) \/ j.id = l.id => j = l
    BY <1>5, <1>8 DEF TssInv, KeysNamed, SameKey
  <2>4. ASSUME NEW j \in Slots, slots'[j].active
        PROVE  \E l \in keys' : l.slot = j /\ l.gen = slots'[j].gen /\ l.id = slots'[j].id
    BY <2>4, <1>3, <1>8 DEF TssInv, KeysNamed
  <2> QED BY <2>1, <2>2, <2>3, <2>4, <1>6 DEF KeysNamed, SameKey
<1>10. ValuesPlaced'
  <2>1. \A v, l, u : SetFor(v, l, u)' <=> SetFor(v, l, u)
    BY <1>2 DEF SetFor
  <2> QED BY <2>1, <1>2, <1>8 DEF TssInv, ValuesPlaced, SetFor
<1>11. OnePlace'
  BY <1>2 DEF TssInv, OnePlace
<1>12. PassesCounted'
  BY <1>2 DEF TssInv, PassesCounted, Done, Due
<1> QED BY <1>7, <1>9, <1>10, <1>11, <1>12 DEF TssInv

(* tss_delete: the slot keeps its generation, the caller loses its value.  *)
LEMMA DeleteStep ==
    ASSUME TssInv, NEW t \in Threads, NEW k \in keys, Delete(t, k)
    PROVE  TssInv'
<1>0. Types /\ k \in Key /\ k.slot \in Slots
  BY DEF TssInv, Types, Key
<1>1. /\ tss' = tss /\ keys' = keys /\ setBy' = setBy /\ destroyed' = destroyed
      /\ slots' \in [Slots -> [gen : 0 .. MaxKeys, active : BOOLEAN, dtor : BOOLEAN,
                               id : 0 .. MaxKeys]]
      /\ \A i \in Slots : slots'[i].gen = slots[i].gen /\ slots'[i].id = slots[i].id
                          /\ (slots'[i].active => slots[i].active)
  <2>1. CASE IsActive(k)
    <3>1. slots' = [slots EXCEPT ![k.slot].active = FALSE, ![k.slot].dtor = FALSE]
      BY <2>1 DEF Delete
    <3>2. slots' \in [Slots -> [gen : 0 .. MaxKeys, active : BOOLEAN, dtor : BOOLEAN,
                                id : 0 .. MaxKeys]]
      BY ZenonT(40), <3>1, <1>0 DEF Types
    <3>3. ASSUME NEW i \in Slots
          PROVE  slots'[i].gen = slots[i].gen /\ slots'[i].id = slots[i].id
                 /\ (slots'[i].active => slots[i].active)
      <4>1. slots[i] \in [gen : 0 .. MaxKeys, active : BOOLEAN, dtor : BOOLEAN,
                          id : 0 .. MaxKeys]
        BY <1>0 DEF Types
      <4>2. slots'[i] = slots[i]
            \/ slots'[i] = [slots[i] EXCEPT !.active = FALSE, !.dtor = FALSE]
        BY <3>1, <1>0 DEF Types
      <4> QED BY <4>1, <4>2
    <3> QED BY <3>2, <3>3, <1>0 DEF Delete
  <2>2. CASE ~IsActive(k)
    BY <2>2, <1>0 DEF Types, Delete
  <2> QED BY <2>1, <2>2
<1>2. /\ tcb' \in [Threads -> [Slots -> [gen : 0 .. MaxKeys, value : Value]]]
      /\ \A u \in Threads, i \in Slots : tcb'[u][i] = tcb[u][i] \/ tcb'[u][i].value = 0
  <2>1. [gen |-> 0, value |-> 0] \in [gen : 0 .. MaxKeys, value : Value]
    BY TssConstants DEF Value
  <2> QED BY <2>1, <1>0 DEF Delete, Types
<1>3. Types'
  BY <1>0, <1>1, <1>2 DEF Types
<1>4. KeysNamed'
  BY <1>0, <1>1 DEF TssInv, KeysNamed, Types, Key, SameKey
<1>5. ValuesPlaced'
  <2>1. \A v, l, u : SetFor(v, l, u)' <=> SetFor(v, l, u)
    BY <1>1 DEF SetFor
  <2>2. ASSUME NEW u \in Threads, NEW i \in Slots, tcb'[u][i].value # 0
        PROVE  \E l \in keys : l.slot = i /\ l.gen = tcb'[u][i].gen
                               /\ SetFor(tcb'[u][i].value, l, u)
    BY SMTT(30), <2>2, <1>2 DEF TssInv, ValuesPlaced
  <2>3. ValuesPlaced
    BY DEF TssInv
  <2> QED BY <2>1, <2>2, <2>3, <1>1 DEF ValuesPlaced, SetFor
<1>6. OnePlace'
  <2>1. \A u \in Threads, i \in Slots : tcb'[u][i].value # 0 => tcb'[u][i] = tcb[u][i]
    BY <1>2
  <2>2. \A u \in Threads : \A d \in tss[u].todo : d.value # 0
    BY <1>0 DEF Types, Pass
  <2> QED BY <2>1, <2>2, <1>1 DEF TssInv, OnePlace
<1>7. PassesCounted'
  <2>1. \A u, id : Done(u, id)' = Done(u, id)
    BY <1>1 DEF Done
  <2> QED BY <2>1, <1>1 DEF TssInv, PassesCounted, Due
<1> QED BY <1>3, <1>4, <1>5, <1>6, <1>7 DEF TssInv

(* The first half of tss_set: a value that is nowhere yet.                 *)
LEMMA SetCheckStep ==
    ASSUME TssInv, NEW t \in Threads, NEW k \in keys, NEW null \in BOOLEAN,
           SetCheck(t, k, null)
    PROVE  TssInv'
<1>a. PICK n : n = Len(setBy)
  OBVIOUS
<1>b. PICK v : v = IF null THEN 0 ELSE n + 1
  OBVIOUS
<1>0. Types /\ k \in Key /\ n \in Nat /\ MaxSets \in Nat /\ n <= MaxSets
      /\ tss[t].storing = NoKey /\ tss[t].pc \in {"idle", "call"}
  BY <1>a, TssConstants DEF TssInv, Types, SetCheck, InProgram
<1>1. /\ slots' = slots /\ tcb' = tcb /\ keys' = keys /\ destroyed' = destroyed
      /\ tss' = [tss EXCEPT ![t].storing = k, ![t].value = v]
      /\ null \/ n < MaxSets
      /\ setBy' = IF null THEN setBy ELSE Append(setBy, [id |-> k.id, by |-> t])
  BY <1>a, <1>b DEF SetCheck
<1>2. /\ tss'[t].pc = tss[t].pc /\ tss'[t].todo = tss[t].todo /\ tss'[t].pass = tss[t].pass
      /\ tss'[t].storing = k /\ tss'[t].value = v
      /\ \A u \in Threads \ {t} : tss'[u] = tss[u]
      /\ tss' \in [Threads -> [pc : {"idle", "snapshot", "call", "gone"},
                               storing : Key \cup {NoKey}, value : Value,
                               pass : 0 .. Iterations, todo : SUBSET Pass]]
  <2>1. v \in Value
    BY <1>0, <1>1, <1>b DEF Value
  <2>2. tss' \in [Threads -> [pc : {"idle", "snapshot", "call", "gone"},
                              storing : Key \cup {NoKey}, value : Value,
                              pass : 0 .. Iterations, todo : SUBSET Pass]]
    BY ZenonT(40), <2>1, <1>0, <1>1 DEF Types
  <2>3. tss'[t] = [tss[t] EXCEPT !.storing = k, !.value = v]
        /\ \A u \in Threads \ {t} : tss'[u] = tss[u]
    BY <1>0, <1>1 DEF Types
  <2>4. tss[t] \in [pc : {"idle", "snapshot", "call", "gone"},
                    storing : Key \cup {NoKey}, value : Value,
                    pass : 0 .. Iterations, todo : SUBSET Pass]
    BY <1>0 DEF Types
  <2> QED BY <2>2, <2>3, <2>4
<1>3. /\ setBy' \in Seq([id : 1 .. MaxKeys, by : Threads])
      /\ Len(setBy') = (IF null THEN n ELSE n + 1)
      /\ \A w \in 1 .. n : setBy'[w] = setBy[w]
      /\ ~null => setBy'[n + 1] = [id |-> k.id, by |-> t]
  <2>1. CASE null
    BY <2>1, <1>a, <1>0, <1>1 DEF Types
  <2>2. CASE ~null
    <3>1. [id |-> k.id, by |-> t] \in [id : 1 .. MaxKeys, by : Threads]
      BY <1>0 DEF Key
    <3> QED BY <2>2, <3>1, <1>a, <1>0, <1>1 DEF Types
  <2> QED BY <2>1, <2>2
<1>4. Types'
  BY <1>0, <1>1, <1>2, <1>3 DEF Types
<1>5. KeysNamed'
  BY <1>1 DEF TssInv, KeysNamed
<1>6. \A w \in Value \ {0} : \A l, u : SetFor(w, l, u) => SetFor(w, l, u)'
  BY <1>a, <1>0, <1>3 DEF SetFor, Value
<1>7. /\ \A u \in Threads, i \in Slots : tcb[u][i].value \in Value
      /\ \A u \in Threads : tss[u].value \in Value
      /\ \A u \in Threads : \A d \in tss[u].todo : d.value \in Value \ {0}
  BY <1>0 DEF Types, Pass
<1>8. tss[t].value = 0
  BY <1>0 DEF TssInv, ValuesPlaced
<1>9. ValuesPlaced'
  <2>1. ASSUME NEW u \in Threads, NEW i \in Slots, tcb'[u][i].value # 0
        PROVE  \E l \in keys' : l.slot = i /\ l.gen = tcb'[u][i].gen
                                /\ SetFor(tcb[u][i].value, l, u)'
    <3>1. PICK l \in keys : l.slot = i /\ l.gen = tcb[u][i].gen /\ SetFor(tcb[u][i].value, l, u)
      BY <2>1, <1>1 DEF TssInv, ValuesPlaced
    <3> QED BY <3>1, <2>1, <1>1, <1>6, <1>7
  <2>2. ASSUME NEW u \in Threads, u # t
        PROVE  /\ tss'[u].storing \in keys' \cup {NoKey}
               /\ tss'[u].value # 0 =>
                    tss'[u].storing # NoKey /\ SetFor(tss[u].value, tss[u].storing, u)'
    BY <2>2, <1>1, <1>2, <1>6, <1>7 DEF TssInv, ValuesPlaced
  <2>3. ASSUME NEW u \in Threads, NEW d \in tss'[u].todo
        PROVE  SetFor(d.value, d, u)'
    BY <2>3, <1>2, <1>6, <1>7 DEF TssInv, ValuesPlaced
  <2>4. v # 0 => SetFor(v, k, t)' /\ k # NoKey
    <3>1. k # NoKey
      BY <1>0, NoKeyIsNone
    <3>2. CASE null
      BY <3>1, <3>2, <1>b
    <3>3. CASE ~null
      <4>1. v = n + 1 /\ v <= Len(setBy') /\ setBy'[v] = [id |-> k.id, by |-> t]
        BY <3>3, <1>0, <1>3, <1>b
      <4> QED BY <3>1, <4>1 DEF SetFor
    <3> QED BY <3>2, <3>3
  <2>5. tss'[t].storing \in keys' /\ tss'[t].value = v
    BY <1>1, <1>2
  <2>6. tss'[t].value # 0 => tss'[t].storing # NoKey
                             /\ SetFor(tss[t].value, tss[t].storing, t)'
    BY <2>4, <1>2 DEF SetFor
  <2>7. ASSUME NEW u \in Threads
        PROVE  /\ tss'[u].storing \in keys' \cup {NoKey}
               /\ tss'[u].value # 0 =>
                    tss'[u].storing # NoKey /\ SetFor(tss[u].value, tss[u].storing, u)'
    BY <2>2, <2>5, <2>6
  <2> QED BY <2>1, <2>3, <2>7 DEF ValuesPlaced
<1>10. OnePlace'
  <2>1. v # 0 => /\ v = n + 1 /\ v \in 1 .. MaxSets /\ destroyed[v] = 0
                 /\ \A i \in Slots : tcb[t][i].value # v
                 /\ \A d \in tss[t].todo : d.value # v
    <3>1. \A i \in Slots : tcb[t][i].value # 0 => tcb[t][i].value <= n
      BY <1>a DEF TssInv, ValuesPlaced, SetFor
    <3>2. \A d \in tss[t].todo : d.value <= n
      BY <1>a DEF TssInv, ValuesPlaced, SetFor
    <3>3. n + 1 \in 1 .. MaxSets /\ n + 1 > Len(setBy) => destroyed[n + 1] = 0
      BY DEF TssInv, OnePlace
    <3>4. v # 0 => v = n + 1 /\ v \in 1 .. MaxSets /\ n + 1 > Len(setBy)
      BY <1>a, <1>b, <1>0, <1>1
    <3>5. \A i \in Slots : tcb[t][i].value # 0 => tcb[t][i].value \in Nat
      BY <1>7 DEF Value
    <3>6. \A d \in tss[t].todo : d.value \in Nat
      BY <1>7 DEF Value
    <3> QED BY <3>1, <3>2, <3>3, <3>4, <3>5, <3>6, <1>0
  <2>2. \A w \in 1 .. MaxSets : w > Len(setBy') => w > n
    BY <1>0, <1>3
  <2> QED BY <2>1, <2>2, <1>1, <1>2, <1>7, <1>8 DEF TssInv, OnePlace
<1>11. \A u \in Threads, id \in 1 .. MaxKeys : Done(u, id)' = Done(u, id)
  <2>1. DOMAIN setBy = 1 .. n /\ DOMAIN setBy' = 1 .. Len(setBy')
    BY <1>a, <1>0, <1>3 DEF Types
  <2>2. ~null => destroyed[n + 1] = 0
    BY <1>a, <1>0, <1>1 DEF TssInv, OnePlace
  <2> QED BY <2>1, <2>2, <1>0, <1>1, <1>3 DEF Done
<1>12. PassesCounted'
  BY <1>2, <1>11 DEF TssInv, PassesCounted, Due
<1> QED BY <1>4, <1>5, <1>9, <1>10, <1>12 DEF TssInv

(* The second half of tss_set: the value moves into a cell.                *)
LEMMA SetStoreStep ==
    ASSUME TssInv, NEW t \in Threads, SetStore(t)
    PROVE  TssInv'
<1>a. PICK k : k = tss[t].storing
  OBVIOUS
<1>b. PICK v : v = tss[t].value
  OBVIOUS
<1>c. tss[t] \in [pc : {"idle", "snapshot", "call", "gone"},
                  storing : Key \cup {NoKey}, value : Value,
                  pass : 0 .. Iterations, todo : SUBSET Pass]
  BY DEF TssInv, Types
<1>0. /\ Types /\ k \in keys /\ k.slot \in Slots /\ k.gen \in 0 .. MaxKeys /\ v \in Value
      /\ k # NoKey /\ 0 \in Value
  <2>1. Types /\ k # NoKey /\ 0 \in Value /\ v \in Value
    BY <1>a, <1>b, <1>c, TssConstants DEF TssInv, SetStore, Value
  <2>2. k \in keys
    BY <2>1, <1>a DEF TssInv, ValuesPlaced
  <2>3. k \in Key /\ MaxKeys \in Nat
    BY <2>1, <2>2, TssConstants DEF Types
  <2> QED BY <2>1, <2>2, <2>3 DEF Key
<1>1. /\ slots' = slots /\ keys' = keys /\ setBy' = setBy /\ destroyed' = destroyed
      /\ tcb' = [tcb EXCEPT ![t][k.slot] = [gen |-> k.gen, value |-> v]]
      /\ tss' = [tss EXCEPT ![t].storing = NoKey, ![t].value = 0]
  BY <1>a, <1>b DEF SetStore
<1>2. /\ tss'[t].pc = tss[t].pc /\ tss'[t].todo = tss[t].todo /\ tss'[t].pass = tss[t].pass
      /\ tss'[t].storing = NoKey /\ tss'[t].value = 0
      /\ \A u \in Threads \ {t} : tss'[u] = tss[u]
  <2>1. tss'[t] = [tss[t] EXCEPT !.storing = NoKey, !.value = 0]
        /\ \A u \in Threads \ {t} : tss'[u] = tss[u]
    BY <1>0, <1>1 DEF Types
  <2> QED BY <2>1, <1>c
<1>3. tss' \in [Threads -> [pc : {"idle", "snapshot", "call", "gone"},
                            storing : Key \cup {NoKey}, value : Value,
                            pass : 0 .. Iterations, todo : SUBSET Pass]]
  BY ZenonT(40), <1>0, <1>1 DEF Types
<1>4. /\ tcb' \in [Threads -> [Slots -> [gen : 0 .. MaxKeys, value : Value]]]
      /\ tcb'[t][k.slot].gen = k.gen /\ tcb'[t][k.slot].value = v
      /\ \A i \in Slots \ {k.slot} : tcb'[t][i] = tcb[t][i]
      /\ \A u \in Threads \ {t} : tcb'[u] = tcb[u]
  BY <1>0, <1>1 DEF Types
<1>5. Types'
  BY <1>0, <1>1, <1>3, <1>4 DEF Types
<1>6. KeysNamed'
  BY <1>1 DEF TssInv, KeysNamed
<1>7. v # 0 => SetFor(v, k, t)
  BY <1>a, <1>b DEF TssInv, ValuesPlaced
<1>8. ValuesPlaced'
  <2>1. ASSUME NEW u \in Threads, NEW i \in Slots, tcb'[u][i].value # 0
        PROVE  \E l \in keys : l.slot = i /\ l.gen = tcb'[u][i].gen
                               /\ SetFor(tcb'[u][i].value, l, u)
    <3>1. CASE u = t /\ i = k.slot
      BY <3>1, <2>1, <1>0, <1>4, <1>7
    <3>2. CASE ~(u = t /\ i = k.slot)
      <4>1. tcb'[u][i] = tcb[u][i]
        BY <3>2, <1>4
      <4> QED BY <4>1, <2>1 DEF TssInv, ValuesPlaced
    <3> QED BY <3>1, <3>2
  <2>2. \A w, l, u : SetFor(w, l, u)' <=> SetFor(w, l, u)
    BY <1>1 DEF SetFor
  <2>3. ASSUME NEW u \in Threads
        PROVE  /\ tss'[u].storing \in keys \cup {NoKey}
               /\ tss'[u].value # 0 =>
                    tss'[u].storing # NoKey /\ SetFor(tss'[u].value, tss'[u].storing, u)
               /\ \A d \in tss'[u].todo : SetFor(d.value, d, u)
    BY <1>2 DEF TssInv, ValuesPlaced
  <2>4. ASSUME NEW u \in Threads, NEW i \in Slots, tcb'[u][i].value # 0
        PROVE  \E l \in keys' : l.slot = i /\ l.gen = tcb'[u][i].gen
                                /\ SetFor(tcb[u][i].value, l, u)'
    BY <2>1, <2>4, <1>1 DEF SetFor
  <2>5. ASSUME NEW u \in Threads
        PROVE  /\ tss'[u].storing \in keys' \cup {NoKey}
               /\ tss'[u].value # 0 =>
                    tss'[u].storing # NoKey /\ SetFor(tss[u].value, tss[u].storing, u)'
               /\ \A d \in tss'[u].todo : SetFor(d.value, d, u)'
    BY <2>3, <1>1 DEF SetFor
  <2> QED BY <2>4, <2>5 DEF ValuesPlaced
<1>9. OnePlace'
  <2>1. \A w \in 1 .. MaxSets : destroyed'[w] <= 1 /\ (w > Len(setBy') => destroyed'[w] = 0)
    BY <1>1 DEF TssInv, OnePlace
  <2>2. ASSUME NEW u \in Threads \ {t}
        PROVE  tcb'[u] = tcb[u] /\ tss'[u] = tss[u]
    BY <1>2, <1>4
  <2>3. v # 0 => /\ destroyed[v] = 0
                 /\ \A i \in Slots : tcb[t][i].value # v
                 /\ \A d \in tss[t].todo : d.value # v
    BY <1>b DEF TssInv, OnePlace
  <2>4. ASSUME NEW i \in Slots
        PROVE  tcb'[t][i].value = (IF i = k.slot THEN v ELSE tcb[t][i].value)
    BY <1>0, <1>4
  <2>5. \A i, j \in Slots : tcb'[t][i].value # 0 /\ tcb'[t][i].value = tcb'[t][j].value => i = j
    BY <2>3, <2>4 DEF TssInv, OnePlace
  <2>6. \A i \in Slots : tcb'[t][i].value # 0 => destroyed[tcb'[t][i].value] = 0
    BY <2>3, <2>4 DEF TssInv, OnePlace
  <2>7. \A d \in tss[t].todo :
           d.value # 0 /\ destroyed[d.value] = 0 /\ \A i \in Slots : tcb'[t][i].value # d.value
    <3>1. \A d \in tss[t].todo : d.value # 0
      BY <1>c DEF Pass
    <3> QED BY <2>3, <2>4, <3>1 DEF TssInv, OnePlace
  <2>8. \A d, e \in tss[t].todo : d.value = e.value => d = e
    BY DEF TssInv, OnePlace
  <2>9. ASSUME NEW u \in Threads
        PROVE  /\ \A i, j \in Slots :
                    tcb'[u][i].value # 0 /\ tcb'[u][i].value = tcb'[u][j].value => i = j
               /\ \A i \in Slots : tcb'[u][i].value # 0 =>
                    destroyed'[tcb'[u][i].value] = 0 /\ tss'[u].value # tcb'[u][i].value
               /\ tss'[u].value # 0 => destroyed'[tss'[u].value] = 0
               /\ \A d \in tss'[u].todo :
                    /\ destroyed'[d.value] = 0 /\ tss'[u].value # d.value
                    /\ \A i \in Slots : tcb'[u][i].value # d.value
               /\ \A d, e \in tss'[u].todo : d.value = e.value => d = e
    <3>1. CASE u = t
      <4>1. tss'[t].todo = tss[t].todo /\ tss'[t].value = 0 /\ destroyed' = destroyed
        BY <1>1, <1>2
      <4>2. \A d \in tss'[t].todo :
              /\ destroyed'[d.value] = 0 /\ tss'[t].value # d.value
              /\ \A i \in Slots : tcb'[t][i].value # d.value
        BY <4>1, <2>7
      <4>3. \A d, e \in tss'[t].todo : d.value = e.value => d = e
        BY <4>1, <2>8
      <4>4. \A i \in Slots : tcb'[t][i].value # 0 =>
               destroyed'[tcb'[t][i].value] = 0 /\ tss'[t].value # tcb'[t][i].value
        BY <4>1, <2>6
      <4> QED BY <3>1, <4>1, <4>2, <4>3, <4>4, <2>5
    <3>2. CASE u # t
      <4>1. tcb'[u] = tcb[u] /\ tss'[u] = tss[u] /\ destroyed' = destroyed
        BY <3>2, <2>2, <1>1
      <4> QED BY <4>1 DEF TssInv, OnePlace
    <3> QED BY <3>1, <3>2
  <2> QED BY <2>1, <2>9 DEF OnePlace
<1>10. PassesCounted'
  <2>1. \A u, id : Done(u, id)' = Done(u, id)
    BY <1>1 DEF Done
  <2>2. \A u \in Threads : tss'[u].pc = tss[u].pc /\ tss'[u].todo = tss[u].todo
                           /\ tss'[u].pass = tss[u].pass
    BY <1>2
  <2> QED BY <2>1, <2>2 DEF TssInv, PassesCounted, Due
<1> QED BY <1>5, <1>6, <1>8, <1>9, <1>10 DEF TssInv

(* Steps that change only how far a thread's destructors have come.        *)
LEMMA ThreadOnly ==
    ASSUME TssInv, NEW t \in Threads, NEW r,
           tss' = [tss EXCEPT ![t] = r],
           r \in [pc : {"idle", "snapshot", "call", "gone"},
                  storing : Key \cup {NoKey}, value : Value,
                  pass : 0 .. Iterations, todo : SUBSET Pass],
           r.storing = tss[t].storing, r.value = tss[t].value, r.todo = tss[t].todo,
           UNCHANGED <<slots, tcb, keys, setBy, destroyed>>
    PROVE  Types' /\ KeysNamed' /\ ValuesPlaced' /\ OnePlace'
<1>0. Types
  BY DEF TssInv
<1>1. /\ tss'[t].storing = tss[t].storing /\ tss'[t].value = tss[t].value
      /\ tss'[t].todo = tss[t].todo
      /\ \A u \in Threads \ {t} : tss'[u] = tss[u]
      /\ tss' \in [Threads -> [pc : {"idle", "snapshot", "call", "gone"},
                               storing : Key \cup {NoKey}, value : Value,
                               pass : 0 .. Iterations, todo : SUBSET Pass]]
  BY <1>0 DEF Types
<1>2. \A u \in Threads : tss'[u].storing = tss[u].storing /\ tss'[u].value = tss[u].value
                         /\ tss'[u].todo = tss[u].todo
  BY <1>1
<1>3. Types'
  BY <1>0, <1>1 DEF Types
<1>4. KeysNamed'
  BY DEF TssInv, KeysNamed
<1>5. ValuesPlaced'
  BY <1>2 DEF TssInv, ValuesPlaced, SetFor
<1>6. OnePlace'
  BY <1>2 DEF TssInv, OnePlace
<1> QED BY <1>3, <1>4, <1>5, <1>6

LEMMA LeaveStep ==
    ASSUME TssInv, NEW t \in Threads, Leave(t)
    PROVE  TssInv'
<1>0. /\ Types
      /\ tss[t] \in [pc : {"idle", "snapshot", "call", "gone"},
                     storing : Key \cup {NoKey}, value : Value,
                     pass : 0 .. Iterations, todo : SUBSET Pass]
  BY DEF TssInv, Types
<1> DEFINE r == [tss[t] EXCEPT !.pc = "snapshot"]
<1>1. /\ tss' = [tss EXCEPT ![t] = r] /\ tss[t].pc = "idle"
      /\ UNCHANGED <<slots, tcb, keys, setBy, destroyed>>
  BY <1>0 DEF Leave
<1>2. /\ r \in [pc : {"idle", "snapshot", "call", "gone"},
                storing : Key \cup {NoKey}, value : Value,
                pass : 0 .. Iterations, todo : SUBSET Pass]
      /\ r.storing = tss[t].storing /\ r.value = tss[t].value /\ r.todo = tss[t].todo
      /\ r.pass = tss[t].pass /\ r.pc = "snapshot"
  BY <1>0
<1>3. Types' /\ KeysNamed' /\ ValuesPlaced' /\ OnePlace'
  BY <1>1, <1>2, ThreadOnly
<1>4. /\ tss'[t].pc = "snapshot" /\ tss'[t].todo = tss[t].todo /\ tss'[t].pass = tss[t].pass
      /\ \A u \in Threads \ {t} : tss'[u] = tss[u]
  BY <1>0, <1>1, <1>2 DEF Types
<1>5. \A u, id : Done(u, id)' = Done(u, id)
  BY <1>1 DEF Done
<1>6. tss[t].pass \in Nat /\ \A id \in 1 .. MaxKeys : Cardinality(Done(t, id)) = 0
  <2>1. tss[t].pass \in Nat
    BY <1>0
  <2>2. \A id \in 1 .. MaxKeys : Done(t, id) = {}
    BY <1>1 DEF TssInv, PassesCounted
  <2>3. Cardinality({}) = 0
    BY FS_EmptySet
  <2> QED BY <2>1, <2>2, <2>3
<1>7. PassesCounted'
  <2>1. tss[t].todo = {} /\ tss[t].pass < Iterations
    <3>1. tss[t].todo = {} /\ tss[t].pass = 0
      BY <1>1 DEF TssInv, PassesCounted
    <3> QED BY <3>1, TssConstants
  <2>2. ASSUME NEW u \in Threads
        PROVE  u = t \/ tss'[u] = tss[u]
    BY <1>4
  <2> QED BY <2>1, <2>2, <1>4, <1>5, <1>6 DEF TssInv, PassesCounted, Due
<1> QED BY <1>3, <1>7 DEF TssInv

LEMMA EndPassStep ==
    ASSUME TssInv, NEW t \in Threads, EndPass(t)
    PROVE  TssInv'
<1>0. /\ Types
      /\ tss[t] \in [pc : {"idle", "snapshot", "call", "gone"},
                     storing : Key \cup {NoKey}, value : Value,
                     pass : 0 .. Iterations, todo : SUBSET Pass]
  BY DEF TssInv, Types
<1> DEFINE next == IF tss[t].pass + 1 = Iterations THEN "gone" ELSE "snapshot"
           r == [tss[t] EXCEPT !.pass = @ + 1, !.pc = next]
<1>1. /\ tss' = [tss EXCEPT ![t] = r] /\ tss[t].pc = "call" /\ tss[t].todo = {}
      /\ UNCHANGED <<slots, tcb, keys, setBy, destroyed>>
  BY <1>0 DEF EndPass
<1>2. tss[t].pass \in Nat /\ tss[t].pass < Iterations /\ Iterations \in Nat
  BY <1>0, <1>1, TssConstants DEF TssInv, PassesCounted
<1>3. /\ r \in [pc : {"idle", "snapshot", "call", "gone"},
                storing : Key \cup {NoKey}, value : Value,
                pass : 0 .. Iterations, todo : SUBSET Pass]
      /\ r.storing = tss[t].storing /\ r.value = tss[t].value /\ r.todo = tss[t].todo
      /\ r.pass = tss[t].pass + 1 /\ r.pc = next
  <2>1. tss[t].pass + 1 \in 0 .. Iterations
    BY <1>2
  <2>2. next \in {"idle", "snapshot", "call", "gone"}
    OBVIOUS
  <2> HIDE DEF next
  <2> QED BY <2>1, <2>2, <1>0
<1>4. Types' /\ KeysNamed' /\ ValuesPlaced' /\ OnePlace'
  BY <1>1, <1>3, ThreadOnly
<1>5. /\ tss'[t].pc = next /\ tss'[t].todo = {} /\ tss'[t].pass = tss[t].pass + 1
      /\ \A u \in Threads \ {t} : tss'[u] = tss[u]
  BY <1>0, <1>1, <1>3 DEF Types
<1>6. \A u, id : Done(u, id)' = Done(u, id)
  BY <1>1 DEF Done
<1>7. \A id \in 1 .. MaxKeys : Cardinality(Done(t, id)) <= tss[t].pass + 1
  BY <1>1 DEF TssInv, PassesCounted
<1>8. PassesCounted'
  <2>1. ASSUME NEW u \in Threads \ {t}
        PROVE  tss'[u] = tss[u]
    BY <1>5
  <2>2. next = "gone" => tss[t].pass + 1 = Iterations
    OBVIOUS
  <2>3. next = "snapshot" => tss[t].pass + 1 < Iterations
    BY <1>2
  <2>4. next \in {"gone", "snapshot"}
    OBVIOUS
  <2> HIDE DEF next
  <2> QED BY <2>1, <2>2, <2>3, <2>4, <1>2, <1>5, <1>6, <1>7 DEF TssInv, PassesCounted, Due
<1> QED BY <1>4, <1>8 DEF TssInv

(* One critical section moves the values of active keys into the pass.     *)
LEMMA SnapshotStep ==
    ASSUME TssInv, NEW t \in Threads, Snapshot(t)
    PROVE  TssInv'
<1>c. tss[t] \in [pc : {"idle", "snapshot", "call", "gone"},
                  storing : Key \cup {NoKey}, value : Value,
                  pass : 0 .. Iterations, todo : SUBSET Pass]
  BY DEF TssInv, Types
<1>a. PICK P : P = Pending(t)
  OBVIOUS
<1>b. PICK T : T = {[slot |-> i, id |-> slots[i].id, value |-> tcb[t][i].value] : i \in P}
  OBVIOUS
<1>0. /\ Types /\ P \subseteq Slots /\ 0 \in Value /\ tss[t].pc = "snapshot"
      /\ \A i \in P : /\ slots[i].active /\ tcb[t][i].gen = slots[i].gen
                      /\ tcb[t][i].value # 0
  BY <1>a, TssConstants DEF TssInv, Pending, Snapshot, Value
<1>1. /\ slots' = slots /\ keys' = keys /\ setBy' = setBy /\ destroyed' = destroyed
      /\ tss' = [tss EXCEPT ![t].pc = IF P = {} THEN "gone" ELSE "call", ![t].todo = T]
      /\ tcb' = [tcb EXCEPT ![t] = [i \in Slots |->
                   IF i \in P THEN [tcb[t][i] EXCEPT !.value = 0] ELSE tcb[t][i]]]
  BY <1>a, <1>b, <1>0 DEF Snapshot, Types
<1>2. ASSUME NEW i \in P
      PROVE  \E k \in keys : /\ k.slot = i /\ k.gen = tcb[t][i].gen /\ k.id = slots[i].id
                             /\ SetFor(tcb[t][i].value, k, t)
  <2>1. PICK j \in keys : j.slot = i /\ j.gen = slots[i].gen /\ j.id = slots[i].id
    BY <1>0, <1>2 DEF TssInv, KeysNamed
  <2>2. PICK k \in keys : k.slot = i /\ k.gen = tcb[t][i].gen /\ SetFor(tcb[t][i].value, k, t)
    BY <1>0, <1>2 DEF TssInv, ValuesPlaced
  <2>3. j = k
    BY <2>1, <2>2, <1>0, <1>2 DEF TssInv, KeysNamed, SameKey
  <2> QED BY <2>1, <2>2, <2>3
<1>3. T \subseteq Pass
  <2> SUFFICES ASSUME NEW i \in P
               PROVE  [slot |-> i, id |-> slots[i].id, value |-> tcb[t][i].value] \in Pass
    BY <1>b
  <2>1. tcb[t][i].value \in Value \ {0} /\ i \in Slots
    BY <1>0 DEF Types
  <2>2. slots[i].id \in 1 .. MaxKeys
    BY <1>0, <1>2 DEF Types, Key
  <2> QED BY <2>1, <2>2 DEF Pass
<1>4. /\ tss'[t].pc = (IF P = {} THEN "gone" ELSE "call") /\ tss'[t].todo = T
      /\ tss'[t].pass = tss[t].pass /\ tss'[t].storing = tss[t].storing
      /\ tss'[t].value = tss[t].value
      /\ \A u \in Threads \ {t} : tss'[u] = tss[u]
  <2>1. tss'[t] = [tss[t] EXCEPT !.pc = IF P = {} THEN "gone" ELSE "call", !.todo = T]
        /\ \A u \in Threads \ {t} : tss'[u] = tss[u]
    BY <1>0, <1>1 DEF Types
  <2> QED BY <2>1, <1>c
<1>5. tss' \in [Threads -> [pc : {"idle", "snapshot", "call", "gone"},
                            storing : Key \cup {NoKey}, value : Value,
                            pass : 0 .. Iterations, todo : SUBSET Pass]]
  <2>1. PICK label \in {"gone", "call"} : label = IF P = {} THEN "gone" ELSE "call"
    OBVIOUS
  <2>2. tss' = [tss EXCEPT ![t].pc = label, ![t].todo = T]
    BY <2>1, <1>1
  <2> QED BY ZenonT(40), <2>2, <1>0, <1>3 DEF Types
<1>6. /\ tcb' \in [Threads -> [Slots -> [gen : 0 .. MaxKeys, value : Value]]]
      /\ \A i \in P : tcb'[t][i].value = 0
      /\ \A i \in Slots \ P : tcb'[t][i] = tcb[t][i]
      /\ \A u \in Threads \ {t} : tcb'[u] = tcb[u]
  <2>1. ASSUME NEW i \in Slots
        PROVE  [tcb[t][i] EXCEPT !.value = 0] \in [gen : 0 .. MaxKeys, value : Value]
               /\ [tcb[t][i] EXCEPT !.value = 0].value = 0
    <3>1. tcb[t][i] \in [gen : 0 .. MaxKeys, value : Value]
      BY <1>0 DEF Types
    <3> QED BY <3>1, <1>0
  <2> QED BY <2>1, <1>0, <1>1 DEF Types
<1>7. Types'
  BY <1>0, <1>1, <1>5, <1>6 DEF Types
<1>8. KeysNamed'
  BY <1>1 DEF TssInv, KeysNamed
<1>9. \A d \in T : /\ d.slot \in P /\ d.id = slots[d.slot].id
                   /\ d.value = tcb[t][d.slot].value
                   /\ d = [slot |-> d.slot, id |-> d.id, value |-> d.value]
  BY <1>b
<1>10. ValuesPlaced'
  <2>1. \A w, l, u : SetFor(w, l, u)' <=> SetFor(w, l, u)
    BY <1>1 DEF SetFor
  <2>2. ASSUME NEW u \in Threads, NEW i \in Slots, tcb'[u][i].value # 0
        PROVE  \E l \in keys : l.slot = i /\ l.gen = tcb'[u][i].gen
                               /\ SetFor(tcb'[u][i].value, l, u)
    <3>1. tcb'[u][i] = tcb[u][i]
      BY <2>2, <1>6
    <3> QED BY <2>2, <3>1 DEF TssInv, ValuesPlaced
  <2>3. ASSUME NEW d \in T PROVE SetFor(d.value, d, t)
    <3>1. PICK k \in keys : k.id = slots[d.slot].id /\ SetFor(tcb[t][d.slot].value, k, t)
      BY <1>2, <1>9
    <3>2. k.id = d.id /\ SetFor(d.value, k, t)
      BY <3>1, <1>9
    <3> QED BY <3>2 DEF SetFor
  <2>4. ASSUME NEW u \in Threads
        PROVE  /\ tss'[u].storing \in keys \cup {NoKey}
               /\ tss'[u].value # 0 =>
                    tss'[u].storing # NoKey /\ SetFor(tss'[u].value, tss'[u].storing, u)
               /\ \A d \in tss'[u].todo : SetFor(d.value, d, u)
    BY <2>3, <1>4 DEF TssInv, ValuesPlaced
  <2>5. ASSUME NEW u \in Threads, NEW i \in Slots, tcb'[u][i].value # 0
        PROVE  \E l \in keys' : l.slot = i /\ l.gen = tcb'[u][i].gen
                                /\ SetFor(tcb[u][i].value, l, u)'
    BY <2>2, <2>5, <1>1 DEF SetFor
  <2>6. ASSUME NEW u \in Threads
        PROVE  /\ tss'[u].storing \in keys' \cup {NoKey}
               /\ tss'[u].value # 0 =>
                    tss'[u].storing # NoKey /\ SetFor(tss[u].value, tss[u].storing, u)'
               /\ \A d \in tss'[u].todo : SetFor(d.value, d, u)'
    BY <2>4, <1>1 DEF SetFor
  <2> QED BY <2>5, <2>6 DEF ValuesPlaced
<1>11. OnePlace'
  <2>1. \A u \in Threads, i \in Slots : tcb'[u][i].value # 0 =>
           tcb'[u][i] = tcb[u][i] /\ (u = t => i \notin P)
    BY <1>6
  <2>2. ASSUME NEW d \in T
        PROVE  /\ destroyed[d.value] = 0 /\ tss[t].value # d.value /\ d.value # 0
               /\ \A i \in Slots : tcb'[t][i].value # d.value
    <3>1. d.slot \in Slots /\ tcb[t][d.slot].value = d.value /\ d.value # 0
      BY <1>0, <1>9
    <3>2. destroyed[d.value] = 0 /\ tss[t].value # d.value
      BY <3>1 DEF TssInv, OnePlace
    <3>3. ASSUME NEW i \in Slots, tcb'[t][i].value = d.value PROVE FALSE
      <4>1. tcb[t][i].value = tcb[t][d.slot].value /\ i \notin P
        BY <2>1, <3>1, <3>3
      <4>2. i = d.slot
        BY <3>1, <4>1 DEF TssInv, OnePlace
      <4> QED BY <4>1, <4>2, <1>9
    <3> QED BY <3>1, <3>2, <3>3
  <2>3. ASSUME NEW d \in T, NEW e \in T, d.value = e.value PROVE d = e
    <3>1. d.slot = e.slot
      BY <2>3, <1>0, <1>9 DEF TssInv, OnePlace
    <3> QED BY <2>3, <3>1, <1>9
  <2>4. \A u \in Threads : tss'[u].value = tss[u].value /\ (u # t => tss'[u].todo = tss[u].todo)
    BY <1>4
  <2>5. \A u \in Threads : \A d \in tss[u].todo : d.value # 0
    BY <1>0 DEF Types, Pass
  <2>6. \A u \in Threads \ {t} : tcb'[u] = tcb[u] /\ tss'[u] = tss[u]
    BY <1>4, <1>6
  <2>7. /\ \A i, j \in Slots : tcb'[t][i].value # 0 /\ tcb'[t][i].value = tcb'[t][j].value => i = j
        /\ \A i \in Slots : tcb'[t][i].value # 0 =>
              destroyed[tcb'[t][i].value] = 0 /\ tss[t].value # tcb'[t][i].value
    BY <2>1 DEF TssInv, OnePlace
  <2>8. tss[t].value # 0 => destroyed[tss[t].value] = 0
    BY DEF TssInv, OnePlace
  <2>9. ASSUME NEW u \in Threads
        PROVE  /\ \A i, j \in Slots :
                    tcb'[u][i].value # 0 /\ tcb'[u][i].value = tcb'[u][j].value => i = j
               /\ \A i \in Slots : tcb'[u][i].value # 0 =>
                    destroyed'[tcb'[u][i].value] = 0 /\ tss'[u].value # tcb'[u][i].value
               /\ tss'[u].value # 0 => destroyed'[tss'[u].value] = 0
               /\ \A d \in tss'[u].todo :
                    /\ destroyed'[d.value] = 0 /\ tss'[u].value # d.value
                    /\ \A i \in Slots : tcb'[u][i].value # d.value
               /\ \A d, e \in tss'[u].todo : d.value = e.value => d = e
    <3>1. CASE u = t
      <4>1. tss'[t].todo = T /\ tss'[t].value = tss[t].value /\ destroyed' = destroyed
        BY <1>1, <1>4
      <4> QED BY <3>1, <4>1, <2>2, <2>3, <2>7, <2>8
    <3>2. CASE u # t
      <4>1. tcb'[u] = tcb[u] /\ tss'[u] = tss[u] /\ destroyed' = destroyed
        BY <3>2, <2>6, <1>1
      <4> QED BY <4>1 DEF TssInv, OnePlace
    <3> QED BY <3>1, <3>2
  <2>10. \A w \in 1 .. MaxSets : destroyed'[w] <= 1 /\ (w > Len(setBy') => destroyed'[w] = 0)
    BY <1>1 DEF TssInv, OnePlace
  <2> QED BY <2>9, <2>10 DEF OnePlace
<1>12. \A u, id : Done(u, id)' = Done(u, id)
  BY <1>1 DEF Done
<1>13. PassesCounted'
  <2>1. ASSUME NEW d \in T, NEW e \in T, d.id = e.id PROVE d = e
    <3>1. PICK j \in keys : j.slot = d.slot /\ j.id = d.id
      BY <1>2, <1>9
    <3>2. PICK k \in keys : k.slot = e.slot /\ k.id = e.id
      BY <1>2, <1>9
    <3>3. d.slot = e.slot
      BY <2>1, <3>1, <3>2 DEF TssInv, KeysNamed
    <3> QED BY <3>3, <1>9
  <2>2. P = {} => T = {}
    BY <1>b
  <2>3. tss[t].pass \in Nat /\ tss[t].pass < Iterations /\ Iterations \in Nat
    BY <1>0, <1>c, TssConstants DEF TssInv, PassesCounted
  <2>4. ASSUME NEW id \in 1 .. MaxKeys
        PROVE  /\ Cardinality(Done(t, id)) <= tss[t].pass
               /\ Cardinality(Done(t, id)) \in Nat
    BY <1>0, DoneFinite DEF TssInv, PassesCounted
  <2>5. ASSUME NEW id \in 1 .. MaxKeys
        PROVE  /\ Cardinality(Done(t, id)) <= tss[t].pass + 1
               /\ Cardinality(Done(t, id)) <= Iterations
    BY <2>3, <2>4
  <2>6. \A u \in Threads \ {t} : tss'[u] = tss[u]
    BY <1>4
  <2> QED BY <2>1, <2>2, <2>3, <2>4, <2>5, <2>6, <1>4, <1>12 DEF TssInv, PassesCounted, Due
<1> QED BY <1>7, <1>8, <1>10, <1>11, <1>13 DEF TssInv

(* A destructor is called: its value is gone, and the key of that value is *)
(* not due again in this pass.                                             *)
LEMMA CallDestructorStep ==
    ASSUME TssInv, NEW t \in Threads, CallDestructor(t)
    PROVE  TssInv'
<1>c. tss[t] \in [pc : {"idle", "snapshot", "call", "gone"},
                  storing : Key \cup {NoKey}, value : Value,
                  pass : 0 .. Iterations, todo : SUBSET Pass]
  BY DEF TssInv, Types
<1>1. PICK d \in tss[t].todo : /\ tss' = [tss EXCEPT ![t].todo = @ \ {d}]
                               /\ destroyed' = [destroyed EXCEPT ![d.value] = @ + 1]
  BY DEF CallDestructor
<1>0. /\ Types /\ slots' = slots /\ tcb' = tcb /\ keys' = keys /\ setBy' = setBy
      /\ tss[t].pc = "call" /\ d \in Pass /\ MaxSets \in Nat
  BY <1>c, TssConstants DEF TssInv, CallDestructor
<1>2. d.value \in 1 .. MaxSets /\ d.id \in 1 .. MaxKeys
  BY <1>0 DEF Pass, Value
<1>3. destroyed[d.value] = 0 /\ SetFor(d.value, d, t)
  BY DEF TssInv, OnePlace, ValuesPlaced
<1>4. /\ destroyed' \in [1 .. MaxSets -> 0 .. MaxSets] /\ destroyed'[d.value] = 1
      /\ \A v \in 1 .. MaxSets : v # d.value => destroyed'[v] = destroyed[v]
  <2>1. 1 \in 0 .. MaxSets
    BY <1>0, <1>2
  <2>2. destroyed' = [destroyed EXCEPT ![d.value] = 1]
    BY <1>0, <1>1, <1>2, <1>3 DEF Types
  <2> QED BY <2>1, <2>2, <1>0, <1>2 DEF Types
<1>5. /\ tss'[t].pc = "call" /\ tss'[t].todo = tss[t].todo \ {d}
      /\ tss'[t].pass = tss[t].pass /\ tss'[t].storing = tss[t].storing
      /\ tss'[t].value = tss[t].value
      /\ \A u \in Threads \ {t} : tss'[u] = tss[u]
  <2>1. tss'[t] = [tss[t] EXCEPT !.todo = @ \ {d}]
        /\ \A u \in Threads \ {t} : tss'[u] = tss[u]
    BY <1>0, <1>1 DEF Types
  <2> QED BY <2>1, <1>c, <1>0
<1>6. tss' \in [Threads -> [pc : {"idle", "snapshot", "call", "gone"},
                            storing : Key \cup {NoKey}, value : Value,
                            pass : 0 .. Iterations, todo : SUBSET Pass]]
  BY <1>0, <1>1 DEF Types
<1>7. Types'
  BY <1>0, <1>4, <1>6 DEF Types
<1>8. KeysNamed'
  BY <1>0 DEF TssInv, KeysNamed
<1>9. \A u \in Threads : /\ tss'[u].storing = tss[u].storing /\ tss'[u].value = tss[u].value
                         /\ tss'[u].todo \subseteq tss[u].todo /\ tss'[u].pc = tss[u].pc
                         /\ tss'[u].pass = tss[u].pass
  BY <1>0, <1>5
<1>10. ValuesPlaced'
  BY <1>0, <1>9 DEF TssInv, ValuesPlaced, SetFor
(* The value belongs to this thread, so no other thread has it.            *)
<1>11. ASSUME NEW u \in Threads, NEW k, SetFor(d.value, k, u) PROVE u = t /\ k.id = d.id
  BY <1>3, <1>11 DEF SetFor
<1>12. OnePlace'
  <2>1. d.value <= Len(setBy) /\ d.value # 0
    BY <1>0, <1>3 DEF SetFor, Pass
  <2>2. \A v \in 1 .. MaxSets : destroyed'[v] <= 1 /\ (v > Len(setBy') => destroyed'[v] = 0)
    <3> TAKE v \in 1 .. MaxSets
    <3>1. CASE v = d.value
      <4>1. ~(v > Len(setBy))
        BY <3>1, <2>1, <1>0, <1>2 DEF Types
      <4> QED BY <3>1, <4>1, <1>0, <1>4
    <3>2. CASE v # d.value
      BY <3>2, <1>0, <1>4 DEF TssInv, OnePlace
    <3> QED BY <3>1, <3>2
  <2>3. ASSUME NEW u \in Threads, NEW i \in Slots, tcb[u][i].value # 0
        PROVE  tcb[u][i].value # d.value /\ destroyed'[tcb[u][i].value] = 0
    <3>1. tcb[u][i].value # d.value
      <4>1. CASE u = t
        BY <4>1 DEF TssInv, OnePlace
      <4>2. CASE u # t
        BY <4>2, <2>3, <1>11 DEF TssInv, ValuesPlaced
      <4> QED BY <4>1, <4>2
    <3>2. tcb[u][i].value \in 1 .. MaxSets
      BY <2>3, <1>0 DEF Types, Value
    <3> QED BY <3>1, <3>2, <2>3, <1>4 DEF TssInv, OnePlace
  <2>4. ASSUME NEW u \in Threads, tss[u].value # 0
        PROVE  destroyed'[tss[u].value] = 0
    <3>1. tss[u].value # d.value
      <4>1. CASE u = t
        BY <4>1 DEF TssInv, OnePlace
      <4>2. CASE u # t
        BY <4>2, <2>4, <1>11 DEF TssInv, ValuesPlaced
      <4> QED BY <4>1, <4>2
    <3>2. tss[u].value \in 1 .. MaxSets
      BY <2>4, <1>0 DEF Types, Value
    <3> QED BY <3>1, <3>2, <2>4, <1>4 DEF TssInv, OnePlace
  <2>5. ASSUME NEW u \in Threads, NEW e \in tss'[u].todo
        PROVE  destroyed'[e.value] = 0
    <3>0. e \in tss[u].todo
      BY <2>5, <1>9
    <3>1. e.value # d.value
      <4>1. CASE u = t
        BY <4>1, <2>5, <1>5, <3>0 DEF TssInv, OnePlace
      <4>2. CASE u # t
        BY <4>2, <3>0, <1>11 DEF TssInv, ValuesPlaced
      <4> QED BY <4>1, <4>2
    <3>2. e.value \in 1 .. MaxSets
      <4>1. tss[u].todo \in SUBSET Pass
        BY <1>0 DEF Types
      <4> QED BY <4>1, <3>0, <1>0 DEF Pass, Value
    <3> QED BY <3>0, <3>1, <3>2, <1>4 DEF TssInv, OnePlace
  <2> QED BY <2>2, <2>3, <2>4, <2>5, <1>0, <1>9 DEF TssInv, OnePlace
<1>13. ASSUME NEW u \in Threads, NEW id \in 1 .. MaxKeys
       PROVE  /\ u # t \/ id # d.id => Done(u, id)' = Done(u, id)
              /\ Done(t, d.id)' = Done(t, d.id) \cup {d.value}
  <2>1. DOMAIN setBy = 1 .. Len(setBy) /\ Len(setBy) \in Nat /\ Len(setBy) <= MaxSets
    BY <1>0 DEF Types
  <2>2. \A v \in DOMAIN setBy : v \in 1 .. MaxSets
    BY <2>1, <1>0
  <2>3. setBy[d.value] = [id |-> d.id, by |-> t] /\ d.value \in DOMAIN setBy
    BY <2>1, <1>2, <1>3 DEF SetFor
  <2> QED BY SMTT(30), <2>2, <2>3, <1>0, <1>4 DEF Done
<1>14. PassesCounted'
  <2>1. \A u \in Threads : IsFiniteSet(Done(u, d.id)) /\ Cardinality(Done(u, d.id)) \in Nat
    BY <1>0, DoneFinite
  <2>2. Cardinality(Done(t, d.id)') <= Cardinality(Done(t, d.id)) + 1
    <3>1. IsFiniteSet(Done(t, d.id)) /\ Cardinality(Done(t, d.id)) \in Nat
      BY <2>1
    <3>2. Cardinality(Done(t, d.id) \cup {d.value})
            \in {Cardinality(Done(t, d.id)), Cardinality(Done(t, d.id)) + 1}
      BY <3>1, FS_AddElement
    <3>3. Done(t, d.id)' = Done(t, d.id) \cup {d.value}
      BY <1>2, <1>13
    <3> QED BY <3>1, <3>2, <3>3
  <2>3. Cardinality(Done(t, d.id)) <= tss[t].pass
    BY <1>0, <1>2 DEF TssInv, PassesCounted, Due
  <2>4. Cardinality(Done(t, d.id)') <= tss[t].pass + 1
    <3>1. Cardinality(Done(t, d.id)') \in Nat
      BY <2>1, <1>2, <1>13, FS_AddElement, FS_CardinalityType
    <3>2. tss[t].pass \in Nat
      BY <1>c
    <3> QED BY <3>1, <3>2, <2>1, <2>2, <2>3
  <2>5. \A e \in tss'[t].todo : e.id # d.id
    BY <1>5 DEF TssInv, PassesCounted
  <2>6. ASSUME NEW u \in Threads
        PROVE  /\ tss'[u].pc \in {"snapshot", "call"} => tss'[u].pass < Iterations
               /\ tss'[u].pc # "call" => tss'[u].todo = {}
               /\ tss'[u].pc = "idle" => tss'[u].pass = 0
               /\ \A e, f \in tss'[u].todo : e.id = f.id => e = f
    BY <1>9 DEF TssInv, PassesCounted
  <2>7. ASSUME NEW u \in Threads, NEW id \in 1 .. MaxKeys, u # t \/ id # d.id
        PROVE  /\ Done(u, id)' = Done(u, id)
               /\ (\E e \in tss'[u].todo : e.id = id) => Due(u, id)
    BY <2>7, <1>9, <1>13 DEF Due
  <2>8. ASSUME NEW u \in Threads, NEW id \in 1 .. MaxKeys
        PROVE  /\ tss'[u].pc = "idle" => Done(u, id)' = {}
               /\ tss'[u].pc = "snapshot" => Cardinality(Done(u, id)') <= tss'[u].pass
               /\ tss'[u].pc = "call" => Cardinality(Done(u, id)') <= tss'[u].pass + 1
               /\ tss'[u].pc = "call" /\ (\E e \in tss'[u].todo : e.id = id) =>
                    Cardinality(Done(u, id)') <= tss'[u].pass
               /\ tss'[u].pc = "gone" => Cardinality(Done(u, id)') <= Iterations
    <3>1. CASE u # t \/ id # d.id
      BY <3>1, <2>7, <1>9 DEF TssInv, PassesCounted
    <3>2. CASE u = t /\ id = d.id
      BY <3>2, <2>4, <2>5, <1>5
    <3> QED BY <3>1, <3>2
  <2> QED BY <2>6, <2>8 DEF PassesCounted, Due
<1> QED BY <1>7, <1>8, <1>10, <1>12, <1>14 DEF TssInv

-----------------------------------------------------------------------------
LEMMA TssStepInv ==
    ASSUME TssInv, NEW t \in Threads, TssNext(t)
    PROVE  TssInv'
BY CreateStep, DeleteStep, SetCheckStep, SetStoreStep, LeaveStep, SnapshotStep,
   CallDestructorStep, EndPassStep DEF TssNext, ProgramStep, TssStep

(* Nothing else changes what the invariant speaks of.                      *)
LEMMA TssStutter == TssInv /\ UNCHANGED tssVars => TssInv'
<1> SUFFICES ASSUME TssInv, UNCHANGED tssVars PROVE TssInv'
  OBVIOUS
<1>1. /\ slots' = slots /\ tcb' = tcb /\ tss' = tss /\ keys' = keys
      /\ setBy' = setBy /\ destroyed' = destroyed
  BY DEF tssVars
<1>2. Types' /\ KeysNamed'
  BY <1>1 DEF TssInv, Types, KeysNamed, SameKey
<1>3. ValuesPlaced'
  BY <1>1 DEF TssInv, ValuesPlaced, SetFor
<1>4. OnePlace'
  BY <1>1 DEF TssInv, OnePlace
<1>5. PassesCounted'
  BY <1>1 DEF TssInv, PassesCounted, Done, Due
<1> QED BY <1>2, <1>3, <1>4, <1>5 DEF TssInv

(* What the invariant implies: the properties of module Tss.               *)
LEMMA TssSafe == TssInv => TssTypeOK /\ NoForeignValue /\ DestroyedOnce /\ BoundedRearming
<1> SUFFICES ASSUME TssInv
             PROVE  TssTypeOK /\ NoForeignValue /\ DestroyedOnce /\ BoundedRearming
  OBVIOUS
<1>0. Types
  BY DEF TssInv
<1>1. TssTypeOK
  <2>1. \A t \in Threads : tss[t].storing \in keys \cup {NoKey}
    BY DEF TssInv, ValuesPlaced
  <2>2. \A t \in Threads : tss[t] \in [pc : {"idle", "snapshot", "call", "gone"},
                                       storing : Key \cup {NoKey}, value : Value,
                                       pass : 0 .. Iterations, todo : SUBSET Pass]
    BY <1>0 DEF Types
  <2> QED BY <2>1, <2>2, <1>0 DEF TssTypeOK, Types, Pass
<1>2. NoForeignValue
  <2> SUFFICES ASSUME NEW t \in Threads, NEW k \in keys, Get(t, k) # 0
               PROVE  setBy[Get(t, k)] = [id |-> k.id, by |-> t]
    BY DEF NoForeignValue
  <2>1. /\ k.slot \in Slots /\ tcb[t][k.slot].gen = k.gen
        /\ Get(t, k) = tcb[t][k.slot].value
    BY <1>0 DEF Get, Types, Key
  <2>2. PICK l \in keys : l.slot = k.slot /\ l.gen = k.gen /\ SetFor(Get(t, k), l, t)
    BY <2>1 DEF TssInv, ValuesPlaced
  <2>3. l = k
    BY <2>2 DEF TssInv, KeysNamed, SameKey
  <2> QED BY <2>2, <2>3 DEF SetFor
<1>3. DestroyedOnce
  <2>1. \A v \in 1 .. MaxSets : destroyed[v] <= 1
    BY DEF TssInv, OnePlace
  <2>2. ASSUME NEW t \in Threads, NEW d \in tss[t].todo
        PROVE  /\ destroyed[d.value] = 0 /\ \A i \in Slots : tcb[t][i].value # d.value
               /\ setBy[d.value] = [id |-> d.id, by |-> t]
    <3>1. destroyed[d.value] = 0 /\ \A i \in Slots : tcb[t][i].value # d.value
      BY DEF TssInv, OnePlace
    <3>2. SetFor(d.value, d, t)
      BY DEF TssInv, ValuesPlaced
    <3> QED BY <3>1, <3>2 DEF SetFor
  <2> QED BY <2>1, <2>2 DEF DestroyedOnce
<1>4. BoundedRearming
  <2> SUFFICES ASSUME NEW t \in Threads, NEW k \in keys
               PROVE  Cardinality(Done(t, k.id)) <= Iterations
    BY DEF BoundedRearming, Done
  <2>1. /\ k.id \in 1 .. MaxKeys /\ Iterations \in Nat \ {0} /\ tss[t].pass \in 0 .. Iterations
        /\ tss[t].pc \in {"idle", "snapshot", "call", "gone"}
    BY <1>0, TssConstants DEF Types, Key
  <2>2. Cardinality(Done(t, k.id)) \in Nat
    BY <1>0, DoneFinite
  <2>3. CASE tss[t].pc = "idle"
    <3>1. Done(t, k.id) = {}
      BY <2>1, <2>3 DEF TssInv, PassesCounted
    <3>2. Cardinality(Done(t, k.id)) = 0
      BY <3>1, FS_EmptySet
    <3> QED BY <2>1, <3>2
  <2>4. CASE tss[t].pc = "snapshot"
    BY <2>1, <2>2, <2>4 DEF TssInv, PassesCounted
  <2>5. CASE tss[t].pc = "call"
    BY <2>1, <2>2, <2>5 DEF TssInv, PassesCounted
  <2>6. CASE tss[t].pc = "gone"
    BY <2>1, <2>6 DEF TssInv, PassesCounted
  <2> QED BY <2>1, <2>3, <2>4, <2>5, <2>6
<1> QED BY <1>1, <1>2, <1>3, <1>4

-----------------------------------------------------------------------------
(* call_once.                                                              *)

(* One thread at a time is between its inspection of a flag and its        *)
(* publication, the flag is running meanwhile, and ran counts what it has  *)
(* done so far.                                                            *)
Working(t) == once[t].pc \in {"run", "publish"}

OneInitializer ==
    /\ \A t \in Threads : Working(t) => flag[once[t].flag] = "running"
    /\ \A t, u \in Threads :
         Working(t) /\ Working(u) /\ once[t].flag = once[u].flag => t = u

RanCounted ==
    /\ \A f \in Flags : flag[f] = "uninitialized" => ran[f] = 0
    /\ \A f \in Flags : flag[f] = "complete" => ran[f] = 1
    /\ \A t \in Threads : OnceAt(t, "run") => ran[once[t].flag] = 0
    /\ \A t \in Threads : OnceAt(t, "publish") => ran[once[t].flag] = 1
    /\ \A t \in Threads : OnceAt(t, "wakeall") => flag[once[t].flag] = "complete"

OnceTypes ==
    /\ OnceTypeOK
    /\ ran \in [Flags -> Nat]
    /\ passed \in [Threads -> SUBSET Flags]

OnceInv ==
    OnceTypes /\ OneInitializer /\ RanCounted /\ PassedAfterInitializer /\ NoStrandedCaller

LEMMA OnceInitInv == Init => OnceInv
<1> SUFFICES ASSUME Init PROVE OnceInv
  OBVIOUS
<1>1. \A t \in Threads : once[t].pc = "idle" /\ once[t].flag \in Flags
  BY OnceConstants DEF Init, OnceInit
<1> QED
  BY <1>1 DEF Init, OnceInit, OnceInv, OnceTypes, OnceTypeOK, OncePCs, OneInitializer,
     Working, RanCounted, PassedAfterInitializer, NoStrandedCaller, OnceAt

(* The initializer itself.                                                 *)
LEMMA InitializerStep ==
    ASSUME OnceInv, NEW t \in Threads, Initializer(t)
    PROVE  OnceInv'
<1> DEFINE f == once[t].flag
<1>0. /\ once \in [Threads -> [pc : OncePCs, flag : Flags]] /\ once[t].pc = "run"
      /\ once' = [once EXCEPT ![t].pc = "publish"] /\ flag' = flag /\ passed' = passed
      /\ ran' = [ran EXCEPT ![f] = @ + 1] /\ f \in Flags
  BY DEF OnceInv, OnceTypes, OnceTypeOK, Initializer, RunInitializer, OnceAt, OnceGoto
<1>1. OnceTypes'
  BY <1>0 DEF OnceInv, OnceTypes, OnceTypeOK, OncePCs
<1>2. OneInitializer'
  BY <1>0 DEF OnceInv, OneInitializer, Working
<1>3. flag[f] = "running" /\ ran[f] = 0
      /\ \A u \in Threads \ {t} : Working(u) => once[u].flag # f
  BY <1>0 DEF OnceInv, OneInitializer, Working, RanCounted, OnceAt
<1>4. RanCounted'
  BY <1>0, <1>3 DEF OnceInv, OnceTypes, RanCounted, OnceAt, Working
<1>5. PassedAfterInitializer'
  BY <1>0, <1>3 DEF OnceInv, OnceTypes, PassedAfterInitializer
<1>6. NoStrandedCaller'
  BY <1>0 DEF OnceInv, NoStrandedCaller, OnceAt
<1> QED BY <1>1, <1>2, <1>4, <1>5, <1>6 DEF OnceInv

(* A step of call_once that changes one flag and what one thread does; the *)
(* thread passes only where it finds the flag complete.                    *)
Moves(t, pc, g, state) ==
    /\ once' = [once EXCEPT ![t] = [pc |-> pc, flag |-> g]]
    /\ flag' = [flag EXCEPT ![g] = state]
    /\ once[t].pc # "idle" => g = once[t].flag
    /\ once[t].pc # "wakeall"
    /\ pc = "idle" => state = "complete" /\ ran[g] = 1
    /\ pc = "run" => flag[g] = "uninitialized" /\ state = "running"
    /\ pc = "wakeall" => state = "complete" /\ ran[g] = 1
    /\ pc = "asleep" => state # "complete"
    /\ Working(t) => pc = "wakeall"
    /\ state # flag[g] => pc = "run" \/ (Working(t) /\ pc = "wakeall")

LEMMA GotoMoves ==
    ASSUME once \in [Threads -> [pc : OncePCs, flag : Flags]], NEW t \in Threads,
           NEW label, OnceGoto(t, label)
    PROVE  once' = [once EXCEPT ![t] = [pc |-> label, flag |-> once[t].flag]]
<1>1. [once[t] EXCEPT !.pc = label] = [pc |-> label, flag |-> once[t].flag]
  BY once[t] \in [pc : OncePCs, flag : Flags]
<1> QED BY <1>1 DEF OnceGoto

LEMMA OnceFramed ==
    ASSUME OnceInv, NEW t \in Threads, NEW pc \in OncePCs \ {"publish"}, NEW g \in Flags,
           NEW state \in {"uninitialized", "running", "complete"},
           Moves(t, pc, g, state), ran' = ran, NotePassed
    PROVE  OnceInv'
<1> USE DEF Moves
<1>0. /\ once \in [Threads -> [pc : OncePCs, flag : Flags]]
      /\ flag \in [Flags -> {"uninitialized", "running", "complete"}]
      /\ ran \in [Flags -> Nat] /\ passed \in [Threads -> SUBSET Flags]
  BY DEF OnceInv, OnceTypes, OnceTypeOK
<1>1. /\ once'[t].pc = pc /\ once'[t].flag = g
      /\ \A u \in Threads \ {t} : once'[u] = once[u]
      /\ flag'[g] = state /\ \A f \in Flags \ {g} : flag'[f] = flag[f]
  BY <1>0
<1>2. \A f \in Flags : flag[f] = "complete" => flag'[f] = "complete"
  BY <1>0, <1>1 DEF OnceInv, OneInitializer, Working
<1>3. OnceTypes'
  BY <1>0 DEF OnceTypes, OnceTypeOK, NotePassed
<1>4. OneInitializer'
  BY <1>0, <1>1 DEF OnceInv, OneInitializer, Working
<1>5. RanCounted'
  BY <1>0, <1>1 DEF OnceInv, OneInitializer, Working, RanCounted, OnceAt
<1>6. \A u \in Threads :
         \/ passed'[u] = passed[u]
         \/ u = t /\ pc = "idle" /\ passed'[u] = passed[u] \cup {g}
  BY <1>0, <1>1 DEF NotePassed
<1>7. PassedAfterInitializer'
  BY <1>0, <1>1, <1>2, <1>6 DEF OnceInv, PassedAfterInitializer
<1>8. NoStrandedCaller'
  <2> SUFFICES ASSUME NEW u \in Threads, OnceAt(u, "asleep")',
                      flag'[once'[u].flag] = "complete"
               PROVE  \E w \in Threads : OnceAt(w, "wakeall")' /\ once'[w].flag = once'[u].flag
    BY DEF NoStrandedCaller
  <2>1. u # t
    BY <1>1 DEF OnceAt
  <2>2. CASE flag[once[u].flag] = "complete"
    <3>1. PICK w \in Threads : OnceAt(w, "wakeall") /\ once[w].flag = once[u].flag
      BY <2>1, <2>2, <1>1 DEF OnceInv, NoStrandedCaller, OnceAt
    <3>2. once'[w].pc = "wakeall" /\ once'[w].flag = once[w].flag
      BY <3>1, <1>1 DEF OnceAt
    <3> QED BY <3>1, <3>2, <2>1, <1>1 DEF OnceAt
  <2>3. CASE flag[once[u].flag] # "complete"
    <3>1. once[u].flag = g /\ pc = "wakeall"
      BY <2>1, <2>3, <1>0, <1>1
    <3> QED BY <3>1, <2>1, <1>1 DEF OnceAt
  <2> QED BY <2>2, <2>3
<1> QED BY <1>3, <1>4, <1>5, <1>7, <1>8 DEF OnceInv

LEMMA WakeAllStep ==
    ASSUME OnceInv, NEW t \in Threads, OnceWakeAll(t), NotePassed, ran' = ran
    PROVE  OnceInv'
<1> DEFINE g == once[t].flag
<1>0. /\ once \in [Threads -> [pc : OncePCs, flag : Flags]]
      /\ flag \in [Flags -> {"uninitialized", "running", "complete"}]
      /\ ran \in [Flags -> Nat] /\ passed \in [Threads -> SUBSET Flags]
      /\ g \in Flags /\ once[t].pc = "wakeall" /\ flag[g] = "complete" /\ ran[g] = 1
      /\ flag' = flag
  BY DEF OnceInv, OnceTypes, OnceTypeOK, OnceWakeAll, OnceAt, RanCounted
<1>1. once' \in [Threads -> [pc : OncePCs, flag : Flags]]
  BY <1>0 DEF OnceWakeAll, OncePCs
<1>2. /\ once'[t].pc = "idle"
      /\ \A u \in Threads :
           /\ once'[u].flag = once[u].flag
           /\ u # t => \/ once'[u].pc = once[u].pc
                          /\ ~(once[u].pc = "asleep" /\ once[u].flag = g)
                       \/ once'[u].pc = "inspect" /\ once[u].pc = "asleep"
  BY <1>0 DEF OnceWakeAll, OnceAt
<1>3. OnceTypes'
  BY <1>0, <1>1 DEF OnceTypes, OnceTypeOK, NotePassed
<1>4. OneInitializer'
  BY <1>0, <1>2 DEF OnceInv, OneInitializer, Working
<1>5. RanCounted'
  BY <1>0, <1>2 DEF OnceInv, RanCounted, OnceAt
<1>6. \A u \in Threads : passed'[u] = passed[u] \/ passed'[u] = passed[u] \cup {g}
  BY <1>0, <1>2 DEF NotePassed
<1>7. PassedAfterInitializer'
  BY <1>0, <1>6 DEF OnceInv, PassedAfterInitializer
<1>8. NoStrandedCaller'
  <2> SUFFICES ASSUME NEW u \in Threads, OnceAt(u, "asleep")',
                      flag'[once'[u].flag] = "complete"
               PROVE  \E w \in Threads : OnceAt(w, "wakeall")' /\ once'[w].flag = once'[u].flag
    BY DEF NoStrandedCaller
  <2>1. u # t /\ once[u].pc = "asleep" /\ once[u].flag # g
        /\ flag[once[u].flag] = "complete"
    BY <1>0, <1>2 DEF OnceAt
  <2>2. PICK w \in Threads : OnceAt(w, "wakeall") /\ once[w].flag = once[u].flag
    BY <2>1 DEF OnceInv, NoStrandedCaller, OnceAt
  <2> QED BY <2>1, <2>2, <1>2 DEF OnceAt
<1> QED BY <1>3, <1>4, <1>5, <1>7, <1>8 DEF OnceInv

(* Every step of a thread in call_once.                                    *)
LEMMA OncePartStep ==
    ASSUME OnceInv, NEW t \in Threads, OncePart(t)
    PROVE  OnceInv'
<1> DEFINE f == once[t].flag
<1>0. /\ once \in [Threads -> [pc : OncePCs, flag : Flags]]
      /\ flag \in [Flags -> {"uninitialized", "running", "complete"}]
      /\ f \in Flags /\ ran' = ran /\ NotePassed
  BY DEF OnceInv, OnceTypes, OnceTypeOK, OncePart
<1>1. ASSUME NEW g \in Flags, CallOnce(t, g) PROVE OnceInv'
  <2>1. /\ once' = [once EXCEPT ![t] = [pc |-> "inspect", flag |-> g]]
        /\ flag' = [flag EXCEPT ![g] = flag[g]] /\ once[t].pc = "idle"
    BY <1>0, <1>1 DEF CallOnce, OnceAt
  <2>2. Moves(t, "inspect", g, flag[g])
    BY <2>1 DEF Moves, Working
  <2> QED BY <2>2, <1>0, OnceFramed DEF OncePCs
<1>2. CASE Inspect(t)
  <2>0. once[t].pc = "inspect"
    BY <1>2 DEF Inspect, OnceAt
  <2>1. CASE flag[f] = "complete"
    <3>1. /\ once' = [once EXCEPT ![t] = [pc |-> "idle", flag |-> f]]
          /\ flag' = [flag EXCEPT ![f] = "complete"] /\ ran[f] = 1
      BY <1>0, <1>2, <2>0, <2>1, GotoMoves DEF Inspect, OnceInv, RanCounted
    <3>2. Moves(t, "idle", f, "complete")
      BY <3>1, <2>0, <2>1 DEF Moves, Working
    <3> QED BY <3>2, <1>0, OnceFramed DEF OncePCs
  <2>2. CASE flag[f] = "uninitialized"
    <3>1. /\ once' = [once EXCEPT ![t] = [pc |-> "run", flag |-> f]]
          /\ flag' = [flag EXCEPT ![f] = "running"]
      BY <1>0, <1>2, <2>2, GotoMoves DEF Inspect
    <3>2. Moves(t, "run", f, "running")
      BY <3>1, <2>0, <2>2 DEF Moves, Working
    <3> QED BY <3>2, <1>0, OnceFramed DEF OncePCs
  <2>3. CASE flag[f] = "running"
    <3>1. /\ once' = [once EXCEPT ![t] = [pc |-> "wait", flag |-> f]]
          /\ flag' = [flag EXCEPT ![f] = "running"]
      BY <1>0, <1>2, <2>3, GotoMoves DEF Inspect
    <3>2. Moves(t, "wait", f, "running")
      BY <3>1, <2>0, <2>3 DEF Moves, Working
    <3> QED BY <3>2, <1>0, OnceFramed DEF OncePCs
  <2> QED BY <1>0, <2>1, <2>2, <2>3
<1>3. CASE Publish(t)
  <2>1. /\ once' = [once EXCEPT ![t] = [pc |-> "wakeall", flag |-> f]]
        /\ flag' = [flag EXCEPT ![f] = "complete"]
        /\ once[t].pc = "publish" /\ ran[f] = 1
    BY <1>0, <1>3, GotoMoves DEF Publish, OnceAt, OnceInv, RanCounted
  <2>2. Moves(t, "wakeall", f, "complete")
    BY <2>1 DEF Moves, Working
  <2> QED BY <2>2, <1>0, OnceFramed DEF OncePCs
<1>4. CASE OnceWakeAll(t)
  BY <1>0, <1>4, WakeAllStep
<1>5. CASE OnceWait(t)
  <2>1. CASE flag[f] = "running"
    <3>1. /\ once' = [once EXCEPT ![t] = [pc |-> "asleep", flag |-> f]]
          /\ flag' = [flag EXCEPT ![f] = "running"] /\ once[t].pc = "wait"
      BY <1>0, <1>5, <2>1, GotoMoves DEF OnceWait, OnceAt
    <3>2. Moves(t, "asleep", f, "running")
      BY <3>1, <2>1 DEF Moves, Working
    <3> QED BY <3>2, <1>0, OnceFramed DEF OncePCs
  <2>2. CASE flag[f] # "running"
    <3>1. /\ once' = [once EXCEPT ![t] = [pc |-> "inspect", flag |-> f]]
          /\ flag' = [flag EXCEPT ![f] = flag[f]] /\ once[t].pc = "wait"
      BY <1>0, <1>5, <2>2, GotoMoves DEF OnceWait, OnceAt
    <3>2. Moves(t, "inspect", f, flag[f])
      BY <3>1 DEF Moves, Working
    <3> QED BY <3>2, <1>0, OnceFramed DEF OncePCs
  <2> QED BY <2>1, <2>2
<1>6. CASE OnceInterrupt(t)
  <2>1. /\ once' = [once EXCEPT ![t] = [pc |-> "inspect", flag |-> f]]
        /\ flag' = [flag EXCEPT ![f] = flag[f]] /\ once[t].pc = "asleep"
    BY <1>0, <1>6, GotoMoves DEF OnceInterrupt, OnceAt
  <2>2. Moves(t, "inspect", f, flag[f])
    BY <2>1 DEF Moves, Working
  <2> QED BY <2>2, <1>0, OnceFramed DEF OncePCs
<1> QED BY <1>1, <1>2, <1>3, <1>4, <1>5, <1>6 DEF OncePart, OnceStep

THEOREM OnceInvariant == Spec => []OnceInv
<1>1. OnceInv /\ [Next]_vars => OnceInv'
  <2> SUFFICES ASSUME OnceInv, [Next]_vars PROVE OnceInv'
    OBVIOUS
  <2>1. ASSUME NEW t \in Threads, TssPart(t) PROVE OnceInv'
    BY <2>1 DEF TssPart, onceVars, OnceInv, OnceTypes, OnceTypeOK, OneInitializer, Working,
       RanCounted, PassedAfterInitializer, NoStrandedCaller, OnceAt
  <2>2. CASE UNCHANGED vars
    BY <2>2 DEF vars, onceVars, OnceInv, OnceTypes, OnceTypeOK, OneInitializer, Working,
       RanCounted, PassedAfterInitializer, NoStrandedCaller, OnceAt
  <2> QED BY <2>1, <2>2, InitializerStep, OncePartStep DEF Next
<1> QED BY <1>1, OnceInitInv, PTL DEF Spec

(* once.c: a caller that has returned finds the flag complete and the      *)
(* initializer run exactly once.                                           *)
THEOREM PassedSafe == Spec => []PassedAfterInitializer
<1>1. OnceInv => PassedAfterInitializer
  BY DEF OnceInv
<1> QED BY <1>1, OnceInvariant, PTL

(* once.c: a sleeper on a completed flag is about to be woken.             *)
THEOREM CallersNotStranded == Spec => []NoStrandedCaller
<1>1. OnceInv => NoStrandedCaller
  BY DEF OnceInv
<1> QED BY <1>1, OnceInvariant, PTL

(* Every step of the composition is one of Tss, or leaves Tss alone.       *)
THEOREM TssInvariant == Spec => []TssInv
<1>1. Init => TssInv
  BY TssInitInv DEF Init
<1>2. TssInv /\ [Next]_vars => TssInv'
  <2> SUFFICES ASSUME TssInv, [Next]_vars PROVE TssInv'
    OBVIOUS
  <2>1. ASSUME NEW t \in Threads, Initializer(t) PROVE TssInv'
    <3>1. CASE Create(t, TRUE)
      <4>1. TssNext(t)
        BY <3>1 DEF TssNext, ProgramStep
      <4> QED BY <4>1, TssStepInv
    <3>2. CASE UNCHANGED tssVars
      BY <3>2, TssStutter
    <3> QED BY <2>1, <3>1, <3>2 DEF Initializer
  <2>2. ASSUME NEW t \in Threads, OncePart(t) PROVE TssInv'
    BY <2>2, TssStutter DEF OncePart
  <2>3. ASSUME NEW t \in Threads, TssPart(t) PROVE TssInv'
    <3>1. TssNext(t)
      BY <2>3 DEF TssPart, TssNext
    <3> QED BY <3>1, TssStepInv
  <2>4. CASE UNCHANGED vars
    BY <2>4, TssStutter DEF vars
  <2> QED BY <2>1, <2>2, <2>3, <2>4 DEF Next
<1> QED BY <1>1, <1>2, PTL DEF Spec

(* tss.c: a value shows only through the key and to the thread that set it,*)
(* is destroyed once, and re-arming is bounded.                            *)
THEOREM ValuesSafe == Spec => []ValuesRight
<1>1. OnceInv /\ TssInv => ValuesRight
  BY TssSafe DEF OnceInv, OnceTypes, ValuesRight, TypeOK
<1> QED BY <1>1, OnceInvariant, TssInvariant, PTL
=============================================================================
