-------------------------- MODULE TerminationProof --------------------------
(***************************************************************************)
(* Proofs about the end of the process, for any number of threads,         *)
(* registrations and writes: handlers run youngest first and each once,    *)
(* exit forgets no handler and leaves no output behind, and, if handlers   *)
(* create no threads, one thread at most ends the process.                 *)
(***************************************************************************)
EXTENDS Termination, FiniteSetTheorems, TLAPS

Ending == {"drain", "handler", "flush", "finish"}

TypesInv ==
    /\ registry \in [Kinds -> Seq(Nat)]
    /\ pc \in [Threads -> PCs]
    /\ ending \in [Threads -> Kinds]
    /\ asked \in BOOLEAN
    /\ io \in Threads \cup {NoThread}
    /\ dirty \subseteq [by : Threads, late : BOOLEAN] /\ writes \in 0 .. MaxWrites
    /\ born \in Seq([kind : Kinds, late : BOOLEAN]) /\ Len(born) <= MaxRegistrations
    /\ events \in Seq([what : {"registered", "called"}, id : Nat])
    /\ ended \in [how : {"running", "_Exit"} \cup Kinds, by : Threads \cup {NoThread}]

Registered(id) == \E i \in DOMAIN events : events[i] = [what |-> "registered", id |-> id]

Called(id) == \E i \in DOMAIN events : events[i] = [what |-> "called", id |-> id]

Waiting(id) == \E i \in DOMAIN registry[born[id].kind] : registry[born[id].kind][i] = id

(* The registries and the history of events tell the same story: a handler *)
(* waits in the registry of its kind, behind older ones, until it is       *)
(* called.                                                                 *)
HistoryInv ==
    /\ \A k \in Kinds :
         /\ Len(registry[k]) <= Capacity
         /\ \A i \in DOMAIN registry[k] :
              registry[k][i] \in DOMAIN born /\ born[registry[k][i]].kind = k
         /\ \A i, j \in DOMAIN registry[k] : i < j => registry[k][i] < registry[k][j]
    /\ \A i \in DOMAIN events : events[i].id \in DOMAIN born
    /\ \A id \in DOMAIN born : Registered(id) /\ (Waiting(id) <=> ~Called(id))
    /\ Len(events) + Len(registry["exit"]) + Len(registry["quick"]) = 2 * Len(born)

(* A handler that is registered when the drain of its kind is over is one  *)
(* that came late, and the process ends by a drain that is over.           *)
LateInv ==
    /\ \A k \in Kinds : Drained(k) =>
         \A i \in DOMAIN registry[k] : born[registry[k][i]].late
    /\ ended.how \in Kinds => Drained(ended.how)

Flushed == \E u \in Threads : ending[u] = "exit" /\ pc[u] = "finish"

(* Output that is unwritten after the flush came after it.                 *)
FlushInv ==
    /\ Flushed => \A w \in dirty : w.late
    /\ ended.how = "exit" => Flushed

Active == {t \in Threads : pc[t] \notin {"unborn", "gone"}}

Reserved == {t \in Threads : pc[t] = "reserved"}

Enders == {t \in Threads : pc[t] \in Ending}

(* The thread that found itself the last ends the process uncounted.       *)
LastPath == ~asked /\ Enders # {}

(* The count, and who ends the process: the one thread that called exit or *)
(* quick_exit, or the last one, with nobody else left.                     *)
CountInv ==
    /\ count \in Nat
    /\ count + (IF LastPath THEN 1 ELSE 0) = Cardinality(Active) + Cardinality(Reserved)
    /\ Cardinality(Reserved) <= Cardinality(Unborn)
    /\ \A t, u \in Enders : t = u
    /\ asked => Enders # {}
    /\ LastPath => \A t \in Threads \ Enders : pc[t] \in {"unborn", "gone"}

-----------------------------------------------------------------------------
LEMMA TypesInit == Init => TypesInv
<1> SUFFICES ASSUME Init PROVE TypesInv
  OBVIOUS
<1> USE TerminationConstants DEF Init, Kinds
<1>1. registry \in [Kinds -> Seq(Nat)]
  OBVIOUS
<1>2. pc \in [Threads -> PCs] /\ ending \in [Threads -> Kinds]
  BY DEF PCs
<1>3. ended \in [how : {"running", "_Exit"} \cup Kinds, by : Threads \cup {NoThread}]
  BY DEF Alive
<1>4. born \in Seq([kind : Kinds, late : BOOLEAN]) /\ Len(born) = 0
  OBVIOUS
<1>5. events \in Seq([what : {"registered", "called"}, id : Nat])
  OBVIOUS
<1>6. /\ asked \in BOOLEAN /\ io \in Threads \cup {NoThread}
      /\ dirty \subseteq [by : Threads, late : BOOLEAN] /\ writes \in 0 .. MaxWrites
      /\ 0 <= MaxRegistrations
  <2>1. asked \in BOOLEAN
    BY Zenon
  <2>2. io \in Threads \cup {NoThread} /\ writes \in 0 .. MaxWrites /\ 0 <= MaxRegistrations
    OBVIOUS
  <2> QED BY <2>1, <2>2
<1> HIDE DEF Init
<1> QED BY <1>1, <1>2, <1>3, <1>4, <1>5, <1>6 DEF TypesInv

LEMMA TypesStep == TypesInv /\ [Next]_vars => TypesInv'
<1> SUFFICES ASSUME TypesInv, [Next]_vars PROVE TypesInv'
  OBVIOUS
<1> USE TerminationConstants DEF TypesInv, PCs, Goto
<1>1. ASSUME NEW t \in Threads, NEW k \in Kinds, Register(t, k) PROVE TypesInv'
  <2>1. Drained(k) \in BOOLEAN
    BY DEF Drained
  <2>2. Append(born, [kind |-> k, late |-> Drained(k)]) \in Seq([kind : Kinds, late : BOOLEAN])
    BY <2>1
  <2>3. Len(born') = Len(born) + 1 /\ Len(born) \in Nat
    BY <1>1, <2>2 DEF Register
  <2>4. registry' \in [Kinds -> Seq(Nat)]
    BY <1>1, <2>3 DEF Register
  <2> QED BY <1>1, <2>2, <2>3, <2>4 DEF Register
<1>2. ASSUME NEW t \in Threads, BeginWrite(t) PROVE TypesInv'
  <2>1. PICK b : b = (\E u \in Threads : ending[u] = "exit" /\ pc[u] = "finish")
    OBVIOUS
  <2>2. b \in BOOLEAN
    BY <2>1
  <2>3. dirty' = dirty \cup {[by |-> t, late |-> b]}
    BY <1>2, <2>1 DEF BeginWrite
  <2> QED BY <1>2, <2>2, <2>3 DEF BeginWrite
<1>3. ASSUME NEW t \in Threads,
             \/ EndWrite(t) \/ Reserve(t) \/ Clone(t) \/ CreateInCallback(t)
             \/ ThrdExit(t) \/ HandlerReturns(t) \/ FlushAll(t)
      PROVE  TypesInv'
  <2>1. CASE EndWrite(t)
    BY <2>1 DEF EndWrite
  <2>2. CASE Reserve(t)
    BY <2>2 DEF Reserve
  <2>6. CASE ThrdExit(t) 
    BY <2>6 DEF ThrdExit
  <2>7. CASE HandlerReturns(t)
    BY <2>7 DEF HandlerReturns
  <2>3. CASE Clone(t)
    BY <2>3 DEF Clone, Unborn
  <2>4. CASE CreateInCallback(t)
    BY <2>4 DEF CreateInCallback, Unborn
  <2>5. CASE FlushAll(t)
    BY <2>5 DEF FlushAll
  <2> QED BY <1>3, <2>1, <2>2, <2>3, <2>4, <2>5, <2>6, <2>7
<1>4. ASSUME NEW t \in Threads, CountOut(t) PROVE TypesInv'
  BY <1>4 DEF CountOut, Kinds
<1>5. ASSUME NEW t \in Threads, NEW k \in Kinds, CallExit(t, k) PROVE TypesInv'
  BY <1>5 DEF CallExit
<1>6. ASSUME NEW t \in Threads, Pop(t) PROVE TypesInv'
  <2>1. CASE registry[ending[t]] = <<>>
    BY <1>6, <2>1 DEF Pop, AfterDrain
  <2>2. CASE registry[ending[t]] # <<>>
    <3>1. PICK r \in Seq(Nat) : r = registry[ending[t]]
      OBVIOUS
    <3>2. r # <<>> /\ Len(r) \in Nat \ {0} /\ r[Len(r)] \in Nat
      BY <2>2, <3>1
    <3>3. SubSeq(r, 1, Len(r) - 1) \in Seq(Nat)
      BY <3>2
    <3>4. /\ registry' = [registry EXCEPT ![ending[t]] = SubSeq(r, 1, Len(r) - 1)]
          /\ events' = Append(events, [what |-> "called", id |-> r[Len(r)]])
          /\ pc' = [pc EXCEPT ![t] = "handler"]
      BY <1>6, <2>2, <3>1 DEF Pop
    <3>5. events' \in Seq([what : {"registered", "called"}, id : Nat])
      BY <3>2, <3>4
    <3> QED BY <1>6, <3>3, <3>4, <3>5 DEF Pop
  <2> QED BY <2>1, <2>2
<1>7. ASSUME NEW t \in Threads, ExitGroup(t) \/ CallExitGroup(t) PROVE TypesInv'
  BY <1>7 DEF ExitGroup, CallExitGroup
<1>8. CASE UNCHANGED vars
  BY <1>8 DEF vars
<1> QED BY <1>1, <1>2, <1>3, <1>4, <1>5, <1>6, <1>7, <1>8 DEF Next, Terminate, Program

-----------------------------------------------------------------------------
(* A new registration: what it leaves of the registries and the history.   *)
LEMMA RegisterEffect ==
    ASSUME TypesInv, HistoryInv, NEW t \in Threads, NEW k \in Kinds, Register(t, k)
    PROVE  LET id == Len(born) + 1 IN
           /\ id \in Nat /\ DOMAIN born' = DOMAIN born \cup {id} /\ id \notin DOMAIN born
           /\ \A i \in DOMAIN born : born'[i] = born[i]
           /\ born'[id] = [kind |-> k, late |-> Drained(k)] /\ Len(born') = id
           /\ DOMAIN registry'[k] = DOMAIN registry[k] \cup {Len(registry[k]) + 1}
           /\ Len(registry'[k]) = Len(registry[k]) + 1 /\ Len(registry[k]) \in Nat
           /\ DOMAIN registry[k] = 1 .. Len(registry[k])
           /\ Len(registry'[k]) <= Capacity
           /\ registry'[k][Len(registry[k]) + 1] = id
           /\ \A i \in DOMAIN registry[k] : registry'[k][i] = registry[k][i]
           /\ \A other \in Kinds \ {k} : registry'[other] = registry[other]
           /\ Len(events') = Len(events) + 1 /\ Len(events) \in Nat
           /\ DOMAIN events = 1 .. Len(events) /\ DOMAIN events' = 1 .. Len(events) + 1
           /\ events'[Len(events) + 1] = [what |-> "registered", id |-> id]
           /\ \A i \in DOMAIN events : events'[i] = events[i]
<1> DEFINE id == Len(born) + 1
<1> USE DEF TypesInv
<1>1. PICK e : e = [kind |-> k, late |-> Drained(k)]
  OBVIOUS
<1>2. e \in [kind : Kinds, late : BOOLEAN]
  BY <1>1 DEF Drained
<1>3. born' = Append(born, e) /\ id \in Nat
  BY <1>1 DEF Register
<1>4. /\ DOMAIN born' = DOMAIN born \cup {id} /\ id \notin DOMAIN born
      /\ \A i \in DOMAIN born : born'[i] = born[i]
      /\ born'[id] = e /\ Len(born') = id
  BY <1>2, <1>3
<1>5. /\ registry' = [registry EXCEPT ![k] = Append(registry[k], id)]
      /\ Len(registry[k]) # Capacity /\ Len(registry[k]) <= Capacity
  BY DEF Register, HistoryInv
<1>6. registry[k] \in Seq(Nat) /\ registry'[k] = Append(registry[k], id)
  BY <1>5
<1>7. /\ DOMAIN registry'[k] = DOMAIN registry[k] \cup {Len(registry[k]) + 1}
      /\ Len(registry'[k]) = Len(registry[k]) + 1 /\ Len(registry[k]) \in Nat
      /\ DOMAIN registry[k] = 1 .. Len(registry[k])
      /\ registry'[k][Len(registry[k]) + 1] = id
      /\ \A i \in DOMAIN registry[k] : registry'[k][i] = registry[k][i]
  BY <1>3, <1>6
<1>8. \A other \in Kinds \ {k} : registry'[other] = registry[other]
  BY <1>5
<1>9. PICK v : v = [what |-> "registered", id |-> id]
  OBVIOUS
<1>10. v \in [what : {"registered", "called"}, id : Nat] /\ events' = Append(events, v)
  BY <1>3, <1>9 DEF Register
<1>11. /\ Len(events') = Len(events) + 1 /\ Len(events) \in Nat
       /\ DOMAIN events = 1 .. Len(events) /\ DOMAIN events' = 1 .. Len(events) + 1
       /\ events'[Len(events) + 1] = v
       /\ \A i \in DOMAIN events : events'[i] = events[i]
  BY <1>10
<1>12. Len(registry'[k]) <= Capacity
  <2>1. Len(registry[k]) \in Nat /\ Capacity \in Nat
    BY <1>7, TerminationConstants
  <2> HIDE DEF TypesInv
  <2> QED BY <2>1, <1>5, <1>7
<1> QED BY <1>1, <1>3, <1>4, <1>7, <1>8, <1>9, <1>11, <1>12

(* A handler is called: the youngest of its registry.                      *)
LEMMA PopEffect ==
    ASSUME TypesInv, HistoryInv, NEW t \in Threads, Pop(t), registry[ending[t]] # <<>>
    PROVE  LET k == ending[t]  n == Len(registry[k])  id == registry[k][n] IN
           /\ k \in Kinds /\ n \in Nat \ {0} /\ DOMAIN registry[k] = 1 .. n
           /\ id \in DOMAIN born /\ born[id].kind = k /\ born' = born
           /\ Len(registry'[k]) = n - 1 /\ DOMAIN registry'[k] = 1 .. n - 1
           /\ \A i \in 1 .. n - 1 : registry'[k][i] = registry[k][i] /\ registry[k][i] < id
           /\ \A other \in Kinds \ {k} : registry'[other] = registry[other]
           /\ Len(events') = Len(events) + 1 /\ Len(events) \in Nat
           /\ DOMAIN events = 1 .. Len(events) /\ DOMAIN events' = 1 .. Len(events) + 1
           /\ events'[Len(events) + 1] = [what |-> "called", id |-> id]
           /\ \A i \in DOMAIN events : events'[i] = events[i]
<1> USE DEF TypesInv
<1>1. PICK k \in Kinds : k = ending[t]
  OBVIOUS
<1>2. PICK r \in Seq(Nat) : r = registry[k]
  BY <1>1
<1>3. Len(r) \in Nat \ {0} /\ DOMAIN r = 1 .. Len(r) /\ r[Len(r)] \in Nat /\ r # <<>>
  BY <1>1, <1>2
<1>4. /\ registry' = [registry EXCEPT ![k] = SubSeq(r, 1, Len(r) - 1)]
      /\ events' = Append(events, [what |-> "called", id |-> r[Len(r)]]) /\ born' = born
  BY <1>1, <1>2, <1>3 DEF Pop
<1>5. /\ registry'[k] = SubSeq(r, 1, Len(r) - 1)
      /\ \A other \in Kinds \ {k} : registry'[other] = registry[other]
  BY <1>4
<1>6. /\ Len(registry'[k]) = Len(r) - 1 /\ DOMAIN registry'[k] = 1 .. Len(r) - 1
      /\ \A i \in 1 .. Len(r) - 1 : registry'[k][i] = r[i]
  BY <1>3, <1>5
<1>7. /\ r[Len(r)] \in DOMAIN born /\ born[r[Len(r)]].kind = k
      /\ \A i \in 1 .. Len(r) - 1 : r[i] < r[Len(r)]
  <2>1. Len(r) \in DOMAIN r /\ \A i \in 1 .. Len(r) - 1 : i \in DOMAIN r /\ i < Len(r)
    BY <1>3
  <2> HIDE DEF TypesInv
  <2> QED BY <2>1, <1>2 DEF HistoryInv
<1>8. PICK v : v = [what |-> "called", id |-> r[Len(r)]]
  OBVIOUS
<1>9. v \in [what : {"registered", "called"}, id : Nat] /\ events' = Append(events, v)
  BY <1>3, <1>4, <1>8
<1>10. /\ Len(events') = Len(events) + 1 /\ Len(events) \in Nat
       /\ DOMAIN events = 1 .. Len(events) /\ DOMAIN events' = 1 .. Len(events) + 1
       /\ events'[Len(events) + 1] = v
       /\ \A i \in DOMAIN events : events'[i] = events[i]
  BY <1>9
<1> QED BY <1>1, <1>2, <1>3, <1>4, <1>5, <1>6, <1>7, <1>8, <1>10

LEMMA HistoryInit == Init => HistoryInv
  BY TerminationConstants DEF Init, HistoryInv, Kinds

LEMMA BornFacts ==
    ASSUME TypesInv
    PROVE  /\ Len(born) \in Nat /\ DOMAIN born = 1 .. Len(born)
           /\ \A i \in DOMAIN born : i \in Nat /\ i <= Len(born) /\ born[i].kind \in Kinds
<1> DEFINE Birth == [kind : Kinds, late : BOOLEAN]
<1>1. born \in Seq(Birth)
  BY DEF TypesInv
<1>2. \A b \in Birth : b.kind \in Kinds
  OBVIOUS
<1> HIDE DEF Birth
<1>3. Len(born) \in Nat /\ DOMAIN born = 1 .. Len(born) /\ \A i \in 1 .. Len(born) : born[i] \in Birth
  BY <1>1
<1> QED BY <1>2, <1>3

LEMMA RegistryLengths ==
    ASSUME TypesInv, HistoryInv
    PROVE  /\ Len(registry["exit"]) \in Nat /\ Len(registry["quick"]) \in Nat
           /\ Len(events) \in Nat
           /\ Len(events) + Len(registry["exit"]) + Len(registry["quick"]) = 2 * Len(born)
<1>1. registry \in [Kinds -> Seq(Nat)] /\ events \in Seq([what : {"registered", "called"}, id : Nat])
  BY DEF TypesInv
<1> QED BY <1>1 DEF HistoryInv, Kinds

(* The steps that neither register nor call a handler.                     *)
LEMMA NoEvent ==
    ASSUME [Next]_vars,
           \A t \in Threads : /\ ~(Pop(t) /\ registry[ending[t]] # <<>>)
                             /\ \A k \in Kinds : ~Register(t, k)
    PROVE  UNCHANGED <<registry, born, events>>
  BY DEF vars, Next, Terminate, Program, Pop, HandlerReturns, FlushAll, ExitGroup,
     EndWrite, BeginWrite, Reserve, CreateInCallback, ThrdExit, CountOut, Clone,
     CallExitGroup, CallExit

LEMMA HistoryStep == TypesInv /\ HistoryInv /\ [Next]_vars => HistoryInv'
<1> SUFFICES ASSUME TypesInv, HistoryInv, [Next]_vars PROVE HistoryInv'
  OBVIOUS
<1>1. ASSUME NEW t \in Threads, NEW k \in Kinds, Register(t, k) PROVE HistoryInv'
  <2>0. PICK id : id = Len(born) + 1
    OBVIOUS
  <2>1. /\ id \in Nat /\ DOMAIN born' = DOMAIN born \cup {id} /\ id \notin DOMAIN born
        /\ \A i \in DOMAIN born : born'[i] = born[i] /\ i < id /\ born[i].kind \in Kinds
        /\ born'[id].kind = k /\ Len(born') = id
    <3>1. /\ DOMAIN born' = DOMAIN born \cup {id} /\ id \notin DOMAIN born
          /\ \A i \in DOMAIN born : born'[i] = born[i]
          /\ born'[id] = [kind |-> k, late |-> Drained(k)] /\ Len(born') = id
      BY <1>1, <2>0, RegisterEffect
    <3>2. /\ Len(born) \in Nat
          /\ \A i \in DOMAIN born : i \in Nat /\ i <= Len(born) /\ born[i].kind \in Kinds
      BY BornFacts
    <3>3. \A i \in Nat : i <= Len(born) => i < id
      BY <2>0, <3>2
    <3> QED BY <2>0, <3>1, <3>2, <3>3
  <2>2. /\ Len(registry[k]) \in Nat /\ DOMAIN registry[k] = 1 .. Len(registry[k])
        /\ DOMAIN registry'[k] = DOMAIN registry[k] \cup {Len(registry[k]) + 1}
        /\ Len(registry'[k]) = Len(registry[k]) + 1 /\ Len(registry'[k]) <= Capacity
        /\ registry'[k][Len(registry[k]) + 1] = id
        /\ \A i \in DOMAIN registry[k] : registry'[k][i] = registry[k][i]
        /\ \A other \in Kinds \ {k} : registry'[other] = registry[other]
    BY <1>1, <2>0, RegisterEffect
  <2>3. /\ Len(events') = Len(events) + 1 /\ Len(events) \in Nat
        /\ DOMAIN events = 1 .. Len(events) /\ DOMAIN events' = 1 .. Len(events) + 1
        /\ events'[Len(events) + 1] = [what |-> "registered", id |-> id]
        /\ \A i \in DOMAIN events : events'[i] = events[i]
    BY <1>1, <2>0, RegisterEffect
  <2>4. ASSUME NEW x
        PROVE  (Called(x)' <=> Called(x)) /\ (Registered(x)' <=> Registered(x) \/ x = id)
    BY <2>3 DEF Called, Registered
  <2>5. ASSUME NEW other \in Kinds
        PROVE  /\ Len(registry'[other]) <= Capacity
               /\ \A i \in DOMAIN registry'[other] :
                    /\ registry'[other][i] \in DOMAIN born'
                    /\ born'[registry'[other][i]].kind = other
               /\ \A i, j \in DOMAIN registry'[other] :
                    i < j => registry'[other][i] < registry'[other][j]
    <3>1. CASE other # k
      BY <3>1, <2>1, <2>2 DEF HistoryInv
    <3>2. CASE other = k
      BY <3>2, <2>1, <2>2 DEF HistoryInv
    <3> QED BY <3>1, <3>2
  <2>6. ASSUME NEW x \in DOMAIN born PROVE Waiting(x)' <=> Waiting(x)
    <3>1. born'[x] = born[x] /\ x # id /\ born[x].kind \in Kinds
      BY <2>1
    <3>2. CASE born[x].kind = k
      BY <3>1, <3>2, <2>2 DEF Waiting
    <3>3. CASE born[x].kind # k
      BY <3>1, <3>3, <2>2 DEF Waiting
    <3> QED BY <3>2, <3>3
  <2>7. Waiting(id)' /\ ~Called(id)'
    <3>1. Waiting(id)'
      <4>1. registry'[born'[id].kind][Len(registry[k]) + 1] = id
        BY <2>1, <2>2
      <4>2. Len(registry[k]) + 1 \in DOMAIN registry'[born'[id].kind]
        BY <2>1, <2>2
      <4> QED BY <4>1, <4>2 DEF Waiting
    <3>2. ~Called(id)
      BY <2>1, <2>3 DEF HistoryInv, Called
    <3>3. Called(id)' <=> Called(id)
      BY <2>4
    <3> QED BY <3>1, <3>2, <3>3
  <2>8. \A x \in DOMAIN born' : Registered(x)' /\ (Waiting(x)' <=> ~Called(x)')
    <3>1. ASSUME NEW x \in DOMAIN born PROVE Registered(x)' /\ (Waiting(x)' <=> ~Called(x)')
      <4>1. Registered(x) /\ (Waiting(x) <=> ~Called(x))
        BY DEF HistoryInv
      <4>2. (Called(x)' <=> Called(x)) /\ (Registered(x)' <=> Registered(x) \/ x = id)
        BY <2>4
      <4> QED BY <4>1, <4>2, <2>6
    <3>2. Registered(id)'
      BY <2>4
    <3> QED BY <3>1, <3>2, <2>1, <2>7
  <2>9. Len(events') + Len(registry'["exit"]) + Len(registry'["quick"]) = 2 * Len(born')
    <3>1. /\ Len(registry["exit"]) \in Nat /\ Len(registry["quick"]) \in Nat
          /\ Len(events) + Len(registry["exit"]) + Len(registry["quick"]) = 2 * Len(born)
      BY RegistryLengths
    <3>2. \/ /\ Len(registry'["exit"]) = Len(registry["exit"]) + 1
             /\ Len(registry'["quick"]) = Len(registry["quick"])
          \/ /\ Len(registry'["exit"]) = Len(registry["exit"])
             /\ Len(registry'["quick"]) = Len(registry["quick"]) + 1
      BY <3>1, <2>2 DEF Kinds
    <3>3. Len(born') = Len(born) + 1 /\ Len(born) \in Nat
      BY <2>0, <2>1, BornFacts
    <3>4. Len(events') = Len(events) + 1 /\ Len(events) \in Nat
      BY <2>3
    <3>5. Len(registry'["exit"]) \in Nat /\ Len(registry'["quick"]) \in Nat
      BY <3>1, <2>2 DEF Kinds
    <3>6. PICK e, x, q, b, e2, x2, q2 :
            /\ e = Len(events) /\ x = Len(registry["exit"]) /\ q = Len(registry["quick"])
            /\ b = Len(born) /\ e2 = Len(events')
            /\ x2 = Len(registry'["exit"]) /\ q2 = Len(registry'["quick"])
      OBVIOUS
    <3>7. e \in Nat /\ x \in Nat /\ q \in Nat /\ b \in Nat /\ e + x + q = 2 * b
      BY <3>1, <3>6, BornFacts, RegistryLengths
    <3>8. e2 = e + 1 /\ e2 \in Nat
      BY <3>4, <3>6, <3>7
    <3>9. \/ x2 = x + 1 /\ q2 = q
          \/ x2 = x /\ q2 = q + 1
      BY <3>2, <3>6
    <3>10. x2 \in Nat /\ q2 \in Nat
      BY <3>5, <3>6
    <3>11. e2 + x2 + q2 = 2 * (b + 1)
      BY <3>7, <3>8, <3>9, <3>10
    <3> QED BY <3>6, <3>11, <3>3
  <2>10. \A i \in DOMAIN events' : events'[i].id \in DOMAIN born'
    BY <2>1, <2>3 DEF HistoryInv
  <2> QED BY <2>5, <2>8, <2>9, <2>10 DEF HistoryInv
<1>2. ASSUME NEW t \in Threads, Pop(t), registry[ending[t]] # <<>> PROVE HistoryInv'
  <2>0. PICK k, n, id : k = ending[t] /\ n = Len(registry[k]) /\ id = registry[k][n]
    OBVIOUS
  <2>1. /\ k \in Kinds /\ n \in Nat \ {0} /\ DOMAIN registry[k] = 1 .. n
        /\ id \in DOMAIN born /\ born[id].kind = k /\ born' = born
        /\ \A x \in DOMAIN born : x \in Nat /\ born[x].kind \in Kinds
    BY <1>2, <2>0, BornFacts, PopEffect
  <2>2. /\ Len(registry'[k]) = n - 1 /\ DOMAIN registry'[k] = 1 .. n - 1
        /\ \A i \in 1 .. n - 1 : registry'[k][i] = registry[k][i] /\ registry[k][i] < id
        /\ \A other \in Kinds \ {k} : registry'[other] = registry[other]
    BY <1>2, <2>0, PopEffect
  <2>3. /\ Len(events') = Len(events) + 1 /\ Len(events) \in Nat
        /\ DOMAIN events = 1 .. Len(events) /\ DOMAIN events' = 1 .. Len(events) + 1
        /\ events'[Len(events) + 1] = [what |-> "called", id |-> id]
        /\ \A i \in DOMAIN events : events'[i] = events[i]
    BY <1>2, <2>0, PopEffect
  <2>4. registry[k][n] = id
    BY <2>0
  <2>5. ASSUME NEW x
        PROVE  (Registered(x)' <=> Registered(x)) /\ (Called(x)' <=> Called(x) \/ x = id)
    BY <2>3 DEF Called, Registered
  <2>6. ASSUME NEW other \in Kinds
        PROVE  /\ Len(registry'[other]) <= Capacity
               /\ \A i \in DOMAIN registry'[other] :
                    /\ registry'[other][i] \in DOMAIN born
                    /\ born[registry'[other][i]].kind = other
               /\ \A i, j \in DOMAIN registry'[other] :
                    i < j => registry'[other][i] < registry'[other][j]
    <3>1. CASE other # k
      BY <3>1, <2>2 DEF HistoryInv
    <3>2. CASE other = k
      <4>1. /\ \A i \in DOMAIN registry[k] :
                  registry[k][i] \in DOMAIN born /\ born[registry[k][i]].kind = k
            /\ \A i, j \in DOMAIN registry[k] : i < j => registry[k][i] < registry[k][j]
            /\ n <= Capacity
        BY <2>0, <2>1 DEF HistoryInv
      <4>2. \A i \in 1 .. n - 1 : i \in DOMAIN registry[k] /\ registry'[k][i] = registry[k][i]
        BY <2>1, <2>2
      <4>3. Len(registry'[k]) <= Capacity
        BY <4>1, <2>1, <2>2, TerminationConstants
      <4> QED BY <3>2, <4>1, <4>2, <4>3, <2>2
    <3> QED BY <3>1, <3>2
  <2>7. ASSUME NEW x \in DOMAIN born PROVE Waiting(x)' <=> Waiting(x) /\ x # id
    <3>1. CASE born[x].kind = k
      <4>1. Waiting(x) <=> \E i \in 1 .. n : registry[k][i] = x
        BY <3>1, <2>1 DEF Waiting
      <4>2. Waiting(x)' <=> \E i \in 1 .. n - 1 : registry[k][i] = x
        BY <3>1, <2>1, <2>2 DEF Waiting
      <4>3. \A i \in 1 .. n - 1 : registry[k][i] # id
        BY <2>1, <2>2, <2>6 DEF HistoryInv
      <4>4. \A i \in 1 .. n : i = n \/ i \in 1 .. n - 1
        BY <2>1
      <4>5. 1 .. n - 1 \subseteq 1 .. n
        BY <2>1
      <4> QED BY <4>1, <4>2, <4>3, <4>4, <4>5, <2>4
    <3>2. CASE born[x].kind # k
      BY <3>2, <2>1, <2>2 DEF Waiting
    <3> QED BY <3>1, <3>2
  <2>8. \A x \in DOMAIN born : Registered(x)' /\ (Waiting(x)' <=> ~Called(x)')
    <3> SUFFICES ASSUME NEW x \in DOMAIN born PROVE Registered(x)' /\ (Waiting(x)' <=> ~Called(x)')
      OBVIOUS
    <3>1. Registered(x) /\ (Waiting(x) <=> ~Called(x))
      BY DEF HistoryInv
    <3>2. (Registered(x)' <=> Registered(x)) /\ (Called(x)' <=> Called(x) \/ x = id)
      BY <2>5
    <3> QED BY <3>1, <3>2, <2>7
  <2>9. Len(events') + Len(registry'["exit"]) + Len(registry'["quick"]) = 2 * Len(born)
    <3>1. /\ Len(registry["exit"]) \in Nat /\ Len(registry["quick"]) \in Nat
          /\ Len(events) + Len(registry["exit"]) + Len(registry["quick"]) = 2 * Len(born)
      BY RegistryLengths
    <3>2. \/ /\ Len(registry'["exit"]) = Len(registry["exit"]) - 1
             /\ Len(registry'["quick"]) = Len(registry["quick"])
          \/ /\ Len(registry'["exit"]) = Len(registry["exit"])
             /\ Len(registry'["quick"]) = Len(registry["quick"]) - 1
      BY <3>1, <2>0, <2>1, <2>2 DEF Kinds
    <3>3. Len(registry'["exit"]) \in Nat /\ Len(registry'["quick"]) \in Nat
      BY <3>1, <2>1, <2>2 DEF Kinds
    <3>4. Len(events') = Len(events) + 1 /\ Len(events) \in Nat /\ Len(born) \in Nat
      BY <2>3, BornFacts
    <3>6. PICK e, x, q, b, e2, x2, q2 :
            /\ e = Len(events) /\ x = Len(registry["exit"]) /\ q = Len(registry["quick"])
            /\ b = Len(born) /\ e2 = Len(events')
            /\ x2 = Len(registry'["exit"]) /\ q2 = Len(registry'["quick"])
      OBVIOUS
    <3>7. e \in Nat /\ x \in Nat /\ q \in Nat /\ b \in Nat /\ e + x + q = 2 * b
      BY <3>1, <3>6, BornFacts, RegistryLengths
    <3>8. e2 = e + 1 /\ e2 \in Nat
      BY <3>4, <3>6, <3>7
    <3>9. \/ x2 = x - 1 /\ q2 = q
          \/ x2 = x /\ q2 = q - 1
      BY <3>2, <3>6
    <3>10. x2 \in Nat /\ q2 \in Nat
      BY <3>3, <3>6
    <3>11. e2 + x2 + q2 = 2 * b
      BY <3>7, <3>8, <3>9, <3>10
    <3> QED BY <3>6, <3>11
  <2>10. \A i \in DOMAIN events' : events'[i].id \in DOMAIN born
    BY <2>1, <2>3 DEF HistoryInv
  <2> QED BY <2>1, <2>6, <2>8, <2>9, <2>10 DEF HistoryInv
<1>3. CASE UNCHANGED <<registry, born, events>>
  BY <1>3 DEF HistoryInv, Registered, Called, Waiting
<1> QED BY <1>1, <1>2, <1>3, NoEvent

-----------------------------------------------------------------------------
(* The order of the calls.                                                 *)
Earlier(m, what) ==
    {events[i].id : i \in {j \in 1 .. m - 1 : events[j].what = what}}

OrderedAt(m) ==
    events[m].what = "called" =>
        /\ events[m].id \in Earlier(m, "registered") \ Earlier(m, "called")
        /\ \A younger \in Earlier(m, "registered") \ Earlier(m, "called") :
              born[younger].kind = born[events[m].id].kind => younger <= events[m].id

LEMMA OrderedPointwise == YoungestFirst <=> \A m \in DOMAIN events : OrderedAt(m)
  BY DEF YoungestFirst, OrderedAt, Earlier

LEMMA EarlierKept ==
    ASSUME TypesInv, HistoryInv, NEW m \in DOMAIN events,
           DOMAIN events \subseteq DOMAIN events',
           \A i \in DOMAIN events : events'[i] = events[i],
           \A i \in DOMAIN born : born'[i] = born[i], OrderedAt(m)
    PROVE  OrderedAt(m)'
<1>1. events \in Seq([what : {"registered", "called"}, id : Nat])
  BY DEF TypesInv
<1>2. Len(events) \in Nat /\ DOMAIN events = 1 .. Len(events) /\ m \in Nat
  BY <1>1
<1>3. 1 .. m - 1 \subseteq DOMAIN events
  BY <1>2
<1>4. \A i \in 1 .. m - 1 : events'[i] = events[i]
  BY <1>3
<1>5. \A i \in DOMAIN events : events[i].id \in DOMAIN born
  BY DEF HistoryInv
<1>6. ASSUME NEW what
      PROVE  Earlier(m, what)' = Earlier(m, what) /\ Earlier(m, what) \subseteq DOMAIN born
  BY <1>3, <1>4, <1>5 DEF Earlier
<1> QED BY <1>5, <1>6 DEF OrderedAt

LEMMA OrderStep == TypesInv /\ HistoryInv /\ YoungestFirst /\ [Next]_vars => YoungestFirst'
<1> SUFFICES ASSUME TypesInv, HistoryInv, YoungestFirst, [Next]_vars
             PROVE  \A m \in DOMAIN events' : OrderedAt(m)'
  BY DEF YoungestFirst, OrderedAt, Earlier
<1>0. \A m \in DOMAIN events : OrderedAt(m)
  BY OrderedPointwise
<1>1. ASSUME NEW t \in Threads, NEW k \in Kinds, Register(t, k), NEW m \in DOMAIN events'
      PROVE  OrderedAt(m)'
  <2>1. /\ Len(events) \in Nat /\ DOMAIN events = 1 .. Len(events)
        /\ DOMAIN events' = 1 .. Len(events) + 1
        /\ events'[Len(events) + 1].what = "registered"
        /\ \A i \in DOMAIN events : events'[i] = events[i]
        /\ \A i \in DOMAIN born : born'[i] = born[i]
    <3>1. PICK v : v = [what |-> "registered", id |-> Len(born) + 1]
      OBVIOUS
    <3>2. v.what = "registered"
      BY <3>1
    <3>3. /\ Len(events) \in Nat /\ DOMAIN events = 1 .. Len(events)
          /\ DOMAIN events' = 1 .. Len(events) + 1
          /\ events'[Len(events) + 1] = v
          /\ \A i \in DOMAIN events : events'[i] = events[i]
          /\ \A i \in DOMAIN born : born'[i] = born[i]
      BY <1>1, <3>1, RegisterEffect
    <3> QED BY <3>2, <3>3
  <2>2. m \in DOMAIN events \/ m = Len(events) + 1
    BY <2>1
  <2>3. CASE m = Len(events) + 1
    BY <2>1, <2>3 DEF OrderedAt
  <2>4. CASE m \in DOMAIN events
    <3>1. OrderedAt(m) /\ DOMAIN events \subseteq DOMAIN events'
      BY <1>0, <2>1, <2>4
    <3> QED BY <2>1, <2>4, <3>1, EarlierKept
  <2> QED BY <2>2, <2>3, <2>4
<1>2. ASSUME NEW t \in Threads, Pop(t), registry[ending[t]] # <<>>, NEW m \in DOMAIN events'
      PROVE  OrderedAt(m)'
  <2>0. PICK k, n, id : k = ending[t] /\ n = Len(registry[k]) /\ id = registry[k][n]
    OBVIOUS
  <2>1. /\ Len(events) \in Nat /\ DOMAIN events = 1 .. Len(events)
        /\ DOMAIN events' = 1 .. Len(events) + 1
        /\ events'[Len(events) + 1] = [what |-> "called", id |-> id]
        /\ \A i \in DOMAIN events : events'[i] = events[i]
        /\ born' = born
    BY <1>2, <2>0, PopEffect
  <2>2. m \in DOMAIN events \/ m = Len(events) + 1
    BY <2>1
  <2>3. CASE m \in DOMAIN events
    <3>1. OrderedAt(m) /\ DOMAIN events \subseteq DOMAIN events'
      BY <1>0, <2>1, <2>3
    <3> QED BY <2>1, <2>3, <3>1, EarlierKept
  <2>4. CASE m = Len(events) + 1
    <3>1. /\ k \in Kinds /\ n \in Nat \ {0} /\ DOMAIN registry[k] = 1 .. n
          /\ id \in DOMAIN born /\ born[id].kind = k
          /\ \A i \in 1 .. n - 1 : registry[k][i] < id
      BY <1>2, <2>0, PopEffect
    <3>2. m \in Nat /\ 1 .. m - 1 = DOMAIN events
      BY <2>1, <2>4
    <3>3. ASSUME NEW what PROVE Earlier(m, what)' = {x \in DOMAIN born :
                  \E i \in DOMAIN events : events[i].what = what /\ events[i].id = x}
      BY <2>1, <3>2 DEF Earlier, HistoryInv
    <3>4. ASSUME NEW x \in DOMAIN born, NEW what \in {"registered", "called"}
          PROVE  (\E i \in DOMAIN events : events[i].what = what /\ events[i].id = x)
                   <=> \E i \in DOMAIN events : events[i] = [what |-> what, id |-> x]
      <4>1. events \in Seq([what : {"registered", "called"}, id : Nat])
        BY DEF TypesInv
      <4>2. \A i \in DOMAIN events : events[i] \in [what : {"registered", "called"}, id : Nat]
        <5> DEFINE Record == [what : {"registered", "called"}, id : Nat]
        <5>1. events \in Seq(Record)
          BY <4>1
        <5> HIDE DEF Record
        <5>2. \A i \in DOMAIN events : events[i] \in Record
          BY <5>1
        <5> QED BY <5>2 DEF Record
      <4> QED BY <4>2
    <3>5. ASSUME NEW x
          PROVE  x \in Earlier(m, "registered")' \ Earlier(m, "called")'
                   <=> x \in DOMAIN born /\ Waiting(x)
      <4>1. x \in DOMAIN born => Registered(x) /\ (Waiting(x) <=> ~Called(x))
        BY DEF HistoryInv
      <4> QED BY <3>3, <3>4, <4>1 DEF Registered, Called
    <3>6. Waiting(id)
      BY <2>0, <3>1 DEF Waiting
    <3>7. ASSUME NEW x \in DOMAIN born, Waiting(x), born[x].kind = k PROVE x <= id
      <4>1. PICK i \in 1 .. n : registry[k][i] = x
        BY <3>1, <3>7 DEF Waiting
      <4>2. i \in 1 .. n - 1 \/ i = n
        BY <3>1
      <4>3. x \in Nat /\ id \in Nat
        BY <3>1, BornFacts
      <4> QED BY <2>0, <3>1, <4>1, <4>2, <4>3
    <3>8. events'[m].id = id /\ born'[id].kind = k
      BY <2>1, <2>4, <3>1
    <3> QED BY <2>1, <3>1, <3>5, <3>6, <3>7, <3>8 DEF OrderedAt
  <2> QED BY <2>2, <2>3, <2>4
<1>3. CASE UNCHANGED <<registry, born, events>>
  BY <1>0, <1>3 DEF OrderedAt, Earlier
<1> QED BY <1>1, <1>2, <1>3, NoEvent

-----------------------------------------------------------------------------
(* Handlers and output that come late.                                     *)
LEMMA DrainedKept ==
    ASSUME TypesInv, [Next]_vars, NEW k \in Kinds
    PROVE  /\ Drained(k) => Drained(k)'
           /\ Drained(k)' => Drained(k) \/ (registry[k] = <<>> /\ UNCHANGED registry)
<1> USE DEF TypesInv, Drained, Goto
<1>1. ASSUME NEW t \in Threads,
             \/ \E other \in Kinds : Register(t, other)
             \/ BeginWrite(t) \/ EndWrite(t) \/ ExitGroup(t) \/ CallExitGroup(t)
      PROVE  UNCHANGED <<pc, ending>>
  BY <1>1 DEF Register, BeginWrite, EndWrite, ExitGroup, CallExitGroup
<1>2. ASSUME NEW t \in Threads, Reserve(t) \/ ThrdExit(t) \/ HandlerReturns(t)
      PROVE  /\ Drained(k) <=> Drained(k)'
  BY <1>2 DEF Reserve, ThrdExit, HandlerReturns
<1>3. ASSUME NEW t \in Threads, Clone(t) PROVE Drained(k) <=> Drained(k)'
  BY <1>3 DEF Clone, Unborn
<1>4. ASSUME NEW t \in Threads, CreateInCallback(t) PROVE Drained(k) <=> Drained(k)'
  BY <1>4 DEF CreateInCallback, Unborn
<1>5. ASSUME NEW t \in Threads, CountOut(t) PROVE Drained(k) <=> Drained(k)'
  BY <1>5 DEF CountOut
<1>6. ASSUME NEW t \in Threads, NEW other \in Kinds, CallExit(t, other)
      PROVE  Drained(k) <=> Drained(k)'
  BY <1>6 DEF CallExit
<1>7. ASSUME NEW t \in Threads, FlushAll(t) PROVE Drained(k) <=> Drained(k)'
  BY <1>7 DEF FlushAll
<1>8. ASSUME NEW t \in Threads, Pop(t)
      PROVE  /\ Drained(k) => Drained(k)'
             /\ Drained(k)' => Drained(k) \/ (registry[k] = <<>> /\ UNCHANGED registry)
  <2>1. CASE registry[ending[t]] = <<>>
    BY <1>8, <2>1 DEF Pop, AfterDrain
  <2>2. CASE registry[ending[t]] # <<>>
    BY <1>8, <2>2 DEF Pop
  <2> QED BY <2>1, <2>2
<1>9. CASE UNCHANGED vars
  BY <1>9 DEF vars
<1> HIDE DEF TypesInv, Goto
<1> QED BY <1>1, <1>2, <1>3, <1>4, <1>5, <1>6, <1>7, <1>8, <1>9 DEF Next, Terminate, Program

LEMMA LateStep ==
    TypesInv /\ HistoryInv /\ LateInv /\ [Next]_vars => LateInv'
<1> SUFFICES ASSUME TypesInv, HistoryInv, LateInv, [Next]_vars PROVE LateInv'
  OBVIOUS
<1>1. ASSUME NEW k \in Kinds, Drained(k)', NEW i \in DOMAIN registry'[k]
      PROVE  born'[registry'[k][i]].late
  <2>1. CASE ~Drained(k)
    <3>1. registry[k] = <<>> /\ registry' = registry
      BY <1>1, <2>1, DrainedKept
    <3> QED BY <1>1, <3>1
  <2>2. CASE Drained(k)
    <3>1. \A j \in DOMAIN registry[k] :
            registry[k][j] \in DOMAIN born /\ born[registry[k][j]].late
      BY <2>2 DEF LateInv, HistoryInv
    <3>2. ASSUME NEW t \in Threads, NEW other \in Kinds, Register(t, other)
          PROVE  born'[registry'[k][i]].late
      <4>1. CASE other = k
        <5>1. PICK e : e = [kind |-> k, late |-> Drained(k)]
          OBVIOUS
        <5>2. e.late
          BY <2>2, <5>1
        <5>3. /\ DOMAIN registry'[k] = DOMAIN registry[k] \cup {Len(registry[k]) + 1}
              /\ registry'[k][Len(registry[k]) + 1] = Len(born) + 1
              /\ \A j \in DOMAIN registry[k] : registry'[k][j] = registry[k][j]
              /\ born'[Len(born) + 1] = e
              /\ \A j \in DOMAIN born : born'[j] = born[j]
          BY <3>2, <4>1, <5>1, RegisterEffect
        <5> QED BY <1>1, <3>1, <5>2, <5>3
      <4>2. CASE other # k
        <5>1. registry'[k] = registry[k] /\ \A j \in DOMAIN born : born'[j] = born[j]
          BY <3>2, <4>2, RegisterEffect
        <5> QED BY <1>1, <3>1, <5>1
      <4> QED BY <4>1, <4>2
    <3>3. ASSUME NEW t \in Threads, Pop(t), registry[ending[t]] # <<>>
          PROVE  born'[registry'[k][i]].late
      <4>1. CASE ending[t] = k
        <5>1. PICK n \in Nat : n = Len(registry[k])
          BY <3>3, <4>1, PopEffect
        <5>2. /\ DOMAIN registry[k] = 1 .. n /\ DOMAIN registry'[k] = 1 .. n - 1
              /\ \A j \in 1 .. n - 1 : registry'[k][j] = registry[k][j]
              /\ born' = born
          BY <3>3, <4>1, <5>1, PopEffect
        <5>3. i \in 1 .. n - 1 /\ i \in 1 .. n
          BY <1>1, <5>1, <5>2
        <5> QED BY <3>1, <5>2, <5>3
      <4>2. CASE ending[t] # k
        <5>1. registry'[k] = registry[k] /\ born' = born
          BY <3>3, <4>2, PopEffect
        <5> QED BY <1>1, <3>1, <5>1
      <4> QED BY <4>1, <4>2
    <3>4. CASE UNCHANGED <<registry, born, events>>
      BY <1>1, <3>1, <3>4
    <3> QED BY <3>2, <3>3, <3>4, NoEvent
  <2> QED BY <2>1, <2>2
<1>2. ASSUME NEW h \in Kinds, ended'.how = h PROVE Drained(h)'
  <2>1. CASE ended' = ended
    <3>1. Drained(h)
      BY <1>2, <2>1 DEF LateInv
    <3> QED BY <3>1, DrainedKept
  <2>2. CASE ended' # ended
    <3>1. \E t \in Threads : ExitGroup(t) \/ CallExitGroup(t)
      BY <2>2 DEF vars, Next, Terminate, Program, Register, Pop, HandlerReturns, FlushAll,
         EndWrite, BeginWrite, Reserve, CreateInCallback, ThrdExit, CountOut, Clone, CallExit
    <3>2. PICK t \in Threads : ExitGroup(t)
      BY <1>2, <3>1 DEF CallExitGroup, Kinds
    <3>3. ending[t] = h /\ pc[t] = "finish" /\ UNCHANGED <<pc, ending>>
      BY <1>2, <3>2 DEF ExitGroup
    <3> QED BY <3>3 DEF Drained
  <2> QED BY <2>1, <2>2
<1>3. ended'.how \in Kinds => \E t \in Threads : ending'[t] = ended'.how /\ pc'[t] \in {"flush", "finish"}
  <2> SUFFICES ASSUME ended'.how \in Kinds
               PROVE  \E t \in Threads : ending'[t] = ended'.how /\ pc'[t] \in {"flush", "finish"}
    OBVIOUS
  <2>1. PICK h \in Kinds : ended'.how = h
    OBVIOUS
  <2>2. Drained(h)'
    BY <1>2, <2>1
  <2> QED BY <2>1, <2>2 DEF Drained
<1>4. (\A k \in Kinds : Drained(k) =>
         \A i \in DOMAIN registry[k] : born[registry[k][i]].late)'
  BY <1>1
<1> QED BY <1>3, <1>4 DEF LateInv, Drained

LEMMA FlushStep == TypesInv /\ FlushInv /\ [Next]_vars => FlushInv'
<1> SUFFICES ASSUME TypesInv, FlushInv, [Next]_vars PROVE FlushInv'
  OBVIOUS
<1> USE DEF TypesInv, FlushInv, Flushed, Goto
<1>1. ASSUME NEW t \in Threads, BeginWrite(t) PROVE FlushInv'
  <2>1. /\ UNCHANGED <<pc, ending, ended>>
        /\ dirty' = dirty \cup {[by |-> t, late |-> Flushed]}
    BY <1>1 DEF BeginWrite
  <2>2. ASSUME Flushed, NEW w \in dirty' PROVE w.late
    <3>1. CASE w \in dirty
      BY <2>2, <3>1
    <3>2. CASE w \notin dirty
      <4> HIDE DEF Flushed
      <4>1. w = [by |-> t, late |-> Flushed]
        BY <2>1, <2>2, <3>2
      <4> QED BY <2>2, <4>1
    <3> QED BY <3>1, <3>2
  <2>3. Flushed' <=> Flushed
    BY <2>1
  <2> HIDE DEF Flushed
  <2> QED BY <2>1, <2>2, <2>3
<1>2. ASSUME NEW t \in Threads, EndWrite(t) \/ \E k \in Kinds : Register(t, k)
      PROVE  FlushInv'
  BY <1>2 DEF EndWrite, Register
<1>3. ASSUME NEW t \in Threads, CallExitGroup(t) PROVE FlushInv'
  BY <1>3 DEF CallExitGroup
<1>4. ASSUME NEW t \in Threads, Reserve(t) \/ ThrdExit(t) \/ HandlerReturns(t)
      PROVE  FlushInv'
  <2>1. /\ UNCHANGED <<ending, ended, dirty>> /\ pc[t] # "finish"
        /\ \E l \in PCs \ {"finish"} : pc' = [pc EXCEPT ![t] = l]
    BY <1>4 DEF Reserve, ThrdExit, HandlerReturns, PCs
  <2>2. Flushed' <=> Flushed
    BY <2>1
  <2> HIDE DEF Flushed
  <2> QED BY <2>1, <2>2
<1>5. ASSUME NEW t \in Threads, Clone(t) \/ CreateInCallback(t) PROVE FlushInv'
  <2>1. UNCHANGED <<ending, ended, dirty>>
    BY <1>5 DEF Clone, CreateInCallback
  <2>2. Flushed' <=> Flushed
    <3>1. CASE Clone(t)
      BY <3>1 DEF Clone, Unborn
    <3>2. CASE CreateInCallback(t)
      BY <3>2 DEF CreateInCallback, Unborn
    <3> QED BY <1>5, <3>1, <3>2
  <2> HIDE DEF Flushed
  <2> QED BY <2>1, <2>2
<1>6. ASSUME NEW t \in Threads, CountOut(t) \/ \E k \in Kinds : CallExit(t, k)
      PROVE  FlushInv'
  <2>1. /\ UNCHANGED <<ended, dirty>> /\ pc[t] # "finish" /\ pc'[t] # "finish"
        /\ \A u \in Threads \ {t} : pc'[u] = pc[u] /\ ending'[u] = ending[u]
    BY <1>6 DEF CountOut, CallExit
  <2>2. Flushed' <=> Flushed
    BY <2>1
  <2> HIDE DEF Flushed
  <2> QED BY <2>1, <2>2
<1>7. ASSUME NEW t \in Threads, Pop(t) PROVE FlushInv'
  <2>1. /\ UNCHANGED <<ending, ended, dirty>> /\ pc[t] # "finish"
        /\ pc'[t] = "finish" => ending[t] # "exit"
        /\ \A u \in Threads \ {t} : pc'[u] = pc[u]
    BY <1>7 DEF Pop, AfterDrain
  <2>2. Flushed' <=> Flushed
    BY <2>1
  <2> HIDE DEF Flushed
  <2> QED BY <2>1, <2>2
<1>8. ASSUME NEW t \in Threads, FlushAll(t) PROVE FlushInv'
  <2>1. dirty' = {} /\ UNCHANGED <<ending, ended>>
    BY <1>8 DEF FlushAll
  <2>2. Flushed => Flushed'
    BY <1>8 DEF FlushAll
  <2> HIDE DEF Flushed
  <2> QED BY <2>1, <2>2
<1>9. ASSUME NEW t \in Threads, ExitGroup(t) PROVE FlushInv'
  <2>1. UNCHANGED <<pc, ending, dirty>> /\ pc[t] = "finish" /\ ended'.how = ending[t]
    BY <1>9 DEF ExitGroup
  <2>2. Flushed' <=> Flushed
    BY <2>1
  <2> QED BY <2>1, <2>2
<1>10. CASE UNCHANGED vars
  BY <1>10 DEF vars
<1> HIDE DEF TypesInv, FlushInv, Flushed, Goto
<1> QED BY <1>1, <1>2, <1>3, <1>4, <1>5, <1>6, <1>7, <1>8, <1>9, <1>10
        DEF Next, Terminate, Program

(* What holds whether or not handlers create threads.                      *)
OrderInv == TypesInv /\ HistoryInv /\ YoungestFirst /\ LateInv /\ FlushInv

LEMMA OrderInvariant == Spec => []OrderInv
<1>1. Init => OrderInv
  <2> SUFFICES ASSUME Init PROVE OrderInv
    OBVIOUS
  <2>1. YoungestFirst /\ ended.how = "running"
    BY DEF Init, YoungestFirst, Alive
  <2>2. \A t \in Threads : pc[t] \in {"program", "unborn"}
    BY DEF Init
  <2>3. LateInv /\ FlushInv
    BY <2>1, <2>2 DEF LateInv, FlushInv, Flushed, Drained, Kinds
  <2> QED BY <2>1, <2>3, TypesInit, HistoryInit DEF OrderInv
<1>2. OrderInv /\ [Next]_vars => OrderInv'
  BY TypesStep, HistoryStep, OrderStep, LateStep, FlushStep DEF OrderInv
<1> QED BY <1>1, <1>2, PTL DEF Spec

(* termination.c, mini_run_exit_handlers and mini_run_quick_exit_handlers: *)
(* the process does not end with a handler in the registry that came       *)
(* before the drain was over, whoever registered it.                       *)
THEOREM NoHandlerForgotten == Spec => []NoneForgotten
<1>1. OrderInv => NoneForgotten
  BY DEF OrderInv, LateInv, NoneForgotten
<1> QED BY <1>1, OrderInvariant, PTL

(* termination.c, exit: what is left unwritten came after the flush.       *)
THEOREM OutputReachesFiles == Spec => []OutputPublished
<1>1. OrderInv => OutputPublished
  BY DEF OrderInv, FlushInv, OutputPublished
<1> QED BY <1>1, OrderInvariant, PTL

-----------------------------------------------------------------------------
(* Who ends the process, if handlers create no threads.                    *)
LEMMA CountFinite ==
    /\ IsFiniteSet(Active) /\ Cardinality(Active) \in Nat
    /\ IsFiniteSet(Reserved) /\ Cardinality(Reserved) \in Nat
    /\ IsFiniteSet(Unborn) /\ Cardinality(Unborn) \in Nat
    /\ Cardinality(Active \cup Unborn) <= Cardinality(Threads)
<1>1. /\ Active \in SUBSET Threads /\ Reserved \in SUBSET Threads
      /\ Unborn \in SUBSET Threads /\ Active \cup Unborn \in SUBSET Threads
  BY DEF Active, Reserved, Unborn
<1> QED BY <1>1, TerminationConstants, FS_Subset, FS_CardinalityType

(* While a thread other than the ender is about, nobody is on the last     *)
(* thread's path.                                                          *)
LEMMA NobodyLast ==
    ASSUME CountInv, NEW t \in Threads, pc[t] \notin Ending \cup {"unborn", "gone"}
    PROVE  /\ ~LastPath /\ t \in Active /\ t \notin Enders
           /\ count = Cardinality(Active) + Cardinality(Reserved)
<1>1. t \in Active /\ t \in Threads \ Enders
  BY DEF Active, Enders
<1>2. ~LastPath
  BY <1>1 DEF CountInv
<1> QED BY <1>1, <1>2, CountFinite DEF CountInv

LEMMA CountInit == Init => CountInv
<1> SUFFICES ASSUME Init PROVE CountInv
  OBVIOUS
<1>1. Active = {Main} /\ Reserved = {} /\ Enders = {} /\ ~asked /\ count = 1
  BY TerminationConstants DEF Init, Active, Reserved, Enders, Ending
<1>2. Cardinality(Active) = 1 /\ Cardinality(Reserved) = 0
  BY <1>1, FS_EmptySet, FS_Singleton
<1> QED BY <1>1, <1>2, CountFinite DEF CountInv, LastPath

LEMMA CountStep ==
    ASSUME ~HandlersCreate, TypesInv, CountInv, [Next]_vars
    PROVE  CountInv'
<1> USE DEF TypesInv, Goto
<1>1. ASSUME UNCHANGED <<count, asked>>,
             Active' = Active, Reserved' = Reserved, Unborn' = Unborn, Enders' = Enders,
             \A t \in Threads \ Enders : pc[t] \in {"unborn", "gone"} => pc'[t] = pc[t]
      PROVE  CountInv'
  BY <1>1 DEF CountInv, LastPath
<1>2. ASSUME UNCHANGED <<pc, count, asked>> PROVE CountInv'
  BY <1>1, <1>2 DEF Active, Reserved, Unborn, Enders
<1>3. ASSUME NEW t \in Threads,
             \/ \E k \in Kinds : Register(t, k)
             \/ BeginWrite(t) \/ EndWrite(t) \/ ExitGroup(t) \/ CallExitGroup(t)
      PROVE  CountInv'
  BY <1>2, <1>3 DEF Register, BeginWrite, EndWrite, ExitGroup, CallExitGroup
<1>4. ASSUME NEW t \in Threads, Pop(t) \/ HandlerReturns(t) \/ FlushAll(t) \/ ThrdExit(t)
      PROVE  CountInv'
  <2>1. /\ UNCHANGED <<count, asked>>
        /\ pc[t] \notin {"unborn", "gone", "reserved"}
        /\ pc'[t] \notin {"unborn", "gone", "reserved"}
        /\ pc[t] \in Ending <=> pc'[t] \in Ending
        /\ \A u \in Threads \ {t} : pc'[u] = pc[u]
    BY <1>4 DEF Pop, AfterDrain, HandlerReturns, FlushAll, ThrdExit, Ending
  <2>2. Active' = Active /\ Reserved' = Reserved /\ Unborn' = Unborn /\ Enders' = Enders
    BY <2>1 DEF Active, Reserved, Unborn, Enders
  <2> QED BY <1>1, <2>1, <2>2
<1>5. ASSUME NEW t \in Threads, Reserve(t) PROVE CountInv'
  <2>1. /\ count' = count + 1 /\ asked' = asked /\ pc[t] = "program" /\ pc'[t] = "reserved"
        /\ \A u \in Threads \ {t} : pc'[u] = pc[u]
        /\ Cardinality(Reserved) < Cardinality(Unborn)
    BY <1>5 DEF Reserve, CanCreate, Reserved
  <2>2. /\ Active' = Active /\ Unborn' = Unborn /\ Enders' = Enders
        /\ Reserved' = Reserved \cup {t} /\ t \notin Reserved
    BY <2>1 DEF Active, Reserved, Unborn, Enders, Ending
  <2>3. ~LastPath /\ count = Cardinality(Active) + Cardinality(Reserved)
    BY <2>1, NobodyLast DEF Ending
  <2>4. Cardinality(Reserved') = Cardinality(Reserved) + 1
    BY <2>2, CountFinite, FS_AddElement
  <2>5. ~LastPath'
    BY <2>1, <2>2, <2>3 DEF LastPath
  <2> QED BY <2>1, <2>2, <2>3, <2>4, <2>5, CountFinite DEF CountInv
<1>6. ASSUME NEW t \in Threads, Clone(t) PROVE CountInv'
  <2>1. pc[t] = "reserved" /\ asked' = asked /\ t \in Reserved
    BY <1>6 DEF Clone, Reserved
  <2>2. ~LastPath /\ t \in Active /\ count = Cardinality(Active) + Cardinality(Reserved)
    BY <2>1, NobodyLast DEF Ending
  <2>3. /\ Cardinality(Reserved \ {t}) = Cardinality(Reserved) - 1
        /\ Cardinality(Reserved) > 0 /\ Cardinality(Active) > 0
    <3>1. Cardinality(Reserved) # 0 /\ Cardinality(Active) # 0
      <4>1. Reserved # {} /\ Active # {}
        BY <2>1, <2>2
      <4> QED BY <4>1, CountFinite, FS_EmptySet
    <3>2. Cardinality(Reserved \ {t}) = Cardinality(Reserved) - 1
      BY <2>1, CountFinite, FS_RemoveElement
    <3> QED BY <3>1, <3>2, CountFinite
  <2>4. CASE \E u \in Unborn : /\ pc' = [pc EXCEPT ![t] = "program", ![u] = "program"]
                               /\ count' = count
    <3>1. PICK u \in Unborn : /\ pc' = [pc EXCEPT ![t] = "program", ![u] = "program"]
                              /\ count' = count
      BY <2>4
    <3>2. /\ u # t /\ u \in Threads /\ pc[u] = "unborn"
          /\ pc'[t] = "program" /\ pc'[u] = "program"
          /\ \A x \in Threads \ {t, u} : pc'[x] = pc[x]
      BY <2>1, <3>1 DEF Unborn
    <3>3. /\ Active' = Active \cup {u} /\ u \notin Active
          /\ Unborn' = Unborn \ {u} /\ u \in Unborn
          /\ Enders' = Enders /\ Reserved' = Reserved \ {t}
      BY <2>1, <3>2 DEF Active, Reserved, Unborn, Enders, Ending
    <3>4. /\ Cardinality(Active') = Cardinality(Active) + 1
          /\ Cardinality(Unborn') = Cardinality(Unborn) - 1
      BY <3>3, CountFinite, FS_AddElement, FS_RemoveElement
    <3>5. ~LastPath'
      BY <2>1, <2>2, <3>3 DEF LastPath
    <3> QED BY <2>1, <2>2, <2>3, <3>1, <3>3, <3>4, <3>5, CountFinite DEF CountInv
  <2>5. CASE count' = count - 1 /\ Goto(t, "program")
    <3>1. pc'[t] = "program" /\ \A x \in Threads \ {t} : pc'[x] = pc[x]
      BY <2>5
    <3>2. /\ Active' = Active /\ Unborn' = Unborn /\ Enders' = Enders
          /\ Reserved' = Reserved \ {t}
      BY <2>1, <3>1 DEF Active, Reserved, Unborn, Enders, Ending
    <3>3. ~LastPath'
      BY <2>1, <2>2, <3>2 DEF LastPath
    <3> QED BY <2>1, <2>2, <2>3, <2>5, <3>2, <3>3, CountFinite DEF CountInv
  <2> QED BY <1>6, <2>4, <2>5 DEF Clone
<1>7. ASSUME NEW t \in Threads, CreateInCallback(t) PROVE CountInv'
  <2>1. /\ pc[t] = "destructors" /\ asked' = asked /\ count' = count + 1
        /\ Cardinality(Reserved) < Cardinality(Unborn)
        /\ \E u \in Unborn : pc' = [pc EXCEPT ![u] = "program"]
    BY <1>7 DEF CreateInCallback, CanCreate, Reserved
  <2>2. ~LastPath /\ count = Cardinality(Active) + Cardinality(Reserved)
    BY <2>1, NobodyLast DEF Ending
  <2>3. PICK u \in Unborn : pc' = [pc EXCEPT ![u] = "program"]
    BY <2>1
  <2>4. /\ u \in Threads /\ pc[u] = "unborn" /\ pc'[u] = "program"
        /\ \A x \in Threads \ {u} : pc'[x] = pc[x]
    BY <2>3 DEF Unborn
  <2>5. /\ Active' = Active \cup {u} /\ u \notin Active
        /\ Unborn' = Unborn \ {u} /\ u \in Unborn
        /\ Enders' = Enders /\ Reserved' = Reserved
    BY <2>4 DEF Active, Reserved, Unborn, Enders, Ending
  <2>6. /\ Cardinality(Active') = Cardinality(Active) + 1
        /\ Cardinality(Unborn') = Cardinality(Unborn) - 1
    BY <2>5, CountFinite, FS_AddElement, FS_RemoveElement
  <2>7. ~LastPath'
    BY <2>1, <2>2, <2>5 DEF LastPath
  <2> QED BY <2>1, <2>2, <2>5, <2>6, <2>7, CountFinite DEF CountInv
<1>8. ASSUME NEW t \in Threads, CountOut(t) PROVE CountInv'
  <2>1. /\ pc[t] = "destructors" /\ asked' = asked /\ count' = count - 1
        /\ \A x \in Threads \ {t} : pc'[x] = pc[x]
        /\ pc'[t] = IF count = 1 THEN "drain" ELSE "gone"
    BY <1>8 DEF CountOut
  <2>2. /\ ~LastPath /\ t \in Active /\ t \notin Enders
        /\ count = Cardinality(Active) + Cardinality(Reserved)
    BY <2>1, NobodyLast DEF Ending
  <2>3. /\ Cardinality(Active \ {t}) = Cardinality(Active) - 1
        /\ Cardinality(Active) > 0
    <3>1. Cardinality(Active) # 0
      <4>1. Active # {}
        BY <2>2
      <4> QED BY <4>1, CountFinite, FS_EmptySet
    <3>2. Cardinality(Active \ {t}) = Cardinality(Active) - 1
      BY <2>2, CountFinite, FS_RemoveElement
    <3> QED BY <3>1, <3>2, CountFinite
  <2>4. Reserved' = Reserved /\ Unborn' = Unborn
    BY <2>1 DEF Reserved, Unborn
  <2>5. CASE count = 1
    <3>1. Cardinality(Reserved) = 0 /\ Cardinality(Active \ {t}) = 0
      BY <2>2, <2>3, <2>5, CountFinite
    <3>2. Active \ {t} = {}
      BY <3>1, CountFinite, FS_RemoveElement, FS_EmptySet
    <3>3. Enders = {} /\ \A u \in Threads \ {t} : pc[u] \in {"unborn", "gone"}
      BY <2>2, <3>2 DEF Enders, Active, Ending
    <3>4. Active' = Active /\ Enders' = {t}
      BY <2>1, <2>5, <3>3 DEF Active, Enders, Ending
    <3>5. ~asked
      BY <3>3 DEF CountInv
    <3>6. LastPath'
      BY <2>1, <3>4, <3>5 DEF LastPath
    <3>7. count' = 0 /\ Cardinality(Active') = 1 /\ Cardinality(Reserved') = 0
      BY <2>1, <2>3, <2>4, <2>5, <3>1, <3>4, CountFinite
    <3> QED BY <2>1, <2>4, <3>1, <3>3, <3>4, <3>5, <3>6, <3>7, CountFinite DEF CountInv
  <2>6. CASE count # 1
    <3>1. Active' = Active \ {t} /\ Enders' = Enders
      BY <2>1, <2>2, <2>6 DEF Active, Enders, Ending
    <3>2. ~LastPath'
      BY <2>1, <2>2, <3>1 DEF LastPath
    <3> QED BY <2>1, <2>2, <2>3, <2>4, <3>1, <3>2, CountFinite DEF CountInv
  <2> QED BY <2>5, <2>6
<1>9. ASSUME NEW t \in Threads, NEW k \in Kinds, CallExit(t, k) PROVE CountInv'
  <2>1. /\ pc[t] = "program" /\ pc'[t] = "drain" /\ ~asked /\ asked' /\ count' = count
        /\ \A x \in Threads \ {t} : pc'[x] = pc[x]
    BY <1>9 DEF CallExit
  <2>2. ~LastPath /\ count = Cardinality(Active) + Cardinality(Reserved)
    BY <2>1, NobodyLast DEF Ending
  <2>3. Enders = {}
    BY <2>1, <2>2 DEF LastPath
  <2>4. Active' = Active /\ Reserved' = Reserved /\ Unborn' = Unborn /\ Enders' = {t}
    BY <2>1, <2>3 DEF Active, Reserved, Unborn, Enders, Ending
  <2>5. ~LastPath'
    BY <2>1 DEF LastPath
  <2> QED BY <2>1, <2>2, <2>4, <2>5, CountFinite DEF CountInv
<1>10. CASE UNCHANGED vars
  BY <1>2, <1>10 DEF vars
<1> HIDE DEF TypesInv, Goto
<1> QED BY <1>3, <1>4, <1>5, <1>6, <1>7, <1>8, <1>9, <1>10 DEF Next, Terminate, Program

(* What holds if handlers create no threads.                               *)
DrainInv == OrderInv /\ CountInv

LEMMA DrainInvariant == ~HandlersCreate => (Spec => []DrainInv)
<1> SUFFICES ASSUME ~HandlersCreate PROVE Spec => []DrainInv
  OBVIOUS
<1>1. Init => CountInv
  BY CountInit
<1>2. OrderInv /\ CountInv /\ [Next]_vars => CountInv'
  BY CountStep DEF OrderInv
<1> QED BY <1>1, <1>2, OrderInvariant, PTL DEF Spec, DrainInv

LEMMA DrainTypes == DrainInv => TypeOK
<1> SUFFICES ASSUME DrainInv PROVE TypeOK
  OBVIOUS
<1> USE DEF DrainInv, OrderInv
<1>1. ASSUME NEW k \in Kinds
      PROVE  registry[k] \in Seq(DOMAIN born) /\ Len(registry[k]) <= Capacity
  <2>1. \A i \in DOMAIN registry[k] : registry[k][i] \in DOMAIN born
    BY DEF HistoryInv
  <2>2. registry[k] \in Seq(Nat) /\ Len(registry[k]) <= Capacity
    BY DEF TypesInv, HistoryInv
  <2> QED BY <2>1, <2>2
<1>2. count \in 0 .. Cardinality(Threads)
  <2>1. IsFiniteSet(Threads) /\ Cardinality(Threads) \in Nat
    BY TerminationConstants, FS_CardinalityType
  <2>2. Active \cap Unborn = {}
    BY DEF Active, Unborn
  <2>3. Cardinality(Active \cup Unborn) = Cardinality(Active) + Cardinality(Unborn)
    <3>1. Cardinality(Active \cap Unborn) = 0
      BY <2>2, FS_EmptySet
    <3>2. Cardinality(Active \cup Unborn)
            = Cardinality(Active) + Cardinality(Unborn) - Cardinality(Active \cap Unborn)
      BY CountFinite, FS_Union
    <3> QED BY <3>1, <3>2, CountFinite
  <2>4. /\ count \in Nat /\ count <= Cardinality(Active) + Cardinality(Reserved)
        /\ Cardinality(Reserved) <= Cardinality(Unborn)
    BY CountFinite DEF CountInv
  <2> QED BY <2>1, <2>3, <2>4, CountFinite
<1>3. events \in Seq(Event)
  <2>1. \A i \in DOMAIN events : events[i] \in Event
    <3> SUFFICES ASSUME NEW i \in DOMAIN events PROVE events[i] \in Event
      OBVIOUS
    <3> DEFINE R == [what : {"registered", "called"}, id : Nat]
    <3>1. events[i] \in R
      <4>1. events \in Seq(R)
        BY DEF TypesInv
      <4> HIDE DEF R, DrainInv, OrderInv
      <4> QED BY <4>1
    <3>2. events[i].id \in DOMAIN born
      BY DEF HistoryInv
    <3>3. events[i].id \in 1 .. MaxRegistrations
      BY <3>2, TerminationConstants DEF TypesInv
    <3> QED BY <3>1, <3>3 DEF Event
  <2>2. events \in Seq([what : {"registered", "called"}, id : Nat])
    BY DEF TypesInv
  <2> HIDE DEF Event, DrainInv, OrderInv
  <2> QED BY <2>1, <2>2
<1>4. Len(events) <= 2 * MaxRegistrations
  <2>1. PICK e, x, q, b : e = Len(events) /\ x = Len(registry["exit"])
                          /\ q = Len(registry["quick"]) /\ b = Len(born)
    OBVIOUS
  <2>2. e \in Nat /\ b \in Nat /\ b <= MaxRegistrations
    BY <2>1 DEF TypesInv
  <2>3. x \in Nat /\ q \in Nat
    BY <2>1 DEF TypesInv, Kinds
  <2>4. e + x + q = 2 * b
    BY <2>1 DEF HistoryInv
  <2>5. e <= 2 * MaxRegistrations
    <3> HIDE DEF DrainInv, OrderInv
    <3> QED BY <2>2, <2>3, <2>4, TerminationConstants
  <2> QED BY <2>1, <2>5
<1>5. /\ pc \in [Threads -> PCs] /\ ending \in [Threads -> Kinds] /\ asked \in BOOLEAN
      /\ io \in Threads \cup {NoThread}
      /\ dirty \subseteq [by : Threads, late : BOOLEAN] /\ writes \in 0 .. MaxWrites
      /\ born \in Seq([kind : Kinds, late : BOOLEAN]) /\ Len(born) <= MaxRegistrations
      /\ ended \in [how : {"running", "_Exit"} \cup Kinds, by : Threads \cup {NoThread}]
  BY DEF TypesInv
<1> HIDE DEF DrainInv, OrderInv
<1> QED BY <1>1, <1>2, <1>3, <1>4, <1>5 DEF TypeOK

(* termination.c, mini_run_exit_handlers, and lifecycle.c, thrd_exit: the  *)
(* handlers run youngest first, each once, and one thread at most runs     *)
(* them, the one that called exit or quick_exit or the last one.  If       *)
(* handlers create threads a second one may find itself the last.          *)
THEOREM DrainsOrdered == ~HandlersCreate => (Spec => []DrainOrdered)
<1> SUFFICES ASSUME ~HandlersCreate PROVE Spec => []DrainOrdered
  OBVIOUS
<1>1. DrainInv => SingleDrain
  BY DEF DrainInv, CountInv, SingleDrain, Enders, Ending
<1>2. DrainInv => DrainOrdered
  BY <1>1, DrainTypes DEF DrainOrdered, DrainInv, OrderInv
<1> QED BY <1>2, DrainInvariant, PTL

(* lifecycle.c, thrd_exit: a thread that counts itself out as the last is  *)
(* the last, no other has been created or is being created.                *)
THEOREM LastThreadAlone == ~HandlersCreate => (Spec => LastThreadIsAlone)
<1> SUFFICES ASSUME ~HandlersCreate PROVE Spec => LastThreadIsAlone
  OBVIOUS
<1>1. ASSUME DrainInv, [Next]_vars, NEW t \in Threads,
             pc[t] = "destructors", pc'[t] = "drain"
      PROVE  \A u \in Threads \ {t} : pc[u] \in {"unborn", "gone"}
  <2>1. pc \in [Threads -> PCs] /\ pc'[t] # pc[t]
    BY <1>1 DEF DrainInv, OrderInv, TypesInv
  <2>2. CountOut(t) /\ count = 1
    <3>1. PICK u \in Threads : Terminate(u) \/ EndWrite(u) \/ Program(u)
      BY <1>1, <2>1 DEF Next, vars
    <3>2. ~Terminate(u) /\ ~EndWrite(u)
      BY <1>1, <2>1 DEF Terminate, EndWrite, Pop, AfterDrain, HandlerReturns, FlushAll,
         ExitGroup, Goto
    <3>3. CountOut(u)
      BY <1>1, <2>1, <3>1, <3>2 DEF Program, Register, CallExit, BeginWrite, Reserve,
         CreateInCallback, ThrdExit, Clone, CallExitGroup, Goto, Unborn
    <3> QED BY <1>1, <2>1, <3>3 DEF CountOut, Goto
  <2>3. t \in Active /\ count = Cardinality(Active) + Cardinality(Reserved)
    BY <1>1, NobodyLast DEF DrainInv, Ending
  <2>4. Cardinality(Active \ {t}) = Cardinality(Active) - 1
    BY <2>3, CountFinite, FS_RemoveElement
  <2>5. IsFiniteSet(Active \ {t}) /\ Cardinality(Active \ {t}) \in Nat
    BY CountFinite, FS_RemoveElement, FS_CardinalityType
  <2>6. Active \ {t} = {}
    <3>1. Cardinality(Active \ {t}) = 0
      BY <2>2, <2>3, <2>4, <2>5, CountFinite
    <3> QED BY <2>5, <3>1, FS_EmptySet
  <2> QED BY <2>6 DEF Active
<1>2. DrainInv /\ [Next]_vars =>
        [\A t \in Threads : pc[t] = "destructors" /\ pc'[t] = "drain" =>
            \A u \in Threads \ {t} : pc[u] \in {"unborn", "gone"}]_vars
  BY <1>1
<1> QED BY <1>2, DrainInvariant, PTL DEF Spec, LastThreadIsAlone
=============================================================================
