------------------------ MODULE InvariantEngineProofs ------------------------
(***************************************************************************)
(* Proofs about the invariant engine.  First the reducer: whatever facts   *)
(* are given in whatever order, it keeps the latest of each object.  Then  *)
(* the documents, for every set of facts, every policy and any number of   *)
(* evaluators that read and store in any order.                            *)
(***************************************************************************)
EXTENDS InvariantEngine, SumTheorems, SequenceTheorems

(* The order in which facts of one object supersede each other.            *)
LEMMA PrecedenceOrders ==
  ASSUME NEW p \in DOMAIN Precedence, NEW q \in DOMAIN Precedence
  PROVE  Precedence[p] \in Nat /\ (Precedence[p] = Precedence[q] => p = q)
  BY DEF Precedence

LEMMA FactFields ==
  ASSUME NEW f \in Fact
  PROVE  f.version \in Nat /\ f.stamp \in Nat /\ Precedence[f.phase] \in Nat
  BY PrecedenceOrders, InvariantAssumption DEF IsEconomicFact

LEMMA ExceedsTransitive ==
  ASSUME NEW f \in Fact, NEW g \in Fact, NEW h \in Fact, Exceeds(f, g), Exceeds(g, h)
  PROVE  Exceeds(f, h)
  BY FactFields DEF Exceeds

LEMMA ExceedsTotal ==
  ASSUME NEW f \in Fact, NEW g \in Fact, f # g
  PROVE  Exceeds(f, g) \/ Exceeds(g, f)
<1>1. f.phase \in DOMAIN Precedence /\ g.phase \in DOMAIN Precedence /\ f.stamp # g.stamp
  BY InvariantAssumption DEF IsEconomicFact
<1>2. Precedence[f.phase] = Precedence[g.phase] => f.phase = g.phase
  BY <1>1, PrecedenceOrders
<1>. QED BY <1>1, <1>2, FactFields DEF Exceeds

LEMMA ExceedsAsymmetric ==
  ASSUME NEW f \in Fact, NEW g \in Fact, Exceeds(f, g)
  PROVE  ~Exceeds(g, f)
  BY FactFields DEF Exceeds

-----------------------------------------------------------------------------
(* Every fact is of an object of which there is a latest fact.             *)
Covered(facts) ==
  \A h \in facts : \E l \in Latest(facts) : l.object = h.object /\ (l = h \/ Exceeds(l, h))

(* One step of the reducer: the latest of the facts so far and one more.   *)
LEMMA SupersedeLatest ==
  ASSUME NEW S \in SUBSET Fact, Covered(S), NEW f \in Fact
  PROVE  Latest(S \cup {f}) = Supersede(Latest(S), f) /\ Covered(S \cup {f})
<1>. DEFINE Rivals == {g \in Latest(S) : g.object = f.object}
<1>0. Latest(S) \subseteq S /\ S \cup {f} \subseteq Fact
  BY DEF Latest
<1>1. CASE \E g \in Rivals : ~Exceeds(f, g)
  <2>1. PICK g \in S : g \in Latest(S) /\ g.object = f.object /\ ~Exceeds(f, g)
    BY <1>0, <1>1
  <2>2. g = f \/ Exceeds(g, f)
    BY <2>1, ExceedsTotal
  <2>3. Latest(S \cup {f}) = Latest(S)
    <3>1. ASSUME NEW h \in Latest(S)
          PROVE  h \in Latest(S \cup {f})
      <4>1. h \in S /\ \A k \in S : k.object = h.object => ~Exceeds(k, h)
        BY DEF Latest
      <4>2. ASSUME f.object = h.object, Exceeds(f, h)
            PROVE  FALSE
        <5>1. ~Exceeds(g, h)
          BY <2>1, <4>1, <4>2
        <5>2. Exceeds(g, f) => Exceeds(g, h)
          BY <1>0, <2>1, <4>1, <4>2, ExceedsTransitive
        <5>. QED BY <2>2, <4>2, <5>1, <5>2
      <4>. QED BY <4>1, <4>2 DEF Latest
    <3>2. ASSUME NEW h \in Latest(S \cup {f})
          PROVE  h \in Latest(S)
      <4>1. h \in S \cup {f} /\ \A k \in S \cup {f} : k.object = h.object => ~Exceeds(k, h)
        BY DEF Latest
      <4>2. h \in S
        BY <2>1, <2>2, <4>1
      <4>. QED BY <4>1, <4>2 DEF Latest
    <3>. QED BY <3>1, <3>2
  <2>4. Supersede(Latest(S), f) = Latest(S)
    BY <1>1 DEF Supersede
  <2>5. Covered(S \cup {f})
    <3>. SUFFICES ASSUME NEW h \in S \cup {f}
                  PROVE  \E l \in Latest(S) : l.object = h.object /\ (l = h \/ Exceeds(l, h))
      BY <2>3, Zenon DEF Covered
    <3>1. CASE h \in S
      BY <3>1 DEF Covered
    <3>2. CASE h = f
      BY <2>1, <2>2, <3>2
    <3>. QED BY <3>1, <3>2
  <2>. QED BY <2>3, <2>4, <2>5
<1>2. CASE \A g \in Rivals : Exceeds(f, g)
  <2>1. ASSUME NEW h \in S, h.object = f.object
        PROVE  Exceeds(f, h)
    <3>1. PICK l \in Latest(S) : l.object = h.object /\ (l = h \/ Exceeds(l, h))
      BY DEF Covered
    <3>2. Exceeds(f, l) /\ l \in Fact /\ h \in Fact
      BY <1>0, <1>2, <2>1, <3>1
    <3>. QED BY <3>1, <3>2, ExceedsTransitive
  <2>2. Supersede(Latest(S), f) = {g \in Latest(S) : g.object # f.object} \cup {f}
    BY <1>2 DEF Supersede
  <2>3. f \in Latest(S \cup {f})
    <3>1. ~Exceeds(f, f)
      BY ExceedsAsymmetric
    <3>2. \A k \in S : k.object = f.object => ~Exceeds(k, f)
      BY <1>0, <2>1, ExceedsAsymmetric
    <3>. QED BY <3>1, <3>2 DEF Latest
  <2>4. Latest(S \cup {f}) = {g \in Latest(S) : g.object # f.object} \cup {f}
    <3>1. ASSUME NEW h \in Latest(S \cup {f}), h # f
          PROVE  h \in Latest(S) /\ h.object # f.object
      BY <2>1, <3>1 DEF Latest
    <3>2. ASSUME NEW h \in Latest(S), h.object # f.object
          PROVE  h \in Latest(S \cup {f})
      BY <3>2 DEF Latest
    <3>. QED BY <2>3, <3>1, <3>2
  <2>5. Covered(S \cup {f})
    <3>. SUFFICES ASSUME NEW h \in S \cup {f}
                  PROVE  \E l \in Latest(S \cup {f}) : l.object = h.object /\ (l = h \/ Exceeds(l, h))
      BY Zenon DEF Covered
    <3>1. CASE h.object = f.object
      BY <2>1, <2>3, <3>1
    <3>2. CASE h.object # f.object
      <4>1. PICK l \in Latest(S) : l.object = h.object /\ (l = h \/ Exceeds(l, h))
        BY <3>2 DEF Covered
      <4>. QED BY <2>4, <3>2, <4>1
    <3>. QED BY <3>1, <3>2
  <2>. QED BY <2>2, <2>4, <2>5
<1>. QED BY <1>1, <1>2

(* What the reducer has seen of an order after n facts.                    *)
Seen(order, n) == {order[k] : k \in 1..n}

LEMMA SeenNext ==
  ASSUME NEW order \in Seq(Fact), NEW n \in 1..Len(order)
  PROVE  /\ Seen(order, n) = Seen(order, n - 1) \cup {order[n]}
         /\ Seen(order, n - 1) \in SUBSET Fact /\ order[n] \in Fact
  BY DEF Seen

LEMMA SeenCovered ==
  ASSUME NEW order \in Seq(Fact), NEW n \in 0..Len(order)
  PROVE  Covered(Seen(order, n))
<1>. DEFINE Bad == {m \in 0..Len(order) : ~Covered(Seen(order, m))}
<1>. SUFFICES ASSUME Bad # {}
              PROVE  FALSE
  OBVIOUS
<1>1. PICK m \in Bad : \A k \in Bad : m <= k
  <2>1. Bad \in SUBSET Nat
    OBVIOUS
  <2>. QED BY <2>1, LeastNumber
<1>2. Covered(Seen(order, 0))
  BY DEF Covered, Seen
<1>3. m \in 1..Len(order)
  <2>1. m \in 0..Len(order) /\ ~Covered(Seen(order, m))
    BY <1>1
  <2>2. m # 0
    BY <1>2, <2>1
  <2>. QED BY <2>1, <2>2
<1>4. Covered(Seen(order, m - 1))
  <2>1. m - 1 \in 0..Len(order) /\ ~(m <= m - 1)
    BY <1>3
  <2>2. m - 1 \notin Bad
    BY <1>1, <2>1
  <2>. QED BY <2>1, <2>2
<1>5. Covered(Seen(order, m))
  <2>. DEFINE S == Seen(order, m - 1)
  <2>1. S \in SUBSET Fact /\ order[m] \in Fact /\ Seen(order, m) = S \cup {order[m]}
    BY <1>3, SeenNext
  <2>2. Covered(S)
    BY <1>4
  <2>3. Covered(S \cup {order[m]})
    <3>. HIDE DEF S
    <3>. QED BY <2>1, <2>2, SupersedeLatest
  <2>. QED BY <2>1, <2>3, Zenon
<1>. QED BY <1>1, <1>5

(* The equation of the reducer has a solution, so the reducer satisfies it. *)
LEMMA CurrentAfterEquation ==
  ASSUME NEW order \in Seq(Fact)
  PROVE  CurrentAfter(order) =
           [n \in 0..Len(order) |->
              IF n = 0 THEN {} ELSE Supersede(CurrentAfter(order)[n - 1], order[n])]
<1>. DEFINE Eqn(f) ==
              f = [n \in 0..Len(order) |-> IF n = 0 THEN {} ELSE Supersede(f[n - 1], order[n])]
            solution == [n \in 0..Len(order) |-> Latest(Seen(order, n))]
<1>1. CurrentAfter(order) = CHOOSE f : Eqn(f)
  BY Zenon DEF CurrentAfter
<1>2. ASSUME NEW n \in 0..Len(order)
      PROVE  solution[n] = IF n = 0 THEN {} ELSE Supersede(solution[n - 1], order[n])
  <2>0. solution[n] = Latest(Seen(order, n))
    OBVIOUS
  <2>1. CASE n = 0
    BY <2>0, <2>1 DEF Latest, Seen
  <2>2. CASE n # 0
    <3>1. n \in 1..Len(order) /\ n - 1 \in 0..Len(order)
      BY <2>2
    <3>2. solution[n - 1] = Latest(Seen(order, n - 1))
      BY <3>1
    <3>3. Latest(Seen(order, n)) = Supersede(Latest(Seen(order, n - 1)), order[n])
      BY <3>1, SeenNext, SeenCovered, SupersedeLatest, Zenon
    <3>. QED BY <2>0, <2>2, <3>2, <3>3, Zenon
  <2>. QED BY <2>1, <2>2
<1>3. Eqn(solution)
  <2>. DEFINE right(n) == IF n = 0 THEN {} ELSE Supersede(solution[n - 1], order[n])
  <2>1. \A n \in 0..Len(order) : solution[n] = right(n)
    BY <1>2, Zenon
  <2>2. solution = [n \in 0..Len(order) |-> solution[n]]
    OBVIOUS
  <2>. HIDE DEF solution
  <2>3. [n \in 0..Len(order) |-> solution[n]] = [n \in 0..Len(order) |-> right(n)]
    BY <2>1
  <2>. QED BY <2>2, <2>3, Zenon
<1>4. Eqn(CHOOSE f : Eqn(f))
  <2>. HIDE DEF solution
  <2>. QED BY <1>3, Zenon
<1>. QED BY <1>1, <1>4, Zenon

(* Reducing facts in any order leaves the latest fact of each object: what  *)
(* current_economic_facts returns does not depend on the order it is given, *)
(* nor on a fact being given twice.                                         *)
THEOREM ReducerKeepsLatest ==
  ASSUME NEW order \in Seq(Fact)
  PROVE  CurrentFacts(order) = Latest({order[k] : k \in 1..Len(order)})
<1>. DEFINE after == CurrentAfter(order)
            Bad == {m \in 0..Len(order) : after[m] # Latest(Seen(order, m))}
<1>0. \A n \in 0..Len(order) :
        after[n] = IF n = 0 THEN {} ELSE Supersede(after[n - 1], order[n])
  BY CurrentAfterEquation, Zenon
<1>. HIDE DEF after
<1>1. Bad = {}
  <2>. SUFFICES ASSUME Bad # {}
                PROVE  FALSE
    OBVIOUS
  <2>1. PICK m \in Bad : \A k \in Bad : m <= k
    <3>1. Bad \in SUBSET Nat
      OBVIOUS
    <3>. QED BY <3>1, LeastNumber
  <2>2. m # 0
    BY <1>0, <2>1 DEF Latest, Seen
  <2>3. m \in 1..Len(order) /\ m - 1 \in 0..Len(order) /\ m - 1 \notin Bad
    BY <2>1, <2>2
  <2>4. after[m - 1] = Latest(Seen(order, m - 1))
    BY <2>3
  <2>5. Latest(Seen(order, m)) = Supersede(Latest(Seen(order, m - 1)), order[m])
    BY <2>3, SeenNext, SeenCovered, SupersedeLatest, Zenon
  <2>6. after[m] = Supersede(after[m - 1], order[m])
    BY <1>0, <2>1, <2>2
  <2>. QED BY <2>1, <2>4, <2>5, <2>6
<1>2. after[Len(order)] = Latest(Seen(order, Len(order)))
  BY <1>1
<1>. QED BY <1>2, Zenon DEF CurrentFacts, after, Seen

-----------------------------------------------------------------------------
(* The facts recorded. *)
LedgerOK == ledger \subseteq Fact /\ IsFiniteSet(ledger)

LEMMA LedgerStaysOK == Spec => []LedgerOK
<1>1. Init => LedgerOK
  BY FS_EmptySet DEF Init, LedgerOK
<1>2. LedgerOK /\ [Next]_vars => LedgerOK'
  <2>. SUFFICES ASSUME LedgerOK, [Next]_vars
                PROVE  LedgerOK'
    OBVIOUS
  <2>1. ASSUME NEW f \in Fact, Record(f)
        PROVE  LedgerOK'
    BY <2>1, FS_AddElement DEF Record, LedgerOK
  <2>2. ASSUME NEW i \in Evaluator, Evaluate(i) \/ Persist(i) \/ Abandon(i)
        PROVE  ledger' = ledger
    BY <2>2 DEF Evaluate, Persist, Abandon
  <2>3. ledger' = ledger => LedgerOK'
    BY DEF LedgerOK
  <2>. QED BY <2>1, <2>2, <2>3 DEF Next, vars
<1>. QED BY <1>1, <1>2, PTL DEF Spec

(* A sequence of all elements of a finite set, each once, has all of them. *)
LEMMA EnumerationIsOnto ==
  ASSUME NEW S, IsFiniteSet(S), NEW f \in [1..Cardinality(S) -> S],
         \A i, j \in 1..Cardinality(S) : i # j => f[i] # f[j]
  PROVE  /\ f \in Seq(S) /\ Len(f) = Cardinality(S)
         /\ {f[k] : k \in 1..Len(f)} = S
<1>1. Cardinality(S) \in Nat
  BY FS_CardinalityType
<1>2. f \in Seq(S) /\ Len(f) = Cardinality(S)
  BY <1>1
<1>3. f \in Injection(1..Cardinality(S), S)
  BY DEF Injection, IsInjective
<1>4. Cardinality(1..Cardinality(S)) = Cardinality(S)
  BY <1>1, FS_Interval
<1>5. f \in Surjection(1..Cardinality(S), S)
  BY <1>3, <1>4, FS_Injection
<1>6. \A e \in S : \E k \in 1..Cardinality(S) : f[k] = e
  BY <1>5 DEF Surjection
<1>. QED BY <1>2, <1>6

(* The same fact of each object is current in whatever order the recorded  *)
(* facts are read: CurrentIsLatest, for any facts and any number of them.  *)
THEOREM CurrentIsLatestAlways == Spec => []CurrentIsLatest
<1>1. LedgerOK => CurrentIsLatest
  <2>. SUFFICES ASSUME LedgerOK, NEW order \in SetToSeqs(ledger)
                PROVE  CurrentFacts(order) = Latest(ledger)
    BY DEF CurrentIsLatest
  <2>1. /\ order \in [1..Cardinality(ledger) -> ledger]
        /\ \A i, j \in 1..Cardinality(ledger) : i # j => order[i] # order[j]
    BY DEF SetToSeqs
  <2>2. order \in Seq(Fact) /\ {order[k] : k \in 1..Len(order)} = ledger
    <3>1. order \in Seq(ledger) /\ {order[k] : k \in 1..Len(order)} = ledger
      BY <2>1, EnumerationIsOnto DEF LedgerOK
    <3>. QED BY <3>1 DEF LedgerOK
  <2>. QED BY <2>2, ReducerKeepsLatest
<1>. QED BY <1>1, LedgerStaysOK, PTL

LEMMA CurrentOfFinite ==
  ASSUME NEW S \in SUBSET Fact, IsFiniteSet(S)
  PROVE  Current(S) = Latest(S)
<1>. DEFINE enumerates(f) == f \in [1..Cardinality(S) -> S] /\ IsInjective(f)
            order == SetToSeq(S)
<1>1. \E f : enumerates(f)
  <2>1. PICK f : f \in Bijection(1..Cardinality(S), S)
    BY FS_CardinalityType DEF ExistsBijection
  <2>. QED BY <2>1 DEF Bijection, Injection
<1>2. enumerates(order)
  BY <1>1 DEF SetToSeq
<1>. HIDE DEF order
<1>3. order \in Seq(S) /\ {order[k] : k \in 1..Len(order)} = S
  BY <1>2, EnumerationIsOnto DEF IsInjective
<1>4. order \in Seq(Fact)
  BY <1>3
<1>. QED BY <1>3, <1>4, ReducerKeepsLatest, Zenon DEF Current, order

-----------------------------------------------------------------------------
(* What a rule fails on is current, and so is what a conflict names.       *)
LEMMA OffendingAreCurrent ==
  ASSUME NEW current, NEW r \in Rule
  PROVE  OffendingFacts(current)[r] \subseteq current
<1>1. \A kind, phases : Of(current, kind, phases) \subseteq current
  BY DEF Of
<1>2. /\ RefundsOverBound(current) \subseteq current
      /\ PrimaryOverlap(current) \subseteq current
      /\ DuplicateCompensation(current) \subseteq current
      /\ GoodwillOverLimit(current) \subseteq current
      /\ PendingDuplicates(current) \subseteq current
      /\ SettledPathCompeted(current) \subseteq current
  BY <1>1 DEF RefundsOverBound, PrimaryOverlap, DuplicateCompensation, GoodwillOverLimit,
     PendingDuplicates, SettledPathCompeted, Repeated, Refunds, Replacements, Goodwill
<1>. QED BY <1>2 DEF OffendingFacts

LEMMA FailuresName ==
  ASSUME NEW current, NEW c \in Failures(current)
  PROVE  c.rule \in Rule /\ c.operations \subseteq {f.operation : f \in current} \ {NoOperation}
<1>1. PICK r \in Rule : c = [rule |-> r, version |-> RuleVersion,
                             operations |-> OperationsOf(OffendingFacts(current)[r])]
  BY DEF Failures
<1>2. OffendingFacts(current)[r] \subseteq current
  BY OffendingAreCurrent
<1>. QED BY <1>1, <1>2 DEF OperationsOf

LEMMA LifecycleTyped == ASSUME NEW input PROVE SynthesizeLifecycle(input) \in Lifecycle
  BY DEF SynthesizeLifecycle, WithoutFailures, Lifecycle

-----------------------------------------------------------------------------
Document == [status : {"OPEN", "RESOLVED"}, first : 0..MaxFacts]

(* The documents after an evaluation are those before and those found; what *)
(* was found is open, with its date if it was open, and nothing else is.    *)
LEMMA StoreKeeps ==
  ASSUME conflicts \in [DOMAIN conflicts -> Document], OpenConflictsAgree,
         NEW found, NEW now \in 0..MaxFacts
  PROVE  /\ Store(found, now) \in [DOMAIN conflicts \cup found -> Document]
         /\ \A id \in DOMAIN conflicts \cup found :
              Store(found, now)[id].status = "OPEN" <=> id \in found
         /\ \A id \in found \cap root.open : Store(found, now)[id].first = conflicts[id].first
<1>1. root.open \subseteq DOMAIN conflicts
  BY DEF OpenConflictsAgree
<1>2. ASSUME NEW id \in DOMAIN conflicts \cup found
      PROVE  /\ Store(found, now)[id] \in Document
             /\ Store(found, now)[id].status = "OPEN" <=> id \in found
             /\ id \in found \cap root.open => Store(found, now)[id].first = conflicts[id].first
  <2>1. CASE id \in found
    BY <1>1, <2>1 DEF Store, Document
  <2>2. CASE id \notin found /\ id \in root.open
    <3>1. Store(found, now)[id] = [conflicts[id] EXCEPT !.status = "RESOLVED"]
      BY <1>2, <2>2 DEF Store
    <3>2. conflicts[id] \in Document
      BY <1>1, <2>2
    <3>. QED BY <2>2, <3>1, <3>2 DEF Document
  <2>3. CASE id \notin found /\ id \notin root.open
    <3>1. Store(found, now)[id] = conflicts[id] /\ id \in DOMAIN conflicts
      BY <1>2, <2>3 DEF Store
    <3>. QED BY <2>3, <3>1 DEF OpenConflictsAgree
  <2>. QED BY <2>1, <2>2, <2>3
<1>3. Store(found, now) = [id \in DOMAIN conflicts \cup found |-> Store(found, now)[id]]
  BY DEF Store
<1>. QED BY <1>2, <1>3

-----------------------------------------------------------------------------
(* The root is what the engine made of the snapshot it names.              *)
RootOK ==
  \/ root = [lifecycle |-> "OPEN", open |-> {}, snapshot |-> Nothing]
  \/ /\ root.lifecycle = SynthesizeLifecycle(root.snapshot)
     /\ root.open = Failures(Current(root.snapshot.facts))
     /\ root.snapshot.facts \subseteq ledger

ReadingOK ==
  /\ reading \in [Evaluator -> (SUBSET Fact) \cup {Nothing}]
  /\ \A i \in Evaluator : reading[i] # Nothing => reading[i] \subseteq ledger

ConflictsOK ==
  /\ conflicts \in [DOMAIN conflicts -> Document]
  /\ \A id \in DOMAIN conflicts :
       id.rule \in Rule /\ id.operations \subseteq {f.operation : f \in ledger} \ {NoOperation}
  /\ OpenConflictsAgree

EngineInv ==
  /\ LedgerOK /\ Cardinality(ledger) <= MaxFacts
  /\ ReadingOK
  /\ ConflictsOK
  /\ RootOK

LEMMA InitEngine == Init => EngineInv
<1>. SUFFICES ASSUME Init PROVE EngineInv
  OBVIOUS
<1>1. LedgerOK /\ Cardinality(ledger) <= MaxFacts
  BY FS_EmptySet, InvariantAssumption DEF Init, LedgerOK
<1>2. ReadingOK /\ ConflictsOK /\ RootOK
  BY DEF Init, ReadingOK, ConflictsOK, RootOK, OpenConflictsAgree
<1>. QED BY <1>1, <1>2 DEF EngineInv

LEMMA RecordKeeps ==
  ASSUME EngineInv, NEW new \in Fact, Record(new)
  PROVE  EngineInv'
<1>1. LedgerOK' /\ (Cardinality(ledger) <= MaxFacts)'
  <2>1. Cardinality(ledger) \in Nat /\ MaxFacts \in Nat
    BY FS_CardinalityType, InvariantAssumption DEF EngineInv, LedgerOK
  <2>2. IsFiniteSet(ledger \cup {new}) /\ Cardinality(ledger \cup {new}) = Cardinality(ledger) + 1
    BY FS_AddElement DEF Record, EngineInv, LedgerOK
  <2>3. ledger' = ledger \cup {new} /\ Cardinality(ledger) < MaxFacts /\ ledger \subseteq Fact
    BY DEF Record, EngineInv, LedgerOK
  <2>4. Cardinality(ledger') <= MaxFacts
    BY <2>1, <2>2, <2>3
  <2>. QED BY <2>2, <2>3, <2>4 DEF LedgerOK
<1>2. ledger \subseteq ledger' /\ UNCHANGED <<reading, conflicts, root>>
  BY DEF Record, storedVars
<1>3. ReadingOK'
  BY <1>2 DEF EngineInv, ReadingOK
<1>4. ConflictsOK'
  <2>1. {f.operation : f \in ledger} \subseteq {f.operation : f \in ledger'}
    BY <1>2
  <2>. QED BY <1>2, <2>1 DEF EngineInv, ConflictsOK, OpenConflictsAgree
<1>5. RootOK'
  BY <1>2 DEF EngineInv, RootOK
<1>. QED BY <1>1, <1>3, <1>4, <1>5 DEF EngineInv

LEMMA ReadingStepKeeps ==
  ASSUME EngineInv, NEW i \in Evaluator, Evaluate(i) \/ Abandon(i)
  PROVE  EngineInv'
<1>1. UNCHANGED <<ledger, conflicts, root>>
  BY DEF Evaluate, Abandon, storedVars
<1>2. ReadingOK'
  <2>1. \/ reading' = [reading EXCEPT ![i] = ledger]
        \/ reading' = [reading EXCEPT ![i] = Nothing]
    BY DEF Evaluate, Abandon
  <2>. QED BY <1>1, <2>1 DEF EngineInv, ReadingOK, LedgerOK
<1>. QED BY <1>1, <1>2 DEF EngineInv, LedgerOK, ConflictsOK, OpenConflictsAgree, RootOK

LEMMA PersistKeeps ==
  ASSUME EngineInv, NEW i \in Evaluator, Persist(i)
  PROVE  EngineInv'
<1>. DEFINE facts == reading[i]
            found == Failures(Current(facts))
            now == Cardinality(facts)
<1>1. PICK input : /\ input.facts = facts
                   /\ facts # Nothing
                   /\ conflicts' = Store(found, now)
                   /\ root'.lifecycle = SynthesizeLifecycle(input)
                   /\ root'.open = found /\ root'.snapshot = input
                   /\ reading' = [reading EXCEPT ![i] = Nothing]
                   /\ UNCHANGED ledger
  <2>1. PICK satisfied \in BOOLEAN, approval \in BOOLEAN :
          LET input == [facts |-> facts, satisfied |-> satisfied, approval |-> approval]
          IN  /\ facts # Nothing
              /\ root' = EvaluationBundle(input)
              /\ conflicts' = Store(root'.open, now)
              /\ reading' = [reading EXCEPT ![i] = Nothing]
              /\ UNCHANGED ledger
    BY Zenon DEF Persist
  <2>2. [facts |-> facts, satisfied |-> satisfied, approval |-> approval].facts = facts
    OBVIOUS
  <2>. DEFINE input == [facts |-> facts, satisfied |-> satisfied, approval |-> approval]
  <2>3. root'.open = found /\ root'.lifecycle = SynthesizeLifecycle(input) /\ root'.snapshot = input
    BY <2>1, <2>2, Zenon DEF EvaluationBundle
  <2>. QED BY <2>1, <2>2, <2>3, Zenon
<1>2. facts \subseteq ledger /\ facts \in SUBSET Fact /\ IsFiniteSet(facts)
  <2>1. facts \subseteq ledger
    BY <1>1 DEF EngineInv, ReadingOK
  <2>. QED BY <2>1, FS_Subset DEF EngineInv, LedgerOK
<1>3. now \in 0..MaxFacts
  <2>1. now \in Nat /\ Cardinality(ledger) \in Nat /\ now <= Cardinality(ledger)
    BY <1>2, FS_CardinalityType, FS_Subset DEF EngineInv, LedgerOK
  <2>. QED BY <2>1, InvariantAssumption DEF EngineInv
<1>4. \A id \in found : /\ id.rule \in Rule
                        /\ id.operations \subseteq {f.operation : f \in ledger} \ {NoOperation}
  <2>1. Current(facts) \subseteq ledger
    BY <1>2, CurrentOfFinite DEF Latest
  <2>. QED BY <2>1, FailuresName
<1>. HIDE DEF found, now, facts
<1>5. ConflictsOK'
  <2>1. /\ Store(found, now) \in [DOMAIN conflicts \cup found -> Document]
        /\ \A id \in DOMAIN conflicts \cup found :
             Store(found, now)[id].status = "OPEN" <=> id \in found
    <3>1. conflicts \in [DOMAIN conflicts -> Document] /\ OpenConflictsAgree
      BY DEF EngineInv, ConflictsOK
    <3>. QED BY <1>3, <3>1, StoreKeeps, Zenon
  <2>2. DOMAIN conflicts' = DOMAIN conflicts \cup found /\ root'.open = found
    BY <1>1, <2>1
  <2>. QED BY <1>1, <1>4, <2>1, <2>2 DEF EngineInv, ConflictsOK, OpenConflictsAgree
<1>6. RootOK'
  BY <1>1, <1>2 DEF RootOK, found
<1>7. ReadingOK'
  BY <1>1 DEF EngineInv, ReadingOK
<1>. QED BY <1>1, <1>5, <1>6, <1>7 DEF EngineInv, LedgerOK

THEOREM EngineInvariance == Spec => []EngineInv
<1>1. EngineInv /\ [Next]_vars => EngineInv'
  <2>. SUFFICES ASSUME EngineInv, [Next]_vars
                PROVE  EngineInv'
    OBVIOUS
  <2>1. ASSUME NEW f \in Fact, Record(f) PROVE EngineInv'
    BY <2>1, RecordKeeps
  <2>2. ASSUME NEW i \in Evaluator, Evaluate(i) \/ Abandon(i) PROVE EngineInv'
    BY <2>2, ReadingStepKeeps
  <2>3. ASSUME NEW i \in Evaluator, Persist(i) PROVE EngineInv'
    BY <2>3, PersistKeeps
  <2>4. CASE UNCHANGED vars
    BY <2>4 DEF vars, storedVars, EngineInv, LedgerOK, ReadingOK, ConflictsOK, OpenConflictsAgree,
       RootOK
  <2>. QED BY <2>1, <2>2, <2>3, <2>4 DEF Next
<1>. QED BY <1>1, InitEngine, PTL DEF Spec

(* Type correctness: conflicts are of known rules, name operations of       *)
(* recorded facts, and are dated within the facts recorded.                *)
THEOREM EngineTyped == Spec => []InvariantTypeOK
<1>1. EngineInv => InvariantTypeOK
  <2>. SUFFICES ASSUME EngineInv
                PROVE  InvariantTypeOK
    OBVIOUS
  <2>1. \A id \in DOMAIN conflicts : /\ conflicts[id].status \in {"OPEN", "RESOLVED"}
                                     /\ conflicts[id].first \in 0..MaxFacts
    BY DEF EngineInv, ConflictsOK, Document
  <2>2. root.lifecycle \in Lifecycle
    BY LifecycleTyped DEF EngineInv, RootOK, Lifecycle
  <2>. QED BY <2>1, <2>2 DEF EngineInv, LedgerOK, ReadingOK, ConflictsOK, InvariantTypeOK
<1>. QED BY <1>1, EngineInvariance, PTL

(* The open documents are those the root lists, however evaluators are      *)
(* interleaved and however old what they store is.                         *)
THEOREM ConflictsAgreeWithRoot == Spec => []OpenConflictsAgree
<1>1. EngineInv => OpenConflictsAgree
  BY DEF EngineInv, ConflictsOK
<1>. QED BY <1>1, EngineInvariance, PTL

(* No document is lost, and an open one keeps the date of its detection.    *)
THEOREM ConflictsKeepHistory == Spec => ConflictHistoryKept
<1>. DEFINE Kept == \A id \in DOMAIN conflicts :
                      /\ id \in DOMAIN conflicts'
                      /\ conflicts[id].status = "OPEN" /\ conflicts'[id].status = "OPEN"
                           => conflicts'[id].first = conflicts[id].first
<1>1. EngineInv /\ [Next]_vars => [Kept]_conflicts
  <2>. SUFFICES ASSUME EngineInv, Next, conflicts' # conflicts
                PROVE  Kept
    BY DEF vars, storedVars
  <2>1. PICK i \in Evaluator : Persist(i)
    BY DEF Next, Record, Evaluate, Abandon, storedVars
  <2>. DEFINE found == Failures(Current(reading[i]))
              now == Cardinality(reading[i])
  <2>2. conflicts' = Store(found, now)
    <3>1. PICK input : /\ input.facts = reading[i]
                       /\ root' = EvaluationBundle(input)
                       /\ conflicts' = Store(root'.open, now)
      BY <2>1 DEF Persist
    <3>2. root'.open = found
      BY <3>1, Zenon DEF EvaluationBundle
    <3>. QED BY <3>1, <3>2, Zenon
  <2>3. now \in 0..MaxFacts
    <3>1. reading[i] \subseteq ledger /\ IsFiniteSet(ledger)
      BY <2>1 DEF Persist, EngineInv, ReadingOK, LedgerOK
    <3>2. now \in Nat /\ Cardinality(ledger) \in Nat /\ now <= Cardinality(ledger)
      BY <3>1, FS_CardinalityType, FS_Subset
    <3>. QED BY <3>2, InvariantAssumption DEF EngineInv
  <2>. HIDE DEF found, now
  <2>4. /\ Store(found, now) \in [DOMAIN conflicts \cup found -> Document]
        /\ \A id \in DOMAIN conflicts \cup found :
             Store(found, now)[id].status = "OPEN" <=> id \in found
        /\ \A id \in found \cap root.open : Store(found, now)[id].first = conflicts[id].first
    <3>1. conflicts \in [DOMAIN conflicts -> Document] /\ OpenConflictsAgree
      BY DEF EngineInv, ConflictsOK
    <3>. QED BY <2>3, <3>1, StoreKeeps, Zenon
  <2>5. \A id \in DOMAIN conflicts : conflicts[id].status = "OPEN" => id \in root.open
    BY DEF EngineInv, ConflictsOK, OpenConflictsAgree
  <2>. QED BY <2>2, <2>4, <2>5
<1>. QED BY <1>1, EngineInvariance, PTL DEF Spec, ConflictHistoryKept

(* What is offended shows in the failures.                                 *)
LEMMA NoFailureNoOffence ==
  ASSUME NEW current, Failures(current) = {}, NEW r \in Rule
  PROVE  OffendingFacts(current)[r] = {}
<1>. SUFFICES ASSUME OffendingFacts(current)[r] # {}
              PROVE  FALSE
  OBVIOUS
<1>1. [rule |-> r, operations |-> OperationsOf(OffendingFacts(current)[r])] \in Failures(current)
  BY Zenon DEF Failures
<1>. QED BY <1>1

LEMMA OffendingByRule ==
  ASSUME NEW current
  PROVE  /\ OffendingFacts(current)["REFUND_VALUE_BOUND"] = RefundsOverBound(current)
         /\ OffendingFacts(current)["PRIMARY_RESOLUTION_EXCLUSIVE"] = PrimaryOverlap(current)
         /\ OffendingFacts(current)["DUPLICATE_COMPENSATION"] = DuplicateCompensation(current)
         /\ OffendingFacts(current)["GOODWILL_LIMIT"] = GoodwillOverLimit(current)
  BY DEF OffendingFacts, Rule

(* A pact the engine calls SETTLED is settled: its evidence is in, no       *)
(* approval is outstanding, no rule of the commerce pack is broken.         *)
THEOREM SettledIsSoundAlways == Spec => []SettledIsSound
<1>1. EngineInv => SettledIsSound
  <2>. SUFFICES ASSUME EngineInv, root.lifecycle = "SETTLED"
                PROVE  SettledIsSound
    BY DEF SettledIsSound
  <2>. DEFINE current == Current(root.snapshot.facts)
  <2>1. /\ SynthesizeLifecycle(root.snapshot) = "SETTLED"
        /\ root.open = Failures(current)
    BY DEF EngineInv, RootOK
  <2>2. Failures(current) = {} /\ WithoutFailures(root.snapshot, current) = "SETTLED"
    BY <2>1 DEF SynthesizeLifecycle
  <2>3. root.snapshot.satisfied /\ ~root.snapshot.approval
    BY <2>2 DEF WithoutFailures, CompletionUnknown
  <2>. HIDE DEF current
  <2>4. /\ RefundsOverBound(current) = {} /\ PrimaryOverlap(current) = {}
        /\ DuplicateCompensation(current) = {} /\ GoodwillOverLimit(current) = {}
    BY <2>2, NoFailureNoOffence, OffendingByRule DEF Rule
  <2>5. Refunds(current) = {} \/ Replacements(current) = {} \/ DualCompensation
    BY <2>4 DEF PrimaryOverlap
  <2>6. Refunds(current) # {} => Excess(Total(Refunds(current)), CapturedValue + RefundException) = 0
    BY <2>4, Zenon DEF RefundsOverBound, Excess
  <2>7. Goodwill(current) # {} => Excess(Total(Goodwill(current)), GoodwillLimit) = 0
    BY <2>4, Zenon DEF GoodwillOverLimit, Excess
  <2>8. \A f, g \in Refunds(current) \cup Replacements(current) : f.intent = g.intent => f = g
    BY <2>4 DEF DuplicateCompensation, Repeated
  <2>. QED BY <2>1, <2>2, <2>3, <2>5, <2>6, <2>7, <2>8, Zenon DEF SettledIsSound, current
<1>. QED BY <1>1, EngineInvariance, PTL

(* A refund and a replacement, one of them carried out, are a violation     *)
(* with a conflict that names both operations, whatever else is recorded.   *)
THEOREM DualRemedyAlwaysShown == Spec => []DualRemedyIsViolation
<1>1. EngineInv => DualRemedyIsViolation
  <2>. DEFINE current == Current(root.snapshot.facts)
  <2>. SUFFICES ASSUME EngineInv, root.snapshot # Nothing, ~DualCompensation,
                       NEW f \in Refunds(current), NEW g \in Replacements(current),
                       f.executed \/ g.executed, NoOperation \notin {f.operation, g.operation}
                PROVE  /\ root.lifecycle = "VIOLATED"
                       /\ \E id \in root.open : {f.operation, g.operation} \subseteq id.operations
    BY DEF DualRemedyIsViolation
  <2>1. /\ root.lifecycle = SynthesizeLifecycle(root.snapshot)
        /\ root.open = Failures(current)
    BY DEF EngineInv, RootOK
  <2>2. /\ f \in current /\ g \in current
        /\ f.phase # "BLOCKED" /\ g.phase # "BLOCKED"
    BY DEF Refunds, Replacements, Of, ActivePhases, Unsettled
  <2>. DEFINE both == Refunds(current) \cup Replacements(current)
              conflict == [rule |-> "PRIMARY_RESOLUTION_EXCLUSIVE", version |-> RuleVersion,
                           operations |-> OperationsOf(both)]
  <2>3. OffendingFacts(current)["PRIMARY_RESOLUTION_EXCLUSIVE"] = both /\ both # {}
    BY OffendingByRule DEF PrimaryOverlap
  <2>4. {f.operation, g.operation} \subseteq OperationsOf(both)
    BY DEF OperationsOf
  <2>5. conflict \in Failures(current)
    BY <2>3, Zenon DEF Failures, Rule
  <2>6. ExecutedEffect(current, Failures(current))
    <3>1. conflict.operations = OperationsOf(both)
      OBVIOUS
    <3>2. conflict.operations \in {c.operations : c \in Failures(current)}
      BY <2>5, Zenon
    <3>3. OperationsOf(both) \subseteq UNION {c.operations : c \in Failures(current)}
      BY <3>1, <3>2, Zenon
    <3>4. /\ f.operation \in UNION {c.operations : c \in Failures(current)}
          /\ g.operation \in UNION {c.operations : c \in Failures(current)}
      BY <2>4, <3>3
    <3>5. f.executed => ExecutedEffect(current, Failures(current))
      BY <2>2, <3>4, Zenon DEF ExecutedEffect
    <3>6. g.executed => ExecutedEffect(current, Failures(current))
      BY <2>2, <3>4, Zenon DEF ExecutedEffect
    <3>. QED BY <3>5, <3>6
  <2>7. root.lifecycle = "VIOLATED"
    BY <2>1, <2>5, <2>6 DEF SynthesizeLifecycle
  <2>8. {f.operation, g.operation} \subseteq conflict.operations
    BY <2>4
  <2>. QED BY <2>1, <2>5, <2>7, <2>8
<1>. QED BY <1>1, EngineInvariance, PTL

-----------------------------------------------------------------------------
(* Totals of the amounts of facts.                                         *)
LEMMA FactAmounts ==
  ASSUME NEW f \in Fact
  PROVE  f.amount \in Nat
  BY InvariantAssumption DEF IsEconomicFact

LEMMA TotalTyped ==
  ASSUME NEW S \in SUBSET Fact, IsFiniteSet(S)
  PROVE  Total(S) \in Nat
<1>1. \A f \in S : [g \in S |-> g.amount][f] \in Nat
  BY FactAmounts
<1>2. QED
  BY <1>1, SumOfNumbers DEF Total

LEMMA TotalOfNone == Total({}) = 0
  BY SumOfNone DEF Total

LEMMA TotalOfUnion ==
  ASSUME NEW S \in SUBSET Fact, NEW T \in SUBSET Fact, IsFiniteSet(S), IsFiniteSet(T),
         S \cap T = {}
  PROVE  Total(S \cup T) = Total(S) + Total(T)
<1>. DEFINE amount(U) == [f \in U |-> f.amount]
<1>1. PICK both : both = amount(S \cup T)
  OBVIOUS
<1>2. \A f \in S \cup T : both[f] \in Int
  BY <1>1, FactAmounts
<1>3. SumFunctionOnSet(both, S \cup T) = SumFunctionOnSet(both, S) + SumFunctionOnSet(both, T)
  BY <1>2, SumOfUnion
<1>4. \A f \in S : both[f] = amount(S)[f]
  BY <1>1
<1>5. \A f \in T : both[f] = amount(T)[f]
  BY <1>1
<1>. HIDE DEF amount
<1>6. SumFunctionOnSet(both, S) = SumFunctionOnSet(amount(S), S)
  BY <1>4, SumsAgree
<1>7. SumFunctionOnSet(both, T) = SumFunctionOnSet(amount(T), T)
  BY <1>5, SumsAgree
<1>8. QED
  BY <1>1, <1>3, <1>6, <1>7 DEF Total, amount

(* Without a conflict and a replacement, what is under way and what is done *)
(* comes to no more than the policy allows and other exceptions add.       *)
THEOREM ExposureIsBounded == Spec => []ExposureBounded
<1>1. EngineInv => ExposureBounded
  <2>. DEFINE now == Current(root.snapshot.facts)
              position == PositionOf(root.snapshot)
  <2>. SUFFICES ASSUME EngineInv, root.snapshot # Nothing, root.open = {}, Replacements(now) = {}
                PROVE  position.projectedExcess
                         <= RefundException + GoodwillLimit + position.otherException
    BY Zenon DEF ExposureBounded
  <2>1. PICK current : current = now
    OBVIOUS
  <2>2. Failures(current) = {} /\ current \in SUBSET Fact /\ IsFiniteSet(current)
    <3>1. root.open = Failures(now) /\ root.snapshot.facts \subseteq ledger
      BY DEF EngineInv, RootOK
    <3>2. root.snapshot.facts \in SUBSET Fact /\ IsFiniteSet(root.snapshot.facts)
      BY <3>1, FS_Subset DEF EngineInv, LedgerOK
    <3>3. now \subseteq root.snapshot.facts
      BY <3>2, CurrentOfFinite DEF Latest
    <3>4. QED
      BY <2>1, <3>1, <3>2, <3>3, FS_Subset
  <2>. DEFINE active == {f \in current : f.phase \in ActivePhases}
              other == Of(current, "OTHER_EXCEPTION", ActivePhases)
  <2>3. /\ position.projectedExcess = Excess(Total(active), CapturedValue)
        /\ position.otherException = Total(other)
    BY <2>1 DEF PositionOf, EconomicPosition
  <2>. HIDE DEF now, position
  <2>4. CapturedValue \in Nat /\ RefundException \in Nat /\ GoodwillLimit \in Nat
    BY InvariantAssumption DEF IsEconomicPolicy
  <2>5. /\ Refunds(current) \in SUBSET Fact /\ IsFiniteSet(Refunds(current))
        /\ Goodwill(current) \in SUBSET Fact /\ IsFiniteSet(Goodwill(current))
        /\ other \in SUBSET Fact /\ IsFiniteSet(other)
    BY <2>2, FS_Subset DEF Refunds, Goodwill, Of
  <2>6. /\ Refunds(current) \cap Goodwill(current) = {}
        /\ (Refunds(current) \cup Goodwill(current)) \cap other = {}
    BY DEF Refunds, Goodwill, Of
  <2>7. active = (Refunds(current) \cup Goodwill(current)) \cup other
    <3>1. Replacements(current) = {}
      BY <2>1
    <3>2. \A f \in current : f.kind \in Kind
      BY <2>2, InvariantAssumption DEF IsEconomicFact
    <3>3. QED
      BY <3>1, <3>2 DEF Refunds, Goodwill, Replacements, Of, Kind
  <2>8. PICK refunds, goodwill, others : /\ refunds = Total(Refunds(current))
                                         /\ goodwill = Total(Goodwill(current))
                                         /\ others = Total(other)
    OBVIOUS
  <2>9. refunds \in Nat /\ goodwill \in Nat /\ others \in Nat
    BY <2>5, <2>8, TotalTyped
  <2>10. Total(active) = (refunds + goodwill) + others
    <3>. HIDE DEF active, other
    <3>1. PICK both : both = Refunds(current) \cup Goodwill(current)
      OBVIOUS
    <3>2. both \in SUBSET Fact /\ IsFiniteSet(both) /\ both \cap other = {}
      BY <2>5, <2>6, <3>1, FS_Union
    <3>3. Total(both \cup other) = Total(both) + Total(other)
      BY <2>5, <3>2, TotalOfUnion
    <3>4. Total(both) = refunds + goodwill
      BY <2>5, <2>6, <2>8, <3>1, TotalOfUnion
    <3>5. QED
      BY <2>7, <2>8, <3>1, <3>3, <3>4
  <2>11. /\ RefundsOverBound(current) = {}
         /\ GoodwillOverLimit(current) = {}
    BY <2>2, NoFailureNoOffence, OffendingByRule DEF Rule
  <2>12. refunds <= CapturedValue + RefundException
    <3>1. CASE Refunds(current) = {}
      BY <2>4, <2>8, <3>1, TotalOfNone
    <3>2. CASE Refunds(current) # {}
      <4>1. ~(Total(Refunds(current)) > CapturedValue + RefundException)
        BY <2>11, <3>2, Zenon DEF RefundsOverBound
      <4>2. QED
        BY <2>4, <2>8, <2>9, <4>1
    <3>3. QED
      BY <3>1, <3>2
  <2>13. goodwill <= GoodwillLimit
    <3>1. CASE Goodwill(current) = {}
      BY <2>4, <2>8, <3>1, TotalOfNone
    <3>2. CASE Goodwill(current) # {}
      <4>1. ~(Total(Goodwill(current)) > GoodwillLimit)
        BY <2>11, <3>2, Zenon DEF GoodwillOverLimit
      <4>2. QED
        BY <2>4, <2>8, <2>9, <4>1
    <3>3. QED
      BY <3>1, <3>2
  <2>. HIDE DEF active, other
  <2>14. Excess(Total(active), CapturedValue) <= RefundException + GoodwillLimit + others
    BY <2>4, <2>9, <2>10, <2>12, <2>13 DEF Excess
  <2>15. QED
    BY <2>3, <2>8, <2>14
<1>2. QED
  BY <1>1, EngineInvariance, PTL
=============================================================================
