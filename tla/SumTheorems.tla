------------------------------ MODULE SumTheorems ------------------------------
(***************************************************************************)
(* Sums of the values of a function over a finite set: what the recursion   *)
(* that defines SumFunctionOnSet computes, whichever element it takes       *)
(* first.  Induction is by least counterexample, so that every step is of   *)
(* first order.                                                             *)
(***************************************************************************)
EXTENDS FiniteSetTheorems, TLAPS

(* Every set of numbers that is not empty has a least one.                  *)
LEMMA LeastNumber ==
  ASSUME NEW T \in SUBSET Nat, T # {}
  PROVE  \E n \in T : \A m \in T : n <= m
<1>1. PICK n \in T : \A m \in T : <<m, n>> \notin OpToRel(<, Nat)
  BY NatLessThanWellFounded, WFMin, Zenon
<1>2. ASSUME NEW m \in T, m < n
      PROVE  FALSE
  <2>1. <<m, n>> \in Nat \X Nat /\ <<m, n>>[1] < <<m, n>>[2]
    BY <1>2
  <2>2. <<m, n>> \in OpToRel(<, Nat)
    BY <2>1, Zenon DEF OpToRel
  <2>3. QED
    BY <1>1, <1>2, <2>2, Zenon
<1>3. QED
  BY <1>2

(* A family of subsets of a finite set that has a set whenever it has all    *)
(* that are smaller has them all.                                           *)
LEMMA FiniteInduction ==
  ASSUME NEW S, IsFiniteSet(S), NEW P \in SUBSET SUBSET S,
         \A T \in SUBSET S : (\A U \in SUBSET T : U # T => U \in P) => T \in P
  PROVE  P = SUBSET S
<1>. DEFINE Bad == (SUBSET S) \ P
            Sizes == {Cardinality(T) : T \in Bad}
<1> SUFFICES ASSUME Bad # {}
             PROVE  FALSE
  OBVIOUS
<1>1. \A T \in SUBSET S : IsFiniteSet(T) /\ Cardinality(T) \in Nat
  BY FS_Subset, FS_CardinalityType
<1>2. Sizes \in SUBSET Nat /\ Sizes # {}
  BY <1>1
<1>3. PICK n \in Sizes : \A m \in Sizes : n <= m
  BY <1>2, LeastNumber
<1>4. PICK T \in Bad : Cardinality(T) = n
  OBVIOUS
<1>5. ASSUME NEW U \in SUBSET T, U # T
      PROVE  U \in P
  <2>1. Cardinality(U) <= Cardinality(T) /\ Cardinality(U) # Cardinality(T)
    BY <1>1, <1>5, FS_Subset
  <2>2. U \notin Bad
    BY <1>1, <1>3, <1>4, <2>1
  <2>3. QED
    BY <2>2
<1>6. QED
  BY <1>4, <1>5

-----------------------------------------------------------------------------
(* The recursion.                                                           *)
FirstOf(s) == CHOOSE x \in s : TRUE

PartialSums(g, f, S) ==
  g = [s \in SUBSET S |-> IF s = {} THEN 0 ELSE f[FirstOf(s)] + g[s \ {FirstOf(s)}]]

LEMMA SumUnfolded ==
  ASSUME NEW f, NEW S
  PROVE  SumFunctionOnSet(f, S) = (CHOOSE g : PartialSums(g, f, S))[S]
  BY DEF SumFunctionOnSet, FoldFunctionOnSet, MapThenFoldSet, PartialSums, FirstOf

(* The recursion defines a function, of the subsets of a finite set.        *)
LEMMA PartialSumsExist ==
  ASSUME NEW f, NEW S, IsFiniteSet(S)
  PROVE  \E g : PartialSums(g, f, S)
<1>. DEFINE Level(n) == {s \in SUBSET S : Cardinality(s) <= n}
            IsUpTo(g, n) ==
              g = [s \in Level(n) |-> IF s = {} THEN 0 ELSE f[FirstOf(s)] + g[s \ {FirstOf(s)}]]
            Missing == {n \in Nat : ~\E g : IsUpTo(g, n)}
<1>1. \A s \in SUBSET S : IsFiniteSet(s) /\ Cardinality(s) \in Nat
  BY FS_Subset, FS_CardinalityType
<1>2. \A s \in SUBSET S : s # {} =>
        /\ FirstOf(s) \in s /\ s \ {FirstOf(s)} \in SUBSET S
        /\ Cardinality(s \ {FirstOf(s)}) = Cardinality(s) - 1
  <2> SUFFICES ASSUME NEW s \in SUBSET S, s # {}
               PROVE  /\ FirstOf(s) \in s /\ s \ {FirstOf(s)} \in SUBSET S
                      /\ Cardinality(s \ {FirstOf(s)}) = Cardinality(s) - 1
    OBVIOUS
  <2>1. FirstOf(s) \in s
    BY DEF FirstOf
  <2>2. QED
    BY <1>1, <2>1, FS_RemoveElement
<1>3. \E g : IsUpTo(g, 0)
  <2>1. \A s \in Level(0) : s = {}
    BY <1>1, FS_EmptySet
  <2>2. PICK g : g = [s \in Level(0) |-> 0]
    OBVIOUS
  <2>3. IsUpTo(g, 0)
    BY <2>1, <2>2
  <2>4. QED
    BY <2>3
<1>4. ASSUME NEW n \in Nat, NEW g, IsUpTo(g, n)
      PROVE  \E h : IsUpTo(h, n + 1)
  <2>1. PICK h : h = [s \in Level(n + 1) |->
                        IF s = {} THEN 0 ELSE f[FirstOf(s)] + g[s \ {FirstOf(s)}]]
    OBVIOUS
  <2>2. \A s \in Level(n) : s \in Level(n + 1) /\ h[s] = g[s]
    <3>1. \A s \in Level(n) : s \in Level(n + 1)
      BY <1>1
    <3>. HIDE DEF Level
    <3>2. \A s \in Level(n) :
            g[s] = IF s = {} THEN 0 ELSE f[FirstOf(s)] + g[s \ {FirstOf(s)}]
      BY <1>4
    <3>3. \A s \in Level(n + 1) :
            h[s] = IF s = {} THEN 0 ELSE f[FirstOf(s)] + g[s \ {FirstOf(s)}]
      BY <2>1
    <3>4. QED
      BY <3>1, <3>2, <3>3, Zenon
  <2>3. \A s \in Level(n + 1) : s # {} => s \ {FirstOf(s)} \in Level(n)
    BY <1>1, <1>2
  <2>4. \A s \in Level(n + 1) : s # {} => h[s \ {FirstOf(s)}] = g[s \ {FirstOf(s)}]
    BY <2>2, <2>3
  <2>. HIDE DEF Level
  <2>5. IsUpTo(h, n + 1)
    BY <2>1, <2>4
  <2>6. QED
    BY <2>5
<1>5. Missing = {}
  <2> SUFFICES ASSUME Missing # {}
               PROVE  FALSE
    OBVIOUS
  <2>. HIDE DEF IsUpTo
  <2>1. PICK n \in Missing : \A m \in Missing : n <= m
    BY LeastNumber
  <2>2. n # 0
    BY <1>3
  <2>3. n - 1 \in Nat /\ n - 1 \notin Missing /\ (n - 1) + 1 = n
    BY <2>1, <2>2
  <2>4. \E h : IsUpTo(h, (n - 1) + 1)
    BY <1>4, <2>3
  <2>5. QED
    BY <2>3, <2>4
<1>6. Cardinality(S) \in Nat /\ Level(Cardinality(S)) = SUBSET S
  BY <1>1, FS_Subset
<1>7. PICK g : IsUpTo(g, Cardinality(S))
  BY <1>5, <1>6
<1>8. PartialSums(g, f, S)
  BY <1>6, <1>7 DEF PartialSums
<1>9. QED
  BY <1>8

(* What it is of a set depends on that set and on the function there.       *)
LEMMA PartialSumsAgree ==
  ASSUME NEW f, NEW e, NEW S, NEW T, NEW U, U \subseteq S, U \subseteq T, IsFiniteSet(U),
         \A x \in U : f[x] = e[x],
         NEW g, NEW h, PartialSums(g, f, S), PartialSums(h, e, T)
  PROVE  g[U] = h[U]
<1>. DEFINE P == {V \in SUBSET U : g[V] = h[V]}
<1>1. ASSUME NEW V \in SUBSET U, \A W \in SUBSET V : W # V => W \in P
      PROVE  V \in P
  <2>1. CASE V = {}
    BY <2>1 DEF PartialSums
  <2>2. CASE V # {}
    <3>1. FirstOf(V) \in V
      BY <2>2 DEF FirstOf
    <3>2. f[FirstOf(V)] = e[FirstOf(V)]
      BY <3>1
    <3>3. V \ {FirstOf(V)} \in P
      BY <1>1, <3>1
    <3>4. g[V \ {FirstOf(V)}] = h[V \ {FirstOf(V)}]
      BY <3>3
    <3>5. /\ g[V] = f[FirstOf(V)] + g[V \ {FirstOf(V)}]
          /\ h[V] = e[FirstOf(V)] + h[V \ {FirstOf(V)}]
      BY <2>2 DEF PartialSums
    <3>6. QED
      BY <3>2, <3>4, <3>5
  <2>3. QED
    BY <2>1, <2>2
<1>2. P \in SUBSET SUBSET U
  OBVIOUS
<1>. HIDE DEF P
<1>3. P = SUBSET U
  BY <1>1, <1>2, FiniteInduction
<1>4. QED
  BY <1>3 DEF P

LEMMA SumIsPartial ==
  ASSUME NEW f, NEW S, IsFiniteSet(S)
  PROVE  \E g : PartialSums(g, f, S) /\ SumFunctionOnSet(f, S) = g[S]
<1>1. PICK h : PartialSums(h, f, S)
  BY PartialSumsExist
<1>2. PartialSums(CHOOSE g : PartialSums(g, f, S), f, S)
  BY <1>1, Zenon
<1>3. QED
  BY <1>2, SumUnfolded

-----------------------------------------------------------------------------
THEOREM SumOfNone == \A f : SumFunctionOnSet(f, {}) = 0
<1> SUFFICES ASSUME NEW f
             PROVE  SumFunctionOnSet(f, {}) = 0
  OBVIOUS
<1>1. PICK g : PartialSums(g, f, {}) /\ SumFunctionOnSet(f, {}) = g[{}]
  BY SumIsPartial, FS_EmptySet
<1>2. QED
  BY <1>1 DEF PartialSums

LEMMA SumTakesFirst ==
  ASSUME NEW S, IsFiniteSet(S), NEW f, S # {}
  PROVE  /\ FirstOf(S) \in S
         /\ SumFunctionOnSet(f, S)
              = f[FirstOf(S)] + SumFunctionOnSet(f, S \ {FirstOf(S)})
<1>. DEFINE T == S \ {FirstOf(S)}
<1>1. FirstOf(S) \in S
  BY DEF FirstOf
<1>2. IsFiniteSet(T) /\ T \in SUBSET S
  BY FS_Subset
<1>3. PICK g : PartialSums(g, f, S) /\ SumFunctionOnSet(f, S) = g[S]
  BY SumIsPartial
<1>4. PICK h : PartialSums(h, f, T) /\ SumFunctionOnSet(f, T) = h[T]
  BY <1>2, SumIsPartial
<1>. HIDE DEF T
<1>5. g[T] = h[T]
  BY <1>2, <1>3, <1>4, PartialSumsAgree
<1>6. g[S] = f[FirstOf(S)] + g[T]
  BY <1>3 DEF PartialSums, T
<1>7. QED
  BY <1>1, <1>3, <1>4, <1>5, <1>6 DEF T

(* The sums of functions that agree on a set are one.                       *)
THEOREM SumsAgree ==
  ASSUME NEW S, IsFiniteSet(S), NEW f, NEW e, \A x \in S : f[x] = e[x]
  PROVE  SumFunctionOnSet(f, S) = SumFunctionOnSet(e, S)
<1>. DEFINE P == {U \in SUBSET S : SumFunctionOnSet(f, U) = SumFunctionOnSet(e, U)}
<1>1. ASSUME NEW U \in SUBSET S, \A V \in SUBSET U : V # U => V \in P
      PROVE  U \in P
  <2>1. CASE U = {}
    BY <2>1, SumOfNone
  <2>2. CASE U # {}
    <3>1. IsFiniteSet(U)
      BY FS_Subset
    <3>2. FirstOf(U) \in U
      BY <2>2 DEF FirstOf
    <3>3. PICK V : V = U \ {FirstOf(U)}
      OBVIOUS
    <3>4. V \in P /\ f[FirstOf(U)] = e[FirstOf(U)]
      BY <1>1, <3>2, <3>3
    <3>5. SumFunctionOnSet(f, U) = f[FirstOf(U)] + SumFunctionOnSet(f, V)
      BY <2>2, <3>1, <3>3, SumTakesFirst
    <3>6. SumFunctionOnSet(e, U) = e[FirstOf(U)] + SumFunctionOnSet(e, V)
      BY <2>2, <3>1, <3>3, SumTakesFirst
    <3>7. QED
      BY <3>4, <3>5, <3>6
  <2>3. QED
    BY <2>1, <2>2
<1>2. P \in SUBSET SUBSET S
  OBVIOUS
<1>. HIDE DEF P
<1>3. P = SUBSET S
  BY <1>1, <1>2, FiniteInduction
<1>4. QED
  BY <1>3 DEF P

(* Whichever element is taken first, the sum is the same.                   *)
THEOREM SumTakesAny ==
  ASSUME NEW S, IsFiniteSet(S), NEW f, \A x \in S : f[x] \in Int
  PROVE  /\ SumFunctionOnSet(f, S) \in Int
         /\ \A x \in S : SumFunctionOnSet(f, S) = f[x] + SumFunctionOnSet(f, S \ {x})
<1>. DEFINE Q(T) == /\ SumFunctionOnSet(f, T) \in Int
                    /\ \A x \in T : SumFunctionOnSet(f, T) = f[x] + SumFunctionOnSet(f, T \ {x})
            P == {T \in SUBSET S : Q(T)}
<1>1. ASSUME NEW T \in SUBSET S, \A U \in SUBSET T : U # T => U \in P
      PROVE  T \in P
  <2>0. IsFiniteSet(T)
    BY FS_Subset
  <2>1. CASE T = {}
    <3>1. SumFunctionOnSet(f, T) = 0
      BY <2>1, SumOfNone
    <3>2. QED
      BY <2>1, <3>1
  <2>2. CASE T # {}
    <3>1. PICK y \in T : SumFunctionOnSet(f, T) = f[y] + SumFunctionOnSet(f, T \ {y})
      BY <2>0, <2>2, SumTakesFirst
    <3>2. \A x \in T : T \ {x} \in P
      BY <1>1
    <3>3. \A x \in T : Q(T \ {x})
      BY <3>2
    <3>4. \A x \in T : f[x] \in Int
      OBVIOUS
    <3>5. \A x \in T : SumFunctionOnSet(f, T \ {x}) \in Int
      BY <3>3
    <3>6. ASSUME NEW x \in T, x # y
          PROVE  SumFunctionOnSet(f, T) = f[x] + SumFunctionOnSet(f, T \ {x})
      <4>1. SumFunctionOnSet(f, T \ {y}) = f[x] + SumFunctionOnSet(f, (T \ {y}) \ {x})
        BY <3>3, <3>6
      <4>2. SumFunctionOnSet(f, T \ {x}) = f[y] + SumFunctionOnSet(f, (T \ {x}) \ {y})
        BY <3>3, <3>6
      <4>3. (T \ {y}) \ {x} = (T \ {x}) \ {y}
        OBVIOUS
      <4>4. PICK rest : rest = SumFunctionOnSet(f, (T \ {y}) \ {x})
        OBVIOUS
      <4>5. rest \in Int
        <5>1. (T \ {y}) \ {x} \in P
          BY <1>1
        <5>2. QED
          BY <4>4, <5>1
      <4>6. /\ SumFunctionOnSet(f, T) = f[y] + (f[x] + rest)
            /\ SumFunctionOnSet(f, T \ {x}) = f[y] + rest
        BY <3>1, <4>1, <4>2, <4>3, <4>4
      <4>7. QED
        BY <3>4, <4>5, <4>6
    <3>7. SumFunctionOnSet(f, T) \in Int
      BY <3>1, <3>4, <3>5
    <3>8. Q(T)
      BY <3>1, <3>6, <3>7
    <3>9. QED
      BY <3>8
  <2>3. QED
    BY <2>1, <2>2
<1>2. P \in SUBSET SUBSET S
  OBVIOUS
<1>. HIDE DEF P
<1>3. P = SUBSET S
  BY <1>1, <1>2, FiniteInduction
<1>4. QED
  BY <1>3 DEF P

THEOREM SumOfOne ==
  ASSUME NEW f, NEW x, f[x] \in Int
  PROVE  SumFunctionOnSet(f, {x}) = f[x]
<1>1. SumFunctionOnSet(f, {x}) = f[x] + SumFunctionOnSet(f, {x} \ {x})
  BY FS_Singleton, SumTakesAny
<1>2. SumFunctionOnSet(f, {x} \ {x}) = 0
  BY SumOfNone
<1>3. QED
  BY <1>1, <1>2

(* The sum over two sets that have nothing in common.                       *)
THEOREM SumOfUnion ==
  ASSUME NEW S, NEW T, IsFiniteSet(S), IsFiniteSet(T), S \cap T = {},
         NEW f, \A x \in S \cup T : f[x] \in Int
  PROVE  SumFunctionOnSet(f, S \cup T) = SumFunctionOnSet(f, S) + SumFunctionOnSet(f, T)
<1>. DEFINE P == {U \in SUBSET T :
                    SumFunctionOnSet(f, S \cup U) = SumFunctionOnSet(f, S) + SumFunctionOnSet(f, U)}
<1>1. ASSUME NEW U \in SUBSET T, \A V \in SUBSET U : V # U => V \in P
      PROVE  U \in P
  <2>0. IsFiniteSet(U) /\ IsFiniteSet(S \cup U) /\ S \cup U \subseteq S \cup T
    BY FS_Subset, FS_Union
  <2>1. SumFunctionOnSet(f, S) \in Int
    BY SumTakesAny
  <2>2. CASE U = {}
    <3>1. S \cup U = S
      BY <2>2
    <3>2. SumFunctionOnSet(f, U) = 0
      BY <2>2, SumOfNone
    <3>3. SumFunctionOnSet(f, S \cup U) = SumFunctionOnSet(f, S)
      BY <3>1, Zenon
    <3>4. QED
      BY <2>1, <3>2, <3>3
  <2>3. CASE U # {}
    <3>1. PICK x \in U : TRUE
      BY <2>3
    <3>2. U \ {x} \in P /\ (S \cup U) \ {x} = S \cup (U \ {x})
      BY <1>1, <3>1
    <3>3. SumFunctionOnSet(f, S \cup (U \ {x}))
            = SumFunctionOnSet(f, S) + SumFunctionOnSet(f, U \ {x})
      BY <3>2
    <3>4. SumFunctionOnSet(f, U) = f[x] + SumFunctionOnSet(f, U \ {x})
      BY <2>0, SumTakesAny
    <3>5. SumFunctionOnSet(f, S \cup U) = f[x] + SumFunctionOnSet(f, (S \cup U) \ {x})
      BY <2>0, SumTakesAny
    <3>6. f[x] \in Int /\ SumFunctionOnSet(f, U \ {x}) \in Int
      <4>1. IsFiniteSet(U \ {x}) /\ U \ {x} \subseteq T
        BY <2>0, FS_Subset
      <4>2. QED
        BY <4>1, SumTakesAny
    <3>7. SumFunctionOnSet(f, (S \cup U) \ {x}) = SumFunctionOnSet(f, S \cup (U \ {x}))
      BY <3>2, Zenon
    <3>8. PICK s, r : s = SumFunctionOnSet(f, S) /\ r = SumFunctionOnSet(f, U \ {x})
      OBVIOUS
    <3>9. s \in Int /\ r \in Int /\ f[x] \in Int
      BY <2>1, <3>6, <3>8
    <3>10. /\ SumFunctionOnSet(f, S \cup U) = f[x] + (s + r)
           /\ SumFunctionOnSet(f, U) = f[x] + r
      BY <3>3, <3>4, <3>5, <3>7, <3>8
    <3>11. SumFunctionOnSet(f, S \cup U) = s + SumFunctionOnSet(f, U)
      BY <3>9, <3>10
    <3>12. QED
      BY <3>8, <3>11
  <2>4. QED
    BY <2>2, <2>3
<1>2. P \in SUBSET SUBSET T
  OBVIOUS
<1>. HIDE DEF P
<1>3. P = SUBSET T
  BY <1>1, <1>2, FiniteInduction
<1>4. QED
  BY <1>3 DEF P

(* The sum over a set is the sum over the set it corresponds to, one to one. *)
OneToOne(m, S, T) ==
  /\ \A x \in S : m[x] \in T
  /\ \A y \in T : \E x \in S : y = m[x]
  /\ \A x \in S, y \in S : m[x] = m[y] => x = y

THEOREM SumOfImage ==
  ASSUME NEW S, IsFiniteSet(S), NEW T, NEW m, OneToOne(m, S, T), NEW f, NEW e,
         \A x \in S : f[x] \in Int /\ e[m[x]] = f[x]
  PROVE  SumFunctionOnSet(e, T) = SumFunctionOnSet(f, S)
<1>. DEFINE Image(U) == {m[x] : x \in U}
            P == {U \in SUBSET S :
                    IsFiniteSet(Image(U)) /\ SumFunctionOnSet(e, Image(U)) = SumFunctionOnSet(f, U)}
<1>1. ASSUME NEW U \in SUBSET S, \A V \in SUBSET U : V # U => V \in P
      PROVE  U \in P
  <2>1. CASE U = {}
    <3>1. Image(U) = {}
      BY <2>1
    <3>2. QED
      BY <2>1, <3>1, SumOfNone, FS_EmptySet
  <2>2. CASE U # {}
    <3>1. PICK x \in U : TRUE
      BY <2>2
    <3>2. U \ {x} \in P
      BY <1>1, <3>1
    <3>3. Image(U) = Image(U \ {x}) \cup {m[x]} /\ m[x] \notin Image(U \ {x})
      BY DEF OneToOne
    <3>4. IsFiniteSet(Image(U \ {x}))
          /\ SumFunctionOnSet(e, Image(U \ {x})) = SumFunctionOnSet(f, U \ {x})
      BY <3>2
    <3>5. SumFunctionOnSet(f, U) = f[x] + SumFunctionOnSet(f, U \ {x})
      BY FS_Subset, SumTakesAny
    <3>6. \A i \in Image(U) : e[i] \in Int
      OBVIOUS
    <3>7. e[m[x]] = f[x] /\ m[x] \in Image(U)
      BY <3>1
    <3>8. PICK W, V : W = Image(U) /\ V = Image(U \ {x})
      OBVIOUS
    <3>. HIDE DEF Image
    <3>9. W = V \cup {m[x]} /\ m[x] \notin V /\ IsFiniteSet(V)
      BY <3>3, <3>4, <3>8
    <3>10. IsFiniteSet(W) /\ W \ {m[x]} = V
      BY <3>9, FS_AddElement
    <3>11. m[x] \in W /\ \A i \in W : e[i] \in Int
      BY <3>6, <3>7, <3>8
    <3>12. SumFunctionOnSet(e, W) = e[m[x]] + SumFunctionOnSet(e, W \ {m[x]})
      BY <3>10, <3>11, SumTakesAny
    <3>13. SumFunctionOnSet(e, V) = SumFunctionOnSet(f, U \ {x})
      BY <3>4, <3>8
    <3>14. SumFunctionOnSet(e, W) = SumFunctionOnSet(f, U)
      BY <3>5, <3>7, <3>10, <3>12, <3>13
    <3>15. IsFiniteSet(Image(U)) /\ SumFunctionOnSet(e, Image(U)) = SumFunctionOnSet(f, U)
      BY <3>8, <3>10, <3>14
    <3>16. QED
      BY <3>15
  <2>3. QED
    BY <2>1, <2>2
<1>2. P \in SUBSET SUBSET S
  OBVIOUS
<1>. HIDE DEF P
<1>3. P = SUBSET S
  BY <1>1, <1>2, FiniteInduction
<1>4. T = Image(S)
  BY DEF OneToOne
<1>5. QED
  BY <1>3, <1>4 DEF P

(* No sum of numbers is negative.                                           *)
THEOREM SumOfNumbers ==
  ASSUME NEW S, IsFiniteSet(S), NEW f, \A x \in S : f[x] \in Nat
  PROVE  SumFunctionOnSet(f, S) \in Nat
<1>. DEFINE P == {U \in SUBSET S : SumFunctionOnSet(f, U) \in Nat}
<1>1. ASSUME NEW U \in SUBSET S, \A V \in SUBSET U : V # U => V \in P
      PROVE  U \in P
  <2>1. CASE U = {}
    BY <2>1, SumOfNone
  <2>2. CASE U # {}
    <3>1. PICK x \in U : TRUE
      BY <2>2
    <3>2. SumFunctionOnSet(f, U) = f[x] + SumFunctionOnSet(f, U \ {x})
      BY FS_Subset, SumTakesAny
    <3>3. U \ {x} \in P /\ f[x] \in Nat
      BY <1>1
    <3>4. QED
      BY <3>2, <3>3
  <2>3. QED
    BY <2>1, <2>2
<1>2. P \in SUBSET SUBSET S
  OBVIOUS
<1>. HIDE DEF P
<1>3. P = SUBSET S
  BY <1>1, <1>2, FiniteInduction
<1>4. QED
  BY <1>3 DEF P
=============================================================================
