---------------------------- MODULE DayArchiveProofs ----------------------------
(* Theorems on the archive of a day, on what an agent and the operator are    *)
(* told of it, and on the rules that decide it: for every set of answers and  *)
(* dumps, of rules and marks, and every order of what may happen to a day.    *)
(* Last, the matcher of the rules' patterns, for every pattern and text.      *)
(*                                                                            *)
(* What holds of the day is DayInv, of the rules RulesInv; both are of a      *)
(* given day, or given rules, and are carried through each operator in turn.  *)
(* The sums of a day's seconds come first: the facts about them need an       *)
(* induction on finite sets, and are used by everything that counts.          *)
EXTENDS WorkAnswers, GlobMatcher, FiniteSetTheorems, SequenceTheorems, WellFoundedInduction,
        TLAPS

-----------------------------------------------------------------------------
(* Sums.  What is said of a day are sums over sets of its slices.  They are   *)
(* recursive functions: that there is one, what it is of a set with one more  *)
(* member, and of two disjoint sets, is proved by induction on the number of  *)
(* members, that is, from the least counterexample.                           *)

Pick(s) == CHOOSE x \in s : TRUE
SumOver(f, S) == MapThenSumSet(LAMBDA x : f[x], S)
Sums(g, f, S) ==
  g = [s \in SUBSET S |-> IF s = {} THEN 0 ELSE f[Pick(s)] + g[s \ {Pick(s)}]]

LEMMA LeastOne ==
  ASSUME NEW T, T \subseteq Nat, T # {}
  PROVE  \E n \in T : \A m \in T : n <= m
<1>1. IsWellFoundedOn(OpToRel(<, Nat), Nat)
  BY NatLessThanWellFounded
<1>2. PICK n \in T : \A m \in T : ~(<<m, n>> \in OpToRel(<, Nat))
  BY <1>1, WFMin
<1>3. \A m \in T : ~(m < n)
  BY <1>2 DEF OpToRel
<1> QED
  BY <1>3

LEMMA SetInduction ==
  ASSUME NEW S, IsFiniteSet(S), NEW D,
         \A s \in SUBSET S :
           (\A t \in SUBSET S : Cardinality(t) < Cardinality(s) => t \in D) => s \in D
  PROVE  SUBSET S \subseteq D
<1> DEFINE Bad == {n \in Nat : \E s \in SUBSET S : Cardinality(s) = n /\ s \notin D}
<1>1. \A s \in SUBSET S : Cardinality(s) \in Nat
  BY FS_Subset, FS_CardinalityType
<1>2. ASSUME Bad # {}
      PROVE  FALSE
  <2>1. PICK n \in Bad : \A m \in Bad : n <= m
    BY <1>2, LeastOne
  <2>2. PICK s \in SUBSET S : Cardinality(s) = n /\ s \notin D
    BY <2>1
  <2>3. ASSUME NEW t \in SUBSET S, Cardinality(t) < Cardinality(s)
        PROVE  t \in D
    BY <1>1, <2>1, <2>2, <2>3
  <2> QED
    BY <2>2, <2>3
<1> QED
  BY <1>1, <1>2

(* A set loses one member.                                                    *)
LEMMA PickOne ==
  ASSUME NEW S, IsFiniteSet(S), S # {}
  PROVE  /\ Pick(S) \in S
         /\ IsFiniteSet(S \ {Pick(S)})
         /\ Cardinality(S \ {Pick(S)}) = Cardinality(S) - 1
         /\ Cardinality(S \ {Pick(S)}) < Cardinality(S)
<1>1. Pick(S) \in S
  BY DEF Pick
<1>2. IsFiniteSet(S \ {Pick(S)}) /\ Cardinality(S \ {Pick(S)}) = Cardinality(S) - 1
  BY <1>1, FS_RemoveElement
<1> QED
  BY <1>1, <1>2, FS_CardinalityType

LEMMA SumsExist ==
  ASSUME NEW S, IsFiniteSet(S), NEW f
  PROVE  \E g : Sums(g, f, S)
<1> DEFINE Small(n) == {s \in SUBSET S : Cardinality(s) <= n}
           Has(n) == \E g : g = [s \in Small(n) |->
                                   IF s = {} THEN 0 ELSE f[Pick(s)] + g[s \ {Pick(s)}]]
           Bad == {n \in Nat : ~Has(n)}
<1>1. \A s \in SUBSET S : IsFiniteSet(s) /\ Cardinality(s) \in Nat /\ Cardinality(s) <= Cardinality(S)
  BY FS_Subset, FS_CardinalityType
<1>2. Has(0)
  <2>1. Small(0) = {{}}
    BY <1>1, FS_EmptySet
  <2> DEFINE g == [s \in Small(0) |-> 0]
  <2>2. g = [s \in Small(0) |-> IF s = {} THEN 0 ELSE f[Pick(s)] + g[s \ {Pick(s)}]]
    BY <2>1
  <2> QED
    BY <2>2
<1>3. ASSUME NEW n \in Nat, n # 0, Has(n - 1)
      PROVE  Has(n)
  <2>1. PICK g : g = [s \in Small(n - 1) |-> IF s = {} THEN 0 ELSE f[Pick(s)] + g[s \ {Pick(s)}]]
    BY <1>3
  <2> DEFINE h == [s \in Small(n) |-> IF s = {} THEN 0 ELSE f[Pick(s)] + g[s \ {Pick(s)}]]
  <2>2. ASSUME NEW s \in Small(n), s # {}
        PROVE  g[s \ {Pick(s)}] = h[s \ {Pick(s)}]
    <3>1. PICK t : t = s \ {Pick(s)}
      OBVIOUS
    <3>2. t \in Small(n - 1)
      BY <1>1, <2>2, <3>1, PickOne
    <3>3. t \in Small(n)
      BY <1>1, <3>2
    <3>4. g[t] = IF t = {} THEN 0 ELSE f[Pick(t)] + g[t \ {Pick(t)}]
      BY <2>1, <3>2
    <3> QED
      BY <3>1, <3>3, <3>4
  <2>3. h = [s \in Small(n) |-> IF s = {} THEN 0 ELSE f[Pick(s)] + h[s \ {Pick(s)}]]
    BY <2>2
  <2> QED
    BY <2>3
<1>9. \A n \in Nat : n # 0 /\ Has(n - 1) => Has(n)
  BY <1>3
<1> HIDE DEF Has
<1>4. ASSUME Bad # {}
      PROVE  FALSE
  <2>1. PICK n \in Bad : \A m \in Bad : n <= m
    BY <1>4, LeastOne
  <2>2. n # 0
    BY <1>2, <2>1
  <2>3. n - 1 \in Nat /\ n - 1 \notin Bad
    BY <2>1, <2>2
  <2> QED
    BY <1>9, <2>1, <2>2, <2>3
<1>5. Has(Cardinality(S))
  BY <1>1, <1>4, FS_CardinalityType
<1>6. Small(Cardinality(S)) = SUBSET S
  BY <1>1
<1> QED
  BY <1>5, <1>6 DEF Sums, Has

LEMMA SumsUnfold ==
  ASSUME NEW S, NEW f, NEW g, Sums(g, f, S), NEW s \in SUBSET S
  PROVE  /\ s = {} => g[s] = 0
         /\ s # {} => g[s] = f[Pick(s)] + g[s \ {Pick(s)}]
BY DEF Sums

LEMMA SumsAgree ==
  ASSUME NEW S, IsFiniteSet(S), NEW T, S \subseteq T, NEW f, NEW g, NEW h,
         Sums(g, f, S), Sums(h, f, T)
  PROVE  g[S] = h[S]
<1> DEFINE D == {s \in SUBSET S : g[s] = h[s]}
<1>1. ASSUME NEW s \in SUBSET S,
             \A t \in SUBSET S : Cardinality(t) < Cardinality(s) => t \in D
      PROVE  s \in D
  <2>1. CASE s = {}
    <3>1. s \in SUBSET T
      OBVIOUS
    <3>2. g[s] = 0 /\ h[s] = 0
      BY <2>1, <3>1, SumsUnfold
    <3> QED
      BY <3>2
  <2>2. CASE s # {}
    <3>1. PICK t : t = s \ {Pick(s)}
      OBVIOUS
    <3>2. IsFiniteSet(s)
      BY FS_Subset
    <3>3. t \in SUBSET S /\ Cardinality(t) < Cardinality(s)
      BY <2>2, <3>1, <3>2, PickOne
    <3>4. g[t] = h[t]
      BY <1>1, <3>3
    <3>5. g[s] = f[Pick(s)] + g[t]
      BY <2>2, <3>1, SumsUnfold
    <3>6. s \in SUBSET T
      OBVIOUS
    <3>7. h[s] = f[Pick(s)] + h[t]
      BY <2>2, <3>1, <3>6, SumsUnfold
    <3> QED
      BY <3>4, <3>5, <3>7
  <2> QED
    BY <2>1, <2>2
<1> HIDE DEF D
<1>2. SUBSET S \subseteq D
  BY <1>1, SetInduction
<1> QED
  BY <1>2 DEF D

LEMMA SumIsOne ==
  ASSUME NEW S, IsFiniteSet(S), NEW f
  PROVE  \E g : Sums(g, f, S) /\ SumOver(f, S) = g[S]
<1>1. PICK c : c = (CHOOSE g : Sums(g, f, S))
  OBVIOUS
<1>2. Sums(c, f, S)
  BY <1>1, SumsExist
<1>3. SumOver(f, S) = (CHOOSE g : g = [s \in SUBSET S |-> IF s = {} THEN 0 ELSE f[Pick(s)] + g[s \ {Pick(s)}]])[S]
  BY DEF SumOver, MapThenSumSet, MapThenFoldSet, Pick
<1>4. c = (CHOOSE g : g = [s \in SUBSET S |-> IF s = {} THEN 0 ELSE f[Pick(s)] + g[s \ {Pick(s)}]])
  BY <1>1 DEF Sums
<1> QED
  BY <1>2, <1>3, <1>4

LEMMA SumOfNone == ASSUME NEW f PROVE SumOver(f, {}) = 0
<1>1. IsFiniteSet({})
  BY FS_EmptySet
<1>2. PICK g : Sums(g, f, {}) /\ SumOver(f, {}) = g[{}]
  BY <1>1, SumIsOne
<1> QED
  BY <1>2, SumsUnfold

LEMMA SumUnfolds ==
  ASSUME NEW S, IsFiniteSet(S), S # {}, NEW f
  PROVE  SumOver(f, S) = f[Pick(S)] + SumOver(f, S \ {Pick(S)})
<1>1. PICK T : T = S \ {Pick(S)}
  OBVIOUS
<1>2. IsFiniteSet(T) /\ T \subseteq S
  BY <1>1, PickOne
<1>3. PICK g : Sums(g, f, S) /\ SumOver(f, S) = g[S]
  BY SumIsOne
<1>4. PICK h : Sums(h, f, T) /\ SumOver(f, T) = h[T]
  BY <1>2, SumIsOne
<1>5. h[T] = g[T]
  BY <1>2, <1>3, <1>4, SumsAgree
<1>6. g[S] = f[Pick(S)] + g[T]
  BY <1>1, <1>3, SumsUnfold
<1> QED
  BY <1>1, <1>3, <1>4, <1>5, <1>6

LEMMA SumIsInt ==
  ASSUME NEW S, IsFiniteSet(S), NEW f, \A x \in S : f[x] \in Int
  PROVE  SumOver(f, S) \in Int
<1> DEFINE D == {s \in SUBSET S : SumOver(f, s) \in Int}
<1>1. ASSUME NEW s \in SUBSET S,
             \A t \in SUBSET S : Cardinality(t) < Cardinality(s) => t \in D
      PROVE  s \in D
  <2>1. CASE s = {}
    BY <2>1, SumOfNone
  <2>2. CASE s # {}
    <3>1. IsFiniteSet(s)
      BY FS_Subset
    <3>2. SumOver(f, s \ {Pick(s)}) \in Int
      BY <1>1, <2>2, <3>1, PickOne
    <3>3. f[Pick(s)] \in Int
      BY <2>2, <3>1, PickOne
    <3>4. SumOver(f, s) = f[Pick(s)] + SumOver(f, s \ {Pick(s)})
      BY <2>2, <3>1, SumUnfolds
    <3> QED
      BY <3>2, <3>3, <3>4
  <2> QED
    BY <2>1, <2>2
<1> HIDE DEF D
<1>2. SUBSET S \subseteq D
  BY <1>1, SetInduction
<1> QED
  BY <1>2 DEF D

LEMMA SumIsNat ==
  ASSUME NEW S, IsFiniteSet(S), NEW f, \A x \in S : f[x] \in Nat
  PROVE  SumOver(f, S) \in Nat
<1> DEFINE D == {s \in SUBSET S : SumOver(f, s) \in Nat}
<1>1. ASSUME NEW s \in SUBSET S,
             \A t \in SUBSET S : Cardinality(t) < Cardinality(s) => t \in D
      PROVE  s \in D
  <2>1. CASE s = {}
    BY <2>1, SumOfNone
  <2>2. CASE s # {}
    <3>1. IsFiniteSet(s)
      BY FS_Subset
    <3>2. SumOver(f, s \ {Pick(s)}) \in Nat
      BY <1>1, <2>2, <3>1, PickOne
    <3>3. f[Pick(s)] \in Nat
      BY <2>2, <3>1, PickOne
    <3>4. SumOver(f, s) = f[Pick(s)] + SumOver(f, s \ {Pick(s)})
      BY <2>2, <3>1, SumUnfolds
    <3> QED
      BY <3>2, <3>3, <3>4
  <2> QED
    BY <2>1, <2>2
<1> HIDE DEF D
<1>2. SUBSET S \subseteq D
  BY <1>1, SetInduction
<1> QED
  BY <1>2 DEF D

(* Only the members of the set count.                                         *)
LEMMA SumSame ==
  ASSUME NEW S, IsFiniteSet(S), NEW f, NEW h, \A x \in S : f[x] = h[x]
  PROVE  SumOver(f, S) = SumOver(h, S)
<1> DEFINE D == {s \in SUBSET S : SumOver(f, s) = SumOver(h, s)}
<1>1. ASSUME NEW s \in SUBSET S,
             \A t \in SUBSET S : Cardinality(t) < Cardinality(s) => t \in D
      PROVE  s \in D
  <2>1. CASE s = {}
    BY <2>1, SumOfNone
  <2>2. CASE s # {}
    <3>1. IsFiniteSet(s)
      BY FS_Subset
    <3>2. SumOver(f, s \ {Pick(s)}) = SumOver(h, s \ {Pick(s)})
      BY <1>1, <2>2, <3>1, PickOne
    <3>3. f[Pick(s)] = h[Pick(s)]
      BY <2>2, <3>1, PickOne
    <3>4. /\ SumOver(f, s) = f[Pick(s)] + SumOver(f, s \ {Pick(s)})
          /\ SumOver(h, s) = h[Pick(s)] + SumOver(h, s \ {Pick(s)})
      BY <2>2, <3>1, SumUnfolds
    <3> QED
      BY <3>2, <3>3, <3>4
  <2> QED
    BY <2>1, <2>2
<1> HIDE DEF D
<1>2. SUBSET S \subseteq D
  BY <1>1, SetInduction
<1> QED
  BY <1>2 DEF D

(* The order in which the members are added does not matter.                  *)
LEMMA SumWith ==
  ASSUME NEW S, IsFiniteSet(S), NEW f, NEW x, x \notin S, \A y \in S \cup {x} : f[y] \in Int
  PROVE  SumOver(f, S \cup {x}) = f[x] + SumOver(f, S)
<1> DEFINE U == S \cup {x}
           D == {s \in SUBSET U : \A y \in U \ s : SumOver(f, s \cup {y}) = f[y] + SumOver(f, s)}
<1>1. IsFiniteSet(U) /\ \A y \in U : f[y] \in Int
  BY FS_AddElement
<1> HIDE DEF U
<1>2. ASSUME NEW s \in SUBSET U,
             \A t \in SUBSET U : Cardinality(t) < Cardinality(s) => t \in D
      PROVE  s \in D
  <2>1. ASSUME NEW y \in U \ s
        PROVE  SumOver(f, s \cup {y}) = f[y] + SumOver(f, s)
    <3>1. IsFiniteSet(s)
      BY <1>1, FS_Subset
    <3>2. PICK w : w = s \cup {y}
      OBVIOUS
    <3>3. IsFiniteSet(w) /\ w # {} /\ w \in SUBSET U
      BY <3>1, <3>2, FS_AddElement
    <3>4. PICK p : p = Pick(w)
      OBVIOUS
    <3>5. p \in w /\ SumOver(f, w) = f[p] + SumOver(f, w \ {p})
      BY <3>3, <3>4, PickOne, SumUnfolds
    <3>6. CASE p = y
      <4>1. w \ {p} = s
        BY <3>2, <3>6
      <4> QED
        BY <3>2, <3>5, <3>6, <4>1
    <3>7. CASE p # y
      <4>1. p \in s
        BY <3>2, <3>5, <3>7
      <4>2. PICK t : t = s \ {p}
        OBVIOUS
      <4>3. IsFiniteSet(t) /\ t \in SUBSET U /\ Cardinality(t) = Cardinality(s) - 1
        BY <3>1, <4>1, <4>2, FS_RemoveElement
      <4>4. Cardinality(t) < Cardinality(s)
        BY <3>1, <4>3, FS_CardinalityType
      <4>5. t \in D
        BY <1>2, <4>3, <4>4
      <4>6. SumOver(f, t \cup {y}) = f[y] + SumOver(f, t)
        BY <4>2, <4>5
      <4>7. SumOver(f, t \cup {p}) = f[p] + SumOver(f, t)
        BY <4>1, <4>2, <4>5
      <4>8. w \ {p} = t \cup {y} /\ t \cup {p} = s
        BY <3>2, <3>7, <4>1, <4>2
      <4>9. SumOver(f, t) \in Int /\ f[p] \in Int /\ f[y] \in Int
        BY <1>1, <4>1, <4>3, SumIsInt
      <4>10. SumOver(f, w) = f[p] + (f[y] + SumOver(f, t))
        BY <3>5, <4>6, <4>8
      <4>11. SumOver(f, s) = f[p] + SumOver(f, t)
        BY <4>7, <4>8
      <4> QED
        BY <3>2, <4>9, <4>10, <4>11
    <3> QED
      BY <3>6, <3>7
  <2> QED
    BY <2>1
<1> HIDE DEF D
<1>3. SUBSET U \subseteq D
  BY <1>1, <1>2, SetInduction
<1>4. S \in D
  BY <1>3 DEF U
<1> QED
  BY <1>4 DEF D, U

LEMMA SumUnion ==
  ASSUME NEW A, IsFiniteSet(A), NEW B, IsFiniteSet(B), A \cap B = {},
         NEW f, \A x \in A \cup B : f[x] \in Int
  PROVE  SumOver(f, A \cup B) = SumOver(f, A) + SumOver(f, B)
<1> DEFINE D == {s \in SUBSET B : SumOver(f, A \cup s) = SumOver(f, A) + SumOver(f, s)}
<1>0. SumOver(f, A) \in Int
  BY SumIsInt
<1>1. ASSUME NEW s \in SUBSET B,
             \A t \in SUBSET B : Cardinality(t) < Cardinality(s) => t \in D
      PROVE  s \in D
  <2>1. CASE s = {}
    <3>1. A \cup s = A /\ SumOver(f, s) = 0
      BY <2>1, SumOfNone
    <3> QED
      BY <1>0, <3>1
  <2>2. CASE s # {}
    <3>1. IsFiniteSet(s)
      BY FS_Subset
    <3>2. PICK p, t : p = Pick(s) /\ t = s \ {p}
      OBVIOUS
    <3>3. p \in s /\ t \in SUBSET B /\ IsFiniteSet(t) /\ Cardinality(t) < Cardinality(s)
      BY <2>2, <3>1, <3>2, PickOne
    <3>4. SumOver(f, A \cup t) = SumOver(f, A) + SumOver(f, t)
      BY <1>1, <3>3
    <3>5. SumOver(f, s) = f[p] + SumOver(f, t)
      BY <2>2, <3>1, <3>2, SumUnfolds
    <3>6. IsFiniteSet(A \cup t) /\ p \notin A \cup t /\ (A \cup t) \cup {p} = A \cup s
      BY <3>2, <3>3, FS_Union
    <3>7. \A y \in (A \cup t) \cup {p} : f[y] \in Int
      BY <3>3
    <3>8. SumOver(f, A \cup s) = f[p] + SumOver(f, A \cup t)
      BY <3>6, <3>7, SumWith
    <3>9. f[p] \in Int /\ SumOver(f, t) \in Int
      BY <3>3, SumIsInt
    <3> QED
      BY <1>0, <3>4, <3>5, <3>8, <3>9
  <2> QED
    BY <2>1, <2>2
<1> HIDE DEF D
<1>2. SUBSET B \subseteq D
  BY <1>1, SetInduction
<1> QED
  BY <1>2 DEF D

LEMMA SumOfPart ==
  ASSUME NEW S, IsFiniteSet(S), NEW A, A \subseteq S, NEW f, \A x \in S : f[x] \in Nat
  PROVE  SumOver(f, A) <= SumOver(f, S)
<1>1. PICK B : B = S \ A
  OBVIOUS
<1>2. IsFiniteSet(A) /\ IsFiniteSet(B) /\ A \cup B = S /\ A \cap B = {}
  BY <1>1, FS_Subset
<1>3. SumOver(f, A \cup B) = SumOver(f, A) + SumOver(f, B)
  BY <1>2, SumUnion
<1>4. SumOver(f, A) \in Nat /\ SumOver(f, B) \in Nat
  BY <1>2, SumIsNat
<1>5. SumOver(f, S) = SumOver(f, A) + SumOver(f, B)
  BY <1>2, <1>3
<1> QED
  BY <1>4, <1>5

LEMMA SumOfZeros ==
  ASSUME NEW S, IsFiniteSet(S), NEW f, \A x \in S : f[x] = 0
  PROVE  SumOver(f, S) = 0
<1> DEFINE D == {s \in SUBSET S : SumOver(f, s) = 0}
<1>1. ASSUME NEW s \in SUBSET S,
             \A t \in SUBSET S : Cardinality(t) < Cardinality(s) => t \in D
      PROVE  s \in D
  <2>1. CASE s = {}
    BY <2>1, SumOfNone
  <2>2. CASE s # {}
    <3>1. IsFiniteSet(s)
      BY FS_Subset
    <3>2. SumOver(f, s \ {Pick(s)}) = 0
      BY <1>1, <2>2, <3>1, PickOne
    <3>3. f[Pick(s)] = 0
      BY <2>2, <3>1, PickOne
    <3> QED
      BY <2>2, <3>1, <3>2, <3>3, SumUnfolds
  <2> QED
    BY <2>1, <2>2
<1> HIDE DEF D
<1>2. SUBSET S \subseteq D
  BY <1>1, SetInduction
<1> QED
  BY <1>2 DEF D

(* Records.                                                                   *)

IsDay(d) ==
  d = [total |-> d.total, slices |-> d.slices, dims |-> d.dims, summaries |-> d.summaries,
       heartbeats |-> d.heartbeats, beats |-> d.beats, active |-> d.active,
       projects |-> d.projects, allocations |-> d.allocations]
IsLayer(l) == l = [accepted |-> l.accepted, evidence |-> l.evidence, status |-> l.status]
IsWell(d) == IsDay(d) /\ IsLayer(d.summaries) /\ IsLayer(d.heartbeats)

(* What a layer claims, apart from how the last attempt ended.                *)
SameClaim(l, m) == l.accepted = m.accepted /\ l.evidence = m.evidence

(* The measurements, their marks and their members are what they were.        *)
SameRows(d, e) ==
  /\ e.total = d.total /\ e.slices = d.slices /\ e.dims = d.dims
  /\ e.allocations = d.allocations

LEMMA LayerAttempted ==
  ASSUME NEW l, IsLayer(l), NEW status
  PROVE  IsLayer(Attempted(l, status)) /\ SameClaim(Attempted(l, status), l)
BY DEF IsLayer, Attempted, SameClaim

LEMMA LayerDoubted ==
  ASSUME NEW l, IsLayer(l)
  PROVE  /\ IsLayer(Doubted(l)) /\ Doubted(l).accepted = l.accepted
         /\ Doubted(l).evidence = FALSE
<1>1. ASSUME NEW b
      PROVE  /\ IsLayer([l EXCEPT !.evidence = b])
             /\ [l EXCEPT !.evidence = b].accepted = l.accepted
             /\ [l EXCEPT !.evidence = b].evidence = b
  BY DEF IsLayer
<1> QED
  BY <1>1, Zenon DEF Doubted

LEMMA LayerAccepted ==
  ASSUME NEW value, NEW evidence
  PROVE  /\ IsLayer(Accepted(value, evidence))
         /\ Accepted(value, evidence).accepted = value
         /\ Accepted(value, evidence).evidence = evidence
<1>1. ASSUME NEW l, l = [accepted |-> value, evidence |-> evidence, status |-> "clean"]
      PROVE  IsLayer(l) /\ l.accepted = value /\ l.evidence = evidence
  <2>1. /\ l.accepted = value /\ l.evidence = evidence /\ l.status = "clean"
    BY <1>1, Zenon
  <2> QED
    BY <1>1, <2>1, Zenon DEF IsLayer
<1> QED
  BY <1>1, Zenon DEF Accepted

LEMMA WithSummaries ==
  ASSUME NEW d, IsWell(d), NEW l, IsLayer(l)
  PROVE  LET e == [d EXCEPT !.summaries = l]
         IN  /\ IsWell(e) /\ SameRows(d, e) /\ e.summaries = l
             /\ e.heartbeats = d.heartbeats /\ e.active = d.active
             /\ e.beats = d.beats /\ e.projects = d.projects
BY DEF IsDay, IsWell, SameRows

LEMMA WithBeatsLayer ==
  ASSUME NEW d, IsWell(d), NEW l, IsLayer(l)
  PROVE  LET e == [d EXCEPT !.heartbeats = l]
         IN  /\ IsWell(e) /\ SameRows(d, e) /\ e.heartbeats = l
             /\ e.summaries = d.summaries /\ e.active = d.active
             /\ e.beats = d.beats /\ e.projects = d.projects
BY DEF IsDay, IsWell, SameRows

LEMMA DayWitnessed ==
  ASSUME NEW d, IsWell(d), NEW hb, NEW known
  PROVE  LET e == Witnessed(d, hb, known)
         IN  /\ IsWell(e) /\ SameRows(d, e) /\ e.summaries = d.summaries
             /\ e.heartbeats = Accepted(hb, TRUE) /\ e.active = IdsOf(hb.events)
<1>1. ASSUME NEW ids
      PROVE  /\ IsWell(WithMembers(d, ids)) /\ SameRows(d, WithMembers(d, ids))
             /\ WithMembers(d, ids).summaries = d.summaries /\ WithMembers(d, ids).active = ids
  BY DEF IsDay, IsWell, SameRows, WithMembers
<1>2. ASSUME NEW c, IsWell(c), NEW b
      PROVE  LET e == [c EXCEPT !.beats = b]
             IN  IsWell(e) /\ SameRows(c, e) /\ e.summaries = c.summaries /\ e.active = c.active
  BY <1>2 DEF IsDay, IsWell, SameRows
<1>3. PICK c : c = WithMembers(d, IdsOf(hb.events))
  OBVIOUS
<1>4. PICK b : b = Upserted(d.beats, hb.events, known)
  OBVIOUS
<1>5. PICK e : e = [c EXCEPT !.beats = b]
  OBVIOUS
<1>6. PICK l : l = Accepted(hb, TRUE)
  OBVIOUS
<1>7. IsLayer(l)
  BY <1>6, LayerAccepted
<1>8. Witnessed(d, hb, known) = [e EXCEPT !.heartbeats = l]
  <2>1. Witnessed(d, hb, known) = [c EXCEPT !.beats = b, !.heartbeats = l]
    BY <1>3, <1>4, <1>6 DEF Witnessed
  <2> QED
    BY <2>1, <1>5
<1>9. /\ IsWell(c) /\ SameRows(d, c) /\ c.summaries = d.summaries /\ c.active = IdsOf(hb.events)
  BY <1>1, <1>3
<1>10. IsWell(e) /\ SameRows(c, e) /\ e.summaries = c.summaries /\ e.active = c.active
  BY <1>2, <1>5, <1>9
<1>11. PICK w : w = [e EXCEPT !.heartbeats = l]
  OBVIOUS
<1>12. /\ IsWell(w) /\ SameRows(e, w) /\ w.heartbeats = l
       /\ w.summaries = e.summaries /\ w.active = e.active
  BY <1>7, <1>10, <1>11, WithBeatsLayer
<1> QED
  BY <1>6, <1>8, <1>9, <1>10, <1>11, <1>12 DEF SameRows

(* Evidence.                                                                  *)

EvidenceOK(d) ==
  /\ d.heartbeats.accepted # None => d.active = IdsOf(d.heartbeats.accepted.events)
  /\ d.heartbeats.evidence => d.heartbeats.accepted # None
Backed(d) == d.summaries.evidence => d.summaries.accepted.zero \/ d.heartbeats.evidence

LEMMA DayNoted ==
  ASSUME NEW d, IsWell(d), NEW attempt
  PROVE  LET e == Noted(d, attempt)
         IN  /\ IsWell(e) /\ SameRows(d, e) /\ e.active = d.active
             /\ SameClaim(e.summaries, d.summaries) /\ SameClaim(e.heartbeats, d.heartbeats)
<1>1. PICK l : l = Attempted(d.summaries, attempt.summaries)
  OBVIOUS
<1>2. PICK h : h = IF attempt.heartbeats = "skipped" THEN d.heartbeats
                   ELSE Attempted(d.heartbeats, attempt.heartbeats)
  OBVIOUS
<1>3. IsLayer(l) /\ SameClaim(l, d.summaries)
  BY <1>1, LayerAttempted DEF IsWell
<1>4. IsLayer(h) /\ SameClaim(h, d.heartbeats)
  BY <1>2, LayerAttempted DEF IsWell, SameClaim
<1>5. PICK c : c = [d EXCEPT !.summaries = l]
  OBVIOUS
<1>6. PICK e : e = [c EXCEPT !.heartbeats = h]
  OBVIOUS
<1>7. Noted(d, attempt) = e
  BY <1>1, <1>2, <1>5, <1>6 DEF Noted
<1>8. /\ IsWell(c) /\ SameRows(d, c) /\ c.summaries = l
      /\ c.heartbeats = d.heartbeats /\ c.active = d.active
  BY <1>3, <1>5, WithSummaries
<1>9. /\ IsWell(e) /\ SameRows(c, e) /\ e.heartbeats = h
      /\ e.summaries = c.summaries /\ e.active = c.active
  BY <1>4, <1>6, <1>8, WithBeatsLayer
<1> QED
  BY <1>3, <1>4, <1>7, <1>8, <1>9 DEF SameRows

LEMMA DayPreserved ==
  ASSUME NEW d, IsWell(d)
  PROVE  LET e == Preserved(d)
         IN  /\ IsWell(e) /\ SameRows(d, e) /\ e.active = d.active
             /\ SameClaim(e.summaries, d.summaries) /\ SameClaim(e.heartbeats, d.heartbeats)
<1>1. PICK l : l = Attempted(d.summaries, "downgraded")
  OBVIOUS
<1>2. IsLayer(l) /\ SameClaim(l, d.summaries)
  BY <1>1, LayerAttempted DEF IsWell
<1>3. PICK e : e = [d EXCEPT !.summaries = l]
  OBVIOUS
<1>4. Preserved(d) = e
  BY <1>1, <1>3 DEF Preserved
<1>5. /\ IsWell(e) /\ SameRows(d, e) /\ e.summaries = l
      /\ e.heartbeats = d.heartbeats /\ e.active = d.active
  BY <1>2, <1>3, WithSummaries
<1> QED
  BY <1>2, <1>4, <1>5 DEF SameClaim

(* A layer of heartbeats that is attempted, accepted again or doubted.        *)
LEMMA BeatsLayerMoves ==
  ASSUME NEW d, IsWell(d), EvidenceOK(d), NEW l, IsLayer(l),
         l.accepted = d.heartbeats.accepted, l.evidence => l.accepted # None
  PROVE  LET e == [d EXCEPT !.heartbeats = l]
         IN  /\ IsWell(e) /\ SameRows(d, e) /\ e.summaries = d.summaries
             /\ EvidenceOK(e) /\ e.heartbeats = l
<1>1. PICK e : e = [d EXCEPT !.heartbeats = l]
  OBVIOUS
<1>2. /\ IsWell(e) /\ SameRows(d, e) /\ e.heartbeats = l
      /\ e.summaries = d.summaries /\ e.active = d.active
  BY <1>1, WithBeatsLayer
<1> QED
  BY <1>1, <1>2 DEF EvidenceOK

LEMMA DayWitnessedAgain ==
  ASSUME NEW d, IsWell(d), EvidenceOK(d), NEW hb, hb # None, NEW e,
         e = WitnessedAgain(d, hb) \/ \E known : e = Witnessed(d, hb, known)
  PROVE  /\ IsWell(e) /\ SameRows(d, e) /\ e.summaries = d.summaries
         /\ EvidenceOK(e) /\ e.heartbeats.evidence = TRUE
<1>1. PICK l : l = Accepted(hb, TRUE)
  OBVIOUS
<1>2. IsLayer(l) /\ l.accepted = hb /\ l.evidence = TRUE
  BY <1>1, LayerAccepted
<1>3. CASE hb = d.heartbeats.accepted /\ e = [d EXCEPT !.heartbeats = l]
  <2>1. /\ IsWell(e) /\ SameRows(d, e) /\ e.summaries = d.summaries
        /\ EvidenceOK(e) /\ e.heartbeats = l
    BY <1>2, <1>3, BeatsLayerMoves
  <2> QED
    BY <1>2, <2>1
<1>4. ASSUME NEW known, e = Witnessed(d, hb, known)
      PROVE  /\ IsWell(e) /\ SameRows(d, e) /\ e.summaries = d.summaries
             /\ EvidenceOK(e) /\ e.heartbeats.evidence = TRUE
  <2>1. /\ IsWell(e) /\ SameRows(d, e) /\ e.summaries = d.summaries
        /\ e.heartbeats = l /\ e.active = IdsOf(hb.events)
    BY <1>1, <1>4, DayWitnessed
  <2> QED
    BY <1>2, <2>1 DEF EvidenceOK
<1>5. \/ hb = d.heartbeats.accepted /\ e = [d EXCEPT !.heartbeats = l]
      \/ \E known : e = Witnessed(d, hb, known)
  BY <1>1 DEF WitnessedAgain
<1> QED
  BY <1>3, <1>4, <1>5

(* The summary is stored last.                                                *)
LEMMA SummaryAccepted ==
  ASSUME NEW d, IsWell(d), EvidenceOK(d), NEW sum, NEW evidence,
         evidence => sum.zero \/ d.heartbeats.evidence
  PROVE  LET e == [d EXCEPT !.summaries = Accepted(sum, evidence)]
         IN  /\ IsWell(e) /\ SameRows(d, e) /\ e.summaries.accepted = sum
             /\ EvidenceOK(e) /\ Backed(e)
<1>1. PICK l : l = Accepted(sum, evidence)
  OBVIOUS
<1>2. IsLayer(l) /\ l.accepted = sum /\ l.evidence = evidence
  BY <1>1, LayerAccepted
<1>3. PICK e : e = [d EXCEPT !.summaries = l]
  OBVIOUS
<1>4. /\ IsWell(e) /\ SameRows(d, e) /\ e.summaries = l
      /\ e.heartbeats = d.heartbeats /\ e.active = d.active
  BY <1>2, <1>3, WithSummaries
<1>5. EvidenceOK(e) /\ Backed(e)
  BY <1>2, <1>4 DEF EvidenceOK, Backed
<1> QED
  BY <1>1, <1>2, <1>3, <1>4, <1>5

LEMMA OutcomeIs ==
  ASSUME NEW d, NEW hb
  PROVE  HeartbeatsOutcome(d, hb) = "complete" => hb.kind = "complete"
BY DEF HeartbeatsOutcome

LEMMA DayConfirmed ==
  ASSUME NEW d, IsWell(d), EvidenceOK(d), NEW sum, NEW hb,
         hb.kind = "complete" => hb.value # None
  PROVE  LET e == Confirmed(d, sum, hb)
         IN  /\ IsWell(e) /\ SameRows(d, e) /\ e.summaries.accepted = sum
             /\ EvidenceOK(e) /\ Backed(e)
<1>1. PICK outcome : outcome = HeartbeatsOutcome(d, hb)
  OBVIOUS
<1>2. PICK c : c = CASE outcome = "complete" -> WitnessedAgain(d, hb.value)
                     [] outcome = "skipped" -> d
                     [] OTHER -> [d EXCEPT !.heartbeats = Attempted(d.heartbeats, outcome)]
  OBVIOUS
<1>3. Confirmed(d, sum, hb) = [c EXCEPT !.summaries = Accepted(sum, EvidenceFor(outcome, sum))]
  BY <1>1, <1>2 DEF Confirmed
<1>4. /\ IsWell(c) /\ SameRows(d, c) /\ EvidenceOK(c)
      /\ outcome = "complete" => c.heartbeats.evidence
  <2>1. CASE outcome = "complete"
    <3>1. c = WitnessedAgain(d, hb.value) /\ hb.value # None
      BY <1>1, <1>2, <2>1, OutcomeIs
    <3>2. c = WitnessedAgain(d, hb.value) \/ \E known : c = Witnessed(d, hb.value, known)
      BY <3>1
    <3>3. /\ IsWell(c) /\ SameRows(d, c) /\ EvidenceOK(c) /\ c.heartbeats.evidence = TRUE
      BY <3>1, <3>2, DayWitnessedAgain
    <3> QED
      BY <3>3, Zenon
  <2>2. CASE outcome = "skipped"
    <3>1. c = d
      BY <1>2, <2>2
    <3> QED
      BY <2>2, <3>1 DEF SameRows
  <2>3. CASE outcome # "complete" /\ outcome # "skipped"
    <3>1. PICK l : l = Attempted(d.heartbeats, outcome)
      OBVIOUS
    <3>2. c = [d EXCEPT !.heartbeats = l]
      BY <1>2, <2>3, <3>1
    <3>3. IsLayer(l) /\ SameClaim(l, d.heartbeats)
      BY <3>1, LayerAttempted DEF IsWell
    <3>4. l.accepted = d.heartbeats.accepted /\ (l.evidence => l.accepted # None)
      BY <3>3 DEF SameClaim, EvidenceOK
    <3> QED
      BY <2>3, <3>2, <3>3, <3>4, BeatsLayerMoves
  <2> QED
    BY <2>1, <2>2, <2>3
<1>5. PICK evidence : evidence = EvidenceFor(outcome, sum)
  OBVIOUS
<1>6. evidence => sum.zero \/ c.heartbeats.evidence
  BY <1>4, <1>5 DEF EvidenceFor
<1>7. PICK e : e = [c EXCEPT !.summaries = Accepted(sum, evidence)]
  OBVIOUS
<1>8. IsWell(e) /\ SameRows(c, e) /\ e.summaries.accepted = sum /\ EvidenceOK(e) /\ Backed(e)
  BY <1>4, <1>6, <1>7, SummaryAccepted
<1> QED
  BY <1>3, <1>4, <1>5, <1>7, <1>8 DEF SameRows

(* A day that is replaced.                                                    *)
LEMMA DayRewritten ==
  ASSUME NEW d, IsWell(d), NEW sum
  PROVE  LET e == Rewritten(d, sum)
         IN  /\ IsWell(e) /\ e.summaries = d.summaries /\ e.heartbeats = d.heartbeats
             /\ e.active = d.active /\ e.beats = d.beats
             /\ e.total = sum.total /\ e.slices = sum.slices /\ e.dims = sum.dims
             /\ e.allocations = Followed(d.allocations, sum.slices)
<1>1. PICK s, t, x : s = sum.slices /\ t = sum.total /\ x = sum.dims
  OBVIOUS
<1>2. PICK m : m = Followed(d.allocations, s)
  OBVIOUS
<1>3. PICK p : p = d.projects \cup DOMAIN sum.scopes
  OBVIOUS
<1>4. PICK c1 : c1 = [d EXCEPT !.slices = s]
  OBVIOUS
<1>5. PICK c2 : c2 = [c1 EXCEPT !.total = t]
  OBVIOUS
<1>6. PICK c3 : c3 = [c2 EXCEPT !.dims = x]
  OBVIOUS
<1>7. PICK c4 : c4 = [c3 EXCEPT !.projects = p]
  OBVIOUS
<1>8. PICK c5 : c5 = [c4 EXCEPT !.allocations = m]
  OBVIOUS
<1>9. Rewritten(d, sum) = c5
  <2>1. Measured(d, sum) = c3
    BY <1>1, <1>4, <1>5, <1>6 DEF Measured
  <2>2. Rewritten(d, sum) = [c3 EXCEPT !.projects = p, !.allocations = m]
    BY <2>1, <1>1, <1>2, <1>3 DEF Rewritten
  <2> QED
    BY <2>2, <1>7, <1>8
<1>10. /\ IsWell(c1) /\ c1.slices = s /\ c1.summaries = d.summaries
       /\ c1.heartbeats = d.heartbeats /\ c1.active = d.active /\ c1.beats = d.beats
  BY <1>4 DEF IsDay, IsWell
<1>11. /\ IsWell(c2) /\ c2.slices = s /\ c2.total = t /\ c2.summaries = d.summaries
       /\ c2.heartbeats = d.heartbeats /\ c2.active = d.active /\ c2.beats = d.beats
  BY <1>5, <1>10 DEF IsDay, IsWell
<1>12. /\ IsWell(c3) /\ c3.slices = s /\ c3.total = t /\ c3.dims = x
       /\ c3.summaries = d.summaries
       /\ c3.heartbeats = d.heartbeats /\ c3.active = d.active /\ c3.beats = d.beats
  BY <1>6, <1>11 DEF IsDay, IsWell
<1>13. /\ IsWell(c4) /\ c4.slices = s /\ c4.total = t /\ c4.dims = x
       /\ c4.summaries = d.summaries
       /\ c4.heartbeats = d.heartbeats /\ c4.active = d.active /\ c4.beats = d.beats
  BY <1>7, <1>12 DEF IsDay, IsWell
<1>14. /\ IsWell(c5) /\ c5.slices = s /\ c5.total = t /\ c5.dims = x
       /\ c5.allocations = m /\ c5.summaries = d.summaries
       /\ c5.heartbeats = d.heartbeats /\ c5.active = d.active /\ c5.beats = d.beats
  BY <1>8, <1>13 DEF IsDay, IsWell
<1> QED
  BY <1>1, <1>2, <1>9, <1>14

LEMMA DayWithHeartbeats ==
  ASSUME NEW d, IsWell(d), EvidenceOK(d), NEW hb, NEW outcome, NEW sum,
         outcome = "complete" => hb.value # None
  PROVE  LET e == WithHeartbeats(d, hb, outcome, sum)
         IN  /\ IsWell(e) /\ SameRows(d, e) /\ EvidenceOK(e)
             /\ outcome = "complete" => e.heartbeats.evidence
<1>1. PICK e : e = WithHeartbeats(d, hb, outcome, sum)
  OBVIOUS
<1>2. CASE outcome = "complete"
  <2>1. PICK known : e = Witnessed(d, hb.value, known)
    BY <1>1, <1>2 DEF WithHeartbeats
  <2>2. e = WitnessedAgain(d, hb.value) \/ \E k : e = Witnessed(d, hb.value, k)
    BY <2>1
  <2>3. IsWell(e) /\ SameRows(d, e) /\ EvidenceOK(e) /\ e.heartbeats.evidence = TRUE
    BY <1>2, <2>2, DayWitnessedAgain
  <2> QED
    BY <1>1, <2>3, Zenon
<1>3. CASE e = d
  BY <1>1, <1>2, <1>3 DEF SameRows
<1>4. ASSUME NEW l, l = d.heartbeats \/ \E s : l = Attempted(d.heartbeats, s), outcome # "complete",
             e = [d EXCEPT !.heartbeats = Doubted(l)]
      PROVE  IsWell(e) /\ SameRows(d, e) /\ EvidenceOK(e)
  <2>1. IsLayer(l) /\ l.accepted = d.heartbeats.accepted
    BY <1>4, LayerAttempted DEF IsWell, SameClaim
  <2>2. PICK x : x = Doubted(l)
    OBVIOUS
  <2>3. IsLayer(x) /\ x.accepted = d.heartbeats.accepted /\ x.evidence = FALSE
    BY <2>1, <2>2, LayerDoubted
  <2>4. e = [d EXCEPT !.heartbeats = x]
    BY <1>4, <2>2
  <2>5. x.evidence => x.accepted # None
    BY <2>3, Zenon
  <2> QED
    BY <2>3, <2>4, <2>5, BeatsLayerMoves
<1>5. outcome # "complete" =>
        \/ e = d
        \/ e = [d EXCEPT !.heartbeats = Doubted(d.heartbeats)]
        \/ e = [d EXCEPT !.heartbeats = Doubted(Attempted(d.heartbeats, outcome))]
  BY <1>1 DEF WithHeartbeats
<1>6. CASE outcome # "complete"
  BY <1>1, <1>3, <1>4, <1>5, <1>6
<1> QED
  BY <1>2, <1>6

LEMMA DayReplaced ==
  ASSUME NEW d, IsWell(d), EvidenceOK(d), NEW sum, NEW hb,
         hb.kind = "complete" => hb.value # None
  PROVE  LET e == Replaced(d, sum, hb)
         IN  /\ IsWell(e) /\ e.summaries.accepted = sum /\ EvidenceOK(e) /\ Backed(e)
             /\ e.total = sum.total /\ e.slices = sum.slices /\ e.dims = sum.dims
             /\ e.allocations = Followed(d.allocations, sum.slices)
<1>1. PICK outcome : outcome = HeartbeatsOutcome(d, hb)
  OBVIOUS
<1>2. PICK c : c = Rewritten(d, sum)
  OBVIOUS
<1>3. PICK h : h = WithHeartbeats(c, hb, outcome, sum)
  OBVIOUS
<1>4. PICK evidence : evidence = (sum.zero \/ outcome = "complete")
  OBVIOUS
<1>5. Replaced(d, sum, hb) = [h EXCEPT !.summaries = Accepted(sum, evidence)]
  BY <1>1, <1>2, <1>3, <1>4 DEF Replaced
<1>6. /\ IsWell(c) /\ c.summaries = d.summaries /\ c.heartbeats = d.heartbeats
      /\ c.active = d.active
      /\ c.total = sum.total /\ c.slices = sum.slices /\ c.dims = sum.dims
      /\ c.allocations = Followed(d.allocations, sum.slices)
  BY <1>2, DayRewritten
<1>7. EvidenceOK(c)
  BY <1>6 DEF EvidenceOK
<1>8. outcome = "complete" => hb.value # None
  BY <1>1, OutcomeIs
<1>9. IsWell(h) /\ SameRows(c, h) /\ EvidenceOK(h) /\ (outcome = "complete" => h.heartbeats.evidence)
  BY <1>3, <1>6, <1>7, <1>8, DayWithHeartbeats
<1>10. evidence => sum.zero \/ h.heartbeats.evidence
  BY <1>4, <1>9
<1>11. PICK e : e = [h EXCEPT !.summaries = Accepted(sum, evidence)]
  OBVIOUS
<1>12. IsWell(e) /\ SameRows(h, e) /\ e.summaries.accepted = sum /\ EvidenceOK(e) /\ Backed(e)
  BY <1>9, <1>10, <1>11, SummaryAccepted
<1> QED
  BY <1>5, <1>6, <1>9, <1>11, <1>12 DEF SameRows

LEMMA DayImported ==
  ASSUME NEW d, IsWell(d), NEW dump
  PROVE  LET e == Imported(d, dump)
         IN  /\ IsWell(e) /\ e.summaries = d.summaries /\ e.heartbeats = d.heartbeats
             /\ e.total = dump.total /\ e.slices = DumpSlices(dump)
             /\ e.allocations = d.allocations
<1>1. PICK s, t, x, p, b : /\ s = DumpSlices(dump) /\ t = dump.total /\ x = dump.dims
                           /\ p = Registered(d, dump)
                           /\ b = Upserted(d.beats, dump.events, Registered(d, dump))
  OBVIOUS
<1>2. PICK c1 : c1 = WithMembers(d, IdsOf(dump.events))
  OBVIOUS
<1>3. PICK c2 : c2 = [c1 EXCEPT !.total = t]
  OBVIOUS
<1>4. PICK c3 : c3 = [c2 EXCEPT !.slices = s]
  OBVIOUS
<1>5. PICK c4 : c4 = [c3 EXCEPT !.dims = x]
  OBVIOUS
<1>6. PICK c5 : c5 = [c4 EXCEPT !.projects = p]
  OBVIOUS
<1>7. PICK c6 : c6 = [c5 EXCEPT !.beats = b]
  OBVIOUS
<1>8. Imported(d, dump) = c6
  <2>1. Imported(d, dump) = [c1 EXCEPT !.total = t, !.slices = s, !.dims = x, !.projects = p, !.beats = b]
    BY <1>1, <1>2 DEF Imported
  <2> QED
    BY <2>1, <1>3, <1>4, <1>5, <1>6, <1>7
<1>9. /\ IsWell(c1) /\ c1.summaries = d.summaries /\ c1.heartbeats = d.heartbeats
      /\ c1.allocations = d.allocations
  BY <1>2 DEF WithMembers, IsDay, IsWell
<1>10. /\ IsWell(c2) /\ c2.summaries = d.summaries /\ c2.heartbeats = d.heartbeats
       /\ c2.allocations = d.allocations /\ c2.total = t
  BY <1>3, <1>9 DEF IsDay, IsWell
<1>11. /\ IsWell(c3) /\ c3.summaries = d.summaries /\ c3.heartbeats = d.heartbeats
       /\ c3.allocations = d.allocations /\ c3.total = t /\ c3.slices = s
  BY <1>4, <1>10 DEF IsDay, IsWell
<1>12. /\ IsWell(c4) /\ c4.summaries = d.summaries /\ c4.heartbeats = d.heartbeats
       /\ c4.allocations = d.allocations /\ c4.total = t /\ c4.slices = s
  BY <1>5, <1>11 DEF IsDay, IsWell
<1>13. /\ IsWell(c5) /\ c5.summaries = d.summaries /\ c5.heartbeats = d.heartbeats
       /\ c5.allocations = d.allocations /\ c5.total = t /\ c5.slices = s
  BY <1>6, <1>12 DEF IsDay, IsWell
<1>14. /\ IsWell(c6) /\ c6.summaries = d.summaries /\ c6.heartbeats = d.heartbeats
       /\ c6.allocations = d.allocations /\ c6.total = t /\ c6.slices = s
  BY <1>7, <1>13 DEF IsDay, IsWell
<1> QED
  BY <1>1, <1>8, <1>14

-----------------------------------------------------------------------------
(* What holds of the day.                                                     *)

SlicesOK(slices) ==
  /\ IsFiniteSet(DOMAIN slices)
  /\ \A k \in DOMAIN slices : IsKey(k) /\ slices[k] \in Int
MarkOK(mark) == mark.state \in {"active", "detached"} /\ mark.class \in {"work", "personal"}
Follows(mark, k, slices) ==
  /\ mark.state = "active" <=> k \in DOMAIN slices
  /\ k \in DOMAIN slices => Agree(mark.secs, slices[k])
MarksOK(marks, slices) ==
  /\ IsFiniteSet(DOMAIN marks)
  /\ \A k \in DOMAIN marks : IsKey(k) /\ MarkOK(marks[k]) /\ Follows(marks[k], k, slices)
SnapshotOK(d) ==
  LET a == d.summaries.accepted
  IN  a # None => /\ IsSummary(a) /\ IsConsistent(a)
                  /\ d.slices = a.slices /\ d.total = a.total /\ d.dims = a.dims
(* A day nothing is known of has nothing to mark.                             *)
UnseenOK(d) == d.total = None => DOMAIN d.slices = {} /\ DOMAIN d.allocations = {}

DayInv(d) ==
  /\ IsWell(d) /\ SlicesOK(d.slices) /\ MarksOK(d.allocations, d.slices)
  /\ UnseenOK(d) /\ SnapshotOK(d) /\ EvidenceOK(d) /\ Backed(d)

LEMMA AgreesWithItself == ASSUME NEW x \in Int PROVE Agree(x, x)
<1>1. x - x = 0
  OBVIOUS
<1> QED
  BY <1>1, DocumentsAssumption DEF Agree, Abs

LEMMA NewMark ==
  ASSUME NEW state, NEW class, NEW secs
  PROVE  LET m == Mark(state, class, secs) IN m.state = state /\ m.class = class /\ m.secs = secs
BY DEF Mark

LEMMA FollowedOK ==
  ASSUME NEW marks, NEW before, MarksOK(marks, before), NEW slices, SlicesOK(slices)
  PROVE  /\ DOMAIN Followed(marks, slices) = DOMAIN marks
         /\ MarksOK(Followed(marks, slices), slices)
<1>1. PICK after : after = Followed(marks, slices)
  OBVIOUS
<1>2. DOMAIN after = DOMAIN marks
  BY <1>1 DEF Followed
<1>3. ASSUME NEW k \in DOMAIN marks
      PROVE  IsKey(k) /\ MarkOK(after[k]) /\ Follows(after[k], k, slices)
  <2>1. PICK m : m = marks[k]
    OBVIOUS
  <2>2. IsKey(k) /\ MarkOK(m)
    BY <2>1 DEF MarksOK
  <2>3. CASE k \notin DOMAIN slices
    <3>1. after[k] = Mark("detached", m.class, m.secs)
      BY <1>1, <2>1, <2>3 DEF Followed
    <3>2. after[k].state = "detached" /\ after[k].class = m.class
      BY <3>1, NewMark
    <3> QED
      BY <2>2, <2>3, <3>2 DEF MarkOK, Follows
  <2>4. CASE k \in DOMAIN slices /\ (m.state = "detached" \/ ~Agree(m.secs, slices[k]))
    <3>1. after[k] = Mark("active", m.class, slices[k])
      BY <1>1, <2>1, <2>4 DEF Followed, Reattached
    <3>2. after[k].state = "active" /\ after[k].class = m.class /\ after[k].secs = slices[k]
      BY <3>1, NewMark
    <3>3. Agree(slices[k], slices[k])
      BY <2>4, AgreesWithItself DEF SlicesOK
    <3> QED
      BY <2>2, <2>4, <3>2, <3>3 DEF MarkOK, Follows
  <2>5. CASE k \in DOMAIN slices /\ m.state # "detached" /\ Agree(m.secs, slices[k])
    <3>1. after[k] = m
      BY <1>1, <2>1, <2>5 DEF Followed
    <3> QED
      BY <2>2, <2>5, <3>1 DEF MarkOK, Follows
  <2> QED
    BY <2>3, <2>4, <2>5
<1> QED
  BY <1>1, <1>2, <1>3 DEF MarksOK

(* Only what is said of the layers changes.                                   *)
LEMMA RowsStay ==
  ASSUME NEW d, NEW e, DayInv(d), IsWell(e), SameRows(d, e), EvidenceOK(e), Backed(e),
         e.summaries.accepted = d.summaries.accepted
  PROVE  DayInv(e)
<1>1. e.total = d.total /\ e.slices = d.slices /\ e.dims = d.dims /\ e.allocations = d.allocations
  BY DEF SameRows
<1>2. SlicesOK(e.slices) /\ MarksOK(e.allocations, e.slices) /\ UnseenOK(e)
  BY <1>1 DEF DayInv, UnseenOK
<1>3. SnapshotOK(e)
  BY <1>1 DEF DayInv, SnapshotOK
<1> QED
  BY <1>2, <1>3 DEF DayInv

LEMMA ClaimsStay ==
  ASSUME NEW d, NEW e, DayInv(d), IsWell(e), SameRows(d, e), e.active = d.active,
         SameClaim(e.summaries, d.summaries), SameClaim(e.heartbeats, d.heartbeats)
  PROVE  DayInv(e)
<1>1. EvidenceOK(e) /\ Backed(e)
  BY DEF DayInv, EvidenceOK, Backed, SameClaim
<1> QED
  BY <1>1, RowsStay DEF SameClaim

LEMMA NotedOK ==
  ASSUME NEW d, DayInv(d), NEW attempt
  PROVE  DayInv(Noted(d, attempt))
<1>1. PICK e : e = Noted(d, attempt)
  OBVIOUS
<1>2. /\ IsWell(e) /\ SameRows(d, e) /\ e.active = d.active
      /\ SameClaim(e.summaries, d.summaries) /\ SameClaim(e.heartbeats, d.heartbeats)
  BY <1>1, DayNoted DEF DayInv
<1> QED
  BY <1>1, <1>2, ClaimsStay

LEMMA ReplacedOK ==
  ASSUME NEW d, DayInv(d), NEW sum, IsSummary(sum), IsConsistent(sum), NEW hb,
         hb.kind = "complete" => hb.value # None
  PROVE  DayInv(Replaced(d, sum, hb))
<1>1. PICK e : e = Replaced(d, sum, hb)
  OBVIOUS
<1>2. /\ IsWell(e) /\ e.summaries.accepted = sum /\ EvidenceOK(e) /\ Backed(e)
      /\ e.total = sum.total /\ e.slices = sum.slices /\ e.dims = sum.dims
      /\ e.allocations = Followed(d.allocations, sum.slices)
  BY <1>1, DayReplaced DEF DayInv
<1>3. SlicesOK(e.slices)
  BY <1>2 DEF IsSummary, SlicesOK
<1>4. MarksOK(e.allocations, e.slices)
  BY <1>2, <1>3, FollowedOK DEF DayInv
<1>5. UnseenOK(e)
  BY <1>2, ArchiveAssumption DEF UnseenOK, IsSummary
<1>6. SnapshotOK(e)
  BY <1>2 DEF SnapshotOK
<1> QED
  BY <1>1, <1>2, <1>3, <1>4, <1>5, <1>6 DEF DayInv

LEMMA ReconciledOK ==
  ASSUME NEW d, DayInv(d), NEW sum, IsSummary(sum), NEW hb,
         hb.kind = "complete" => hb.value # None
  PROVE  DayInv(Reconciled(d, sum, hb))
<1>1. PICK e : e = Reconciled(d, sum, hb)
  OBVIOUS
<1>2. CASE e = d
  BY <1>1, <1>2
<1>3. CASE Unchanged(d, sum) /\ e = Confirmed(d, sum, hb)
  <2>1. /\ IsWell(e) /\ SameRows(d, e) /\ e.summaries.accepted = sum
        /\ EvidenceOK(e) /\ Backed(e)
    BY <1>3, DayConfirmed DEF DayInv
  <2> QED
    BY <1>1, <1>3, <2>1, RowsStay DEF Unchanged
<1>4. CASE e = Preserved(d)
  <2>1. /\ IsWell(e) /\ SameRows(d, e) /\ e.active = d.active
        /\ SameClaim(e.summaries, d.summaries) /\ SameClaim(e.heartbeats, d.heartbeats)
    BY <1>4, DayPreserved DEF DayInv
  <2> QED
    BY <1>1, <2>1, ClaimsStay
<1>5. CASE IsConsistent(sum) /\ e = Replaced(d, sum, hb)
  BY <1>1, <1>5, ReplacedOK
<1> QED
  BY <1>1, <1>2, <1>3, <1>4, <1>5 DEF Reconciled

(* A sum of the seconds of rows is a sum.                                     *)
LEMMA SecsInIs ==
  ASSUME NEW f, NEW S
  PROVE  SecsIn(f, S) = SumOver([x \in S |-> f[x].secs], S)
<1> DEFINE h == [x \in S |-> f[x].secs]
<1>1. ASSUME NEW s \in SUBSET S, s # {}
      PROVE  h[Pick(s)] = f[Pick(s)].secs
  BY <1>1 DEF Pick
<1>2. ASSUME NEW g
      PROVE  [s \in SUBSET S |-> IF s = {} THEN 0 ELSE h[Pick(s)] + g[s \ {Pick(s)}]] =
             [s \in SUBSET S |-> IF s = {} THEN 0 ELSE f[Pick(s)].secs + g[s \ {Pick(s)}]]
  BY <1>1
<1> HIDE DEF h
<1>3. (CHOOSE g : g = [s \in SUBSET S |-> IF s = {} THEN 0 ELSE h[Pick(s)] + g[s \ {Pick(s)}]])
    = (CHOOSE g : g = [s \in SUBSET S |-> IF s = {} THEN 0 ELSE f[Pick(s)].secs + g[s \ {Pick(s)}]])
  BY <1>2
<1>4. SumOver(h, S) =
        (CHOOSE g : g = [s \in SUBSET S |-> IF s = {} THEN 0 ELSE h[Pick(s)] + g[s \ {Pick(s)}]])[S]
  BY DEF SumOver, MapThenSumSet, MapThenFoldSet, Pick
<1>5. SecsIn(f, S) =
        (CHOOSE g : g = [s \in SUBSET S |-> IF s = {} THEN 0 ELSE f[Pick(s)].secs + g[s \ {Pick(s)}]])[S]
  BY DEF SecsIn, MapThenSumSet, MapThenFoldSet, Pick
<1> QED
  BY <1>3, <1>4, <1>5 DEF h

LEMMA SecsInIsInt ==
  ASSUME NEW f, NEW S, IsFiniteSet(S), \A x \in S : f[x].secs \in Int
  PROVE  SecsIn(f, S) \in Int
<1>1. PICK h : h = [x \in S |-> f[x].secs]
  OBVIOUS
<1>2. \A x \in S : h[x] \in Int
  BY <1>1
<1> QED
  BY <1>1, <1>2, SecsInIs, SumIsInt

LEMMA RangeIsFinite ==
  ASSUME NEW f, IsFiniteSet(DOMAIN f)
  PROVE  IsFiniteSet({f[x] : x \in DOMAIN f})
<1>1. PICK S, T : S = DOMAIN f /\ T = {f[x] : x \in DOMAIN f}
  OBVIOUS
<1>2. PICK g : g = [x \in S |-> f[x]]
  OBVIOUS
<1>3. g \in [S -> T] /\ \A t \in T : \E s \in S : g[s] = t
  BY <1>1, <1>2
<1>4. g \in Surjection(S, T)
  BY <1>3 DEF Surjection
<1> QED
  BY <1>1, <1>4, FS_Surjection

(* The slices of a dump.                                                      *)
LEMMA NewKey ==
  ASSUME NEW project, NEW entity, NEW kind
  PROVE  LET k == Key(project, entity, kind)
         IN  k.project = project /\ k.entity = entity /\ k.kind = kind
BY DEF Key

LEMMA DumpSlicesOK ==
  ASSUME NEW dump, IsDump(dump)
  PROVE  SlicesOK(DumpSlices(dump))
<1>1. PICK es, n : es = dump.entities /\ n = Len(es)
  OBVIOUS
<1>2. n \in Nat /\ \A i \in 1..n : es[i].secs \in Int
  BY <1>1 DEF IsDump
<1>3. IsFiniteSet(1..n)
  BY <1>2, FS_Interval
<1>4. PICK K : K = {Key(e.project, e.name, "entity") : e \in ElementsOf(es)}
  OBVIOUS
<1>5. IsFiniteSet(K)
  <2>1. PICK f : f = [i \in 1..n |-> Key(es[i].project, es[i].name, "entity")]
    OBVIOUS
  <2>2. K = {f[i] : i \in DOMAIN f}
    BY <1>1, <1>4, <2>1 DEF ElementsOf
  <2>3. IsFiniteSet(DOMAIN f)
    BY <1>3, <2>1
  <2> QED
    BY <2>2, <2>3, RangeIsFinite
<1>6. \A k \in K : IsKey(k)
  BY <1>4, NewKey DEF IsKey
<1>7. ASSUME NEW k
      PROVE  EntitySecs(dump, k) \in Int
  <2>1. PICK I : I = {i \in 1..n : Key(es[i].project, es[i].name, "entity") = k}
    OBVIOUS
  <2>2. IsFiniteSet(I)
    BY <1>3, <2>1, FS_Subset
  <2>3. SecsIn(es, I) \in Int
    BY <1>2, <2>1, <2>2, SecsInIsInt
  <2>4. EntitySecs(dump, k) = SecsIn(es, {i \in 1..Len(es) : Key(es[i].project, es[i].name, "entity") = k})
    BY <1>1 DEF EntitySecs, SecsIn
  <2> QED
    BY <1>1, <2>1, <2>3, <2>4
<1>8. PICK left : left = dump.total - TotalOf(dump.entities, SecsOf)
  OBVIOUS
<1>9. left \in Int
  <2>1. TotalOf(dump.entities, SecsOf) = SecsIn(es, 1..Len(es))
    BY <1>1 DEF TotalOf, SecsOf, SecsIn
  <2>2. SecsIn(es, 1..n) \in Int
    BY <1>2, <1>3, SecsInIsInt
  <2> QED
    BY <1>1, <1>8, <2>1, <2>2 DEF IsDump
<1>10. PICK owned : owned = [k \in K |-> EntitySecs(dump, k)]
  OBVIOUS
<1>11. PICK rest : rest = [k \in {Residual} |-> IF left > 0 THEN left ELSE 0]
  OBVIOUS
<1>12. SlicesOK(owned)
  BY <1>5, <1>6, <1>7, <1>10 DEF SlicesOK
<1>13. IsKey(Residual)
  BY NewKey DEF Residual, IsKey
<1>14. SlicesOK(rest)
  <2>1. IsFiniteSet({Residual})
    BY FS_Singleton
  <2> QED
    BY <1>9, <1>11, <1>13, <2>1 DEF SlicesOK
<1>15. SlicesOK(Joined(owned, rest))
  <2>1. PICK J : J = Joined(owned, rest)
    OBVIOUS
  <2>2. DOMAIN J = DOMAIN owned \cup DOMAIN rest
    BY <2>1 DEF Joined
  <2>3. IsFiniteSet(DOMAIN J)
    <3>1. IsFiniteSet(DOMAIN owned) /\ IsFiniteSet(DOMAIN rest)
      BY <1>12, <1>14 DEF SlicesOK
    <3> QED
      BY <2>2, <3>1, FS_Union
  <2>4. ASSUME NEW k \in DOMAIN J
        PROVE  IsKey(k) /\ J[k] \in Int
    <3>1. CASE k \in DOMAIN owned
      <4>1. J[k] = owned[k]
        BY <2>1, <3>1 DEF Joined
      <4> QED
        BY <1>12, <3>1, <4>1 DEF SlicesOK
    <3>2. CASE k \in DOMAIN rest /\ k \notin DOMAIN owned
      <4>1. J[k] = rest[k]
        BY <2>1, <3>2 DEF Joined
      <4> QED
        BY <1>14, <3>2, <4>1 DEF SlicesOK
    <3> QED
      BY <2>2, <3>1, <3>2
  <2> QED
    BY <2>1, <2>3, <2>4 DEF SlicesOK
<1>16. DumpSlices(dump) = Joined(owned, rest) \/ DumpSlices(dump) = owned
  <2>1. TotalOf(es, SecsOf) = TotalOf(dump.entities, SecsOf)
    BY <1>1
  <2> QED
    BY <1>1, <1>4, <1>8, <1>10, <1>11 DEF DumpSlices
<1> QED
  BY <1>12, <1>15, <1>16

LEMMA ImportedOK ==
  ASSUME NEW d, DayInv(d), ~Seen(d), NEW dump, IsDump(dump)
  PROVE  DayInv(Imported(d, dump))
<1>1. PICK e : e = Imported(d, dump)
  OBVIOUS
<1>2. /\ IsWell(e) /\ e.summaries = d.summaries /\ e.heartbeats = d.heartbeats
      /\ e.total = dump.total /\ e.slices = DumpSlices(dump)
      /\ e.allocations = d.allocations
  BY <1>1, DayImported DEF DayInv
<1>3. /\ d.total = None /\ d.summaries.accepted = None /\ d.heartbeats.accepted = None
      /\ DOMAIN d.allocations = {}
  BY DEF Seen, DayInv, UnseenOK
<1>4. SlicesOK(e.slices)
  BY <1>2, DumpSlicesOK
<1>5. MarksOK(e.allocations, e.slices)
  BY <1>2, <1>3, FS_EmptySet DEF MarksOK
<1>6. UnseenOK(e)
  BY <1>2, ArchiveAssumption DEF UnseenOK, IsDump
<1>7. SnapshotOK(e) /\ EvidenceOK(e) /\ Backed(e)
  BY <1>2, <1>3 DEF SnapshotOK, EvidenceOK, Backed, DayInv
<1> QED
  BY <1>1, <1>2, <1>4, <1>5, <1>6, <1>7 DEF DayInv

(* Marks.                                                                     *)
LEMMA MarkedOK ==
  ASSUME NEW d, DayInv(d), NEW marks, MarksOK(marks, d.slices),
         d.total = None => DOMAIN marks = {}
  PROVE  DayInv([d EXCEPT !.allocations = marks])
<1>1. PICK e : e = [d EXCEPT !.allocations = marks]
  OBVIOUS
<1>2. /\ IsWell(e) /\ e.summaries = d.summaries /\ e.heartbeats = d.heartbeats
      /\ e.total = d.total /\ e.slices = d.slices /\ e.dims = d.dims /\ e.active = d.active
      /\ e.allocations = marks
  BY <1>1 DEF DayInv, IsDay, IsWell
<1> QED
  BY <1>1, <1>2 DEF DayInv, UnseenOK, SnapshotOK, EvidenceOK, Backed

LEMMA PlacedOK ==
  ASSUME DayInv(day), NEW k \in DOMAIN day.slices, NEW class \in Classes
  PROVE  MarksOK(Placed(k, class), day.slices) /\ day.total # None
<1>1. PICK one : one = [m \in {k} |-> Mark("active", class, day.slices[m])]
  OBVIOUS
<1>2. PICK marks, J : marks = day.allocations /\ J = Joined(one, marks)
  OBVIOUS
<1>3. Placed(k, class) = J
  BY <1>1, <1>2 DEF Placed
<1>4. /\ DOMAIN J = {k} \cup DOMAIN marks /\ J[k] = one[k]
      /\ \A m \in DOMAIN marks \ {k} : J[m] = marks[m]
  <2>1. DOMAIN one = {k}
    BY <1>1
  <2>2. DOMAIN J = {k} \cup DOMAIN marks
    BY <1>2, <2>1 DEF Joined
  <2>3. J[k] = one[k]
    BY <1>2, <2>1 DEF Joined
  <2>4. ASSUME NEW m \in DOMAIN marks, m # k
        PROVE  J[m] = marks[m]
    BY <1>2, <2>1, <2>4 DEF Joined
  <2> QED
    BY <2>2, <2>3, <2>4
<1>5. one[k].state = "active" /\ one[k].class = class /\ one[k].secs = day.slices[k]
  BY <1>1, NewMark
<1>6. Agree(day.slices[k], day.slices[k]) /\ IsKey(k)
  BY AgreesWithItself DEF DayInv, SlicesOK
<1>7. IsKey(k) /\ MarkOK(J[k]) /\ Follows(J[k], k, day.slices)
  BY <1>4, <1>5, <1>6, ArchiveAssumption DEF MarkOK, Follows
<1>8. IsFiniteSet(DOMAIN J)
  <2>1. IsFiniteSet({k}) /\ IsFiniteSet(DOMAIN marks)
    BY <1>2, FS_Singleton DEF DayInv, MarksOK
  <2> QED
    BY <1>4, <2>1, FS_Union
<1>9. \A m \in DOMAIN marks \ {k} : IsKey(m) /\ MarkOK(J[m]) /\ Follows(J[m], m, day.slices)
  BY <1>2, <1>4 DEF DayInv, MarksOK
<1>10. MarksOK(J, day.slices)
  BY <1>4, <1>7, <1>8, <1>9 DEF MarksOK
<1>11. day.total # None
  BY DEF DayInv, UnseenOK
<1> QED
  BY <1>3, <1>10, <1>11

LEMMA RemovedOK ==
  ASSUME DayInv(day), NEW k
  PROVE  MarksOK(Removed(k), day.slices) /\ DOMAIN Removed(k) \subseteq DOMAIN day.allocations
<1>1. /\ DOMAIN Removed(k) = DOMAIN day.allocations \ {k}
      /\ \A m \in DOMAIN day.allocations \ {k} : Removed(k)[m] = day.allocations[m]
  BY DEF Removed
<1>2. IsFiniteSet(DOMAIN Removed(k))
  BY <1>1, FS_Subset DEF DayInv, MarksOK
<1> QED
  BY <1>1, <1>2 DEF DayInv, MarksOK

-----------------------------------------------------------------------------
(* Every step of the day is one of these.                                     *)
RulesOnly == UNCHANGED day
SyncStep ==
  \E sum \in Summaries, hb \in Heartbeats :
    /\ sum.kind = "complete"
    /\ day' = Reconciled(Noted(day, Attempt(sum, hb)), sum.value, hb)
MissStep == \E attempt \in Attempts : day' = Noted(day, attempt)
ImportStep == \E dump \in Dumps : ~Seen(day) /\ day' = Imported(day, dump)
MarkStep ==
  \E marks : /\ day' = [day EXCEPT !.allocations = marks]
             /\ \/ \E k \in DOMAIN day.slices, class \in Classes : marks = Placed(k, class)
                \/ \E k \in DOMAIN day.allocations : marks = Removed(k)

LEMMA DaySteps ==
  ASSUME [Next]_vars
  PROVE  RulesOnly \/ SyncStep \/ MissStep \/ ImportStep \/ MarkStep
<1>1. ASSUME NEW sum \in Summaries, NEW hb \in Heartbeats, SyncDay(sum, hb)
      PROVE  SyncStep
  BY <1>1 DEF SyncDay, SyncStep
<1>2. ASSUME NEW attempt \in Attempts, MissDay(attempt)
      PROVE  MissStep
  BY <1>2 DEF MissDay, MissStep
<1>3. ASSUME NEW dump \in Dumps, ImportDay(dump)
      PROVE  ImportStep
  BY <1>3 DEF ImportDay, ImportStep
<1>4. ASSUME NEW op, PreviewRuleChange(op)
      PROVE  RulesOnly
  BY <1>4 DEF PreviewRuleChange, RulesOnly
<1>5. ASSUME ConfirmRuleChange \/ RejectStalePreview \/ UNCHANGED vars
      PROVE  RulesOnly
  BY <1>5 DEF ConfirmRuleChange, RejectStalePreview, vars, RulesOnly
<1>6. ASSUME NEW m \in Manifests, ConsolidateRules(m)
      PROVE  RulesOnly
  BY <1>6 DEF ConsolidateRules, RulesOnly
<1>7. ASSUME NEW k \in DOMAIN day.slices, NEW class \in Classes,
             CreateAllocation(k, class) \/ ReplaceAllocation(k, class)
      PROVE  MarkStep
  <2>1. day' = [day EXCEPT !.allocations = Placed(k, class)]
    BY <1>7 DEF CreateAllocation, ReplaceAllocation, WithAllocations
  <2> QED
    BY <2>1 DEF MarkStep
<1>8. ASSUME NEW k \in DOMAIN day.allocations, DeleteAllocation(k)
      PROVE  MarkStep
  <2>1. day' = [day EXCEPT !.allocations = Removed(k)]
    BY <1>8 DEF DeleteAllocation, WithAllocations
  <2> QED
    BY <2>1 DEF MarkStep
<1> QED
  BY <1>1, <1>2, <1>3, <1>4, <1>5, <1>6, <1>7, <1>8 DEF Next

LEMMA DayBegins == Init => DayInv(day)
<1> SUFFICES ASSUME Init PROVE DayInv(day)
  OBVIOUS
<1>1. PICK d : d = EmptyDay
  OBVIOUS
<1>2. PICK f : f = <<>>
  OBVIOUS
<1>3. /\ d.total = None /\ d.slices = f /\ d.allocations = f
      /\ d.summaries = NoLayer /\ d.heartbeats = NoLayer /\ IsDay(d)
  BY <1>1, <1>2 DEF EmptyDay, IsDay
<1>4. NoLayer.accepted = None /\ NoLayer.evidence = FALSE /\ IsLayer(NoLayer)
  <2>1. NoLayer = Accepted(None, FALSE)
    BY DEF NoLayer, Accepted
  <2> QED
    BY <2>1, LayerAccepted
<1>5. DOMAIN f = {}
  BY <1>2
<1>6. SlicesOK(f) /\ MarksOK(f, f)
  BY <1>5, FS_EmptySet DEF SlicesOK, MarksOK
<1>7. EvidenceOK(d) /\ Backed(d)
  <2>1. ~d.heartbeats.evidence /\ ~d.summaries.evidence
    BY <1>3, <1>4, Zenon
  <2> QED
    BY <1>3, <1>4, <2>1 DEF EvidenceOK, Backed
<1>8. DayInv(d)
  BY <1>3, <1>4, <1>5, <1>6, <1>7 DEF DayInv, IsWell, UnseenOK, SnapshotOK
<1> QED
  BY <1>1, <1>8 DEF Init

LEMMA SyncSummary ==
  ASSUME NEW sum \in Summaries, sum.kind = "complete", NEW hb \in Heartbeats
  PROVE  IsSummary(sum.value) /\ (hb.kind = "complete" => hb.value # None)
BY ArchiveAssumption

LEMMA DayGoesOn == DayInv(day) /\ [Next]_vars => DayInv(day)'
<1> SUFFICES ASSUME DayInv(day), [Next]_vars PROVE DayInv(day)'
  OBVIOUS
<1>1. PICK e : e = day'
  OBVIOUS
<1>2. CASE RulesOnly
  BY <1>1, <1>2 DEF RulesOnly
<1>3. CASE SyncStep
  <2>1. PICK sum \in Summaries, hb \in Heartbeats :
          sum.kind = "complete" /\ e = Reconciled(Noted(day, Attempt(sum, hb)), sum.value, hb)
    BY <1>1, <1>3 DEF SyncStep
  <2>2. PICK n : n = Noted(day, Attempt(sum, hb))
    OBVIOUS
  <2>3. DayInv(n)
    BY <2>2, NotedOK
  <2>4. DayInv(e)
    BY <2>1, <2>2, <2>3, SyncSummary, ReconciledOK
  <2> QED
    BY <1>1, <2>4
<1>4. CASE MissStep
  <2>1. PICK attempt : e = Noted(day, attempt)
    BY <1>1, <1>4 DEF MissStep
  <2>2. DayInv(e)
    BY <2>1, NotedOK
  <2> QED
    BY <1>1, <2>2
<1>5. CASE ImportStep
  <2>1. PICK dump \in Dumps : ~Seen(day) /\ e = Imported(day, dump)
    BY <1>1, <1>5 DEF ImportStep
  <2>2. DayInv(e)
    BY <2>1, ImportedOK, ArchiveAssumption
  <2> QED
    BY <1>1, <2>2
<1>6. CASE MarkStep
  <2>1. PICK marks : /\ e = [day EXCEPT !.allocations = marks]
                     /\ \/ \E k \in DOMAIN day.slices, class \in Classes : marks = Placed(k, class)
                        \/ \E k \in DOMAIN day.allocations : marks = Removed(k)
    BY <1>1, <1>6 DEF MarkStep
  <2>2. MarksOK(marks, day.slices) /\ (day.total = None => DOMAIN marks = {})
    <3>1. ASSUME NEW k \in DOMAIN day.slices, NEW class \in Classes, marks = Placed(k, class)
          PROVE  MarksOK(marks, day.slices) /\ day.total # None
      BY <3>1, PlacedOK
    <3>2. ASSUME NEW k \in DOMAIN day.allocations, marks = Removed(k)
          PROVE  MarksOK(marks, day.slices) /\ DOMAIN marks \subseteq DOMAIN day.allocations
      BY <3>2, RemovedOK
    <3> QED
      BY <2>1, <3>1, <3>2 DEF DayInv, UnseenOK
  <2>3. DayInv(e)
    BY <2>1, <2>2, MarkedOK
  <2> QED
    BY <1>1, <2>3
<1> QED
  BY <1>2, <1>3, <1>4, <1>5, <1>6, DaySteps

LEMMA DayAlways == Spec => []DayInv(day)
BY DayBegins, DayGoesOn, PTL DEF Spec

-----------------------------------------------------------------------------
(* The theorems on the day.                                                   *)

(* Slices, total and dimensions are those of one answer, which adds up, and   *)
(* evidence is claimed only of what was read with it: for any answers, dumps  *)
(* and order of them (reconcileDay, importDumps).                             *)
THEOREM OneAnswerOnly == Spec => []DayIsOneAnswer
<1>1. DayInv(day) => DayIsOneAnswer
  <2> SUFFICES ASSUME DayInv(day) PROVE DayIsOneAnswer
    OBVIOUS
  <2>1. OneSnapshot
    <3>1. PICK a : a = day.summaries.accepted
      OBVIOUS
    <3>2. a # None => /\ IsConsistent(a) /\ day.slices = a.slices
                      /\ day.total = a.total /\ day.dims = a.dims
      BY <3>1 DEF DayInv, SnapshotOK
    <3> QED
      BY <3>1, <3>2 DEF OneSnapshot, IsConsistent
  <2>2. EvidenceAgrees
    BY DEF DayInv, EvidenceOK, Backed, EvidenceAgrees
  <2> QED
    BY <2>1, <2>2 DEF DayIsOneAnswer
<1> QED
  BY <1>1, DayAlways, PTL

(* A mark counts exactly while its slice is there, and for its seconds,       *)
(* whatever replaced the day since (the marks follow within the transaction   *)
(* of reconcileDay; an import meets no marks).                                *)
THEOREM MarksFollow == Spec => []AllocationsFollow
<1>1. DayInv(day) => AllocationsFollow
  BY DEF DayInv, MarksOK, Follows, AllocationsFollow
<1> QED
  BY <1>1, DayAlways, PTL

(* Names.  A slice that is an entity's, and the mark of one, has a project.   *)
IsNamedKey(k) == k.kind = "entity" => k.project # Unattributed
NamedDay(d) ==
  /\ \A k \in DOMAIN d.slices : IsNamedKey(k)
  /\ \A k \in DOMAIN d.allocations : IsNamedKey(k)

LEMMA DumpSlicesNamed ==
  ASSUME NEW dump, \A i \in 1..Len(dump.entities) : dump.entities[i].project # Unattributed
  PROVE  \A k \in DOMAIN DumpSlices(dump) : IsNamedKey(k)
<1>1. PICK K : K = {Key(e.project, e.name, "entity") : e \in ElementsOf(dump.entities)}
  OBVIOUS
<1>2. ASSUME NEW k \in K
      PROVE  IsNamedKey(k)
  <2>1. PICK i \in 1..Len(dump.entities) :
          k = Key(dump.entities[i].project, dump.entities[i].name, "entity")
    BY <1>1, <1>2 DEF ElementsOf
  <2>2. k.project = dump.entities[i].project
    BY <2>1, NewKey
  <2> QED
    BY <2>1, <2>2 DEF IsNamedKey
<1>3. IsNamedKey(Residual)
  BY NewKey DEF Residual, IsNamedKey
<1>4. DOMAIN DumpSlices(dump) \subseteq K \cup {Residual}
  <2>1. PICK owned : owned = [k \in K |-> EntitySecs(dump, k)]
    OBVIOUS
  <2>2. PICK left : left = dump.total - TotalOf(dump.entities, SecsOf)
    OBVIOUS
  <2>3. PICK rest : rest = [k \in {Residual} |-> IF left > 0 THEN left ELSE 0]
    OBVIOUS
  <2>4. DumpSlices(dump) = Joined(owned, rest) \/ DumpSlices(dump) = owned
    BY <1>1, <2>1, <2>2, <2>3 DEF DumpSlices
  <2>5. DOMAIN owned = K /\ DOMAIN rest = {Residual}
    BY <2>1, <2>3
  <2>6. DOMAIN Joined(owned, rest) = K \cup {Residual}
    BY <2>5 DEF Joined
  <2> QED
    BY <2>4, <2>5, <2>6
<1> QED
  BY <1>2, <1>3, <1>4

(* An answer leaves the day's rows alone, or replaces them.                   *)
LEMMA RowsStayOrGo ==
  ASSUME NEW d, DayInv(d), NEW sum, IsSummary(sum), NEW hb,
         hb.kind = "complete" => hb.value # None, NEW e, e = Reconciled(d, sum, hb)
  PROVE  \/ e.slices = d.slices /\ e.allocations = d.allocations
         \/ /\ ~Downgrades(d, sum)
            /\ e.slices = sum.slices /\ e.summaries.accepted = sum
            /\ DOMAIN e.allocations = DOMAIN d.allocations
<1>1. CASE e = d
  BY <1>1
<1>2. CASE e = Confirmed(d, sum, hb)
  <2>1. SameRows(d, e)
    BY <1>2, DayConfirmed DEF DayInv
  <2> QED
    BY <2>1 DEF SameRows
<1>3. CASE e = Preserved(d)
  <2>1. SameRows(d, e)
    BY <1>3, DayPreserved DEF DayInv
  <2> QED
    BY <2>1 DEF SameRows
<1>4. CASE ~Downgrades(d, sum) /\ e = Replaced(d, sum, hb)
  <2>1. /\ e.summaries.accepted = sum /\ e.slices = sum.slices
        /\ e.allocations = Followed(d.allocations, sum.slices)
    BY <1>4, DayReplaced DEF DayInv
  <2>2. DOMAIN e.allocations = DOMAIN d.allocations
    BY <2>1 DEF Followed
  <2> QED
    BY <1>4, <2>1, <2>2
<1> QED
  BY <1>1, <1>2, <1>3, <1>4 DEF Reconciled

LEMMA RowsOfNoted ==
  ASSUME NEW d, DayInv(d), NEW attempt
  PROVE  /\ Noted(d, attempt).slices = d.slices
         /\ Noted(d, attempt).allocations = d.allocations
BY DayNoted DEF DayInv, SameRows

LEMMA RowsOfImported ==
  ASSUME NEW d, DayInv(d), ~Seen(d), NEW dump
  PROVE  /\ DOMAIN d.slices = {} /\ DOMAIN d.allocations = {}
         /\ Imported(d, dump).slices = DumpSlices(dump)
         /\ Imported(d, dump).allocations = d.allocations
BY DayImported DEF DayInv, Seen, UnseenOK

LEMMA RowsOfMarked ==
  ASSUME NEW d, DayInv(d), NEW marks
  PROVE  /\ [d EXCEPT !.allocations = marks].slices = d.slices
         /\ [d EXCEPT !.allocations = marks].allocations = marks
BY DEF DayInv, IsWell, IsDay

LEMMA NamesStay ==
  ASSUME ReservedName, DayInv(day), NamedDay(day), [Next]_vars
  PROVE  NamedDay(day)'
<1>1. PICK e : e = day'
  OBVIOUS
<1>2. CASE RulesOnly
  BY <1>1, <1>2 DEF RulesOnly
<1>3. CASE SyncStep
  <2>1. PICK sum \in Summaries, hb \in Heartbeats :
          sum.kind = "complete" /\ e = Reconciled(Noted(day, Attempt(sum, hb)), sum.value, hb)
    BY <1>1, <1>3 DEF SyncStep
  <2>2. PICK n : n = Noted(day, Attempt(sum, hb))
    OBVIOUS
  <2>3. DayInv(n) /\ n.slices = day.slices /\ n.allocations = day.allocations
    BY <2>2, NotedOK, RowsOfNoted
  <2>4. /\ IsSummary(sum.value) /\ (hb.kind = "complete" => hb.value # None)
        /\ \A k \in DOMAIN sum.value.slices : IsNamedKey(k)
    BY <2>1, SyncSummary DEF ReservedName, IsNamedKey
  <2>5. \/ e.slices = n.slices /\ e.allocations = n.allocations
        \/ e.slices = sum.value.slices /\ DOMAIN e.allocations = DOMAIN n.allocations
    BY <2>1, <2>2, <2>3, <2>4, RowsStayOrGo
  <2>6. NamedDay(e)
    BY <2>3, <2>4, <2>5 DEF NamedDay
  <2> QED
    BY <1>1, <2>6
<1>4. CASE MissStep
  <2>1. PICK attempt : e = Noted(day, attempt)
    BY <1>1, <1>4 DEF MissStep
  <2>2. NamedDay(e)
    BY <2>1, RowsOfNoted DEF NamedDay
  <2> QED
    BY <1>1, <2>2
<1>5. CASE ImportStep
  <2>1. PICK dump \in Dumps : ~Seen(day) /\ e = Imported(day, dump)
    BY <1>1, <1>5 DEF ImportStep
  <2>2. \A k \in DOMAIN DumpSlices(dump) : IsNamedKey(k)
    BY DumpSlicesNamed DEF ReservedName
  <2>3. NamedDay(e)
    BY <2>1, <2>2, RowsOfImported DEF NamedDay
  <2> QED
    BY <1>1, <2>3
<1>6. CASE MarkStep
  <2>1. PICK marks : /\ e = [day EXCEPT !.allocations = marks]
                     /\ \/ \E k \in DOMAIN day.slices, class \in Classes : marks = Placed(k, class)
                        \/ \E k \in DOMAIN day.allocations : marks = Removed(k)
    BY <1>1, <1>6 DEF MarkStep
  <2>2. \A m \in DOMAIN marks : IsNamedKey(m)
    <3>1. ASSUME NEW k \in DOMAIN day.slices, NEW class, marks = Placed(k, class)
          PROVE  DOMAIN marks \subseteq {k} \cup DOMAIN day.allocations
      BY <3>1 DEF Placed, Joined
    <3>2. ASSUME NEW k, marks = Removed(k)
          PROVE  DOMAIN marks \subseteq DOMAIN day.allocations
      BY <3>2 DEF Removed
    <3> QED
      BY <2>1, <3>1, <3>2 DEF NamedDay
  <2>3. NamedDay(e)
    BY <2>1, <2>2, RowsOfMarked DEF NamedDay
  <2> QED
    BY <1>1, <2>3
<1> QED
  BY <1>2, <1>3, <1>4, <1>5, <1>6, DaySteps

LEMMA NamesBegin == Init => NamedDay(day)
<1>1. DOMAIN EmptyDay.slices = {} /\ DOMAIN EmptyDay.allocations = {}
  BY DEF EmptyDay
<1> QED
  BY <1>1 DEF Init, NamedDay

LEMMA NamesAlways == ReservedName => (Spec => []NamedDay(day))
<1> SUFFICES ASSUME ReservedName PROVE Spec => []NamedDay(day)
  OBVIOUS
<1>1. DayInv(day) /\ NamedDay(day) /\ [Next]_vars => NamedDay(day)'
  BY NamesStay
<1> QED
  BY <1>1, NamesBegin, DayAlways, PTL DEF Spec

(* Detail.                                                                    *)
DetailKept(d, e) ==
  \A p \in DetailedIn(d.slices) \ DetailedIn(e.slices) :
    LET a == e.summaries.accepted
    IN  /\ a # None
        /\ a.zero \/ (p \in DOMAIN a.scopes /\ \A k \in DOMAIN a.slices : k.project # p)

LEMMA DetailOfSame ==
  ASSUME NEW d, NEW e, e.slices = d.slices
  PROVE  DetailKept(d, e)
BY DEF DetailKept

LEMMA DetailOfReplaced ==
  ASSUME NEW d, NEW e, NEW sum, NamedDay(d), IsSummary(sum), ~Downgrades(d, sum),
         e.slices = sum.slices, e.summaries.accepted = sum
  PROVE  DetailKept(d, e)
<1> SUFFICES ASSUME NEW p \in DetailedIn(d.slices), p \notin DetailedIn(sum.slices), ~sum.zero
             PROVE  p \in DOMAIN sum.scopes /\ \A k \in DOMAIN sum.slices : k.project # p
  BY DEF DetailKept, IsSummary
<1>1. /\ p \in DOMAIN sum.scopes
      /\ ~\E k \in DOMAIN sum.slices : k.project = p /\ k.kind = "project_summary"
  BY DEF Downgrades, LosesDetail
<1>2. p # Unattributed
  BY DEF DetailedIn, EntitiesIn, NamedDay, IsNamedKey
<1>3. ASSUME NEW k \in DOMAIN sum.slices, k.project = p
      PROVE  FALSE
  <2>1. k.kind # "entity"
    BY <1>3 DEF DetailedIn, EntitiesIn
  <2>2. IsKey(k)
    BY DEF IsSummary
  <2> QED
    BY <1>1, <1>2, <1>3, <2>1, <2>2 DEF IsKey
<1> QED
  BY <1>1, <1>3

LEMMA DetailStays ==
  ASSUME DayInv(day), NamedDay(day), [Next]_vars
  PROVE  DetailKept(day, day')
<1>1. PICK d, e : d = day /\ e = day'
  OBVIOUS
<1>2. DayInv(d) /\ NamedDay(d)
  BY <1>1
<1>3. CASE RulesOnly
  BY <1>3, DetailOfSame DEF RulesOnly
<1>4. CASE SyncStep
  <2>1. PICK sum \in Summaries, hb \in Heartbeats :
          sum.kind = "complete" /\ e = Reconciled(Noted(d, Attempt(sum, hb)), sum.value, hb)
    BY <1>1, <1>4 DEF SyncStep
  <2>2. PICK n : n = Noted(d, Attempt(sum, hb))
    OBVIOUS
  <2>3. DayInv(n) /\ n.slices = d.slices /\ n.allocations = d.allocations
    BY <1>2, <2>2, NotedOK, RowsOfNoted
  <2>4. IsSummary(sum.value) /\ (hb.kind = "complete" => hb.value # None)
    BY <2>1, SyncSummary
  <2>5. \/ e.slices = n.slices
        \/ /\ ~Downgrades(n, sum.value)
           /\ e.slices = sum.value.slices /\ e.summaries.accepted = sum.value
    BY <2>1, <2>2, <2>3, <2>4, RowsStayOrGo
  <2>6. NamedDay(n)
    BY <1>2, <2>3 DEF NamedDay
  <2>7. DetailKept(n, e)
    BY <2>4, <2>5, <2>6, DetailOfSame, DetailOfReplaced
  <2>8. DetailKept(d, e)
    BY <2>3, <2>7 DEF DetailKept
  <2> QED
    BY <1>1, <2>8
<1>5. CASE MissStep
  <2>1. PICK attempt : e = Noted(d, attempt)
    BY <1>1, <1>5 DEF MissStep
  <2> QED
    BY <1>1, <1>2, <2>1, RowsOfNoted, DetailOfSame
<1>6. CASE ImportStep
  <2>1. PICK dump : ~Seen(d) /\ e = Imported(d, dump)
    BY <1>1, <1>6 DEF ImportStep
  <2>2. DetailedIn(d.slices) = {}
    BY <1>2, <2>1, RowsOfImported DEF DetailedIn, EntitiesIn
  <2> QED
    BY <1>1, <2>2 DEF DetailKept
<1>7. CASE MarkStep
  <2>1. PICK marks : e = [d EXCEPT !.allocations = marks]
    BY <1>1, <1>7 DEF MarkStep
  <2>2. e.slices = d.slices
    BY <1>2, <2>1, RowsOfMarked
  <2> QED
    BY <1>1, <2>2, DetailOfSame
<1> QED
  BY <1>3, <1>4, <1>5, <1>6, <1>7, DaySteps

(* The entities of a project are lost only to an answer that says the day, or *)
(* the project, had no seconds: not to one with less detail, whatever was     *)
(* stored and in whatever order it came (the downgrade rules of reconcileDay).*)
THEOREM DetailIsKept == ReservedName => (Spec => DetailSurvives)
<1> SUFFICES ASSUME ReservedName PROVE Spec => DetailSurvives
  OBVIOUS
<1>1. DayInv(day) /\ NamedDay(day) /\ [Next]_vars =>
        [\A p \in DetailedIn(day.slices) \ DetailedIn(day'.slices) :
           LET a == day'.summaries.accepted
           IN  /\ a # None
               /\ a.zero \/ (p \in DOMAIN a.scopes /\ \A k \in DOMAIN a.slices : k.project # p)]_day
  BY DetailStays DEF DetailKept
<1> QED
  BY <1>1, NamesAlways, DayAlways, PTL DEF Spec, DetailSurvives

-----------------------------------------------------------------------------
(* Rules.  Of finitely many rules some are outranked by none, and of those    *)
(* one is the oldest: a decision is always one of three classes.              *)

LEMMA MaxExists ==
  ASSUME NEW S, IsFiniteSet(S), S # {}, NEW f, \A x \in S : f[x] \in Int
  PROVE  \E x \in S : \A y \in S : f[y] <= f[x]
<1> DEFINE D == {s \in SUBSET S : s # {} => \E x \in s : \A y \in s : f[y] <= f[x]}
<1>1. ASSUME NEW s \in SUBSET S,
             \A t \in SUBSET S : Cardinality(t) < Cardinality(s) => t \in D
      PROVE  s \in D
  <2>1. CASE s = {}
    BY <2>1
  <2>2. CASE s # {}
    <3>1. IsFiniteSet(s)
      BY FS_Subset
    <3>2. PICK p, t : p = Pick(s) /\ t = s \ {p}
      OBVIOUS
    <3>3. p \in s /\ t \in SUBSET S /\ Cardinality(t) < Cardinality(s)
      BY <2>2, <3>1, <3>2, PickOne
    <3>4. t \in D
      BY <1>1, <3>3
    <3>5. CASE t = {}
      <4>1. \A y \in s : y = p
        BY <3>2, <3>5
      <4>2. f[p] <= f[p]
        BY <3>3
      <4> QED
        BY <3>3, <4>1, <4>2
    <3>6. CASE t # {}
      <4>1. PICK x \in t : \A y \in t : f[y] <= f[x]
        BY <3>4, <3>6
      <4>2. \A y \in s : y = p \/ y \in t
        BY <3>2
      <4>3. x \in s /\ f[x] \in Int /\ f[p] \in Int /\ \A y \in s : f[y] \in Int
        BY <3>2, <3>3
      <4>4. CASE f[p] <= f[x]
        BY <4>1, <4>2, <4>3, <4>4
      <4>5. CASE f[x] <= f[p]
        <5>1. \A y \in s : f[y] <= f[p]
          BY <4>1, <4>2, <4>3, <4>5
        <5> QED
          BY <3>3, <5>1
      <4> QED
        BY <4>3, <4>4, <4>5
    <3> QED
      BY <3>5, <3>6
  <2> QED
    BY <2>1, <2>2
<1> HIDE DEF D
<1>2. SUBSET S \subseteq D
  BY <1>1, SetInduction
<1> QED
  BY <1>2 DEF D

LEMMA MinExists ==
  ASSUME NEW S, IsFiniteSet(S), S # {}, NEW f, \A x \in S : f[x] \in Int
  PROVE  \E x \in S : \A y \in S : f[x] <= f[y]
<1>1. PICK g : g = [x \in S |-> -f[x]]
  OBVIOUS
<1>2. \A x \in S : g[x] = -f[x] /\ g[x] \in Int
  BY <1>1
<1>3. PICK x \in S : \A y \in S : g[y] <= g[x]
  BY <1>2, MaxExists
<1>4. \A y \in S : f[x] <= f[y]
  BY <1>2, <1>3
<1> QED
  BY <1>4

(* The members of a set that have the most of something.                      *)
Most(S, f) == {x \in S : \A y \in S : f[y] <= f[x]}

LEMMA MostExist ==
  ASSUME NEW S, IsFiniteSet(S), S # {}, NEW f, \A x \in S : f[x] \in Int
  PROVE  Most(S, f) # {} /\ Most(S, f) \subseteq S /\ IsFiniteSet(Most(S, f))
<1>1. Most(S, f) \subseteq S /\ Most(S, f) # {}
  BY MaxExists DEF Most
<1> QED
  BY <1>1, FS_Subset

LEMMA SpecificityIsInt == \A s \in DOMAIN Specificity : Specificity[s] \in Int
BY DEF Specificity

LEMMA PrecedenceIs ==
  ASSUME NEW rule, IsRule(rule)
  PROVE  /\ Precedence(rule)[1] = rule.priority
         /\ Precedence(rule)[2] = Specificity[rule.selector]
         /\ Precedence(rule)[3] = IF rule.exact THEN 1 ELSE 0
         /\ Precedence(rule)[4] = rule.weight
         /\ \A i \in 1..4 : Precedence(rule)[i] \in Int
<1>1. Specificity[rule.selector] \in Int /\ rule.priority \in Int /\ rule.weight \in Int
  BY SpecificityIsInt DEF IsRule
<1>2. (IF rule.exact THEN 1 ELSE 0) \in Int
  OBVIOUS
<1>3. PICK a, b, c, d : /\ a = rule.priority /\ b = Specificity[rule.selector]
                        /\ c = (IF rule.exact THEN 1 ELSE 0) /\ d = rule.weight
  OBVIOUS
<1>4. Precedence(rule) = <<a, b, c, d>>
  BY <1>3 DEF Precedence
<1>5. <<a, b, c, d>>[1] = a /\ <<a, b, c, d>>[2] = b /\ <<a, b, c, d>>[3] = c /\ <<a, b, c, d>>[4] = d
  OBVIOUS
<1>6. \A i \in 1..4 : i = 1 \/ i = 2 \/ i = 3 \/ i = 4
  OBVIOUS
<1> QED
  BY <1>1, <1>2, <1>3, <1>4, <1>5, <1>6

IsRanking(rs) == \A id \in DOMAIN rs : rs[id] # None => IsRule(rs[id])

LEMMA BestExists ==
  ASSUME NEW M, IsFiniteSet(M), M # {}, NEW rs, \A id \in M : IsRule(rs[id])
  PROVE  \E id \in M : \A other \in M : ~Outranks(rs[other], rs[id])
<1>1. PICK f, g, h, w : /\ f = [id \in M |-> Precedence(rs[id])[1]]
                        /\ g = [id \in M |-> Precedence(rs[id])[2]]
                        /\ h = [id \in M |-> Precedence(rs[id])[3]]
                        /\ w = [id \in M |-> Precedence(rs[id])[4]]
  OBVIOUS
<1>2. \A id \in M : f[id] \in Int /\ g[id] \in Int /\ h[id] \in Int /\ w[id] \in Int
  BY <1>1, PrecedenceIs
<1>3. PICK A, B, C, D : A = Most(M, f) /\ B = Most(A, g) /\ C = Most(B, h) /\ D = Most(C, w)
  OBVIOUS
<1>4. A # {} /\ A \subseteq M /\ IsFiniteSet(A)
  BY <1>2, <1>3, MostExist
<1>5. B # {} /\ B \subseteq A /\ IsFiniteSet(B)
  BY <1>2, <1>3, <1>4, MostExist
<1>6. C # {} /\ C \subseteq B /\ IsFiniteSet(C)
  BY <1>2, <1>3, <1>4, <1>5, MostExist
<1>7. D # {} /\ D \subseteq C
  BY <1>2, <1>3, <1>4, <1>5, <1>6, MostExist
<1>8. PICK id \in D : TRUE
  BY <1>7
<1>9. id \in M /\ id \in A /\ id \in B /\ id \in C
  BY <1>4, <1>5, <1>6, <1>7
<1>10. /\ \A o \in M : f[o] <= f[id]
       /\ \A o \in A : g[o] <= g[id]
       /\ \A o \in B : h[o] <= h[id]
       /\ \A o \in C : w[o] <= w[id]
  BY <1>3, <1>8, <1>9 DEF Most
<1>11. ASSUME NEW o \in M, Outranks(rs[o], rs[id])
       PROVE  FALSE
  <2>1. PICK i \in 1..4 : /\ Precedence(rs[o])[i] > Precedence(rs[id])[i]
                          /\ \A j \in 1..(i - 1) : Precedence(rs[o])[j] = Precedence(rs[id])[j]
    BY <1>11 DEF Outranks
  <2>2. /\ Precedence(rs[o])[1] = f[o] /\ Precedence(rs[o])[2] = g[o]
        /\ Precedence(rs[o])[3] = h[o] /\ Precedence(rs[o])[4] = w[o]
    BY <1>1
  <2>3. /\ Precedence(rs[id])[1] = f[id] /\ Precedence(rs[id])[2] = g[id]
        /\ Precedence(rs[id])[3] = h[id] /\ Precedence(rs[id])[4] = w[id]
    BY <1>1, <1>9
  <2>4. i = 1 \/ i = 2 \/ i = 3 \/ i = 4
    OBVIOUS
  <2>5. CASE i = 1
    BY <1>2, <1>9, <1>10, <2>1, <2>2, <2>3, <2>5
  <2>6. ASSUME i >= 2
        PROVE  f[o] = f[id] /\ o \in A
    <3>1. f[o] = f[id]
      BY <2>1, <2>2, <2>3, <2>6
    <3> QED
      BY <1>3, <1>10, <3>1 DEF Most
  <2>7. CASE i = 2
    BY <1>2, <1>9, <1>10, <2>1, <2>2, <2>3, <2>6, <2>7
  <2>8. ASSUME i >= 3
        PROVE  g[o] = g[id] /\ o \in B
    <3>1. g[o] = g[id] /\ o \in A
      BY <2>1, <2>2, <2>3, <2>6, <2>8
    <3> QED
      BY <1>3, <1>10, <3>1 DEF Most
  <2>9. CASE i = 3
    BY <1>2, <1>9, <1>10, <2>1, <2>2, <2>3, <2>8, <2>9
  <2>10. CASE i = 4
    <3>1. h[o] = h[id] /\ o \in B
      BY <2>1, <2>2, <2>3, <2>8, <2>10
    <3>2. o \in C
      BY <1>3, <1>10, <3>1 DEF Most
    <3> QED
      BY <1>2, <1>9, <1>10, <2>1, <2>2, <2>3, <2>10, <3>2
  <2> QED
    BY <2>4, <2>5, <2>7, <2>9, <2>10
<1> QED
  BY <1>9, <1>11

(* What a rule is but for its place.                                          *)
Matched(rs, key, whos) == {id \in Enabled(rs) : RuleMatches(rs[id], key, whos)}
Highest(rs, M) == {id \in M : \A other \in M : ~Outranks(rs[other], rs[id])}
Oldest(rs, H) == CHOOSE id \in H : \A other \in H : rs[id].created <= rs[other].created

LEMMA ByRuleIs ==
  ASSUME NEW rs, NEW key, NEW whos, NEW M, M = Matched(rs, key, whos), NEW H, H = Highest(rs, M)
  PROVE  ByRule(rs, key, whos) =
           IF M = {} THEN Undecided
           ELSE IF Cardinality({rs[id].class : id \in H}) > 1
                THEN Decision("unclassified", "ambiguous", None)
           ELSE Decision(rs[Oldest(rs, H)].class, "rule", Oldest(rs, H))
<1>1. ByRule(rs, key, whos) =
        IF Matched(rs, key, whos) = {} THEN Undecided
        ELSE IF Cardinality({rs[id].class : id \in Highest(rs, Matched(rs, key, whos))}) > 1
             THEN Decision("unclassified", "ambiguous", None)
        ELSE Decision(rs[Oldest(rs, Highest(rs, Matched(rs, key, whos)))].class, "rule",
                      Oldest(rs, Highest(rs, Matched(rs, key, whos))))
  BY Zenon DEF ByRule, Matched, Highest, Oldest
<1>2. Highest(rs, Matched(rs, key, whos)) = H
  OBVIOUS
<1> QED
  BY <1>1, <1>2, Zenon

LEMMA NewDecision ==
  ASSUME NEW class, NEW source, NEW winner
  PROVE  LET d == Decision(class, source, winner)
         IN  d.class = class /\ d.source = source /\ d.winner = winner
BY DEF Decision

IsPlaced(rs) ==
  /\ IsFiniteSet(DOMAIN rs) /\ IsRanking(rs)
  /\ \A id \in DOMAIN rs : rs[id] # None => rs[id].created \in Int

LEMMA OldestIsOne ==
  ASSUME NEW rs, IsPlaced(rs), NEW key, NEW whos, NEW M, M = Matched(rs, key, whos), M # {},
         NEW H, H = Highest(rs, M)
  PROVE  /\ Oldest(rs, H) \in H /\ H \subseteq M /\ M \subseteq DOMAIN rs
         /\ rs[Oldest(rs, H)].class \in {"work", "personal"}
<1>1. M \subseteq DOMAIN rs /\ \A id \in M : rs[id] # None
  BY DEF Matched, Enabled
<1>2. IsFiniteSet(M) /\ \A id \in M : IsRule(rs[id])
  BY <1>1, FS_Subset DEF IsPlaced, IsRanking
<1>3. H # {} /\ H \subseteq M
  BY <1>2, BestExists DEF Highest
<1>4. IsFiniteSet(H)
  BY <1>2, <1>3, FS_Subset
<1>5. PICK f : f = [id \in H |-> rs[id].created]
  OBVIOUS
<1>6. \A id \in H : f[id] \in Int
  BY <1>1, <1>3, <1>5 DEF IsPlaced
<1>7. \E id \in H : \A other \in H : f[id] <= f[other]
  BY <1>3, <1>4, <1>6, MinExists
<1>8. \E id \in H : \A other \in H : rs[id].created <= rs[other].created
  BY <1>5, <1>7
<1>9. Oldest(rs, H) \in H
  BY <1>8 DEF Oldest
<1> QED
  BY <1>1, <1>2, <1>3, <1>9 DEF IsRule

LEMMA ByRuleClass ==
  ASSUME NEW rs, IsPlaced(rs), NEW key, NEW whos
  PROVE  /\ ByRule(rs, key, whos).class \in WorkClasses
         /\ key.kind # "entity" => ByRule(rs, key, whos) = Undecided
<1>1. PICK M, H : M = Matched(rs, key, whos) /\ H = Highest(rs, M)
  OBVIOUS
<1>2. Undecided.class = "unclassified"
  BY NewDecision DEF Undecided
<1>3. CASE M = {}
  BY <1>1, <1>2, <1>3, ByRuleIs DEF WorkClasses
<1>4. CASE M # {}
  <2>1. rs[Oldest(rs, H)].class \in {"work", "personal"}
    BY <1>1, <1>4, OldestIsOne
  <2>2. key.kind = "entity"
    BY <1>1, <1>4 DEF Matched, RuleMatches
  <2>3. \/ ByRule(rs, key, whos) = Decision("unclassified", "ambiguous", None)
        \/ ByRule(rs, key, whos) = Decision(rs[Oldest(rs, H)].class, "rule", Oldest(rs, H))
    BY <1>1, <1>4, ByRuleIs
  <2>4. ByRule(rs, key, whos).class \in {"unclassified", rs[Oldest(rs, H)].class}
    BY <2>3, NewDecision
  <2> QED
    BY <2>1, <2>2, <2>4 DEF WorkClasses
<1> QED
  BY <1>3, <1>4

(* The rules in place, and what the operator was shown.                       *)
RulesOK(rs, rev) ==
  /\ rev \in 0..MaxRevision
  /\ DOMAIN rs = RuleIds
  /\ \A id \in RuleIds : rs[id] # None => IsRule(rs[id]) /\ rs[id].created \in 0..rev

IsChange(op) ==
  \E id \in RuleIds :
    \/ op = Deleted(id)
    \/ \E rule \in Rules : op = Created(id, rule) \/ op = Updated(id, rule)

PreviewOK(p) ==
  p # None =>
    /\ IsChange(p.op)
    /\ \E rev, rs, marks, tel :
         /\ p.seen = <<rev, rs, marks, tel>>
         /\ Possible(rs, p.op)
         /\ p.effect = Changes(rs, Applied(rs, p.op, rev), tel, marks)

RulesInv == RulesOK(rules, revision) /\ PreviewOK(preview)

SameButPlace(rule, other) ==
  /\ rule.class = other.class /\ rule.selector = other.selector /\ rule.names = other.names
  /\ rule.exact = other.exact /\ rule.weight = other.weight /\ rule.priority = other.priority
  /\ rule.enabled = other.enabled

LEMMA Restamped ==
  ASSUME NEW rule, IsRule(rule), NEW n \in 0..(MaxRevision + 1)
  PROVE  LET stamped == [rule EXCEPT !.created = n]
         IN  IsRule(stamped) /\ stamped.created = n /\ stamped # None /\ SameButPlace(stamped, rule)
<1>1. PICK s : s = [rule EXCEPT !.created = n]
  OBVIOUS
<1>2. rule = [class |-> rule.class, selector |-> rule.selector, names |-> rule.names,
              exact |-> rule.exact, weight |-> rule.weight, priority |-> rule.priority,
              enabled |-> rule.enabled, created |-> rule.created]
  BY DEF IsRule
<1>3. s = [class |-> rule.class, selector |-> rule.selector, names |-> rule.names,
           exact |-> rule.exact, weight |-> rule.weight, priority |-> rule.priority,
           enabled |-> rule.enabled, created |-> n]
  BY <1>1, <1>2
<1>4. s.created = n /\ SameButPlace(s, rule)
  BY <1>3 DEF SameButPlace
<1>5. s = [class |-> s.class, selector |-> s.selector, names |-> s.names,
           exact |-> s.exact, weight |-> s.weight, priority |-> s.priority,
           enabled |-> s.enabled, created |-> s.created]
  BY <1>3
<1>6. ASSUME NEW k \in 0..(MaxRevision + 1)
      PROVE  [s EXCEPT !.created = k] # None
  <2>1. [s EXCEPT !.created = k] = [rule EXCEPT !.created = k]
    BY <1>1
  <2> QED
    BY <2>1 DEF IsRule
<1>7. s # None
  BY <1>1 DEF IsRule
<1> QED
  BY <1>1, <1>4, <1>5, <1>6, <1>7 DEF IsRule, SameButPlace

LEMMA NewChange ==
  ASSUME NEW id, NEW rule
  PROVE  /\ Created(id, rule).kind = "create" /\ Created(id, rule).id = id
         /\ Created(id, rule).rule = rule
         /\ Updated(id, rule).kind = "update" /\ Updated(id, rule).id = id
         /\ Updated(id, rule).rule = rule
         /\ Deleted(id).kind = "delete" /\ Deleted(id).id = id
BY DEF Created, Updated, Deleted

LEMMA OneRuleMoves ==
  ASSUME NEW rs, NEW rev, RulesOK(rs, rev), rev < MaxRevision, NEW id \in RuleIds, NEW rule,
         rule # None => IsRule(rule) /\ rule.created \in 0..(rev + 1),
         NEW qs, qs = [rs EXCEPT ![id] = rule]
  PROVE  RulesOK(qs, rev + 1)
<1>2. /\ DOMAIN qs = RuleIds /\ qs[id] = rule
      /\ \A other \in RuleIds \ {id} : qs[other] = rs[other]
  BY DEF RulesOK
<1>3. MaxRevision \in Nat /\ rev \in 0..MaxRevision
  BY ArchiveAssumption DEF RulesOK
<1>4. rev + 1 \in 0..MaxRevision
  BY <1>3
<1>5. ASSUME NEW other \in RuleIds \ {id}, rs[other] # None
      PROVE  IsRule(rs[other]) /\ rs[other].created \in 0..(rev + 1)
  <2>1. IsRule(rs[other]) /\ rs[other].created \in 0..rev
    BY <1>5 DEF RulesOK
  <2> QED
    BY <1>3, <2>1
<1> QED
  BY <1>2, <1>4, <1>5 DEF RulesOK

LEMMA AppliedOK ==
  ASSUME NEW rs, NEW rev, RulesOK(rs, rev), rev < MaxRevision, NEW op, IsChange(op),
         Possible(rs, op)
  PROVE  RulesOK(Applied(rs, op, rev), rev + 1)
<1>1. PICK id \in RuleIds :
        \/ op = Deleted(id)
        \/ \E rule \in Rules : op = Created(id, rule) \/ op = Updated(id, rule)
  BY DEF IsChange
<1>2. MaxRevision \in Nat /\ rev \in 0..MaxRevision /\ rev + 1 \in 0..(MaxRevision + 1)
  <2>1. MaxRevision \in Nat /\ rev \in 0..MaxRevision
    BY ArchiveAssumption DEF RulesOK
  <2> QED
    BY <2>1
<1>6. PICK qs : qs = Applied(rs, op, rev)
  OBVIOUS
<1>3. CASE op = Deleted(id)
  <2>1. op.kind = "delete" /\ op.id = id
    BY <1>3, NewChange
  <2>2. PICK none : none = None
    OBVIOUS
  <2>3. qs = [rs EXCEPT ![id] = none]
    BY <1>6, <2>1, <2>2 DEF Applied, WithDeleted
  <2> QED
    BY <1>6, <2>2, <2>3, OneRuleMoves
<1>4. ASSUME NEW rule \in Rules, op = Created(id, rule)
      PROVE  RulesOK(Applied(rs, op, rev), rev + 1)
  <2>1. op.kind = "create" /\ op.id = id /\ op.rule = rule
    BY <1>4, NewChange
  <2>2. PICK s : s = [rule EXCEPT !.created = rev + 1]
    OBVIOUS
  <2>3. IsRule(s) /\ s.created = rev + 1
    BY <1>2, <2>2, ArchiveAssumption, Restamped
  <2>4. qs = [rs EXCEPT ![id] = s]
    BY <1>6, <2>1, <2>2 DEF Applied, WithCreated
  <2>5. s.created \in 0..(rev + 1)
    BY <1>2, <2>3
  <2> QED
    BY <1>6, <2>3, <2>4, <2>5, OneRuleMoves
<1>5. ASSUME NEW rule \in Rules, op = Updated(id, rule)
      PROVE  RulesOK(Applied(rs, op, rev), rev + 1)
  <2>1. op.kind = "update" /\ op.id = id /\ op.rule = rule
    BY <1>5, NewChange
  <2>2. PICK n : n = rs[id].created
    OBVIOUS
  <2>3. n \in 0..rev
    BY <2>1, <2>2 DEF Possible, RulesOK
  <2>4. n \in 0..(MaxRevision + 1) /\ n \in 0..(rev + 1)
    BY <1>2, <2>3
  <2>5. PICK s : s = [rule EXCEPT !.created = n]
    OBVIOUS
  <2>6. IsRule(s) /\ s.created = n
    BY <2>4, <2>5, ArchiveAssumption, Restamped
  <2>7. qs = [rs EXCEPT ![id] = s]
    BY <1>6, <2>1, <2>2, <2>5 DEF Applied, WithUpdated
  <2> QED
    BY <1>6, <2>4, <2>6, <2>7, OneRuleMoves
<1> QED
  BY <1>1, <1>3, <1>4, <1>5

LEMMA ConsolidatedOK ==
  ASSUME RulesOK(rules, revision), NEW m \in Manifests, ValidManifest(m),
         NEW rev, rev = revision + Cardinality(DOMAIN m.creates) + Cardinality(m.deletes),
         rev <= MaxRevision
  PROVE  RulesOK(Consolidated(m), rev)
<1>1. IsManifest(m) /\ IsFiniteSet(RuleIds)
  BY ArchiveAssumption
<1>2. PICK C, D, c, d : /\ C = DOMAIN m.creates /\ D = m.deletes
                        /\ c = Cardinality(C) /\ d = Cardinality(D)
  OBVIOUS
<1>3. IsFiniteSet(C) /\ IsFiniteSet(D)
  BY <1>1, <1>2, FS_Subset DEF IsManifest
<1>4. c \in Nat /\ d \in Nat /\ (C # {} => c # 0)
  BY <1>2, <1>3, FS_CardinalityType, FS_EmptySet
<1>5. MaxRevision \in Nat /\ revision \in 0..MaxRevision
  BY ArchiveAssumption DEF RulesOK
<1>6. rev = revision + c + d
  BY <1>2
<1>7. rev \in 0..MaxRevision /\ revision <= rev
  BY <1>4, <1>5, <1>6
<1>8. PICK qs : qs = Consolidated(m)
  OBVIOUS
<1>9. ASSUME NEW id \in RuleIds, qs[id] # None
      PROVE  IsRule(qs[id]) /\ qs[id].created \in 0..rev
  <2>1. CASE id \in D
    <3>1. id \in m.deletes /\ id \notin DOMAIN m.creates
      BY <1>2, <2>1 DEF ValidManifest
    <3>2. qs[id] = None
      BY <1>8, <3>1 DEF Consolidated
    <3> QED
      BY <1>9, <3>2
  <2>2. CASE id \in C /\ id \notin D
    <3>1. PICK rule, n : rule = m.creates[id] /\ n = revision + 1
      OBVIOUS
    <3>2. qs[id] = [rule EXCEPT !.created = n]
      BY <1>2, <1>8, <2>2, <3>1 DEF Consolidated
    <3>3. c # 0
      BY <1>4, <2>2
    <3>4. n \in 0..rev
      BY <1>4, <1>5, <1>6, <3>1, <3>3
    <3>5. n \in 0..(MaxRevision + 1)
      BY <1>5, <3>1
    <3>6. IsRule(rule)
      BY <1>1, <1>2, <2>2, <3>1 DEF IsManifest
    <3>7. IsRule([rule EXCEPT !.created = n]) /\ [rule EXCEPT !.created = n].created = n
      BY <3>5, <3>6, Restamped
    <3>8. IsRule(qs[id]) /\ qs[id].created = n
      BY <3>2, <3>7
    <3> QED
      BY <3>4, <3>8
  <2>3. CASE id \notin C /\ id \notin D
    <3>1. qs[id] = rules[id]
      BY <1>2, <1>8, <2>3 DEF Consolidated
    <3>2. IsRule(rules[id]) /\ rules[id].created \in 0..revision
      BY <1>9, <3>1 DEF RulesOK
    <3> QED
      BY <1>5, <1>7, <3>1, <3>2
  <2> QED
    BY <2>1, <2>2, <2>3
<1>10. DOMAIN qs = RuleIds
  BY <1>8 DEF Consolidated
<1> QED
  BY <1>7, <1>8, <1>9, <1>10 DEF RulesOK

(* Later revisions allow for the same rules.                                  *)
LEMMA RulesLater ==
  ASSUME NEW rs, NEW rev, RulesOK(rs, rev), NEW later, later \in Int, rev <= later,
         later <= MaxRevision
  PROVE  RulesOK(rs, later)
<1>1. MaxRevision \in Nat /\ rev \in 0..MaxRevision
  BY ArchiveAssumption DEF RulesOK
<1>2. later \in 0..MaxRevision /\ \A n \in 0..rev : n \in 0..later
  BY <1>1
<1> QED
  BY <1>2 DEF RulesOK

LEMMA MovedIsNat ==
  ASSUME NEW before, IsFiniteSet(DOMAIN before), NEW after
  PROVE  Moved(before, after) \in Nat
<1>1. PICK S : S = {k \in DOMAIN before : k \in DOMAIN after /\ before[k] # after[k]}
  OBVIOUS
<1>2. IsFiniteSet(S)
  BY <1>1, FS_Subset
<1> QED
  BY <1>1, <1>2, FS_CardinalityType DEF Moved

(* Every step leaves the rules alone, confirms a preview or consolidates.     *)
RulesRest == rules' = rules /\ \E n \in Nat : revision' = revision + n /\ (n # 0 => revision' <= MaxRevision)

LEMMA RulesSteps ==
  ASSUME DayInv(day), RulesOK(rules, revision), [Next]_vars
  PROVE  \/ RulesRest \/ ConfirmRuleChange
         \/ \E m \in Manifests : ConsolidateRules(m)
<1>0. revision \in Int
  BY DEF RulesOK
<1>1. ASSUME NEW sum \in Summaries, NEW hb \in Heartbeats, SyncDay(sum, hb)
      PROVE  RulesRest
  <2>1. IsFiniteSet(DOMAIN day.allocations)
    BY DEF DayInv, MarksOK
  <2>2. Moved(day.allocations, day'.allocations) \in Nat
    BY <2>1, MovedIsNat
  <2>3. /\ rules' = rules /\ revision' <= MaxRevision
        /\ revision' = revision + Moved(day.allocations, day'.allocations)
    BY <1>1 DEF SyncDay
  <2> QED
    BY <2>2, <2>3 DEF RulesRest
<1>2. ASSUME NEW attempt \in Attempts, MissDay(attempt)
      PROVE  rules' = rules /\ revision' = revision
  BY <1>2 DEF MissDay
<1>3. ASSUME NEW dump \in Dumps, ImportDay(dump)
      PROVE  rules' = rules /\ revision' = revision
  BY <1>3 DEF ImportDay
<1>4. ASSUME NEW op, PreviewRuleChange(op)
      PROVE  rules' = rules /\ revision' = revision
  BY <1>4 DEF PreviewRuleChange
<1>5. ASSUME RejectStalePreview \/ UNCHANGED vars
      PROVE  rules' = rules /\ revision' = revision
  BY <1>5 DEF RejectStalePreview, vars
<1>6. ASSUME rules' = rules /\ revision' = revision
      PROVE  RulesRest
  <2>1. revision' = revision + 0
    BY <1>0, <1>6
  <2> QED
    BY <1>6, <2>1 DEF RulesRest
<1>7. ASSUME NEW marks, NEW n \in Nat, WithAllocations(marks, n)
      PROVE  RulesRest
  BY <1>7 DEF WithAllocations, RulesRest
<1>8. ASSUME NEW k, NEW class, CreateAllocation(k, class) \/ ReplaceAllocation(k, class)
      PROVE  RulesRest
  <2>1. WithAllocations(Placed(k, class), 1) \/ WithAllocations(Placed(k, class), 2)
    BY <1>8 DEF CreateAllocation, ReplaceAllocation
  <2> QED
    BY <1>7, <2>1
<1>9. ASSUME NEW k, DeleteAllocation(k)
      PROVE  RulesRest
  BY <1>7, <1>9 DEF DeleteAllocation
<1> QED
  BY <1>1, <1>2, <1>3, <1>4, <1>5, <1>6, <1>8, <1>9 DEF Next

LEMMA PreviewsSteps ==
  ASSUME [Next]_vars
  PROVE  \/ preview' \in {preview, None}
         \/ \E op : IsChange(op) /\ PreviewRuleChange(op)
<1>1. ASSUME NEW sum \in Summaries, NEW hb \in Heartbeats, SyncDay(sum, hb)
      PROVE  preview' = preview
  BY <1>1 DEF SyncDay
<1>2. ASSUME NEW attempt \in Attempts, MissDay(attempt)
      PROVE  preview' = preview
  BY <1>2 DEF MissDay
<1>3. ASSUME NEW dump \in Dumps, ImportDay(dump)
      PROVE  preview' = preview
  BY <1>3 DEF ImportDay
<1>4. ASSUME NEW id \in RuleIds, NEW rule \in Rules,
             PreviewRuleChange(Created(id, rule)) \/ PreviewRuleChange(Updated(id, rule))
      PROVE  \E op : IsChange(op) /\ PreviewRuleChange(op)
  BY <1>4 DEF IsChange
<1>5. ASSUME NEW id \in RuleIds, PreviewRuleChange(Deleted(id))
      PROVE  \E op : IsChange(op) /\ PreviewRuleChange(op)
  BY <1>5 DEF IsChange
<1>6. ASSUME ConfirmRuleChange \/ RejectStalePreview
      PROVE  preview' = None
  BY <1>6 DEF ConfirmRuleChange, RejectStalePreview
<1>7. ASSUME UNCHANGED vars
      PROVE  preview' = preview
  BY <1>7 DEF vars
<1>8. ASSUME NEW m \in Manifests, ConsolidateRules(m)
      PROVE  preview' = preview
  BY <1>8 DEF ConsolidateRules
<1>9. ASSUME NEW k, NEW class, CreateAllocation(k, class) \/ ReplaceAllocation(k, class)
      PROVE  preview' = preview
  BY <1>9 DEF CreateAllocation, ReplaceAllocation, WithAllocations
<1>10. ASSUME NEW k, DeleteAllocation(k)
       PROVE  preview' = preview
  BY <1>10 DEF DeleteAllocation, WithAllocations
<1> QED
  BY <1>1, <1>2, <1>3, <1>4, <1>5, <1>6, <1>7, <1>8, <1>9, <1>10 DEF Next

(* What a confirmed preview was shown is what there is.                       *)
LEMMA ConfirmedFits ==
  ASSUME PreviewOK(preview), ConfirmRuleChange
  PROVE  /\ IsChange(preview.op) /\ Possible(rules, preview.op)
         /\ rules' = Applied(rules, preview.op, revision)
         /\ preview.effect = Changes(rules, rules', Telemetry(day), day.allocations)
<1>1. /\ preview # None /\ preview.seen = Digest
      /\ rules' = Applied(rules, preview.op, revision)
  BY DEF ConfirmRuleChange
<1>2. PICK rev, rs, marks, tel :
        /\ preview.seen = <<rev, rs, marks, tel>>
        /\ Possible(rs, preview.op)
        /\ preview.effect = Changes(rs, Applied(rs, preview.op, rev), tel, marks)
  BY <1>1 DEF PreviewOK
<1>3. <<rev, rs, marks, tel>> = <<revision, rules, day.allocations, Telemetry(day)>>
  BY <1>1, <1>2 DEF Digest, TelemetryDigest
<1>4. rev = revision /\ rs = rules /\ marks = day.allocations /\ tel = Telemetry(day)
  BY <1>3
<1> QED
  BY <1>1, <1>2, <1>4 DEF PreviewOK

LEMMA RulesGoOn == DayInv(day) /\ RulesInv /\ [Next]_vars => RulesInv'
<1> SUFFICES ASSUME DayInv(day), RulesInv, [Next]_vars PROVE RulesInv'
  OBVIOUS
<1>0. RulesOK(rules, revision) /\ PreviewOK(preview)
  BY DEF RulesInv
<1>1. RulesOK(rules', revision')
  <2>1. CASE RulesRest
    <3>1. PICK n \in Nat : revision' = revision + n /\ (n # 0 => revision' <= MaxRevision)
      BY <2>1 DEF RulesRest
    <3>2. revision \in 0..MaxRevision /\ MaxRevision \in Nat
      BY <1>0, ArchiveAssumption DEF RulesOK
    <3>3. revision' \in Int /\ revision <= revision' /\ revision' <= MaxRevision
      BY <3>1, <3>2
    <3>4. RulesOK(rules, revision')
      BY <1>0, <3>3, RulesLater
    <3> QED
      BY <2>1, <3>4 DEF RulesRest
  <2>2. CASE ConfirmRuleChange
    <3>1. IsChange(preview.op) /\ Possible(rules, preview.op)
      BY <1>0, <2>2, ConfirmedFits
    <3>2. revision < MaxRevision /\ revision' = revision + 1
          /\ rules' = Applied(rules, preview.op, revision)
      BY <2>2 DEF ConfirmRuleChange
    <3>3. RulesOK(Applied(rules, preview.op, revision), revision + 1)
      BY <1>0, <3>1, <3>2, AppliedOK
    <3> QED
      BY <3>2, <3>3
  <2>3. ASSUME NEW m \in Manifests, ConsolidateRules(m)
        PROVE  RulesOK(rules', revision')
    <3>1. /\ ValidManifest(m) /\ rules' = Consolidated(m) /\ revision' <= MaxRevision
          /\ revision' = revision + Cardinality(DOMAIN m.creates) + Cardinality(m.deletes)
      BY <2>3 DEF ConsolidateRules
    <3>2. RulesOK(Consolidated(m), revision')
      BY <1>0, <3>1, ConsolidatedOK
    <3> QED
      BY <3>1, <3>2
  <2> QED
    BY <1>0, <2>1, <2>2, <2>3, RulesSteps
<1>2. PreviewOK(preview')
  <2>1. CASE preview' \in {preview, None}
    BY <1>0, <2>1 DEF PreviewOK
  <2>2. ASSUME NEW op, IsChange(op), PreviewRuleChange(op)
        PROVE  PreviewOK(preview')
    <3>1. PICK p, e : /\ p = preview'
                      /\ e = Changes(rules, Applied(rules, op, revision), Telemetry(day), day.allocations)
      OBVIOUS
    <3>2. p = [op |-> op, seen |-> Digest, effect |-> e] /\ Possible(rules, op)
      BY <2>2, <3>1 DEF PreviewRuleChange
    <3>3. p.op = op /\ p.seen = Digest /\ p.effect = e
      BY <3>2
    <3>4. p.seen = <<revision, rules, day.allocations, Telemetry(day)>>
      BY <3>3 DEF Digest, TelemetryDigest
    <3>5. PreviewOK(p)
      BY <2>2, <3>1, <3>2, <3>3, <3>4 DEF PreviewOK
    <3> QED
      BY <3>1, <3>5
  <2> QED
    BY <2>1, <2>2, PreviewsSteps
<1> QED
  BY <1>1, <1>2 DEF RulesInv

LEMMA RulesBegin == Init => RulesInv
<1> SUFFICES ASSUME Init PROVE RulesInv
  OBVIOUS
<1>1. rules = [id \in RuleIds |-> None] /\ revision = 0 /\ preview = None
  BY DEF Init
<1>2. RulesOK(rules, revision)
  BY <1>1, ArchiveAssumption DEF RulesOK
<1> QED
  BY <1>1, <1>2 DEF RulesInv, PreviewOK

LEMMA RulesAlways == Spec => []RulesInv
BY RulesBegin, RulesGoOn, DayAlways, PTL DEF Spec

(* The place of a rule matters only for which of equals is the oldest.        *)
SameOrder(rs, qs) ==
  /\ DOMAIN rs = DOMAIN qs
  /\ \A id \in DOMAIN rs : rs[id] = None <=> qs[id] = None
  /\ \A id \in DOMAIN rs : rs[id] # None => SameButPlace(rs[id], qs[id])
  /\ \A id, other \in DOMAIN rs :
       rs[id] # None /\ rs[other] # None =>
         (rs[id].created <= rs[other].created <=> qs[id].created <= qs[other].created)

LEMMA PrecedenceOfSame ==
  ASSUME NEW rule, NEW other, SameButPlace(rule, other)
  PROVE  Precedence(rule) = Precedence(other)
BY DEF SameButPlace, Precedence

LEMMA MatchesOfSame ==
  ASSUME NEW rule, NEW other, SameButPlace(rule, other), NEW key, NEW whos
  PROVE  RuleMatches(rule, key, whos) <=> RuleMatches(other, key, whos)
<1>1. rule.selector = other.selector /\ rule.names = other.names
  BY DEF SameButPlace
<1>2. Selects(rule, key, whos) <=> Selects(other, key, whos)
  BY <1>1, Zenon DEF Selects
<1> QED
  BY <1>2, Zenon DEF RuleMatches

LEMMA ByRuleOfSame ==
  ASSUME NEW rs, NEW qs, IsPlaced(rs), SameOrder(rs, qs), NEW key, NEW whos
  PROVE  ByRule(rs, key, whos) = ByRule(qs, key, whos)
<1>1. PICK M, N : M = Matched(rs, key, whos) /\ N = Matched(qs, key, whos)
  OBVIOUS
<1>2. PICK H, I : H = Highest(rs, M) /\ I = Highest(qs, N)
  OBVIOUS
<1>3. M = N
  <2>1. ASSUME NEW id \in DOMAIN rs, rs[id] # None
        PROVE  /\ rs[id].enabled = qs[id].enabled
               /\ RuleMatches(rs[id], key, whos) <=> RuleMatches(qs[id], key, whos)
    BY <2>1, MatchesOfSame DEF SameOrder, SameButPlace
  <2>2. Enabled(rs) = Enabled(qs)
    BY <2>1 DEF Enabled, SameOrder
  <2>3. \A id \in Enabled(rs) : id \in DOMAIN rs /\ rs[id] # None
    BY DEF Enabled
  <2> QED
    BY <1>1, <2>1, <2>2, <2>3 DEF Matched
<1>4. \A id \in M : id \in DOMAIN rs /\ rs[id] # None
  BY <1>1 DEF Matched, Enabled
<1>5. \A id \in M : Precedence(rs[id]) = Precedence(qs[id]) /\ rs[id].class = qs[id].class
  BY <1>4, PrecedenceOfSame DEF SameOrder, SameButPlace
<1>6. \A id, o \in M : Outranks(rs[o], rs[id]) <=> Outranks(qs[o], qs[id])
  BY <1>5 DEF Outranks
<1>7. H = I
  BY <1>2, <1>3, <1>6 DEF Highest
<1>8. H \subseteq M
  BY <1>2 DEF Highest
<1>9. {rs[id].class : id \in H} = {qs[id].class : id \in H}
  BY <1>5, <1>8
<1>10. Oldest(rs, H) = Oldest(qs, H)
  <2>1. \A id, o \in H : rs[id].created <= rs[o].created <=> qs[id].created <= qs[o].created
    BY <1>4, <1>8 DEF SameOrder
  <2>2. \A id : (id \in H /\ \A o \in H : rs[id].created <= rs[o].created)
            <=> (id \in H /\ \A o \in H : qs[id].created <= qs[o].created)
    BY <2>1
  <2>3. (CHOOSE id : id \in H /\ \A o \in H : rs[id].created <= rs[o].created)
      = (CHOOSE id : id \in H /\ \A o \in H : qs[id].created <= qs[o].created)
    BY <2>2
  <2> QED
    BY <2>3 DEF Oldest
<1>11. CASE M = {}
  BY <1>1, <1>3, <1>11, ByRuleIs
<1>12. CASE M # {}
  <2>1. PICK o : o = Oldest(rs, H)
    OBVIOUS
  <2>2. o \in M
    BY <1>1, <1>2, <1>12, <2>1, OldestIsOne
  <2>3. rs[o].class = qs[o].class
    BY <1>5, <2>2
  <2>4. ByRule(rs, key, whos) =
          IF Cardinality({rs[id].class : id \in H}) > 1
          THEN Decision("unclassified", "ambiguous", None) ELSE Decision(rs[o].class, "rule", o)
    BY <1>1, <1>2, <1>12, <2>1, ByRuleIs
  <2>5. ByRule(qs, key, whos) =
          IF Cardinality({qs[id].class : id \in H}) > 1
          THEN Decision("unclassified", "ambiguous", None) ELSE Decision(qs[o].class, "rule", o)
    <3>1. N # {} /\ H = I /\ o = Oldest(qs, I)
      BY <1>3, <1>7, <1>10, <1>12, <2>1
    <3>2. ByRule(qs, key, whos) =
            IF N = {} THEN Undecided
            ELSE IF Cardinality({qs[id].class : id \in I}) > 1
                 THEN Decision("unclassified", "ambiguous", None)
            ELSE Decision(qs[Oldest(qs, I)].class, "rule", Oldest(qs, I))
      BY <1>1, <1>2, ByRuleIs
    <3> QED
      BY <3>1, <3>2
  <2>6. PICK X, Y : X = {rs[id].class : id \in H} /\ Y = {qs[id].class : id \in H}
    OBVIOUS
  <2>7. X = Y
    BY <1>9, <2>6
  <2>8. ByRule(rs, key, whos) =
          IF Cardinality(X) > 1
          THEN Decision("unclassified", "ambiguous", None) ELSE Decision(rs[o].class, "rule", o)
    BY <2>4, <2>6
  <2>9. ByRule(qs, key, whos) =
          IF Cardinality(Y) > 1
          THEN Decision("unclassified", "ambiguous", None) ELSE Decision(qs[o].class, "rule", o)
    BY <2>5, <2>6
  <2> QED
    BY <2>3, <2>7, <2>8, <2>9
<1> QED
  BY <1>11, <1>12

(* The rules a manifest was analysed with are in the order of those it leaves.*)
LEMMA LastCreatedIs ==
  ASSUME RulesOK(rules, revision)
  PROVE  /\ LastCreated(rules) \in 0..revision
         /\ \A id \in RuleIds : rules[id] # None => rules[id].created <= LastCreated(rules)
<1>1. PICK P, f : /\ P = {id \in DOMAIN rules : rules[id] # None}
                  /\ f = [id \in P |-> rules[id].created]
  OBVIOUS
<1>2. PICK S : S = {0} \cup {f[id] : id \in DOMAIN f}
  OBVIOUS
<1>3. revision \in Nat
  BY DEF RulesOK
<1>4. \A id \in P : f[id] \in 0..revision
  BY <1>1 DEF RulesOK
<1>5. IsFiniteSet(S) /\ S # {} /\ S \subseteq 0..revision
  <2>1. IsFiniteSet(DOMAIN f)
    <3>1. DOMAIN f = P /\ P \subseteq RuleIds
      BY <1>1 DEF RulesOK
    <3>2. IsFiniteSet(P)
      BY <3>1, ArchiveAssumption, FS_Subset
    <3> QED
      BY <3>1, <3>2
  <2>2. IsFiniteSet({f[id] : id \in DOMAIN f})
    BY <2>1, RangeIsFinite
  <2>3. {f[id] : id \in DOMAIN f} \subseteq 0..revision /\ 0 \in 0..revision
    BY <1>1, <1>3, <1>4
  <2>4. PICK X, O : X = {f[id] : id \in DOMAIN f} /\ O = {0}
    OBVIOUS
  <2>5. IsFiniteSet(X) /\ IsFiniteSet(O) /\ S = O \cup X
    BY <1>2, <2>2, <2>4, FS_Singleton
  <2>6. IsFiniteSet(S)
    BY <2>5, FS_Union
  <2>7. X \subseteq 0..revision /\ O \subseteq 0..revision /\ O # {}
    BY <2>3, <2>4
  <2> QED
    BY <2>5, <2>6, <2>7
<1>6. PICK g : g = [x \in S |-> x]
  OBVIOUS
<1>7. \A x \in S : g[x] \in Int
  BY <1>5, <1>6
<1>8. PICK x \in S : \A y \in S : g[y] <= g[x]
  BY <1>5, <1>7, MaxExists
<1>9. \A y \in S : x >= y
  BY <1>5, <1>6, <1>8
<1>10. Max(S) \in S /\ \A y \in S : Max(S) >= y
  BY <1>9 DEF Max
<1>11. S = {0} \cup {rules[id].created : id \in {id \in DOMAIN rules : rules[id] # None}}
  BY <1>1, <1>2
<1>12. LastCreated(rules) = Max(S)
  BY <1>11 DEF LastCreated
<1>13. ASSUME NEW id \in RuleIds, rules[id] # None
       PROVE  rules[id].created <= Max(S)
  <2>1. rules[id].created \in S
    BY <1>11, <1>13 DEF RulesOK
  <2> QED
    BY <1>5, <1>10, <2>1
<1> QED
  BY <1>5, <1>10, <1>12, <1>13

LEMMA ProposedIsDone ==
  ASSUME RulesOK(rules, revision), revision < MaxRevision, NEW m \in Manifests,
         ValidManifest(m), NEW rs, rs = Proposed(rules, m), NEW qs, qs = Consolidated(m)
  PROVE  IsPlaced(rs) /\ SameOrder(rs, qs)
<1>1. PICK C, D, L : C = DOMAIN m.creates /\ D = m.deletes /\ L = LastCreated(rules)
  OBVIOUS
<1>2. /\ L \in 0..revision /\ revision \in Nat /\ MaxRevision \in Nat /\ revision < MaxRevision
      /\ \A id \in RuleIds : rules[id] # None => rules[id].created <= L
  BY <1>1, LastCreatedIs, ArchiveAssumption DEF RulesOK
<1>3. DOMAIN rs = RuleIds /\ DOMAIN qs = RuleIds /\ DOMAIN rules = RuleIds
  BY DEF Proposed, Consolidated, RulesOK
<1>4. C \cap D = {} /\ \A id \in C : IsRule(m.creates[id])
  BY <1>1, ArchiveAssumption DEF ValidManifest, IsManifest
<1>5. ASSUME NEW id \in RuleIds, id \in D
      PROVE  rs[id] = None /\ qs[id] = None
  BY <1>1, <1>3, <1>4, <1>5 DEF Proposed, Consolidated
<1>6. ASSUME NEW id \in RuleIds, id \in C
      PROVE  /\ IsRule(rs[id]) /\ rs[id] # None /\ rs[id].created = L + 1
             /\ IsRule(qs[id]) /\ qs[id] # None /\ qs[id].created = revision + 1
             /\ SameButPlace(rs[id], qs[id])
  <2>1. PICK rule, x, y : rule = m.creates[id] /\ x = L + 1 /\ y = revision + 1
    OBVIOUS
  <2>2. rs[id] = [rule EXCEPT !.created = x]
    BY <1>1, <1>3, <1>4, <1>6, <2>1 DEF Proposed
  <2>3. qs[id] = [rule EXCEPT !.created = y]
    BY <1>1, <1>3, <1>4, <1>6, <2>1 DEF Consolidated
  <2>4. x \in 0..(MaxRevision + 1) /\ y \in 0..(MaxRevision + 1)
    BY <1>2, <2>1
  <2>5. IsRule(rule)
    BY <1>4, <1>6, <2>1
  <2>6. /\ IsRule([rule EXCEPT !.created = x]) /\ [rule EXCEPT !.created = x].created = x
        /\ [rule EXCEPT !.created = x] # None /\ SameButPlace([rule EXCEPT !.created = x], rule)
    BY <2>4, <2>5, Restamped
  <2>7. /\ IsRule([rule EXCEPT !.created = y]) /\ [rule EXCEPT !.created = y].created = y
        /\ [rule EXCEPT !.created = y] # None /\ SameButPlace([rule EXCEPT !.created = y], rule)
    BY <2>4, <2>5, Restamped
  <2>8. /\ IsRule(rs[id]) /\ rs[id].created = x /\ rs[id] # None /\ SameButPlace(rs[id], rule)
    BY <2>2, <2>6
  <2>9. /\ IsRule(qs[id]) /\ qs[id].created = y /\ qs[id] # None /\ SameButPlace(qs[id], rule)
    BY <2>3, <2>7
  <2>10. SameButPlace(rs[id], qs[id])
    BY <2>8, <2>9 DEF SameButPlace
  <2> QED
    BY <2>1, <2>8, <2>9, <2>10
<1>7. ASSUME NEW id \in RuleIds, id \notin C, id \notin D
      PROVE  rs[id] = rules[id] /\ qs[id] = rules[id]
  BY <1>1, <1>3, <1>7 DEF Proposed, Consolidated
<1>8. ASSUME NEW id \in RuleIds, rs[id] # None
      PROVE  /\ qs[id] # None /\ IsRule(rs[id]) /\ rs[id].created \in Int
             /\ qs[id].created \in Int /\ SameButPlace(rs[id], qs[id])
             /\ \/ rs[id].created = L + 1 /\ qs[id].created = revision + 1
                \/ rs[id].created = qs[id].created /\ rs[id].created <= L
  <2>1. CASE id \in D
    BY <1>5, <1>8, <2>1
  <2>2. CASE id \in C
    BY <1>2, <1>6, <2>2
  <2>3. CASE id \notin C /\ id \notin D
    <3>1. rs[id] = rules[id] /\ qs[id] = rules[id] /\ rules[id] # None
      BY <1>7, <1>8, <2>3
    <3>2. IsRule(rules[id]) /\ rules[id].created \in Int
      BY <3>1 DEF RulesOK
    <3> QED
      BY <1>2, <3>1, <3>2 DEF SameButPlace
  <2> QED
    BY <2>1, <2>2, <2>3
<1>9. ASSUME NEW id \in RuleIds, rs[id] = None
      PROVE  qs[id] = None
  <2>1. CASE id \in C
    BY <1>6, <1>9, <2>1
  <2>2. CASE id \notin C
    BY <1>5, <1>7, <1>9, <2>2
  <2> QED
    BY <2>1, <2>2
<1>10. ASSUME NEW id \in RuleIds, NEW other \in RuleIds, rs[id] # None, rs[other] # None
       PROVE  rs[id].created <= rs[other].created <=> qs[id].created <= qs[other].created
  <2>1. PICK a, b, c, d : /\ a = rs[id].created /\ b = rs[other].created
                          /\ c = qs[id].created /\ d = qs[other].created
    OBVIOUS
  <2>2. /\ a \in Int /\ c \in Int
        /\ (a = L + 1 /\ c = revision + 1) \/ (a = c /\ a <= L)
    BY <1>8, <1>10, <2>1
  <2>3. /\ b \in Int /\ d \in Int
        /\ (b = L + 1 /\ d = revision + 1) \/ (b = d /\ b <= L)
    BY <1>8, <1>10, <2>1
  <2>4. a <= b <=> c <= d
    BY <1>2, <2>2, <2>3
  <2> QED
    BY <2>1, <2>4
<1>11. IsPlaced(rs)
  BY <1>3, <1>8, ArchiveAssumption DEF IsPlaced, IsRanking
<1>12. SameOrder(rs, qs)
  BY <1>3, <1>8, <1>9, <1>10 DEF SameOrder
<1> QED
  BY <1>11, <1>12

(* What is decided and what is shown.                                         *)
ClassedOf(rs, d) ==
  [k \in DOMAIN Telemetry(d) |->
     [secs |-> Telemetry(d)[k].secs, whos |-> Telemetry(d)[k].whos,
      class |-> Shown(rs, Telemetry(d), d.allocations, EvidenceUsable(d), k).class]]

LEMMA EvaluatedIs == Evaluated = ClassedOf(rules, day)
BY Zenon DEF Evaluated, ClassedOf

LEMMA EvaluatedNext == Evaluated' = ClassedOf(rules', day')
BY Zenon DEF Evaluated, ClassedOf

LEMMA ShownIs ==
  ASSUME NEW rs, NEW tel, NEW marks, NEW evidence, NEW k
  PROVE  LET d == Decide(rs, tel, marks, k)
             s == Shown(rs, tel, marks, evidence, k)
         IN  /\ evidence => s = d
             /\ s = d \/ (s = Undecided /\ NeedsEvidence(rs) /\ ~evidence)
BY Zenon DEF Shown

LEMMA TelemetryIs ==
  ASSUME NEW d
  PROVE  /\ DOMAIN Telemetry(d) = DOMAIN d.slices \cup DOMAIN d.allocations
         /\ \A k \in DOMAIN d.slices :
              Telemetry(d)[k].secs = d.slices[k] /\ Telemetry(d)[k].whos = Whos(d, k)
         /\ \A k \in DOMAIN d.allocations \ DOMAIN d.slices : Telemetry(d)[k].secs = 0
<1>1. PICK f, g : f = [k \in DOMAIN d.slices |-> [secs |-> d.slices[k], whos |-> Whos(d, k)]]
               /\ g = Detached(d)
  OBVIOUS
<1>2. Telemetry(d) = Joined(f, g)
  BY <1>1 DEF Telemetry
<1>3. DOMAIN f = DOMAIN d.slices /\ DOMAIN g = DOMAIN d.allocations \ DOMAIN d.slices
  BY <1>1 DEF Detached
<1>4. DOMAIN Telemetry(d) = DOMAIN d.slices \cup DOMAIN d.allocations
  BY <1>2, <1>3 DEF Joined
<1>5. ASSUME NEW k \in DOMAIN d.slices
      PROVE  Telemetry(d)[k].secs = d.slices[k] /\ Telemetry(d)[k].whos = Whos(d, k)
  <2>1. Telemetry(d)[k] = f[k]
    BY <1>2, <1>3 DEF Joined
  <2> QED
    BY <1>1, <2>1
<1>6. ASSUME NEW k \in DOMAIN d.allocations \ DOMAIN d.slices
      PROVE  Telemetry(d)[k].secs = 0
  <2>1. Telemetry(d)[k] = g[k]
    BY <1>2, <1>3 DEF Joined
  <2>2. g[k] = [secs |-> 0, whos |-> {}]
    BY <1>1, <1>3 DEF Detached
  <2> QED
    BY <2>1, <2>2
<1> QED
  BY <1>4, <1>5, <1>6

LEMMA ClassedIs ==
  ASSUME NEW rs, NEW d
  PROVE  /\ DOMAIN ClassedOf(rs, d) = DOMAIN Telemetry(d)
         /\ \A k \in DOMAIN Telemetry(d) :
              /\ ClassedOf(rs, d)[k].secs = Telemetry(d)[k].secs
              /\ ClassedOf(rs, d)[k].whos = Telemetry(d)[k].whos
              /\ ClassedOf(rs, d)[k].class =
                   Shown(rs, Telemetry(d), d.allocations, EvidenceUsable(d), k).class
<1>1. PICK tel, f : /\ tel = Telemetry(d)
                    /\ f = [k \in DOMAIN tel |->
                              Shown(rs, Telemetry(d), d.allocations, EvidenceUsable(d), k).class]
  OBVIOUS
<1>2. PICK s : s = [k \in DOMAIN tel |-> [secs |-> tel[k].secs, whos |-> tel[k].whos, class |-> f[k]]]
  OBVIOUS
<1>3. ClassedOf(rs, d) = s
  <2>1. \A k \in DOMAIN tel : f[k] = Shown(rs, Telemetry(d), d.allocations, EvidenceUsable(d), k).class
    BY <1>1
  <2> QED
    BY <1>1, <1>2, <2>1 DEF ClassedOf
<1>4. /\ DOMAIN s = DOMAIN tel
      /\ \A k \in DOMAIN tel : s[k].secs = tel[k].secs /\ s[k].whos = tel[k].whos /\ s[k].class = f[k]
  BY <1>2
<1> QED
  BY <1>1, <1>3, <1>4

LEMMA DecideClass ==
  ASSUME NEW rs, IsPlaced(rs), NEW marks, \A k \in DOMAIN marks : MarkOK(marks[k]), NEW tel, NEW k
  PROVE  Decide(rs, tel, marks, k).class \in WorkClasses
<1>1. CASE k \in DOMAIN marks
  <2>1. Decide(rs, tel, marks, k) = Decision(marks[k].class, "override", None)
    BY <1>1 DEF Decide, Overridden
  <2>2. Decide(rs, tel, marks, k).class = marks[k].class
    BY <2>1, NewDecision
  <2> QED
    BY <1>1, <2>2 DEF MarkOK, WorkClasses
<1>2. CASE k \notin DOMAIN marks
  <2>1. Decide(rs, tel, marks, k) = ByRule(rs, k, tel[k].whos)
    BY <1>2 DEF Decide, Overridden
  <2> QED
    BY <2>1, ByRuleClass
<1> QED
  BY <1>1, <1>2

(* What belongs to nobody is decided by no rule.                              *)
LEMMA NobodysIsUndecided ==
  ASSUME NEW rs, IsPlaced(rs), NEW qs, IsPlaced(qs), NEW marks, NEW tel, NEW k, k.kind # "entity"
  PROVE  Decide(rs, tel, marks, k) = Decide(qs, tel, marks, k)
BY ByRuleClass DEF Decide

LEMMA ShownAsDecided ==
  ASSUME NEW rs, IsPlaced(rs), NEW qs, IsPlaced(qs), NEW marks, NEW tel,
         \A k \in DOMAIN tel : IsNamedKey(k)
  PROVE  ShownChanges(rs, qs, tel, marks, TRUE) = Changes(rs, qs, tel, marks)
<1>1. PICK f, g : /\ f = [k \in DOMAIN tel |-> Decide(rs, tel, marks, k).class]
                  /\ g = [k \in DOMAIN tel |-> Decide(qs, tel, marks, k).class]
  OBVIOUS
<1>2. PICK h : h = [k \in DOMAIN tel |-> [key |-> k, from |-> f[k], to |-> g[k], secs |-> tel[k].secs]]
  OBVIOUS
<1>3. \A k \in DOMAIN tel :
        /\ h[k] = [key |-> k, from |-> f[k], to |-> g[k], secs |-> tel[k].secs]
        /\ h[k].from = f[k] /\ h[k].to = g[k]
  BY <1>2
<1>4. \A k \in DOMAIN tel : k.project = Unattributed => f[k] = g[k]
  BY <1>1, NobodysIsUndecided DEF IsNamedKey
<1>5. \A k \in DOMAIN tel :
        /\ Shown(rs, tel, marks, TRUE, k).class = f[k]
        /\ Shown(qs, tel, marks, TRUE, k).class = g[k]
  BY <1>1, ShownIs
<1>6. PICK N : N = {k \in DOMAIN tel : k.project # Unattributed}
  OBVIOUS
<1>7. Changes(rs, qs, tel, marks) = {change \in {h[k] : k \in N} : change.from # change.to}
  <2>1. \A k \in N :
          h[k] = [key |-> k, from |-> Decide(rs, tel, marks, k).class,
                  to |-> Decide(qs, tel, marks, k).class, secs |-> tel[k].secs]
    BY <1>1, <1>3, <1>6
  <2> QED
    BY <1>6, <2>1 DEF Changes
<1>8. ShownChanges(rs, qs, tel, marks, TRUE) =
        {change \in {h[k] : k \in DOMAIN tel} : change.from # change.to}
  <2>1. \A k \in DOMAIN tel :
          h[k] = [key |-> k, from |-> Shown(rs, tel, marks, TRUE, k).class,
                  to |-> Shown(qs, tel, marks, TRUE, k).class, secs |-> tel[k].secs]
    BY <1>3, <1>5
  <2> QED
    BY <2>1 DEF ShownChanges
<1>9. \A k \in DOMAIN tel : h[k].from # h[k].to => k \in N
  BY <1>3, <1>4, <1>6
<1> QED
  BY <1>6, <1>7, <1>8, <1>9

LEMMA RulesPlaced ==
  ASSUME NEW rs, NEW rev, RulesOK(rs, rev)
  PROVE  IsPlaced(rs)
BY ArchiveAssumption DEF RulesOK, IsPlaced, IsRanking

LEMMA ConfirmedIsShown ==
  ASSUME NamedDay(day), RulesInv, RulesInv', ConfirmRuleChange
  PROVE  /\ Changes(rules, rules', Telemetry(day), day.allocations) = preview.effect
         /\ ShownChanges(rules, rules', Telemetry(day), day.allocations, TRUE) = preview.effect
<1>1. preview.effect = Changes(rules, rules', Telemetry(day), day.allocations)
  BY ConfirmedFits DEF RulesInv
<1>2. RulesOK(rules, revision) /\ RulesOK(rules', revision')
  BY DEF RulesInv
<1>3. IsPlaced(rules) /\ IsPlaced(rules')
  BY <1>2, RulesPlaced
<1>4. \A k \in DOMAIN Telemetry(day) : IsNamedKey(k)
  BY TelemetryIs DEF NamedDay
<1> QED
  BY <1>1, <1>3, <1>4, ShownAsDecided

LEMMA CoverageIs ==
  ASSUME NEW s, NEW class \in WorkClasses
  PROVE  Coverage(s)[class] = SecsIn(s, As(s, class))
BY DEF Coverage

LEMMA SecsInSame ==
  ASSUME NEW f, NEW g, NEW S, \A x \in S : f[x].secs = g[x].secs
  PROVE  SecsIn(f, S) = SecsIn(g, S)
<1>1. [x \in S |-> f[x].secs] = [x \in S |-> g[x].secs]
  OBVIOUS
<1>2. PICK h, i : h = [x \in S |-> f[x].secs] /\ i = [x \in S |-> g[x].secs]
  OBVIOUS
<1>3. SecsIn(f, S) = SumOver(h, S) /\ SecsIn(g, S) = SumOver(i, S)
  BY <1>2, SecsInIs
<1> QED
  BY <1>1, <1>2, <1>3

LEMMA NewAnalysis ==
  ASSUME NEW rs, NEW m, NEW tel, NEW marks
  PROVE  LET a == Analysis(rs, m, tel, marks)
         IN  /\ DOMAIN a = DOMAIN tel
             /\ \A k \in DOMAIN tel : /\ a[k].secs = tel[k].secs
                                      /\ a[k].from = Decide(rs, tel, marks, k)
                                      /\ a[k].to = Decide(Proposed(rs, m), tel, marks, k)
BY DEF Analysis

LEMMA ProposedSecondsIs ==
  ASSUME NEW a, NEW class
  PROVE  ProposedSeconds(a, class) = SecsIn(a, {k \in DOMAIN a : a[k].to.class = class})
BY DEF ProposedSeconds, SecsIn

(* Where there is evidence the pages show what was announced; where there is  *)
(* none they withhold what needs it; and what the gate let through is decided *)
(* as before, or was not decided.                                             *)
LEMMA AnalysedIsDone ==
  ASSUME NEW rs, IsPlaced(rs), NEW qs, NEW ps, IsPlaced(ps), SameOrder(ps, qs), NEW d,
         \A k \in DOMAIN d.allocations : MarkOK(d.allocations[k]),
         NEW m, ps = Proposed(rs, m), NEW analysis,
         analysis = Analysis(rs, m, Telemetry(d), d.allocations)
  PROVE  /\ EvidenceUsable(d) =>
              \A class \in WorkClasses :
                Coverage(ClassedOf(qs, d))[class] = ProposedSeconds(analysis, class)
         /\ SafetyGatePassed(analysis) =>
              \A k \in DOMAIN analysis :
                LET before == ClassedOf(rs, d)[k].class  after == ClassedOf(qs, d)[k].class
                IN  \/ before \in {after, "unclassified"}
                    \/ after = "unclassified" /\ NeedsEvidence(qs) /\ ~EvidenceUsable(d)
<1>1. PICK tel, marks, s, t : /\ tel = Telemetry(d) /\ marks = d.allocations
                              /\ s = ClassedOf(rs, d) /\ t = ClassedOf(qs, d)
  OBVIOUS
<1>2. \A k : Decide(ps, tel, marks, k) = Decide(qs, tel, marks, k)
  BY ByRuleOfSame DEF Decide
<1>3. /\ DOMAIN analysis = DOMAIN tel
      /\ \A k \in DOMAIN tel : /\ analysis[k].secs = tel[k].secs
                               /\ analysis[k].from = Decide(rs, tel, marks, k)
                               /\ analysis[k].to = Decide(qs, tel, marks, k)
  <2>1. /\ DOMAIN analysis = DOMAIN tel
        /\ \A k \in DOMAIN tel : /\ analysis[k].secs = tel[k].secs
                                 /\ analysis[k].from = Decide(rs, tel, marks, k)
                                 /\ analysis[k].to = Decide(ps, tel, marks, k)
    BY <1>1, NewAnalysis
  <2> QED
    BY <1>2, <2>1
<1>4. /\ DOMAIN t = DOMAIN tel
      /\ \A k \in DOMAIN tel :
           /\ t[k].secs = tel[k].secs
           /\ t[k].class = Shown(qs, tel, marks, EvidenceUsable(d), k).class
  BY <1>1, ClassedIs
<1>5. \A k \in DOMAIN tel : s[k].class = Shown(rs, tel, marks, EvidenceUsable(d), k).class
  BY <1>1, ClassedIs
<1>6. ASSUME EvidenceUsable(d), NEW class \in WorkClasses
      PROVE  Coverage(t)[class] = ProposedSeconds(analysis, class)
  <2>1. \A k \in DOMAIN tel : t[k].class = analysis[k].to.class
    <3>1. ASSUME NEW k
          PROVE  Shown(qs, tel, marks, EvidenceUsable(d), k) = Decide(qs, tel, marks, k)
      BY <1>6, Zenon DEF Shown
    <3> QED
      BY <1>3, <1>4, <3>1
  <2>2. PICK S : S = As(t, class)
    OBVIOUS
  <2>3. S = {k \in DOMAIN analysis : analysis[k].to.class = class}
    BY <1>3, <1>4, <2>1, <2>2 DEF As
  <2>4. \A k \in S : t[k].secs = analysis[k].secs
    BY <1>3, <1>4, <2>3
  <2>5. SecsIn(t, S) = SecsIn(analysis, S)
    BY <2>4, SecsInSame
  <2>6. ProposedSeconds(analysis, class) = SecsIn(analysis, S)
    BY <2>3, ProposedSecondsIs
  <2> QED
    BY <2>2, <2>5, <2>6, CoverageIs
<1>7. ASSUME SafetyGatePassed(analysis), NEW k \in DOMAIN analysis
      PROVE  \/ s[k].class \in {t[k].class, "unclassified"}
             \/ t[k].class = "unclassified" /\ NeedsEvidence(qs) /\ ~EvidenceUsable(d)
  <2>1. PICK a, b : a = Decide(rs, tel, marks, k) /\ b = Decide(qs, tel, marks, k)
    OBVIOUS
  <2>2. a.class \in WorkClasses /\ b.class \in WorkClasses
    <3>1. b = Decide(ps, tel, marks, k)
      BY <1>2, <2>1
    <3>2. \A j \in DOMAIN marks : MarkOK(marks[j])
      BY <1>1
    <3>3. a.class \in WorkClasses
      BY <2>1, <3>2, DecideClass
    <3>4. b.class \in WorkClasses
      BY <3>1, <3>2, DecideClass
    <3> QED
      BY <3>3, <3>4
  <2>3. analysis[k].from = a /\ analysis[k].to = b
    BY <1>3, <1>7, <2>1
  <2>4. {a.class, b.class} # {"work", "personal"}
    BY <1>7, <2>3 DEF SafetyGatePassed, PolarityFlips
  <2>5. ~(a.class # "unclassified" /\ b.class = "unclassified")
    BY <1>7, <2>3 DEF SafetyGatePassed, UnclassifiedRegressions
  <2>6. a.class \in {b.class, "unclassified"}
    BY <2>2, <2>4, <2>5 DEF WorkClasses
  <2>7. Undecided.class = "unclassified"
    BY NewDecision DEF Undecided
  <2>8. s[k].class = a.class \/ s[k].class = "unclassified"
    BY <1>3, <1>5, <1>7, <2>1, <2>7, ShownIs
  <2>9. \/ t[k].class = b.class
        \/ t[k].class = "unclassified" /\ NeedsEvidence(qs) /\ ~EvidenceUsable(d)
    BY <1>3, <1>4, <1>7, <2>1, <2>7, ShownIs
  <2> QED
    BY <2>6, <2>8, <2>9
<1> QED
  BY <1>1, <1>6, <1>7

LEMMA ConsolidatedIsShown ==
  ASSUME DayInv(day), RulesInv, NEW m \in Manifests, ConsolidateRules(m)
  PROVE  LET analysis == Analysis(rules, m, Telemetry(day), day.allocations)
         IN  /\ EvidenceUsable(day) =>
                  \A class \in WorkClasses :
                    Coverage(Evaluated')[class] = ProposedSeconds(analysis, class)
             /\ SafetyGatePassed(analysis) =>
                  \A k \in DOMAIN analysis :
                    LET before == Evaluated[k].class  after == Evaluated'[k].class
                    IN  \/ before \in {after, "unclassified"}
                        \/ after = "unclassified" /\ NeedsEvidence(rules') /\ ~EvidenceUsable(day)
<1>1. PICK d, rs, qs, ps : /\ d = day /\ rs = rules /\ qs = rules' /\ ps = Proposed(rules, m)
  OBVIOUS
<1>2. /\ ValidManifest(m) /\ qs = Consolidated(m) /\ day' = d /\ revision' <= MaxRevision
      /\ revision' = revision + Cardinality(DOMAIN m.creates) + Cardinality(m.deletes)
  BY <1>1 DEF ConsolidateRules
<1>3. RulesOK(rules, revision)
  BY DEF RulesInv
<1>4. revision < MaxRevision
  <2>1. PICK C, D, c, e : /\ C = DOMAIN m.creates /\ D = m.deletes
                          /\ c = Cardinality(C) /\ e = Cardinality(D)
    OBVIOUS
  <2>2. IsFiniteSet(C) /\ IsFiniteSet(D)
    BY <2>1, ArchiveAssumption, FS_Subset DEF IsManifest
  <2>3. c \in Nat /\ e \in Nat /\ (C # {} => c # 0) /\ (D # {} => e # 0)
    BY <2>1, <2>2, FS_CardinalityType, FS_EmptySet
  <2>4. C # {} \/ D # {}
    BY <1>2, <2>1 DEF ValidManifest
  <2>5. revision \in Nat /\ MaxRevision \in Nat /\ revision + c + e <= MaxRevision
    BY <1>2, <1>3, <2>1, ArchiveAssumption DEF RulesOK
  <2> QED
    BY <2>3, <2>4, <2>5
<1>5. IsPlaced(ps) /\ SameOrder(ps, qs)
  BY <1>1, <1>2, <1>3, <1>4, ProposedIsDone
<1>6. IsPlaced(rs)
  BY <1>1, <1>3, RulesPlaced
<1>7. \A k \in DOMAIN d.allocations : MarkOK(d.allocations[k])
  BY <1>1 DEF DayInv, MarksOK
<1>8. Evaluated = ClassedOf(rs, d)
  BY <1>1, EvaluatedIs
<1>9. Evaluated' = ClassedOf(qs, d)
  BY <1>1, <1>2, EvaluatedNext
<1>10. PICK analysis : analysis = Analysis(rs, m, Telemetry(d), d.allocations)
  OBVIOUS
<1>11. /\ EvidenceUsable(d) =>
            \A class \in WorkClasses :
              Coverage(ClassedOf(qs, d))[class] = ProposedSeconds(analysis, class)
       /\ SafetyGatePassed(analysis) =>
            \A k \in DOMAIN analysis :
              LET before == ClassedOf(rs, d)[k].class  after == ClassedOf(qs, d)[k].class
              IN  \/ before \in {after, "unclassified"}
                  \/ after = "unclassified" /\ NeedsEvidence(qs) /\ ~EvidenceUsable(d)
  BY <1>1, <1>5, <1>6, <1>7, <1>10, AnalysedIsDone
<1> QED
  BY <1>1, <1>8, <1>9, <1>10, <1>11

(* A confirmed change of the rules does what its preview announced, whatever  *)
(* came between (preview_digest), and a consolidation turns nothing round     *)
(* that its analysis did not announce: for any rules, manifests and days.     *)
THEOREM RulesMoveAsForeseen == ReservedName => (Spec => RulesChangeAsForeseen)
<1> SUFFICES ASSUME ReservedName PROVE Spec => RulesChangeAsForeseen
  OBVIOUS
<1>1. DayInv(day) /\ NamedDay(day) /\ RulesInv /\ RulesInv' /\ [Next]_vars =>
        [(preview # None /\ preview' = None) =>
           /\ Changes(rules, rules', Telemetry(day), day.allocations) = preview.effect
           /\ EvidenceUsable(day) =>
                ShownChanges(rules, rules', Telemetry(day), day.allocations, TRUE) = preview.effect]_rules
  <2> SUFFICES ASSUME DayInv(day), NamedDay(day), RulesInv, RulesInv', [Next]_vars,
                      rules' # rules, preview # None, preview' = None
               PROVE  /\ Changes(rules, rules', Telemetry(day), day.allocations) = preview.effect
                      /\ ShownChanges(rules, rules', Telemetry(day), day.allocations, TRUE) = preview.effect
    OBVIOUS
  <2>1. ASSUME NEW m \in Manifests, ConsolidateRules(m)
        PROVE  preview' = preview
    BY <2>1 DEF ConsolidateRules
  <2>2. RulesOK(rules, revision)
    BY DEF RulesInv
  <2>3. ConfirmRuleChange
    BY <2>1, <2>2, RulesSteps DEF RulesRest
  <2> QED
    BY <2>3, ConfirmedIsShown
<1>2. DayInv(day) /\ RulesInv /\ [Next]_vars =>
        [UNCHANGED <<day, preview>> =>
           \A m \in Manifests : ConsolidateRules(m) =>
             LET analysis == Analysis(rules, m, Telemetry(day), day.allocations)
             IN  /\ EvidenceUsable(day) =>
                      \A class \in WorkClasses :
                        Coverage(Evaluated')[class] = ProposedSeconds(analysis, class)
                 /\ SafetyGatePassed(analysis) =>
                      \A k \in DOMAIN analysis :
                        LET before == Evaluated[k].class  after == Evaluated'[k].class
                        IN  \/ before \in {after, "unclassified"}
                            \/ after = "unclassified" /\ NeedsEvidence(rules') /\ ~EvidenceUsable(day)]_rules
  BY ConsolidatedIsShown
<1>3. Spec => ConfirmedAsPreviewed
  BY <1>1, NamesAlways, DayAlways, RulesAlways, PTL DEF Spec, ConfirmedAsPreviewed
<1>4. Spec => ConsolidatedAsAnalysed
  BY <1>2, DayAlways, RulesAlways, PTL DEF Spec, ConsolidatedAsAnalysed
<1> QED
  BY <1>3, <1>4 DEF RulesChangeAsForeseen

-----------------------------------------------------------------------------
(* Sums by groups.                                                            *)
Group(S, g, p) == {x \in S : g[x] = p}

LEMMA SumByGroups ==
  ASSUME NEW S, IsFiniteSet(S), NEW P, IsFiniteSet(P), NEW g, \A x \in S : g[x] \in P,
         NEW f, \A x \in S : f[x] \in Int,
         NEW h, \A p \in P : h[p] = SumOver(f, Group(S, g, p))
  PROVE  SumOver(f, S) = SumOver(h, P)
<1> DEFINE Of(Q) == {x \in S : g[x] \in Q}
           D == {Q \in SUBSET P : SumOver(f, Of(Q)) = SumOver(h, Q)}
<1>1. ASSUME NEW Q \in SUBSET P,
             \A R \in SUBSET P : Cardinality(R) < Cardinality(Q) => R \in D
      PROVE  Q \in D
  <2>1. CASE Q = {}
    <3>1. Of(Q) = {}
      BY <2>1
    <3> QED
      BY <2>1, <3>1, SumOfNone
  <2>2. CASE Q # {}
    <3>1. IsFiniteSet(Q)
      BY FS_Subset
    <3>2. PICK p, R : p = Pick(Q) /\ R = Q \ {p}
      OBVIOUS
    <3>3. p \in Q /\ R \in SUBSET P /\ Cardinality(R) < Cardinality(Q)
      BY <2>2, <3>1, <3>2, PickOne
    <3>4. SumOver(f, Of(R)) = SumOver(h, R)
      BY <1>1, <3>3
    <3>5. PICK A, B : A = Of(R) /\ B = {x \in S : g[x] = p}
      OBVIOUS
    <3>6. IsFiniteSet(A) /\ IsFiniteSet(B) /\ A \cap B = {} /\ A \cup B = Of(Q)
      <4>1. A \in SUBSET S /\ B \in SUBSET S
        BY <3>5
      <4>2. IsFiniteSet(A) /\ IsFiniteSet(B)
        BY <4>1, FS_Subset
      <4>3. A \cap B = {} /\ A \cup B = Of(Q)
        BY <3>2, <3>3, <3>5
      <4> QED
        BY <4>2, <4>3
    <3>7. \A x \in A \cup B : f[x] \in Int
      BY <3>5
    <3>8. SumOver(f, A \cup B) = SumOver(f, A) + SumOver(f, B)
      BY <3>6, <3>7, SumUnion
    <3>9. SumOver(f, A) \in Int /\ SumOver(f, B) \in Int
      BY <3>6, <3>7, SumIsInt
    <3>10. h[p] = SumOver(f, B)
      BY <3>3, <3>5 DEF Group
    <3>11. SumOver(h, Q) = h[p] + SumOver(h, R)
      BY <2>2, <3>1, <3>2, SumUnfolds
    <3>12. SumOver(f, Of(Q)) = SumOver(f, A) + SumOver(f, B)
      BY <3>6, <3>8
    <3>13. SumOver(h, R) = SumOver(f, A)
      BY <3>4, <3>5
    <3>14. SumOver(f, Of(Q)) = SumOver(h, Q)
      BY <3>9, <3>10, <3>11, <3>12, <3>13
    <3> QED
      BY <3>14
  <2> QED
    BY <2>1, <2>2
<1>2. Of(P) = S
  OBVIOUS
<1> HIDE DEF D
<1>3. SUBSET P \subseteq D
  BY <1>1, SetInduction
<1>4. P \in D
  BY <1>3
<1> QED
  BY <1>2, <1>4 DEF D

LEMMA SecsInUnion ==
  ASSUME NEW s, NEW A, IsFiniteSet(A), NEW B, IsFiniteSet(B), A \cap B = {},
         \A x \in A \cup B : s[x].secs \in Int
  PROVE  SecsIn(s, A \cup B) = SecsIn(s, A) + SecsIn(s, B)
<1>1. PICK U, f : U = A \cup B /\ f = [x \in U |-> s[x].secs]
  OBVIOUS
<1>2. PICK g, h : g = [x \in A |-> s[x].secs] /\ h = [x \in B |-> s[x].secs]
  OBVIOUS
<1>3. SecsIn(s, U) = SumOver(f, U) /\ SecsIn(s, A) = SumOver(g, A) /\ SecsIn(s, B) = SumOver(h, B)
  BY <1>1, <1>2, SecsInIs
<1>4. \A x \in A : g[x] = f[x]
  BY <1>1, <1>2
<1>5. \A x \in B : h[x] = f[x]
  BY <1>1, <1>2
<1>6. SumOver(g, A) = SumOver(f, A)
  BY <1>4, SumSame
<1>7. SumOver(h, B) = SumOver(f, B)
  BY <1>5, SumSame
<1>8. \A x \in A \cup B : f[x] \in Int
  BY <1>1
<1>9. SumOver(f, A \cup B) = SumOver(f, A) + SumOver(f, B)
  BY <1>8, SumUnion
<1> QED
  BY <1>1, <1>3, <1>6, <1>7, <1>9

LEMMA SecsInZeros ==
  ASSUME NEW s, NEW A, IsFiniteSet(A), \A x \in A : s[x].secs = 0
  PROVE  SecsIn(s, A) = 0
<1>1. PICK f : f = [x \in A |-> s[x].secs]
  OBVIOUS
<1>2. \A x \in A : f[x] = 0
  BY <1>1
<1> QED
  BY <1>1, <1>2, SecsInIs, SumOfZeros

LEMMA SecsInPart ==
  ASSUME NEW s, NEW S, IsFiniteSet(S), NEW A, A \subseteq S, \A x \in S : s[x].secs \in Nat
  PROVE  SecsIn(s, A) <= SecsIn(s, S) /\ SecsIn(s, A) \in Nat /\ SecsIn(s, S) \in Nat
<1>1. PICK f, g : f = [x \in S |-> s[x].secs] /\ g = [x \in A |-> s[x].secs]
  OBVIOUS
<1>2. IsFiniteSet(A) /\ \A x \in A : g[x] = f[x]
  BY <1>1, FS_Subset
<1>3. SumOver(g, A) = SumOver(f, A)
  BY <1>2, SumSame
<1>4. \A x \in S : f[x] \in Nat
  BY <1>1
<1>5. SumOver(f, A) <= SumOver(f, S)
  BY <1>4, SumOfPart
<1>6. SumOver(f, S) \in Nat
  BY <1>4, SumIsNat
<1>7. \A x \in A : f[x] \in Nat
  BY <1>4
<1>8. SumOver(f, A) \in Nat
  BY <1>2, <1>7, SumIsNat
<1>9. SecsIn(s, A) = SumOver(g, A) /\ SecsIn(s, S) = SumOver(f, S)
  BY <1>1, SecsInIs
<1> QED
  BY <1>3, <1>5, <1>6, <1>8, <1>9

-----------------------------------------------------------------------------
(* The slices of a day with their class: an account of it.                    *)
IsAccount(s, d) ==
  /\ IsFiniteSet(DOMAIN s) /\ DOMAIN d.slices \subseteq DOMAIN s
  /\ \A k \in DOMAIN s : IsKey(k) /\ s[k].class \in WorkClasses /\ s[k].secs \in Nat
  /\ \A k \in DOMAIN d.slices : s[k].secs = d.slices[k]
  /\ \A k \in DOMAIN s \ DOMAIN d.slices : s[k].secs = 0 /\ s[k].class # "unclassified"

(* What the account says of any keys is what the slices have of them.         *)
LEMMA SecsOfSlices ==
  ASSUME NEW d, NEW s, IsAccount(s, d), NEW K, K \subseteq DOMAIN s
  PROVE  SecsIn(s, K) = SumOver(d.slices, K \cap DOMAIN d.slices)
<1>1. PICK A, B : A = K \cap DOMAIN d.slices /\ B = K \ DOMAIN d.slices
  OBVIOUS
<1>2. IsFiniteSet(A) /\ IsFiniteSet(B) /\ A \cap B = {} /\ A \cup B = K
  <2>1. A \in SUBSET DOMAIN s /\ B \in SUBSET DOMAIN s
    BY <1>1
  <2>2. IsFiniteSet(A) /\ IsFiniteSet(B)
    BY <2>1, FS_Subset DEF IsAccount
  <2> QED
    BY <1>1, <2>2
<1>3. \A k \in A \cup B : s[k].secs \in Int
  BY <1>2 DEF IsAccount
<1>4. SecsIn(s, A \cup B) = SecsIn(s, A) + SecsIn(s, B)
  BY <1>2, <1>3, SecsInUnion
<1>5. \A k \in B : s[k].secs = 0
  BY <1>1 DEF IsAccount
<1>6. SecsIn(s, B) = 0
  BY <1>2, <1>5, SecsInZeros
<1>7. SecsIn(s, A) \in Int
  BY <1>2, <1>3, SecsInIsInt
<1>8. SecsIn(s, K) = SecsIn(s, A)
  BY <1>2, <1>4, <1>6, <1>7
<1>9. PICK f : f = [k \in A |-> s[k].secs]
  OBVIOUS
<1>10. SecsIn(s, A) = SumOver(f, A)
  BY <1>9, SecsInIs
<1>11. PICK g : g = d.slices
  OBVIOUS
<1>12. \A k \in A : f[k] = g[k]
  BY <1>1, <1>9, <1>11 DEF IsAccount
<1>13. SumOver(f, A) = SumOver(g, A)
  BY <1>2, <1>12, SumSame
<1> QED
  BY <1>1, <1>8, <1>10, <1>11, <1>13

LEMMA SliceTotalIs ==
  ASSUME NEW slices
  PROVE  SliceTotal(slices) = SumOver(slices, DOMAIN slices)
BY DEF SliceTotal, SumOver

LEMMA WholeAccount ==
  ASSUME NEW d, NEW s, IsAccount(s, d)
  PROVE  SecsIn(s, DOMAIN s) = SliceTotal(d.slices) /\ SliceTotal(d.slices) \in Nat
<1>1. PICK K : K = DOMAIN d.slices
  OBVIOUS
<1>2. DOMAIN s \cap DOMAIN d.slices = K
  BY <1>1 DEF IsAccount
<1>3. SecsIn(s, DOMAIN s) = SumOver(d.slices, K)
  BY <1>2, SecsOfSlices
<1>4. SliceTotal(d.slices) = SumOver(d.slices, K)
  BY <1>1, SliceTotalIs
<1>5. \A k \in DOMAIN s : s[k].secs \in Nat
  BY DEF IsAccount
<1>6. SecsIn(s, DOMAIN s) \in Nat
  BY <1>5, SecsInPart DEF IsAccount
<1> QED
  BY <1>3, <1>4, <1>6

LEMMA ShownClass ==
  ASSUME NEW rs, IsPlaced(rs), NEW marks, \A k \in DOMAIN marks : MarkOK(marks[k]), NEW tel,
         NEW evidence, NEW k
  PROVE  /\ Shown(rs, tel, marks, evidence, k).class \in WorkClasses
         /\ k \in DOMAIN marks => Shown(rs, tel, marks, evidence, k).class # "unclassified"
<1>1. PICK d, s : d = Decide(rs, tel, marks, k) /\ s = Shown(rs, tel, marks, evidence, k)
  OBVIOUS
<1>2. d.class \in WorkClasses
  BY <1>1, DecideClass
<1>3. Undecided.class = "unclassified"
  BY NewDecision DEF Undecided
<1>4. s = d \/ s = Undecided
  BY <1>1, ShownIs
<1>5. ASSUME k \in DOMAIN marks
      PROVE  s.class # "unclassified"
  <2>1. d = Decision(marks[k].class, "override", None)
    BY <1>1, <1>5 DEF Decide, Overridden
  <2>2. d.class = marks[k].class /\ d.source = "override"
    BY <2>1, NewDecision
  <2>3. s = d
    <3>1. d.source # "rule"
      BY <2>2
    <3> QED
      BY <1>1, <3>1, Zenon DEF Shown
  <2> QED
    BY <1>5, <2>2, <2>3 DEF MarkOK
<1> QED
  BY <1>1, <1>2, <1>3, <1>4, <1>5 DEF WorkClasses

LEMMA TheAccount ==
  ASSUME DayInv(day), RulesInv, day.summaries.accepted # None
  PROVE  /\ IsAccount(Evaluated, day)
         /\ Agree(SliceTotal(day.slices), day.total) /\ day.total \in Int
<1>1. PICK d, s, tel, marks : /\ d = day /\ s = Evaluated /\ tel = Telemetry(d)
                              /\ marks = d.allocations
  OBVIOUS
<1>2. IsPlaced(rules)
  BY RulesPlaced DEF RulesInv
<1>3. /\ IsFiniteSet(DOMAIN d.slices) /\ IsFiniteSet(DOMAIN marks)
      /\ \A k \in DOMAIN d.slices : IsKey(k) /\ d.slices[k] \in Int
      /\ \A k \in DOMAIN marks : IsKey(k) /\ MarkOK(marks[k])
  BY <1>1 DEF DayInv, SlicesOK, MarksOK
<1>4. PICK a : a = d.summaries.accepted
  OBVIOUS
<1>5. /\ IsSummary(a) /\ IsConsistent(a) /\ d.slices = a.slices /\ d.total = a.total
  BY <1>1, <1>4 DEF DayInv, SnapshotOK
<1>6. \A k \in DOMAIN d.slices : d.slices[k] \in Nat
  BY <1>3, <1>5 DEF IsConsistent
<1>7. s = ClassedOf(rules, d)
  BY <1>1, EvaluatedIs
<1>8. /\ DOMAIN s = DOMAIN tel
      /\ \A k \in DOMAIN tel :
           /\ s[k].secs = tel[k].secs
           /\ s[k].class = Shown(rules, tel, marks, EvidenceUsable(d), k).class
  BY <1>1, <1>7, ClassedIs
<1>9. /\ DOMAIN tel = DOMAIN d.slices \cup DOMAIN marks
      /\ \A k \in DOMAIN d.slices : tel[k].secs = d.slices[k]
      /\ \A k \in DOMAIN marks \ DOMAIN d.slices : tel[k].secs = 0
  BY <1>1, TelemetryIs
<1>10. IsFiniteSet(DOMAIN s)
  <2>1. PICK A, B : A = DOMAIN d.slices /\ B = DOMAIN marks
    OBVIOUS
  <2>2. IsFiniteSet(A) /\ IsFiniteSet(B) /\ DOMAIN s = A \cup B
    BY <1>3, <1>8, <1>9, <2>1
  <2> QED
    BY <2>2, FS_Union
<1>11. ASSUME NEW k \in DOMAIN tel
       PROVE  /\ s[k].class \in WorkClasses
              /\ k \in DOMAIN marks => s[k].class # "unclassified"
  <2>1. \A j \in DOMAIN marks : MarkOK(marks[j])
    BY <1>3
  <2>2. /\ Shown(rules, tel, marks, EvidenceUsable(d), k).class \in WorkClasses
        /\ k \in DOMAIN marks =>
             Shown(rules, tel, marks, EvidenceUsable(d), k).class # "unclassified"
    BY <1>2, <2>1, ShownClass
  <2> QED
    BY <1>8, <1>11, <2>2
<1>12. IsAccount(s, d)
  BY <1>3, <1>6, <1>8, <1>9, <1>10, <1>11 DEF IsAccount
<1>13. Agree(SliceTotal(d.slices), d.total) /\ d.total \in Int
  BY <1>5 DEF IsConsistent, IsSummary
<1> QED
  BY <1>1, <1>12, <1>13

-----------------------------------------------------------------------------
(* To the agent.                                                              *)
LEMMA ClassesDivide ==
  ASSUME NEW d, NEW s, IsAccount(s, d), NEW K, K \subseteq DOMAIN s
  PROVE  SecsIn(s, K \cap As(s, "work")) + SecsIn(s, K \cap As(s, "unclassified"))
           + SecsIn(s, K \cap As(s, "personal")) = SecsIn(s, K)
<1>1. PICK A, B, C : /\ A = K \cap As(s, "work") /\ B = K \cap As(s, "unclassified")
                     /\ C = K \cap As(s, "personal")
  OBVIOUS
<1>2. A \in SUBSET DOMAIN s /\ B \in SUBSET DOMAIN s /\ C \in SUBSET DOMAIN s
  BY <1>1
<1>3. IsFiniteSet(A) /\ IsFiniteSet(B) /\ IsFiniteSet(C)
  BY <1>2, FS_Subset DEF IsAccount
<1>4. A \cap B = {} /\ (A \cup B) \cap C = {} /\ (A \cup B) \cup C = K
  BY <1>1 DEF As, IsAccount, WorkClasses
<1>5. \A k \in DOMAIN s : s[k].secs \in Int
  BY DEF IsAccount
<1>6. PICK U : U = A \cup B
  OBVIOUS
<1>7. IsFiniteSet(U) /\ U \subseteq DOMAIN s
  BY <1>2, <1>3, <1>6, FS_Union
<1>8. SecsIn(s, U) = SecsIn(s, A) + SecsIn(s, B)
  BY <1>2, <1>3, <1>4, <1>5, <1>6, SecsInUnion
<1>9. SecsIn(s, U \cup C) = SecsIn(s, U) + SecsIn(s, C)
  BY <1>2, <1>3, <1>4, <1>5, <1>6, <1>7, SecsInUnion
<1>10. U \cup C = K
  BY <1>4, <1>6
<1>11. SecsIn(s, K) = (SecsIn(s, A) + SecsIn(s, B)) + SecsIn(s, C)
  BY <1>8, <1>9, <1>10
<1> QED
  BY <1>1, <1>11

LEMMA NewAnswer ==
  ASSUME NEW secs, NEW unclassified, NEW projects
  PROVE  LET a == Answer(secs, unclassified, projects)
         IN  a.work = secs /\ a.unclassified = unclassified /\ a.projects = projects
BY DEF Answer

LEMMA DayEvidenceIs ==
  ASSUME NEW s
  PROVE  LET a == GetDayEvidence(s)
         IN  /\ a.work = SecsIn(s, As(s, "work")) /\ a.unclassified = SecsIn(s, As(s, "unclassified"))
             /\ a.projects = [p \in Told(s) |-> ProjectSummary(s, p)]
BY NewAnswer, CoverageIs DEF GetDayEvidence, WorkClasses

AloneIn(a, p) == [q \in DOMAIN a.projects \cap {p} |-> a.projects[q]]

LEMMA AnswersDoAddUp ==
  ASSUME IsAccount(Evaluated, day), Agree(SliceTotal(day.slices), day.total), day.total \in Int
  PROVE  AnswersAddUp(Evaluated)
<1>1. PICK s, a : s = Evaluated /\ a = GetDayEvidence(s)
  OBVIOUS
<1>2. PICK K : K = DOMAIN s
  OBVIOUS
<1>3. /\ K \cap As(s, "work") = As(s, "work")
      /\ K \cap As(s, "unclassified") = As(s, "unclassified")
      /\ K \cap As(s, "personal") = As(s, "personal")
  BY <1>2 DEF As
<1>4. SecsIn(s, K \cap As(s, "work")) + SecsIn(s, K \cap As(s, "unclassified"))
        + SecsIn(s, K \cap As(s, "personal")) = SecsIn(s, K)
  BY <1>1, <1>2, ClassesDivide
<1>5. a.work + a.unclassified + Coverage(s)["personal"] = SecsIn(s, K)
  <2>1. Coverage(s)["personal"] = SecsIn(s, As(s, "personal"))
    BY CoverageIs DEF WorkClasses
  <2>2. a.work = SecsIn(s, As(s, "work")) /\ a.unclassified = SecsIn(s, As(s, "unclassified"))
    BY <1>1, DayEvidenceIs
  <2> QED
    BY <1>3, <1>4, <2>1, <2>2
<1>6. SecsIn(s, K) = SliceTotal(day.slices)
  BY <1>1, <1>2, WholeAccount
<1>7. Agree(a.work + a.unclassified + Coverage(s)["personal"], day.total)
  BY <1>5, <1>6
<1>8. a.projects = [p \in Told(s) |-> ProjectSummary(s, p)]
  BY <1>1, DayEvidenceIs
<1>9. ASSUME NEW p
      PROVE  GetProjectEvidence(s, p).projects = AloneIn(a, p)
  <2>1. PICK f, T : f = a.projects /\ T = Told(s)
    OBVIOUS
  <2>2. DOMAIN f = T /\ \A q \in T : f[q] = ProjectSummary(s, q)
    BY <1>8, <2>1
  <2>3. CASE p \in T
    <3>1. GetProjectEvidence(s, p).projects = [q \in {p} |-> ProjectSummary(s, q)]
      BY <2>1, <2>3, NewAnswer DEF GetProjectEvidence
    <3>2. T \cap {p} = {p}
      BY <2>3
    <3>3. [q \in {p} |-> ProjectSummary(s, q)] = [q \in T \cap {p} |-> f[q]]
      BY <2>2, <2>3, <3>2
    <3> QED
      BY <2>1, <2>2, <3>1, <3>3 DEF AloneIn
  <2>4. CASE p \notin T
    <3>1. GetProjectEvidence(s, p).projects = <<>>
      BY <2>1, <2>4, NewAnswer DEF GetProjectEvidence
    <3>2. T \cap {p} = {}
      BY <2>4
    <3>3. <<>> = [q \in T \cap {p} |-> f[q]]
      BY <3>2
    <3> QED
      BY <2>1, <2>2, <3>1, <3>3 DEF AloneIn
  <2> QED
    BY <2>3, <2>4
<1>10. ASSUME NEW b, b = GetDayEvidence(s),
              Agree(b.work + b.unclassified + Coverage(s)["personal"], day.total),
              \A p : GetProjectEvidence(s, p).projects = AloneIn(b, p)
       PROVE  AnswersAddUp(s)
  BY <1>10, Zenon DEF AnswersAddUp, AloneIn
<1>11. a = GetDayEvidence(s)
  BY <1>1
<1>12. AnswersAddUp(s)
  BY <1>7, <1>9, <1>10, <1>11
<1> QED
  BY <1>1, <1>12

-----------------------------------------------------------------------------
(* Suggestions.                                                               *)
LEMMA SuggestionIs ==
  ASSUME NEW selector, NEW value
  PROVE  /\ Suggestion(selector, value).selector = selector
         /\ Suggestion(selector, value).value = value
         /\ Suggestion(selector, value).names = Matches(value)
BY DEF Suggestion

LEMMA SelectorsAre ==
  DOMAIN Specificity = IdentitySelectors \cup
                         {"application", "domain", "project", "folder_prefix", "entity"}
BY DEF Specificity, IdentitySelectors

(* A selector looks for its names where a slice has names for it.             *)
LEMMA SelectsByName ==
  ASSUME NEW s, NEW k, NEW g, g.selector \in DOMAIN Specificity
  PROVE  Selects(g, k, s[k].whos) <=> \E name \in NamesOf(s, k, g.selector) : name \in g.names
<1>1. CASE g.selector \in IdentitySelectors
  BY <1>1 DEF Selects, NamesOf, IdentitySelectors
<1>2. CASE g.selector = "project"
  BY <1>2 DEF Selects, NamesOf, IdentitySelectors
<1>3. CASE g.selector = "entity"
  BY <1>3 DEF Selects, NamesOf, IdentitySelectors
<1>4. CASE g.selector = "application"
  BY <1>4 DEF Selects, NamesOf, IdentitySelectors
<1>5. CASE g.selector = "domain"
  BY <1>5 DEF Selects, NamesOf, IdentitySelectors
<1>6. CASE g.selector = "folder_prefix"
  BY <1>6 DEF Selects, NamesOf, IdentitySelectors
<1> QED
  BY <1>1, <1>2, <1>3, <1>4, <1>5, <1>6, SelectorsAre

(* A value that is one name is suggested for that name alone.                 *)
LEMMA NameIsItsValue ==
  ASSUME NEW selector, NEW value, value \notin DOMAIN MatchedBy,
         NEW origin, value \in Values(selector, origin)
  PROVE  \A name : value \in Values(selector, name) <=> name = value
<1>1. \A name : name \in DOMAIN Folders => value \notin Folders[name]
  BY AnswersAssumption
<1>2. \A name : name \in DOMAIN HostPattern => value # HostPattern[name]
  BY AnswersAssumption
<1>3. selector # "folder_prefix"
  BY <1>1 DEF Values
<1>4. \A name : value \in Values(selector, name) =>
        name = value /\ ~(selector = "machine" /\ name \in DOMAIN HostPattern)
  BY <1>2, <1>3 DEF Values
<1>5. ~(selector = "machine" /\ value \in DOMAIN HostPattern)
  BY <1>4
<1>6. value \in Values(selector, value)
  BY <1>3, <1>5 DEF Values
<1> QED
  BY <1>4, <1>6

LEMMA SuggestedHow ==
  ASSUME NEW s, NEW k, NEW g \in SuggestedBy(s, k)
  PROVE  /\ g.selector \in DOMAIN Specificity /\ g.value \in SuggestedValues(s, k, g.selector)
         /\ g.names = Matches(g.value)
<1>1. PICK selector \in DOMAIN Specificity :
             g \in {Suggestion(selector, value) : value \in SuggestedValues(s, k, selector)}
  BY DEF SuggestedBy
<1>2. PICK value \in SuggestedValues(s, k, selector) : g = Suggestion(selector, value)
  BY <1>1
<1> QED
  BY <1>2, SuggestionIs

LEMMA SuggestionsDoShow ==
  ASSUME IsAccount(Evaluated, day)
  PROVE  SuggestionsAreShown(Evaluated)
<1>1. PICK s : s = Evaluated
  OBVIOUS
<1>2. Activities(s, "unclassified") = As(s, "unclassified")
  <2>1. CASE DOMAIN day.slices = {}
    <3>1. \A k \in DOMAIN s : s[k].class # "unclassified"
      BY <1>1, <2>1 DEF IsAccount
    <3> QED
      BY <2>1, <3>1 DEF Activities, As
  <2>2. CASE DOMAIN day.slices # {}
    BY <2>2 DEF Activities
  <2> QED
    BY <2>1, <2>2
<1>3. ASSUME NEW g \in Suggestions(s), NEW counted, NEW found,
             counted = CountedIn(s, g), found = Drilldown(s, g, "unclassified")
      PROVE  /\ \A k \in OpenSlices(s) \ found : ~RuleMatches(g, k, s[k].whos)
             /\ \A k \in counted \ found : ~MatchesItsNames(s, g, k)
             /\ g.value \notin DOMAIN MatchedBy => found = counted
  <2>1. PICK k0 : g \in SuggestedBy(s, k0)
    BY <1>3 DEF Suggestions
  <2>2. g.selector \in DOMAIN Specificity /\ g.value \in SuggestedValues(s, k0, g.selector)
        /\ g.names = Matches(g.value)
    BY <2>1, SuggestedHow
  <2>3. counted \subseteq OpenSlices(s) /\ found \subseteq OpenSlices(s)
        /\ \A k \in OpenSlices(s) :
             /\ (k \in counted) <=> g.value \in SuggestedValues(s, k, g.selector)
             /\ (k \in found) <=> Selects(g, k, s[k].whos)
    BY <1>2, <1>3 DEF CountedIn, Drilldown, OpenSlices
  <2>4. \A k \in OpenSlices(s) :
          /\ (k \in counted) <=>
               \E name \in NamesOf(s, k, g.selector) : g.value \in Values(g.selector, name)
          /\ (k \in found) <=> \E name \in NamesOf(s, k, g.selector) : name \in g.names
    BY <2>2, <2>3, SelectsByName DEF SuggestedValues
  <2>5. \A k \in OpenSlices(s) \ found : ~RuleMatches(g, k, s[k].whos)
    BY <2>3 DEF RuleMatches
  <2>6. \A k \in counted \ found : ~MatchesItsNames(s, g, k)
    BY <2>3, <2>4 DEF MatchesItsNames
  <2>7. ASSUME g.value \notin DOMAIN MatchedBy
        PROVE  found = counted
    <3>1. g.names = {g.value}
      BY <2>2, <2>7 DEF Matches
    <3>2. PICK origin : g.value \in Values(g.selector, origin)
      BY <2>2 DEF SuggestedValues
    <3>3. \A name : g.value \in Values(g.selector, name) <=> name \in g.names
      BY <2>7, <3>1, <3>2, NameIsItsValue
    <3> QED
      BY <2>3, <2>4, <3>3
  <2> QED
    BY <2>5, <2>6, <2>7
<1> QED
  BY <1>1, <1>3 DEF SuggestionsAreShown

-----------------------------------------------------------------------------
(* To the operator.                                                           *)
ByProject(s, class, P) == MapThenSumSet(LAMBDA p : ProjectCoverage(s, p)[class], P)

LEMMA ByProjectIs ==
  ASSUME NEW s, NEW class, NEW P
  PROVE  ByProject(s, class, P) =
           SumOver([p \in P |-> ProjectCoverage(s, p)[class]], P)
<1> DEFINE h == [p \in P |-> ProjectCoverage(s, p)[class]]
<1>1. ASSUME NEW Q \in SUBSET P, Q # {}
      PROVE  h[Pick(Q)] = ProjectCoverage(s, Pick(Q))[class]
  BY <1>1 DEF Pick
<1>2. ASSUME NEW g
      PROVE  [Q \in SUBSET P |-> IF Q = {} THEN 0 ELSE h[Pick(Q)] + g[Q \ {Pick(Q)}]] =
             [Q \in SUBSET P |-> IF Q = {} THEN 0
                                 ELSE ProjectCoverage(s, Pick(Q))[class] + g[Q \ {Pick(Q)}]]
  BY <1>1
<1> HIDE DEF h
<1>3. (CHOOSE g : g = [Q \in SUBSET P |-> IF Q = {} THEN 0 ELSE h[Pick(Q)] + g[Q \ {Pick(Q)}]])
    = (CHOOSE g : g = [Q \in SUBSET P |-> IF Q = {} THEN 0
                                          ELSE ProjectCoverage(s, Pick(Q))[class] + g[Q \ {Pick(Q)}]])
  BY <1>2
<1>4. SumOver(h, P) =
        (CHOOSE g : g = [Q \in SUBSET P |-> IF Q = {} THEN 0 ELSE h[Pick(Q)] + g[Q \ {Pick(Q)}]])[P]
  BY DEF SumOver, MapThenSumSet, MapThenFoldSet, Pick
<1>5. ByProject(s, class, P) =
        (CHOOSE g : g = [Q \in SUBSET P |-> IF Q = {} THEN 0
                                            ELSE ProjectCoverage(s, Pick(Q))[class] + g[Q \ {Pick(Q)}]])[P]
  BY DEF ByProject, MapThenSumSet, MapThenFoldSet, Pick
<1> QED
  BY <1>3, <1>4, <1>5 DEF h

LEMMA ProjectCoverageIs ==
  ASSUME NEW s, NEW p, NEW class \in WorkClasses
  PROVE  ProjectCoverage(s, p)[class] = SecsIn(s, Owned(s, p) \cap As(s, class))
BY DEF ProjectCoverage

(* The projects share the seconds of each class.                              *)
LEMMA ProjectsShare ==
  ASSUME NEW d, NEW s, IsAccount(s, d), NEW class \in WorkClasses
  PROVE  Coverage(s)[class] = ByProject(s, class, {k.project : k \in DOMAIN s})
<1>1. PICK f, g : f = [k \in DOMAIN s |-> s[k].secs] /\ g = [k \in DOMAIN s |-> k.project]
  OBVIOUS
<1>2. PICK P : P = {g[k] : k \in DOMAIN g}
  OBVIOUS
<1>3. P = {k.project : k \in DOMAIN s}
  BY <1>1, <1>2
<1>4. IsFiniteSet(P)
  <2>1. IsFiniteSet(DOMAIN g)
    BY <1>1 DEF IsAccount
  <2> QED
    BY <1>2, <2>1, RangeIsFinite
<1>5. PICK S : S = As(s, class)
  OBVIOUS
<1>6. IsFiniteSet(S) /\ S \subseteq DOMAIN s
  <2>1. S \in SUBSET DOMAIN s
    BY <1>5 DEF As
  <2> QED
    BY <2>1, FS_Subset DEF IsAccount
<1>7. PICK h : h = [p \in P |-> ProjectCoverage(s, p)[class]]
  OBVIOUS
<1>8. ASSUME NEW p \in P
      PROVE  h[p] = SumOver(f, Group(S, g, p))
  <2>1. PICK K : K = Group(S, g, p)
    OBVIOUS
  <2>2. K = Owned(s, p) \cap As(s, class)
    BY <1>1, <1>5, <1>6, <2>1 DEF Owned, Group
  <2>3. h[p] = SecsIn(s, K)
    BY <1>7, <1>8, <2>2, ProjectCoverageIs
  <2>4. PICK e : e = [k \in K |-> s[k].secs]
    OBVIOUS
  <2>5. SecsIn(s, K) = SumOver(e, K)
    BY <2>4, SecsInIs
  <2>6. IsFiniteSet(K)
    <3>1. K \in SUBSET S
      BY <2>1 DEF Group
    <3> QED
      BY <1>6, <3>1, FS_Subset
  <2>7. \A k \in K : e[k] = f[k]
    BY <1>1, <1>6, <2>1, <2>4 DEF Group
  <2>8. SumOver(e, K) = SumOver(f, K)
    BY <2>6, <2>7, SumSame
  <2> QED
    BY <2>1, <2>3, <2>5, <2>8
<1>9. \A k \in S : g[k] \in P /\ f[k] \in Int
  BY <1>1, <1>2, <1>6 DEF IsAccount
<1>10. SumOver(f, S) = SumOver(h, P)
  BY <1>4, <1>6, <1>8, <1>9, SumByGroups
<1>11. SecsIn(s, S) = SumOver(f, S)
  <2>1. PICK e : e = [k \in S |-> s[k].secs]
    OBVIOUS
  <2>2. \A k \in S : e[k] = f[k]
    BY <1>1, <1>6, <2>1
  <2>3. SumOver(e, S) = SumOver(f, S)
    BY <1>6, <2>2, SumSame
  <2>4. SecsIn(s, S) = SumOver(e, S)
    BY <2>1, SecsInIs
  <2> QED
    BY <2>3, <2>4
<1>12. Coverage(s)[class] = SecsIn(s, S)
  BY <1>5, CoverageIs
<1>13. ByProject(s, class, P) = SumOver(h, P)
  BY <1>7, ByProjectIs
<1>14. Coverage(s)[class] = ByProject(s, class, P)
  BY <1>10, <1>11, <1>12, <1>13
<1> QED
  BY <1>3, <1>14

LEMMA HeadAgrees ==
  ASSUME IsAccount(Evaluated, day), Agree(SliceTotal(day.slices), day.total), day.total \in Int
  PROVE  Agree(OverviewTotal, SecsIn(Evaluated, DOMAIN Evaluated))
<1>1. PICK t, slices : t = SliceTotal(day.slices) /\ slices = day.slices
  OBVIOUS
<1>2. SecsIn(Evaluated, DOMAIN Evaluated) = t /\ t \in Nat
  BY <1>1, WholeAccount
<1>3. Agree(t, t)
  BY <1>2, AgreesWithItself
<1>4. CASE HasTotal
  <2>1. Agree(day.total, t)
    BY <1>1, <1>2, DocumentsAssumption DEF Agree, Abs
  <2> QED
    BY <1>2, <1>4, <2>1 DEF OverviewTotal
<1>5. CASE ~HasTotal /\ IsActive
  BY <1>1, <1>2, <1>3, <1>5 DEF OverviewTotal
<1>6. CASE ~HasTotal /\ ~IsActive
  <2>1. \A k \in DOMAIN slices : slices[k] = 0
    BY <1>1, <1>6 DEF IsActive, IsAccount
  <2>2. IsFiniteSet(DOMAIN slices)
    BY <1>1, FS_Subset DEF IsAccount
  <2>3. SumOver(slices, DOMAIN slices) = 0
    BY <2>1, <2>2, SumOfZeros
  <2>4. t = 0
    BY <1>1, <2>3, SliceTotalIs
  <2> QED
    BY <1>2, <1>3, <1>6, <2>4 DEF OverviewTotal
<1> QED
  BY <1>4, <1>5, <1>6

(* What a list adds up to, class by class.                                    *)
LEMMA ListAgrees ==
  ASSUME IsAccount(Evaluated, day), NEW class \in WorkClasses
  PROVE  LET s == Evaluated  found == Activities(s, "all")  listed == Listed(s, found)
         IN  /\ Metrics(s, listed)[class] <= Coverage(s)[class]
             /\ ~Truncated(found) => Metrics(s, listed)[class] = Coverage(s)[class]
<1>1. PICK s : s = Evaluated
  OBVIOUS
<1>2. PICK found, listed : found = Activities(s, "all") /\ listed = Listed(s, found)
  OBVIOUS
<1>3. PICK A, B : A = As(s, class) /\ B = listed \cap As(s, class)
  OBVIOUS
<1>4. Coverage(s)[class] = SecsIn(s, A) /\ Metrics(s, listed)[class] = SecsIn(s, B)
  BY <1>3, CoverageIs DEF Metrics
<1>5. IsFiniteSet(A) /\ A \subseteq DOMAIN s
  <2>1. A \in SUBSET DOMAIN s
    BY <1>3 DEF As
  <2> QED
    BY <1>1, <2>1, FS_Subset DEF IsAccount
<1>6. \A k \in A : s[k].secs \in Nat
  BY <1>1, <1>5 DEF IsAccount
<1>7. SecsIn(s, B) <= SecsIn(s, A)
  BY <1>3, <1>5, <1>6, SecsInPart
<1>8. ASSUME ~Truncated(found)
      PROVE  SecsIn(s, B) = SecsIn(s, A)
  <2>1. listed = found
    BY <1>2, <1>8 DEF Listed
  <2>2. CASE DOMAIN day.slices = {}
    <3>1. \A k \in A : s[k].secs = 0
      BY <1>1, <1>5, <2>2 DEF IsAccount
    <3>2. SecsIn(s, A) = 0
      BY <1>5, <3>1, SecsInZeros
    <3>3. B = {}
      BY <1>2, <1>3, <2>1, <2>2 DEF Activities
    <3>4. SecsIn(s, B) = 0
      <4>1. IsFiniteSet(B) /\ \A k \in B : s[k].secs = 0
        BY <3>3, FS_EmptySet
      <4> QED
        BY <4>1, SecsInZeros
    <3> QED
      BY <3>2, <3>4
  <2>3. CASE DOMAIN day.slices # {}
    <3>1. found = DOMAIN s
      BY <1>2, <2>3 DEF Activities
    <3>2. B = A
      BY <1>3, <1>5, <2>1, <3>1
    <3> QED
      BY <3>2
  <2> QED
    BY <2>2, <2>3
<1> QED
  BY <1>1, <1>2, <1>4, <1>7, <1>8

LEMMA PagesDoAgree ==
  ASSUME IsAccount(Evaluated, day), Agree(SliceTotal(day.slices), day.total), day.total \in Int
  PROVE  PagesAgree(Evaluated)
<1>1. PICK s : s = Evaluated
  OBVIOUS
<1>2. Agree(OverviewTotal, SecsIn(s, DOMAIN s))
  BY <1>1, HeadAgrees
<1>3. ASSUME NEW recent \in RecentActivity
      PROVE  Agree(recent, SecsIn(s, DOMAIN s))
  <2>1. recent = OverviewTotal
    BY <1>3 DEF RecentActivity
  <2> QED
    BY <1>2, <2>1
<1>4. ASSUME NEW class \in WorkClasses
      PROVE  Coverage(s)[class] = ByProject(s, class, {k.project : k \in DOMAIN s})
  BY <1>1, <1>4, ProjectsShare
<1>5. ASSUME NEW class \in WorkClasses
      PROVE  /\ Metrics(s, Listed(s, Activities(s, "all")))[class] <= Coverage(s)[class]
             /\ ~Truncated(Activities(s, "all")) =>
                  Metrics(s, Listed(s, Activities(s, "all")))[class] = Coverage(s)[class]
  BY <1>1, <1>5, ListAgrees
<1>6. PagesAgree(s)
  BY <1>2, <1>3, <1>4, <1>5, Zenon DEF PagesAgree, ByProject
<1> QED
  BY <1>1, <1>6

-----------------------------------------------------------------------------
(* What was accepted is a summary WakaTime answered.                          *)
Answered(d) ==
  LET a == d.summaries.accepted
  IN  a # None => \E sum \in Summaries : sum.kind = "complete" /\ sum.value = a

LEMMA AcceptedIs ==
  ASSUME NEW d, DayInv(d), NEW sum, NEW hb, hb.kind = "complete" => hb.value # None
  PROVE  Reconciled(d, sum, hb).summaries.accepted \in {d.summaries.accepted, sum}
<1>1. PICK e : e = Reconciled(d, sum, hb)
  OBVIOUS
<1>2. CASE e = d
  BY <1>1, <1>2
<1>3. CASE e = Confirmed(d, sum, hb)
  <2>1. e.summaries.accepted = sum
    BY <1>3, DayConfirmed DEF DayInv
  <2> QED
    BY <1>1, <2>1
<1>4. CASE e = Preserved(d)
  <2>1. SameClaim(e.summaries, d.summaries)
    BY <1>4, DayPreserved DEF DayInv
  <2> QED
    BY <1>1, <2>1 DEF SameClaim
<1>5. CASE e = Replaced(d, sum, hb)
  <2>1. e.summaries.accepted = sum
    BY <1>5, DayReplaced DEF DayInv
  <2> QED
    BY <1>1, <2>1
<1> QED
  BY <1>1, <1>2, <1>3, <1>4, <1>5 DEF Reconciled

LEMMA AnsweredGoesOn == DayInv(day) /\ Answered(day) /\ [Next]_vars => Answered(day)'
<1> SUFFICES ASSUME DayInv(day), Answered(day), [Next]_vars PROVE Answered(day)'
  OBVIOUS
<1>1. PICK e : e = day'
  OBVIOUS
<1>2. CASE RulesOnly
  BY <1>2 DEF RulesOnly, Answered
<1>3. CASE SyncStep
  <2>1. PICK sum \in Summaries, hb \in Heartbeats :
          sum.kind = "complete" /\ e = Reconciled(Noted(day, Attempt(sum, hb)), sum.value, hb)
    BY <1>1, <1>3 DEF SyncStep
  <2>2. PICK n : n = Noted(day, Attempt(sum, hb))
    OBVIOUS
  <2>3. DayInv(n)
    BY <2>2, NotedOK
  <2>4. n.summaries.accepted = day.summaries.accepted
    BY <2>2, DayNoted DEF DayInv, SameClaim
  <2>5. PICK v : v = sum.value
    OBVIOUS
  <2>6. e.summaries.accepted \in {n.summaries.accepted, v}
    <3>1. hb.kind = "complete" => hb.value # None
      BY <2>1, SyncSummary
    <3>2. e = Reconciled(n, v, hb)
      BY <2>1, <2>2, <2>5
    <3> QED
      BY <2>3, <3>1, <3>2, AcceptedIs
  <2>7. Answered(e)
    BY <2>1, <2>4, <2>5, <2>6 DEF Answered
  <2> QED
    BY <1>1, <2>7
<1>4. CASE MissStep
  <2>1. PICK attempt : e = Noted(day, attempt)
    BY <1>1, <1>4 DEF MissStep
  <2>2. e.summaries.accepted = day.summaries.accepted
    BY <2>1, DayNoted DEF DayInv, SameClaim
  <2>3. Answered(e)
    BY <2>2 DEF Answered
  <2> QED
    BY <1>1, <2>3
<1>5. CASE ImportStep
  <2>1. PICK dump \in Dumps : e = Imported(day, dump)
    BY <1>1, <1>5 DEF ImportStep
  <2>2. e.summaries = day.summaries
    BY <2>1, DayImported DEF DayInv
  <2>3. Answered(e)
    BY <2>2 DEF Answered
  <2> QED
    BY <1>1, <2>3
<1>6. CASE MarkStep
  <2>1. PICK marks : e = [day EXCEPT !.allocations = marks]
    BY <1>1, <1>6 DEF MarkStep
  <2>2. e.summaries = day.summaries
    BY <2>1 DEF DayInv, IsWell, IsDay
  <2>3. Answered(e)
    BY <2>2 DEF Answered
  <2> QED
    BY <1>1, <2>3
<1> QED
  BY <1>2, <1>3, <1>4, <1>5, <1>6, DaySteps

LEMMA AnsweredBegins == Init => Answered(day)
<1>1. EmptyDay.summaries = NoLayer /\ NoLayer.accepted = None
  BY DEF EmptyDay, NoLayer
<1> QED
  BY <1>1 DEF Init, Answered

LEMMA AnsweredAlways == Spec => []Answered(day)
BY AnsweredBegins, AnsweredGoesOn, DayAlways, PTL DEF Spec

(* What a summary gives a project.                                            *)
Given(v, p) == SumOver(v.slices, {k \in DOMAIN v.slices : k.project = p})

LEMMA DimensionsAreModest ==
  ASSUME ModestDimensions, DayInv(day), Answered(day), day.summaries.accepted # None,
         NEW d \in day.dims
  PROVE  d.secs - Given(day, d.project) <= Tolerance
<1>1. PICK sum \in Summaries : sum.kind = "complete" /\ sum.value = day.summaries.accepted
  BY DEF Answered
<1>2. PICK v : v = sum.value
  OBVIOUS
<1>3. v.slices = day.slices /\ d \in v.dims
  BY <1>1, <1>2 DEF DayInv, SnapshotOK
<1>4. \A e \in sum.value.dims : e.secs - Given(sum.value, e.project) <= Tolerance
  BY <1>1 DEF ModestDimensions, Given, SumOver
<1>5. d.secs - Given(v, d.project) <= Tolerance
  BY <1>2, <1>3, <1>4
<1>6. Given(v, d.project) = Given(day, d.project)
  BY <1>3 DEF Given
<1> QED
  BY <1>5, <1>6

LEMMA NoOtherClass ==
  ASSUME NEW d, NEW s, IsAccount(s, d), NEW p \in Told(s), ~HasNonWork(s, p)
  PROVE  /\ ProjectCoverage(s, p)["work"] = Given(d, p)
         /\ OverviewClass(s, p) = "work"
<1>1. PICK K : K = Owned(s, p)
  OBVIOUS
<1>2. K \subseteq As(s, "work") /\ K \subseteq DOMAIN s
  BY <1>1 DEF HasNonWork, Owned
<1>3. K \cap As(s, "work") = K
  BY <1>2
<1>4. ASSUME NEW class \in WorkClasses, class # "work"
      PROVE  ProjectCoverage(s, p)[class] = 0
  <2>1. K \cap As(s, class) = {}
    BY <1>2, <1>4 DEF As
  <2>2. IsFiniteSet({}) /\ \A k \in {} : s[k].secs = 0
    BY FS_EmptySet
  <2>3. SecsIn(s, {}) = 0
    BY <2>2, SecsInZeros
  <2> QED
    BY <1>1, <2>1, <2>3, ProjectCoverageIs
<1>5. ProjectCoverage(s, p)["work"] = SecsIn(s, K)
  BY <1>1, <1>3, ProjectCoverageIs DEF WorkClasses
<1>6. SecsIn(s, K) = Given(d, p)
  <2>1. PICK A : A = {k \in DOMAIN d.slices : k.project = p}
    OBVIOUS
  <2>2. K \cap DOMAIN d.slices = A
    BY <1>1, <2>1 DEF Owned, IsAccount
  <2>3. SecsIn(s, K) = SumOver(d.slices, A)
    BY <1>2, <2>2, SecsOfSlices
  <2> QED
    BY <2>1, <2>3 DEF Given
<1>7. PICK classes : classes = {class \in WorkClasses : ProjectCoverage(s, p)[class] > 0}
  OBVIOUS
<1>8. classes = {"work"}
  <2>1. ProjectCoverage(s, p)["work"] > 0
    BY DEF Told
  <2> QED
    BY <1>4, <1>7, <2>1 DEF WorkClasses
<1>9. Cardinality(classes) = 1
  BY <1>8, FS_Singleton
<1>10. OverviewClass(s, p) = "work"
  <2>1. OverviewClass(s, p) = CASE classes = {} -> "unclassified"
                                [] Cardinality(classes) = 1 -> CHOOSE class \in classes : TRUE
                                [] OTHER -> "mixed"
    BY <1>7 DEF OverviewClass
  <2>2. classes # {} /\ (CHOOSE class \in classes : TRUE) = "work"
    BY <1>8
  <2> QED
    BY <1>9, <2>1, <2>2
<1> QED
  BY <1>5, <1>6, <1>10

LEMMA BreakdownDoesFit ==
  ASSUME ModestDimensions, DayInv(day), Answered(day), day.summaries.accepted # None,
         IsAccount(Evaluated, day)
  PROVE  BreakdownIsWork(Evaluated)
<1>1. PICK s, a : s = Evaluated /\ a = GetDayEvidence(s)
  OBVIOUS
<1>2. a.projects = [p \in Told(s) |-> ProjectSummary(s, p)]
  BY <1>1, DayEvidenceIs
<1>3. ASSUME NEW p \in DOMAIN a.projects, a.projects[p].breakdown # {}
      PROVE  /\ \A d \in a.projects[p].breakdown : d.secs - a.projects[p].secs <= Tolerance
             /\ OverviewClass(s, p) = "work"
  <2>1. PICK told, f : f = a.projects /\ told = ProjectSummary(s, p)
    OBVIOUS
  <2>2. p \in Told(s) /\ f[p] = told
    BY <1>2, <1>3, <2>1
  <2>3. /\ told.secs = ProjectCoverage(s, p)["work"]
        /\ told.breakdown = IF HasNonWork(s, p) THEN {} ELSE FetchProjectBreakdown(p)
    BY <2>1 DEF ProjectSummary
  <2>4. ~HasNonWork(s, p)
    BY <1>3, <2>1, <2>2, <2>3
  <2>5. told.secs = Given(day, p) /\ OverviewClass(s, p) = "work"
    BY <1>1, <2>2, <2>3, <2>4, NoOtherClass
  <2>6. ASSUME NEW d \in told.breakdown
        PROVE  d.secs - told.secs <= Tolerance
    <3>1. d \in day.dims /\ d.project = p
      BY <2>3, <2>4, <2>6 DEF FetchProjectBreakdown
    <3> QED
      BY <2>5, <3>1, DimensionsAreModest
  <2> QED
    BY <2>1, <2>2, <2>5, <2>6
<1>4. ASSUME NEW b, b = GetDayEvidence(s),
             \A p \in DOMAIN b.projects : b.projects[p].breakdown # {} =>
               /\ \A d \in b.projects[p].breakdown : d.secs - b.projects[p].secs <= Tolerance
               /\ OverviewClass(s, p) = "work"
      PROVE  BreakdownIsWork(s)
  BY <1>4, Zenon DEF BreakdownIsWork
<1>5. BreakdownIsWork(s)
  BY <1>1, <1>3, <1>4
<1> QED
  BY <1>1, <1>5

-----------------------------------------------------------------------------
(* The theorem on the answers.                                                *)

(* An agent learns nothing of seconds that are not work, its answers add up   *)
(* to the day, the activities behind a suggestion are all that a rule made    *)
(* from it would decide, and every page of the operator shows the same        *)
(* seconds: for any answers of WakaTime whose categories count no more than   *)
(* their projects, any patterns and folders that are suggested, any rules and *)
(* any marks (getDayEvidence, getProjectEvidence, getOverview,                *)
(* getUnclassifiedSuggestions, getActivityData).                              *)
THEOREM OnlyWorkStaysTold == ModestDimensions => (Spec => []OnlyWorkIsTold)
<1> SUFFICES ASSUME ModestDimensions PROVE Spec => []OnlyWorkIsTold
  OBVIOUS
<1>1. DayInv(day) /\ RulesInv /\ Answered(day) => OnlyWorkIsTold
  <2> SUFFICES ASSUME DayInv(day), RulesInv, Answered(day), day.summaries.accepted # None
               PROVE  /\ BreakdownIsWork(Evaluated) /\ AnswersAddUp(Evaluated)
                      /\ SuggestionsAreShown(Evaluated) /\ PagesAgree(Evaluated)
    BY Zenon DEF OnlyWorkIsTold
  <2>1. /\ IsAccount(Evaluated, day)
        /\ Agree(SliceTotal(day.slices), day.total) /\ day.total \in Int
    BY TheAccount
  <2>2. BreakdownIsWork(Evaluated)
    BY <2>1, BreakdownDoesFit
  <2>3. AnswersAddUp(Evaluated)
    BY <2>1, AnswersDoAddUp
  <2>4. SuggestionsAreShown(Evaluated)
    BY <2>1, SuggestionsDoShow
  <2>5. PagesAgree(Evaluated)
    BY <2>1, PagesDoAgree
  <2> QED
    BY <2>2, <2>3, <2>4, <2>5
<1> QED
  BY <1>1, DayAlways, RulesAlways, AnsweredAlways, PTL

-----------------------------------------------------------------------------
(* The matcher of patterns (GlobMatcher).  That a recursive function on the   *)
(* numbers exists is proved once, for a step that is given as a function.     *)

LEMMA Inductive ==
  ASSUME NEW D, 0 \in D, \A n \in Nat : n \in D => n + 1 \in D
  PROVE  Nat \subseteq D
<1> DEFINE Bad == {n \in Nat : n \notin D}
<1>1. ASSUME Bad # {} PROVE FALSE
  <2>1. PICK n \in Bad : \A m \in Bad : n <= m
    BY <1>1, LeastOne
  <2>2. n # 0 /\ n - 1 \in Nat
    BY <2>1
  <2>3. n - 1 \in D
    BY <2>1, <2>2
  <2>4. (n - 1) + 1 \in D
    BY <2>2, <2>3
  <2> QED
    BY <2>1, <2>2, <2>4
<1> QED
  BY <1>1

Unfolds(g, N, base, F) ==
  g[0] = base /\ \A n \in 1 .. N : g[n] = F[n][g[n - 1]]

LEMMA Recursion ==
  ASSUME NEW N \in Nat, NEW V, NEW base \in V, NEW F \in [1 .. N -> [V -> V]]
  PROVE  \E g \in [0 .. N -> V] : Unfolds(g, N, base, F)
<1> DEFINE D == {n \in Nat : n <= N => \E g \in [0 .. n -> V] : Unfolds(g, n, base, F)}
<1>1. 0 \in D
  <2>1. [i \in 0 .. 0 |-> base] \in [0 .. 0 -> V] /\ Unfolds([i \in 0 .. 0 |-> base], 0, base, F)
    BY DEF Unfolds
  <2> QED
    BY <2>1
<1>2. ASSUME NEW n \in Nat, n \in D PROVE n + 1 \in D
  <2> SUFFICES ASSUME n + 1 <= N
               PROVE  \E g \in [0 .. n + 1 -> V] : Unfolds(g, n + 1, base, F)
    OBVIOUS
  <2>1. PICK g \in [0 .. n -> V] : Unfolds(g, n, base, F)
    BY <1>2
  <2> DEFINE h == [i \in 0 .. n + 1 |-> IF i <= n THEN g[i] ELSE F[n + 1][g[n]]]
  <2>2. F[n + 1] \in [V -> V] /\ g[n] \in V
    BY <2>1
  <2>3. h \in [0 .. n + 1 -> V]
    BY <2>2
  <2>4. h[0] = base
    BY <2>1 DEF Unfolds
  <2>5. ASSUME NEW i \in 1 .. n + 1 PROVE h[i] = F[i][h[i - 1]]
    <3>1. i - 1 \in 0 .. n /\ h[i - 1] = g[i - 1]
      OBVIOUS
    <3>2. CASE i <= n
      BY <2>1, <3>1, <3>2 DEF Unfolds
    <3>3. CASE i = n + 1
      BY <3>1, <3>3
    <3> QED
      BY <3>2, <3>3
  <2> QED
    BY <2>3, <2>4, <2>5 DEF Unfolds
<1> HIDE DEF D
<1>3. Nat \subseteq D
  BY <1>1, <1>2, Inductive
<1> QED
  BY <1>3 DEF D

(* Tokens and what they span.                                                 *)
Kinded(S) == [kind : {"LITERAL", "STAR", "QUESTION"}, value : Seq(S)]
TokensOver(S) == {token \in Kinded(S) : token.kind = "LITERAL" => Len(token.value) > 0}

(* A token spans the text after the first a characters, up to the b-th.       *)
Spans(token, text, a, b) ==
  /\ token.kind = "LITERAL" =>
       b = a + Len(token.value) /\ \A i \in 1 .. Len(token.value) : text[a + i] = token.value[i]
  /\ token.kind = "QUESTION" => b = a + 1
  /\ token.kind = "STAR" => a <= b

(* The tokens after the t-th, up to the u-th, span the text from c to d.      *)
Places(cut, tokens, text, t, u) ==
  \A i \in t + 1 .. u : Spans(tokens[i], text, cut[i - 1], cut[i])
Leads(tokens, text, t, c, u, d) ==
  \E cut \in [t .. u -> 0 .. Len(text)] :
    cut[t] = c /\ cut[u] = d /\ Places(cut, tokens, text, t, u)

LEMMA LeadsNowhere ==
  ASSUME NEW tokens, NEW text, NEW t \in Nat, NEW c \in 0 .. Len(text), NEW d
  PROVE  Leads(tokens, text, t, c, t, d) <=> c = d
<1>1. ASSUME c = d PROVE Leads(tokens, text, t, c, t, d)
  <2>1. [i \in t .. t |-> c] \in [t .. t -> 0 .. Len(text)]
    OBVIOUS
  <2>2. Places([i \in t .. t |-> c], tokens, text, t, t)
    BY DEF Places
  <2>3. [i \in t .. t |-> c][t] = c
    OBVIOUS
  <2> QED
    BY <1>1, <2>1, <2>2, <2>3 DEF Leads
<1> QED
  BY <1>1 DEF Leads

LEMMA LeadsFirst ==
  ASSUME NEW tokens, NEW text, NEW t \in Nat, NEW u \in Nat, t < u,
         NEW c \in 0 .. Len(text), NEW d
  PROVE  Leads(tokens, text, t, c, u, d) <=>
           \E e \in 0 .. Len(text) :
             Spans(tokens[t + 1], text, c, e) /\ Leads(tokens, text, t + 1, e, u, d)
<1>1. ASSUME Leads(tokens, text, t, c, u, d)
      PROVE  \E e \in 0 .. Len(text) :
               Spans(tokens[t + 1], text, c, e) /\ Leads(tokens, text, t + 1, e, u, d)
  <2>1. PICK cut \in [t .. u -> 0 .. Len(text)] :
          cut[t] = c /\ cut[u] = d /\ Places(cut, tokens, text, t, u)
    BY <1>1 DEF Leads
  <2> DEFINE rest == [i \in t + 1 .. u |-> cut[i]]
  <2>2. rest \in [t + 1 .. u -> 0 .. Len(text)] /\ rest[t + 1] = cut[t + 1] /\ rest[u] = d
    BY <2>1
  <2>3. ASSUME NEW i \in t + 2 .. u PROVE Spans(tokens[i], text, rest[i - 1], rest[i])
    <3>1. i \in t + 1 .. u /\ rest[i - 1] = cut[i - 1] /\ rest[i] = cut[i]
      OBVIOUS
    <3> QED
      BY <2>1, <3>1 DEF Places
  <2>4. Places(rest, tokens, text, t + 1, u)
    <3>1. (t + 1) + 1 = t + 2
      OBVIOUS
    <3> QED
      BY <2>3, <3>1 DEF Places
  <2>5. Spans(tokens[t + 1], text, c, cut[t + 1]) /\ cut[t + 1] \in 0 .. Len(text)
    <3>1. t + 1 \in t + 1 .. u /\ (t + 1) - 1 = t
      OBVIOUS
    <3> QED
      BY <2>1, <3>1 DEF Places
  <2> HIDE DEF rest
  <2> QED
    BY <2>2, <2>4, <2>5 DEF Leads
<1>2. ASSUME NEW e \in 0 .. Len(text), Spans(tokens[t + 1], text, c, e),
             Leads(tokens, text, t + 1, e, u, d)
      PROVE  Leads(tokens, text, t, c, u, d)
  <2>1. PICK rest \in [t + 1 .. u -> 0 .. Len(text)] :
          rest[t + 1] = e /\ rest[u] = d /\ Places(rest, tokens, text, t + 1, u)
    BY <1>2 DEF Leads
  <2> DEFINE cut == [i \in t .. u |-> IF i = t THEN c ELSE rest[i]]
  <2>2. cut \in [t .. u -> 0 .. Len(text)] /\ cut[t] = c /\ cut[u] = d
    BY <2>1
  <2>3. ASSUME NEW i \in t + 1 .. u PROVE Spans(tokens[i], text, cut[i - 1], cut[i])
    <3>1. CASE i = t + 1
      <4>1. cut[i - 1] = c /\ cut[i] = e
        BY <2>1, <3>1
      <4> QED
        BY <1>2, <3>1, <4>1
    <3>2. CASE i # t + 1
      <4>1. i \in (t + 1) + 1 .. u /\ cut[i - 1] = rest[i - 1] /\ cut[i] = rest[i]
        BY <3>2
      <4> QED
        BY <2>1, <4>1 DEF Places
    <3> QED
      BY <3>1, <3>2
  <2>4. Places(cut, tokens, text, t, u)
    BY <2>3 DEF Places
  <2> HIDE DEF cut
  <2> QED
    BY <2>2, <2>4 DEF Leads
<1> QED
  BY <1>1, <1>2

LEMMA LeadsLast ==
  ASSUME NEW tokens, NEW text, NEW t \in Nat, NEW u \in Nat, t <= u,
         NEW c \in 0 .. Len(text), NEW d \in 0 .. Len(text)
  PROVE  Leads(tokens, text, t, c, u + 1, d) <=>
           \E e \in 0 .. Len(text) :
             Leads(tokens, text, t, c, u, e) /\ Spans(tokens[u + 1], text, e, d)
<1>1. ASSUME Leads(tokens, text, t, c, u + 1, d)
      PROVE  \E e \in 0 .. Len(text) :
               Leads(tokens, text, t, c, u, e) /\ Spans(tokens[u + 1], text, e, d)
  <2>1. PICK cut \in [t .. u + 1 -> 0 .. Len(text)] :
          cut[t] = c /\ cut[u + 1] = d /\ Places(cut, tokens, text, t, u + 1)
    BY <1>1 DEF Leads
  <2> DEFINE part == [i \in t .. u |-> cut[i]]
  <2>2. part \in [t .. u -> 0 .. Len(text)] /\ part[t] = c /\ part[u] = cut[u]
    BY <2>1
  <2>3. ASSUME NEW i \in t + 1 .. u PROVE Spans(tokens[i], text, part[i - 1], part[i])
    <3>1. i \in t + 1 .. u + 1 /\ part[i - 1] = cut[i - 1] /\ part[i] = cut[i]
      OBVIOUS
    <3> QED
      BY <2>1, <3>1 DEF Places
  <2>4. Places(part, tokens, text, t, u)
    BY <2>3 DEF Places
  <2>5. Spans(tokens[u + 1], text, cut[u], d) /\ cut[u] \in 0 .. Len(text)
    <3>1. u + 1 \in t + 1 .. u + 1 /\ (u + 1) - 1 = u /\ u \in t .. u + 1
      OBVIOUS
    <3> QED
      BY <2>1, <3>1 DEF Places
  <2> HIDE DEF part
  <2> QED
    BY <2>2, <2>4, <2>5 DEF Leads
<1>2. ASSUME NEW e \in 0 .. Len(text), Leads(tokens, text, t, c, u, e),
             Spans(tokens[u + 1], text, e, d)
      PROVE  Leads(tokens, text, t, c, u + 1, d)
  <2>1. PICK part \in [t .. u -> 0 .. Len(text)] :
          part[t] = c /\ part[u] = e /\ Places(part, tokens, text, t, u)
    BY <1>2 DEF Leads
  <2> DEFINE cut == [i \in t .. u + 1 |-> IF i = u + 1 THEN d ELSE part[i]]
  <2>2. cut \in [t .. u + 1 -> 0 .. Len(text)] /\ cut[t] = c /\ cut[u + 1] = d
    BY <2>1
  <2>3. ASSUME NEW i \in t + 1 .. u + 1 PROVE Spans(tokens[i], text, cut[i - 1], cut[i])
    <3>1. CASE i = u + 1
      <4>1. cut[i - 1] = e /\ cut[i] = d
        BY <2>1, <3>1
      <4> QED
        BY <1>2, <3>1, <4>1
    <3>2. CASE i # u + 1
      <4>1. i \in t + 1 .. u /\ cut[i - 1] = part[i - 1] /\ cut[i] = part[i]
        BY <3>2
      <4> QED
        BY <2>1, <4>1 DEF Places
    <3> QED
      BY <3>1, <3>2
  <2>4. Places(cut, tokens, text, t, u + 1)
    BY <2>3 DEF Places
  <2> HIDE DEF cut
  <2> QED
    BY <2>2, <2>4 DEF Leads
<1> QED
  BY <1>1, <1>2

LEMMA LeadsSame ==
  ASSUME NEW tokens, NEW others, NEW text, NEW t \in Nat, NEW u \in Nat, NEW c, NEW d,
         \A i \in t + 1 .. u : tokens[i] = others[i]
  PROVE  Leads(tokens, text, t, c, u, d) <=> Leads(others, text, t, c, u, d)
BY DEF Leads, Places

-----------------------------------------------------------------------------
(* From the symbols of a pattern to its tokens.                               *)

(* Where the tokens may end, if they begin with the text.                     *)
Ends(tokens, text) == {j \in 0 .. Len(text) : Leads(tokens, text, 0, 0, Len(tokens), j)}

LEMMA AddedIs ==
  ASSUME NEW S, NEW tokens \in Seq(TokensOver(S)), NEW symbol \in S
  PROVE  Added(tokens, symbol) \in Seq(TokensOver(S))
<1>1. ASSUME NEW v \in Seq(S), Len(v) > 0 PROVE Literal(v) \in TokensOver(S)
  BY <1>1 DEF Literal, TokensOver, Kinded
<1>2. Wildcard(symbol) \in TokensOver(S)
  BY DEF Wildcard, TokensOver, Kinded
<1>3. <<symbol>> \in Seq(S) /\ Len(<<symbol>>) > 0
  OBVIOUS
<1>4. ASSUME tokens # <<>>
      PROVE  /\ Front(tokens) \in Seq(TokensOver(S)) /\ Last(tokens) \in TokensOver(S)
             /\ Append(Last(tokens).value, symbol) \in Seq(S)
             /\ Len(Append(Last(tokens).value, symbol)) > 0
  <2>1. Len(tokens) \in Nat /\ Len(tokens) >= 1
    BY <1>4, EmptySeq
  <2>2. Front(tokens) \in Seq(TokensOver(S))
    BY <2>1, SubSeqProperties DEF Front
  <2>3. Last(tokens) \in TokensOver(S)
    BY <2>1 DEF Last
  <2> HIDE DEF TokensOver
  <2>4. Last(tokens).value \in Seq(S)
    BY <2>3 DEF TokensOver, Kinded
  <2>5. Append(Last(tokens).value, symbol) \in Seq(S)
        /\ Len(Append(Last(tokens).value, symbol)) = Len(Last(tokens).value) + 1
    BY <2>4, AppendProperties
  <2> QED
    BY <2>2, <2>3, <2>4, <2>5
<1>5. Literal(<<symbol>>) \in TokensOver(S)
  BY <1>1, <1>3
<1>6. tokens # <<>> => Literal(Append(Last(tokens).value, symbol)) \in TokensOver(S)
  BY <1>1, <1>4
<1> QED
  BY <1>2, <1>4, <1>5, <1>6 DEF Added

(* One more token.                                                            *)
LEMMA EndsAppend ==
  ASSUME NEW S, NEW tokens \in Seq(S), NEW token \in S, NEW text
  PROVE  Ends(Append(tokens, token), text) =
           {j \in 0 .. Len(text) : \E k \in Ends(tokens, text) : Spans(token, text, k, j)}
<1> DEFINE u == Len(tokens)  more == Append(tokens, token)
<1>1. u \in Nat /\ Len(more) = u + 1 /\ more[u + 1] = token
      /\ \A i \in 0 + 1 .. u : tokens[i] = more[i]
  OBVIOUS
<1> HIDE DEF more, u
<1> SUFFICES ASSUME NEW j \in 0 .. Len(text)
             PROVE  Leads(more, text, 0, 0, u + 1, j) <=>
                      \E k \in Ends(tokens, text) : Spans(token, text, k, j)
  BY <1>1 DEF Ends, more
<1>2. 0 \in 0 .. Len(text) /\ 0 <= u
  BY <1>1
<1>3. Leads(more, text, 0, 0, u + 1, j) <=>
        \E e \in 0 .. Len(text) : Leads(more, text, 0, 0, u, e) /\ Spans(more[u + 1], text, e, j)
  BY <1>1, <1>2, LeadsLast
<1>4. \A e \in 0 .. Len(text) : Leads(tokens, text, 0, 0, u, e) <=> Leads(more, text, 0, 0, u, e)
  <2> TAKE e \in 0 .. Len(text)
  <2> QED
    BY <1>1, LeadsSame
<1> QED
  BY <1>1, <1>3, <1>4 DEF Ends, u

LEMMA StartOf ==
  ASSUME NEW S, NEW s \in Seq(S), NEW k \in Nat, k <= Len(s)
  PROVE  /\ SubSeq(s, 1, k) \in Seq(S) /\ Len(SubSeq(s, 1, k)) = k
         /\ \A i \in 1 .. k : SubSeq(s, 1, k)[i] = s[i]
<1>1. 1 \in Int /\ k \in Int /\ \A i \in 1 .. k : s[i] \in S
  OBVIOUS
<1>2. /\ SubSeq(s, 1, k) \in Seq(S)
      /\ Len(SubSeq(s, 1, k)) = IF 1 <= k THEN k - 1 + 1 ELSE 0
      /\ \A i \in 1 .. k - 1 + 1 : SubSeq(s, 1, k)[i] = s[1 + i - 1]
  BY <1>1, SubSeqProperties
<1>3. k - 1 + 1 = k /\ \A i \in 1 .. k : 1 + i - 1 = i
  OBVIOUS
<1>4. Len(SubSeq(s, 1, k)) = k
  BY <1>2
<1> QED
  BY <1>2, <1>3, <1>4

(* What stands before the last token, and that token.                         *)
LEMMA SplitLast ==
  ASSUME NEW S, NEW tokens \in Seq(S), tokens # <<>>
  PROVE  /\ Front(tokens) \in Seq(S) /\ Last(tokens) \in S
         /\ tokens = Append(Front(tokens), Last(tokens))
<1>1. Len(tokens) \in Nat /\ Len(tokens) >= 1
  BY EmptySeq
<1>2. Front(tokens) \in Seq(S) /\ Len(Front(tokens)) = Len(tokens) - 1
      /\ \A i \in 1 .. Len(tokens) - 1 : Front(tokens)[i] = tokens[i]
  <2> DEFINE m == Len(tokens) - 1
  <2>1. m \in Nat /\ m <= Len(tokens)
    BY <1>1
  <2> HIDE DEF m
  <2>2. SubSeq(tokens, 1, m) \in Seq(S) /\ Len(SubSeq(tokens, 1, m)) = m
        /\ \A i \in 1 .. m : SubSeq(tokens, 1, m)[i] = tokens[i]
    BY <2>1, StartOf
  <2> QED
    BY <2>2 DEF Front, m
<1>3. Last(tokens) \in S
  BY <1>1 DEF Last
<1> DEFINE f == Front(tokens)  l == Last(tokens)
<1>4. l = tokens[Len(tokens)]
  BY DEF Last
<1> HIDE DEF f, l
<1>5. f \in Seq(S) /\ l \in S /\ Len(f) = Len(tokens) - 1
      /\ \A i \in 1 .. Len(tokens) - 1 : f[i] = tokens[i]
  BY <1>2, <1>3 DEF f, l
<1>6. Append(f, l) \in Seq(S) /\ Len(Append(f, l)) = Len(tokens)
      /\ \A i \in 1 .. Len(tokens) : Append(f, l)[i] = tokens[i]
  BY <1>1, <1>4, <1>5
<1>7. tokens = Append(f, l)
  BY <1>1, <1>6, SeqEqual
<1> QED
  BY <1>2, <1>3, <1>7 DEF f, l

LEMMA OneMore ==
  ASSUME NEW n \in Nat, NEW D
  PROVE  (\A i \in 1 .. n + 1 : i \in D) <=> (\A i \in 1 .. n : i \in D) /\ n + 1 \in D
<1>1. \A i : i \in 1 .. n + 1 <=> i \in 1 .. n \/ i = n + 1
  OBVIOUS
<1> QED
  BY <1>1

(* A literal that is one character longer ends one character later.           *)
LEMMA LongerFits ==
  ASSUME NEW S, NEW v \in Seq(S), NEW symbol \in S, NEW text, NEW a \in Nat, NEW b \in Nat
  PROVE  Spans(Literal(Append(v, symbol)), text, a, b) <=>
           Spans(Literal(v), text, a, b - 1) /\ text[b] = symbol
<1> SUFFICES ASSUME NEW w, w = Append(v, symbol), NEW n, n = Len(v)
             PROVE  Spans(Literal(w), text, a, b) <=>
                      Spans(Literal(v), text, a, b - 1) /\ text[b] = symbol
  OBVIOUS
<1>1. n \in Nat /\ Len(w) = n + 1 /\ w[n + 1] = symbol /\ \A i \in 1 .. n : w[i] = v[i]
  OBVIOUS
<1>2. /\ Spans(Literal(w), text, a, b) <=>
           b = a + (n + 1) /\ \A i \in 1 .. n + 1 : text[a + i] = w[i]
      /\ Spans(Literal(v), text, a, b - 1) <=>
           b - 1 = a + n /\ \A i \in 1 .. n : text[a + i] = v[i]
  BY <1>1 DEF Spans, Literal
<1>3. \A i \in 1 .. n : i \in Int
  BY <1>1
<1>4. b = a + (n + 1) <=> b - 1 = a + n
  BY <1>1
<1>5. b = a + (n + 1) =>
        ((\A i \in 1 .. n + 1 : text[a + i] = w[i]) <=>
           (\A i \in 1 .. n : text[a + i] = v[i]) /\ text[b] = symbol)
  <2> SUFFICES ASSUME b = a + (n + 1)
               PROVE  (\A i \in 1 .. n + 1 : text[a + i] = w[i]) <=>
                        (\A i \in 1 .. n : text[a + i] = v[i]) /\ text[b] = symbol
    OBVIOUS
  <2>1. (\A i \in 1 .. n + 1 : text[a + i] = w[i]) <=>
          (\A i \in 1 .. n : text[a + i] = w[i]) /\ text[a + (n + 1)] = w[n + 1]
    <3> DEFINE D == {i \in Int : text[a + i] = w[i]}
    <3>1. (\A i \in 1 .. n + 1 : i \in D) <=> (\A i \in 1 .. n : i \in D) /\ n + 1 \in D
      <4> HIDE DEF D
      <4> QED
        BY <1>1, OneMore
    <3>2. n + 1 \in Int /\ \A i \in 1 .. n + 1 : i \in Int
      BY <1>1
    <3>3. \A i \in Int : i \in D <=> text[a + i] = w[i]
      OBVIOUS
    <3> HIDE DEF D
    <3> QED
      BY <1>3, <3>1, <3>2, <3>3
  <2>2. (\A i \in 1 .. n : text[a + i] = w[i]) <=> (\A i \in 1 .. n : text[a + i] = v[i])
    BY <1>1
  <2> QED
    BY <1>1, <2>1, <2>2
<1> QED
  BY <1>2, <1>4, <1>5

LEMMA AddedEnds ==
  ASSUME NEW S, NEW tokens \in Seq(TokensOver(S)), NEW symbol \in S, NEW text, Len(text) \in Nat
  PROVE  Ends(Added(tokens, symbol), text) = Beyond(symbol, text, Ends(tokens, text))
<1> DEFINE n == Len(text)
<1> SUFFICES ASSUME NEW before, before = Ends(tokens, text)
             PROVE  Ends(Added(tokens, symbol), text) = Beyond(symbol, text, before)
  OBVIOUS
<1>1. before \subseteq 0 .. n
  BY DEF Ends
<1>2. /\ Literal(<<symbol>>) \in TokensOver(S) /\ Wildcard(symbol) \in TokensOver(S)
      /\ \A v \in Seq(S) : Len(v) > 0 => Literal(v) \in TokensOver(S)
  <2>1. ASSUME NEW v \in Seq(S), Len(v) > 0 PROVE Literal(v) \in TokensOver(S)
    BY <2>1 DEF Literal, TokensOver, Kinded
  <2>2. Wildcard(symbol) \in TokensOver(S)
    BY DEF Wildcard, TokensOver, Kinded
  <2>3. <<symbol>> \in Seq(S) /\ Len(<<symbol>>) > 0
    OBVIOUS
  <2> QED
    BY <2>1, <2>2, <2>3
<1>3. CASE symbol \notin {Star, Question} /\ tokens # <<>> /\ Last(tokens).kind = "LITERAL"
  <2> DEFINE f == Front(tokens)  l == Last(tokens)  v == l.value
  <2>1. f \in Seq(TokensOver(S)) /\ l \in TokensOver(S) /\ tokens = Append(f, l)
    BY <1>3, SplitLast
  <2>2. Added(tokens, symbol) = Append(f, Literal(Append(v, symbol)))
    BY <1>3 DEF Added
  <2>3. l.kind = "LITERAL"
    BY <1>3
  <2> HIDE DEF f, l
  <2>4. v \in Seq(S) /\ l = Literal(v)
    BY <2>1, <2>3 DEF TokensOver, Kinded, Literal
  <2> HIDE DEF v
  <2> DEFINE w == Append(v, symbol)  longer == Literal(w)
  <2>5. longer \in TokensOver(S) /\ Added(tokens, symbol) = Append(f, longer)
    <3>1. w \in Seq(S) /\ Len(w) = Len(v) + 1 /\ Len(v) \in Nat
      BY <2>4
    <3>2. Added(tokens, symbol) = Append(f, Literal(w))
      BY <2>2
    <3> HIDE DEF w
    <3> QED
      BY <1>2, <3>1, <3>2
  <2> HIDE DEF w, longer
  <2>6. Ends(Append(f, longer), text) =
          {j \in 0 .. n : \E k \in Ends(f, text) : Spans(longer, text, k, j)}
    BY <2>1, <2>5, EndsAppend
  <2>7. before = {j \in 0 .. n : \E k \in Ends(f, text) : Spans(l, text, k, j)}
    BY <2>1, EndsAppend
  <2>8. Beyond(symbol, text, before) = {j \in 0 .. n : j - 1 \in before /\ text[j] = symbol}
    BY <1>3 DEF Beyond
  <2>9. \A k \in Ends(f, text), j \in 0 .. n :
          Spans(longer, text, k, j) <=> Spans(l, text, k, j - 1) /\ text[j] = symbol
    <3> TAKE k \in Ends(f, text), j \in 0 .. n
    <3>1. k \in Nat /\ j \in Nat
      BY DEF Ends
    <3> QED
      BY <2>4, <3>1, LongerFits DEF w, longer
  <2>10. \A k \in Ends(f, text), j \in 0 .. n : Spans(l, text, k, j - 1) => j - 1 \in 0 .. n
    <3> SUFFICES ASSUME NEW k \in Ends(f, text), NEW j \in 0 .. n, Spans(l, text, k, j - 1)
                 PROVE  j - 1 \in 0 .. n
      OBVIOUS
    <3>1. k \in Nat /\ j - 1 = k + Len(v) /\ Len(v) \in Nat
      BY <2>3, <2>4 DEF Ends, Spans, v
    <3> QED
      BY <3>1
  <2> QED
    BY <2>5, <2>6, <2>7, <2>8, <2>9, <2>10
<1>4. CASE symbol = Star /\ tokens # <<>> /\ Last(tokens).kind = "STAR"
  <2> DEFINE f == Front(tokens)  l == Last(tokens)
  <2>1. f \in Seq(TokensOver(S)) /\ l \in TokensOver(S) /\ tokens = Append(f, l)
    BY <1>4, SplitLast
  <2>2. Added(tokens, symbol) = tokens
    BY <1>4 DEF Added
  <2>3. l.kind = "STAR"
    BY <1>4
  <2> HIDE DEF f, l
  <2>4. before = {j \in 0 .. n : \E k \in Ends(f, text) : Spans(l, text, k, j)}
    BY <2>1, EndsAppend
  <2>5. \A k, j : Spans(l, text, k, j) <=> k <= j
    BY <2>3 DEF Spans
  <2>6. Beyond(symbol, text, before) = {j \in 0 .. n : \E k \in before : k <= j}
    BY <1>4 DEF Beyond
  <2>7. \A k \in Ends(f, text) : k \in 0 .. n
    BY DEF Ends
  <2>8. before = {j \in 0 .. n : \E k \in Ends(f, text) : k <= j}
    BY <2>4, <2>5
  <2> QED
    BY <2>2, <2>6, <2>7, <2>8
<1>5. CASE \/ symbol \notin {Star, Question} /\ ~(tokens # <<>> /\ Last(tokens).kind = "LITERAL")
           \/ symbol \in {Star, Question}
                /\ ~(symbol = Star /\ tokens # <<>> /\ Last(tokens).kind = "STAR")
  <2> DEFINE token == IF symbol \in {Star, Question} THEN Wildcard(symbol) ELSE Literal(<<symbol>>)
  <2>1. Added(tokens, symbol) = Append(tokens, token)
    BY <1>5 DEF Added
  <2>2. token \in TokensOver(S)
    BY <1>2
  <2> HIDE DEF token
  <2>3. Ends(Append(tokens, token), text) =
          {j \in 0 .. n : \E k \in before : Spans(token, text, k, j)}
    BY <2>2, EndsAppend
  <2>4. CASE symbol = Star
    <3>1. \A k, j : Spans(token, text, k, j) <=> k <= j
      BY <2>4 DEF token, Spans, Wildcard
    <3>2. Beyond(symbol, text, before) = {j \in 0 .. n : \E k \in before : k <= j}
      BY <2>4 DEF Beyond
    <3> QED
      BY <2>1, <2>3, <3>1, <3>2
  <2>5. CASE symbol = Question
    <3>1. \A k, j : Spans(token, text, k, j) <=> j = k + 1
      BY <2>5, GlobAssumption DEF token, Spans, Wildcard
    <3>2. Beyond(symbol, text, before) = {j \in 0 .. n : j - 1 \in before}
      BY <2>5, GlobAssumption DEF Beyond
    <3>3. \A j \in 0 .. n : j - 1 \in before <=> \E k \in before : j = k + 1
      BY <1>1
    <3> QED
      BY <2>1, <2>3, <3>1, <3>2, <3>3
  <2>6. CASE symbol \notin {Star, Question}
    <3>1. token.kind = "LITERAL" /\ token.value = <<symbol>>
      BY <2>6 DEF token, Literal
    <3>2. \A k \in Nat, j \in Nat : Spans(token, text, k, j) <=> j = k + 1 /\ text[j] = symbol
      <4> TAKE k \in Nat, j \in Nat
      <4>1. Spans(token, text, k, j) <=> j = k + 1 /\ \A i \in 1 .. 1 : text[k + i] = <<symbol>>[i]
        BY <3>1 DEF Spans
      <4> QED
        BY <4>1
    <3>3. Beyond(symbol, text, before) = {j \in 0 .. n : j - 1 \in before /\ text[j] = symbol}
      BY <2>6 DEF Beyond
    <3>4. \A j \in 0 .. n : j - 1 \in before <=> \E k \in before : j = k + 1
      BY <1>1
    <3>5. \A k \in before : k \in Nat
      BY <1>1
    <3>6. \A j \in 0 .. n : (\E k \in before : Spans(token, text, k, j)) <=>
                              j - 1 \in before /\ text[j] = symbol
      BY <3>2, <3>4, <3>5
    <3> QED
      BY <2>1, <2>3, <3>3, <3>6
  <2> QED
    BY <2>4, <2>5, <2>6
<1> QED
  BY <1>3, <1>4, <1>5

(* The two recursions over the symbols of a pattern.                          *)
LEMMA CompileUnfolds ==
  ASSUME NEW S, NEW pattern \in Seq(S)
  PROVE  \E g \in [0 .. Len(pattern) -> Seq(TokensOver(S))] :
           /\ Compile(pattern) = g[Len(pattern)]
           /\ g[0] = <<>>
           /\ \A i \in 1 .. Len(pattern) : g[i] = Added(g[i - 1], pattern[i])
<1> DEFINE N == Len(pattern)  V == Seq(TokensOver(S))
           F == [i \in 1 .. N |-> [tokens \in V |-> Added(tokens, pattern[i])]]
           IsIt(g) == g = [i \in 0 .. N |-> IF i = 0 THEN <<>> ELSE Added(g[i - 1], pattern[i])]
<1>1. N \in Nat /\ <<>> \in V
  OBVIOUS
<1>2. F \in [1 .. N -> [V -> V]]
  <2>1. \A i \in 1 .. N, tokens \in V : Added(tokens, pattern[i]) \in V
    BY AddedIs
  <2> HIDE DEF V
  <2> QED
    BY <2>1
<1> HIDE DEF V
<1>3. \A i \in 1 .. N, tokens \in V : F[i][tokens] = Added(tokens, pattern[i])
  OBVIOUS
<1> HIDE DEF F
<1>4. PICK g \in [0 .. N -> V] : Unfolds(g, N, <<>>, F)
  BY <1>1, <1>2, Recursion
<1>5. g[0] = <<>> /\ \A i \in 1 .. N : g[i] = Added(g[i - 1], pattern[i])
  <2>1. \A i \in 1 .. N : i - 1 \in 0 .. N /\ g[i - 1] \in V
    BY <1>1, <1>4
  <2> QED
    BY <1>3, <1>4, <2>1 DEF Unfolds
<1>6. IsIt(g)
  BY <1>1, <1>4, <1>5
<1>7. PICK c : c = (CHOOSE h : IsIt(h))
  OBVIOUS
<1>8. IsIt(c)
  BY <1>6, <1>7
<1>9. Compile(pattern) = c[N]
  BY <1>7 DEF Compile
<1>10. c[0] = <<>> /\ \A i \in 1 .. N : c[i] = Added(c[i - 1], pattern[i])
  BY <1>1, <1>8
<1>11. DOMAIN c = 0 .. N /\ c = [i \in 0 .. N |-> c[i]]
  BY <1>8
<1>12. \A i \in 0 .. N : c[i] \in V
  <2> DEFINE D == {i \in Nat : i <= N => c[i] \in V}
  <2>1. 0 \in D
    BY <1>1, <1>10
  <2>2. ASSUME NEW i \in Nat, i \in D PROVE i + 1 \in D
    <3> SUFFICES ASSUME i + 1 <= N PROVE c[i + 1] \in V
      OBVIOUS
    <3>1. i + 1 \in 1 .. N /\ (i + 1) - 1 = i /\ c[i] \in V /\ pattern[i + 1] \in S
      BY <1>1, <2>2
    <3>2. c[i + 1] = Added(c[i], pattern[i + 1])
      BY <1>10, <3>1
    <3> QED
      BY <3>1, <3>2, AddedIs DEF V
  <2> HIDE DEF D
  <2>3. Nat \subseteq D
    BY <2>1, <2>2, Inductive
  <2> QED
    BY <1>1, <2>3 DEF D
<1>13. c \in [0 .. N -> V]
  BY <1>11, <1>12
<1> QED
  BY <1>9, <1>10, <1>13 DEF V

LEMMA MeansUnfolds ==
  ASSUME NEW S, NEW pattern \in Seq(S), NEW text, Len(text) \in Nat
  PROVE  \E g \in [0 .. Len(pattern) -> SUBSET (0 .. Len(text))] :
           /\ Means(pattern, text) <=> Len(text) \in g[Len(pattern)]
           /\ g[0] = {0}
           /\ \A i \in 1 .. Len(pattern) : g[i] = Beyond(pattern[i], text, g[i - 1])
<1> DEFINE N == Len(pattern)  V == SUBSET (0 .. Len(text))
           F == [i \in 1 .. N |-> [ends \in V |-> Beyond(pattern[i], text, ends)]]
           IsIt(g) == g = [i \in 0 .. N |-> IF i = 0 THEN {0} ELSE Beyond(pattern[i], text, g[i - 1])]
<1>1. N \in Nat /\ {0} \in V
  OBVIOUS
<1>2. \A symbol, ends : Beyond(symbol, text, ends) \in V
  BY DEF Beyond
<1>3. F \in [1 .. N -> [V -> V]]
  <2> HIDE DEF V
  <2> QED
    BY <1>2
<1> HIDE DEF V
<1>4. \A i \in 1 .. N, ends \in V : F[i][ends] = Beyond(pattern[i], text, ends)
  OBVIOUS
<1> HIDE DEF F
<1>5. PICK g \in [0 .. N -> V] : Unfolds(g, N, {0}, F)
  BY <1>1, <1>3, Recursion
<1>6. g[0] = {0} /\ \A i \in 1 .. N : g[i] = Beyond(pattern[i], text, g[i - 1])
  <2>1. \A i \in 1 .. N : i - 1 \in 0 .. N /\ g[i - 1] \in V
    BY <1>1, <1>5
  <2> QED
    BY <1>4, <1>5, <2>1 DEF Unfolds
<1>7. IsIt(g)
  BY <1>1, <1>5, <1>6
<1>8. PICK c : c = (CHOOSE h : IsIt(h))
  OBVIOUS
<1>9. IsIt(c)
  BY <1>7, <1>8
<1>10. Means(pattern, text) <=> Len(text) \in c[N]
  BY <1>8 DEF Means
<1>11. c[0] = {0} /\ \A i \in 1 .. N : c[i] = Beyond(pattern[i], text, c[i - 1])
  <2>1. \A i \in 0 .. N : c[i] = IF i = 0 THEN {0} ELSE Beyond(pattern[i], text, c[i - 1])
    BY <1>9
  <2>2. 0 \in 0 .. N /\ \A i \in 1 .. N : i \in 0 .. N /\ i # 0
    BY <1>1
  <2> HIDE DEF IsIt, N
  <2> QED
    BY <2>1, <2>2
<1>12. c \in [0 .. N -> V]
  <2>1. DOMAIN c = 0 .. N /\ c = [i \in 0 .. N |-> c[i]]
    BY <1>9
  <2>2. \A i \in 0 .. N : i = 0 \/ i \in 1 .. N
    BY <1>1
  <2>3. ASSUME NEW i \in 0 .. N PROVE c[i] \in V
    <3>1. CASE i = 0
      BY <1>1, <1>11, <3>1
    <3>2. CASE i \in 1 .. N
      <4>1. c[i] = Beyond(pattern[i], text, c[i - 1])
        BY <1>11, <3>2
      <4> QED
        BY <1>2, <4>1
    <3> QED
      BY <2>2, <3>1, <3>2
  <2> QED
    BY <2>1, <2>3
<1> QED
  BY <1>10, <1>11, <1>12 DEF V

(* What the tokens of a pattern may end with is what its symbols may.         *)
LEMMA CompiledMeans ==
  ASSUME NEW S, NEW pattern \in Seq(S), NEW text, Len(text) \in Nat
  PROVE  /\ Compile(pattern) \in Seq(TokensOver(S))
         /\ Means(pattern, text) <=>
              Leads(Compile(pattern), text, 0, 0, Len(Compile(pattern)), Len(text))
<1> DEFINE N == Len(pattern)
<1>1. PICK g \in [0 .. N -> Seq(TokensOver(S))] :
        /\ Compile(pattern) = g[N]
        /\ g[0] = <<>>
        /\ \A i \in 1 .. N : g[i] = Added(g[i - 1], pattern[i])
  BY CompileUnfolds
<1>2. PICK ends \in [0 .. N -> SUBSET (0 .. Len(text))] :
        /\ Means(pattern, text) <=> Len(text) \in ends[N]
        /\ ends[0] = {0}
        /\ \A i \in 1 .. N : ends[i] = Beyond(pattern[i], text, ends[i - 1])
  BY MeansUnfolds
<1>3. N \in Nat /\ 0 \in 0 .. Len(text)
  OBVIOUS
<1> DEFINE D == {i \in Nat : i <= N => Ends(g[i], text) = ends[i]}
<1>4. 0 \in D
  <2>1. \A j \in 0 .. Len(text) : Leads(<<>>, text, 0, 0, 0, j) <=> 0 = j
    BY <1>3, LeadsNowhere
  <2>2. Ends(<<>>, text) = {0}
    BY <1>3, <2>1 DEF Ends
  <2> QED
    BY <1>1, <1>2, <2>2
<1>5. ASSUME NEW i \in Nat, i \in D PROVE i + 1 \in D
  <2> SUFFICES ASSUME i + 1 <= N PROVE Ends(g[i + 1], text) = ends[i + 1]
    OBVIOUS
  <2>1. i + 1 \in 1 .. N /\ (i + 1) - 1 = i /\ i \in 0 .. N /\ pattern[i + 1] \in S
    BY <1>3
  <2>2. g[i + 1] = Added(g[i], pattern[i + 1]) /\ ends[i + 1] = Beyond(pattern[i + 1], text, ends[i])
    BY <1>1, <1>2, <2>1
  <2>3. Ends(g[i], text) = ends[i]
    BY <1>5, <2>1
  <2>4. g[i] \in Seq(TokensOver(S))
    BY <2>1
  <2> QED
    BY <2>1, <2>2, <2>3, <2>4, AddedEnds
<1> HIDE DEF D
<1>6. Nat \subseteq D
  BY <1>4, <1>5, Inductive
<1>7. Ends(g[N], text) = ends[N]
  BY <1>3, <1>6 DEF D
<1>8. Len(text) \in 0 .. Len(text) /\ N \in 0 .. N
  BY <1>3
<1> QED
  BY <1>1, <1>2, <1>7, <1>8 DEF Ends

-----------------------------------------------------------------------------
(* The walk over the tokens.                                                  *)

(* The tokens after the t-th fit the text after the c-th character.           *)
Rest(tokens, text, t, c) == Leads(tokens, text, t, c, Len(tokens), Len(text))

LEMMA PrefixIs ==
  ASSUME NEW S, NEW text \in Seq(S), NEW v \in Seq(S), NEW c \in 0 .. Len(text)
  PROVE  IsPrefix(v, SubSeq(text, c + 1, Len(text))) <=>
           c + Len(v) <= Len(text) /\ \A i \in 1 .. Len(v) : text[c + i] = v[i]
<1> DEFINE n == Len(text)  k == Len(v)
<1>1. n \in Nat /\ k \in Nat /\ c + 1 \in Int /\ n \in Int /\ \A i \in c + 1 .. n : text[i] \in S
  OBVIOUS
<1> SUFFICES ASSUME NEW s, s = SubSeq(text, c + 1, n)
             PROVE  IsPrefix(v, s) <=> c + k <= n /\ \A i \in 1 .. k : text[c + i] = v[i]
  OBVIOUS
<1>2. /\ s \in Seq(S)
      /\ Len(s) = IF c + 1 <= n THEN n - (c + 1) + 1 ELSE 0
      /\ \A i \in 1 .. n - (c + 1) + 1 : s[i] = text[(c + 1) + i - 1]
  <2> HIDE DEF n
  <2> QED
    BY <1>1, SubSeqProperties
<1>3. Len(s) = n - c
  BY <1>1, <1>2
<1>4. \A i \in 1 .. n - c : s[i] = text[c + i]
  <2>1. n - (c + 1) + 1 = n - c /\ \A i \in 1 .. n - c : (c + 1) + i - 1 = c + i
    BY <1>1
  <2> QED
    BY <1>2, <2>1
<1>5. SubSeq(v, 1, k) = v
  BY SubSeqFull
<1>6. c + k <= n <=> k <= Len(s)
  BY <1>1, <1>3
<1>7. ASSUME k <= Len(s)
      PROVE  SubSeq(s, 1, k) = v <=> \A i \in 1 .. k : text[c + i] = v[i]
  <2> DEFINE p == SubSeq(s, 1, k)
  <2>1. p \in Seq(S) /\ Len(p) = k /\ \A i \in 1 .. k : p[i] = s[i]
    <3> HIDE DEF k
    <3> QED
      BY <1>1, <1>2, <1>7, StartOf
  <2> HIDE DEF p
  <2>2. \A i \in 1 .. k : s[i] = text[c + i]
    BY <1>1, <1>3, <1>4, <1>7
  <2>3. ASSUME \A i \in 1 .. k : text[c + i] = v[i] PROVE p = v
    <3>1. \A i \in 1 .. k : p[i] = v[i]
      BY <2>1, <2>2, <2>3
    <3> QED
      BY <2>1, <3>1, SeqEqual
  <2>4. ASSUME p = v PROVE \A i \in 1 .. k : text[c + i] = v[i]
    BY <2>1, <2>2, <2>4
  <2> QED
    BY <2>3, <2>4 DEF p
<1>8. IsPrefix(v, s) <=> k <= Len(s) /\ SubSeq(v, 1, k) = SubSeq(s, 1, k)
  BY DEF IsPrefix
<1> QED
  BY <1>5, <1>6, <1>7, <1>8

LEMMA RestEnd ==
  ASSUME NEW S, NEW tokens \in Seq(S), NEW text, Len(text) \in Nat, NEW c \in 0 .. Len(text)
  PROVE  Rest(tokens, text, Len(tokens), c) <=> c = Len(text)
<1>1. Len(tokens) \in Nat
  OBVIOUS
<1> QED
  BY <1>1, LeadsNowhere DEF Rest

(* What a token of each kind leaves to the rest.                              *)
LEMMA RestNext ==
  ASSUME NEW S, NEW tokens \in Seq(TokensOver(S)), NEW text \in Seq(S),
         NEW t \in 0 .. Len(tokens) - 1, NEW c \in 0 .. Len(text)
  PROVE  LET token == tokens[t + 1]
             n == Len(text)
             k == Len(token.value)
         IN  /\ token \in TokensOver(S)
             /\ token.kind = "LITERAL" =>
                  /\ k \in Nat \ {0}
                  /\ Rest(tokens, text, t, c) <=>
                       /\ IsPrefix(token.value, SubSeq(text, c + 1, n))
                       /\ c + k \in 0 .. n /\ Rest(tokens, text, t + 1, c + k)
             /\ token.kind = "QUESTION" =>
                  (Rest(tokens, text, t, c) <=>
                     c + 1 \in 0 .. n /\ Rest(tokens, text, t + 1, c + 1))
             /\ token.kind = "STAR" =>
                  (Rest(tokens, text, t, c) <=> \E e \in c .. n : Rest(tokens, text, t + 1, e))
<1> DEFINE token == tokens[t + 1]  n == Len(text)  k == Len(token.value)
<1>1. Len(tokens) \in Nat /\ t \in Nat /\ t < Len(tokens) /\ n \in Nat
  OBVIOUS
<1>2. token \in TokensOver(S)
  BY <1>1
<1>3. Rest(tokens, text, t, c) <=>
        \E e \in 0 .. n : Spans(token, text, c, e) /\ Rest(tokens, text, t + 1, e)
  <2> HIDE DEF Spans
  <2> QED
    BY <1>1, LeadsFirst DEF Rest
<1> HIDE DEF token
<1>4. token.value \in Seq(S) /\ k \in Nat /\ (token.kind = "LITERAL" => k > 0)
  BY <1>2 DEF TokensOver, Kinded
<1> HIDE DEF n, k
<1>5. CASE token.kind = "LITERAL"
  <2>1. IsPrefix(token.value, SubSeq(text, c + 1, n)) <=>
          c + k <= n /\ \A i \in 1 .. k : text[c + i] = token.value[i]
    BY <1>4, PrefixIs DEF n, k
  <2>2. \A e : Spans(token, text, c, e) <=>
                 e = c + k /\ \A i \in 1 .. k : text[c + i] = token.value[i]
    BY <1>5 DEF Spans, k
  <2>3. c + k \in 0 .. n <=> c + k <= n
    BY <1>1, <1>4
  <2>4. Rest(tokens, text, t, c) <=>
          /\ IsPrefix(token.value, SubSeq(text, c + 1, n))
          /\ c + k \in 0 .. n /\ Rest(tokens, text, t + 1, c + k)
    BY <1>3, <2>1, <2>2, <2>3
  <2>5. k \in Nat \ {0}
    BY <1>4, <1>5
  <2> QED
    BY <1>2, <1>5, <2>4, <2>5 DEF n, k, token
<1>6. CASE token.kind = "QUESTION"
  <2>1. \A e : Spans(token, text, c, e) <=> e = c + 1
    BY <1>6 DEF Spans
  <2> QED
    BY <1>2, <1>3, <1>6, <2>1 DEF n, k, token
<1>7. CASE token.kind = "STAR"
  <2>1. \A e : Spans(token, text, c, e) <=> c <= e
    BY <1>7 DEF Spans
  <2>2. Rest(tokens, text, t, c) <=> \E e \in c .. n : Rest(tokens, text, t + 1, e)
    BY <1>1, <1>3, <2>1
  <2> QED
    BY <1>2, <1>7, <2>2 DEF n, k, token
<1> QED
  BY <1>2, <1>5, <1>6, <1>7 DEF TokensOver, Kinded

(* Nothing but stars fits the empty text.                                     *)
LEMMA RestAtEnd ==
  ASSUME NEW S, NEW tokens \in Seq(TokensOver(S)), NEW text \in Seq(S), NEW t \in 0 .. Len(tokens)
  PROVE  Rest(tokens, text, t, Len(text)) <=>
           \A i \in t + 1 .. Len(tokens) : tokens[i].kind = "STAR"
<1> DEFINE n == Len(text)  m == Len(tokens)
           OnlyStars(u) == \A i \in u + 1 .. m : tokens[i].kind = "STAR"
           D == {d \in Nat : d <= m => (Rest(tokens, text, m - d, n) <=> OnlyStars(m - d))}
<1>1. m \in Nat /\ n \in Nat /\ n \in 0 .. n
  OBVIOUS
<1>2. 0 \in D
  <2>1. Rest(tokens, text, m, n)
    BY <1>1, RestEnd
  <2>2. OnlyStars(m) /\ m - 0 = m
    BY <1>1
  <2> QED
    BY <2>1, <2>2
<1>3. ASSUME NEW d \in Nat, d \in D PROVE d + 1 \in D
  <2> SUFFICES ASSUME d + 1 <= m
               PROVE  Rest(tokens, text, m - (d + 1), n) <=> OnlyStars(m - (d + 1))
    OBVIOUS
  <2> DEFINE u == m - (d + 1)
  <2>1. u \in 0 .. m - 1 /\ u + 1 = m - d /\ d <= m
    BY <1>1
  <2>2. Rest(tokens, text, u + 1, n) <=> OnlyStars(u + 1)
    BY <1>3, <2>1
  <2>3. OnlyStars(u) <=> tokens[u + 1].kind = "STAR" /\ OnlyStars(u + 1)
    <3>1. \A i : i \in u + 1 .. m <=> i = u + 1 \/ i \in (u + 1) + 1 .. m
      BY <1>1, <2>1
    <3> HIDE DEF u
    <3> QED
      BY <3>1
  <2> HIDE DEF u, OnlyStars
  <2>4. tokens[u + 1].kind \in {"LITERAL", "STAR", "QUESTION"}
    BY <2>1, RestNext, <1>1 DEF TokensOver, Kinded
  <2>5. ASSUME tokens[u + 1].kind = "STAR"
        PROVE  Rest(tokens, text, u, n) <=> Rest(tokens, text, u + 1, n)
    <3>1. Rest(tokens, text, u, n) <=> \E e \in n .. n : Rest(tokens, text, u + 1, e)
      BY <1>1, <2>1, <2>5, RestNext
    <3> QED
      BY <1>1, <3>1
  <2>6. ASSUME tokens[u + 1].kind # "STAR" PROVE ~Rest(tokens, text, u, n)
    <3>1. CASE tokens[u + 1].kind = "LITERAL"
      <4>1. Len(tokens[u + 1].value) \in Nat \ {0}
            /\ (Rest(tokens, text, u, n) => n + Len(tokens[u + 1].value) \in 0 .. n)
        BY <1>1, <2>1, <3>1, RestNext
      <4> QED
        BY <1>1, <4>1
    <3>2. CASE tokens[u + 1].kind = "QUESTION"
      <4>1. Rest(tokens, text, u, n) => n + 1 \in 0 .. n
        BY <1>1, <2>1, <3>2, RestNext
      <4> QED
        BY <1>1, <4>1
    <3> QED
      BY <2>4, <2>6, <3>1, <3>2
  <2>7. Rest(tokens, text, u, n) <=> OnlyStars(u)
    BY <2>2, <2>3, <2>5, <2>6
  <2> QED
    BY <2>7 DEF u
<1> HIDE DEF D
<1>4. Nat \subseteq D
  BY <1>2, <1>3, Inductive
<1>5. m - t \in Nat /\ m - t <= m /\ m - (m - t) = t
  BY <1>1
<1>6. Rest(tokens, text, t, n) <=> OnlyStars(t)
  BY <1>4, <1>5 DEF D
<1> QED
  BY <1>6

(* A walk that is not over has lost no way to fit the text: either it stands  *)
(* where every way passes, or every way begins after the last star at or      *)
(* after the character it is tried at, one that begins right there passes     *)
(* where the walk stands, and one that begins later passes as much later.     *)
Walks(tokens, text) ==
  [t : 0 .. Len(tokens), c : Nat, star : 0 .. Len(tokens), from : Nat, over : BOOLEAN]

SinceStar(tokens, text, w) ==
  /\ Rest(tokens, text, 0, 0) <=> \E e \in w.from .. Len(text) : Rest(tokens, text, w.star, e)
  /\ Rest(tokens, text, w.t, w.c) => Rest(tokens, text, w.star, w.from)
  /\ \A e \in w.from .. Len(text) :
       Rest(tokens, text, w.star, e) =>
         /\ e + (w.c - w.from) \in 0 .. Len(text)
         /\ Rest(tokens, text, w.t, e + (w.c - w.from))

WalkOK(tokens, text, w) ==
  /\ w \in Walks(tokens, text)
  /\ w.c <= Len(text) /\ w.from <= w.c /\ w.star <= w.t
  /\ w.over => ~Rest(tokens, text, 0, 0)
  /\ ~w.over /\ w.star = 0 => (Rest(tokens, text, 0, 0) <=> Rest(tokens, text, w.t, w.c))
  /\ ~w.over /\ w.star # 0 => SinceStar(tokens, text, w)

(* The two ways on.                                                           *)
Advanced(w, k) == [w EXCEPT !.t = @ + 1, !.c = @ + k]
Starred(w) == [w EXCEPT !.t = @ + 1, !.star = w.t + 1, !.from = w.c]

(* A token of one length is passed.                                           *)
LEMMA PassesOn ==
  ASSUME NEW tokens, NEW text, Len(tokens) \in Nat, Len(text) \in Nat,
         NEW w, WalkOK(tokens, text, w), ~w.over, w.t < Len(tokens),
         NEW k \in Nat, w.c + k <= Len(text),
         Rest(tokens, text, w.t, w.c) <=> Rest(tokens, text, w.t + 1, w.c + k),
         \A x \in 0 .. Len(text) :
           Rest(tokens, text, w.t, x) =>
             x + k \in 0 .. Len(text) /\ Rest(tokens, text, w.t + 1, x + k)
  PROVE  WalkOK(tokens, text, Advanced(w, k))
<1> DEFINE v == [w EXCEPT !.t = @ + 1, !.c = @ + k]  n == Len(text)  m == Len(tokens)
<1>1. w \in Walks(tokens, text) /\ w.c <= n /\ w.from <= w.c /\ w.star <= w.t
  BY DEF WalkOK
<1>2. /\ v \in Walks(tokens, text)
      /\ v.t = w.t + 1 /\ v.c = w.c + k /\ v.star = w.star /\ v.from = w.from /\ v.over = w.over
  <2>1. w.t + 1 \in 0 .. m /\ w.c + k \in Nat
    BY <1>1 DEF Walks
  <2>2. v \in Walks(tokens, text)
    BY <1>1, <2>1 DEF Walks
  <2>3. v.t = w.t + 1 /\ v.c = w.c + k /\ v.star = w.star /\ v.from = w.from
    BY <1>1 DEF Walks
  <2>4. v.over = w.over
    BY <1>1 DEF Walks
  <2> QED
    BY <2>2, <2>3, <2>4
<1>3. /\ w.t \in Nat /\ w.c \in Nat /\ w.star \in Nat /\ w.from \in Nat
  BY <1>1 DEF Walks
<1> HIDE DEF v
<1>4. v.c <= n /\ v.from <= v.c /\ v.star <= v.t
  BY <1>1, <1>2, <1>3
<1>5. CASE w.star = 0
  <2>1. Rest(tokens, text, 0, 0) <=> Rest(tokens, text, w.t, w.c)
    BY <1>5 DEF WalkOK
  <2> QED
    BY <1>2, <1>4, <1>5, <2>1 DEF WalkOK, Advanced, v
<1>6. CASE w.star # 0
  <2>1. SinceStar(tokens, text, w)
    BY <1>6 DEF WalkOK
  <2>2. ASSUME NEW e \in v.from .. n, Rest(tokens, text, v.star, e)
        PROVE  e + (v.c - v.from) \in 0 .. n /\ Rest(tokens, text, v.t, e + (v.c - v.from))
    <3> DEFINE x == e + (w.c - w.from)
    <3>1. x \in 0 .. n /\ Rest(tokens, text, w.t, x)
      BY <1>2, <2>1, <2>2 DEF SinceStar
    <3>2. x + k \in 0 .. n /\ Rest(tokens, text, w.t + 1, x + k)
      BY <3>1
    <3>3. x + k = e + (v.c - v.from)
      BY <1>2, <1>3
    <3> QED
      BY <1>2, <3>2, <3>3
  <2>3. SinceStar(tokens, text, v)
    BY <1>2, <2>1, <2>2 DEF SinceStar
  <2> QED
    BY <1>2, <1>4, <1>6, <2>3 DEF WalkOK, Advanced, v
<1> QED
  BY <1>5, <1>6

(* A star is passed, and is the last one.                                     *)
LEMMA PassesStar ==
  ASSUME NEW tokens, NEW text, Len(tokens) \in Nat, Len(text) \in Nat,
         NEW w, WalkOK(tokens, text, w), ~w.over, w.t < Len(tokens),
         \A x \in 0 .. Len(text) :
           Rest(tokens, text, w.t, x) <=>
             \E e \in x .. Len(text) : Rest(tokens, text, w.t + 1, e)
  PROVE  WalkOK(tokens, text, Starred(w))
<1> DEFINE v == [w EXCEPT !.t = @ + 1, !.star = w.t + 1, !.from = w.c]
           n == Len(text)  m == Len(tokens)
<1>1. w \in Walks(tokens, text) /\ w.c <= n /\ w.from <= w.c /\ w.star <= w.t
  BY DEF WalkOK
<1>2. /\ v \in Walks(tokens, text)
      /\ v.t = w.t + 1 /\ v.c = w.c /\ v.star = w.t + 1 /\ v.from = w.c /\ v.over = w.over
  <2>1. w.t + 1 \in 0 .. m /\ w.c \in Nat
    BY <1>1 DEF Walks
  <2>2. v \in Walks(tokens, text)
    BY <1>1, <2>1 DEF Walks
  <2>3. v.t = w.t + 1 /\ v.c = w.c /\ v.star = w.t + 1 /\ v.from = w.c
    BY <1>1 DEF Walks
  <2>4. v.over = w.over
    BY <1>1 DEF Walks
  <2> QED
    BY <2>2, <2>3, <2>4
<1>3. /\ w.t \in Nat /\ w.c \in Nat /\ w.star \in Nat /\ w.from \in Nat /\ w.c \in 0 .. n
  BY <1>1 DEF Walks
<1> HIDE DEF v
<1>4. Rest(tokens, text, w.t, w.c) <=> \E e \in w.c .. n : Rest(tokens, text, w.t + 1, e)
  BY <1>3
<1>5. Rest(tokens, text, 0, 0) <=> Rest(tokens, text, w.t, w.c)
  <2>1. CASE w.star = 0
    BY <2>1 DEF WalkOK
  <2>2. CASE w.star # 0
    <3>1. SinceStar(tokens, text, w)
      BY <2>2 DEF WalkOK
    <3>2. ASSUME Rest(tokens, text, 0, 0) PROVE Rest(tokens, text, w.t, w.c)
      <4>1. PICK e \in w.from .. n : Rest(tokens, text, w.star, e)
        BY <3>1, <3>2 DEF SinceStar
      <4> DEFINE x == e + (w.c - w.from)
      <4>2. x \in 0 .. n /\ Rest(tokens, text, w.t, x)
        BY <3>1, <4>1 DEF SinceStar
      <4>3. w.c <= x
        BY <1>3
      <4> HIDE DEF x
      <4>4. PICK y \in x .. n : Rest(tokens, text, w.t + 1, y)
        BY <4>2
      <4>5. y \in w.c .. n
        BY <1>3, <4>2, <4>3
      <4> QED
        BY <1>4, <4>4, <4>5
    <3>3. ASSUME Rest(tokens, text, w.t, w.c) PROVE Rest(tokens, text, 0, 0)
      <4>1. Rest(tokens, text, w.star, w.from) /\ w.from \in w.from .. n
        BY <1>1, <1>3, <3>1, <3>3 DEF SinceStar
      <4> QED
        BY <3>1, <4>1 DEF SinceStar
    <3> QED
      BY <3>2, <3>3
  <2> QED
    BY <2>1, <2>2
<1>6. \A e \in w.c .. n : e + (v.c - v.from) = e /\ e \in 0 .. n
  BY <1>2, <1>3
<1>7. SinceStar(tokens, text, v)
  BY <1>2, <1>4, <1>5, <1>6 DEF SinceStar
<1>8. v.c <= n /\ v.from <= v.c /\ v.star <= v.t /\ v.star # 0
  BY <1>1, <1>2, <1>3
<1> QED
  BY <1>2, <1>7, <1>8 DEF WalkOK, Starred, v

(* Where the rest does not fit, the walk goes back to the last star.          *)
LEMMA GoesBack ==
  ASSUME NEW tokens, NEW text, Len(tokens) \in Nat, Len(text) \in Nat,
         NEW w, WalkOK(tokens, text, w), ~w.over, w.c < Len(text),
         ~Rest(tokens, text, w.t, w.c)
  PROVE  WalkOK(tokens, text, Backtrack(w))
<1> DEFINE n == Len(text)
<1>1. w \in Walks(tokens, text) /\ w.c <= n /\ w.from <= w.c /\ w.star <= w.t
  BY DEF WalkOK
<1>2. /\ w.t \in Nat /\ w.c \in Nat /\ w.star \in Nat /\ w.from \in Nat
  BY <1>1 DEF Walks
<1>3. CASE w.star = 0
  <2> DEFINE v == [w EXCEPT !.over = TRUE]
  <2>1. /\ v \in Walks(tokens, text)
        /\ v.t = w.t /\ v.c = w.c /\ v.star = w.star /\ v.from = w.from /\ v.over = TRUE
    BY <1>1 DEF Walks
  <2>2. ~Rest(tokens, text, 0, 0)
    BY <1>3 DEF WalkOK
  <2>3. Backtrack(w) = v
    BY <1>3 DEF Backtrack
  <2> HIDE DEF v
  <2> QED
    BY <1>1, <2>1, <2>2, <2>3 DEF WalkOK
<1>4. CASE w.star # 0
  <2> DEFINE v == [w EXCEPT !.t = w.star, !.from = w.from + 1, !.c = w.from + 1]
  <2>1. /\ v \in Walks(tokens, text)
        /\ v.t = w.star /\ v.c = w.from + 1 /\ v.star = w.star /\ v.from = w.from + 1
        /\ v.over = w.over
    <3>1. w.from + 1 \in Nat /\ w.star \in 0 .. Len(tokens)
      BY <1>1, <1>2 DEF Walks
    <3>2. v \in Walks(tokens, text)
      BY <1>1, <3>1 DEF Walks
    <3>3. v.t = w.star /\ v.c = w.from + 1 /\ v.star = w.star /\ v.from = w.from + 1
      BY <1>1 DEF Walks
    <3>4. v.over = w.over
      BY <1>1 DEF Walks
    <3> QED
      BY <3>2, <3>3, <3>4
  <2>2. Backtrack(w) = v
    BY <1>4 DEF Backtrack
  <2> HIDE DEF v
  <2>3. SinceStar(tokens, text, w)
    BY <1>4 DEF WalkOK
  <2>4. ~Rest(tokens, text, w.star, w.from)
    <3>1. w.from \in w.from .. n /\ w.from + (w.c - w.from) = w.c
      BY <1>1, <1>2
    <3> QED
      BY <2>3, <3>1 DEF SinceStar
  <2>5. \A e : e \in w.from .. n <=> e = w.from \/ e \in w.from + 1 .. n
    BY <1>1, <1>2
  <2>6. Rest(tokens, text, 0, 0) <=> \E e \in v.from .. n : Rest(tokens, text, v.star, e)
    BY <2>1, <2>3, <2>4, <2>5 DEF SinceStar
  <2>7. \A e \in v.from .. n : e + (v.c - v.from) = e /\ e \in 0 .. n
    BY <1>2, <2>1
  <2>8. SinceStar(tokens, text, v)
    BY <2>1, <2>6, <2>7 DEF SinceStar
  <2>9. v.c <= n /\ v.from <= v.c /\ v.star <= v.t
    BY <1>1, <1>2, <2>1
  <2> QED
    BY <1>4, <2>1, <2>2, <2>8, <2>9 DEF WalkOK
<1> QED
  BY <1>3, <1>4

LEMMA StepOK ==
  ASSUME NEW S, NEW tokens \in Seq(TokensOver(S)), NEW text \in Seq(S),
         NEW w, WalkOK(tokens, text, w), ~w.over, w.c < Len(text)
  PROVE  WalkOK(tokens, text, Step(tokens, text, w))
<1> DEFINE m == Len(tokens)  n == Len(text)
<1>1. m \in Nat /\ n \in Nat
  OBVIOUS
<1>2. w \in Walks(tokens, text)
  BY DEF WalkOK
<1>3. w.t \in 0 .. m /\ w.t \in Nat /\ w.c \in Nat /\ w.c \in 0 .. n
  BY <1>1, <1>2 DEF Walks
<1>4. CASE w.t = m
  <2>1. ~Rest(tokens, text, w.t, w.c)
    BY <1>1, <1>3, <1>4, RestEnd
  <2>2. Step(tokens, text, w) = Backtrack(w)
    BY <1>4 DEF Step
  <2> QED
    BY <1>1, <2>1, <2>2, GoesBack
<1>5. CASE w.t # m
  <2> DEFINE token == tokens[w.t + 1]  k == Len(token.value)
             fits == IsPrefix(token.value, SubSeq(text, w.c + 1, n))
  <2>1. w.t \in 0 .. m - 1 /\ w.t < m
    BY <1>1, <1>3, <1>5
  <2>2. token \in TokensOver(S)
    BY <2>1, <1>3, RestNext
  <2>3. token.kind \in {"LITERAL", "STAR", "QUESTION"}
    BY <2>2 DEF TokensOver, Kinded
  <2>4. CASE token.kind = "LITERAL"
    <3>1. /\ k \in Nat
          /\ \A x \in 0 .. n :
               Rest(tokens, text, w.t, x) <=>
                 /\ IsPrefix(token.value, SubSeq(text, x + 1, n))
                 /\ x + k \in 0 .. n /\ Rest(tokens, text, w.t + 1, x + k)
      BY <1>3, <2>1, <2>4, RestNext
    <3>2. CASE fits
      <4>1. w.c + k <= n
        <5>1. token.value \in Seq(S)
          BY <2>2 DEF TokensOver, Kinded
        <5> QED
          BY <1>3, <3>2, <5>1, PrefixIs
      <4>2. w.c + k \in 0 .. n
        BY <1>1, <1>3, <3>1, <4>1
      <4>3. Rest(tokens, text, w.t, w.c) <=> Rest(tokens, text, w.t + 1, w.c + k)
        BY <1>3, <3>1, <3>2, <4>2
      <4>4. Step(tokens, text, w) = Advanced(w, k)
        BY <1>5, <2>4, <3>2 DEF Step, Advanced
      <4> HIDE DEF k, token
      <4> QED
        BY <1>1, <2>1, <3>1, <4>1, <4>3, <4>4, PassesOn
    <3>3. CASE ~fits
      <4>1. ~Rest(tokens, text, w.t, w.c)
        BY <1>3, <3>1, <3>3
      <4>2. Step(tokens, text, w) = Backtrack(w)
        BY <1>5, <2>4, <3>3 DEF Step
      <4> QED
        BY <1>1, <4>1, <4>2, GoesBack
    <3> QED
      BY <3>2, <3>3
  <2>5. CASE token.kind = "QUESTION"
    <3>1. \A x \in 0 .. n :
            Rest(tokens, text, w.t, x) <=>
              x + 1 \in 0 .. n /\ Rest(tokens, text, w.t + 1, x + 1)
      BY <2>1, <2>5, RestNext
    <3>2. w.c + 1 \in 0 .. n /\ w.c + 1 <= n
      BY <1>1, <1>3
    <3>3. Rest(tokens, text, w.t, w.c) <=> Rest(tokens, text, w.t + 1, w.c + 1)
      BY <1>3, <3>1, <3>2
    <3>4. Step(tokens, text, w) = Advanced(w, 1)
      BY <1>5, <2>5 DEF Step, Advanced
    <3>5. 1 \in Nat
      OBVIOUS
    <3> QED
      BY <1>1, <2>1, <3>1, <3>2, <3>3, <3>4, <3>5, PassesOn
  <2>6. CASE token.kind = "STAR"
    <3>1. \A x \in 0 .. n :
            Rest(tokens, text, w.t, x) <=> \E e \in x .. n : Rest(tokens, text, w.t + 1, e)
      BY <2>1, <2>6, RestNext
    <3>2. Step(tokens, text, w) = Starred(w)
      BY <1>5, <2>6 DEF Step, Starred
    <3> QED
      BY <1>1, <2>1, <3>1, <3>2, PassesStar
  <2> QED
    BY <2>3, <2>4, <2>5, <2>6
<1> QED
  BY <1>4, <1>5

(* Each pass of the loop ends the walk, or tries a later character after the  *)
(* star, or passes a token.                                                   *)
Rank(tokens, w) == w.from * (Len(tokens) + 1) + w.t

LEMMA Products ==
  ASSUME NEW a \in Nat, NEW b \in Nat, NEW k \in Nat
  PROVE  /\ a * k \in Nat /\ (a <= b => a * k <= b * k)
         /\ (a + 1) * k = a * k + k
<1>1. ASSUME a <= b PROVE a * k <= b * k
  <2>1. b - a \in Nat /\ (b - a) * k >= 0
    BY <1>1
  <2>2. b * k = a * k + (b - a) * k
    OBVIOUS
  <2> QED
    BY <2>1, <2>2
<1> QED
  BY <1>1

LEMMA StepRises ==
  ASSUME NEW S, NEW tokens \in Seq(TokensOver(S)), NEW text \in Seq(S),
         NEW w, WalkOK(tokens, text, w), ~w.over, w.c < Len(text)
  PROVE  \/ Step(tokens, text, w).over
         \/ Rank(tokens, Step(tokens, text, w)) >= Rank(tokens, w) + 1
<1> SUFFICES ASSUME NEW v, v = Step(tokens, text, w)
             PROVE  v.over \/ Rank(tokens, v) >= Rank(tokens, w) + 1
  OBVIOUS
<1> DEFINE m == Len(tokens)  b == Backtrack(w)
<1>1. m \in Nat /\ w \in Walks(tokens, text) /\ v \in Walks(tokens, text)
  BY StepOK DEF WalkOK
<1>2. w.from <= w.c
  BY DEF WalkOK
<1>3. v.over \/ (v.t = w.t + 1 /\ v.from >= w.from) \/ v.from = w.from + 1
  <2>1. b.over \/ b.from = w.from + 1
    <3>1. CASE w.star = 0
      <4>1. [w EXCEPT !.over = TRUE].over
        BY <1>1 DEF Walks
      <4> QED
        BY <3>1, <4>1 DEF Backtrack
    <3>2. CASE w.star # 0
      BY <1>1, <3>2 DEF Backtrack, Walks
    <3> QED
      BY <3>1, <3>2
  <2>2. \A k : Advanced(w, k).t = w.t + 1 /\ Advanced(w, k).from = w.from
    BY <1>1 DEF Walks, Advanced
  <2>3. Starred(w).t = w.t + 1 /\ Starred(w).from = w.c
    BY <1>1 DEF Walks, Starred
  <2> DEFINE token == tokens[w.t + 1]  k == Len(token.value)
  <2>4. v = b \/ v = Advanced(w, k) \/ v = Advanced(w, 1) \/ v = Starred(w)
    <3>1. CASE w.t = m
      BY <3>1 DEF Step
    <3>2. CASE w.t # m
      <4>1. w.t \in 0 .. m - 1 /\ w.c \in 0 .. Len(text)
        BY <1>1, <3>2 DEF Walks
      <4>2. token.kind \in {"LITERAL", "STAR", "QUESTION"}
        BY <4>1, RestNext DEF TokensOver, Kinded
      <4> HIDE DEF b
      <4> QED
        BY <3>2, <4>2 DEF Step, Advanced, Starred, b
    <3> QED
      BY <3>1, <3>2
  <2>5. w.from \in Nat /\ w.c \in Nat
    BY <1>1 DEF Walks
  <2> HIDE DEF b, k
  <2> QED
    BY <1>2, <2>1, <2>2, <2>3, <2>4, <2>5
<1> HIDE DEF b
<1>4. w.t \in 0 .. m /\ v.t \in 0 .. m /\ w.from \in Nat /\ v.from \in Nat
  BY <1>1 DEF Walks
<1>5. /\ w.from * (m + 1) \in Nat /\ v.from * (m + 1) \in Nat
      /\ w.from <= v.from => w.from * (m + 1) <= v.from * (m + 1)
      /\ (w.from + 1) * (m + 1) = w.from * (m + 1) + (m + 1)
  <2>1. m + 1 \in Nat
    BY <1>1
  <2> QED
    BY <1>4, <2>1, Products
<1> DEFINE before == w.from * (m + 1)  after == v.from * (m + 1)
<1>6. Rank(tokens, w) = before + w.t /\ Rank(tokens, v) = after + v.t
  BY DEF Rank
<1>7. /\ before \in Nat /\ after \in Nat
      /\ w.from <= v.from => before <= after
      /\ v.from = w.from + 1 => after = before + (m + 1)
  BY <1>5
<1> HIDE DEF before, after, m
<1>8. CASE v.t = w.t + 1 /\ v.from >= w.from
  BY <1>4, <1>6, <1>7, <1>8
<1>9. CASE v.from = w.from + 1
  BY <1>1, <1>4, <1>6, <1>7, <1>9
<1> QED
  BY <1>3, <1>8, <1>9

(* The walk is one pass after another, until the text ends or it is over.     *)
Pass(tokens, text, w) ==
  IF w.over \/ w.c >= Len(text) THEN w ELSE Step(tokens, text, w)

LEMMA PassOK ==
  ASSUME NEW S, NEW tokens \in Seq(TokensOver(S)), NEW text \in Seq(S),
         NEW w, WalkOK(tokens, text, w)
  PROVE  WalkOK(tokens, text, Pass(tokens, text, w))
<1>1. Len(text) \in Nat /\ w.c \in Nat
  BY DEF WalkOK, Walks
<1> QED
  BY <1>1, StepOK DEF Pass

LEMMA StartOK ==
  ASSUME NEW S, NEW tokens \in Seq(TokensOver(S)), NEW text \in Seq(S)
  PROVE  WalkOK(tokens, text, Start)
<1>1. Len(tokens) \in Nat /\ Len(text) \in Nat
  OBVIOUS
<1>2. Start \in Walks(tokens, text)
  BY <1>1 DEF Start, Walks
<1> QED
  BY <1>1, <1>2 DEF Start, WalkOK

LEMMA RankIsNat ==
  ASSUME NEW tokens, NEW text, Len(tokens) \in Nat, NEW w, WalkOK(tokens, text, w)
  PROVE  Rank(tokens, w) \in Nat
<1>1. w.from \in Nat /\ w.t \in Nat
  BY DEF WalkOK, Walks
<1>2. Len(tokens) + 1 \in Nat
  OBVIOUS
<1>3. w.from * (Len(tokens) + 1) \in Nat
  BY <1>1, <1>2, Products
<1> QED
  BY <1>1, <1>3 DEF Rank

(* After as many passes as the walk is given, it has ended.                   *)
LEMMA WalkIs ==
  ASSUME NEW S, NEW tokens \in Seq(TokensOver(S)), NEW text \in Seq(S), NEW fuel \in Nat
  PROVE  LET w == Walk(tokens, text, fuel)
         IN  /\ WalkOK(tokens, text, w)
             /\ w.over \/ w.c >= Len(text) \/ Rank(tokens, w) >= fuel
<1> DEFINE V == {w \in Walks(tokens, text) : WalkOK(tokens, text, w)}
           F == [i \in 1 .. fuel |-> [w \in V |-> Pass(tokens, text, w)]]
           IsIt(g) == g = [i \in 0 .. fuel |->
                             IF i = 0 THEN Start
                             ELSE IF g[i - 1].over \/ g[i - 1].c >= Len(text) THEN g[i - 1]
                             ELSE Step(tokens, text, g[i - 1])]
<1>1. Start \in V
  BY StartOK DEF WalkOK
<1>2. F \in [1 .. fuel -> [V -> V]]
  <2>1. \A w \in V : Pass(tokens, text, w) \in V
    BY PassOK DEF WalkOK
  <2> HIDE DEF V
  <2> QED
    BY <2>1
<1> HIDE DEF V
<1>3. \A i \in 1 .. fuel, w \in V : F[i][w] = Pass(tokens, text, w)
  OBVIOUS
<1> HIDE DEF F
<1>4. PICK g \in [0 .. fuel -> V] : Unfolds(g, fuel, Start, F)
  BY <1>1, <1>2, Recursion
<1>5. g[0] = Start /\ \A i \in 1 .. fuel : g[i] = Pass(tokens, text, g[i - 1])
  <2>1. \A i \in 1 .. fuel : i - 1 \in 0 .. fuel /\ g[i - 1] \in V
    BY <1>4
  <2> QED
    BY <1>3, <1>4, <2>1 DEF Unfolds
<1>6. IsIt(g)
  BY <1>4, <1>5 DEF Pass
<1>7. PICK h : h = (CHOOSE x : IsIt(x))
  OBVIOUS
<1>8. IsIt(h)
  BY <1>6, <1>7
<1>9. Walk(tokens, text, fuel) = h[fuel]
  BY <1>7 DEF Walk
<1>10. h[0] = Start /\ \A i \in 1 .. fuel : h[i] = Pass(tokens, text, h[i - 1])
  <2>1. \A i \in 0 .. fuel : h[i] = IF i = 0 THEN Start ELSE Pass(tokens, text, h[i - 1])
    BY <1>8 DEF Pass
  <2>2. 0 \in 0 .. fuel /\ \A i \in 1 .. fuel : i \in 0 .. fuel /\ i # 0
    OBVIOUS
  <2> HIDE DEF IsIt
  <2> QED
    BY <2>1, <2>2
<1> DEFINE Good(i) == /\ WalkOK(tokens, text, h[i])
                      /\ h[i].over \/ h[i].c >= Len(text) \/ Rank(tokens, h[i]) >= i
           D == {i \in Nat : i <= fuel => Good(i)}
<1>11. 0 \in D
  <2>1. WalkOK(tokens, text, h[0])
    BY <1>10, StartOK
  <2>2. Rank(tokens, h[0]) >= 0
    BY <1>10 DEF Start, Rank
  <2> QED
    BY <2>1, <2>2
<1>12. ASSUME NEW i \in Nat, i \in D PROVE i + 1 \in D
  <2> SUFFICES ASSUME i + 1 <= fuel PROVE Good(i + 1)
    OBVIOUS
  <2>1. Good(i)
    BY <1>12
  <2>2. i + 1 \in 1 .. fuel /\ (i + 1) - 1 = i
    OBVIOUS
  <2>3. h[i + 1] = Pass(tokens, text, h[i])
    BY <1>10, <2>2
  <2>4. WalkOK(tokens, text, h[i + 1])
    BY <2>1, <2>3, PassOK
  <2>5. CASE h[i].over \/ h[i].c >= Len(text)
    BY <2>1, <2>3, <2>4, <2>5 DEF Pass
  <2>6. CASE ~(h[i].over \/ h[i].c >= Len(text))
    <3>1. h[i + 1] = Step(tokens, text, h[i])
      BY <2>3, <2>6 DEF Pass
    <3>2. h[i].c < Len(text)
      BY <2>1, <2>6 DEF WalkOK, Walks
    <3>3. h[i + 1].over \/ Rank(tokens, h[i + 1]) >= Rank(tokens, h[i]) + 1
      BY <2>1, <2>6, <3>1, <3>2, StepRises
    <3>4. Rank(tokens, h[i]) \in Nat /\ Rank(tokens, h[i + 1]) \in Nat
      BY <2>1, <2>4, RankIsNat
    <3>5. Rank(tokens, h[i]) >= i
      BY <2>1, <2>6
    <3> QED
      BY <2>4, <3>3, <3>4, <3>5
  <2> QED
    BY <2>5, <2>6
<1> HIDE DEF D
<1>13. Nat \subseteq D
  BY <1>11, <1>12, Inductive
<1>14. Good(fuel)
  BY <1>13 DEF D
<1> QED
  BY <1>9, <1>14

LEMMA WalkHasEnded ==
  ASSUME NEW S, NEW tokens \in Seq(TokensOver(S)), NEW text \in Seq(S)
  PROVE  LET w == Walk(tokens, text, Fuel(tokens, text))
         IN  WalkOK(tokens, text, w) /\ (w.over \/ w.c = Len(text))
<1> DEFINE m == Len(tokens)  n == Len(text)  fuel == Fuel(tokens, text)
<1>1. m \in Nat /\ n \in Nat /\ m + 1 \in Nat
  OBVIOUS
<1>2. n * (m + 1) \in Nat /\ fuel = n * (m + 1) + 2 * (m + 1)
  <2>1. /\ (n + 1) * (m + 1) = n * (m + 1) + (m + 1)
        /\ ((n + 1) + 1) * (m + 1) = (n + 1) * (m + 1) + (m + 1)
        /\ n * (m + 1) \in Nat
    BY <1>1, Products
  <2>2. fuel = (m + 1) * (n + 2)
    BY DEF Fuel
  <2>3. (m + 1) * (n + 2) = ((n + 1) + 1) * (m + 1)
    BY <1>1
  <2> QED
    BY <1>1, <2>1, <2>2, <2>3
<1>3. fuel \in Nat /\ fuel > n * (m + 1) + m
  BY <1>1, <1>2
<1> SUFFICES ASSUME NEW w, w = Walk(tokens, text, fuel)
             PROVE  WalkOK(tokens, text, w) /\ (w.over \/ w.c = n)
  OBVIOUS
<1> HIDE DEF fuel
<1>4. WalkOK(tokens, text, w) /\ (w.over \/ w.c >= n \/ Rank(tokens, w) >= fuel)
  BY <1>3, WalkIs
<1>5. w.t \in 0 .. m /\ w.c \in Nat /\ w.from \in Nat /\ w.from <= n /\ w.c <= n
  BY <1>1, <1>4 DEF WalkOK, Walks
<1>6. w.from * (m + 1) <= n * (m + 1) /\ w.from * (m + 1) \in Nat
  BY <1>1, <1>5, Products
<1>7. Rank(tokens, w) = w.from * (m + 1) + w.t
  BY DEF Rank
<1>8. Rank(tokens, w) < fuel
  <2> DEFINE a == w.from * (m + 1)  b == n * (m + 1)
  <2>1. a \in Nat /\ b \in Nat /\ a <= b /\ fuel > b + m /\ Rank(tokens, w) = a + w.t
    BY <1>2, <1>3, <1>6, <1>7
  <2> HIDE DEF a, b
  <2> QED
    BY <1>1, <1>3, <1>5, <2>1
<1>9. Rank(tokens, w) \in Nat
  BY <1>4, RankIsNat
<1> QED
  BY <1>1, <1>3, <1>4, <1>5, <1>8, <1>9

(* The matcher answers within (tokens + 1) * (characters + 2) passes of its   *)
(* loop, as the comment before matchGlobTokens (model.ts:117) has it, and     *)
(* what it answers is what the pattern means: no way to fit the text is       *)
(* missed because it goes back to the last star only.                         *)
THEOREM MatcherIsExact ==
  ASSUME NEW S, NEW pattern \in Seq(S), NEW text \in Seq(S)
  PROVE  LET tokens == Compile(pattern)
             w == Walk(tokens, text, Fuel(tokens, text))
         IN  /\ w.over \/ w.c = Len(text)
             /\ MatchGlobTokens(tokens, text) <=> Means(pattern, text)
<1> DEFINE n == Len(text)
<1> SUFFICES ASSUME NEW tokens, tokens = Compile(pattern),
                    NEW w, w = Walk(tokens, text, Fuel(tokens, text))
             PROVE  /\ w.over \/ w.c = n
                    /\ MatchGlobTokens(tokens, text) <=> Means(pattern, text)
  OBVIOUS
<1>1. n \in Nat
  OBVIOUS
<1>2. tokens \in Seq(TokensOver(S)) /\ (Means(pattern, text) <=> Rest(tokens, text, 0, 0))
  BY <1>1, CompiledMeans DEF Rest
<1>3. WalkOK(tokens, text, w) /\ (w.over \/ w.c = n)
  BY <1>2, WalkHasEnded
<1>4. /\ w.t \in 0 .. Len(tokens) /\ w.c \in Nat /\ w.from \in Nat /\ w.from <= w.c
  BY <1>3 DEF WalkOK, Walks
<1>5. MatchGlobTokens(tokens, text) <=>
        ~w.over /\ w.c = n /\ \A i \in w.t + 1 .. Len(tokens) : tokens[i].kind = "STAR"
  BY DEF MatchGlobTokens
<1>6. CASE w.over
  BY <1>2, <1>3, <1>5, <1>6 DEF WalkOK
<1>7. CASE ~w.over
  <2>1. w.c = n
    BY <1>3, <1>7
  <2>2. MatchGlobTokens(tokens, text) <=> Rest(tokens, text, w.t, w.c)
    BY <1>2, <1>4, <1>5, <1>7, <2>1, RestAtEnd
  <2>3. CASE w.star = 0
    BY <1>2, <1>3, <1>7, <2>1, <2>2, <2>3 DEF WalkOK
  <2>4. CASE w.star # 0
    <3>1. SinceStar(tokens, text, w)
      BY <1>3, <1>7, <2>4 DEF WalkOK
    <3>2. ASSUME Rest(tokens, text, 0, 0) PROVE Rest(tokens, text, w.t, w.c)
      <4>1. PICK e \in w.from .. n : Rest(tokens, text, w.star, e)
        BY <3>1, <3>2 DEF SinceStar
      <4>2. e + (w.c - w.from) \in 0 .. n /\ Rest(tokens, text, w.t, e + (w.c - w.from))
        BY <3>1, <4>1 DEF SinceStar
      <4>3. e + (w.c - w.from) = w.c
        BY <1>1, <1>4, <2>1, <4>1, <4>2
      <4> QED
        BY <4>2, <4>3
    <3>3. ASSUME Rest(tokens, text, w.t, w.c) PROVE Rest(tokens, text, 0, 0)
      <4>1. Rest(tokens, text, w.star, w.from) /\ w.from \in w.from .. n
        BY <1>1, <1>4, <2>1, <3>1, <3>3 DEF SinceStar
      <4> QED
        BY <3>1, <4>1 DEF SinceStar
    <3> QED
      BY <1>2, <2>1, <2>2, <3>2, <3>3
  <2> QED
    BY <2>1, <2>3, <2>4
<1> QED
  BY <1>3, <1>6, <1>7
=============================================================================
