---------------------------- MODULE SumTheorems ----------------------------
(***************************************************************************)
(* Facts about SumFunctionOnSet, the sum of the values of a function over  *)
(* a finite set of arguments, which counts the coins of an auction.        *)
(*                                                                         *)
(* The sum is a fold that takes the elements away one by one, each chosen  *)
(* arbitrarily. The proofs use induction without an operator as parameter: *)
(* a set of sets that is closed under adding an element holds every finite *)
(* set, because the counterexamples would have a minimal one.              *)
(***************************************************************************)
EXTENDS Functions, FiniteSets, FiniteSetTheorems, WellFoundedInduction, TLAPS

-----------------------------------------------------------------------------
(* Induction, with a set in the place of a predicate *)

\* A set of naturals that is closed under successors and holds 0 is all of them.
LEMMA NatSetInduction ==
  ASSUME NEW Q, 0 \in Q, \A n \in Nat : n \in Q => n + 1 \in Q
  PROVE  Nat \subseteq Q
PROOF
  <1> SUFFICES ASSUME Nat \ Q # {}
               PROVE  FALSE
    OBVIOUS
  <1> DEFINE T == Nat \ Q
  <1>1. T \subseteq Nat /\ T # {}
    OBVIOUS
  <1>2. PICK n \in T : \A m \in T : <<m, n>> \notin OpToRel(<, Nat)
    <2> HIDE DEF T
    <2> QED
      BY <1>1, WFMin, NatLessThanWellFounded
  <1>3. \A m \in T : ~(m < n)
    BY <1>2 DEF OpToRel
  <1>4. n \in Nat /\ n # 0 /\ n - 1 \in Nat
    OBVIOUS
  <1>5. n - 1 \in Q
    BY <1>3, <1>4
  <1> QED
    BY <1>4, <1>5

\* A set of subsets of U holds them all if it holds every S all of whose strict
\* subsets it holds.
LEMMA SubsetInduction ==
  ASSUME NEW U, IsFiniteSet(U), NEW Q,
         \A S \in SUBSET U : (\A T \in SUBSET S : T # S => T \in Q) => S \in Q
  PROVE  SUBSET U \subseteq Q
PROOF
  <1> SUFFICES ASSUME (SUBSET U) \ Q # {}
               PROVE  FALSE
    OBVIOUS
  <1> DEFINE Bad == (SUBSET U) \ Q
  <1>1. Bad \subseteq FiniteSubsetsOf(U) /\ Bad # {}
    BY FS_FiniteSubsetsOfFinite
  <1>2. PICK S \in Bad : \A T \in Bad : <<T, S>> \notin StrictSubsetOrdering(U)
    <2> HIDE DEF Bad
    <2> QED
      BY <1>1, WFMin, FS_StrictSubsetOrderingWellFounded
  <1>3. ASSUME NEW T \in SUBSET S, T # S
        PROVE  T \in Q
    BY <1>2, <1>3 DEF StrictSubsetOrdering
  <1>4. S \in SUBSET U /\ S \notin Q
    OBVIOUS
  <1> QED
    BY <1>3, <1>4

-----------------------------------------------------------------------------
(* The fold *)

\* The element that is taken away first, and one step of the fold
Pick(s) == CHOOSE x \in s : TRUE
Fold(f, it, s) == IF s = {} THEN 0 ELSE f[Pick(s)] + it[s \ {Pick(s)}]

\* The function that the fold computes the sums with
Sums(f, S) == CHOOSE it : it = [s \in SUBSET S |-> Fold(f, it, s)]

\* The community module's sum is a fold over the set, one element at a time.
LEMMA SumIsFold ==
  ASSUME NEW f, NEW S
  PROVE  SumFunctionOnSet(f, S) = Sums(f, S)[S]
PROOF
  BY SMT DEF SumFunctionOnSet, FoldFunctionOnSet, MapThenFoldSet, Sums, Fold, Pick

\* That function exists: it is built up by the size of the sets.
LEMMA SumsExist ==
  ASSUME NEW f, NEW S, IsFiniteSet(S)
  PROVE  Sums(f, S) = [s \in SUBSET S |-> Fold(f, Sums(f, S), s)]
PROOF
  <1> DEFINE Small(n) == {s \in SUBSET S : Cardinality(s) <= n}
             Q == {n \in Nat : \E it : it = [s \in Small(n) |-> Fold(f, it, s)]}
  <1>0. \A s \in SUBSET S : IsFiniteSet(s) /\ Cardinality(s) \in Nat
    BY FS_Subset, FS_CardinalityType
  <1>1. 0 \in Q
    <2>1. \A s \in Small(0) : s = {}
      BY <1>0, FS_EmptySet
    <2> DEFINE it == [s \in Small(0) |-> 0]
    <2>2. it = [s \in Small(0) |-> Fold(f, it, s)]
      BY <2>1 DEF Fold
    <2> QED
      BY <2>2
  <1>2. ASSUME NEW n \in Nat, n \in Q
        PROVE  n + 1 \in Q
    <2>1. PICK g : g = [s \in Small(n) |-> Fold(f, g, s)]
      BY <1>2
    <2> DEFINE h == [s \in Small(n + 1) |-> Fold(f, g, s)]
    <2>2. ASSUME NEW s \in Small(n + 1), s # {}
          PROVE  s \ {Pick(s)} \in Small(n)
      <3>1. Pick(s) \in s
        BY <2>2 DEF Pick
      <3>2. Cardinality(s \ {Pick(s)}) = Cardinality(s) - 1
        BY <1>0, <3>1, FS_RemoveElement
      <3> QED
        BY <1>0, <3>2
    <2>3. \A s \in Small(n) : s \in Small(n + 1) /\ h[s] = g[s]
      <3>1. \A s \in Small(n) : s \in Small(n + 1)
        BY <1>0
      <3>2. \A s \in Small(n) : g[s] = Fold(f, g, s)
        BY <2>1
      <3> QED
        BY <3>1, <3>2
    <2>4. \A s \in Small(n + 1) : Fold(f, g, s) = Fold(f, h, s)
      BY <2>2, <2>3 DEF Fold
    <2>5. h = [s \in Small(n + 1) |-> Fold(f, h, s)]
      BY <2>4
    <2>6. \E it : it = [s \in Small(n + 1) |-> Fold(f, it, s)]
      <3> HIDE DEF h, Small
      <3> WITNESS h
      <3> QED
        BY <2>5
    <2> HIDE DEF h, Small
    <2> QED
      BY <2>6
  <1>3. Cardinality(S) \in Q
    <2> HIDE DEF Q
    <2> QED
      BY <1>1, <1>2, NatSetInduction, FS_CardinalityType
  <1>4. Small(Cardinality(S)) = SUBSET S
    BY FS_Subset
  <1>5. \E it : it = [s \in SUBSET S |-> Fold(f, it, s)]
    BY <1>3, <1>4
  <1> QED
    BY <1>5 DEF Sums

\* The recursive function of partial sums satisfies its equation.
LEMMA SumsUnfold ==
  ASSUME NEW f, NEW S, IsFiniteSet(S), NEW s \in SUBSET S
  PROVE  Sums(f, S)[s] = Fold(f, Sums(f, S), s)
PROOF
  <1>1. ASSUME NEW it, it = [u \in SUBSET S |-> Fold(f, it, u)]
        PROVE  it[s] = Fold(f, it, s)
    BY <1>1
  <1> QED
    BY <1>1, SumsExist

\* The sum over a subset is the same, whatever set it is taken for.
LEMMA SumsAgree ==
  ASSUME NEW f, NEW U, IsFiniteSet(U), NEW S \in SUBSET U
  PROVE  \A s \in SUBSET S : Sums(f, S)[s] = Sums(f, U)[s]
PROOF
  <1> DEFINE Q == {s \in SUBSET S : Sums(f, S)[s] = Sums(f, U)[s]}
  <1>0. IsFiniteSet(S)
    BY FS_Subset
  <1>1. ASSUME NEW s \in SUBSET S, \A t \in SUBSET s : t # s => t \in Q
        PROVE  s \in Q
    <2>1. Sums(f, S)[s] = Fold(f, Sums(f, S), s)
      BY <1>0, SumsUnfold
    <2>2. Sums(f, U)[s] = Fold(f, Sums(f, U), s)
      BY SumsUnfold
    <2>3. CASE s = {}
      BY <2>1, <2>2, <2>3 DEF Fold
    <2>4. CASE s # {}
      <3>1. Pick(s) \in s
        BY <2>4 DEF Pick
      <3>2. s \ {Pick(s)} \in Q
        BY <1>1, <3>1
      <3> QED
        BY <2>1, <2>2, <3>2 DEF Fold
    <2> QED
      BY <2>3, <2>4
  <1> HIDE DEF Q
  <1>2. SUBSET S \subseteq Q
    BY <1>0, <1>1, SubsetInduction
  <1> QED
    BY <1>2 DEF Q

-----------------------------------------------------------------------------
(* Facts to cite *)

\* The sum over nothing.
LEMMA SumEmpty ==
  ASSUME NEW f
  PROVE  SumFunctionOnSet(f, {}) = 0
PROOF
  BY SumIsFold, SumsUnfold, FS_EmptySet DEF Fold

\* The fold takes away the element that it picks.
LEMMA SumPick ==
  ASSUME NEW f, NEW S, IsFiniteSet(S), S # {}
  PROVE  /\ Pick(S) \in S
         /\ SumFunctionOnSet(f, S)
              = f[Pick(S)] + SumFunctionOnSet(f, S \ {Pick(S)})
PROOF
  <1> DEFINE T == S \ {Pick(S)}
  <1>1. Pick(S) \in S
    BY DEF Pick
  <1>2. Sums(f, S)[S] = f[Pick(S)] + Sums(f, S)[T]
    BY SumsUnfold DEF Fold
  <1>3. Sums(f, T)[T] = Sums(f, S)[T]
    BY SumsAgree
  <1> QED
    BY <1>1, <1>2, <1>3, SumIsFold

\* The sum of integers is an integer.
LEMMA SumType ==
  ASSUME NEW f, NEW U, IsFiniteSet(U), \A x \in U : f[x] \in Int
  PROVE  \A S \in SUBSET U : SumFunctionOnSet(f, S) \in Int
PROOF
  <1> DEFINE Q == {S \in SUBSET U : SumFunctionOnSet(f, S) \in Int}
  <1>1. ASSUME NEW S \in SUBSET U, \A T \in SUBSET S : T # S => T \in Q
        PROVE  S \in Q
    <2>0. IsFiniteSet(S)
      BY FS_Subset
    <2>1. CASE S = {}
      BY <2>1, SumEmpty
    <2>2. CASE S # {}
      <3>1. /\ Pick(S) \in S
            /\ SumFunctionOnSet(f, S)
                 = f[Pick(S)] + SumFunctionOnSet(f, S \ {Pick(S)})
        BY <2>0, <2>2, SumPick
      <3>2. SumFunctionOnSet(f, S \ {Pick(S)}) \in Int
        BY <1>1, <3>1
      <3> QED
        BY <3>1, <3>2
    <2> QED
      BY <2>1, <2>2
  <1> HIDE DEF Q
  <1>2. SUBSET U \subseteq Q
    BY <1>1, SubsetInduction
  <1> QED
    BY <1>2 DEF Q

\* Any element can be taken away, not only the one that the fold picks.
LEMMA SumRemove ==
  ASSUME NEW f, NEW U, IsFiniteSet(U), \A x \in U : f[x] \in Int
  PROVE  \A S \in SUBSET U : \A x \in S :
           SumFunctionOnSet(f, S) = f[x] + SumFunctionOnSet(f, S \ {x})
PROOF
  <1> DEFINE Q == {S \in SUBSET U : \A x \in S :
                     SumFunctionOnSet(f, S) = f[x] + SumFunctionOnSet(f, S \ {x})}
  <1>1. ASSUME NEW S \in SUBSET U, \A T \in SUBSET S : T # S => T \in Q
        PROVE  S \in Q
    <2> SUFFICES ASSUME NEW x \in S
                 PROVE  SumFunctionOnSet(f, S) = f[x] + SumFunctionOnSet(f, S \ {x})
      OBVIOUS
    <2> DEFINE p == Pick(S)
    <2>1. /\ p \in S
          /\ SumFunctionOnSet(f, S) = f[p] + SumFunctionOnSet(f, S \ {p})
      BY SumPick, FS_Subset
    <2>2. CASE x = p
      BY <2>1, <2>2
    <2>3. CASE x # p
      <3> DEFINE Rest == S \ {p, x}
      <3>1. Rest \in SUBSET U /\ S \ {p} \in Q /\ S \ {x} \in Q
        BY <1>1, <2>1
      <3>2. (S \ {p}) \ {x} = Rest /\ (S \ {x}) \ {p} = Rest
        OBVIOUS
      <3>3. SumFunctionOnSet(f, S \ {p}) = f[x] + SumFunctionOnSet(f, Rest)
        BY <2>3, <3>1, <3>2
      <3>4. SumFunctionOnSet(f, S \ {x}) = f[p] + SumFunctionOnSet(f, Rest)
        BY <2>1, <2>3, <3>1, <3>2
      <3>5. f[x] \in Int /\ f[p] \in Int /\ SumFunctionOnSet(f, Rest) \in Int
        BY <2>1, <3>1, SumType
      <3> QED
        BY <2>1, <3>3, <3>4, <3>5
    <2> QED
      BY <2>2, <2>3
  <1> HIDE DEF Q
  <1>2. SUBSET U \subseteq Q
    BY <1>1, SubsetInduction
  <1> QED
    BY <1>2 DEF Q

\* Functions that agree have the same sum.
LEMMA SumEqual ==
  ASSUME NEW f, NEW g, NEW U, IsFiniteSet(U), \A x \in U : f[x] = g[x]
  PROVE  SumFunctionOnSet(f, U) = SumFunctionOnSet(g, U)
PROOF
  <1> DEFINE Q == {S \in SUBSET U : SumFunctionOnSet(f, S) = SumFunctionOnSet(g, S)}
  <1>1. ASSUME NEW S \in SUBSET U, \A T \in SUBSET S : T # S => T \in Q
        PROVE  S \in Q
    <2>0. IsFiniteSet(S)
      BY FS_Subset
    <2>1. CASE S = {}
      BY <2>1, SumEmpty
    <2>2. CASE S # {}
      <3>1. /\ Pick(S) \in S
            /\ SumFunctionOnSet(f, S)
                 = f[Pick(S)] + SumFunctionOnSet(f, S \ {Pick(S)})
            /\ SumFunctionOnSet(g, S)
                 = g[Pick(S)] + SumFunctionOnSet(g, S \ {Pick(S)})
        BY <2>0, <2>2, SumPick
      <3>2. S \ {Pick(S)} \in Q
        BY <1>1, <3>1
      <3> QED
        BY <3>1, <3>2
    <2> QED
      BY <2>1, <2>2
  <1> HIDE DEF Q
  <1>2. SUBSET U \subseteq Q
    BY <1>1, SubsetInduction
  <1> QED
    BY <1>2 DEF Q

\* A function that is zero everywhere has the sum zero.
LEMMA SumZero ==
  ASSUME NEW f, NEW U, IsFiniteSet(U), \A x \in U : f[x] = 0
  PROVE  SumFunctionOnSet(f, U) = 0
PROOF
  <1> DEFINE Q == {S \in SUBSET U : SumFunctionOnSet(f, S) = 0}
  <1>1. ASSUME NEW S \in SUBSET U, \A T \in SUBSET S : T # S => T \in Q
        PROVE  S \in Q
    <2>0. IsFiniteSet(S)
      BY FS_Subset
    <2>1. CASE S = {}
      BY <2>1, SumEmpty
    <2>2. CASE S # {}
      <3>1. /\ Pick(S) \in S
            /\ SumFunctionOnSet(f, S)
                 = f[Pick(S)] + SumFunctionOnSet(f, S \ {Pick(S)})
        BY <2>0, <2>2, SumPick
      <3>2. S \ {Pick(S)} \in Q
        BY <1>1, <3>1
      <3> QED
        BY <3>1, <3>2
    <2> QED
      BY <2>1, <2>2
  <1> HIDE DEF Q
  <1>2. SUBSET U \subseteq Q
    BY <1>1, SubsetInduction
  <1> QED
    BY <1>2 DEF Q

\* A change of one value changes the sum by as much.
THEOREM SumChange ==
  ASSUME NEW f, NEW g, NEW U, IsFiniteSet(U), NEW c \in U,
         \A x \in U : f[x] \in Int /\ g[x] \in Int,
         \A x \in U \ {c} : g[x] = f[x]
  PROVE  /\ SumFunctionOnSet(f, U) \in Int
         /\ SumFunctionOnSet(g, U) = SumFunctionOnSet(f, U) + g[c] - f[c]
PROOF
  <1> DEFINE Rest == U \ {c}
  <1>1. /\ SumFunctionOnSet(f, U) = f[c] + SumFunctionOnSet(f, Rest)
        /\ SumFunctionOnSet(g, U) = g[c] + SumFunctionOnSet(g, Rest)
    BY SumRemove
  <1>2. SumFunctionOnSet(f, Rest) = SumFunctionOnSet(g, Rest)
    BY SumEqual, FS_Subset
  <1>3. SumFunctionOnSet(f, Rest) \in Int /\ SumFunctionOnSet(f, U) \in Int
    BY SumType
  <1> QED
    BY <1>1, <1>2, <1>3
=============================================================================
