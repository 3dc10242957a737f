-------------------------- MODULE LruEviction_proofs --------------------------
(***************************************************************************)
(* used_mb for every slot table: a sum over the models of natural numbers,  *)
(* which adding a model raises by its size and taking models out lowers.    *)
(*                                                                         *)
(* The sum folds over the models in the order of a CHOOSE.  What it is for  *)
(* every finite set is shown by induction on the set: a set of good sets    *)
(* that holds the empty set, and each set whose rest it holds, holds all.   *)
(***************************************************************************)
EXTENDS LruEviction, FiniteSetTheorems, WellFoundedInduction, TLAPS

LEMMA LeastOf ==
    ASSUME NEW S, S \subseteq Nat, S # {}
    PROVE  \E k \in S : \A j \in S : k <= j
<1>1. \E x \in S : \A y \in S : ~ (<<y, x>> \in OpToRel(<,Nat))
  BY NatLessThanWellFounded, WFMin
<1>2. PICK x \in S : \A y \in S : ~ (<<y, x>> \in OpToRel(<,Nat))
  BY <1>1
<1>3. \A y \in S : ~(y < x)
  BY <1>2 DEF OpToRel
<1> QED
  BY <1>3

\* The element a fold over s takes first.
First(s) == CHOOSE x \in s : TRUE
Rest(s) == s \ {First(s)}

LEMMA RestIsSmaller ==
    ASSUME NEW s, IsFiniteSet(s), s # {}
    PROVE  /\ First(s) \in s /\ Rest(s) \in SUBSET s /\ IsFiniteSet(Rest(s))
           /\ Cardinality(s) \in Nat /\ Cardinality(Rest(s)) = Cardinality(s) - 1 /\ Cardinality(Rest(s)) \in Nat
<1>1. First(s) \in s /\ Rest(s) \in SUBSET s
  BY DEF First, Rest
<1> QED
  BY <1>1, FS_RemoveElement, FS_CardinalityType DEF Rest

\* Induction on finite sets, a set at a time.
LEMMA SetInduction ==
    ASSUME NEW S, IsFiniteSet(S), NEW Good, {} \in Good,
           \A s \in SUBSET S : s # {} /\ Rest(s) \in Good => s \in Good
    PROVE  SUBSET S \subseteq Good
<1> DEFINE Bad == {s \in SUBSET S : s \notin Good}
           Sizes == {Cardinality(s) : s \in Bad}
<1>1. \A s \in SUBSET S : IsFiniteSet(s) /\ Cardinality(s) \in Nat
  BY FS_Subset, FS_CardinalityType
<1> SUFFICES ASSUME Bad # {} PROVE FALSE
  OBVIOUS
<1>2. Sizes \subseteq Nat /\ Sizes # {}
  BY <1>1
<1>3. PICK k \in Sizes : \A j \in Sizes : k <= j
  BY <1>2, LeastOf
<1>4. PICK s \in Bad : Cardinality(s) = k
  BY <1>3
<1>5. s # {} /\ Rest(s) \in SUBSET S /\ Cardinality(Rest(s)) = k - 1 /\ k \in Nat
  BY <1>1, <1>4, RestIsSmaller
<1>6. Rest(s) \in Bad
  BY <1>4, <1>5
<1> QED
  BY <1>3, <1>5, <1>6
-----------------------------------------------------------------------------
\* The sums over the subsets of S.
Sums(f, S) ==
    LET it[s \in SUBSET S] == IF s = {} THEN 0 ELSE f[First(s)] + it[Rest(s)]
    IN  it

LEMMA SumIsLast ==
    ASSUME NEW f, NEW S
    PROVE  SumFunctionOnSet(f, S) = Sums(f, S)[S]
BY DEF SumFunctionOnSet, FoldFunctionOnSet, MapThenFoldSet, Sums, First, Rest

\* There is such a function: for the sets of at most n elements there is one,
\* whatever n.
Adds(f, D, it) == it = [s \in D |-> IF s = {} THEN 0 ELSE f[First(s)] + it[Rest(s)]]
UpTo(n, S) == {s \in SUBSET S : Cardinality(s) <= n}

LEMMA SumsOfSmallSets ==
    ASSUME NEW f, NEW S, IsFiniteSet(S), NEW n \in Nat
    PROVE  \E it : Adds(f, UpTo(n, S), it)
<1> DEFINE Bad == {k \in Nat : ~\E it : Adds(f, UpTo(k, S), it)}
<1>0. \A s \in SUBSET S : IsFiniteSet(s) /\ Cardinality(s) \in Nat /\ (Cardinality(s) = 0 <=> s = {})
  BY FS_Subset, FS_CardinalityType, FS_EmptySet
<1> SUFFICES ASSUME Bad # {} PROVE FALSE
  OBVIOUS
<1>1. PICK k \in Bad : \A j \in Bad : k <= j
  <2>1. Bad \subseteq Nat
    OBVIOUS
  <2> HIDE DEF Bad
  <2> QED
    BY <2>1, LeastOf
<1>2. k \in Nat
  OBVIOUS
<1>3. k # 0
  <2>1. PICK zero : zero = [s \in UpTo(0, S) |-> 0]
    OBVIOUS
  <2>2. \A s \in UpTo(0, S) : s = {}
    BY <1>0 DEF UpTo
  <2>3. Adds(f, UpTo(0, S), zero)
    BY <2>1, <2>2 DEF Adds
  <2> QED
    BY <2>3
<1>4. PICK less : Adds(f, UpTo(k - 1, S), less)
  BY <1>1, <1>2, <1>3
<1>5. PICK more : more = [s \in UpTo(k, S) |-> IF s = {} THEN 0 ELSE f[First(s)] + less[Rest(s)]]
  OBVIOUS
<1>6. \A s \in UpTo(k - 1, S) : s \in UpTo(k, S) /\ more[s] = less[s]
  <2>1. \A s \in UpTo(k - 1, S) : s \in UpTo(k, S)
    BY <1>0, <1>2 DEF UpTo
  <2> QED
    BY <1>4, <1>5, <2>1 DEF Adds
<1>7. \A s \in UpTo(k, S) : s # {} => Rest(s) \in UpTo(k - 1, S)
  BY <1>0, <1>2, <1>3, RestIsSmaller DEF UpTo
<1>8. Adds(f, UpTo(k, S), more)
  BY <1>5, <1>6, <1>7 DEF Adds
<1> QED
  BY <1>1, <1>8

LEMMA SumsAdd ==
    ASSUME NEW f, NEW S, IsFiniteSet(S)
    PROVE  Adds(f, SUBSET S, Sums(f, S))
<1>1. Cardinality(S) \in Nat /\ \A s \in SUBSET S : Cardinality(s) <= Cardinality(S)
  BY FS_CardinalityType, FS_Subset
<1>2. UpTo(Cardinality(S), S) = SUBSET S
  BY <1>1 DEF UpTo
<1>3. PICK it : Adds(f, SUBSET S, it)
  <2>1. \E it : Adds(f, UpTo(Cardinality(S), S), it)
    BY <1>1, SumsOfSmallSets
  <2> QED
    BY <1>2, <2>1, Zenon
<1> QED
  BY <1>3 DEF Adds, Sums

LEMMA SumsUnfold ==
    ASSUME NEW f, NEW S, IsFiniteSet(S)
    PROVE  /\ Sums(f, S)[{}] = 0
           /\ \A s \in SUBSET S : s # {} => Sums(f, S)[s] = f[First(s)] + Sums(f, S)[Rest(s)]
<1>0. PICK it : it = Sums(f, S)
  OBVIOUS
<1>1. it = [s \in SUBSET S |-> IF s = {} THEN 0 ELSE f[First(s)] + it[Rest(s)]]
  <2>1. Adds(f, SUBSET S, it)
    BY <1>0, SumsAdd
  <2> QED
    BY <2>1 DEF Adds
<1>2. {} \in SUBSET S
  OBVIOUS
<1>3. it[{}] = 0 /\ \A s \in SUBSET S : s # {} => it[s] = f[First(s)] + it[Rest(s)]
  BY <1>1, <1>2, Zenon
<1> QED
  BY <1>0, <1>3
-----------------------------------------------------------------------------
\* A sum of natural numbers is one.
LEMMA SumType ==
    ASSUME NEW S, IsFiniteSet(S), NEW f \in [S -> Nat]
    PROVE  SumFunctionOnSet(f, S) \in Nat
<1> DEFINE Good == {s \in SUBSET S : Sums(f, S)[s] \in Nat}
<1>1. {} \in Good
  BY SumsUnfold
<1>2. ASSUME NEW s \in SUBSET S, s # {}, Rest(s) \in Good PROVE s \in Good
  <2>1. First(s) \in S
    BY <1>2, FS_Subset, RestIsSmaller
  <2>2. Sums(f, S)[s] = f[First(s)] + Sums(f, S)[Rest(s)]
    BY <1>2, SumsUnfold
  <2> QED
    BY <1>2, <2>1, <2>2
<1> HIDE DEF Good
<1>3. SUBSET S \subseteq Good
  BY <1>1, <1>2, SetInduction
<1> QED
  BY <1>3, SumIsLast DEF Good

\* Smaller terms make no greater sum.
LEMMA SumMonotone ==
    ASSUME NEW S, IsFiniteSet(S), NEW f \in [S -> Nat], NEW g \in [S -> Nat], \A x \in S : f[x] <= g[x]
    PROVE  SumFunctionOnSet(f, S) <= SumFunctionOnSet(g, S)
<1> DEFINE Good == {s \in SUBSET S : /\ Sums(f, S)[s] \in Nat /\ Sums(g, S)[s] \in Nat
                                      /\ Sums(f, S)[s] <= Sums(g, S)[s]}
<1>1. {} \in Good
  BY SumsUnfold
<1>2. ASSUME NEW s \in SUBSET S, s # {}, Rest(s) \in Good PROVE s \in Good
  <2>1. First(s) \in S
    BY <1>2, FS_Subset, RestIsSmaller
  <2>2. /\ Sums(f, S)[s] = f[First(s)] + Sums(f, S)[Rest(s)]
        /\ Sums(g, S)[s] = g[First(s)] + Sums(g, S)[Rest(s)]
    BY <1>2, SumsUnfold
  <2> QED
    BY <1>2, <2>1, <2>2
<1> HIDE DEF Good
<1>3. SUBSET S \subseteq Good
  BY <1>1, <1>2, SetInduction
<1> QED
  BY <1>3, SumIsLast DEF Good

\* A term raised from zero raises the sum by as much.
LEMMA SumRaised ==
    ASSUME NEW S, IsFiniteSet(S), NEW f, f \in [S -> Nat], NEW m, m \in S, f[m] = 0, NEW v, v \in Nat,
           NEW g, \A x \in S : g[x] = IF x = m THEN v ELSE f[x]
    PROVE  SumFunctionOnSet(g, S) = SumFunctionOnSet(f, S) + v
<1> DEFINE Good == {s \in SUBSET S : /\ Sums(f, S)[s] \in Nat
                                      /\ Sums(g, S)[s] = Sums(f, S)[s] + (IF m \in s THEN v ELSE 0)}
<1>1. {} \in Good
  BY SumsUnfold
<1>2. ASSUME NEW s \in SUBSET S, s # {}, Rest(s) \in Good PROVE s \in Good
  <2>1. First(s) \in S /\ First(s) \in s
    BY <1>2, FS_Subset, RestIsSmaller
  <2>2. /\ Sums(f, S)[s] = f[First(s)] + Sums(f, S)[Rest(s)]
        /\ Sums(g, S)[s] = g[First(s)] + Sums(g, S)[Rest(s)]
    <3>1. \A h : Sums(h, S)[s] = h[First(s)] + Sums(h, S)[Rest(s)]
      BY <1>2, SumsUnfold
    <3> QED
      BY <3>1
  <2>3. /\ Sums(f, S)[Rest(s)] \in Nat
        /\ Sums(g, S)[Rest(s)] = Sums(f, S)[Rest(s)] + (IF m \in Rest(s) THEN v ELSE 0)
    BY <1>2
  <2>4. CASE First(s) = m
    <3>1. f[First(s)] = 0 /\ g[First(s)] = v /\ m \notin Rest(s) /\ m \in s
      BY <2>1, <2>4 DEF Rest
    <3>2. Sums(f, S)[s] \in Nat /\ Sums(g, S)[s] = Sums(f, S)[s] + v
      BY <2>2, <2>3, <3>1
    <3> QED
      BY <3>1, <3>2
  <2>5. CASE First(s) # m
    <3>1. f[First(s)] \in Nat /\ g[First(s)] = f[First(s)] /\ (m \in Rest(s) <=> m \in s)
      BY <2>1, <2>5 DEF Rest
    <3> HIDE DEF Good
    <3>2. Sums(f, S)[s] \in Nat /\ Sums(g, S)[s] = Sums(f, S)[s] + (IF m \in s THEN v ELSE 0)
      BY <2>2, <2>3, <3>1
    <3> QED
      BY <3>2 DEF Good
  <2> QED
    BY <2>4, <2>5
<1> HIDE DEF Good
<1>3. SUBSET S \subseteq Good
  BY <1>1, <1>2, SetInduction
<1> QED
  BY <1>3, SumIsLast DEF Good

\* Zeros add up to nothing.
LEMMA SumOfZeros ==
    ASSUME NEW S, IsFiniteSet(S), NEW f, \A x \in S : f[x] = 0
    PROVE  SumFunctionOnSet(f, S) = 0
<1> DEFINE Good == {s \in SUBSET S : Sums(f, S)[s] = 0}
<1>1. {} \in Good
  BY SumsUnfold
<1>2. ASSUME NEW s \in SUBSET S, s # {}, Rest(s) \in Good PROVE s \in Good
  <2>1. First(s) \in S
    BY <1>2, FS_Subset, RestIsSmaller
  <2>2. Sums(f, S)[s] = f[First(s)] + Sums(f, S)[Rest(s)]
    BY <1>2, SumsUnfold
  <2> QED
    BY <1>2, <2>1, <2>2
<1> HIDE DEF Good
<1>3. SUBSET S \subseteq Good
  BY <1>1, <1>2, SetInduction
<1> QED
  BY <1>3, SumIsLast DEF Good
-----------------------------------------------------------------------------
\* A slot table whose models are charged natural numbers.
Charges(sl) == \A m \in LoadedIn(sl) : sl[m].mb \in Nat

LEMMA UsedMbType ==
    ASSUME NEW sl, Charges(sl)
    PROVE  SlotMb(sl) \in [Models -> Nat] /\ UsedMb(sl) \in Nat
<1>1. SlotMb(sl) \in [Models -> Nat]
  BY DEF SlotMb, Charges, LoadedIn
<1> QED
  BY <1>1, SumType, FiniteModels DEF UsedMb

\* What is not loaded uses nothing.
LEMMA NothingLoaded ==
    ASSUME NEW sl, LoadedIn(sl) = {}
    PROVE  UsedMb(sl) = 0
<1>1. \A m \in Models : SlotMb(sl)[m] = 0
  BY DEF SlotMb, LoadedIn
<1> QED
  BY <1>1, SumOfZeros, FiniteModels DEF UsedMb

\* The more is taken out, the less is used.
LEMMA WithoutUses ==
    ASSUME NEW sl, Charges(sl), NEW gone, NEW more, gone \subseteq more
    PROVE  /\ Charges(Without(sl, more))
           /\ LoadedIn(Without(sl, more)) = LoadedIn(sl) \ more
           /\ UsedMb(Without(sl, more)) <= UsedMb(Without(sl, gone))
           /\ UsedMb(Without(sl, more)) <= UsedMb(sl)
<1>1. ASSUME NEW out
      PROVE  Charges(Without(sl, out)) /\ LoadedIn(Without(sl, out)) = LoadedIn(sl) \ out
  BY DEF Without, Charges, LoadedIn
<1>2. /\ SlotMb(sl) \in [Models -> Nat] /\ SlotMb(Without(sl, gone)) \in [Models -> Nat]
      /\ SlotMb(Without(sl, more)) \in [Models -> Nat]
  BY <1>1, UsedMbType
<1>3. \A m \in Models : /\ SlotMb(Without(sl, more))[m] \in {0, SlotMb(sl)[m]}
                         /\ SlotMb(Without(sl, more))[m] \in {0, SlotMb(Without(sl, gone))[m]}
  BY DEF SlotMb, Without
<1>4. \A m \in Models : /\ SlotMb(Without(sl, more))[m] <= SlotMb(sl)[m]
                         /\ SlotMb(Without(sl, more))[m] <= SlotMb(Without(sl, gone))[m]
  BY <1>2, <1>3
<1> QED
  BY <1>1, <1>2, <1>4, SumMonotone, FiniteModels DEF UsedMb

\* A model loaded beside others adds its size.
LEMMA LoadedUses ==
    ASSUME NEW sl, Charges(sl), NEW m \in Models, sl[m] = NoSlot, NEW mb \in Nat,
           NEW more, SlotMb(more) = [SlotMb(sl) EXCEPT ![m] = mb]
    PROVE  UsedMb(more) = UsedMb(sl) + mb
<1>1. SlotMb(sl) \in [Models -> Nat] /\ SlotMb(sl)[m] = 0
  BY UsedMbType DEF SlotMb
<1>2. PICK f, g : f = SlotMb(sl) /\ g = SlotMb(more)
  OBVIOUS
<1>3. f \in [Models -> Nat] /\ f[m] = 0
  BY <1>1, <1>2
<1>4. \A x \in Models : g[x] = IF x = m THEN mb ELSE f[x]
  BY <1>1, <1>2
<1>5. SumFunctionOnSet(g, Models) = SumFunctionOnSet(f, Models) + mb
  BY <1>3, <1>4, SumRaised, FiniteModels
<1> QED
  BY <1>2, <1>5 DEF UsedMb
=============================================================================
