--------------------------- MODULE EvictLoop_proofs ---------------------------
(***************************************************************************)
(* The loop of _evict_to_fit and its description in LruEviction are the    *)
(* same thing, for any models, sizes, budget and times of use.             *)
(***************************************************************************)
EXTENDS EvictLoop, LruEviction_proofs

Gone == LoadedIn(given) \ LoadedIn(slots)

TypeInv ==
    /\ given \in [Models -> Entry]
    /\ needed \in MbValues

\* What went was used no later than what is left, and the last of it did not
\* leave room enough by staying.
LoopInv ==
    /\ slots = Without(given, Gone)
    /\ \A v \in Gone, k \in LoadedIn(slots) : given[v].idle >= given[k].idle
    /\ \/ Gone = {}
       \/ \E last \in Gone :
            /\ \A v \in Gone : given[v].idle >= given[last].idle
            /\ ~Fits(Without(given, Gone \ {last}), needed)

IInv == TypeInv /\ LoopInv

\* What is loaded has a size and a time of use.
LEMMA Measured ==
    ASSUME TypeInv
    PROVE  /\ needed \in Nat /\ Charges(given)
           /\ \A m \in LoadedIn(given) : given[m].idle \in Nat
<1>1. \A m \in LoadedIn(given) : given[m] \in [mb: MbValues, idle: IdleValues]
  BY DEF TypeInv, LoadedIn, Entry
<1> QED
  BY <1>1, LoopAssumption DEF TypeInv, Charges

LEMMA InitIInv == Init => IInv
<1> SUFFICES ASSUME Init PROVE IInv
  OBVIOUS
<1>1. Gone = {} /\ slots = given /\ given \in [Models -> Entry]
  BY DEF Init, Gone
<1>2. Without(given, Gone) = given
  BY <1>1 DEF Without
<1> QED
  BY <1>1, <1>2 DEF Init, IInv, TypeInv, LoopInv

LEMMA EvictIInv == ASSUME IInv, Evict PROVE IInv'
<1>1. PICK lru \in LoadedIn(slots) :
        /\ \A m \in LoadedIn(slots) : slots[lru].idle >= slots[m].idle
        /\ slots' = Without(slots, {lru})
  BY DEF Evict
<1>2. given' = given /\ needed' = needed /\ ~Fits(slots, needed)
  BY DEF Evict, Looping
<1>3. slots = Without(given, Gone) /\ LoadedIn(slots) = LoadedIn(given) \ Gone
  BY DEF IInv, LoopInv, Without, LoadedIn, Gone
<1>4. \A m \in LoadedIn(slots) : slots[m] = given[m] /\ m \notin Gone
  BY <1>3 DEF Without, LoadedIn
<1>5. LoadedIn(slots)' = LoadedIn(slots) \ {lru}
  BY <1>1 DEF Without, LoadedIn
<1>6. Gone' = Gone \cup {lru} /\ lru \notin Gone
  BY <1>1, <1>2, <1>3, <1>5 DEF Gone
<1>7. slots' = Without(given, Gone')
  BY <1>1, <1>3, <1>6 DEF Without
<1>8. \A v \in Gone', k \in LoadedIn(slots)' : given[v].idle >= given[k].idle
  BY <1>1, <1>4, <1>5, <1>6 DEF IInv, LoopInv
<1>9. \A v \in Gone' : given[v].idle >= given[lru].idle
  BY <1>1, <1>4, <1>6 DEF IInv, LoopInv
<1>10. ~Fits(Without(given, Gone' \ {lru}), needed)
  <2>1. Gone' \ {lru} = Gone
    BY <1>6
  <2> QED
    BY <1>2, <1>3, <2>1
<1>11. LoopInv'
  <2>1. lru \in Gone'
    BY <1>6
  <2> QED
    BY <1>2, <1>7, <1>8, <1>9, <1>10, <2>1 DEF LoopInv, Fits, UsedMb, SlotMb, Without
<1> QED
  BY <1>2, <1>11 DEF IInv, TypeInv

LEMMA Invariant == Spec => []IInv
<1>1. ASSUME IInv, UNCHANGED vars PROVE IInv'
  <2>1. given' = given /\ slots' = slots /\ needed' = needed
    BY <1>1 DEF vars
  <2>2. Gone' = Gone
    BY <2>1 DEF Gone, LoadedIn
  <2>3. TypeInv'
    BY <1>1, <2>1 DEF IInv, TypeInv
  <2>4. LoopInv'
    BY <1>1, <2>1, <2>2 DEF IInv, LoopInv, LoadedIn, Without, Fits, UsedMb, SlotMb
  <2> QED
    BY <2>3, <2>4 DEF IInv
<1> QED
  BY <1>1, InitIInv, EvictIInv, PTL DEF Spec, Next

\* When the loop of _evict_to_fit stops, its victims are those of EvictsToFit:
\* least recently used first, and none that was not needed, unless all went.
LEMMA Matches == ASSUME IInv, ~Looping PROVE EvictsToFit(given, Gone, needed)
<1>1. slots = Without(given, Gone)
  BY DEF IInv, LoopInv
<1>2. Fits(slots, needed) \/ Gone = LoadedIn(given)
  BY DEF Looping, Gone
<1>3. LoadedIn(given) \ Gone = LoadedIn(slots)
  BY <1>1 DEF Without, LoadedIn, Gone
<1> QED
  BY <1>1, <1>2, <1>3 DEF IInv, LoopInv, EvictsToFit

\* When the loop of _evict_to_fit stops, the models it unloaded are a set of
\* victims LruEviction describes, for any slot table and size asked for.
THEOREM LoopDescribed == Spec => []LoopMatchesDescription
<1>1. IInv => LoopMatchesDescription
  BY Matches DEF LoopMatchesDescription, Gone
<1> QED
  BY <1>1, Invariant, PTL
-----------------------------------------------------------------------------
\* Two descriptions of victims, one within the other, are the same when no two
\* models were used at the same time.
LEMMA NoFewerVictims ==
    ASSUME NEW sl, Charges(sl), NEW mb, mb \in Nat,
           \A m \in LoadedIn(sl) : sl[m].idle \in Nat,
           \A m, n \in LoadedIn(sl) : m # n => sl[m].idle # sl[n].idle,
           NEW few, few \subseteq LoadedIn(sl), EvictsToFit(sl, few, mb),
           NEW many, many \subseteq LoadedIn(sl), EvictsToFit(sl, many, mb),
           few \subseteq many
    PROVE  few = many
<1> SUFFICES ASSUME NEW x \in many, x \notin few PROVE FALSE
  OBVIOUS
<1>1. Fits(Without(sl, few), mb)
  BY DEF EvictsToFit
<1>2. PICK last \in many : /\ \A v \in many : sl[v].idle >= sl[last].idle
                           /\ ~Fits(Without(sl, many \ {last}), mb)
  BY DEF EvictsToFit
<1>3. last \notin few
  <2> SUFFICES ASSUME last \in few PROVE FALSE
    OBVIOUS
  <2>1. sl[last].idle >= sl[x].idle /\ sl[x].idle >= sl[last].idle
    BY <1>2 DEF EvictsToFit
  <2>2. sl[last].idle = sl[x].idle
    BY <2>1
  <2> QED
    BY <2>2
<1> DEFINE most == many \ {last}
<1>4. few \subseteq most
  BY <1>3
<1> HIDE DEF most
<1>5. /\ UsedMb(Without(sl, most)) <= UsedMb(Without(sl, few))
      /\ Charges(Without(sl, most)) /\ Charges(Without(sl, few))
  BY <1>4, WithoutUses
<1>6. UsedMb(Without(sl, most)) \in Nat /\ UsedMb(Without(sl, few)) \in Nat
  BY <1>5, UsedMbType
<1>7. Fits(Without(sl, most), mb)
  BY <1>1, <1>5, <1>6, LoopAssumption DEF Fits
<1> QED
  BY <1>2, <1>7 DEF most

\* Of two descriptions one is within the other.
LEMMA VictimsNested ==
    ASSUME NEW sl, NEW mb,
           \A m \in LoadedIn(sl) : sl[m].idle \in Nat,
           \A m, n \in LoadedIn(sl) : m # n => sl[m].idle # sl[n].idle,
           NEW one, one \subseteq LoadedIn(sl), EvictsToFit(sl, one, mb),
           NEW other, other \subseteq LoadedIn(sl), EvictsToFit(sl, other, mb)
    PROVE  one \subseteq other \/ other \subseteq one
<1> SUFFICES ASSUME NEW v \in one, v \notin other, NEW w \in other, w \notin one PROVE FALSE
  OBVIOUS
<1>1. sl[v].idle >= sl[w].idle /\ sl[w].idle >= sl[v].idle
  BY DEF EvictsToFit
<1>2. sl[v].idle = sl[w].idle
  BY <1>1
<1> QED
  BY <1>2

\* Where no two models were used at the same time, the description allows no
\* victims but those of the loop: VramManager's EnsureMiss takes it for the loop.
THEOREM DescriptionExact == Spec => []DescriptionMatchesLoop
<1>1. IInv => DescriptionMatchesLoop
  <2> SUFFICES ASSUME IInv, ~Looping,
                      \A m, n \in LoadedIn(given) : m # n => given[m].idle # given[n].idle,
                      NEW victims \in SUBSET LoadedIn(given), EvictsToFit(given, victims, needed)
               PROVE  victims = Gone
    BY DEF DescriptionMatchesLoop, Gone
  <2>1. /\ needed \in Nat /\ Charges(given)
        /\ \A m \in LoadedIn(given) : given[m].idle \in Nat
    BY Measured DEF IInv
  <2>2. EvictsToFit(given, Gone, needed) /\ Gone \subseteq LoadedIn(given)
    BY Matches DEF Gone
  <2>3. victims \subseteq Gone \/ Gone \subseteq victims
    BY <2>1, <2>2, VictimsNested
  <2> QED
    BY <2>1, <2>2, <2>3, NoFewerVictims
<1> QED
  BY <1>1, Invariant, PTL
=============================================================================
