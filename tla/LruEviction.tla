----------------------------- MODULE LruEviction -----------------------------
(***************************************************************************)
(* Slot tables of the VRAM manager (inference/core/vram_manager.py) and    *)
(* what _evict_to_fit takes out of one.                                    *)
(***************************************************************************)
EXTENDS Naturals, FiniteSets, Functions

CONSTANTS
    Models,     \* model identifiers
    Budget,     \* VRAM_BUDGET_MB
    NoSlot      \* the entry of a model that is not loaded

\* _loaders and _slots are dictionaries.
ASSUME FiniteModels == IsFiniteSet(Models)

LoadedIn(sl) == {m \in Models : sl[m] # NoSlot}

SlotMb(sl) == [m \in Models |-> IF sl[m] = NoSlot THEN 0 ELSE sl[m].mb]

\* used_mb
UsedMb(sl) == SumFunctionOnSet(SlotMb(sl), Models)

\* (mutant) The check looks at what is loaded and forgets what is asked for.
FitsAlready(sl, mb) == UsedMb(sl) <= Budget

Fits(sl, mb) == UsedMb(sl) + mb <= Budget

Without(sl, gone) == [m \in Models |-> IF m \in gone THEN NoSlot ELSE sl[m]]

\* (mutant) One eviction, an "if" in the place of the "while".
EvictsOnce(sl, victims, mb) ==
    IF Fits(sl, mb) \/ LoadedIn(sl) = {} THEN victims = {}
    ELSE \E lru \in LoadedIn(sl) :
            /\ \A k \in LoadedIn(sl) : sl[lru].idle >= sl[k].idle
            /\ victims = {lru}

\* (mutant) Eviction does not stop at the first victim that makes enough room.
EvictsFreely(sl, victims, mb) ==
    /\ Fits(Without(sl, victims), mb) \/ victims = LoadedIn(sl)
    /\ \A v \in victims, k \in LoadedIn(sl) \ victims : sl[v].idle >= sl[k].idle

\* The victims of _evict_to_fit: least recently used first, for as long as mb
\* does not fit and something is left to evict.  The last victim went because
\* mb did not fit beside it.
EvictsToFit(sl, victims, mb) ==
    /\ Fits(Without(sl, victims), mb) \/ victims = LoadedIn(sl)
    /\ \A v \in victims, k \in LoadedIn(sl) \ victims : sl[v].idle >= sl[k].idle
    /\ \/ victims = {}
       \/ \E last \in victims :
            /\ \A v \in victims : sl[v].idle >= sl[last].idle
            /\ ~Fits(Without(sl, victims \ {last}), mb)
=============================================================================
