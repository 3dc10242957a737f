------------------------------ MODULE EvictLoop ------------------------------
(***************************************************************************)
(* The loop of _evict_to_fit, one iteration a step, on every small slot    *)
(* table: it stops with exactly a set of victims LruEviction describes,    *)
(* and VramManager's EnsureMiss may take that description for the loop.    *)
(***************************************************************************)
EXTENDS LruEviction

CONSTANTS
    MbValues,   \* sizes of models
    IdleValues  \* times since last_used

ASSUME LoopAssumption ==
    /\ MbValues \subseteq Nat \ {0}
    /\ IdleValues \subseteq Nat
    /\ Budget \in Nat

VARIABLES
    given,      \* the slot table when the loop starts
    slots,      \* the slot table now
    needed      \* needed_mb

vars == <<given, slots, needed>>

Entry == [mb: MbValues, idle: IdleValues] \cup {NoSlot}

Init ==
    /\ given \in [Models -> Entry]
    /\ slots = given
    /\ needed \in MbValues

\* (mutant) The loop forgets to look whether anything is left to evict.
LoopingWhileShort == ~Fits(slots, needed)

\* while self.used_mb + needed_mb > self._budget_mb and self._slots
Looping == ~Fits(slots, needed) /\ LoadedIn(slots) # {}

\* (mutant) max in the place of min: the most recently used model goes.
EvictMostRecent ==
    /\ Looping
    /\ \E mru \in LoadedIn(slots) :
        /\ \A m \in LoadedIn(slots) : slots[mru].idle <= slots[m].idle
        /\ slots' = Without(slots, {mru})
    /\ UNCHANGED <<given, needed>>

\* min(self._slots, key=last_used), popped
Evict ==
    /\ Looping
    /\ \E lru \in LoadedIn(slots) :
        /\ \A m \in LoadedIn(slots) : slots[lru].idle >= slots[m].idle
        /\ slots' = Without(slots, {lru})
    /\ UNCHANGED <<given, needed>>

Next == Evict

Spec == Init /\ [][Next]_vars /\ WF_vars(Next)

\* When the loop stops, what it took out is least recently used first and no
\* more than needed, and the new model fits or stands alone.
LoopMatchesDescription ==
    ~Looping => EvictsToFit(given, LoadedIn(given) \ LoadedIn(slots), needed)

\* The description admits nothing the loop does not do: any set of victims it
\* allows comes from a run that took those out first.
\* (Checked where the idle times are distinct, so that the loop has one run.)
DescriptionMatchesLoop ==
    LET distinct == \A m, n \in LoadedIn(given) :
                        m # n => given[m].idle # given[n].idle
    IN distinct /\ ~Looping =>
        \A victims \in SUBSET LoadedIn(given) :
            EvictsToFit(given, victims, needed)
                => victims = LoadedIn(given) \ LoadedIn(slots)

\* The loop ends, also when needed_mb alone is over the budget.
LoopEnds == <>~Looping
=============================================================================
