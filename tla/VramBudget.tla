------------------------------ MODULE VramBudget ------------------------------
(***************************************************************************)
(* What the inference server's VRAM manager promises, without its lock,    *)
(* its clock or its eviction order: a set of resident models, each charged *)
(* with some memory, to which a model is admitted only when it fits in     *)
(* what is left of the budget, or when nothing else is resident.           *)
(***************************************************************************)
EXTENDS Naturals, FiniteSets, Functions

CONSTANTS
    Models,     \* identifiers a loader can be registered for
    Budget      \* settings.VRAM_BUDGET_MB

VARIABLE
    resident    \* [Models -> Nat]: MB charged to each model, 0 when absent

Charged == SumFunctionOnSet(resident, Models)

\* A model of s MB may join what is resident.
FitsBeside(s) == Charged + s <= Budget \/ \A m \in Models : resident[m] = 0

Init == resident = [m \in Models |-> 0]

\* Eviction, explicit unload or idle cleanup.
Release(gone) == resident' = [m \in Models |-> IF m \in gone THEN 0 ELSE resident[m]]

\* The size of the admitted model is whatever its loader was registered with.
Admit(m) ==
    /\ resident[m] = 0
    /\ resident'[m] \in Nat \ {0}
    /\ FitsBeside(resident'[m])
    /\ resident' = [resident EXCEPT ![m] = resident'[m]]

Next ==
    \/ \E gone \in SUBSET Models : Release(gone)
    \/ \E m \in Models : Admit(m)

Spec == Init /\ [][Next]_resident

=============================================================================
