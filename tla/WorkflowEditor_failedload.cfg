SPECIFICATION Spec
CONSTANTS
    a1 = a1  a2 = a2
    MaxNode = 5
    Resources = {a1, a2}
    NoLink = NoLink  NoNode = NoNode  None = None
    HISTORY_CAP = 2
    PaletteTypes = {"agent", "final_message"}
    DragTo <- MCDragTo
    Catalogue <- MCCatalogue
    Budgets <- MCBudgets
PROPERTY DraftFollowsGraph
CHECK_DEADLOCK FALSE
