-------------------------- MODULE MCWorkflowEditor --------------------------
\* A small instance of WorkflowEditor.
EXTENDS WorkflowEditor

CONSTANTS a1, a2

MCDragTo == {[x |-> 220, y |-> 80]}
MCCatalogue == [t \in {"agent", "eval"} |-> IF t = "agent" THEN <<a1, a2>> ELSE <<>>]

Budget(template, nEdits, nNodes, nMounts, nSaves, nEtag, nTries) ==
    [template |-> template, edits |-> nEdits, nodes |-> nNodes, mounts |-> nMounts,
     saves |-> nSaves, etag |-> nEtag, tries |-> nTries]

\* Long editing on one visit; a save over two visits; two saves at once, and
\* over three visits; the starter graphs.
MCBudgets == {
    Budget("blank", 5, 3, 1, 0, 0, 1),
    Budget("blank", 2, 2, 2, 1, 2, 2),
    Budget("blank", 2, 2, 1, 2, 2, 1),
    Budget("rag", 1, 3, 2, 1, 1, 1),
    Budget("blank", 1, 1, 3, 2, 1, 1),
    Budget("classifier", 1, 4, 1, 0, 0, 1),
    Budget("multi-agent", 1, 5, 1, 0, 0, 1)}
=============================================================================
