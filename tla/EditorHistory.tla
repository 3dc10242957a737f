---------------------------- MODULE EditorHistory ----------------------------
(***************************************************************************)
(* The undo history of the workflow editor (WorkflowEditor.tsx): an array   *)
(* of snapshots and an index into it, kept in refs, beside the graph the   *)
(* canvas shows.  The index is the code's: -1 while nothing is recorded,   *)
(* and history[i] there is history[i + 1] here.                            *)
(***************************************************************************)
EXTENDS WorkflowGraph

CONSTANT HISTORY_CAP     \* BOUND: 50 in the code

ASSUME HistoryAssumption == HISTORY_CAP \in Nat \ {0}

VARIABLES
    history,        \* historyRef
    historyIndex,   \* historyIndexRef
    canvas          \* the nodes and edges shown

historyVars == <<history, historyIndex, canvas>>

HistoryInit == history = <<>> /\ historyIndex = -1 /\ canvas = NoGraph

\* (mutant) The redo branch stays.
PushHistoryUntrimmed(g) ==
    /\ history' = IF Len(history) = HISTORY_CAP THEN Append(Tail(history), g) ELSE Append(history, g)
    /\ historyIndex' = Len(history') - 1

\* pushHistory: drop the redo branch, append, drop the oldest beyond the cap.
PushHistory(g) ==
    LET trimmed == Append(SubSeq(history, 1, historyIndex + 1), g)
    IN  /\ history' = IF Len(trimmed) > HISTORY_CAP THEN Tail(trimmed) ELSE trimmed
        /\ historyIndex' = (IF Len(trimmed) > HISTORY_CAP THEN Len(trimmed) - 1 ELSE Len(trimmed)) - 1

\* A change whose handler calls pushHistory, and one whose handler does not.
Recorded(g) == canvas' = g /\ PushHistory(g)
Unrecorded(g) == canvas' = g /\ UNCHANGED <<history, historyIndex>>

Undo ==
    /\ historyIndex > 0
    /\ historyIndex' = historyIndex - 1
    /\ canvas' = history[historyIndex]
    /\ UNCHANGED history

Redo ==
    /\ historyIndex < Len(history) - 1
    /\ historyIndex' = historyIndex + 1
    /\ canvas' = history[historyIndex + 2]
    /\ UNCHANGED history

\* The refs and the state of an unmounted editor are gone.
Unmount == history' = <<>> /\ historyIndex' = -1 /\ canvas' = NoGraph

HistoryNext ==
    \/ canvas' \in Graphs /\ (Recorded(canvas') \/ Unrecorded(canvas'))
    \/ Undo
    \/ Redo
    \/ Unmount

HistorySpec == HistoryInit /\ [][HistoryNext]_historyVars
-----------------------------------------------------------------------------
\* The snapshots up to the index are the past, those after it the future.
LU == INSTANCE LinearUndo WITH
        past <- SubSeq(history, 1, historyIndex + 1),
        future <- SubSeq(history, historyIndex + 2, Len(history)),
        Graph <- Graphs, Depth <- HISTORY_CAP

\* The array, the index and the cap implement a linear undo: undo then redo
\* comes back to the same graph, a recorded change ends the redo branch, and
\* what the cap drops is the oldest snapshot (pushHistory, undo, redo).
LinearUndoSpec == LU!Spec

\* The index points at a snapshot whenever one is recorded, never outside the
\* array, and the array never outgrows its cap: undo and redo have a snapshot
\* to show (the `if (snapshot)` of both).
HistoryOK ==
    /\ history \in Seq(Graphs)
    /\ Len(history) <= HISTORY_CAP
    /\ historyIndex \in Int
    /\ -1 <= historyIndex
    /\ historyIndex < Len(history)
    /\ historyIndex = -1 => history = <<>>
    /\ canvas \in Graphs
=============================================================================
