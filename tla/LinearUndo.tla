------------------------------ MODULE LinearUndo ------------------------------
(***************************************************************************)
(* What an undo history promises: a stack of recorded graphs behind the    *)
(* one shown, a stack of undone graphs ahead of it, and at most Depth of    *)
(* them behind.  Recording a graph forgets what was undone; undo and redo  *)
(* move one graph across and show the one they arrive at, unchanged.       *)
(***************************************************************************)
EXTENDS Naturals, Sequences

CONSTANTS Graph, Depth

VARIABLES past, future, canvas

vars == <<past, future, canvas>>

Init == past = <<>> /\ future = <<>> /\ canvas \in Graph

Record ==
    /\ canvas' \in Graph
    /\ past' = LET all == Append(past, canvas') IN IF Len(all) > Depth THEN Tail(all) ELSE all
    /\ future' = <<>>

\* A change that is shown and not recorded.
Change == canvas' \in Graph /\ UNCHANGED <<past, future>>

Undo ==
    /\ Len(past) > 1
    /\ past' = SubSeq(past, 1, Len(past) - 1)
    /\ future' = <<past[Len(past)]>> \o future
    /\ canvas' = past[Len(past) - 1]

Redo ==
    /\ future # <<>>
    /\ past' = Append(past, Head(future))
    /\ future' = Tail(future)
    /\ canvas' = Head(future)

Close == canvas' \in Graph /\ past' = <<>> /\ future' = <<>>

Next == Record \/ Change \/ Undo \/ Redo \/ Close

Spec == Init /\ [][Next]_vars
=============================================================================
