---------------------------- MODULE WorkflowGraph ----------------------------
(***************************************************************************)
(* The graph of the workflow editor: nodes with a type, a linked resource,  *)
(* a position in pixels and their typed text, and edges from an output     *)
(* port to an input port.  The operators are those the editor, the canvas  *)
(* and the create dialog compute graphs with.                              *)
(***************************************************************************)
EXTENDS Integers, Sequences, FiniteSets

CONSTANTS
    MaxNode,        \* BOUND: node ids are 1..MaxNode, later ids greater (Date.now())
    Resources,      \* agents and suites a node may be linked to
    NoLink,
    NoNode          \* an id with no node on the canvas

NodeIds == 1 .. MaxNode

Types == {"start", "webhook", "agent", "eval", "if_else", "router", "transform",
          "coding", "final_message", "gather"}

\* getDefaultPortsForType
InPorts(type) ==
    CASE type = "start" -> {}
      [] type = "gather" -> {"in_multi", "in_multi_2"}
      [] OTHER -> {"in"}
OutPorts(type) ==
    CASE type \in {"start", "gather"} -> {"out"}
      [] type = "if_else" -> {"true", "false"}
      [] type = "router" -> {"route_support", "route_billing", "route_fallback"}
      [] type = "final_message" -> {}
      [] OTHER -> {"out", "error"}

Ports == UNION {InPorts(t) \cup OutPorts(t) : t \in Types}
Position == [x: Int, y: Int]
Node == [type: Types, link: Resources \cup {NoLink}, pos: Position, text: {0, 1}]
Edge == [source: NodeIds, sourceHandle: Ports, target: NodeIds, targetHandle: Ports]

\* The largest starter graph has five nodes.
ASSUME GraphAssumption == MaxNode \in Nat /\ MaxNode >= 5 /\ NoNode \notin Node

Graphs == [nodes: [NodeIds -> Node \cup {NoNode}], edges: SUBSET Edge]

GraphOf(nodes, edges) == [nodes |-> [i \in NodeIds |-> IF i \in DOMAIN nodes THEN nodes[i] ELSE NoNode], edges |-> edges]
NoGraph == GraphOf(<<>>, {})
Ids(g) == {i \in NodeIds : g.nodes[i] # NoNode}
With(g, id, node) == [g EXCEPT !.nodes[id] = node]

\* (mutant) The edges into the node stay.
WithoutOutgoing(g, id) == [nodes |-> [g.nodes EXCEPT ![id] = NoNode], edges |-> {e \in g.edges : e.source # id}]

\* handleDeleteNode's two filters.
Without(g, id) ==
    [nodes |-> [g.nodes EXCEPT ![id] = NoNode],
     edges |-> {e \in g.edges : e.source # id /\ e.target # id}]

\* createsCycle: the walk along outgoing edges from the target meets the source.
\* It visits the least set that holds the target and follows its own edges.
Follows(visited, edges) == \A e \in edges : e.source \in visited => e.target \in visited
CreatesCycle(edges, src, tgt) ==
    \A visited \in SUBSET NodeIds : tgt \in visited /\ Follows(visited, edges) => src \in visited

\* handleAddEdge keeps one edge per source port and target node.
IsDuplicate(edges, new) ==
    \E e \in edges : e.source = new.source /\ e.target = new.target /\ e.sourceHandle = new.sourceHandle

NeedsLink(node) == node.type \in {"agent", "eval"}

\* The nodes validationStatus and isResourceLinked flag.
Unlinked(g) == {i \in Ids(g) : NeedsLink(g.nodes[i]) /\ g.nodes[i].link = NoLink}

\* The auto-bind effect: each unlinked node takes the first resource listed
\* for its type, if any is.
AutoBind(g, listed) ==
    [g EXCEPT !.nodes = [i \in NodeIds |->
        IF i \in Unlinked(g) /\ listed[g.nodes[i].type] # <<>>
        THEN [g.nodes[i] EXCEPT !.link = Head(listed[g.nodes[i].type])] ELSE g.nodes[i]]]

\* The slot search of handleAddNode: three columns, twenty rows, the first
\* slot whose card overlaps no card on the canvas; the corner if none is free.
CARD_W == 280
CARD_H == 170
Abs(n) == IF n < 0 THEN -n ELSE n
Overlap(p, q) == Abs(p.x - q.x) < CARD_W /\ Abs(p.y - q.y) < CARD_H
Slot(k) == [x |-> 80 + (k % 3) * CARD_W, y |-> 80 + (k \div 3) * CARD_H]
FreeSlots(g) == {k \in 0 .. 59 : \A i \in Ids(g) : ~Overlap(g.nodes[i].pos, Slot(k))}

\* (mutant) The slot numbered by the nodes there are.
NewPositionByCount(g) == Slot(Cardinality(Ids(g)))

NewPosition(g) ==
    IF FreeSlots(g) = {} THEN Slot(0) ELSE Slot(CHOOSE k \in FreeSlots(g) : \A j \in FreeSlots(g) : k <= j)

\* buildStarterGraph: nodes are numbered in the order addNode makes them.
StarterNode(type, x, y) == [type |-> type, link |-> NoLink, pos |-> [x |-> x, y |-> y], text |-> 0]
Templates == {"blank", "rag", "classifier", "multi-agent"}
Link(i, out, j, in) == [source |-> i, sourceHandle |-> out, target |-> j, targetHandle |-> in]
StarterGraph(template) ==
    CASE template = "blank" -> NoGraph
      [] template = "rag" ->
           GraphOf(<<StarterNode("start", 60, 120), StarterNode("agent", 380, 120),
                     StarterNode("final_message", 700, 120)>>,
                   {Link(1, "out", 2, "in"), Link(2, "out", 3, "in")})
      [] template = "classifier" ->
           GraphOf(<<StarterNode("start", 60, 120), StarterNode("router", 380, 120),
                     StarterNode("agent", 700, 60), StarterNode("final_message", 1020, 120)>>,
                   {Link(1, "out", 2, "in"), Link(3, "out", 4, "in")}
                       \cup {Link(2, route, 3, "in") : route \in OutPorts("router")})
      [] template = "multi-agent" ->
           GraphOf(<<StarterNode("start", 60, 160), StarterNode("agent", 380, 40),
                     StarterNode("agent", 380, 200), StarterNode("gather", 700, 120),
                     StarterNode("final_message", 1020, 120)>>,
                   {Link(1, "out", 2, "in"), Link(1, "out", 3, "in"), Link(2, "out", 4, "in_multi"),
                    Link(3, "out", 4, "in_multi_2"), Link(4, "out", 5, "in")})
-----------------------------------------------------------------------------
\* Every edge joins an output port of a node on the canvas to an input port of one.
Attached(g) ==
    \A e \in g.edges :
        /\ e.source \in Ids(g) /\ e.sourceHandle \in OutPorts(g.nodes[e.source].type)
        /\ e.target \in Ids(g) /\ e.targetHandle \in InPorts(g.nodes[e.target].type)

\* No path of edges leads back to where it started.
Acyclic(g) == \A e \in g.edges : ~CreatesCycle(g.edges \ {e}, e.source, e.target)
=============================================================================
