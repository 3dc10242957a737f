------------------------ MODULE WorkflowEditor_proofs ------------------------
(***************************************************************************)
(* For every bound and every graph: the editor keeps its types, its edges   *)
(* stay attached and make no cycle, its history is a linear undo, and what  *)
(* the user worked on is kept by the browser or was taken by the server.   *)
(*                                                                         *)
(* First what the operators on graphs make, then the undo history alone,   *)
(* then the whole editor.                                                  *)
(***************************************************************************)
EXTENDS WorkflowEditor, SequenceTheorems, WellFoundedInduction, FiniteSetTheorems, TLAPS

(* Graphs: whose edges join the ports of the nodes they name. *)

\* The slot search finds a place on the grid.
LEMMA LeastOf ==
    ASSUME NEW S, S \subseteq Nat, S # {}
    PROVE  \E k \in S : \A j \in S : k <= j
<1>1. \E x \in S : \A y \in S : ~ (<<y, x>> \in OpToRel(<,Nat))
  BY NatLessThanWellFounded, WFMin
<1>2. PICK x \in S : \A y \in S : ~ (<<y, x>> \in OpToRel(<,Nat))
  BY <1>1
<1>3. \A y \in S : ~(y < x)
  BY <1>2 DEF OpToRel
<1> QED
  BY <1>3

LEMMA NewPositionType ==
    ASSUME NEW g
    PROVE  NewPosition(g) \in Position
<1>1. \A k \in 0 .. 59 : Slot(k) \in Position
  BY DEF Slot, CARD_W, CARD_H, Position
<1>2. CASE FreeSlots(g) = {}
  BY <1>1, <1>2 DEF NewPosition
<1>3. CASE FreeSlots(g) # {}
  <2>1. FreeSlots(g) \subseteq 0 .. 59
    BY DEF FreeSlots
  <2>2. \E k \in FreeSlots(g) : \A j \in FreeSlots(g) : k <= j
    BY <1>3, <2>1, LeastOf
  <2>3. (CHOOSE k \in FreeSlots(g) : \A j \in FreeSlots(g) : k <= j) \in FreeSlots(g)
    BY <2>2
  <2> QED
    BY <1>1, <1>3, <2>1, <2>3 DEF NewPosition
<1> QED
  BY <1>2, <1>3

\* The ids of a graph number no more than the bound.
LEMMA IdsAreFew ==
    ASSUME NEW g
    PROVE  Cardinality(Ids(g)) \in Nat
<1>1. IsFiniteSet(NodeIds)
  BY FS_Interval, GraphAssumption DEF NodeIds
<1>2. Ids(g) \subseteq NodeIds
  BY DEF Ids
<1> QED
  BY <1>1, <1>2, FS_Subset, FS_CardinalityType
-----------------------------------------------------------------------------
(* A graph fits the types its ids were given, and its edges are joined to   *)
(* nodes it has.                                                           *)
Kinds == [NodeIds -> Types]
Fits(g, kind, next) ==
    /\ \A i \in Ids(g) : i < next /\ g.nodes[i].type = kind[i]
    /\ \A e \in g.edges :
          /\ e.source < next /\ e.sourceHandle \in OutPorts(kind[e.source])
          /\ e.target < next /\ e.targetHandle \in InPorts(kind[e.target])
Joined(g) == \A e \in g.edges : e.source \in Ids(g) /\ e.target \in Ids(g)

LEMMA JoinedIsAttached ==
    ASSUME NEW g, NEW kind, NEW next, Fits(g, kind, next), Joined(g)
    PROVE  Attached(g)
BY DEF Fits, Joined, Attached

\* A later id leaves what earlier graphs fit.
LEMMA FitsLater ==
    ASSUME NEW g \in Graphs, NEW kind \in Kinds, NEW next \in NodeIds, NEW type \in Types, Fits(g, kind, next)
    PROVE  Fits(g, [kind EXCEPT ![next] = type], next + 1)
<1> DEFINE later == [kind EXCEPT ![next] = type]
<1>1. \A i \in NodeIds : i < next => later[i] = kind[i] /\ i < next + 1
  BY GraphAssumption DEF NodeIds, Kinds
<1>2. \A e \in g.edges : e.source \in NodeIds /\ e.target \in NodeIds
  BY DEF Graphs, Edge
<1> HIDE DEF later
<1>3. Fits(g, later, next + 1)
  BY <1>1, <1>2 DEF Fits, Ids
<1> QED
  BY <1>3 DEF later

\* The empty graph.
LEMMA NoGraphIsSound == NoGraph \in Graphs /\ Ids(NoGraph) = {} /\ NoGraph.edges = {}
BY DEF NoGraph, GraphOf, Graphs, Ids

\* A node added, replaced by one of its type, or deleted.
LEMMA WithIsGraph ==
    ASSUME NEW g \in Graphs, NEW id \in NodeIds, NEW node \in Node
    PROVE  /\ With(g, id, node) \in Graphs
           /\ Ids(With(g, id, node)) = Ids(g) \cup {id}
           /\ \A i \in NodeIds : With(g, id, node).nodes[i] = IF i = id THEN node ELSE g.nodes[i]
           /\ With(g, id, node).edges = g.edges
BY GraphAssumption DEF With, Graphs, Ids

LEMMA WithFits ==
    ASSUME NEW g \in Graphs, NEW id \in NodeIds, NEW node \in Node, NEW kind \in Kinds, NEW next \in Nat,
           Fits(g, kind, next), id < next, node.type = kind[id]
    PROVE  /\ Fits(With(g, id, node), kind, next)
           /\ Joined(g) => Joined(With(g, id, node))
<1>1. \A i \in NodeIds : With(g, id, node).nodes[i] = IF i = id THEN node ELSE g.nodes[i]
  BY WithIsGraph
<1>2. Ids(With(g, id, node)) = Ids(g) \cup {id} /\ With(g, id, node).edges = g.edges /\ Ids(g) \subseteq NodeIds
  BY WithIsGraph DEF Ids
<1> HIDE DEF With
<1> QED
  BY <1>1, <1>2 DEF Fits, Joined

LEMMA WithoutIsGraph ==
    ASSUME NEW g \in Graphs, NEW id \in NodeIds
    PROVE  /\ Without(g, id) \in Graphs
           /\ Ids(Without(g, id)) = Ids(g) \ {id}
           /\ \A i \in NodeIds \ {id} : Without(g, id).nodes[i] = g.nodes[i]
           /\ Without(g, id).edges = {e \in g.edges : e.source # id /\ e.target # id}
BY DEF Without, Graphs, Ids

LEMMA WithoutFits ==
    ASSUME NEW g \in Graphs, NEW id \in NodeIds, NEW kind \in Kinds, NEW next \in Nat, Fits(g, kind, next)
    PROVE  /\ Fits(Without(g, id), kind, next)
           /\ Joined(g) => Joined(Without(g, id))
<1> Ids(g) \subseteq NodeIds
  BY DEF Ids
<1> QED
  BY WithoutIsGraph DEF Fits, Joined

\* The auto-bind effect changes links only.
LEMMA AutoBindIsGraph ==
    ASSUME NEW g \in Graphs, NEW offers \in [{"agent", "eval"} -> Seq(Resources)]
    PROVE  /\ AutoBind(g, offers) \in Graphs
           /\ Ids(AutoBind(g, offers)) = Ids(g)
           /\ \A i \in Ids(g) : AutoBind(g, offers).nodes[i].type = g.nodes[i].type
           /\ AutoBind(g, offers).edges = g.edges
<1> DEFINE bound == [i \in NodeIds |-> IF i \in Unlinked(g) /\ offers[g.nodes[i].type] # <<>>
                                       THEN [g.nodes[i] EXCEPT !.link = Head(offers[g.nodes[i].type])]
                                       ELSE g.nodes[i]]
<1>1. ASSUME NEW i \in NodeIds, i \in Unlinked(g), offers[g.nodes[i].type] # <<>>
      PROVE  i \in Ids(g) /\ bound[i] \in Node /\ bound[i].type = g.nodes[i].type
  <2>1. g.nodes[i] \in Node /\ g.nodes[i].type \in {"agent", "eval"} /\ i \in Ids(g)
    BY <1>1 DEF Unlinked, NeedsLink, Ids, Graphs
  <2>2. offers[g.nodes[i].type] \in Seq(Resources)
    BY <2>1
  <2>3. Head(offers[g.nodes[i].type]) \in Resources
    BY <1>1, <2>2
  <2>4. bound[i] = [g.nodes[i] EXCEPT !.link = Head(offers[g.nodes[i].type])]
    BY <1>1
  <2> HIDE DEF bound
  <2> QED
    BY <2>1, <2>3, <2>4 DEF Node
<1>2. \A i \in NodeIds : ~(i \in Unlinked(g) /\ offers[g.nodes[i].type] # <<>>) => bound[i] = g.nodes[i]
  OBVIOUS
<1>3. DOMAIN bound = NodeIds /\ bound = [i \in NodeIds |-> bound[i]]
  OBVIOUS
<1>4. AutoBind(g, offers) = [g EXCEPT !.nodes = bound]
  BY DEF AutoBind
<1> HIDE DEF bound
<1>5. /\ AutoBind(g, offers).nodes = bound /\ AutoBind(g, offers).edges = g.edges
      /\ AutoBind(g, offers) = [nodes |-> bound, edges |-> g.edges]
  BY <1>4 DEF Graphs
<1>6. bound \in [NodeIds -> Node \cup {NoNode}]
  <2> \A i \in NodeIds : bound[i] \in Node \cup {NoNode}
    BY <1>1, <1>2 DEF Graphs
  <2> QED
    BY <1>3
<1>7. \A i \in NodeIds : (bound[i] # NoNode <=> i \in Ids(g)) /\ (i \in Ids(g) => bound[i].type = g.nodes[i].type)
  BY <1>1, <1>2, GraphAssumption DEF Ids
<1> QED
  BY <1>5, <1>6, <1>7 DEF Graphs, Ids

LEMMA AutoBindFits ==
    ASSUME NEW g \in Graphs, NEW offers \in [{"agent", "eval"} -> Seq(Resources)], NEW kind, NEW next, Fits(g, kind, next)
    PROVE  /\ Fits(AutoBind(g, offers), kind, next)
           /\ Joined(g) => Joined(AutoBind(g, offers))
BY AutoBindIsGraph DEF Fits, Joined

\* An edge deleted, and one drawn.
LEMMA EdgesAreGraph ==
    ASSUME NEW g \in Graphs, NEW edges \in SUBSET Edge
    PROVE  /\ [g EXCEPT !.edges = edges] \in Graphs
           /\ Ids([g EXCEPT !.edges = edges]) = Ids(g)
           /\ [g EXCEPT !.edges = edges].nodes = g.nodes
           /\ [g EXCEPT !.edges = edges].edges = edges
BY DEF Graphs, Ids

LEMMA EdgeDeletedFits ==
    ASSUME NEW g \in Graphs, NEW e, NEW kind, NEW next, Fits(g, kind, next)
    PROVE  LET less == [g EXCEPT !.edges = @ \ {e}]
           IN  less \in Graphs /\ Fits(less, kind, next) /\ (Joined(g) => Joined(less))
<1> DEFINE edges == g.edges \ {e}
           less == [g EXCEPT !.edges = edges]
<1>1. edges \in SUBSET Edge
  BY DEF Graphs
<1> HIDE DEF edges
<1>2. less \in Graphs /\ Ids(less) = Ids(g) /\ less.nodes = g.nodes /\ less.edges = edges
  BY <1>1, EdgesAreGraph
<1> HIDE DEF less
<1>3. Fits(less, kind, next) /\ (Joined(g) => Joined(less))
  BY <1>2 DEF Fits, Joined, edges
<1> QED
  BY <1>2, <1>3 DEF less, edges

LEMMA EdgeDrawnFits ==
    ASSUME NEW g \in Graphs, NEW e \in Edge, NEW kind, NEW next, Fits(g, kind, next),
           e.source < next, e.sourceHandle \in OutPorts(kind[e.source]),
           e.target \in Ids(g), e.targetHandle \in InPorts(g.nodes[e.target].type)
    PROVE  LET more == [g EXCEPT !.edges = @ \cup {e}]
           IN  /\ more \in Graphs /\ Fits(more, kind, next)
               /\ e.source \in Ids(g) /\ Joined(g) => Joined(more)
<1> DEFINE edges == g.edges \cup {e}
           more == [g EXCEPT !.edges = edges]
<1>1. edges \in SUBSET Edge
  BY DEF Graphs
<1> HIDE DEF edges
<1>2. more \in Graphs /\ Ids(more) = Ids(g) /\ more.nodes = g.nodes /\ more.edges = edges
  BY <1>1, EdgesAreGraph
<1> HIDE DEF more
<1>3. Fits(more, kind, next) /\ (e.source \in Ids(g) /\ Joined(g) => Joined(more))
  BY <1>2 DEF Fits, Joined, edges
<1> QED
  BY <1>2, <1>3 DEF more, edges
-----------------------------------------------------------------------------
\* The starter graphs of the create dialog are graphs, joined at ports their
\* nodes have, and number their nodes from one.
Sound(g, n) ==
    /\ g \in Graphs /\ Cardinality(Ids(g)) = n
    /\ Joined(g) /\ \E kind \in Kinds : Fits(g, kind, n + 1)

LEMMA GraphOfIsSound ==
    ASSUME NEW n \in 0 .. 5, NEW nodes \in [1 .. n -> Node], NEW edges \in SUBSET Edge,
           \A e \in edges : /\ e.source \in 1 .. n /\ e.sourceHandle \in OutPorts(nodes[e.source].type)
                            /\ e.target \in 1 .. n /\ e.targetHandle \in InPorts(nodes[e.target].type)
    PROVE  Sound(GraphOf(nodes, edges), n)
<1> DEFINE g == GraphOf(nodes, edges)
           kind == [i \in NodeIds |-> IF i \in 1 .. n THEN nodes[i].type ELSE "start"]
<1>1. 1 .. n \subseteq NodeIds /\ DOMAIN nodes = 1 .. n
  BY GraphAssumption DEF NodeIds
<1>2. g \in Graphs /\ g.edges = edges
  BY DEF GraphOf, Graphs
<1>3. \A i \in NodeIds : g.nodes[i] = IF i \in 1 .. n THEN nodes[i] ELSE NoNode
  BY <1>1 DEF GraphOf
<1>4. kind \in Kinds /\ \A i \in 1 .. n : kind[i] = nodes[i].type
  <2>1. \A i \in 1 .. n : nodes[i].type \in Types
    BY DEF Node
  <2> QED
    BY <1>1, <2>1 DEF Kinds, Types
<1> HIDE DEF g, kind
<1>5. Ids(g) = 1 .. n
  BY <1>1, <1>3, GraphAssumption DEF Ids
<1>6. Cardinality(Ids(g)) = n
  <2>1. Cardinality(1 .. n) = IF 1 > n THEN 0 ELSE n - 1 + 1
    BY FS_Interval, 1 \in Int, n \in Int
  <2> QED
    BY <1>5, <2>1
<1>7. Joined(g)
  BY <1>2, <1>5 DEF Joined
<1>8. Fits(g, kind, n + 1)
  BY <1>1, <1>2, <1>3, <1>4, <1>5 DEF Fits
<1> QED
  BY <1>2, <1>4, <1>6, <1>7, <1>8 DEF Sound, g

LEMMA StarterNodeType ==
    ASSUME NEW type \in Types, NEW x \in Int, NEW y \in Int
    PROVE  StarterNode(type, x, y) \in Node /\ StarterNode(type, x, y).type = type
BY DEF StarterNode, Node, Position

LEMMA LinkType ==
    ASSUME NEW i \in NodeIds, NEW j \in NodeIds, NEW out \in Ports, NEW in \in Ports
    PROVE  /\ Link(i, out, j, in) \in Edge
           /\ Link(i, out, j, in).source = i /\ Link(i, out, j, in).sourceHandle = out
           /\ Link(i, out, j, in).target = j /\ Link(i, out, j, in).targetHandle = in
BY DEF Link, Edge

LEMMA PortsOfTypes ==
    /\ OutPorts("start") = {"out"} /\ OutPorts("gather") = {"out"} /\ OutPorts("agent") = {"out", "error"}
    /\ InPorts("router") = {"in"} /\ InPorts("agent") = {"in"} /\ InPorts("final_message") = {"in"}
    /\ InPorts("gather") = {"in_multi", "in_multi_2"}
BY DEF OutPorts, InPorts

LEMMA StarterIsSound ==
    ASSUME NEW template \in Templates
    PROVE  \E n \in 0 .. 5 : Sound(StarterGraph(template), n)
<1>1. {"in", "out", "in_multi", "in_multi_2"} \cup OutPorts("router") \subseteq Ports /\ 1 .. 5 \subseteq NodeIds
  BY GraphAssumption DEF Ports, Types, InPorts, OutPorts, NodeIds
<1>2. CASE template = "blank"
  <2>1. <<>> \in [1 .. 0 -> Node] /\ {} \in SUBSET Edge
    OBVIOUS
  <2>2. Sound(GraphOf(<<>>, {}), 0)
    BY <2>1, GraphOfIsSound, 0 \in 0 .. 5, Zenon
  <2> QED
    BY <1>2, <2>2 DEF StarterGraph, NoGraph
<1>3. CASE template = "rag"
  <2> DEFINE nodes == <<StarterNode("start", 60, 120), StarterNode("agent", 380, 120),
                        StarterNode("final_message", 700, 120)>>
             edges == {Link(1, "out", 2, "in"), Link(2, "out", 3, "in")}
  <2>1. nodes \in [1 .. 3 -> Node] /\ nodes[1].type = "start" /\ nodes[2].type = "agent" /\ nodes[3].type = "final_message"
    <3>1. /\ StarterNode("start", 60, 120) \in Node /\ StarterNode("start", 60, 120).type = "start"
          /\ StarterNode("agent", 380, 120) \in Node /\ StarterNode("agent", 380, 120).type = "agent"
          /\ StarterNode("final_message", 700, 120) \in Node /\ StarterNode("final_message", 700, 120).type = "final_message"
      BY StarterNodeType DEF Types
    <3> QED
      BY <3>1
  <2>2. edges \in SUBSET Edge
    BY <1>1, LinkType
  <2>3. \A e \in edges : /\ e.source \in 1 .. 3 /\ e.sourceHandle \in OutPorts(nodes[e.source].type)
                          /\ e.target \in 1 .. 3 /\ e.targetHandle \in InPorts(nodes[e.target].type)
    <3> HIDE DEF nodes
    <3> QED
      BY <1>1, <2>1, PortsOfTypes DEF Link
  <2> HIDE DEF nodes, edges
  <2>4. Sound(GraphOf(nodes, edges), 3)
    BY <2>1, <2>2, <2>3, GraphOfIsSound
  <2> QED
    BY <1>3, <2>4 DEF StarterGraph, nodes, edges
<1>4. CASE template = "classifier"
  <2> DEFINE nodes == <<StarterNode("start", 60, 120), StarterNode("router", 380, 120),
                        StarterNode("agent", 700, 60), StarterNode("final_message", 1020, 120)>>
             edges == {Link(1, "out", 2, "in"), Link(3, "out", 4, "in")}
                          \cup {Link(2, route, 3, "in") : route \in OutPorts("router")}
  <2>1. nodes \in [1 .. 4 -> Node] /\ nodes[1].type = "start" /\ nodes[2].type = "router"
                                    /\ nodes[3].type = "agent" /\ nodes[4].type = "final_message"
    <3>1. /\ StarterNode("start", 60, 120) \in Node /\ StarterNode("start", 60, 120).type = "start"
          /\ StarterNode("router", 380, 120) \in Node /\ StarterNode("router", 380, 120).type = "router"
          /\ StarterNode("agent", 700, 60) \in Node /\ StarterNode("agent", 700, 60).type = "agent"
          /\ StarterNode("final_message", 1020, 120) \in Node /\ StarterNode("final_message", 1020, 120).type = "final_message"
      BY StarterNodeType DEF Types
    <3> QED
      BY <3>1
  <2>2. edges \in SUBSET Edge
    BY <1>1 DEF Link, Edge
  <2>3. \A e \in edges : /\ e.source \in 1 .. 4 /\ e.sourceHandle \in OutPorts(nodes[e.source].type)
                          /\ e.target \in 1 .. 4 /\ e.targetHandle \in InPorts(nodes[e.target].type)
    <3> HIDE DEF nodes
    <3> QED
      BY <1>1, <2>1, PortsOfTypes DEF Link
  <2> HIDE DEF nodes, edges
  <2>4. Sound(GraphOf(nodes, edges), 4)
    BY <2>1, <2>2, <2>3, GraphOfIsSound
  <2> QED
    BY <1>4, <2>4 DEF StarterGraph, nodes, edges
<1>5. CASE template = "multi-agent"
  <2> DEFINE nodes == <<StarterNode("start", 60, 160), StarterNode("agent", 380, 40),
                        StarterNode("agent", 380, 200), StarterNode("gather", 700, 120),
                        StarterNode("final_message", 1020, 120)>>
             edges == {Link(1, "out", 2, "in"), Link(1, "out", 3, "in"), Link(2, "out", 4, "in_multi"),
                       Link(3, "out", 4, "in_multi_2"), Link(4, "out", 5, "in")}
  <2>1. nodes \in [1 .. 5 -> Node] /\ nodes[1].type = "start" /\ nodes[2].type = "agent" /\ nodes[3].type = "agent"
                                    /\ nodes[4].type = "gather" /\ nodes[5].type = "final_message"
    <3>1. /\ StarterNode("start", 60, 160) \in Node /\ StarterNode("start", 60, 160).type = "start"
          /\ StarterNode("agent", 380, 40) \in Node /\ StarterNode("agent", 380, 40).type = "agent"
          /\ StarterNode("agent", 380, 200) \in Node /\ StarterNode("agent", 380, 200).type = "agent"
          /\ StarterNode("gather", 700, 120) \in Node /\ StarterNode("gather", 700, 120).type = "gather"
          /\ StarterNode("final_message", 1020, 120) \in Node /\ StarterNode("final_message", 1020, 120).type = "final_message"
      BY StarterNodeType DEF Types
    <3> QED
      BY <3>1
  <2>2. edges \in SUBSET Edge
    BY <1>1, LinkType
  <2>3. \A e \in edges : /\ e.source \in 1 .. 5 /\ e.sourceHandle \in OutPorts(nodes[e.source].type)
                          /\ e.target \in 1 .. 5 /\ e.targetHandle \in InPorts(nodes[e.target].type)
    <3> HIDE DEF nodes
    <3> QED
      BY <1>1, <2>1, PortsOfTypes DEF Link
  <2> HIDE DEF nodes, edges
  <2>4. Sound(GraphOf(nodes, edges), 5)
    BY <2>1, <2>2, <2>3, GraphOfIsSound
  <2> QED
    BY <1>5, <2>4 DEF StarterGraph, nodes, edges
<1> QED
  BY <1>2, <1>3, <1>4, <1>5 DEF Templates
-----------------------------------------------------------------------------
(* No cycle: behind the target of every edge lies a set of nodes that the   *)
(* walk from it cannot leave and that the source of the edge is not in.     *)
Behind(visited, edges, e) ==
    /\ visited \in SUBSET NodeIds /\ Follows(visited, edges)
    /\ e.target \in visited /\ e.source \notin visited
Apart(edges) == \A e \in edges : \E visited \in SUBSET NodeIds : Behind(visited, edges, e)

LEMMA ApartIsAcyclic ==
    ASSUME NEW g
    PROVE  Acyclic(g) <=> Apart(g.edges)
<1>1. ASSUME NEW e \in g.edges
      PROVE  ~CreatesCycle(g.edges \ {e}, e.source, e.target)
                <=> \E visited \in SUBSET NodeIds : Behind(visited, g.edges, e)
  BY DEF CreatesCycle, Behind, Follows
<1> QED
  BY <1>1 DEF Acyclic, Apart

LEMMA FewerEdgesApart ==
    ASSUME NEW edges, NEW fewer \in SUBSET edges, Apart(edges)
    PROVE  Apart(fewer)
BY DEF Apart, Behind, Follows

\* What createsCycle lets through closes no cycle: the walk from the new
\* edge's target stays in a set without its source, and each older set is cut
\* down to that one or joined with it.
LEMMA EdgeAddedApart ==
    ASSUME NEW edges, NEW new, Apart(edges), ~CreatesCycle(edges, new.source, new.target)
    PROVE  Apart(edges \cup {new})
<1> DEFINE more == edges \cup {new}
<1>1. PICK near \in SUBSET NodeIds : new.target \in near /\ Follows(near, edges) /\ new.source \notin near
  BY DEF CreatesCycle
<1>2. Behind(near, more, new)
  BY <1>1 DEF Behind, Follows
<1>3. ASSUME NEW e \in edges
      PROVE  \E visited \in SUBSET NodeIds : Behind(visited, more, e)
  <2>1. PICK visited \in SUBSET NodeIds : Behind(visited, edges, e)
    BY DEF Apart
  <2>2. CASE e.source \in near
    <3>1. Behind(visited \cap near, more, e)
      BY <1>1, <2>1, <2>2 DEF Behind, Follows
    <3> QED
      BY <3>1
  <2>3. CASE e.source \notin near
    <3>1. Behind(visited \cup near, more, e)
      BY <1>1, <2>1, <2>3 DEF Behind, Follows
    <3> QED
      BY <3>1
  <2> QED
    BY <2>2, <2>3
<1> QED
  BY <1>2, <1>3 DEF Apart

\* Edges that all lead to greater ids.
LEMMA UpwardApart ==
    ASSUME NEW edges \in SUBSET Edge, \A e \in edges : e.source < e.target
    PROVE  Apart(edges)
<1> SUFFICES ASSUME NEW e \in edges PROVE \E visited \in SUBSET NodeIds : Behind(visited, edges, e)
  BY DEF Apart
<1> DEFINE above == {i \in NodeIds : e.source < i}
<1>1. NodeIds \subseteq Int
  BY GraphAssumption DEF NodeIds
<1>2. \A x \in edges : x.source \in NodeIds /\ x.target \in NodeIds
  BY DEF Edge
<1>3. \A i, j \in NodeIds : i < j => ~(i < i) /\ \A k \in NodeIds : k < i => k < j
  BY <1>1
<1>4. e.target \in above /\ e.source \notin above
  BY <1>2, <1>3
<1>5. \A x \in edges : x.source \in above => x.target \in above
  BY <1>2, <1>3
<1>6. above \in SUBSET NodeIds
  OBVIOUS
<1> HIDE DEF above
<1> QED
  BY <1>4, <1>5, <1>6 DEF Behind, Follows

AcyclicGraphs == {g \in Graphs : Acyclic(g)}

LEMMA StarterIsAcyclic ==
    ASSUME NEW template \in Templates, StarterGraph(template) \in Graphs
    PROVE  StarterGraph(template) \in AcyclicGraphs
<1>1. \A e \in StarterGraph(template).edges : e.source < e.target
  <2>1. CASE template = "blank"
    BY <2>1 DEF StarterGraph, NoGraph, GraphOf
  <2>2. CASE template = "rag"
    BY <2>2 DEF StarterGraph, GraphOf, Link
  <2>3. CASE template = "classifier"
    BY <2>3 DEF StarterGraph, GraphOf, Link
  <2>4. CASE template = "multi-agent"
    BY <2>4 DEF StarterGraph, GraphOf, Link
  <2> QED
    BY <2>1, <2>2, <2>3, <2>4 DEF Templates
<1>2. StarterGraph(template).edges \in SUBSET Edge
  BY DEF Graphs
<1> QED
  BY <1>1, <1>2, UpwardApart, ApartIsAcyclic DEF AcyclicGraphs

\* What the editor makes of a graph without a cycle has none.
LEMMA SameEdgesAcyclic ==
    ASSUME NEW g \in AcyclicGraphs, NEW h \in Graphs, h.edges \subseteq g.edges
    PROVE  h \in AcyclicGraphs
BY ApartIsAcyclic, FewerEdgesApart DEF AcyclicGraphs

LEMMA NoGraphIsAcyclic == NoGraph \in AcyclicGraphs
BY NoGraphIsSound DEF AcyclicGraphs, Acyclic
-----------------------------------------------------------------------------
(* Twenty slots of the grid lie so far apart that no card overlaps two.     *)
FarSlots == 20
Far(m) == 6 * (m \div 2) + 2 * (m % 2)

LEMMA FarSlot ==
    ASSUME NEW m \in 0 .. FarSlots - 1
    PROVE  /\ Far(m) \in 0 .. 59
           /\ Slot(Far(m)) = [x |-> 80 + 2 * (m % 2) * CARD_W, y |-> 80 + 2 * (m \div 2) * CARD_H]
<1> DEFINE half == m \div 2
           odd == m % 2
<1>1. half \in 0 .. 9 /\ odd \in 0 .. 1 /\ m = 2 * half + odd
  BY DEF FarSlots
<1> HIDE DEF half, odd
<1>2. 6 * half + 2 * odd \in 0 .. 59
  BY <1>1
<1>3. (6 * half + 2 * odd) % 3 = 2 * odd /\ (6 * half + 2 * odd) \div 3 = 2 * half
  BY <1>1
<1> QED
  BY <1>2, <1>3 DEF Far, Slot, half, odd

LEMMA FarApart ==
    ASSUME NEW p \in Position, NEW m \in 0 .. FarSlots - 1, NEW n \in 0 .. FarSlots - 1, m # n,
           Overlap(p, Slot(Far(m)))
    PROVE  ~Overlap(p, Slot(Far(n)))
<1> DEFINE hm == m \div 2
           om == m % 2
           hn == n \div 2
           on == n % 2
<1>1. hm \in Int /\ om \in Int /\ hn \in Int /\ on \in Int /\ (hm # hn \/ om # on)
  BY DEF FarSlots
<1>2. /\ Slot(Far(m)) = [x |-> 80 + 2 * om * CARD_W, y |-> 80 + 2 * hm * CARD_H]
      /\ Slot(Far(n)) = [x |-> 80 + 2 * on * CARD_W, y |-> 80 + 2 * hn * CARD_H]
  BY FarSlot
<1> HIDE DEF hm, om, hn, on
<1>3. p.x \in Int /\ p.y \in Int
  BY DEF Position
<1>4. /\ Slot(Far(m)).x = 80 + 560 * om /\ Slot(Far(m)).y = 80 + 340 * hm
      /\ Slot(Far(n)).x = 80 + 560 * on /\ Slot(Far(n)).y = 80 + 340 * hn
  BY <1>1, <1>2 DEF CARD_W, CARD_H
<1> QED
  BY <1>1, <1>3, <1>4 DEF Overlap, Abs, CARD_W, CARD_H

\* Fewer than that many cards cannot each cover one of them.
LEMMA TwoAlike ==
    ASSUME NEW ids, IsFiniteSet(ids), Cardinality(ids) < FarSlots, NEW covers, covers \in [0 .. FarSlots - 1 -> ids]
    PROVE  \E x \in 0 .. FarSlots - 1, y \in 0 .. FarSlots - 1 : x # y /\ covers[x] = covers[y]
<1>1. PICK far : far = 0 .. FarSlots - 1
  OBVIOUS
<1>2. 0 \in Int /\ FarSlots - 1 \in Int /\ ~(0 > FarSlots - 1) /\ FarSlots - 1 - 0 + 1 = FarSlots
  BY DEF FarSlots
<1>3. IsFiniteSet(far) /\ Cardinality(far) = FarSlots /\ covers \in [far -> ids]
  BY <1>1, <1>2, FS_Interval
<1>4. Cardinality(ids) < Cardinality(far)
  BY <1>3
<1>5. \E x \in far, y \in far : x # y /\ covers[x] = covers[y]
  BY <1>3, <1>4, FS_PigeonHole, Zenon
<1> QED
  BY <1>1, <1>5

\* So the slot search finds a place while fewer cards are on the canvas.
LEMMA FewCardsLeaveASlot ==
    ASSUME NEW g \in Graphs, NEW n \in 0 .. FarSlots, Ids(g) \subseteq 1 .. n - 1
    PROVE  /\ FreeSlots(g) # {}
           /\ \A i \in Ids(g) : ~Overlap(NewPosition(g), g.nodes[i].pos)
<1>1. \A i \in Ids(g) : g.nodes[i].pos \in Position
  BY DEF Ids, Graphs, Node
<1>2. FreeSlots(g) # {}
  <2> SUFFICES ASSUME FreeSlots(g) = {} PROVE FALSE
    OBVIOUS
  <2>1. \A m \in 0 .. FarSlots - 1 : \E i \in Ids(g) : Overlap(g.nodes[i].pos, Slot(Far(m)))
    BY FarSlot DEF FreeSlots
  <2>2. PICK covers \in [0 .. FarSlots - 1 -> Ids(g)] :
            \A m \in 0 .. FarSlots - 1 : Overlap(g.nodes[covers[m]].pos, Slot(Far(m)))
    <3>1. PICK f : f = [m \in 0 .. FarSlots - 1 |-> CHOOSE i \in Ids(g) : Overlap(g.nodes[i].pos, Slot(Far(m)))]
      OBVIOUS
    <3>2. \A m \in 0 .. FarSlots - 1 : f[m] \in Ids(g) /\ Overlap(g.nodes[f[m]].pos, Slot(Far(m)))
      BY <2>1, <3>1
    <3>3. f \in [0 .. FarSlots - 1 -> Ids(g)]
      BY <3>1, <3>2
    <3> QED
      BY <3>2, <3>3
  <2>3. IsFiniteSet(Ids(g)) /\ Cardinality(Ids(g)) < FarSlots
    <3>1. 1 \in Int /\ n - 1 \in Int /\ (n - 1) - 1 + 1 < FarSlots /\ 0 < FarSlots /\ FarSlots \in Int
      BY DEF FarSlots
    <3>2. IsFiniteSet(1 .. n - 1) /\ Cardinality(1 .. n - 1) = IF 1 > n - 1 THEN 0 ELSE (n - 1) - 1 + 1
      BY <3>1, FS_Interval
    <3>3. IsFiniteSet(Ids(g)) /\ Cardinality(Ids(g)) <= Cardinality(1 .. n - 1)
      BY <3>2, FS_Subset
    <3>4. Cardinality(Ids(g)) \in Nat /\ Cardinality(1 .. n - 1) \in Nat
      BY <3>2, <3>3, FS_CardinalityType
    <3> QED
      BY <3>1, <3>2, <3>3, <3>4
  <2>4. PICK m \in 0 .. FarSlots - 1, k \in 0 .. FarSlots - 1 : m # k /\ covers[m] = covers[k]
    <3>1. covers \in [0 .. FarSlots - 1 -> Ids(g)]
      OBVIOUS
    <3> QED
      BY <2>3, <3>1, TwoAlike
  <2> QED
    BY <1>1, <2>2, <2>4, FarApart
<1>3. NewPosition(g) \in {Slot(k) : k \in FreeSlots(g)}
  <2>1. \E k \in FreeSlots(g) : \A j \in FreeSlots(g) : k <= j
    <3>1. FreeSlots(g) \subseteq Nat
      BY DEF FreeSlots
    <3> QED
      BY <1>2, <3>1, LeastOf
  <2> QED
    BY <1>2, <2>1 DEF NewPosition
<1>4. \A i \in Ids(g) : ~Overlap(g.nodes[i].pos, NewPosition(g))
  BY <1>3 DEF FreeSlots
<1>5. \A p, q \in Position : Overlap(p, q) <=> Overlap(q, p)
  BY DEF Overlap, Abs, Position, CARD_W, CARD_H
<1> QED
  BY <1>1, <1>2, <1>4, <1>5, NewPositionType
-----------------------------------------------------------------------------
(* The history: the array and the index stay in step, for every cap, and    *)
(* implement a linear undo.                                                 *)

\* The empty canvas is a graph.
LEMMA NoGraphIsGraph == NoGraph \in Graphs
BY DEF NoGraph, GraphOf, Graphs

\* The first and the last snapshots of a history, and one more behind them.
LEMMA PrefixFacts ==
    ASSUME NEW S, NEW h \in Seq(S), NEW i \in Int, -1 <= i, i < Len(h)
    PROVE  /\ SubSeq(h, 1, i + 1) \in Seq(S)
           /\ Len(SubSeq(h, 1, i + 1)) = i + 1
           /\ \A k \in 1 .. i + 1 : SubSeq(h, 1, i + 1)[k] = h[k]
OBVIOUS

LEMMA SuffixFacts ==
    ASSUME NEW S, NEW h \in Seq(S), NEW i \in Int, -1 <= i, i < Len(h)
    PROVE  /\ SubSeq(h, i + 2, Len(h)) \in Seq(S)
           /\ Len(SubSeq(h, i + 2, Len(h))) = Len(h) - i - 1
           /\ \A k \in 1 .. Len(h) - i - 1 : SubSeq(h, i + 2, Len(h))[k] = h[k + i + 1]
OBVIOUS

\* What pushHistory leaves: the old past and the new graph, at most the cap.
LEMMA PushFacts ==
    ASSUME HistoryOK, NEW g \in Graphs, PushHistory(g)
    PROVE  /\ history' \in Seq(Graphs)
           /\ history' # <<>>
           /\ Len(history') <= HISTORY_CAP
           /\ historyIndex' = Len(history') - 1
           /\ LET all == Append(SubSeq(history, 1, historyIndex + 1), g)
              IN  history' = IF Len(all) > HISTORY_CAP THEN Tail(all) ELSE all
<1> DEFINE all == Append(SubSeq(history, 1, historyIndex + 1), g)
<1>1. /\ SubSeq(history, 1, historyIndex + 1) \in Seq(Graphs)
      /\ Len(SubSeq(history, 1, historyIndex + 1)) = historyIndex + 1
  BY PrefixFacts DEF HistoryOK
<1>2. all \in Seq(Graphs) /\ Len(all) = historyIndex + 2
  BY <1>1, AppendProperties DEF HistoryOK
<1>3. Len(all) <= HISTORY_CAP + 1 /\ HISTORY_CAP \in Nat \ {0}
  BY <1>2, HistoryAssumption DEF HistoryOK
<1>4. /\ history' = IF Len(all) > HISTORY_CAP THEN Tail(all) ELSE all
      /\ historyIndex' = (IF Len(all) > HISTORY_CAP THEN Len(all) - 1 ELSE Len(all)) - 1
  BY DEF PushHistory
<1> HIDE DEF all
<1>5. all # <<>>
  BY <1>2, EmptySeq DEF HistoryOK
<1>6. Tail(all) \in Seq(Graphs) /\ Len(Tail(all)) = Len(all) - 1
  BY <1>2, <1>5, HeadTailProperties
<1>7. history' \in Seq(Graphs) /\ Len(history') <= HISTORY_CAP /\ historyIndex' = Len(history') - 1
  BY <1>2, <1>3, <1>4, <1>6
<1>8. Len(history') # 0
  BY <1>2, <1>3, <1>4, <1>6 DEF HistoryOK
<1>9. history' # <<>>
  BY <1>7, <1>8, EmptySeq
<1> QED
  BY <1>4, <1>7, <1>9 DEF all

\* pushHistory adds no graph but the one it is given.
LEMMA PushStays ==
    ASSUME HistoryOK, NEW S, history \in Seq(S), NEW g \in S, PushHistory(g)
    PROVE  history' \in Seq(S)
<1> DEFINE all == Append(SubSeq(history, 1, historyIndex + 1), g)
<1>1. SubSeq(history, 1, historyIndex + 1) \in Seq(S)
  BY PrefixFacts DEF HistoryOK
<1>2. all \in Seq(S) /\ all # <<>>
  BY <1>1
<1>3. history' = IF Len(all) > HISTORY_CAP THEN Tail(all) ELSE all
  BY DEF PushHistory
<1> HIDE DEF all
<1>4. Tail(all) \in Seq(S)
  BY <1>2
<1> QED
  BY <1>2, <1>3, <1>4

\* The inductive step: every step of the history keeps HistoryOK.
LEMMA HistoryOKStep ==
    ASSUME HistoryOK, [HistoryNext]_historyVars
    PROVE  HistoryOK'
<1>1. CASE canvas' \in Graphs /\ Recorded(canvas')
  <2>1. PushHistory(canvas')
    BY <1>1 DEF Recorded
  <2> QED
    BY <1>1, <2>1, PushFacts, LenProperties, HistoryAssumption DEF HistoryOK
<1>2. CASE canvas' \in Graphs /\ Unrecorded(canvas')
  BY <1>2 DEF Unrecorded, HistoryOK
<1>3. CASE Undo
  <2>1. history[historyIndex] \in Graphs
    BY <1>3, ElementOfSeq DEF Undo, HistoryOK
  <2> QED
    BY <1>3, <2>1 DEF Undo, HistoryOK
<1>4. CASE Redo
  <2>1. history[historyIndex + 2] \in Graphs
    BY <1>4, ElementOfSeq DEF Redo, HistoryOK
  <2> QED
    BY <1>4, <2>1 DEF Redo, HistoryOK
<1>5. CASE Unmount
  BY <1>5, NoGraphIsGraph, HistoryAssumption, EmptySeq DEF Unmount, HistoryOK
<1>6. CASE UNCHANGED historyVars
  BY <1>6 DEF historyVars, HistoryOK
<1> QED
  BY <1>1, <1>2, <1>3, <1>4, <1>5, <1>6 DEF HistoryNext

\* The index always points into the array and the array stays within its cap.
THEOREM HistoryIsOK == HistorySpec => []HistoryOK
<1>1. HistoryInit => HistoryOK
  BY NoGraphIsGraph, HistoryAssumption, EmptySeq DEF HistoryInit, HistoryOK
<1> QED
  BY <1>1, HistoryOKStep, PTL DEF HistorySpec
-----------------------------------------------------------------------------
Past == SubSeq(history, 1, historyIndex + 1)
Future == SubSeq(history, historyIndex + 2, Len(history))

\* A whole history read as a past, and nothing as a future.
LEMMA AllPast ==
    ASSUME NEW S, NEW h \in Seq(S)
    PROVE  SubSeq(h, 1, Len(h)) = h /\ SubSeq(h, Len(h) + 1, Len(h)) = <<>>
BY SubSeqFull, SubSeqEmpty, LenProperties

\* Undo takes the last of the past, redo the first of the future.
LEMMA ShorterPast ==
    ASSUME NEW S, NEW h \in Seq(S), NEW i \in Int, 0 < i, i < Len(h)
    PROVE  SubSeq(h, 1, i) = SubSeq(SubSeq(h, 1, i + 1), 1, i)
<1> DEFINE a == SubSeq(h, 1, i)
           p == SubSeq(h, 1, i + 1)
           b == SubSeq(p, 1, i)
<1>1. a \in Seq(S) /\ Len(a) = i /\ \A k \in 1 .. i : a[k] = h[k]
  BY PrefixFacts, i - 1 \in Int, -1 <= i - 1, i - 1 < Len(h), (i - 1) + 1 = i
<1>2. p \in Seq(S) /\ Len(p) = i + 1 /\ \A k \in 1 .. i + 1 : p[k] = h[k]
  BY PrefixFacts
<1> HIDE DEF p
<1>3. b \in Seq(S) /\ Len(b) = i /\ \A k \in 1 .. i : b[k] = p[k]
  BY <1>2, PrefixFacts, i - 1 \in Int, -1 <= i - 1, i - 1 < Len(p), (i - 1) + 1 = i
<1> HIDE DEF a, b
<1>4. \A k \in 1 .. Len(a) : a[k] = b[k]
  BY <1>1, <1>2, <1>3
<1>5. a = b
  BY <1>1, <1>3, <1>4, SeqEqual
<1> QED
  BY <1>5 DEF a, b, p

LEMMA LongerFuture ==
    ASSUME NEW S, NEW h \in Seq(S), NEW i \in Int, 0 <= i, i < Len(h)
    PROVE  /\ SubSeq(h, i + 1, Len(h)) = <<h[i + 1]>> \o SubSeq(h, i + 2, Len(h))
           /\ SubSeq(h, i + 1, Len(h)) # <<>>
           /\ Head(SubSeq(h, i + 1, Len(h))) = h[i + 1]
           /\ Tail(SubSeq(h, i + 1, Len(h))) = SubSeq(h, i + 2, Len(h))
<1> DEFINE f == SubSeq(h, i + 1, Len(h))
           t == SubSeq(h, i + 2, Len(h))
           c == <<h[i + 1]>> \o t
<1>1. Len(h) \in Nat /\ h[i + 1] \in S
  BY LenProperties, ElementOfSeq
<1>2. f \in Seq(S) /\ Len(f) = Len(h) - i /\ \A k \in 1 .. Len(h) - i : f[k] = h[k + i]
  <2>1. /\ SubSeq(h, (i - 1) + 2, Len(h)) \in Seq(S)
        /\ Len(SubSeq(h, (i - 1) + 2, Len(h))) = Len(h) - (i - 1) - 1
        /\ \A k \in 1 .. Len(h) - (i - 1) - 1 : SubSeq(h, (i - 1) + 2, Len(h))[k] = h[k + (i - 1) + 1]
    BY SuffixFacts, i - 1 \in Int, -1 <= i - 1, i - 1 < Len(h)
  <2>2. (i - 1) + 2 = i + 1 /\ Len(h) - (i - 1) - 1 = Len(h) - i
    BY <1>1
  <2>3. \A k \in 1 .. Len(h) - i : k + (i - 1) + 1 = k + i
    BY <1>1
  <2> QED
    BY <2>1, <2>2, <2>3
<1>3. t \in Seq(S) /\ Len(t) = Len(h) - i - 1 /\ \A k \in 1 .. Len(h) - i - 1 : t[k] = h[k + i + 1]
  BY SuffixFacts
<1> HIDE DEF t
<1>4. c \in Seq(S) /\ Len(c) = Len(h) - i /\ c[1] = h[i + 1] /\ \A k \in 2 .. Len(h) - i : c[k] = t[k - 1]
  BY <1>1, <1>3
<1> HIDE DEF f, c
<1>5. \A k \in 2 .. Len(h) - i : c[k] = h[k + i]
  <2>1. SUFFICES ASSUME NEW k \in 2 .. Len(h) - i PROVE c[k] = h[k + i]
    OBVIOUS
  <2>2. k - 1 \in 1 .. Len(h) - i - 1 /\ (k - 1) + i + 1 = k + i
    BY <1>1
  <2> QED
    BY <1>3, <1>4, <2>2
<1>6. \A k \in 1 .. Len(f) : f[k] = c[k]
  BY <1>1, <1>2, <1>4, <1>5
<1>7. f = c
  BY <1>2, <1>4, <1>6, SeqEqual
<1>8. Head(c) = h[i + 1] /\ Tail(c) = t /\ c # <<>>
  <2>1. c # <<>>
    BY <1>1, <1>4, EmptySeq
  <2>2. Head(c) = h[i + 1] /\ Len(Tail(c)) = Len(t) /\ Tail(c) \in Seq(S)
    BY <1>3, <1>4, <2>1, HeadTailProperties
  <2>3. \A k \in 1 .. Len(t) : Tail(c)[k] = t[k]
    <3>1. SUFFICES ASSUME NEW k \in 1 .. Len(t) PROVE Tail(c)[k] = t[k]
      OBVIOUS
    <3>2. k + 1 \in 2 .. Len(h) - i /\ (k + 1) - 1 = k
      BY <1>1, <1>3
    <3>3. Tail(c)[k] = c[k + 1]
      BY <1>3, <1>4, <2>1, <2>2, HeadTailProperties
    <3> QED
      BY <1>4, <3>2, <3>3
  <2>4. Tail(c) = t
    BY <1>3, <2>2, <2>3, SeqEqual
  <2> QED
    BY <2>1, <2>2, <2>4
<1> QED
  BY <1>7, <1>8 DEF f, c, t

\* Nothing recorded: nothing behind, nothing ahead.
LEMMA NothingRecorded ==
    ASSUME NEW h, NEW i, h = <<>>, i = -1
    PROVE  SubSeq(h, 1, i + 1) = <<>> /\ SubSeq(h, i + 2, Len(h)) = <<>>
<1>1. h \in Seq(Graphs) /\ Len(h) = 0 /\ i + 1 = 0 /\ i + 2 = 1
  BY EmptySeq
<1>2. SubSeq(h, 1, Len(h)) = h /\ Len(h) = i + 1 /\ 1 = i + 2
  BY <1>1, SubSeqFull
<1> QED
  BY <1>2

\* Redo puts the first of the future behind.
LEMMA LongerPast ==
    ASSUME NEW S, NEW h \in Seq(S), NEW i \in Int, 0 <= i + 1, i + 1 < Len(h)
    PROVE  SubSeq(h, 1, i + 2) = Append(SubSeq(h, 1, i + 1), h[i + 2])
<1> DEFINE a == SubSeq(h, 1, i + 2)
           p == SubSeq(h, 1, i + 1)
           b == Append(p, h[i + 2])
<1>1. Len(h) \in Nat /\ h[i + 2] \in S
  BY LenProperties, ElementOfSeq
<1>2. a \in Seq(S) /\ Len(a) = i + 2 /\ \A k \in 1 .. i + 2 : a[k] = h[k]
  BY PrefixFacts, i + 1 \in Int, -1 <= i + 1, (i + 1) + 1 = i + 2
<1>3. p \in Seq(S) /\ Len(p) = i + 1 /\ \A k \in 1 .. i + 1 : p[k] = h[k]
  BY <1>1, PrefixFacts
<1> HIDE DEF a, p
<1>4. b \in Seq(S) /\ Len(b) = i + 2 /\ b[i + 2] = h[i + 2] /\ \A k \in 1 .. i + 1 : b[k] = p[k]
  BY <1>1, <1>3, AppendProperties
<1> HIDE DEF b
<1>5. \A k \in 1 .. Len(a) : a[k] = b[k]
  BY <1>1, <1>2, <1>3, <1>4
<1>6. a = b
  BY <1>2, <1>4, <1>5, SeqEqual
<1> QED
  BY <1>6 DEF a, b, p

\* Each step of the history is the step of a linear undo of its name.
LEMMA RefinementStep ==
    ASSUME HistoryOK, [HistoryNext]_historyVars
    PROVE  [LU!Next]_(LU!vars)
<1>0. history \in Seq(Graphs) /\ Len(history) \in Nat
  BY LenProperties DEF HistoryOK
<1>1. CASE canvas' \in Graphs /\ Recorded(canvas')
  <2>1. PushHistory(canvas')
    BY <1>1 DEF Recorded
  <2>2. /\ history' \in Seq(Graphs)
        /\ historyIndex' = Len(history') - 1
        /\ LET all == Append(Past, canvas')
           IN  history' = IF Len(all) > HISTORY_CAP THEN Tail(all) ELSE all
    BY <1>1, <2>1, PushFacts DEF Past
  <2>3. Past' = history' /\ Future' = <<>>
    <3>1. SubSeq(history', 1, Len(history')) = history' /\ SubSeq(history', Len(history') + 1, Len(history')) = <<>>
      BY <2>2, AllPast
    <3>2. historyIndex' + 1 = Len(history') /\ historyIndex' + 2 = Len(history') + 1
      BY <2>2, LenProperties
    <3> QED
      BY <3>1, <3>2 DEF Past, Future
  <2>4. LU!Record
    BY <1>1, <2>2, <2>3 DEF LU!Record, Past, Future
  <2> QED
    BY <2>4 DEF LU!Next
<1>2. CASE canvas' \in Graphs /\ Unrecorded(canvas')
  BY <1>2 DEF Unrecorded, LU!Next, LU!Change
<1>3. CASE Undo
  <2>1. historyIndex \in Int /\ 0 < historyIndex /\ historyIndex < Len(history)
    BY <1>3 DEF Undo, HistoryOK
  <2>2. Len(Past) = historyIndex + 1 /\ Past[historyIndex] = history[historyIndex]
                                     /\ Past[historyIndex + 1] = history[historyIndex + 1]
    BY <1>0, <2>1, PrefixFacts DEF Past
  <2>3. historyIndex' + 1 = historyIndex /\ historyIndex' + 2 = historyIndex + 1 /\ history' = history
    BY <1>3, <2>1 DEF Undo
  <2>4. Past' = SubSeq(Past, 1, Len(Past) - 1)
    BY <1>0, <2>1, <2>2, <2>3, ShorterPast DEF Past
  <2>5. Future' = <<Past[Len(Past)]>> \o Future
    <3>1. SubSeq(history, historyIndex + 1, Len(history))
            = <<history[historyIndex + 1]>> \o SubSeq(history, historyIndex + 2, Len(history))
      BY <1>0, <2>1, LongerFuture
    <3> QED
      BY <2>2, <2>3, <3>1 DEF Future
  <2>6. Len(Past) > 1 /\ canvas' = Past[Len(Past) - 1]
    BY <1>3, <2>1, <2>2 DEF Undo
  <2>7. LU!Undo
    BY <2>4, <2>5, <2>6 DEF LU!Undo, Past, Future
  <2> QED
    BY <2>7 DEF LU!Next
<1>4. CASE Redo
  <2>1. historyIndex + 1 \in Int /\ historyIndex \in Int /\ 0 <= historyIndex + 1 /\ historyIndex + 1 < Len(history)
    BY <1>4 DEF Redo, HistoryOK
  <2>2. /\ Future # <<>>
        /\ Head(Future) = history[historyIndex + 2]
        /\ Tail(Future) = SubSeq(history, historyIndex + 3, Len(history))
    <3>1. /\ SubSeq(history, (historyIndex + 1) + 1, Len(history)) # <<>>
          /\ Head(SubSeq(history, (historyIndex + 1) + 1, Len(history))) = history[(historyIndex + 1) + 1]
          /\ Tail(SubSeq(history, (historyIndex + 1) + 1, Len(history))) = SubSeq(history, (historyIndex + 1) + 2, Len(history))
      BY <1>0, <2>1, LongerFuture
    <3>2. (historyIndex + 1) + 1 = historyIndex + 2 /\ (historyIndex + 1) + 2 = historyIndex + 3
      BY <2>1
    <3> QED
      BY <3>1, <3>2 DEF Future
  <2>3. historyIndex' + 1 = historyIndex + 2 /\ historyIndex' + 2 = historyIndex + 3 /\ history' = history
    BY <1>4, <2>1 DEF Redo
  <2>4. Future' = Tail(Future)
    BY <2>2, <2>3 DEF Future
  <2>5. Past' = Append(Past, Head(Future))
    BY <1>0, <2>1, <2>2, <2>3, LongerPast DEF Past
  <2>6. canvas' = Head(Future)
    BY <1>4, <2>2 DEF Redo
  <2>7. LU!Redo
    BY <2>2, <2>4, <2>5, <2>6 DEF LU!Redo, Past, Future
  <2> QED
    BY <2>7 DEF LU!Next
<1>5. CASE Unmount
  <2>1. history' = <<>> /\ historyIndex' = -1 /\ canvas' \in Graphs
    BY <1>5, NoGraphIsGraph DEF Unmount
  <2>2. Past' = <<>> /\ Future' = <<>>
    BY <2>1, NothingRecorded DEF Past, Future
  <2>3. LU!Close
    BY <2>1, <2>2 DEF LU!Close, Past, Future
  <2> QED
    BY <2>3 DEF LU!Next
<1>6. CASE UNCHANGED historyVars
  BY <1>6 DEF historyVars, LU!vars
<1> QED
  BY <1>1, <1>2, <1>3, <1>4, <1>5, <1>6 DEF HistoryNext

\* The editor's history implements a linear undo, whatever its cap (pushHistory,
\* undo and redo of WorkflowEditor.tsx).
THEOREM HistoryIsLinear == HistorySpec => LinearUndoSpec
<1>1. HistoryInit => LU!Init
  BY NothingRecorded, NoGraphIsGraph DEF HistoryInit, LU!Init, Past, Future
<1>2. HistoryOK /\ [HistoryNext]_historyVars => [LU!Next]_(LU!vars)
  BY RefinementStep
<1>3. HistorySpec => []HistoryOK
  BY HistoryIsOK
<1> QED
  BY <1>1, <1>2, <1>3, PTL DEF HistorySpec, LinearUndoSpec, LU!Spec
-----------------------------------------------------------------------------
(* The editor. *)

\* The kinds of steps of the page.
EditStep ==
    \/ \E type \in PaletteTypes : AddNode(type)
    \/ Duplicate \/ EditField \/ UndoEdit \/ RedoEdit
    \/ \E n \in NodeIds \cup {None} : DeleteNode(n)
    \/ \E n \in NodeIds, pos \in DragTo : MoveNode(n, pos)
    \/ \E r \in Resources \cup {NoLink} : ChooseResource(r)
    \/ \E n \in NodeIds, port \in Ports : Connect(n, port)
    \/ \E e \in canvas.edges : DeleteEdge(e)
VisitStep == Open \/ Close \/ WorkflowFetched \/ FetchFailed \/ ResourcesFetched
SaveStep == SaveDraft \/ \E s \in saves : ReadEtag(s) \/ Put(s) \/ PutFails(s) \/ SaveAnswered(s)
QuietStep ==
    \/ DropConnection
    \/ \E n \in NodeIds \cup {None} : Select(n)
    \/ \E n \in NodeIds, port \in Ports : StartConnection(n, port)
    \/ UNCHANGED vars

LEMMA StepKinds == [Next]_vars => EditStep \/ VisitStep \/ SaveStep \/ QuietStep \/ OtherSaves
BY Zenon DEF Next, EditStep, VisitStep, SaveStep, QuietStep

LEMMA EditIsEdited ==
    ASSUME EditStep
    PROVE  Edited /\ (Recorded(canvas') \/ Unrecorded(canvas') \/ Undo \/ Redo)
BY DEF EditStep, AddNode, Duplicate, EditField, UndoEdit, RedoEdit, DeleteNode, MoveNode, ChooseResource,
       Connect, DeleteEdge, Recorded, Unrecorded
-----------------------------------------------------------------------------
(* Every graph the page holds, in memory, in localStorage, in a save or on  *)
(* the server, has the types its ids were given, joined at ports they have. *)
Fitting(kind) == {g \in Graphs : Fits(g, kind, nextId) /\ (~stray => Joined(g))}

HoldsOnly(S) ==
    /\ canvas \in S /\ history \in Seq(S)
    /\ {entry, local, server.graph} \subseteq S \cup {None}
    /\ \A s \in saves : s.graph \in S

Drawn(kind) ==
    connecting # None => connecting.node < nextId /\ connecting.port \in OutPorts(kind[connecting.node])

AllFit == \E kind \in Kinds : HoldsOnly(Fitting(kind)) /\ Drawn(kind)

Typed == TypeOK /\ HistoryOK /\ nextId # 0 /\ budget \in Budgets

EInv == Typed /\ AllFit

\* A save that moves on keeps its graph and its visit.
LEMMA SaveChanges ==
    ASSUME NEW s \in Save, NEW step \in {"ok", "failed"}
    PROVE  /\ LET t == [s EXCEPT !.step = step]
              IN  t \in Save /\ t.graph = s.graph /\ t.mount = s.mount /\ t.step = step
           /\ LET t == [s EXCEPT !.tries = @ + 1]
              IN  t \in Save /\ t.graph = s.graph /\ t.mount = s.mount /\ t.step = s.step
<1>1. LET t == [s EXCEPT !.step = step]
      IN  t \in Save /\ t.graph = s.graph /\ t.mount = s.mount /\ t.step = step
  BY DEF Save
<1>2. LET t == [s EXCEPT !.tries = @ + 1]
      IN  t \in Save /\ t.graph = s.graph /\ t.mount = s.mount /\ t.step = s.step
  BY DEF Save
<1> QED
  BY <1>1, <1>2

LEMMA SaveMoves ==
    ASSUME TypeOK, NEW s \in saves, ReadEtag(s) \/ Put(s) \/ PutFails(s) \/ SaveAnswered(s)
    PROVE  \A t \in saves' :
              \/ t \in saves
              \/ t \in Save /\ t.graph = s.graph /\ t.mount = s.mount /\ (t.step = "ok" => acked' = s.graph)
<1>1. s \in Save /\ {server.etag, None} \subseteq Nat \cup {None}
  BY DEF TypeOK
<1>2. CASE ReadEtag(s)
  <2>1. PICK etag \in {server.etag, None} : saves' = (saves \ {s}) \cup {[s EXCEPT !.step = "put", !.etag = etag]}
    BY <1>2 DEF ReadEtag, Advance
  <2>2. etag \in Nat \cup {None}
    BY <1>1, <2>1
  <2>3. LET t == [s EXCEPT !.step = "put", !.etag = etag]
        IN  t \in Save /\ t.graph = s.graph /\ t.mount = s.mount /\ t.step = "put"
    BY <1>1, <2>2 DEF Save
  <2> QED
    BY <2>1, <2>3
<1>3. CASE PutFails(s) \/ (Put(s) /\ saves' = (saves \ {s}) \cup {[s EXCEPT !.step = "failed"]})
  <2>1. saves' = (saves \ {s}) \cup {[s EXCEPT !.step = "failed"]}
    BY <1>3 DEF PutFails, Advance
  <2>2. LET t == [s EXCEPT !.step = "failed"]
        IN  t \in Save /\ t.graph = s.graph /\ t.mount = s.mount /\ t.step = "failed"
    BY <1>1, SaveChanges
  <2> QED
    BY <2>1, <2>2
<1>4. CASE Put(s) /\ acked' = s.graph /\ saves' = (saves \ {s}) \cup {[s EXCEPT !.step = "ok"]}
  <2>1. LET t == [s EXCEPT !.step = "ok"]
        IN  t \in Save /\ t.graph = s.graph /\ t.mount = s.mount
    BY <1>1, SaveChanges
  <2> QED
    BY <1>4, <2>1
<1>5. CASE Put(s) /\ acked' = s.graph /\ saves' = (saves \ {s}) \cup {[s EXCEPT !.tries = @ + 1]}
  <2>1. LET t == [s EXCEPT !.tries = @ + 1]
        IN  t \in Save /\ t.graph = s.graph /\ t.mount = s.mount
    BY <1>1, SaveChanges
  <2> QED
    BY <1>5, <2>1
<1>6. CASE SaveAnswered(s)
  BY <1>6 DEF SaveAnswered
<1>7. Put(s) =>
        \/ saves' = (saves \ {s}) \cup {[s EXCEPT !.step = "failed"]}
        \/ acked' = s.graph /\ saves' = (saves \ {s}) \cup {[s EXCEPT !.step = "ok"]}
        \/ acked' = s.graph /\ saves' = (saves \ {s}) \cup {[s EXCEPT !.tries = @ + 1]}
  BY Zenon DEF Put, Advance
<1> QED
  BY <1>2, <1>3, <1>4, <1>5, <1>6, <1>7

LEMMA SeqGrows ==
    ASSUME NEW S, NEW T, S \subseteq T, NEW h \in Seq(S)
    PROVE  h \in Seq(T)
<1>1. Len(h) \in Nat /\ h \in [1 .. Len(h) -> S]
  OBVIOUS
<1>2. h \in [1 .. Len(h) -> T]
  BY <1>1
<1> QED
  BY <1>1, <1>2

\* Whatever set of graphs the page holds, a step adds the graph it shows.
LEMMA HoldsOnlyStep ==
    ASSUME HistoryOK, TypeOK, NEW S, NoGraph \in S, HoldsOnly(S), [Next]_vars, canvas' \in S
    PROVE  HoldsOnly(S)'
<1>1. CASE EditStep
  <2>1. Edited /\ (Recorded(canvas') \/ Unrecorded(canvas') \/ Undo \/ Redo)
    BY <1>1, EditIsEdited
  <2>2. history' \in Seq(S)
    <3>1. CASE Recorded(canvas')
      BY <3>1, PushStays DEF Recorded, HoldsOnly
    <3>2. CASE Unrecorded(canvas') \/ Undo \/ Redo
      BY <3>2 DEF Unrecorded, Undo, Redo, HoldsOnly
    <3> QED
      BY <2>1, <3>1, <3>2
  <2>3. local' = canvas' /\ UNCHANGED <<entry, server, saves>>
    BY <2>1 DEF Edited
  <2> QED
    BY <2>2, <2>3 DEF HoldsOnly
<1>2. CASE VisitStep
  <2>1. UNCHANGED <<server, saves>> /\ local' \in {local, canvas, canvas'} /\ entry' \in {entry, None}
    BY <1>2 DEF VisitStep, Open, Close, WorkflowFetched, FetchFailed, ResourcesFetched
  <2>2. history' = history \/ history' = <<>>
    BY <1>2 DEF VisitStep, Open, Close, WorkflowFetched, FetchFailed, ResourcesFetched, historyVars, Unrecorded, Unmount
  <2>3. history' \in Seq(S)
    BY <2>2, EmptySeq DEF HoldsOnly
  <2> QED
    BY <2>1, <2>3 DEF HoldsOnly
<1>3. CASE SaveDraft
  BY <1>3 DEF SaveDraft, historyVars, HoldsOnly
<1>4. ASSUME NEW s \in saves, ReadEtag(s) \/ Put(s) \/ PutFails(s) \/ SaveAnswered(s)
      PROVE  HoldsOnly(S)'
  <2>1. UNCHANGED <<canvas, history, entry>> /\ local' \in {local, None} /\ server'.graph \in {server.graph, s.graph}
    BY <1>4 DEF ReadEtag, Put, PutFails, SaveAnswered, historyVars
  <2>2. s \in Save /\ s.graph \in S
    BY DEF TypeOK, HoldsOnly
  <2>3. \A t \in saves' : t \in saves \/ t.graph = s.graph
    BY <1>4, SaveMoves
  <2> QED
    BY <2>1, <2>2, <2>3 DEF HoldsOnly
<1>5. CASE QuietStep
  BY <1>5 DEF QuietStep, DropConnection, Select, StartConnection, vars, historyVars, HoldsOnly
<1>6. CASE OtherSaves
  BY <1>6 DEF OtherSaves, historyVars, HoldsOnly
<1> QED
  BY <1>1, <1>2, <1>3, <1>4, <1>5, <1>6, StepKinds DEF SaveStep
-----------------------------------------------------------------------------
\* The steps that make no node leave the types of the ids as they are.
LEMMA FittingStays ==
    ASSUME NEW kind, nextId' = nextId, stray => stray'
    PROVE  Fitting(kind) \subseteq Fitting(kind)'
BY DEF Fitting

LEMMA NoGraphFits ==
    ASSUME NEW kind
    PROVE  NoGraph \in Fitting(kind)
BY NoGraphIsSound DEF Fitting, Fits, Joined

\* A new node: its id takes a type no graph has given it.
LEMMA NewNodeFits ==
    ASSUME Typed, NEW kind \in Kinds, canvas \in Fitting(kind), Drawn(kind), NEW node \in Node,
           nextId <= budget.nodes, canvas' = With(canvas, nextId, node), nextId' = nextId + 1,
           UNCHANGED <<connecting, stray>>
    PROVE  \E later \in Kinds : Fitting(kind) \subseteq Fitting(later)' /\ canvas' \in Fitting(later)' /\ Drawn(later)'
<1>0. PICK later : later = [kind EXCEPT ![nextId] = node.type]
  OBVIOUS
<1>1. nextId \in NodeIds /\ nextId + 1 \in Nat
  <2>1. budget.nodes \in NodeIds
    BY EditorAssumption DEF Typed
  <2>2. nextId \in Nat /\ nextId # 0
    BY DEF Typed, TypeOK
  <2> QED
    BY <2>1, <2>2, GraphAssumption DEF NodeIds
<1>2. node.type \in Types
  BY DEF Node
<1>3. later \in Kinds /\ later[nextId] = node.type /\ \A i \in NodeIds \ {nextId} : later[i] = kind[i]
  BY <1>0, <1>1, <1>2 DEF Kinds
<1>4. \A g \in Graphs : Fits(g, kind, nextId) => Fits(g, later, nextId + 1)
  BY <1>0, <1>1, <1>2, FitsLater
<1>5. Fitting(kind) \subseteq Fitting(later)'
  BY <1>4 DEF Fitting
<1>6. canvas \in Graphs /\ Fits(canvas, later, nextId + 1) /\ (~stray => Joined(canvas))
  BY <1>4 DEF Fitting
<1>7. nextId < nextId + 1
  BY <1>1 DEF NodeIds
<1>8. /\ With(canvas, nextId, node) \in Graphs
      /\ Fits(With(canvas, nextId, node), later, nextId + 1)
      /\ Joined(canvas) => Joined(With(canvas, nextId, node))
  BY <1>1, <1>3, <1>6, <1>7, WithIsGraph, WithFits
<1>9. canvas' \in Fitting(later)'
  BY <1>6, <1>8 DEF Fitting
<1>10. Drawn(later)'
  <2> SUFFICES ASSUME connecting # None
               PROVE  connecting.node < nextId + 1 /\ connecting.port \in OutPorts(later[connecting.node])
    BY DEF Drawn
  <2>1. connecting.node \in NodeIds /\ connecting.node < nextId /\ connecting.port \in OutPorts(kind[connecting.node])
    BY DEF Drawn, Typed, TypeOK
  <2> QED
    BY <1>1, <1>3, <2>1, GraphAssumption DEF NodeIds
<1> QED
  BY <1>3, <1>5, <1>9, <1>10

\* A node configured or moved keeps its type.
LEMMA NodeKept ==
    ASSUME canvas \in Graphs, NEW n \in Ids(canvas), NEW pos \in Position, NEW r \in Resources \cup {NoLink}
    PROVE  /\ LET node == [canvas.nodes[n] EXCEPT !.pos = pos]
              IN  node \in Node /\ node.type = canvas.nodes[n].type
           /\ LET node == [canvas.nodes[n] EXCEPT !.text = 1 - @]
              IN  node \in Node /\ node.type = canvas.nodes[n].type
           /\ LET node == [canvas.nodes[n] EXCEPT !.link = r]
              IN  node \in Node /\ node.type = canvas.nodes[n].type
<1>0. canvas.nodes[n] \in Node
  BY DEF Graphs, Ids
<1>1. LET node == [canvas.nodes[n] EXCEPT !.pos = pos]
      IN  node \in Node /\ node.type = canvas.nodes[n].type
  BY <1>0 DEF Node
<1>2. LET node == [canvas.nodes[n] EXCEPT !.text = 1 - @]
      IN  node \in Node /\ node.type = canvas.nodes[n].type
  BY <1>0 DEF Node
<1>3. LET node == [canvas.nodes[n] EXCEPT !.link = r]
      IN  node \in Node /\ node.type = canvas.nodes[n].type
  BY <1>0 DEF Node
<1> QED
  BY <1>1, <1>2, <1>3

LEMMA NodeKeptFits ==
    ASSUME Typed, NEW kind \in Kinds, canvas \in Fitting(kind), NEW n \in Ids(canvas), NEW node \in Node,
           node.type = canvas.nodes[n].type
    PROVE  With(canvas, n, node) \in Fitting(kind)
<1>1. canvas \in Graphs /\ n \in NodeIds /\ Fits(canvas, kind, nextId) /\ (~stray => Joined(canvas))
  BY DEF Fitting, Ids
<1>2. n < nextId /\ node.type = kind[n] /\ nextId \in Nat
  BY <1>1 DEF Fits, Typed, TypeOK
<1> QED
  BY <1>1, <1>2, WithIsGraph, WithFits DEF Fitting

\* Each edit shows a graph that fits.
LEMMA EditFits ==
    ASSUME Typed, NEW kind \in Kinds, HoldsOnly(Fitting(kind)), Drawn(kind), EditStep
    PROVE  \E later \in Kinds : Fitting(kind) \subseteq Fitting(later)' /\ canvas' \in Fitting(later)' /\ Drawn(later)'
<1>0. /\ canvas \in Fitting(kind) /\ canvas \in Graphs /\ Fits(canvas, kind, nextId) /\ (~stray => Joined(canvas))
      /\ nextId \in Nat
  BY DEF HoldsOnly, Fitting, Typed, TypeOK
<1>1. ASSUME NEW type \in PaletteTypes, AddNode(type)
      PROVE  \E later \in Kinds : Fitting(kind) \subseteq Fitting(later)' /\ canvas' \in Fitting(later)' /\ Drawn(later)'
  <2> DEFINE link == IF type \in DOMAIN listed /\ listed[type] # <<>> THEN Head(listed[type]) ELSE NoLink
             node == [type |-> type, pos |-> NewPosition(canvas), text |-> 0, link |-> link]
  <2>1. link \in Resources \cup {NoLink}
    <3>1. listed \in [{"agent", "eval"} -> Seq(Resources)]
      BY DEF Typed, TypeOK
    <3>2. type \in DOMAIN listed => listed[type] \in Seq(Resources)
      BY <3>1
    <3> QED
      BY <3>2
  <2> HIDE DEF link
  <2>2. node \in Node
    BY <2>1, NewPositionType, EditorAssumption DEF Node
  <2>3. /\ nextId <= budget.nodes /\ canvas' = With(canvas, nextId, node) /\ nextId' = nextId + 1
        /\ UNCHANGED <<connecting, stray>>
    BY <1>1 DEF AddNode, Recorded, link
  <2> HIDE DEF node
  <2> QED
    BY <1>0, <2>2, <2>3, NewNodeFits
<1>2. CASE Duplicate
  <2> DEFINE old == canvas.nodes[selected]
             node == [old EXCEPT !.pos = [x |-> @.x + 30, y |-> @.y + 30]]
  <2>1. old \in Node
    BY <1>0, <1>2 DEF Duplicate, Ids, Graphs
  <2>2. /\ nextId <= budget.nodes /\ canvas' = With(canvas, nextId, node) /\ nextId' = nextId + 1
        /\ UNCHANGED <<connecting, stray>>
    BY <1>2 DEF Duplicate, Recorded
  <2> HIDE DEF old
  <2>3. node \in Node
    BY <2>1 DEF Node, Position
  <2> HIDE DEF node
  <2> QED
    BY <1>0, <2>2, <2>3, NewNodeFits
<1>3. ASSUME nextId' = nextId, stray => stray', connecting' \in {connecting, None}, canvas' \in Fitting(kind)'
      PROVE  \E later \in Kinds : Fitting(kind) \subseteq Fitting(later)' /\ canvas' \in Fitting(later)' /\ Drawn(later)'
  <2>1. Fitting(kind) \subseteq Fitting(kind)'
    BY <1>3, FittingStays
  <2>2. Drawn(kind)'
    BY <1>3 DEF Drawn
  <2> QED
    BY <1>3, <2>1, <2>2
<1>4. CASE UndoEdit \/ RedoEdit
  <2>1. canvas' \in Fitting(kind)
    <3>1. CASE Undo
      <4>1. historyIndex \in 1 .. Len(history)
        BY <3>1 DEF Undo, Typed, HistoryOK
      <4> QED
        BY <3>1, <4>1, ElementOfSeq DEF Undo, HoldsOnly
    <3>2. CASE Redo
      <4>1. historyIndex + 2 \in 1 .. Len(history)
        BY <3>2 DEF Redo, Typed, HistoryOK
      <4> QED
        BY <3>2, <4>1, ElementOfSeq DEF Redo, HoldsOnly
    <3> QED
      BY <1>4, <3>1, <3>2 DEF UndoEdit, RedoEdit
  <2>2. UNCHANGED <<nextId, connecting, stray>>
    BY <1>4 DEF UndoEdit, RedoEdit
  <2> QED
    BY <1>3, <2>1, <2>2, FittingStays
<1>5. ASSUME NEW n \in NodeIds \cup {None}, DeleteNode(n)
      PROVE  \E later \in Kinds : Fitting(kind) \subseteq Fitting(later)' /\ canvas' \in Fitting(later)' /\ Drawn(later)'
  <2>1. n \in NodeIds /\ canvas' = Without(canvas, n) /\ UNCHANGED <<nextId, connecting, stray>>
    BY <1>5 DEF DeleteNode, Recorded
  <2>2. Without(canvas, n) \in Graphs /\ Fits(Without(canvas, n), kind, nextId) /\ (~stray => Joined(Without(canvas, n)))
    BY <1>0, <2>1, WithoutIsGraph, WithoutFits
  <2>3. canvas' \in Fitting(kind)
    BY <2>1, <2>2 DEF Fitting
  <2> QED
    BY <1>3, <2>1, <2>3, FittingStays
<1>6. ASSUME NEW n \in Ids(canvas), NEW node \in Node, node.type = canvas.nodes[n].type,
             canvas' = With(canvas, n, node), UNCHANGED <<nextId, connecting, stray>>
      PROVE  \E later \in Kinds : Fitting(kind) \subseteq Fitting(later)' /\ canvas' \in Fitting(later)' /\ Drawn(later)'
  <2>1. canvas' \in Fitting(kind)
    BY <1>0, <1>6, NodeKeptFits
  <2> QED
    BY <1>3, <1>6, <2>1, FittingStays
<1>7. ASSUME NEW n \in NodeIds, NEW pos \in DragTo, MoveNode(n, pos)
      PROVE  \E later \in Kinds : Fitting(kind) \subseteq Fitting(later)' /\ canvas' \in Fitting(later)' /\ Drawn(later)'
  <2> DEFINE node == [canvas.nodes[n] EXCEPT !.pos = pos]
  <2>1. n \in Ids(canvas) /\ canvas' = With(canvas, n, node) /\ UNCHANGED <<nextId, connecting, stray>>
    BY <1>7 DEF MoveNode, Unrecorded
  <2>2. node \in Node /\ node.type = canvas.nodes[n].type
    BY <1>0, <2>1, NodeKept, EditorAssumption
  <2> HIDE DEF node
  <2> QED
    BY <1>6, <2>1, <2>2
<1>8. CASE EditField
  <2> DEFINE node == [canvas.nodes[selected] EXCEPT !.text = 1 - @]
  <2>1. selected \in Ids(canvas) /\ canvas' = With(canvas, selected, node) /\ UNCHANGED <<nextId, connecting, stray>>
    BY <1>8 DEF EditField, InDrawer, Unrecorded
  <2>2. node \in Node /\ node.type = canvas.nodes[selected].type
    BY <1>0, <2>1, NodeKept, NewPositionType
  <2> HIDE DEF node
  <2> QED
    BY <1>6, <2>1, <2>2
<1>9. ASSUME NEW r \in Resources \cup {NoLink}, ChooseResource(r)
      PROVE  \E later \in Kinds : Fitting(kind) \subseteq Fitting(later)' /\ canvas' \in Fitting(later)' /\ Drawn(later)'
  <2> DEFINE node == [canvas.nodes[selected] EXCEPT !.link = r]
  <2>1. selected \in Ids(canvas) /\ canvas' = With(canvas, selected, node) /\ UNCHANGED <<nextId, connecting, stray>>
    BY <1>9 DEF ChooseResource, InDrawer, Unrecorded
  <2>2. node \in Node /\ node.type = canvas.nodes[selected].type
    BY <1>0, <2>1, NodeKept, NewPositionType
  <2> HIDE DEF node
  <2> QED
    BY <1>6, <2>1, <2>2
<1>10. ASSUME NEW n \in NodeIds, NEW port \in Ports, Connect(n, port)
       PROVE  \E later \in Kinds : Fitting(kind) \subseteq Fitting(later)' /\ canvas' \in Fitting(later)' /\ Drawn(later)'
  <2> DEFINE e == NewEdge(n, port)
             more == [canvas EXCEPT !.edges = @ \cup {e}]
  <2>1. /\ connecting # None /\ n \in Ids(canvas) /\ port \in InPorts(canvas.nodes[n].type)
        /\ canvas' = more /\ connecting' = None /\ nextId' = nextId
        /\ stray' = (stray \/ connecting.node \notin Ids(canvas))
    BY <1>10 DEF Connect, Recorded
  <2>2. /\ connecting.node \in NodeIds /\ connecting.port \in Ports
        /\ connecting.node < nextId /\ connecting.port \in OutPorts(kind[connecting.node])
    BY <2>1 DEF Drawn, Typed, TypeOK
  <2>3. /\ e \in Edge /\ e.source = connecting.node /\ e.sourceHandle = connecting.port
        /\ e.target = n /\ e.targetHandle = port
    BY <2>2 DEF NewEdge, Edge
  <2> HIDE DEF e
  <2>4. more \in Graphs /\ Fits(more, kind, nextId) /\ (e.source \in Ids(canvas) /\ Joined(canvas) => Joined(more))
    BY <1>0, <2>1, <2>2, <2>3, EdgeDrawnFits
  <2> HIDE DEF more
  <2>5. ~stray' => ~stray /\ e.source \in Ids(canvas)
    BY <2>1, <2>3, Zenon
  <2>6. canvas' \in Fitting(kind)'
    BY <1>0, <2>1, <2>4, <2>5 DEF Fitting
  <2>7. stray => stray'
    BY <2>1, Zenon
  <2> QED
    BY <1>3, <2>1, <2>6, <2>7
<1>11. ASSUME NEW e \in canvas.edges, DeleteEdge(e)
       PROVE  \E later \in Kinds : Fitting(kind) \subseteq Fitting(later)' /\ canvas' \in Fitting(later)' /\ Drawn(later)'
  <2> DEFINE less == [canvas EXCEPT !.edges = @ \ {e}]
  <2>1. canvas' = less /\ UNCHANGED <<nextId, connecting, stray>>
    BY <1>11 DEF DeleteEdge, Recorded
  <2>2. less \in Graphs /\ Fits(less, kind, nextId) /\ (Joined(canvas) => Joined(less))
    BY <1>0, EdgeDeletedFits
  <2> HIDE DEF less
  <2>3. canvas' \in Fitting(kind)
    BY <1>0, <2>1, <2>2 DEF Fitting
  <2> QED
    BY <1>3, <2>1, <2>3, FittingStays
<1> QED
  BY <1>1, <1>2, <1>4, <1>5, <1>7, <1>8, <1>9, <1>10, <1>11 DEF EditStep

\* Loading a graph and drawing from one that fits.
LEMMA ResolvedHeld ==
    ASSUME NEW S, NoGraph \in S, HoldsOnly(S)
    PROVE  Resolved \in S
<1>1. local # None => Resolved = local /\ local \in S
  BY DEF Resolved, HoldsOnly
<1>2. local = None /\ entry # None => Resolved = entry /\ entry \in S
  BY DEF Resolved, HoldsOnly
<1>3. local = None /\ entry = None /\ server.graph # None => Resolved = server.graph /\ server.graph \in S
  BY DEF Resolved, HoldsOnly
<1>4. local = None /\ entry = None /\ server.graph = None => Resolved = NoGraph
  BY DEF Resolved
<1> QED
  BY <1>1, <1>2, <1>3, <1>4

LEMMA ListedType ==
    ASSUME TypeOK, ResourcesFetched
    PROVE  listed' \in [{"agent", "eval"} -> Seq(Resources)]
<1>1. PICK known \in SUBSET {"agent", "eval"} :
          listed' = [t \in {"agent", "eval"} |-> IF t \in known THEN Catalogue[t] ELSE <<>>]
  BY DEF ResourcesFetched
<1>2. \A t \in {"agent", "eval"} : Catalogue[t] \in Seq(Resources)
  BY EditorAssumption
<1> QED
  BY <1>1, <1>2, EmptySeq

LEMMA OtherStepFits ==
    ASSUME Typed, NEW kind \in Kinds, HoldsOnly(Fitting(kind)), Drawn(kind),
           VisitStep \/ SaveStep \/ QuietStep \/ OtherSaves
    PROVE  Fitting(kind) \subseteq Fitting(kind)' /\ canvas' \in Fitting(kind) /\ Drawn(kind)'
<1>0. /\ canvas \in Fitting(kind) /\ canvas \in Graphs /\ Fits(canvas, kind, nextId) /\ (~stray => Joined(canvas))
  BY DEF HoldsOnly, Fitting
<1>1. UNCHANGED <<nextId, stray>>
  BY DEF VisitStep, Open, Close, WorkflowFetched, FetchFailed, ResourcesFetched, SaveStep, SaveDraft, ReadEtag, Put,
         PutFails, SaveAnswered, QuietStep, DropConnection, Select, StartConnection, OtherSaves, vars, history_
<1>2. CASE VisitStep
  <2>1. connecting' \in {connecting, None}
    BY <1>2 DEF VisitStep, Open, Close, WorkflowFetched, FetchFailed, ResourcesFetched
  <2>2. ASSUME Open \/ FetchFailed PROVE canvas' \in Fitting(kind)
    BY <1>0, <2>2 DEF Open, FetchFailed, historyVars
  <2>3. ASSUME Close PROVE canvas' \in Fitting(kind)
    BY <2>3, NoGraphFits DEF Close, Unmount
  <2>4. ASSUME WorkflowFetched PROVE canvas' \in Fitting(kind)
    <3>1. Resolved \in Fitting(kind)
      BY ResolvedHeld, NoGraphFits
    <3> QED
      BY <2>4, <3>1 DEF WorkflowFetched, Unrecorded
  <2>5. ASSUME ResourcesFetched PROVE canvas' \in Fitting(kind)
    <3>1. canvas' = AutoBind(canvas, listed')
      BY <2>5 DEF ResourcesFetched, Unrecorded
    <3>2. PICK now : now = listed'
      OBVIOUS
    <3>3. now \in [{"agent", "eval"} -> Seq(Resources)]
      BY <2>5, <3>2, ListedType DEF Typed
    <3>4. /\ AutoBind(canvas, now) \in Graphs /\ Fits(AutoBind(canvas, now), kind, nextId)
          /\ Joined(canvas) => Joined(AutoBind(canvas, now))
      BY <1>0, <3>3, AutoBindIsGraph, AutoBindFits
    <3> QED
      BY <1>0, <3>1, <3>2, <3>4 DEF Fitting
  <2>6. canvas' \in Fitting(kind)
    BY <1>2, <2>2, <2>3, <2>4, <2>5 DEF VisitStep
  <2>7. Drawn(kind)'
    BY <1>1, <2>1 DEF Drawn
  <2> QED
    BY <1>1, <2>6, <2>7, FittingStays
<1>3. CASE SaveStep \/ OtherSaves
  <2>1. UNCHANGED <<canvas, connecting>>
    BY <1>3 DEF SaveStep, SaveDraft, ReadEtag, Put, PutFails, SaveAnswered, OtherSaves, historyVars
  <2> QED
    BY <1>0, <1>1, <2>1, FittingStays DEF Drawn
<1>4. CASE QuietStep
  <2>1. UNCHANGED canvas
    BY <1>4 DEF QuietStep, DropConnection, Select, StartConnection, vars, historyVars
  <2>2. Drawn(kind)'
    <3>1. CASE connecting' \in {connecting, None}
      BY <1>1, <3>1 DEF Drawn
    <3>2. ASSUME NEW n \in NodeIds, NEW port \in Ports, StartConnection(n, port)
          PROVE  Drawn(kind)'
      <4>1. /\ n \in Ids(canvas) /\ port \in OutPorts(canvas.nodes[n].type)
            /\ connecting' = [node |-> n, port |-> port]
        BY <3>2 DEF StartConnection
      <4>2. n < nextId /\ canvas.nodes[n].type = kind[n]
        BY <1>0, <4>1 DEF Fits
      <4> QED
        BY <1>1, <4>1, <4>2 DEF Drawn
    <3> QED
      BY <1>4, <3>1, <3>2 DEF QuietStep, DropConnection, Select, vars
  <2> QED
    BY <1>0, <1>1, <2>1, <2>2, FittingStays
<1> QED
  BY <1>2, <1>3, <1>4

\* Some types fit every graph the page holds, after each step.
LEMMA AllFitStep ==
    ASSUME EInv, [Next]_vars
    PROVE  AllFit' /\ canvas' \in Graphs
<1>1. PICK kind \in Kinds : HoldsOnly(Fitting(kind)) /\ Drawn(kind)
  BY DEF EInv, AllFit
<1>2. Typed
  BY DEF EInv
<1>3. PICK later \in Kinds : Fitting(kind) \subseteq Fitting(later)' /\ canvas' \in Fitting(later)' /\ Drawn(later)'
  <2>1. CASE EditStep
    BY <1>1, <1>2, <2>1, EditFits
  <2>2. CASE ~EditStep
    BY <1>1, <1>2, <2>2, StepKinds, OtherStepFits
  <2> QED
    BY <2>1, <2>2
<1>4. PICK S : S = Fitting(later)'
  OBVIOUS
<1>5. Fitting(kind) \subseteq S /\ canvas' \in S
  BY <1>3, <1>4
<1>6. HoldsOnly(S)
  BY <1>1, <1>5, SeqGrows DEF HoldsOnly
<1>7. HoldsOnly(S)'
  BY <1>2, <1>5, <1>6, NoGraphFits, HoldsOnlyStep DEF Typed
<1>8. HoldsOnly(Fitting(later))'
  BY <1>4, <1>7 DEF HoldsOnly
<1>9. canvas' \in Graphs
  BY <1>3 DEF Fitting
<1> QED
  BY <1>3, <1>8, <1>9 DEF AllFit
-----------------------------------------------------------------------------
\* The history moves by its own steps.
LEMMA PageMovesHistory ==
    ASSUME [Next]_vars, canvas' \in Graphs
    PROVE  [HistoryNext]_historyVars
<1>1. CASE EditStep
  <2>1. Recorded(canvas') \/ Unrecorded(canvas') \/ Undo \/ Redo
    BY <1>1, EditIsEdited
  <2> QED
    BY <2>1 DEF HistoryNext
<1>2. CASE VisitStep
  <2>1. (Unrecorded(canvas') \/ Unmount) \/ UNCHANGED historyVars
    BY <1>2 DEF VisitStep, Open, Close, WorkflowFetched, FetchFailed, ResourcesFetched, Unrecorded
  <2> QED
    BY <2>1 DEF HistoryNext
<1>3. CASE SaveStep \/ QuietStep \/ OtherSaves
  BY <1>3 DEF SaveStep, SaveDraft, ReadEtag, Put, PutFails, SaveAnswered, QuietStep, DropConnection, Select,
              StartConnection, OtherSaves, vars
<1> QED
  BY <1>1, <1>2, <1>3, StepKinds

\* What an edit does to the selection, the ids and the connection being drawn.
LEMMA EditTypes ==
    ASSUME Typed, EditStep
    PROVE  /\ selected' \in NodeIds \cup {None} /\ nextId' \in Nat /\ nextId' # 0
           /\ connecting' \in {connecting, None} /\ stray' \in BOOLEAN
<1>1. nextId \in Nat /\ nextId # 0 /\ selected \in NodeIds \cup {None} /\ stray \in BOOLEAN
  BY DEF Typed, TypeOK
<1>2. nextId <= budget.nodes => nextId \in NodeIds
  <2>1. budget.nodes \in NodeIds
    BY EditorAssumption DEF Typed
  <2> QED
    BY <1>1, <2>1, GraphAssumption DEF NodeIds
<1>3. /\ selected' \in {selected, None} \cup NodeIds \/ (selected' = nextId /\ nextId <= budget.nodes)
      /\ nextId' \in {nextId, nextId + 1} /\ connecting' \in {connecting, None}
  BY DEF EditStep, AddNode, Duplicate, EditField, UndoEdit, RedoEdit, DeleteNode, MoveNode, ChooseResource,
         Connect, DeleteEdge
<1>4. stray' = stray \/ stray' = (stray \/ connecting.node \notin Ids(canvas))
  BY Zenon DEF EditStep, AddNode, Duplicate, EditField, UndoEdit, RedoEdit, DeleteNode, MoveNode, ChooseResource,
         Connect, DeleteEdge
<1>5. stray' \in BOOLEAN
  BY <1>1, <1>4
<1> QED
  BY <1>1, <1>2, <1>3, <1>5

\* The type invariant but for the graphs the page holds.
PageTyped ==
    /\ page \in {"closed", "loading", "resources", "ready", "error"}
    /\ selected \in NodeIds \cup {None}
    /\ connecting \in {None} \cup [node: NodeIds, port: Ports]
    /\ listed \in [{"agent", "eval"} -> Seq(Resources)]
FlagsTyped ==
    /\ isDirty \in BOOLEAN /\ isSaving \in BOOLEAN /\ mayEdit \in BOOLEAN /\ stray \in BOOLEAN
    /\ saveStatus \in {"saved", "dirty", "saving"}
DataTyped ==
    /\ work \in Graphs \cup {None} /\ acked \in Graphs \cup {None} /\ server.etag \in Nat
    /\ saves \subseteq Save
    /\ mounts \in Nat /\ nextId \in Nat /\ edits \in Nat /\ started \in Nat
    /\ holes \subseteq {"failed load", "written during a save"}
RestTyped == PageTyped /\ FlagsTyped /\ DataTyped

LEMMA RestTypedStep ==
    ASSUME Typed, [Next]_vars, canvas' \in Graphs
    PROVE  RestTyped' /\ nextId' # 0 /\ budget' \in Budgets
<1>0. RestTyped /\ nextId # 0 /\ budget \in Budgets /\ TypeOK /\ canvas \in Graphs /\ local \in Graphs \cup {None}
  BY DEF Typed, TypeOK, RestTyped, PageTyped, FlagsTyped, DataTyped
<1>counts. /\ \A v \in Nat : v + 1 \in Nat
      /\ mounts \in Nat /\ edits \in Nat /\ started \in Nat /\ server.etag \in Nat
  <2>1. \A v \in Nat : v + 1 \in Nat
    OBVIOUS
  <2> QED
    BY <1>0, <2>1 DEF RestTyped, DataTyped
<1>1. CASE EditStep
  <2>1. /\ Edited
        /\ selected' \in NodeIds \cup {None} /\ nextId' \in Nat /\ nextId' # 0
        /\ connecting' \in {connecting, None} /\ stray' \in BOOLEAN
    BY <1>1, EditIsEdited, EditTypes
  <2>2. /\ isDirty' = TRUE /\ saveStatus' = "dirty" /\ edits' = edits + 1 /\ work' = canvas'
        /\ holes' \in {holes, holes \cup {"written during a save"}}
        /\ UNCHANGED <<isSaving, page, mayEdit, listed, acked, server, saves, mounts, started, budget>>
    BY <2>1 DEF Edited, HolesIfSaving, visit
  <2>3. PageTyped'
    BY <1>0, <2>1, <2>2 DEF RestTyped, PageTyped
  <2>4. FlagsTyped'
    BY <1>0, <2>1, <2>2 DEF RestTyped, FlagsTyped
  <2>5. DataTyped'
    BY <1>0, <1>counts, <2>1, <2>2 DEF RestTyped, DataTyped
  <2> QED
    BY <1>0, <2>1, <2>2, <2>3, <2>4, <2>5 DEF RestTyped
<1>2. CASE Open
  <2>1. PageTyped'
    BY <1>0, <1>2 DEF Open, status, history_, RestTyped, PageTyped
  <2>2. FlagsTyped'
    BY <1>0, <1>2 DEF Open, status, history_, RestTyped, FlagsTyped
  <2>3. DataTyped'
    BY <1>0, <1>counts, <1>2 DEF Open, status, history_, RestTyped, DataTyped
  <2> QED
    BY <1>0, <1>2, <2>1, <2>2, <2>3 DEF Open, RestTyped
<1>3. CASE Close
  <2>1. listed' \in [{"agent", "eval"} -> Seq(Resources)]
    BY <1>3, EmptySeq DEF Close, Unlisted
  <2> QED
    BY <1>0, <1>3, <2>1 DEF Close, RestTyped, PageTyped, FlagsTyped, DataTyped, history_
<1>4. CASE WorkflowFetched
  BY <1>0, <1>4 DEF WorkflowFetched, RestTyped, PageTyped, FlagsTyped, DataTyped, status, history_
<1>5. CASE FetchFailed
  BY <1>0, <1>5 DEF FetchFailed, RestTyped, PageTyped, FlagsTyped, DataTyped, status
<1>6. CASE ResourcesFetched
  <2>1. listed' \in [{"agent", "eval"} -> Seq(Resources)]
    BY <1>0, <1>6, ListedType
  <2>2. work' \in {work, canvas'} /\ holes' \in {holes, holes \cup {"written during a save"}}
    BY <1>6 DEF ResourcesFetched, HolesIfSaving
  <2>3. /\ page' = "ready" /\ isDirty' = FALSE /\ saveStatus' = "saved"
        /\ UNCHANGED <<isSaving, mayEdit, acked, stray, selected, connecting, server, saves, mounts, nextId, edits,
                       started, budget>>
    BY <1>6 DEF ResourcesFetched
  <2> QED
    BY <1>0, <2>1, <2>2, <2>3 DEF RestTyped, PageTyped, FlagsTyped, DataTyped
<1>7. CASE SaveDraft
  <2>1. [graph |-> canvas, etag |-> None, step |-> "etag", mount |-> mounts, tries |-> 0] \in Save
    BY <1>0 DEF RestTyped, PageTyped, FlagsTyped, DataTyped, Save
  <2>2. /\ isSaving' = TRUE /\ saveStatus' = "saving" /\ started' = started + 1
        /\ saves' = saves \cup {[graph |-> canvas, etag |-> None, step |-> "etag", mount |-> mounts, tries |-> 0]}
        /\ UNCHANGED <<page, mayEdit, listed, work, acked, holes, stray, selected, connecting, isDirty, server,
                       mounts, nextId, edits, budget>>
    BY <1>7 DEF SaveDraft, visit, history_
  <2>3. PageTyped'
    BY <1>0, <2>1, <2>2 DEF RestTyped, PageTyped
  <2>4. FlagsTyped'
    BY <1>0, <2>1, <2>2 DEF RestTyped, FlagsTyped
  <2>5. DataTyped'
    BY <1>0, <1>counts, <2>1, <2>2 DEF RestTyped, DataTyped
  <2> QED
    BY <1>0, <2>1, <2>2, <2>3, <2>4, <2>5 DEF RestTyped
<1>8. ASSUME NEW s \in saves, ReadEtag(s) \/ Put(s) \/ PutFails(s) \/ SaveAnswered(s)
      PROVE  RestTyped' /\ nextId' # 0 /\ budget' \in Budgets
  <2>1. saves' \subseteq Save
    BY <1>0, <1>8, SaveMoves DEF RestTyped, PageTyped, FlagsTyped, DataTyped
  <2>2. s \in Save /\ s.graph \in Graphs
    BY <1>0 DEF RestTyped, PageTyped, FlagsTyped, DataTyped, Save
  <2>3. /\ acked' \in {acked, s.graph} /\ server'.etag \in {server.etag, server.etag + 1}
        /\ UNCHANGED <<page, mayEdit, listed, work, holes, stray, selected, connecting, mounts, nextId, edits,
                       started, budget>>
    BY <1>8 DEF ReadEtag, Put, PutFails, SaveAnswered, visit, history_
  <2>4. UNCHANGED status \/ (isSaving' = FALSE /\ saveStatus' \in {"saved", "dirty"} /\ isDirty' = (isDirty /\ s.step = "failed"))
    BY <1>8, Zenon DEF ReadEtag, Put, PutFails, SaveAnswered
  <2>5. isDirty' \in BOOLEAN
    BY <1>0, <2>4 DEF RestTyped, PageTyped, FlagsTyped, DataTyped, status
  <2>6. isSaving' \in BOOLEAN /\ saveStatus' \in {"saved", "dirty", "saving"}
    BY <1>0, <2>4 DEF RestTyped, PageTyped, FlagsTyped, DataTyped, status
  <2>7. PageTyped'
    BY <1>0, <2>1, <2>2, <2>3, <2>5, <2>6 DEF RestTyped, PageTyped
  <2>8. FlagsTyped'
    BY <1>0, <2>1, <2>2, <2>3, <2>5, <2>6 DEF RestTyped, FlagsTyped
  <2>9. DataTyped'
    BY <1>0, <1>counts, <2>1, <2>2, <2>3, <2>5, <2>6 DEF RestTyped, DataTyped
  <2> QED
    BY <1>0, <2>1, <2>2, <2>3, <2>5, <2>6, <2>7, <2>8, <2>9 DEF RestTyped
<1>9. CASE QuietStep
  <2>1. selected' \in NodeIds \cup {None}
    BY <1>0, <1>9 DEF QuietStep, DropConnection, Select, StartConnection, vars, RestTyped, PageTyped
  <2>2. connecting' \in {None} \cup [node: NodeIds, port: Ports]
    BY <1>0, <1>9 DEF QuietStep, DropConnection, Select, StartConnection, vars, RestTyped, PageTyped
  <2>3. UNCHANGED <<visit, history_, status, server, saves, mounts, nextId, edits, started, budget>>
    BY <1>9, Zenon DEF QuietStep, DropConnection, Select, StartConnection, vars
  <2>4. PageTyped'
    BY <1>0, <2>1, <2>2, <2>3 DEF RestTyped, PageTyped, visit
  <2>5. FlagsTyped'
    BY <1>0, <2>3 DEF RestTyped, FlagsTyped, visit, history_, status
  <2>6. DataTyped'
    BY <1>0, <2>3 DEF RestTyped, DataTyped, history_
  <2> QED
    BY <1>0, <2>3, <2>4, <2>5, <2>6 DEF RestTyped
<1>10. CASE OtherSaves
  <2>1. PageTyped'
    BY <1>0, <1>10 DEF OtherSaves, visit, history_, status, RestTyped, PageTyped
  <2>2. FlagsTyped'
    BY <1>0, <1>10 DEF OtherSaves, visit, history_, status, RestTyped, FlagsTyped
  <2>3. DataTyped'
    BY <1>0, <1>counts, <1>10 DEF OtherSaves, visit, history_, status, RestTyped, DataTyped
  <2> QED
    BY <1>0, <1>10, <2>1, <2>2, <2>3 DEF OtherSaves, RestTyped
<1> QED
  BY <1>1, <1>2, <1>3, <1>4, <1>5, <1>6, <1>7, <1>8, <1>9, <1>10, StepKinds DEF VisitStep, SaveStep

LEMMA EInvStep ==
    ASSUME EInv, [Next]_vars
    PROVE  EInv'
<1>1. AllFit' /\ canvas' \in Graphs
  BY AllFitStep
<1>2. HistoryOK'
  BY <1>1, PageMovesHistory, HistoryOKStep DEF EInv, Typed
<1>3. RestTyped' /\ nextId' # 0 /\ budget' \in Budgets
  BY <1>1, RestTypedStep DEF EInv
<1>4. ({entry, local, server.graph} \subseteq Graphs \cup {None})'
  BY <1>1 DEF AllFit, HoldsOnly, Fitting
<1>5. TypeOK'
  BY <1>2, <1>3, <1>4 DEF TypeOK, RestTyped, PageTyped, FlagsTyped, DataTyped, HistoryOK
<1> QED
  BY <1>1, <1>2, <1>3, <1>5 DEF EInv, Typed

LEMMA EInvInit ==
    ASSUME Init
    PROVE  EInv
<1>1. budget \in Budgets /\ budget.template \in Templates
  BY EditorAssumption DEF Init
<1>2. PICK n \in 0 .. 5 : Sound(StarterGraph(budget.template), n)
  BY <1>1, StarterIsSound
<1>3. /\ nextId = n + 1 /\ StarterGraph(budget.template) \in Graphs /\ Joined(StarterGraph(budget.template))
      /\ \E kind \in Kinds : Fits(StarterGraph(budget.template), kind, n + 1)
  BY <1>2 DEF Init, Sound
<1>4. PICK kind \in Kinds : Fits(StarterGraph(budget.template), kind, nextId)
  BY <1>3
<1>5. StarterGraph(budget.template) \in Fitting(kind)
  BY <1>3, <1>4 DEF Fitting
<1>6. AllFit
  <2>1. entry \in {None, StarterGraph(budget.template)} /\ local = None /\ server.graph = None /\ saves = {}
        /\ canvas = NoGraph /\ history = <<>> /\ connecting = None
    BY DEF Init, HistoryInit
  <2>2. <<>> \in Seq(Fitting(kind))
    BY EmptySeq
  <2> QED
    BY <1>5, <2>1, <2>2, NoGraphFits DEF AllFit, HoldsOnly, Drawn
<1>7. HistoryOK
  BY NoGraphIsGraph, HistoryAssumption, EmptySeq DEF Init, HistoryInit, HistoryOK
<1>8. TypeOK
  <2>1. listed \in [{"agent", "eval"} -> Seq(Resources)]
    BY EmptySeq DEF Init, Unlisted
  <2>2. nextId \in Nat /\ entry \in Graphs \cup {None}
    BY <1>3 DEF Init
  <2>3. /\ page = "closed" /\ selected = None /\ connecting = None
        /\ isDirty = FALSE /\ saveStatus = "saved" /\ isSaving = FALSE /\ mayEdit = FALSE
        /\ local = None /\ server = [graph |-> None, etag |-> 0] /\ saves = {}
        /\ mounts = 0 /\ edits = 0 /\ started = 0
        /\ work = None /\ acked = None /\ holes = {} /\ stray = FALSE
    BY DEF Init
  <2>4. 0 \in Nat
    OBVIOUS
  <2> QED
    BY <1>7, <2>1, <2>2, <2>3, <2>4 DEF TypeOK, HistoryOK
<1> QED
  BY <1>1, <1>3, <1>6, <1>7, <1>8 DEF EInv, Typed

LEMMA EInvAlways == Spec => []EInv
BY EInvInit, EInvStep, PTL DEF Spec

\* Every variable of the editor keeps its type.
THEOREM TypeCorrect == Spec => []TypeOK
<1>1. EInv => TypeOK
  BY DEF EInv, Typed
<1> QED
  BY <1>1, EInvAlways, PTL

\* No edge of the canvas or of what undo and redo bring back names a node that
\* is gone or a port its type does not have, for any palette, catalogue, drags
\* and number of edits, unless a connection was finished from a node deleted
\* while it was being drawn (handleDeleteNode, handleEndConnection).
THEOREM EdgesStayAttached == Spec => []NoDanglingEdge
<1>1. EInv => NoDanglingEdge
  <2> SUFFICES ASSUME EInv, ~stray, NEW g \in {canvas} \cup {history[i] : i \in DOMAIN history} PROVE Attached(g)
    BY DEF NoDanglingEdge
  <2>1. PICK kind \in Kinds : canvas \in Fitting(kind) /\ history \in Seq(Fitting(kind))
    BY DEF EInv, AllFit, HoldsOnly
  <2>2. g \in Fitting(kind)
    BY <2>1, ElementOfSeq
  <2> QED
    BY <2>2, JoinedIsAttached DEF Fitting
<1> QED
  BY <1>1, EInvAlways, PTL

-----------------------------------------------------------------------------
(* Every graph the page holds is free of cycles, the drafts in localStorage *)
(* and on the server and the saves under way included.                      *)
AllAcyclic == HoldsOnly(AcyclicGraphs)

\* Each edit shows a graph without a cycle: only Connect adds an edge, and
\* createsCycle has walked the same edges.
LEMMA EditIsAcyclic ==
    ASSUME Typed, AllAcyclic, canvas' \in Graphs, EditStep
    PROVE  canvas' \in AcyclicGraphs
<1>0. canvas \in AcyclicGraphs /\ canvas \in Graphs /\ history \in Seq(AcyclicGraphs)
  BY DEF AllAcyclic, HoldsOnly, AcyclicGraphs
<1>1. ASSUME NEW id, NEW node, canvas' = With(canvas, id, node)
      PROVE  canvas' \in AcyclicGraphs
  <2>1. canvas'.edges = canvas.edges
    BY <1>0, <1>1 DEF With, Graphs
  <2> QED
    BY <1>0, <2>1, SameEdgesAcyclic
<1>2. CASE Duplicate \/ EditField
  BY <1>1, <1>2 DEF Duplicate, EditField, Recorded, Unrecorded
<1>3. ASSUME NEW type \in PaletteTypes, AddNode(type) PROVE canvas' \in AcyclicGraphs
  BY <1>1, <1>3 DEF AddNode, Recorded
<1>4. ASSUME NEW n \in NodeIds, NEW pos \in DragTo, MoveNode(n, pos) PROVE canvas' \in AcyclicGraphs
  BY <1>1, <1>4 DEF MoveNode, Unrecorded
<1>5. ASSUME NEW r \in Resources \cup {NoLink}, ChooseResource(r) PROVE canvas' \in AcyclicGraphs
  BY <1>1, <1>5 DEF ChooseResource, Unrecorded
<1>6. CASE UndoEdit \/ RedoEdit
  <2>1. CASE Undo
    <3>1. historyIndex \in 1 .. Len(history)
      BY <2>1 DEF Undo, Typed, HistoryOK
    <3> QED
      BY <1>0, <2>1, <3>1, ElementOfSeq DEF Undo
  <2>2. CASE Redo
    <3>1. historyIndex + 2 \in 1 .. Len(history)
      BY <2>2 DEF Redo, Typed, HistoryOK
    <3> QED
      BY <1>0, <2>2, <3>1, ElementOfSeq DEF Redo
  <2> QED
    BY <1>6, <2>1, <2>2 DEF UndoEdit, RedoEdit
<1>7. ASSUME NEW n \in NodeIds \cup {None}, DeleteNode(n) PROVE canvas' \in AcyclicGraphs
  <2>1. canvas'.edges \subseteq canvas.edges
    BY <1>7 DEF DeleteNode, Recorded, Without
  <2> QED
    BY <1>0, <2>1, SameEdgesAcyclic
<1>8. ASSUME NEW e \in canvas.edges, DeleteEdge(e) PROVE canvas' \in AcyclicGraphs
  <2>1. canvas'.edges \subseteq canvas.edges
    BY <1>0, <1>8 DEF DeleteEdge, Recorded, Graphs
  <2> QED
    BY <1>0, <2>1, SameEdgesAcyclic
<1>9. ASSUME NEW n \in NodeIds, NEW port \in Ports, Connect(n, port) PROVE canvas' \in AcyclicGraphs
  <2>1. PICK e : e = NewEdge(n, port)
    OBVIOUS
  <2>2. e.source = connecting.node /\ e.target = n
    BY <2>1 DEF NewEdge
  <2>3. ~CreatesCycle(canvas.edges, e.source, e.target)
    BY <1>9, <2>2 DEF Connect, Accepted
  <2>4. canvas'.edges = canvas.edges \cup {e}
    BY <1>0, <1>9, <2>1 DEF Connect, Recorded, Graphs
  <2>5. Apart(canvas'.edges)
    BY <1>0, <2>3, <2>4, ApartIsAcyclic, EdgeAddedApart DEF AcyclicGraphs
  <2> QED
    BY <2>5, ApartIsAcyclic DEF AcyclicGraphs
<1> QED
  BY <1>2, <1>3, <1>4, <1>5, <1>6, <1>7, <1>8, <1>9 DEF EditStep

\* A page shows a graph it loaded, none, or the one it showed.
LEMMA OtherIsAcyclic ==
    ASSUME Typed, AllAcyclic, canvas' \in Graphs, VisitStep \/ SaveStep \/ QuietStep \/ OtherSaves
    PROVE  canvas' \in AcyclicGraphs
<1>0. canvas \in AcyclicGraphs
  BY DEF AllAcyclic, HoldsOnly
<1>1. CASE WorkflowFetched
  BY <1>1, ResolvedHeld, NoGraphIsAcyclic DEF WorkflowFetched, Unrecorded, AllAcyclic
<1>2. CASE ResourcesFetched
  <2>1. canvas'.edges = canvas.edges
    BY <1>0, <1>2 DEF ResourcesFetched, Unrecorded, AutoBind, AcyclicGraphs, Graphs
  <2> QED
    BY <1>0, <2>1, SameEdgesAcyclic
<1>3. CASE Close
  BY <1>3, NoGraphIsAcyclic DEF Close, Unmount
<1>4. CASE Open \/ FetchFailed \/ SaveStep \/ QuietStep \/ OtherSaves
  BY <1>0, <1>4 DEF Open, FetchFailed, SaveStep, SaveDraft, ReadEtag, Put, PutFails, SaveAnswered, QuietStep,
        DropConnection, Select, StartConnection, OtherSaves, vars, historyVars
<1> QED
  BY <1>1, <1>2, <1>3, <1>4 DEF VisitStep

LEMMA AllAcyclicStep ==
    ASSUME EInv, AllAcyclic, [Next]_vars
    PROVE  AllAcyclic'
<1>1. canvas' \in Graphs /\ Typed
  BY AllFitStep DEF EInv
<1>2. canvas' \in AcyclicGraphs
  BY <1>1, StepKinds, EditIsAcyclic, OtherIsAcyclic
<1>3. PICK S : S = AcyclicGraphs
  OBVIOUS
<1>4. HoldsOnly(S)'
  BY <1>1, <1>2, <1>3, NoGraphIsAcyclic, HoldsOnlyStep DEF AllAcyclic, Typed
<1> QED
  BY <1>3, <1>4 DEF AllAcyclic, HoldsOnly

LEMMA AllAcyclicInit ==
    ASSUME Init
    PROVE  AllAcyclic
<1>1. /\ canvas = NoGraph /\ history = <<>> /\ local = None /\ server.graph = None /\ saves = {}
      /\ entry \in {None, StarterGraph(budget.template)} /\ budget.template \in Templates
  BY EditorAssumption DEF Init, HistoryInit
<1>2. StarterGraph(budget.template) \in Graphs
  BY <1>1, StarterIsSound DEF Sound
<1>3. StarterGraph(budget.template) \in AcyclicGraphs
  BY <1>1, <1>2, StarterIsAcyclic
<1>4. <<>> \in Seq(AcyclicGraphs)
  BY EmptySeq
<1> QED
  BY <1>1, <1>3, <1>4, NoGraphIsAcyclic DEF AllAcyclic, HoldsOnly

\* However edits, undo, redo, loads, saves and reloads interleave, the canvas
\* and what undo and redo bring back have no cycle, for any number of nodes
\* (createsCycle and handleEndConnection of WorkflowCanvas.tsx).
THEOREM NeverCyclic == Spec => []AlwaysAcyclic
<1>1. AllAcyclic => AlwaysAcyclic
  <2> SUFFICES ASSUME AllAcyclic, NEW g \in {canvas} \cup {history[i] : i \in DOMAIN history} PROVE Acyclic(g)
    BY DEF AlwaysAcyclic
  <2>1. g \in AcyclicGraphs
    BY ElementOfSeq DEF AllAcyclic, HoldsOnly
  <2> QED
    BY <2>1 DEF AcyclicGraphs
<1> QED
  BY <1>1, AllAcyclicInit, AllAcyclicStep, EInvAlways, PTL DEF Spec

\* With room for twenty nodes, a node added from the palette covers no card,
\* wherever the others were dragged: some slot of the sixty is free.  Twenty
\* cards can block them all, and a twenty-first takes the corner regardless
\* (the slot search of handleAddNode).
THEOREM PaletteNodesApart ==
    ASSUME MaxNode <= FarSlots
    PROVE  Spec => NewNodesApart
<1>1. ASSUME EInv, [Next]_vars, nextId' # nextId, NEW type \in PaletteTypes, AddNode(type), NEW i \in Ids(canvas)
      PROVE  ~Overlap(canvas'.nodes[nextId].pos, canvas.nodes[i].pos)
  <2>1. canvas \in Graphs /\ \A j \in Ids(canvas) : j < nextId
    BY <1>1 DEF EInv, AllFit, HoldsOnly, Fitting, Fits
  <2>2. nextId \in NodeIds /\ MaxNode \in Nat
    <3>1. budget.nodes \in NodeIds /\ nextId <= budget.nodes
      BY <1>1, EditorAssumption DEF EInv, Typed, AddNode
    <3>2. nextId \in Nat /\ nextId # 0
      BY <1>1 DEF EInv, Typed, TypeOK
    <3> QED
      BY <3>1, <3>2, GraphAssumption DEF NodeIds
  <2>3. nextId \in 0 .. FarSlots /\ Ids(canvas) \subseteq 1 .. nextId - 1
    <3>1. Ids(canvas) \subseteq NodeIds
      BY DEF Ids
    <3> QED
      BY <2>1, <2>2, <3>1 DEF NodeIds, FarSlots
  <2>4. ~Overlap(NewPosition(canvas), canvas.nodes[i].pos)
    BY <1>1, <2>1, <2>3, FewCardsLeaveASlot
  <2>5. canvas'.nodes[nextId].pos = NewPosition(canvas)
    <3>1. PICK link : canvas' = With(canvas, nextId, [type |-> type, pos |-> NewPosition(canvas), text |-> 0, link |-> link])
      BY <1>1 DEF AddNode, Recorded
    <3> QED
      BY <2>1, <2>2, <3>1 DEF With, Graphs
  <2> QED
    BY <2>4, <2>5
<1>2. EInv /\ [Next]_vars =>
        [nextId' # nextId /\ (\E type \in PaletteTypes : AddNode(type)) =>
            \A i \in Ids(canvas) : ~Overlap(canvas'.nodes[nextId].pos, canvas.nodes[i].pos)]_vars
  BY <1>1
<1> QED
  BY <1>2, EInvAlways, PTL DEF Spec, NewNodesApart

\* The undo history of the page is a linear undo, whatever the page does.
THEOREM EditorUndoIsLinear == Spec => LinearUndoSpec
<1>1. EInv /\ [Next]_vars => [HistoryNext]_historyVars
  BY AllFitStep, PageMovesHistory
<1>2. Spec => HistorySpec
  BY <1>1, EInvAlways, PTL DEF Spec, Init, HistorySpec
<1> QED
  BY <1>2, HistoryIsLinear
-----------------------------------------------------------------------------
\* Why work survives: a save under way carries the work and can clear no other
\* draft, and a page with edits holds in localStorage what it shows.
WorkIsKept == work # None => work \in {local, acked}
SavesCarryWork ==
    saves # {} =>
        /\ \A s \in saves : s.graph = work /\ (s.step = "ok" => acked = work)
        /\ local \in {None, work}
        /\ local = None => acked = work
DirtyIsPersisted ==
    isDirty =>
        /\ page = "ready"
        /\ local = canvas /\ work = canvas
        /\ \A s \in saves : s.mount = mounts
ShownIsKept == page = "ready" => canvas = local \/ (local = None /\ canvas = acked)

NoHole == WorkIsKept /\ SavesCarryWork /\ DirtyIsPersisted /\ ShownIsKept
IInv == holes = {} => NoHole

\* An edit with no save under way.
LEMMA EditedKeepsIInv ==
    ASSUME IInv, Edited
    PROVE  IInv'
<1>1. SUFFICES ASSUME holes' = {} PROVE NoHole'
  BY DEF IInv
<1>2. holes = {} /\ saves = {}
  BY <1>1 DEF Edited, HolesIfSaving
<1>3. saves' = {} /\ local' = canvas' /\ work' = canvas' /\ page' = "ready"
  BY <1>2 DEF Edited, visit
<1> QED
  BY <1>3 DEF NoHole, WorkIsKept, SavesCarryWork, DirtyIsPersisted, ShownIsKept

\* The initial state.
LEMMA InitIInv == Init => IInv
BY DEF Init, IInv, NoHole, WorkIsKept, SavesCarryWork, DirtyIsPersisted, ShownIsKept

\* Steps that leave what the invariant speaks of, or only select and draw.
LEMMA QuietKeepsIInv ==
    ASSUME IInv,
           UNCHANGED <<canvas, page, isDirty, holes, work, acked, local, saves, mounts>>
    PROVE  IInv'
BY DEF IInv, NoHole, WorkIsKept, SavesCarryWork, DirtyIsPersisted, ShownIsKept

\* Opening, loading and leaving the page.
LEMMA VisitKeepsIInv ==
    ASSUME IInv, VisitStep
    PROVE  IInv'
<1>1. SUFFICES ASSUME holes' = {} PROVE NoHole'
  BY DEF IInv
<1>2. holes = {}
  BY <1>1 DEF VisitStep, Open, Close, WorkflowFetched, FetchFailed, ResourcesFetched, history_, HolesIfSaving
<1>3. NoHole
  BY <1>2 DEF IInv
<1>4. CASE Open
  <2>1. ~isDirty /\ UNCHANGED <<canvas, work, acked, local, saves, isDirty>> /\ page' = "loading"
    BY <1>3, <1>4 DEF Open, NoHole, DirtyIsPersisted, historyVars, history_, status
  <2> QED
    BY <1>3, <2>1 DEF NoHole, WorkIsKept, SavesCarryWork, DirtyIsPersisted, ShownIsKept
<1>5. CASE Close
  BY <1>3, <1>5 DEF Close, NoHole, WorkIsKept, SavesCarryWork, DirtyIsPersisted, ShownIsKept, history_
<1>6. CASE WorkflowFetched
  <2>1. ~isDirty /\ UNCHANGED <<work, acked, local, saves, isDirty>> /\ page' = "resources"
    BY <1>3, <1>6 DEF WorkflowFetched, NoHole, DirtyIsPersisted, history_, status
  <2> QED
    BY <1>3, <2>1 DEF NoHole, WorkIsKept, SavesCarryWork, DirtyIsPersisted, ShownIsKept
<1>7. CASE FetchFailed
  <2>1. local \in {None, acked} /\ saves = {}
    BY <1>1, <1>7 DEF FetchFailed
  <2>2. ~isDirty /\ ~isDirty' /\ page' = "error" /\ UNCHANGED <<work, acked, saves>>
    BY <1>3, <1>7 DEF FetchFailed, NoHole, DirtyIsPersisted, status
  <2> QED
    BY <1>3, <2>1, <2>2 DEF NoHole, WorkIsKept, SavesCarryWork, DirtyIsPersisted, ShownIsKept
<1>8. CASE ResourcesFetched
  <2>1. /\ ~isDirty' /\ page' = "ready" /\ local' = canvas' /\ UNCHANGED <<acked, saves>>
        /\ work' = IF local # None /\ work = local THEN canvas' ELSE work
        /\ saves # {} => canvas' = local
    BY <1>1, <1>8 DEF ResourcesFetched, HolesIfSaving
  <2> QED
    BY <1>3, <2>1 DEF NoHole, WorkIsKept, SavesCarryWork, DirtyIsPersisted, ShownIsKept
<1> QED
  BY <1>4, <1>5, <1>6, <1>7, <1>8 DEF VisitStep

\* Saving: what goes out is the work, and only the work's answer clears a draft.
LEMMA SaveKeepsIInv ==
    ASSUME TypeOK, IInv, SaveStep
    PROVE  IInv'
<1>1. SUFFICES ASSUME holes' = {} PROVE NoHole'
  BY DEF IInv
<1>2. holes = {}
  BY <1>1 DEF SaveStep, SaveDraft, ReadEtag, Put, PutFails, SaveAnswered, history_
<1>3. NoHole
  BY <1>2 DEF IInv
<1>4. CASE SaveDraft
  <2>1. /\ page = "ready" /\ isDirty
        /\ UNCHANGED <<canvas, page, isDirty, work, acked, local, mounts>>
        /\ saves' = saves \cup {[graph |-> canvas, etag |-> None, step |-> "etag", mount |-> mounts, tries |-> 0]}
    BY <1>4 DEF SaveDraft, historyVars, visit, history_
  <2>2. local = canvas /\ work = canvas /\ local # None
    BY <1>3, <2>1, EditorAssumption DEF NoHole, DirtyIsPersisted, TypeOK
  <2>3. \A s \in saves' : s \in saves \/ (s.graph = work /\ s.step = "etag" /\ s.mount = mounts)
    BY <2>1, <2>2
  <2>4. SavesCarryWork'
    BY <1>3, <2>1, <2>2, <2>3 DEF NoHole, SavesCarryWork
  <2>5. (WorkIsKept /\ DirtyIsPersisted /\ ShownIsKept)'
    BY <1>3, <2>1, <2>3 DEF NoHole, WorkIsKept, DirtyIsPersisted, ShownIsKept
  <2> QED
    BY <2>4, <2>5 DEF NoHole
<1>5. ASSUME NEW s \in saves, ReadEtag(s) \/ Put(s) \/ PutFails(s) PROVE NoHole'
  <2>1. UNCHANGED <<canvas, page, isDirty, work, local, mounts>> /\ acked' \in {acked, s.graph}
    BY <1>5 DEF ReadEtag, Put, PutFails, historyVars, status, visit, history_
  <2>2. s.graph = work
    BY <1>3 DEF NoHole, SavesCarryWork
  <2>3. \A t \in saves' :
           \/ t \in saves
           \/ t.graph = s.graph /\ t.mount = s.mount /\ (t.step = "ok" => acked' = s.graph)
    BY <1>5, SaveMoves
  <2>4. WorkIsKept'
    BY <1>3, <2>1, <2>2 DEF NoHole, WorkIsKept
  <2>5. SavesCarryWork'
    BY <1>3, <2>1, <2>2, <2>3 DEF NoHole, SavesCarryWork
  <2>6. DirtyIsPersisted'
    BY <1>3, <2>1, <2>3 DEF NoHole, DirtyIsPersisted
  <2>7. ShownIsKept'
    BY <1>3, <2>1, <2>2 DEF NoHole, ShownIsKept, SavesCarryWork
  <2> QED
    BY <2>4, <2>5, <2>6, <2>7 DEF NoHole
<1>6. ASSUME NEW s \in saves, SaveAnswered(s) PROVE NoHole'
  <2>1. /\ UNCHANGED <<canvas, page, work, acked, mounts>>
        /\ saves' = saves \ {s}
        /\ local' = IF s.step = "ok" THEN None ELSE local
        /\ s.step \in {"ok", "failed"}
        /\ s.mount = mounts /\ page # "closed" => isDirty' = (isDirty /\ s.step = "failed")
        /\ ~(s.mount = mounts /\ page # "closed") => isDirty' = isDirty
    BY <1>6 DEF SaveAnswered, historyVars, visit, history_, status
  <2>2. s.step = "ok" => acked = work
    BY <1>3 DEF NoHole, SavesCarryWork
  <2>3. local \in {None, work} /\ (local = None => acked = work)
    BY <1>3 DEF NoHole, SavesCarryWork
  <2>4. isDirty => s.mount = mounts /\ page = "ready"
    BY <1>3 DEF NoHole, DirtyIsPersisted
  <2>5. (WorkIsKept /\ SavesCarryWork)'
    BY <1>3, <2>1, <2>2, <2>3 DEF NoHole, WorkIsKept, SavesCarryWork
  <2>6. DirtyIsPersisted'
    BY <1>3, <2>1, <2>4 DEF NoHole, DirtyIsPersisted
  <2>7. ShownIsKept'
    BY <1>3, <2>1, <2>2, <2>3 DEF NoHole, ShownIsKept
  <2> QED
    BY <2>5, <2>6, <2>7 DEF NoHole
<1> QED
  BY <1>4, <1>5, <1>6 DEF SaveStep

\* The inductive step.
LEMMA IInvStep ==
    ASSUME TypeOK, IInv, [Next]_vars
    PROVE  IInv'
<1>1. CASE EditStep
  BY <1>1, EditIsEdited, EditedKeepsIInv
<1>2. CASE VisitStep
  BY <1>2, VisitKeepsIInv
<1>3. CASE SaveStep
  BY <1>3, SaveKeepsIInv
<1>4. CASE QuietStep \/ OtherSaves
  <2>1. UNCHANGED <<canvas, page, isDirty, holes, work, acked, local, saves, mounts>>
    BY <1>4 DEF QuietStep, DropConnection, Select, StartConnection, OtherSaves, vars, historyVars, status, visit, history_
  <2> QED
    BY <2>1, QuietKeepsIInv
<1> QED
  BY <1>1, <1>2, <1>3, <1>4, StepKinds

LEMMA IInvAlways == Spec => []IInv
BY InitIInv, TypeCorrect, IInvStep, PTL DEF Spec

\* What the user last worked on is in localStorage or is what the server last
\* took, for any graph and any number of edits, visits and saves (the persist
\* effect and handleSaveDraft of WorkflowEditor.tsx).
THEOREM WorkIsNotLost == Spec => []WorkSurvives
<1>1. IInv => WorkSurvives
  BY DEF IInv, NoHole, WorkIsKept, WorkSurvives
<1> QED
  BY <1>1, IInvAlways, PTL

\* A page that says "Saved" shows what a reload brings back.
THEOREM SavedStays == Spec => []SavedIsKept
<1>1. IInv => SavedIsKept
  BY DEF IInv, NoHole, ShownIsKept, SavedIsKept
<1> QED
  BY <1>1, IInvAlways, PTL
=============================================================================
