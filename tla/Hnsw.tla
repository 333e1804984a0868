-------------------------------- MODULE Hnsw --------------------------------
(***************************************************************************)
(* The graph for nearest neighbours (hnsw.rs), as operators from a graph   *)
(* to the next.  Nodes stand in a sequence and name each other by their    *)
(* position in it; a node of level l has a set of links on each of the     *)
(* layers 0..l (entry 1 of links is layer 0).  A vector is a point on a    *)
(* line, similarity is nearness, and an id stands for its vector.  No two  *)
(* points are equally far from a third: sorting has one outcome.           *)
(***************************************************************************)
EXTENDS Integers, Sequences, FiniteSets, SequencesExt

CONSTANTS
  Points,     \* the vectors
  M           \* links a new node makes on a layer; 2 * M is the most it keeps

Away(p, q) == IF p < q THEN q - p ELSE p - q

ASSUME HnswAssumption ==
  /\ Points \subseteq Nat
  /\ \A p, q, r \in Points : q # r => Away(p, q) # Away(p, r)
  /\ M \in Nat \ {0}

NoGraph == [nodes |-> <<>>, ep |-> 0]   \* entry point 0: None

Level(node) == Len(node.links) - 1
Links(nodes, i, layer) ==
  IF layer <= Level(nodes[i]) THEN nodes[i].links[layer + 1] ELSE {}

\* The n nodes of S nearest to the point: sort_by and truncate.
Nearest(nodes, S, p, n) ==
  {i \in S : Cardinality({j \in S : Away(p, nodes[j].at) < Away(p, nodes[i].at)}) < n}

\* What the loop over to_visit comes by from one node.  As many rounds as
\* there are nodes are enough; the fold counts them.
Component(nodes, layer, start) ==
  FoldLeft(LAMBDA found, n : found \cup UNION {Links(nodes, i, layer) : i \in found},
           {start}, nodes)

SearchLayer(nodes, p, layer, n, start) ==
  Nearest(nodes, Component(nodes, layer, start), p, n)

\* greedy_search_layer moves to the nearest neighbour while that is nearer.
\* Those already visited are no nearer, so the list of them decides nothing.
GreedySearchLayer(nodes, p, layer, start) ==
  FoldLeft(LAMBDA at, n : CHOOSE i \in Nearest(nodes, {at} \cup Links(nodes, at, layer), p, 1) : TRUE,
           start, nodes)

-----------------------------------------------------------------------------
(* insert                                                                  *)

\* The neighbours found, each with the layer.
Found(nodes, p, top, ep) ==
  UNION {{<<layer, i>> : i \in SearchLayer(nodes, p, layer, M, ep)} : layer \in 0 .. top}

FoundOn(near, layer) == {f[2] : f \in {g \in near : g[1] = layer}}

NewNode(p, level) == [at |-> p, links |-> [l \in 1 .. level + 1 |-> {}]]

\* Mutant: the neighbours do not link back.
LinkedOneWay(nodes, near, k, top) ==
  [i \in 1 .. k |->
    [nodes[i] EXCEPT !.links = [l \in DOMAIN @ |->
       IF l - 1 \in 0 .. top /\ i = k THEN FoundOn(near, l - 1) ELSE @[l]]]]

\* Links both ways between node k and its neighbours, where those have the
\* layer at all.
Linked(nodes, near, k, top) ==
  [i \in 1 .. k |->
    [nodes[i] EXCEPT !.links = [l \in DOMAIN @ |->
       CASE l - 1 \in 0 .. top /\ i = k -> FoundOn(near, l - 1)
         [] i # k /\ <<l - 1, i>> \in near -> @[l] \cup {k}
         [] OTHER -> @[l]]]]

\* prune_connections of the node and of what a second search finds.  Only
\* the list that is too long loses links: those of the others stay.
Pruned(nodes, near, k, top) ==
  [i \in 1 .. k |->
    [nodes[i] EXCEPT !.links = [l \in DOMAIN @ |->
       IF /\ l - 1 \in 0 .. top
          /\ i = k \/ <<l - 1, i>> \in near
          /\ Cardinality(@[l]) > 2 * M
       THEN Nearest(nodes, @[l], nodes[i].at, 2 * M)
       ELSE @[l]]]]

Holds(g, p) == \E i \in DOMAIN g.nodes : g.nodes[i].at = p

\* insert, with the level that random_level drew, up to the pruning.
Joined(g, p, level) ==
  LET k     == Len(g.nodes) + 1
      added == Append(g.nodes, NewNode(p, level))
      high  == Level(g.nodes[g.ep])
      top   == IF level < high THEN level ELSE high
  IN  CASE Holds(g, p) -> g
        [] ~Holds(g, p) /\ g.ep = 0 -> [nodes |-> added, ep |-> k]
        [] OTHER -> [nodes |-> Linked(added, Found(added, p, top, g.ep), k, top),
                     ep    |-> IF level >= high THEN k ELSE g.ep]

\* The second search starts where the first did.
HnswInserted(g, p, level) ==
  LET joined == Joined(g, p, level)
      high   == Level(g.nodes[g.ep])
      top    == IF level < high THEN level ELSE high
  IN  IF Holds(g, p) \/ g.ep = 0 THEN joined
      ELSE [joined EXCEPT !.nodes = Pruned(@, Found(@, p, top, g.ep), Len(@), top)]

-----------------------------------------------------------------------------
(* remove                                                                  *)

\* Links to the node go and the numbers behind it move up.
Shifted(i, k) == IF i > k THEN i - 1 ELSE i
WithoutNode(nodes, k) ==
  [i \in 1 .. Len(nodes) - 1 |->
    [RemoveAt(nodes, k)[i] EXCEPT !.links = [l \in DOMAIN @ |-> {Shifted(j, k) : j \in @[l] \ {k}}]]]

\* The last of the nodes of the highest level, or None.
LastHighest(nodes) ==
  IF nodes = <<>> THEN 0
  ELSE CHOOSE i \in DOMAIN nodes : \A j \in DOMAIN nodes :
         Level(nodes[j]) < Level(nodes[i]) \/ (Level(nodes[j]) = Level(nodes[i]) /\ j <= i)

\* Mutant: the entry point keeps its number.
RemovedUnshifted(g, k) ==
  [nodes |-> WithoutNode(g.nodes, k),
   ep    |-> IF g.ep = k THEN LastHighest(WithoutNode(g.nodes, k)) ELSE g.ep]

HnswRemoved(g, k) ==
  [nodes |-> WithoutNode(g.nodes, k),
   ep    |-> IF g.ep = k THEN LastHighest(WithoutNode(g.nodes, k)) ELSE Shifted(g.ep, k)]

-----------------------------------------------------------------------------

\* search: down the layers to a start for layer 0, and the n nearest of what
\* that layer reaches from there.
HnswSearch(g, p, n) ==
  LET start[layer \in 1 .. Level(g.nodes[g.ep]) + 1] ==
        IF layer = Level(g.nodes[g.ep]) + 1 THEN g.ep
        ELSE GreedySearchLayer(g.nodes, p, layer, start[layer + 1])
  IN  IF g.ep = 0 THEN {} ELSE SearchLayer(g.nodes, p, 0, n, start[1])
=============================================================================
