--------------------------- MODULE EmbeddingIndex ---------------------------
(***************************************************************************)
(* The embedding index (embed.rs): a list of entries, beside it the graph  *)
(* of Hnsw, which answers once it has enough nodes; below that a search    *)
(* compares the query with every entry.  The persistent store makes the    *)
(* index anew from the particles in memory (persist.rs:843) and neither    *)
(* its writes nor its deletes touch it; the other calls are the library's. *)
(***************************************************************************)
EXTENDS Hnsw

CONSTANTS
  MaxLevel,     \* bound: the highest level drawn
  MaxHigh,      \* bound: how many times a level above 0 is drawn
  GraphAnswers, \* the number of nodes from which on the graph answers (50)
  MaxEntries    \* bound: entries of a list from which one is removed, or inserted again

ASSUME EmbeddingAssumption == {MaxLevel, MaxHigh, GraphAnswers, MaxEntries} \subseteq Nat

VARIABLES
  entries,    \* the list of vectors, each with its id
  graph,
  cut         \* history: a node was removed or a link pruned

embeddingVars == <<entries, graph, cut>>

EmbeddingInit ==
  /\ entries = <<>>
  /\ graph = NoGraph
  /\ cut = FALSE

\* What random_level may draw.
Levels == 0 .. MaxLevel

\* insert, and insert_particle.  An id that is there gets a second entry and
\* no second node.
IndexInsert(p, level) ==
  /\ p \in Range(entries) => Len(entries) < MaxEntries
  /\ level > 0 => Cardinality({k \in DOMAIN graph.nodes : Level(graph.nodes[k]) > 0}) < MaxHigh
  /\ entries' = Append(entries, p)
  /\ graph' = HnswInserted(graph, p, level)
  /\ cut' = (cut \/ graph' # Joined(graph, p, level))

\* retain: the entries of other ids.
OfOthers(p) == FoldLeft(LAMBDA rest, e : IF e = p THEN rest ELSE Append(rest, e), <<>>, entries)

\* remove drops every entry of the id.
IndexRemove(p) ==
  /\ p \in Range(entries)
  /\ Len(entries) <= MaxEntries
  /\ entries' = OfOthers(p)
  /\ graph' = HnswRemoved(graph, CHOOSE k \in DOMAIN graph.nodes : graph.nodes[k].at = p)
  /\ cut' = (entries' # <<>>)

\* build_embedding_index begins with a new index; insertions follow.
IndexNew ==
  /\ entries # <<>>
  /\ entries' = <<>> /\ graph' = NoGraph /\ cut' = FALSE

EmbeddingNext ==
  \/ \E p \in Points, level \in Levels : IndexInsert(p, level)
  \/ \E p \in Points : IndexRemove(p)
  \/ IndexNew

EmbeddingSpec == EmbeddingInit /\ [][EmbeddingNext]_embeddingVars

-----------------------------------------------------------------------------

\* search_cosine: entries in the place of ids and scores.
SearchCosine(p, n) ==
  IF Len(graph.nodes) >= GraphAnswers
  THEN {graph.nodes[i].at : i \in HnswSearch(graph, p, n)}
  ELSE {entries[k] : k \in Nearest([k \in DOMAIN entries |-> [at |-> entries[k]]], DOMAIN entries, p, n)}

\* Removal shifts the numbers by which nodes name each other and the entry
\* point (hnsw.rs:392), and the lists are cut from one side only.  Whatever
\* was inserted and removed: a link names another node that has the layer,
\* and the search starts at a node of the highest level.  Otherwise the
\* indexing of a later search leaves the vector of nodes.
GraphSound ==
  LET nodes == graph.nodes
  IN  /\ \A i \in DOMAIN nodes, l \in Levels : \A j \in Links(nodes, i, l) :
           j \in DOMAIN nodes \ {i} /\ l <= Level(nodes[j])
      /\ (graph.ep = 0) = (nodes = <<>>)
      /\ graph.ep # 0 => /\ graph.ep \in DOMAIN nodes
                         /\ \A i \in DOMAIN nodes : Level(nodes[i]) <= Level(nodes[graph.ep])

\* As long as nothing was removed, no list was cut and no id inserted twice,
\* it makes no difference what answers: layer 0 hangs together, so that the
\* graph finds the nearest ids of the list wherever the upper layers send the
\* search (hnsw.rs:146).
SearchExact ==
  LET ids == Range(entries)
  IN  ~cut /\ Cardinality(ids) = Len(entries) =>
        \A p \in Points, n \in {1, Len(entries)} :
          SearchCosine(p, n) =
            {q \in ids : Cardinality({r \in ids : Away(p, r) < Away(p, q)}) < n}
=============================================================================
