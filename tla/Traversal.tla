------------------------------ MODULE Traversal ------------------------------
(***************************************************************************)
(* The search for related particles (store.rs:209, traverse_graph), over   *)
(* the particles of ParticleStore.  It goes deep first, with one list of   *)
(* visited particles for all paths.  Of the bonds only those of the kind   *)
(* asked for count; here that is all of them.                              *)
(***************************************************************************)
EXTENDS ParticleStore, FiniteSets, SequencesExt

CONSTANT MaxBonds   \* bound: bonds of a particle

\* Mutant: what lies too deep is marked all the same.
RECURSIVE TraversedMarking(_, _, _, _)
TraversedMarking(id, max, depth, acc) ==
  IF id \in acc.visited \/ depth > max
  THEN [acc EXCEPT !.visited = @ \cup {id}]
  ELSE FoldLeft(LAMBDA a, t : IF t \notin DOMAIN particles THEN a
                              ELSE TraversedMarking(t, max, depth + 1, [a EXCEPT !.found = @ \cup {t}]),
                [acc EXCEPT !.visited = @ \cup {id}],
                IF id \in DOMAIN particles THEN particles[id].gravity ELSE <<>>)

\* traverse_graph: acc is what the two &mut parameters hold.
RECURSIVE Traversed(_, _, _, _)
Traversed(id, max, depth, acc) ==
  IF depth > max \/ id \in acc.visited THEN acc
  ELSE FoldLeft(LAMBDA a, t : IF t \notin DOMAIN particles THEN a
                              ELSE Traversed(t, max, depth + 1, [a EXCEPT !.found = @ \cup {t}]),
                [acc EXCEPT !.visited = @ \cup {id}],
                IF id \in DOMAIN particles THEN particles[id].gravity ELSE <<>>)

RelatedTo(id, max) == Traversed(id, max, 0, [visited |-> {}, found |-> {}]).found

-----------------------------------------------------------------------------

\* The particles that 1 to n bonds lead to.
Targets(id) ==
  IF id \in DOMAIN particles THEN ToSet(particles[id].gravity) \cap DOMAIN particles ELSE {}
Within(id, n) ==
  FoldLeft(LAMBDA near, k : near \cup UNION {Targets(t) : t \in near}, Targets(id), [k \in 1 .. n - 1 |-> k])

\* The list of visited particles is shared by all paths and the depth is not
\* (store.rs:246): what is first met deep keeps what lies behind it from being
\* found on a shorter way, and the order of the bonds decides.  Nothing is
\* found that lies more than max_depth + 1 bonds away; and with a depth of 0
\* or 1, or one that no path exceeds, all that lies within is found.
TraversalFinds ==
  \A id \in Ids, max \in 0 .. Cardinality(Ids) :
    LET found == RelatedTo(id, max)
    IN  /\ found \subseteq Within(id, max + 1)
        /\ max \in {0, 1, Cardinality(Ids)} => found = Within(id, max + 1)

-----------------------------------------------------------------------------
(* The particles, changed by writes and deletes.                           *)

BondLists == UNION {[1 .. n -> Ids] : n \in 0 .. MaxBonds}

TraversalNext ==
  \E id \in Ids :
    \/ \E g \in BondLists, dims \in Dims : WriteParticle(id, [gravity |-> g, dims |-> dims])
    \/ DeleteParticle(id)
=============================================================================
