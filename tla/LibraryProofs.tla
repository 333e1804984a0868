--------------------------- MODULE LibraryProofs ----------------------------
(***************************************************************************)
(* What a caller need not know of the structures beside the store.  The    *)
(* graph of links that insert and remove keep is one a search can follow,  *)
(* and the search is exact as long as nothing was cut, for every number of *)
(* links, layers and entries; a prediction of the prefetch engine rests on *)
(* repetition, whatever the accesses and the size of the log; a file holds *)
(* what was written last, for any handles, cuts and buffer sizes; and a    *)
(* scan misses or repeats no more names than moved where it had passed.    *)
(***************************************************************************)
EXTENDS EmbeddingIndex, Prefetch, FileIO, DirScan, FiniteSetTheorems, SequenceTheorems,
        WellFoundedInduction, TLAPS

-----------------------------------------------------------------------------
(* The prefetch engine *)

\* A frequency above 0 stands for an occurrence of the triple and a later one
\* of its pair, a frequency above 1 for three of the pair: each count adds the
\* latest two accesses to what was there before.
PrefetchInv ==
  /\ access_log \in Seq(Accessed) /\ trace \in Seq(Accessed)
  /\ patterns \in [Triples -> Nat]
  /\ Len(access_log) <= Len(trace)
  /\ \A i \in 1 .. Len(access_log) : access_log[i] = trace[Len(trace) - Len(access_log) + i]
  /\ \A t \in Triples :
       /\ patterns[t] > 0 => \E i \in 1 .. Len(trace) - 2 :
            TripleAt(trace, i) = t /\ \E j \in Occurrences(<<t[1], t[2]>>) : i < j
       /\ patterns[t] > 1 => \E i, j, k \in Occurrences(<<t[1], t[2]>>) : i < j /\ j < k

\* A set of two or more elements has two.
LEMMA TwoElements ==
  ASSUME NEW S, IsFiniteSet(S), Cardinality(S) > 1
  PROVE  \E x, y \in S : x # y
<1>1. Cardinality(S) \in Nat
  BY FS_CardinalityType
<1>2. S # {}
  BY <1>1, FS_EmptySet
<1>3. PICK x \in S : TRUE
  BY <1>2
<1>4. IsFiniteSet(S \ {x}) /\ Cardinality(S \ {x}) = Cardinality(S) - 1
  BY <1>3, FS_RemoveElement
<1>5. S \ {x} # {}
  BY <1>1, <1>4, FS_EmptySet
<1> QED
  BY <1>3, <1>5

\* What is counted for a triple: nothing, one place, or two different ones, and
\* only when its pair is the latest.
LEMMA Counted ==
  ASSUME NEW log \in Seq(Accessed), NEW t \in Triples, patterns \in [Triples -> Nat]
  PROVE  /\ Detected(log, t) \in Nat
         /\ Detected(log, t) # patterns[t] =>
              /\ Len(log) >= 3
              /\ <<t[1], t[2]>> = Latest(log)
              /\ \E i \in 1 .. Len(log) - 2 : TripleAt(log, i) = t
              /\ Detected(log, t) > patterns[t] + 1 =>
                   \E i, j \in 1 .. Len(log) - 2 :
                      i < j /\ TripleAt(log, i) = t /\ TripleAt(log, j) = t
<1> DEFINE places == {i \in 1 .. Len(log) - 2 : TripleAt(log, i) = t}
<1>1. IsFiniteSet(places) /\ Cardinality(places) \in Nat
  <2>1. Len(log) \in Nat
    OBVIOUS
  <2>2. IsFiniteSet(1 .. Len(log) - 2)
    BY <2>1, FS_Interval
  <2> QED
    BY <2>2, FS_Subset, FS_CardinalityType
<1>2. patterns[t] \in Nat
  OBVIOUS
<1>3. CASE Len(log) < 3 \/ <<t[1], t[2]>> # Latest(log)
  BY <1>2, <1>3 DEF Detected
<1>4. CASE ~(Len(log) < 3 \/ <<t[1], t[2]>> # Latest(log))
  <2>1. Detected(log, t) = patterns[t] + Cardinality(places)
    BY <1>4 DEF Detected
  <2>2. Cardinality(places) # 0 => places # {}
    BY FS_EmptySet
  <2>3. Cardinality(places) > 1 => \E i, j \in places : i # j
    BY <1>1, TwoElements
  <2> HIDE DEF places
  <2>4. Detected(log, t) \in Nat
    BY <1>1, <1>2, <2>1
  <2>5. Detected(log, t) # patterns[t] => places # {}
    BY <1>1, <1>2, <2>1, <2>2
  <2>6. Detected(log, t) > patterns[t] + 1 => \E i, j \in places : i # j
    BY <1>1, <1>2, <2>1, <2>3
  <2> USE DEF places
  <2>7. Detected(log, t) > patterns[t] + 1 => \E i, j \in places : i < j
    BY <2>6
  <2> QED
    BY <1>4, <2>4, <2>5, <2>7
<1> QED
  BY <1>3, <1>4

\* The log stays the end of the trace.
LEMMA LogFollows ==
  ASSUME PrefetchInv, NEW id \in Accessed, RecordAccess(id)
  PROVE  /\ access_log' = Logged(id)
         /\ access_log' \in Seq(Accessed) /\ trace' \in Seq(Accessed)
         /\ Len(trace') = Len(trace) + 1
         /\ \A i \in 1 .. Len(trace) : trace'[i] = trace[i]
         /\ Len(access_log') <= Len(trace')
         /\ \A i \in 1 .. Len(access_log') :
              access_log'[i] = trace'[Len(trace') - Len(access_log') + i]
<1>1. access_log' = Logged(id) /\ trace' = Append(trace, id)
  BY DEF RecordAccess
<1>2. access_log \in Seq(Accessed) /\ trace \in Seq(Accessed) /\ Len(access_log) <= Len(trace)
  BY DEF PrefetchInv
<1>3. trace' \in Seq(Accessed) /\ Len(trace') = Len(trace) + 1 /\ trace'[Len(trace')] = id
  BY <1>1, <1>2
<1>4. \A i \in 1 .. Len(trace) : trace'[i] = trace[i]
  BY <1>1, <1>2
<1> DEFINE longer == Append(access_log, id)
<1>5. longer \in Seq(Accessed) /\ Len(longer) = Len(access_log) + 1
  BY <1>2
<1>6. \A i \in 1 .. Len(longer) : longer[i] = trace'[Len(trace') - Len(longer) + i]
  <2> SUFFICES ASSUME NEW i \in 1 .. Len(longer)
               PROVE  longer[i] = trace'[Len(trace') - Len(longer) + i]
    OBVIOUS
  <2>1. CASE i = Len(longer)
    BY <1>2, <1>3, <1>5, <2>1
  <2>2. CASE i # Len(longer)
    <3>1. i \in 1 .. Len(access_log) /\ longer[i] = access_log[i]
      BY <1>2, <1>5, <2>2
    <3>2. access_log[i] = trace[Len(trace) - Len(access_log) + i]
      BY <3>1 DEF PrefetchInv
    <3>3. Len(trace) - Len(access_log) + i \in 1 .. Len(trace)
      BY <1>2, <3>1
    <3> QED
      BY <1>2, <1>3, <1>4, <1>5, <3>1, <3>2, <3>3
  <2> QED
    BY <2>1, <2>2
<1> HIDE DEF longer
<1>7. CASE access_log' = longer
  <2>1. access_log' \in Seq(Accessed) /\ Len(access_log') <= Len(trace')
    BY <1>2, <1>3, <1>5, <1>7
  <2>2. \A i \in 1 .. Len(access_log') :
          access_log'[i] = trace'[Len(trace') - Len(access_log') + i]
    BY <1>6, <1>7
  <2> QED
    BY <1>1, <1>3, <1>4, <2>1, <2>2
<1>8. CASE access_log' = Tail(longer)
  <2>1. /\ Tail(longer) \in Seq(Accessed) /\ Len(Tail(longer)) = Len(longer) - 1
        /\ \A i \in 1 .. Len(Tail(longer)) : Tail(longer)[i] = longer[i + 1]
    <3>1. longer # << >>
      BY <1>2, <1>5
    <3> QED
      BY <1>5, <3>1, HeadTailProperties
  <2>2. access_log' \in Seq(Accessed) /\ Len(access_log') = Len(longer) - 1
        /\ \A i \in 1 .. Len(access_log') : access_log'[i] = longer[i + 1]
    BY <1>8, <2>1
  <2>3. Len(access_log') <= Len(trace')
    BY <1>2, <1>3, <1>5, <2>2
  <2>4. ASSUME NEW i \in 1 .. Len(access_log')
        PROVE  access_log'[i] = trace'[Len(trace') - Len(access_log') + i]
    <3>1. i + 1 \in 1 .. Len(longer) /\ access_log'[i] = longer[i + 1]
      BY <1>2, <1>5, <2>2
    <3>2. longer[i + 1] = trace'[Len(trace') - Len(longer) + (i + 1)]
      BY <1>6, <3>1
    <3>3. Len(trace') - Len(longer) + (i + 1) = Len(trace') - Len(access_log') + i
      BY <1>2, <1>3, <1>5, <2>2
    <3> QED
      BY <3>1, <3>2, <3>3
  <2> QED
    BY <1>1, <1>3, <1>4, <2>2, <2>3, <2>4
<1> QED
  BY <1>1, <1>7, <1>8 DEF Logged, longer

\* A step keeps the invariant: what a frequency grows by is seen in the trace,
\* and the latest two accesses are one occurrence more.
LEMMA Steps ==
  ASSUME PrefetchInv, NEW id \in Accessed, RecordAccess(id)
  PROVE  PrefetchInv'
<1>1. /\ access_log' = Logged(id)
      /\ access_log' \in Seq(Accessed) /\ trace' \in Seq(Accessed)
      /\ Len(trace') = Len(trace) + 1
      /\ \A i \in 1 .. Len(trace) : trace'[i] = trace[i]
      /\ Len(access_log') <= Len(trace')
      /\ \A i \in 1 .. Len(access_log') :
           access_log'[i] = trace'[Len(trace') - Len(access_log') + i]
  BY LogFollows
<1>2. patterns' = [t \in Triples |-> Detected(access_log', t)]
  BY <1>1 DEF RecordAccess
<1>3. patterns \in [Triples -> Nat] /\ trace \in Seq(Accessed)
  BY DEF PrefetchInv
<1>4. patterns' \in [Triples -> Nat]
  BY <1>1, <1>2, <1>3, Counted
<1>5. ASSUME NEW t \in Triples
      PROVE  /\ patterns'[t] > 0 => \E i \in 1 .. Len(trace') - 2 :
                  TripleAt(trace', i) = t /\ \E j \in Occurrences(<<t[1], t[2]>>)' : i < j
             /\ patterns'[t] > 1 =>
                  \E i, j, k \in Occurrences(<<t[1], t[2]>>)' : i < j /\ j < k
  <2> DEFINE pair == <<t[1], t[2]>>
             last == Len(trace') - 1
  <2>1. patterns'[t] = Detected(access_log', t) /\ patterns[t] \in Nat /\ patterns'[t] \in Nat
    BY <1>2, <1>3, <1>4
  <2>2. /\ patterns[t] > 0 => \E i \in 1 .. Len(trace) - 2 :
             TripleAt(trace, i) = t /\ \E j \in Occurrences(pair) : i < j
        /\ patterns[t] > 1 => \E i, j, k \in Occurrences(pair) : i < j /\ j < k
    BY DEF PrefetchInv
  <2>3. \A i \in Occurrences(pair) : i \in Occurrences(pair)' /\ i < last
    BY <1>1, <1>3 DEF Occurrences
  <2>4. \A i \in 1 .. Len(trace) - 2 :
          i \in 1 .. Len(trace') - 2 /\ TripleAt(trace', i) = TripleAt(trace, i)
    BY <1>1, <1>3 DEF TripleAt
  <2>5. CASE patterns'[t] = patterns[t]
    BY <2>3, <2>4, <2>5 DEF PrefetchInv
  <2>6. CASE patterns'[t] # patterns[t]
    <3>1. /\ Len(access_log') >= 3
          /\ pair = Latest(access_log')
          /\ \E i \in 1 .. Len(access_log') - 2 : TripleAt(access_log', i) = t
          /\ patterns'[t] > patterns[t] + 1 =>
               \E i, j \in 1 .. Len(access_log') - 2 :
                 i < j /\ TripleAt(access_log', i) = t /\ TripleAt(access_log', j) = t
      BY <1>1, <1>3, <2>1, <2>6, Counted
    <3>2. last \in Occurrences(pair)'
      <4>1. /\ access_log'[Len(access_log') - 1] = trace'[last]
            /\ access_log'[Len(access_log')] = trace'[last + 1]
            /\ last \in 1 .. Len(trace') - 1
        <5>1. /\ Len(access_log') - 1 \in 1 .. Len(access_log')
              /\ Len(access_log') \in 1 .. Len(access_log')
              /\ Len(trace') - Len(access_log') + (Len(access_log') - 1) = last
              /\ Len(trace') - Len(access_log') + Len(access_log') = last + 1
          BY <1>1, <3>1
        <5>2. /\ access_log'[Len(access_log') - 1] = trace'[last]
              /\ access_log'[Len(access_log')] = trace'[last + 1]
          BY <1>1, <5>1
        <5>3. last \in 1 .. Len(trace') - 1
          BY <1>1, <3>1
        <5> QED
          BY <5>2, <5>3
      <4> QED
        BY <3>1, <4>1 DEF Occurrences, Latest
    <3>3. \A i \in 1 .. Len(access_log') - 2 : TripleAt(access_log', i) = t =>
            LET k == Len(trace') - Len(access_log') + i
            IN  /\ k \in 1 .. Len(trace') - 2 /\ TripleAt(trace', k) = t
                /\ k \in Occurrences(pair)' /\ k < last
      <4> SUFFICES ASSUME NEW i \in 1 .. Len(access_log') - 2, TripleAt(access_log', i) = t
                   PROVE  LET k == Len(trace') - Len(access_log') + i
                          IN  /\ k \in 1 .. Len(trace') - 2 /\ TripleAt(trace', k) = t
                              /\ k \in Occurrences(pair)' /\ k < last
        OBVIOUS
      <4> DEFINE k == Len(trace') - Len(access_log') + i
      <4>1. k \in 1 .. Len(trace') - 2 /\ TripleAt(trace', k) = t /\ k < last
        <5>1. k \in 1 .. Len(trace') - 2 /\ k < last
          BY <1>1, <3>1
        <5>2. /\ i \in 1 .. Len(access_log') /\ i + 1 \in 1 .. Len(access_log')
              /\ i + 2 \in 1 .. Len(access_log')
          BY <1>1
        <5>3. /\ Len(trace') - Len(access_log') + (i + 1) = k + 1
              /\ Len(trace') - Len(access_log') + (i + 2) = k + 2
          BY <1>1
        <5>4. /\ access_log'[i] = trace'[k] /\ access_log'[i + 1] = trace'[k + 1]
              /\ access_log'[i + 2] = trace'[k + 2]
          BY <1>1, <5>2, <5>3
        <5> QED
          BY <5>1, <5>4 DEF TripleAt
      <4>2. k \in Occurrences(pair)'
        <5>1. k \in 1 .. Len(trace') - 1
          BY <1>1, <4>1
        <5>2. trace'[k] = t[1] /\ trace'[k + 1] = t[2]
          BY <4>1 DEF TripleAt
        <5> QED
          BY <5>1, <5>2 DEF Occurrences
      <4> QED
        BY <4>1, <4>2
    <3>4. \E i \in 1 .. Len(trace') - 2 :
            TripleAt(trace', i) = t /\ \E j \in Occurrences(pair)' : i < j
      BY <3>1, <3>2, <3>3
    <3>5. patterns'[t] > 1 => \E i, j, k \in Occurrences(pair)' : i < j /\ j < k
      <4>1. CASE patterns[t] > 1
        BY <2>3, <2>2, <4>1
      <4>2. CASE patterns[t] = 1
        <5>1. \E i, j \in Occurrences(pair) : i < j
          <6>1. PICK i \in 1 .. Len(trace) - 2 :
                  TripleAt(trace, i) = t /\ \E j \in Occurrences(pair) : i < j
            BY <4>2, <2>2
          <6>2. i \in Occurrences(pair)
            BY <1>3, <6>1 DEF Occurrences, TripleAt
          <6> QED
            BY <6>1, <6>2
        <5> QED
          BY <2>3, <3>2, <5>1
      <4>3. CASE patterns[t] = 0
        <5> SUFFICES ASSUME patterns'[t] > 1
                     PROVE  \E i, j, k \in Occurrences(pair)' : i < j /\ j < k
          OBVIOUS
        <5>1. PICK i, j \in 1 .. Len(access_log') - 2 :
                i < j /\ TripleAt(access_log', i) = t /\ TripleAt(access_log', j) = t
          BY <2>1, <3>1, <4>3
        <5> DEFINE at(n) == Len(trace') - Len(access_log') + n
        <5>2. at(i) \in Occurrences(pair)' /\ at(j) \in Occurrences(pair)' /\ at(j) < last
          BY <3>3, <5>1
        <5>3. at(i) < at(j)
          BY <1>1, <5>1
        <5> QED
          BY <3>2, <5>2, <5>3
      <4> QED
        BY <2>1, <4>1, <4>2, <4>3
    <3> QED
      BY <3>4, <3>5
  <2> QED
    BY <2>5, <2>6
<1> QED
  BY <1>1, <1>4, <1>5 DEF PrefetchInv

\* The invariant holds of every behaviour, whatever the size of the log.
THEOREM PatternsComeFromTheTrace == PrefetchSpec => []PrefetchInv
<1>1. PrefetchInit => PrefetchInv
  BY DEF PrefetchInit, PrefetchInv
<1>2. PrefetchInv /\ [PrefetchNext]_prefetchVars => PrefetchInv'
  <2> SUFFICES ASSUME PrefetchInv, [PrefetchNext]_prefetchVars
               PROVE  PrefetchInv'
    OBVIOUS
  <2>1. CASE \E id \in Accessed : RecordAccess(id)
    BY <2>1, Steps
  <2>2. CASE UNCHANGED <<access_log, patterns, trace>>
    BY <2>2 DEF PrefetchInv, Occurrences
  <2> QED
    BY <2>1, <2>2 DEF PrefetchNext, QueuePrefetch, prefetchVars
<1> QED
  BY <1>1, <1>2, PTL DEF PrefetchSpec

\* predict_next names only what followed the latest two accesses before, and
\* only when these have come up three times: the latest two of the log are those
\* of the trace, and a frequency above 1 says the rest.
THEOREM PredictionsRest == PrefetchSpec => []PredictionsRepeat
<1>1. PrefetchInv => PredictionsRepeat
  <2> SUFFICES ASSUME PrefetchInv, NEW c \in PredictNext
               PROVE  /\ \E i \in 1 .. Len(trace) - 2 :
                           TripleAt(trace, i) = Then(Latest(trace), c)
                      /\ \E i, j, k \in Occurrences(Latest(trace)) : i < j /\ j < k
    BY DEF PredictionsRepeat
  <2>1. /\ access_log \in Seq(Accessed) /\ trace \in Seq(Accessed)
        /\ Len(access_log) <= Len(trace)
        /\ \A i \in 1 .. Len(access_log) : access_log[i] = trace[Len(trace) - Len(access_log) + i]
    BY DEF PrefetchInv
  <2>2. /\ Len(access_log) >= 2 /\ c \in Accessed
        /\ patterns[Then(Latest(access_log), c)] > 1
    BY <2>1 DEF PredictNext
  <2>3. Latest(access_log) = Latest(trace)
    <3>1. /\ Len(access_log) - 1 \in 1 .. Len(access_log)
          /\ Len(access_log) \in 1 .. Len(access_log)
          /\ Len(trace) - Len(access_log) + (Len(access_log) - 1) = Len(trace) - 1
          /\ Len(trace) - Len(access_log) + Len(access_log) = Len(trace)
      BY <2>1, <2>2
    <3> QED
      BY <2>1, <3>1 DEF Latest
  <2>4. Then(Latest(trace), c) \in Triples
    BY <2>1, <2>2, <2>3 DEF Then, Latest, Triples
  <2> DEFINE t == Then(Latest(trace), c)
  <2>5. <<t[1], t[2]>> = Latest(trace)
    BY DEF Then, Latest
  <2> HIDE DEF t
  <2>6. t \in Triples /\ patterns[t] > 1 /\ patterns[t] > 0
    BY <2>2, <2>3, <2>4 DEF t, PrefetchInv
  <2> QED
    BY <2>5, <2>6 DEF PrefetchInv, t
<1> QED
  BY <1>1, PatternsComeFromTheTrace, PTL

-----------------------------------------------------------------------------
(* The embedding index *)

\* A node, with its layers.
Node == [at : Points, links : Seq(SUBSET Nat)]
Layers(node) == Len(node.links)

\* Links name other nodes that have the layer.
LinksRight(nodes) ==
  \A i \in 1 .. Len(nodes) :
    /\ Layers(nodes[i]) >= 1
    /\ \A l \in 1 .. Layers(nodes[i]) : \A j \in nodes[i].links[l] :
         j \in 1 .. Len(nodes) /\ j # i /\ l <= Layers(nodes[j])

\* The entry point is a node of the most layers.
EntryRight(nodes, ep) ==
  IF nodes = <<>> THEN ep = 0
  ELSE ep \in 1 .. Len(nodes) /\ \A i \in 1 .. Len(nodes) : Layers(nodes[i]) <= Layers(nodes[ep])

Held(nodes, p) == \E i \in 1 .. Len(nodes) : nodes[i].at = p

\* Each vector has one node.
Single(nodes) == \A i, j \in 1 .. Len(nodes) : nodes[i].at = nodes[j].at => i = j

GraphRight(g) ==
  /\ g = [nodes |-> g.nodes, ep |-> g.ep]
  /\ g.nodes \in Seq(Node) /\ g.ep \in Nat
  /\ LinksRight(g.nodes) /\ EntryRight(g.nodes, g.ep)

IndexInv ==
  /\ entries \in Seq(Points)
  /\ GraphRight(graph)
  /\ \A k \in 1 .. Len(entries) : Held(graph.nodes, entries[k])
  /\ \A q : Held(graph.nodes, q) => \E k \in 1 .. Len(entries) : entries[k] = q
  /\ Single(graph.nodes)
-----------------------------------------------------------------------------
(* Folds over sequences.                                                   *)

\* A set of natural numbers has a least element, a bounded one a greatest.
LEMMA LeastIn ==
  ASSUME NEW T \in SUBSET Nat, T # {}
  PROVE  \E x \in T : \A y \in T : x <= y
<1> DEFINE R == OpToRel(<, Nat)
<1>1. IsWellFoundedOn(R, Nat)
  BY NatLessThanWellFounded
<1>2. PICK x \in T : \A y \in T : ~ (<<y, x>> \in R)
  BY <1>1, WFMin
<1>3. \A y \in T : ~ (y < x)
  BY <1>2 DEF OpToRel
<1> QED
  BY <1>3

\* The maximum the modules use is that greatest element.
LEMMA MaxOf ==
  ASSUME NEW n \in Nat, NEW s \in SUBSET (1 .. n), s # {}
  PROVE  /\ Max(s) \in s
         /\ \A y \in s : y <= Max(s)
<1> DEFINE below == {n - y : y \in s}
<1>1. PICK y \in s : TRUE
  OBVIOUS
<1>2. n - y \in below /\ below \in SUBSET Nat
  OBVIOUS
<1>3. PICK d \in below : \A e \in below : d <= e
  BY <1>2, LeastIn
<1>4. PICK x \in s : d = n - x
  OBVIOUS
<1>5. ASSUME NEW z \in s PROVE x >= z
  <2>1. d <= n - z
    BY <1>3
  <2> QED
    BY <2>1, <1>4
<1>6. Max(s) \in s /\ \A z \in s : Max(s) >= z
  BY <1>5 DEF Max
<1> QED
  BY <1>6

\* What holds of the empty set and comes from a set without its greatest
\* element to the set holds of all sets of positions.
LEMMA FoldInduction ==
  ASSUME NEW n \in Nat, NEW Good, {} \in Good,
         \A s \in SUBSET (1 .. n) : s # {} /\ s \ {Max(s)} \in Good => s \in Good
  PROVE  SUBSET (1 .. n) \subseteq Good
<1> DEFINE bad == {s \in SUBSET (1 .. n) : s \notin Good}
           sizes == {Cardinality(s) : s \in bad}
<1>1. \A s \in SUBSET (1 .. n) : IsFiniteSet(s) /\ Cardinality(s) \in Nat
  <2>1. IsFiniteSet(1 .. n)
    BY FS_Interval
  <2> QED BY <2>1, FS_Subset, FS_CardinalityType
<1>2. ASSUME bad # {} PROVE FALSE
  <2>1. sizes \in SUBSET Nat /\ sizes # {}
    BY <1>1, <1>2
  <2>2. PICK k \in sizes : \A m \in sizes : k <= m
    <3> HIDE DEF sizes
    <3> QED BY <2>1, LeastIn
  <2>3. PICK s \in bad : Cardinality(s) = k
    OBVIOUS
  <2> DEFINE rest == s \ {Max(s)}
  <2>4. s \in SUBSET (1 .. n) /\ s # {} /\ Max(s) \in s
    BY MaxOf
  <2>5. rest \in bad
    BY <2>4
  <2>6. Cardinality(rest) = Cardinality(s) - 1
    BY <1>1, <2>4, FS_RemoveElement
  <2>7. Cardinality(rest) \in sizes
    BY <2>5
  <2>8. k <= Cardinality(rest) /\ Cardinality(s) \in Nat
    <3> HIDE DEF rest, sizes
    <3> QED BY <2>2, <2>7, <1>1, <2>4
  <2> HIDE DEF rest, sizes, bad
  <2> QED BY <2>3, <2>6, <2>8
<1> QED BY <1>2

\* A step of a fold over the first n positions: f has the results so far.
FoldStep(step, base, f, r) == IF r = {} THEN base ELSE step[Max(r), f[r \ {Max(r)}]]

\* A fold of which all results are in the set A, and what it comes to.
FoldsIn(A, n, step, base) == n \in Nat /\ base \in A /\ step \in [(1 .. n) \X A -> A]
Results(f, A, n, step, base) ==
  /\ f \in [SUBSET (1 .. n) -> A]
  /\ \A r \in SUBSET (1 .. n) : f[r] = FoldStep(step, base, f, r)

\* A fold whose steps stay in a set has results.
LEMMA FoldExists ==
  ASSUME NEW A, NEW n, NEW step, NEW base, FoldsIn(A, n, step, base)
  PROVE  \E f : Results(f, A, n, step, base)
<1>0. n \in Nat /\ base \in A /\ step \in [(1 .. n) \X A -> A]
  BY DEF FoldsIn
<1> DEFINE Folded(s, f) == \A r \in SUBSET s : f[r] = FoldStep(step, base, f, r)
           Good == {s \in SUBSET (1 .. n) : \E f \in [SUBSET s -> A] : Folded(s, f)}
<1>1. {} \in Good
  <2> DEFINE f == [r \in SUBSET {} |-> base]
  <2>1. f \in [SUBSET {} -> A] /\ Folded({}, f)
    BY <1>0 DEF FoldStep
  <2> HIDE DEF f, Folded
  <2> QED BY <2>1
<1>2. ASSUME NEW s \in SUBSET (1 .. n), s # {}, s \ {Max(s)} \in Good PROVE s \in Good
  <2>1. PICK rest, m : rest = s \ {Max(s)} /\ m = Max(s)
    OBVIOUS
  <2>2. PICK g \in [SUBSET rest -> A] : Folded(rest, g)
    BY <1>2, <2>1
  <2>3. m \in s /\ m \in 1 .. n /\ rest \in SUBSET s
    BY <1>0, <1>2, <2>1, MaxOf
  <2> DEFINE f == [r \in SUBSET s |-> IF r \in SUBSET rest THEN g[r] ELSE step[m, g[r \ {m}]]]
  <2>4. \A r \in SUBSET s : r \ {m} \in SUBSET rest /\ (r \notin SUBSET rest => m \in r)
    BY <2>1
  <2>5. f \in [SUBSET s -> A]
    <3> SUFFICES ASSUME NEW r \in SUBSET s, r \notin SUBSET rest PROVE step[m, g[r \ {m}]] \in A
      BY <2>2
    <3>1. g[r \ {m}] \in A
      BY <2>2, <2>4
    <3> QED BY <1>0, <2>3, <3>1
  <2>6. ASSUME NEW r \in SUBSET s PROVE f[r] = FoldStep(step, base, f, r)
    <3>1. CASE r \in SUBSET rest
      <4>1. f[r] = g[r] /\ r \ {Max(r)} \in SUBSET rest /\ r \ {Max(r)} \in SUBSET s
        BY <2>3, <3>1
      <4>2. f[r \ {Max(r)}] = g[r \ {Max(r)}]
        BY <4>1
      <4>3. g[r] = FoldStep(step, base, g, r)
        BY <2>2, <3>1
      <4> HIDE DEF f
      <4> QED BY <4>1, <4>2, <4>3 DEF FoldStep
    <3>2. CASE r \notin SUBSET rest
      <4>1. m \in r /\ r \in SUBSET (1 .. n)
        BY <2>4, <3>2
      <4>2. Max(r) \in r /\ \A y \in r : y <= Max(r)
        BY <1>0, <4>1, MaxOf
      <4>3. \A y \in s : y <= m
        BY <1>0, <1>2, <2>1, MaxOf
      <4>4. Max(r) = m
        <5>1. m <= Max(r) /\ Max(r) <= m
          BY <4>1, <4>2, <4>3
        <5>2. m \in 1 .. n /\ Max(r) \in 1 .. n
          BY <2>3, <4>1, <4>2
        <5> QED BY <5>1, <5>2
      <4>5. r \ {m} \in SUBSET rest /\ r \ {m} \in SUBSET s
        BY <2>4
      <4>6. f[r \ {m}] = g[r \ {m}] /\ f[r] = step[m, g[r \ {m}]]
        BY <3>2, <4>5
      <4> HIDE DEF f
      <4> QED BY <4>1, <4>4, <4>6 DEF FoldStep
    <3> QED BY <3>1, <3>2
  <2> HIDE DEF f
  <2>7. Folded(s, f)
    BY <2>6
  <2> HIDE DEF Folded
  <2> QED BY <2>5, <2>7
<1>3. SUBSET (1 .. n) \subseteq Good
  <2> HIDE DEF Good
  <2> QED BY <1>0, <1>1, <1>2, FoldInduction
<1>4. 1 .. n \in Good
  <2> HIDE DEF Good
  <2> QED BY <1>3
<1> QED BY <1>4 DEF Results

\* The rounds of the loop over to_visit, in a set that no link leaves.
Rounds(fold, nodes, layer, start, H) ==
  \A r \in SUBSET (1 .. Len(nodes)) :
    /\ fold[r] \subseteq H
    /\ fold[r] = IF r = {} THEN {start}
                 ELSE fold[r \ {Max(r)}]
                        \cup UNION {Links(nodes, i, layer) : i \in fold[r \ {Max(r)}]}

\* What they come to.
LEMMA ComponentRounds ==
  ASSUME NEW S, NEW nodes \in Seq(S), NEW layer, NEW H, NEW start \in H,
         \A i \in H : Links(nodes, i, layer) \subseteq H
  PROVE  \E fold : /\ Rounds(fold, nodes, layer, start, H)
                   /\ Component(nodes, layer, start) = fold[1 .. Len(nodes)]
<1> DEFINE n == Len(nodes)
           one(found, x) == found \cup UNION {Links(nodes, i, layer) : i \in found}
           turn(f, r) == IF r = {} THEN {start} ELSE one(f[r \ {Max(r)}], nodes[Max(r)])
           body(f) == [r \in SUBSET (1 .. n) |-> turn(f, r)]
           fold == CHOOSE f : f = body(f)
           step == [t \in (1 .. n) \X SUBSET H |-> one(t[2], t[1])]
<1>0. n \in Nat /\ DOMAIN nodes = 1 .. n
  OBVIOUS
<1>1. ASSUME NEW found \in SUBSET H, NEW x PROVE one(found, x) \in SUBSET H
  OBVIOUS
<1>2. step \in [(1 .. n) \X SUBSET H -> SUBSET H] /\ {start} \in SUBSET H
  <2> HIDE DEF one
  <2> QED BY <1>1
<1>3. \A k \in 1 .. n, found \in SUBSET H : step[k, found] = one(found, nodes[k])
  OBVIOUS
<1> HIDE DEF step, one
<1>4. PICK f \in [SUBSET (1 .. n) -> SUBSET H] :
        \A r \in SUBSET (1 .. n) : f[r] = FoldStep(step, {start}, f, r)
  <2>1. FoldsIn(SUBSET H, n, step, {start})
    BY <1>0, <1>2 DEF FoldsIn
  <2>2. \E f : Results(f, SUBSET H, n, step, {start})
    <3> HIDE DEF n
    <3> QED BY <2>1, FoldExists
  <2> QED BY <2>2 DEF Results
<1>5. ASSUME NEW r \in SUBSET (1 .. n) PROVE f[r] = turn(f, r)
  <2>1. CASE r = {}
    BY <1>4, <2>1 DEF FoldStep
  <2>2. CASE r # {}
    <3>1. Max(r) \in 1 .. n /\ r \ {Max(r)} \in SUBSET (1 .. n)
      BY <1>0, <2>2, MaxOf
    <3>2. f[r \ {Max(r)}] \in SUBSET H
      BY <1>4, <3>1
    <3>3. f[r] = step[Max(r), f[r \ {Max(r)}]]
      BY <1>4, <2>2 DEF FoldStep
    <3> QED BY <1>3, <2>2, <3>1, <3>2, <3>3
  <2> QED BY <2>1, <2>2
<1>6. f = body(f)
  <2> HIDE DEF turn
  <2> QED BY <1>4, <1>5
<1>7. fold = body(fold)
  <2> HIDE DEF body
  <2> QED BY <1>6
<1>8. \A r \in SUBSET (1 .. n) : fold[r] = turn(fold, r)
  <2> HIDE DEF turn, fold
  <2> QED BY <1>7
<1>9. Component(nodes, layer, start) = fold[1 .. n]
  BY <1>0, Zenon DEF Component, FoldLeft, MapThenFoldSet, one
<1> HIDE DEF fold
<1> DEFINE Inside == {r \in SUBSET (1 .. n) : fold[r] \in SUBSET H}
<1>10. {} \in Inside
  BY <1>8
<1>11. ASSUME NEW r \in SUBSET (1 .. n), r # {}, r \ {Max(r)} \in Inside PROVE r \in Inside
  <2>1. fold[r] = one(fold[r \ {Max(r)}], nodes[Max(r)])
    BY <1>8, <1>11
  <2>2. fold[r \ {Max(r)}] \in SUBSET H
    BY <1>11
  <2>3. one(fold[r \ {Max(r)}], nodes[Max(r)]) \in SUBSET H
    BY <1>1, <2>2
  <2> QED BY <2>1, <2>3
<1>12. SUBSET (1 .. n) \subseteq Inside
  <2> HIDE DEF Inside
  <2> QED BY <1>0, <1>10, <1>11, FoldInduction
<1>13. Rounds(fold, nodes, layer, start, H)
  <2> SUFFICES ASSUME NEW r \in SUBSET (1 .. n) PROVE fold[r] \subseteq H /\ fold[r] = turn(fold, r)
    BY DEF Rounds, one
  <2> QED BY <1>8, <1>12
<1> QED BY <1>9, <1>13

\* What links lead to from within a set that no link leaves is in the set.
LEMMA ComponentWithin ==
  ASSUME NEW S, NEW nodes \in Seq(S), NEW layer, NEW H, NEW start \in H,
         \A i \in H : Links(nodes, i, layer) \subseteq H
  PROVE  Component(nodes, layer, start) \subseteq H
<1>1. PICK fold : /\ Rounds(fold, nodes, layer, start, H)
                  /\ Component(nodes, layer, start) = fold[1 .. Len(nodes)]
  BY ComponentRounds
<1> QED BY <1>1 DEF Rounds

\* The entries of other ids, and none of the one.
AreOthers(rest, p) ==
  /\ rest \in Seq(Points)
  /\ \A k \in 1 .. Len(rest) : rest[k] # p /\ \E j \in 1 .. Len(entries) : rest[k] = entries[j]
  /\ \A j \in 1 .. Len(entries) : entries[j] # p => \E k \in 1 .. Len(rest) : rest[k] = entries[j]

\* These are what retain keeps.
LEMMA OfOthersIs ==
  ASSUME entries \in Seq(Points), NEW p
  PROVE  AreOthers(OfOthers(p), p)
<1> DEFINE n == Len(entries)
           one(rest, e) == IF e = p THEN rest ELSE Append(rest, e)
           turn(f, r) == IF r = {} THEN <<>> ELSE one(f[r \ {Max(r)}], entries[Max(r)])
           body(f) == [r \in SUBSET (1 .. n) |-> turn(f, r)]
           fold == CHOOSE f : f = body(f)
           step == [t \in (1 .. n) \X Seq(Points) |-> one(t[2], entries[t[1]])]
<1>0. n \in Nat /\ DOMAIN entries = 1 .. n /\ \A k \in 1 .. n : entries[k] \in Points
  OBVIOUS
<1>1. ASSUME NEW rest \in Seq(Points), NEW e \in Points PROVE one(rest, e) \in Seq(Points)
  OBVIOUS
<1>2. step \in [(1 .. n) \X Seq(Points) -> Seq(Points)] /\ <<>> \in Seq(Points)
  <2> HIDE DEF one
  <2>1. ASSUME NEW t \in (1 .. n) \X Seq(Points) PROVE one(t[2], entries[t[1]]) \in Seq(Points)
    <3>1. t[2] \in Seq(Points) /\ entries[t[1]] \in Points
      BY <1>0
    <3> QED BY <1>1, <3>1
  <2> QED BY <2>1
<1>3. \A k \in 1 .. n, rest \in Seq(Points) : step[k, rest] = one(rest, entries[k])
  <2> HIDE DEF one
  <2> QED OBVIOUS
<1> HIDE DEF step, one
<1>4. PICK f \in [SUBSET (1 .. n) -> Seq(Points)] :
        \A r \in SUBSET (1 .. n) : f[r] = FoldStep(step, <<>>, f, r)
  <2>1. FoldsIn(Seq(Points), n, step, <<>>)
    BY <1>0, <1>2 DEF FoldsIn
  <2>2. \E f : Results(f, Seq(Points), n, step, <<>>)
    <3> HIDE DEF n
    <3> QED BY <2>1, FoldExists
  <2> QED BY <2>2 DEF Results
<1>5. ASSUME NEW r \in SUBSET (1 .. n) PROVE f[r] = turn(f, r)
  <2>1. CASE r = {}
    BY <1>4, <2>1 DEF FoldStep
  <2>2. CASE r # {}
    <3>1. Max(r) \in 1 .. n /\ r \ {Max(r)} \in SUBSET (1 .. n)
      BY <1>0, <2>2, MaxOf
    <3>2. f[r \ {Max(r)}] \in Seq(Points)
      BY <1>4, <3>1
    <3>3. f[r] = step[Max(r), f[r \ {Max(r)}]]
      BY <1>4, <2>2 DEF FoldStep
    <3> QED BY <1>3, <2>2, <3>1, <3>2, <3>3
  <2> QED BY <2>1, <2>2
<1>6. f = body(f)
  <2> HIDE DEF turn
  <2> QED BY <1>4, <1>5
<1>7. fold = body(fold)
  <2> HIDE DEF body
  <2> QED BY <1>6
<1>8. \A r \in SUBSET (1 .. n) : fold[r] = turn(fold, r)
  <2> HIDE DEF turn, fold
  <2> QED BY <1>7
<1>9. OfOthers(p) = fold[1 .. n]
  BY <1>0, Zenon DEF OfOthers, FoldLeft, MapThenFoldSet, one
<1> HIDE DEF fold
<1> DEFINE right(s) == /\ s \in Seq(Points)
                       /\ \A k \in 1 .. Len(s) : s[k] # p /\ \E j \in 1 .. n : s[k] = entries[j]
           keeps(s, r) == \A j \in r : entries[j] # p => \E k \in 1 .. Len(s) : s[k] = entries[j]
           Right == {r \in SUBSET (1 .. n) : right(fold[r]) /\ keeps(fold[r], r)}
<1>10. right(<<>>) /\ keeps(<<>>, {})
  OBVIOUS
<1>11. ASSUME NEW s, right(s), NEW j \in 1 .. n, entries[j] # p
       PROVE  /\ right(Append(s, entries[j]))
              /\ \A r : keeps(s, r \ {j}) => keeps(Append(s, entries[j]), r)
  <2>1. /\ Append(s, entries[j]) \in Seq(Points) /\ Len(Append(s, entries[j])) = Len(s) + 1
        /\ Len(s) \in Nat
        /\ \A k \in 1 .. Len(s) : Append(s, entries[j])[k] = s[k]
        /\ Append(s, entries[j])[Len(s) + 1] = entries[j]
    BY <1>0, <1>11, AppendProperties
  <2>2. ASSUME NEW k \in 1 .. Len(s) + 1 PROVE k \in 1 .. Len(s) \/ k = Len(s) + 1
    BY <2>1
  <2>3. right(Append(s, entries[j]))
    <3> HIDE DEF n
    <3> QED BY <1>11, <2>1, <2>2
  <2>4. ASSUME NEW r, keeps(s, r \ {j}) PROVE keeps(Append(s, entries[j]), r)
    <3>1. \A k \in 1 .. Len(s) : k \in 1 .. Len(s) + 1
      BY <2>1
    <3>2. Len(s) + 1 \in 1 .. Len(s) + 1
      BY <2>1
    <3> SUFFICES ASSUME NEW i \in r, entries[i] # p
                 PROVE  \E k \in 1 .. Len(s) + 1 : Append(s, entries[j])[k] = entries[i]
      BY <2>1
    <3>3. CASE i = j
      BY <2>1, <3>2, <3>3
    <3>4. CASE i # j
      BY <2>1, <2>4, <3>1, <3>4
    <3> QED BY <3>3, <3>4
  <2> QED BY <2>3, <2>4
<1> HIDE DEF right
<1>12. ASSUME NEW r \in SUBSET (1 .. n), r # {}, r \ {Max(r)} \in Right PROVE r \in Right
  <2>1. Max(r) \in 1 .. n
    BY <1>0, <1>12, MaxOf
  <2>2. fold[r] = one(fold[r \ {Max(r)}], entries[Max(r)])
    BY <1>8, <1>12
  <2>3. right(fold[r \ {Max(r)}]) /\ keeps(fold[r \ {Max(r)}], r \ {Max(r)})
    BY <1>12
  <2>4. PICK s, j : s = fold[r \ {Max(r)}] /\ j = Max(r)
    OBVIOUS
  <2>5. CASE entries[j] = p
    <3>1. fold[r] = s /\ keeps(s, r)
      BY <2>2, <2>3, <2>4, <2>5 DEF one
    <3> QED BY <2>3, <2>4, <3>1
  <2>6. CASE entries[j] # p
    <3>1. fold[r] = Append(s, entries[j])
      BY <2>2, <2>4, <2>6 DEF one
    <3>2. right(s) /\ keeps(s, r \ {j}) /\ j \in 1 .. n
      BY <2>1, <2>3, <2>4
    <3> HIDE DEF keeps
    <3>3. right(Append(s, entries[j])) /\ keeps(Append(s, entries[j]), r)
      <4>1. right(Append(s, entries[j])) /\ \A t : keeps(s, t \ {j}) => keeps(Append(s, entries[j]), t)
        BY <1>11, <2>6, <3>2, Zenon
      <4> QED BY <3>2, <4>1, Zenon
    <3> QED BY <3>1, <3>3
  <2> QED BY <2>5, <2>6
<1>13. {} \in Right
  BY <1>8, <1>10
<1>14. SUBSET (1 .. n) \subseteq Right
  <2> HIDE DEF Right
  <2> QED BY <1>0, <1>12, <1>13, FoldInduction
<1>15. right(fold[1 .. n]) /\ keeps(fold[1 .. n], 1 .. n)
  BY <1>14
<1> QED BY <1>9, <1>15 DEF right, AreOthers

-----------------------------------------------------------------------------
(* Nodes whose links change.                                               *)

\* A node with other links.
LEMMA NodeWith ==
  ASSUME NEW a, NEW L, NEW x, x = [at |-> a, links |-> L], NEW K, NEW t, t = [x EXCEPT !.links = K]
  PROVE  t = [at |-> a, links |-> K]
BY SMT

\* The same nodes on the same layers.
SameNodes(nodes, new) ==
  /\ new \in Seq(Node) /\ Len(new) = Len(nodes)
  /\ \A i \in 1 .. Len(nodes) : new[i].at = nodes[i].at /\ Layers(new[i]) = Layers(nodes[i])

\* A node and its parts.
LEMMA NodeParts ==
  ASSUME NEW x \in Node
  PROVE  /\ x = [at |-> x.at, links |-> x.links]
         /\ x.at \in Points /\ x.links \in Seq(SUBSET Nat) /\ Layers(x) \in Nat
         /\ DOMAIN x.links = 1 .. Layers(x)
         /\ \A l \in 1 .. Layers(x) : x.links[l] \subseteq Nat
<1>1. x = [at |-> x.at, links |-> x.links] /\ x.at \in Points /\ x.links \in Seq(SUBSET Nat)
  BY DEF Node
<1>2. Len(x.links) \in Nat /\ DOMAIN x.links = 1 .. Len(x.links)
      /\ \A l \in 1 .. Len(x.links) : x.links[l] \in SUBSET Nat
  BY <1>1
<1> QED BY <1>1, <1>2 DEF Layers

\* Nodes that get new links, layer by layer.
Relinked(nodes, new, K) ==
  /\ new = [i \in 1 .. Len(nodes) |-> new[i]]
  /\ \A i \in 1 .. Len(nodes) :
       /\ new[i] = [nodes[i] EXCEPT !.links = K[i]]
       /\ K[i] = [l \in 1 .. Layers(nodes[i]) |-> K[i][l]]
       /\ \A l \in 1 .. Layers(nodes[i]) : K[i][l] \subseteq Nat

\* They are the same nodes.
LEMMA NodesWith ==
  ASSUME NEW nodes \in Seq(Node), NEW new, NEW K, Relinked(nodes, new, K)
  PROVE  SameNodes(nodes, new) /\ \A i \in 1 .. Len(nodes) : new[i].links = K[i]
<1>1. PICK n : n = Len(nodes)
  OBVIOUS
<1>2. n \in Nat /\ \A i \in 1 .. n : nodes[i] \in Node
  BY <1>1
<1>3. ASSUME NEW i \in 1 .. n
      PROVE  /\ new[i] \in Node /\ new[i].at = nodes[i].at /\ new[i].links = K[i]
             /\ Layers(new[i]) = Layers(nodes[i])
  <2>1. PICK a, L, m : a = nodes[i].at /\ L = nodes[i].links /\ m = Layers(nodes[i])
    OBVIOUS
  <2>2. nodes[i] = [at |-> a, links |-> L] /\ a \in Points /\ m \in Nat
    BY <1>2, <2>1, NodeParts
  <2>3. PICK x, t, F : x = nodes[i] /\ t = new[i] /\ F = K[i]
    OBVIOUS
  <2>4. t = [at |-> a, links |-> F]
    <3>1. t = [x EXCEPT !.links = F] /\ x = [at |-> a, links |-> L]
      BY <1>1, <2>2, <2>3, Zenon DEF Relinked
    <3> QED BY <3>1, NodeWith, Zenon
  <2>6. F = [l \in 1 .. m |-> F[l]] /\ \A l \in 1 .. m : F[l] \in SUBSET Nat
    BY <1>1, <2>1, <2>3 DEF Relinked
  <2>7. F \in Seq(SUBSET Nat) /\ Len(F) = m
    <3>1. PICK T : T = SUBSET Nat
      OBVIOUS
    <3>2. F \in [1 .. m -> T] /\ DOMAIN F = 1 .. m
      BY <2>6, <3>1
    <3>3. F \in Seq(T) /\ Len(F) = m
      BY <2>2, <3>2
    <3> QED BY <3>1, <3>3
  <2> QED BY <2>1, <2>2, <2>3, <2>4, <2>7 DEF Node, Layers
<1>4. new \in Seq(Node) /\ Len(new) = n
  <2>1. new = [i \in 1 .. n |-> new[i]]
    BY <1>1 DEF Relinked
  <2>2. new \in [1 .. n -> Node]
    BY <1>3, <2>1
  <2> QED BY <1>2, <2>1, <2>2
<1> QED BY <1>1, <1>3, <1>4 DEF SameNodes

\* The same nodes have the same entry point and hold the same vectors.
LEMMA SameNodesKeep ==
  ASSUME NEW nodes \in Seq(Node), NEW new, SameNodes(nodes, new)
  PROVE  /\ \A ep : EntryRight(nodes, ep) => EntryRight(new, ep)
         /\ \A p : Held(nodes, p) <=> Held(new, p)
         /\ Single(nodes) => Single(new)
<1>1. Len(nodes) \in Nat /\ new \in Seq(Node) /\ Len(new) = Len(nodes)
  BY DEF SameNodes
<1>2. new = <<>> <=> nodes = <<>>
  BY <1>1, EmptySeq
<1>3. ASSUME NEW ep, EntryRight(nodes, ep) PROVE EntryRight(new, ep)
  BY <1>1, <1>2, <1>3 DEF EntryRight, SameNodes
<1>4. ASSUME NEW p PROVE Held(nodes, p) <=> Held(new, p)
  BY <1>1, <1>4 DEF Held, SameNodes
<1>5. Single(nodes) => Single(new)
  BY <1>1 DEF Single, SameNodes
<1> QED BY <1>3, <1>4, <1>5

\* Links among fewer are right.
LEMMA FewerLinks ==
  ASSUME NEW nodes \in Seq(Node), NEW new, SameNodes(nodes, new), LinksRight(nodes),
         \A i \in 1 .. Len(nodes) : \A l \in 1 .. Layers(nodes[i]) :
           new[i].links[l] \subseteq nodes[i].links[l]
  PROVE  LinksRight(new)
<1>1. PICK n : n = Len(nodes)
  OBVIOUS
<1>2. n = Len(new) /\ \A i \in 1 .. n : Layers(new[i]) = Layers(nodes[i])
  BY <1>1 DEF SameNodes
<1>3. ASSUME NEW i \in 1 .. n PROVE Layers(new[i]) >= 1
  BY <1>1, <1>2 DEF LinksRight
<1>4. ASSUME NEW i \in 1 .. n, NEW l \in 1 .. Layers(new[i]), NEW j \in new[i].links[l]
      PROVE  j \in 1 .. n /\ j # i /\ l <= Layers(new[j])
  <2>1. l \in 1 .. Layers(nodes[i]) /\ j \in nodes[i].links[l]
    BY <1>1, <1>2
  <2>2. j \in 1 .. n /\ j # i /\ l <= Layers(nodes[j])
    BY <1>1, <2>1 DEF LinksRight
  <2> QED BY <1>2, <2>2
<1> QED BY <1>2, <1>3, <1>4 DEF LinksRight

\* prune_connections leaves links out.
LEMMA PrunedIs ==
  ASSUME NEW nodes \in Seq(Node), NEW near, NEW top, NEW k, k = Len(nodes), LinksRight(nodes)
  PROVE  SameNodes(nodes, Pruned(nodes, near, k, top)) /\ LinksRight(Pruned(nodes, near, k, top))
<1> DEFINE cut1(i, l) == /\ l - 1 \in 0 .. top
                         /\ i = k \/ <<l - 1, i>> \in near
                         /\ Cardinality(nodes[i].links[l]) > 2 * M
           kept1(i, l) == IF cut1(i, l)
                          THEN Nearest(nodes, nodes[i].links[l], nodes[i].at, 2 * M)
                          ELSE nodes[i].links[l]
           K == [i \in 1 .. k |-> [l \in DOMAIN nodes[i].links |-> kept1(i, l)]]
           new == Pruned(nodes, near, k, top)
<1>1. new = [i \in 1 .. k |-> [nodes[i] EXCEPT !.links = [l \in DOMAIN nodes[i].links |-> kept1(i, l)]]]
  BY DEF Pruned
<1>2. \A i, l : kept1(i, l) \subseteq nodes[i].links[l]
  BY DEF Nearest
<1> HIDE DEF kept1
<1>3. DOMAIN new = 1 .. k /\ new = [i \in 1 .. k |-> new[i]]
      /\ \A i \in 1 .. k : new[i] = [nodes[i] EXCEPT !.links = [l \in DOMAIN nodes[i].links |-> kept1(i, l)]]
  BY <1>1, Zenon
<1> HIDE DEF new
<1>4. ASSUME NEW i \in 1 .. k
      PROVE  /\ DOMAIN nodes[i].links = 1 .. Layers(nodes[i])
             /\ K[i] = [l \in 1 .. Layers(nodes[i]) |-> kept1(i, l)]
             /\ \A l \in 1 .. Layers(nodes[i]) : nodes[i].links[l] \subseteq Nat
  <2>1. nodes[i] \in Node
    OBVIOUS
  <2>2. DOMAIN nodes[i].links = 1 .. Layers(nodes[i])
        /\ \A l \in 1 .. Layers(nodes[i]) : nodes[i].links[l] \subseteq Nat
    BY <2>1, NodeParts
  <2> QED BY <2>2
<1>5. \A i \in 1 .. k : K[i] = [l \in DOMAIN nodes[i].links |-> kept1(i, l)]
  OBVIOUS
<1>6. \A i \in 1 .. k : new[i] = [nodes[i] EXCEPT !.links = K[i]]
  BY <1>3, <1>5, Zenon
<1> HIDE DEF K
<1>7. ASSUME NEW i \in 1 .. k
      PROVE  /\ K[i] = [l \in 1 .. Layers(nodes[i]) |-> K[i][l]]
             /\ \A l \in 1 .. Layers(nodes[i]) :
                  K[i][l] = kept1(i, l) /\ K[i][l] \subseteq Nat
  <2>1. PICK F, m : F = K[i] /\ m = Layers(nodes[i])
    OBVIOUS
  <2>2. F = [l \in 1 .. m |-> kept1(i, l)]
    BY <1>4, <2>1
  <2>3. F = [l \in 1 .. m |-> F[l]] /\ \A l \in 1 .. m : F[l] = kept1(i, l)
    BY <2>2
  <2>4. ASSUME NEW l \in 1 .. m PROVE F[l] \subseteq Nat
    BY <1>2, <1>4, <2>1, <2>3
  <2> QED BY <2>1, <2>3, <2>4
<1>8. SameNodes(nodes, new) /\ \A i \in 1 .. Len(nodes) : new[i].links = K[i]
  <2>1. Relinked(nodes, new, K)
    BY <1>3, <1>6, <1>7 DEF Relinked
  <2> QED BY <2>1, NodesWith
<1>9. \A i \in 1 .. Len(nodes) : \A l \in 1 .. Layers(nodes[i]) :
        new[i].links[l] \subseteq nodes[i].links[l]
  <2> SUFFICES ASSUME NEW i \in 1 .. k, NEW l \in 1 .. Layers(nodes[i])
               PROVE  new[i].links[l] \subseteq nodes[i].links[l]
    OBVIOUS
  <2>1. new[i].links = K[i] /\ K[i][l] = kept1(i, l)
    BY <1>7, <1>8
  <2>2. new[i].links[l] = kept1(i, l)
    BY <2>1, Zenon
  <2> QED BY <1>2, <2>2
<1>10. LinksRight(new)
  BY <1>8, <1>9, FewerLinks
<1> QED BY <1>8, <1>10 DEF new

-----------------------------------------------------------------------------
(* insert                                                                  *)

\* The neighbours found on a layer are within reach on it.
LEMMA FoundIs ==
  ASSUME NEW nodes, NEW p, NEW top, NEW ep
  PROVE  /\ \A layer : \A j \in FoundOn(Found(nodes, p, top, ep), layer) : j \in Component(nodes, layer, ep)
         /\ \A t, i : <<t, i>> \in Found(nodes, p, top, ep) => t \in 0 .. top
<1>1. ASSUME NEW f \in Found(nodes, p, top, ep)
      PROVE  \E t \in 0 .. top : \E i \in SearchLayer(nodes, p, t, M, ep) : f = <<t, i>>
  <2>1. PICK t \in 0 .. top : f \in {<<t, i>> : i \in SearchLayer(nodes, p, t, M, ep)}
    BY DEF Found
  <2> QED BY <2>1
<1>2. ASSUME NEW layer, NEW j \in FoundOn(Found(nodes, p, top, ep), layer)
      PROVE  j \in Component(nodes, layer, ep)
  <2>1. PICK f \in Found(nodes, p, top, ep) : f[1] = layer /\ j = f[2]
    BY DEF FoundOn
  <2>2. PICK t \in 0 .. top : \E i \in SearchLayer(nodes, p, t, M, ep) : f = <<t, i>>
    BY <1>1
  <2>3. PICK i \in SearchLayer(nodes, p, t, M, ep) : f = <<t, i>>
    BY <2>2
  <2>4. t = layer /\ i = j
    BY <2>1, <2>3
  <2> QED BY <2>3, <2>4 DEF SearchLayer, Nearest
<1>3. ASSUME NEW t, NEW i, <<t, i>> \in Found(nodes, p, top, ep) PROVE t \in 0 .. top
  <2>1. PICK u \in 0 .. top : \E h \in SearchLayer(nodes, p, u, M, ep) : <<t, i>> = <<u, h>>
    BY <1>1, <1>3
  <2> QED BY <2>1
<1> QED BY <1>2, <1>3

\* The links of layer 0 after that.
LinkedBoth(nodes, new, near, k, top) ==
  0 \in 0 .. top =>
    \A i \in 1 .. k : new[i].links[1] =
      IF i = k THEN FoundOn(near, 0)
      ELSE IF <<0, i>> \in near THEN nodes[i].links[1] \cup {k} ELSE nodes[i].links[1]

\* The last node is linked both ways with nodes that have the layers.
LEMMA LinkedIs ==
  ASSUME NEW nodes \in Seq(Node), NEW near, NEW top \in Int, NEW k, k = Len(nodes), k >= 1,
         LinksRight(nodes), top + 1 <= Layers(nodes[k]),
         \A l \in 1 .. top + 1 : \A j \in FoundOn(near, l - 1) :
           j \in 1 .. k - 1 /\ l <= Layers(nodes[j]),
         \A t, i : <<t, i>> \in near => t \in 0 .. top
  PROVE  /\ SameNodes(nodes, Linked(nodes, near, k, top)) /\ LinksRight(Linked(nodes, near, k, top))
         /\ LinkedBoth(nodes, Linked(nodes, near, k, top), near, k, top)
<1> DEFINE linked1(i, l) == CASE l - 1 \in 0 .. top /\ i = k -> FoundOn(near, l - 1)
                              [] i # k /\ <<l - 1, i>> \in near -> nodes[i].links[l] \cup {k}
                              [] OTHER -> nodes[i].links[l]
           K == [i \in 1 .. k |-> [l \in DOMAIN nodes[i].links |-> linked1(i, l)]]
           new == Linked(nodes, near, k, top)
<1>1. new = [i \in 1 .. k |-> [nodes[i] EXCEPT !.links = [l \in DOMAIN nodes[i].links |-> linked1(i, l)]]]
  BY DEF Linked
<1>2. ASSUME NEW i \in 1 .. k, NEW l \in Nat \ {0}
      PROVE  \/ linked1(i, l) = nodes[i].links[l]
             \/ l \in 1 .. top + 1 /\ i = k /\ linked1(i, l) = FoundOn(near, l - 1)
             \/ l \in 1 .. top + 1 /\ i # k /\ linked1(i, l) = nodes[i].links[l] \cup {k}
  <2>1. CASE l - 1 \notin 0 .. top /\ i = k
    BY <2>1
  <2>2. CASE l - 1 \in 0 .. top /\ i = k
    BY <2>2
  <2>3. CASE i # k /\ <<l - 1, i>> \in near
    BY <2>3
  <2>4. CASE i # k /\ <<l - 1, i>> \notin near
    BY <2>4
  <2> QED BY <2>1, <2>2, <2>3, <2>4
<1>a. ASSUME 0 \in 0 .. top, NEW i \in 1 .. k
      PROVE  linked1(i, 1) = IF i = k THEN FoundOn(near, 0)
                             ELSE IF <<0, i>> \in near THEN nodes[i].links[1] \cup {k}
                             ELSE nodes[i].links[1]
  <2>1. 1 - 1 = 0
    OBVIOUS
  <2>2. CASE i = k
    BY <1>a, <2>1, <2>2
  <2>3. CASE i # k /\ <<0, i>> \in near
    BY <2>1, <2>3
  <2>4. CASE i # k /\ <<0, i>> \notin near
    BY <2>1, <2>4
  <2> QED BY <2>2, <2>3, <2>4
<1> HIDE DEF linked1
<1>3. new = [i \in 1 .. k |-> new[i]]
      /\ \A i \in 1 .. k : new[i] = [nodes[i] EXCEPT !.links = [l \in DOMAIN nodes[i].links |-> linked1(i, l)]]
  BY <1>1, Zenon
<1> HIDE DEF new
<1>4. ASSUME NEW i \in 1 .. k
      PROVE  /\ DOMAIN nodes[i].links = 1 .. Layers(nodes[i]) /\ Layers(nodes[i]) \in Nat
             /\ \A l \in 1 .. Layers(nodes[i]) : nodes[i].links[l] \subseteq Nat
  <2>1. nodes[i] \in Node
    OBVIOUS
  <2> QED BY <2>1, NodeParts
<1>5. ASSUME NEW i \in 1 .. k, NEW l \in 1 .. Layers(nodes[i]), NEW j \in linked1(i, l)
      PROVE  j \in 1 .. k /\ j # i /\ l <= Layers(nodes[j])
  <2>1. l \in Nat \ {0} /\ k \in Nat
    BY <1>4
  <2>2. CASE j \in nodes[i].links[l]
    BY <2>2 DEF LinksRight
  <2>3. CASE l \in 1 .. top + 1 /\ i = k /\ j \in FoundOn(near, l - 1)
    BY <2>1, <2>3
  <2>4. CASE l \in 1 .. top + 1 /\ i # k /\ j = k
    <3>1. k \in 1 .. k /\ Layers(nodes[k]) \in Nat
      BY <1>4, <2>1
    <3> QED BY <2>1, <2>4, <3>1
  <2> QED BY <1>2, <2>1, <2>2, <2>3, <2>4
<1>6. \A i \in 1 .. k : K[i] = [l \in DOMAIN nodes[i].links |-> linked1(i, l)]
  OBVIOUS
<1>7. \A i \in 1 .. k : new[i] = [nodes[i] EXCEPT !.links = K[i]]
  BY <1>3, <1>6, Zenon
<1> HIDE DEF K
<1>8. ASSUME NEW i \in 1 .. k
      PROVE  /\ K[i] = [l \in 1 .. Layers(nodes[i]) |-> K[i][l]]
             /\ \A l \in 1 .. Layers(nodes[i]) :
                  K[i][l] = linked1(i, l) /\ K[i][l] \subseteq Nat
  <2>1. PICK F, m : F = K[i] /\ m = Layers(nodes[i])
    OBVIOUS
  <2>2. F = [l \in 1 .. m |-> linked1(i, l)]
    BY <1>4, <1>6, <2>1
  <2>3. F = [l \in 1 .. m |-> F[l]] /\ \A l \in 1 .. m : F[l] = linked1(i, l)
    BY <2>2
  <2>4. ASSUME NEW l \in 1 .. m PROVE F[l] \subseteq Nat
    BY <1>5, <2>1, <2>3
  <2> QED BY <2>1, <2>3, <2>4
<1>9. SameNodes(nodes, new) /\ \A i \in 1 .. k : new[i].links = K[i]
  <2>1. Relinked(nodes, new, K)
    BY <1>3, <1>7, <1>8 DEF Relinked
  <2> QED BY <2>1, NodesWith
<1>10. Len(new) = k /\ \A i \in 1 .. k : Layers(new[i]) = Layers(nodes[i])
  BY <1>9 DEF SameNodes
<1>11. ASSUME NEW i \in 1 .. k, NEW l \in 1 .. Layers(new[i]), NEW j \in new[i].links[l]
       PROVE  j \in 1 .. k /\ j # i /\ l <= Layers(new[j])
  <2>1. l \in 1 .. Layers(nodes[i]) /\ new[i].links = K[i] /\ K[i][l] = linked1(i, l)
    BY <1>8, <1>9, <1>10
  <2>2. new[i].links[l] = linked1(i, l)
    BY <2>1, Zenon
  <2> QED BY <1>5, <1>10, <2>1, <2>2
<1>12. \A i \in 1 .. k : Layers(new[i]) >= 1
  BY <1>10 DEF LinksRight
<1>13. LinksRight(new)
  BY <1>10, <1>11, <1>12 DEF LinksRight
<1>14. LinkedBoth(nodes, new, near, k, top)
  <2> SUFFICES ASSUME 0 \in 0 .. top, NEW i \in 1 .. k
               PROVE  new[i].links[1] = linked1(i, 1)
    BY <1>a DEF LinkedBoth
  <2>1. 1 \in 1 .. Layers(nodes[i])
    BY <1>4 DEF LinksRight
  <2>2. new[i].links = K[i] /\ K[i][1] = linked1(i, 1)
    BY <1>8, <1>9, <2>1
  <2> QED BY <2>2, Zenon
<1> QED BY <1>9, <1>13, <1>14 DEF new

\* A new node k behind the others.
AddedTo(nodes, added, k, p, level) ==
  /\ added \in Seq(Node) /\ Len(added) = k /\ k \in Nat \ {0} /\ k = Len(nodes) + 1
  /\ \A i \in 1 .. k - 1 : added[i] = nodes[i]
  /\ added[k].at = p /\ Layers(added[k]) = level + 1
  /\ LinksRight(added)

\* It has no links yet.
LEMMA AddedIs ==
  ASSUME NEW nodes \in Seq(Node), LinksRight(nodes), NEW p \in Points, NEW level \in Nat
  PROVE  AddedTo(nodes, Append(nodes, NewNode(p, level)), Len(nodes) + 1, p, level)
<1>0. PICK added, k : added = Append(nodes, NewNode(p, level)) /\ k = Len(nodes) + 1
  OBVIOUS
<1>1. /\ NewNode(p, level) \in Node /\ NewNode(p, level).at = p
      /\ Layers(NewNode(p, level)) = level + 1
      /\ \A l \in 1 .. level + 1 : NewNode(p, level).links[l] = {}
  <2>1. PICK F, T, m : F = [l \in 1 .. level + 1 |-> {}] /\ T = SUBSET Nat /\ m = level + 1
    OBVIOUS
  <2>2. F \in [1 .. m -> T] /\ DOMAIN F = 1 .. m /\ m \in Nat /\ \A l \in 1 .. m : F[l] = {}
    BY <2>1
  <2>3. F \in Seq(T) /\ Len(F) = m
    BY <2>2
  <2>4. NewNode(p, level) = [at |-> p, links |-> F]
    BY <2>1 DEF NewNode
  <2> QED BY <2>1, <2>2, <2>3, <2>4 DEF Node, Layers
<1>2. /\ added \in Seq(Node) /\ Len(added) = k /\ k \in Nat \ {0}
      /\ \A i \in 1 .. k - 1 : added[i] = nodes[i]
      /\ added[k] = NewNode(p, level)
  BY <1>0, <1>1, AppendProperties
<1>3. ASSUME NEW i \in 1 .. k PROVE i = k \/ i \in 1 .. Len(nodes)
  BY <1>0, <1>2
<1>4. ASSUME NEW i \in 1 .. k PROVE Layers(added[i]) >= 1
  <2>1. CASE i = k
    BY <1>1, <1>2, <2>1
  <2>2. CASE i \in 1 .. Len(nodes)
    BY <1>0, <1>2, <2>2 DEF LinksRight
  <2> QED BY <1>3, <2>1, <2>2
<1>5. ASSUME NEW i \in 1 .. k, NEW l \in 1 .. Layers(added[i]), NEW j \in added[i].links[l]
      PROVE  j \in 1 .. k /\ j # i /\ l <= Layers(added[j])
  <2>1. i \in 1 .. Len(nodes) /\ added[i] = nodes[i]
    <3>1. i # k
      BY <1>1, <1>2, <1>5
    <3> QED BY <1>0, <1>2, <1>3, <3>1
  <2>2. j \in 1 .. Len(nodes) /\ j # i /\ l <= Layers(nodes[j])
    BY <2>1 DEF LinksRight
  <2>3. j \in 1 .. k /\ added[j] = nodes[j]
    BY <1>0, <1>2, <2>2
  <2> QED BY <2>2, <2>3
<1>6. LinksRight(added)
  BY <1>2, <1>4, <1>5 DEF LinksRight
<1> QED BY <1>0, <1>1, <1>2, <1>6 DEF AddedTo

\* What a search on a layer reaches from an older node before the new one is
\* linked are older nodes that have the layer.
LEMMA ReachIs ==
  ASSUME NEW nodes \in Seq(Node), LinksRight(nodes),
         NEW added, NEW k, NEW p, NEW level, AddedTo(nodes, added, k, p, level),
         NEW ep \in 1 .. k - 1, NEW l \in Nat \ {0}, l <= Layers(nodes[ep]),
         NEW j \in Component(added, l - 1, ep)
  PROVE  j \in 1 .. k - 1 /\ l <= Layers(added[j])
<1>0. k \in Nat /\ k = Len(nodes) + 1 /\ added \in Seq(Node) /\ \A i \in 1 .. k - 1 : added[i] = nodes[i]
  BY DEF AddedTo
<1> DEFINE H == {i \in 1 .. k - 1 : l <= Layers(added[i])}
<1>1. ep \in H
  BY <1>0
<1>2. ASSUME NEW i \in H, NEW h \in Links(added, i, l - 1) PROVE h \in H
  <2>1. i \in 1 .. Len(nodes) /\ l <= Layers(nodes[i]) /\ added[i] = nodes[i]
    BY <1>0
  <2>2. nodes[i] \in Node
    BY <2>1
  <2>3. Layers(nodes[i]) \in Nat
    BY <2>2, NodeParts
  <2>4. l - 1 + 1 = l /\ l - 1 <= Level(added[i]) /\ l \in 1 .. Layers(nodes[i])
    BY <2>1, <2>3 DEF Level, Layers
  <2>5. h \in nodes[i].links[l]
    BY <1>2, <2>1, <2>4 DEF Links
  <2>6. h \in 1 .. Len(nodes) /\ l <= Layers(nodes[h])
    BY <2>1, <2>4, <2>5 DEF LinksRight
  <2> QED BY <1>0, <2>6
<1>3. Component(added, l - 1, ep) \subseteq H
  <2> HIDE DEF H
  <2> QED BY <1>0, <1>1, <1>2, ComponentWithin
<1> QED BY <1>3

\* The graph with a vector more.
Grown(g, new, p) ==
  /\ GraphRight(new)
  /\ \A q : Held(new.nodes, q) <=> Held(g.nodes, q) \/ q = p
  /\ Single(g.nodes) => Single(new.nodes)

\* insert up to the pruning.
LEMMA JoinedIs ==
  ASSUME NEW g, GraphRight(g), NEW p \in Points, NEW level \in Nat
  PROVE  Grown(g, Joined(g, p, level), p)
<1>1. PICK nodes, ep, k, added :
        /\ nodes = g.nodes /\ ep = g.ep /\ k = Len(nodes) + 1
        /\ added = Append(nodes, NewNode(p, level))
  OBVIOUS
<1>2. nodes \in Seq(Node) /\ LinksRight(nodes) /\ EntryRight(nodes, ep) /\ ep \in Nat
  BY <1>1 DEF GraphRight
<1>3. /\ added \in Seq(Node) /\ Len(added) = k /\ k \in Nat \ {0}
      /\ \A i \in 1 .. k - 1 : added[i] = nodes[i]
      /\ added[k].at = p /\ Layers(added[k]) = level + 1
      /\ LinksRight(added)
  <2>1. AddedTo(nodes, added, k, p, level)
    BY <1>1, <1>2, AddedIs
  <2> QED BY <2>1 DEF AddedTo
<1>4. /\ \A q : Held(added, q) <=> Held(nodes, q) \/ q = p
      /\ ~ Held(nodes, p) /\ Single(nodes) => Single(added)
  <2>1. k \in 1 .. Len(added) /\ \A i \in 1 .. Len(added) : i = k \/ i \in 1 .. Len(nodes)
    BY <1>1, <1>2, <1>3
  <2>2. \A i \in 1 .. Len(nodes) : i \in 1 .. Len(added) /\ added[i] = nodes[i]
    BY <1>1, <1>2, <1>3
  <2>3. \A q : Held(added, q) <=> Held(nodes, q) \/ q = p
    BY <1>3, <2>1, <2>2 DEF Held
  <2>4. ~ Held(nodes, p) /\ Single(nodes) => Single(added)
    BY <1>3, <2>1, <2>2 DEF Held, Single
  <2> QED BY <2>3, <2>4
<1>5. ASSUME NEW new, SameNodes(added, new), LinksRight(new), NEW e, EntryRight(added, e), e \in Nat,
             ~ Held(nodes, p)
      PROVE  Grown(g, [nodes |-> new, ep |-> e], p)
  <2>1. /\ EntryRight(new, e) /\ \A q : Held(new, q) <=> Held(nodes, q) \/ q = p
        /\ Single(nodes) => Single(new)
    BY <1>3, <1>4, <1>5, SameNodesKeep
  <2>2. new \in Seq(Node)
    BY <1>5 DEF SameNodes
  <2> QED BY <1>1, <1>5, <2>1, <2>2 DEF Grown, GraphRight
<1>6. CASE Holds(g, p)
  <2>1. Joined(g, p, level) = g
    BY <1>6 DEF Joined
  <2>2. Held(nodes, p)
    BY <1>1, <1>2, <1>6 DEF Holds, Held
  <2> QED BY <1>1, <2>1, <2>2 DEF Grown
<1>a. ASSUME ~Holds(g, p) PROVE ~ Held(nodes, p)
  BY <1>1, <1>2, <1>a DEF Holds, Held
<1>7. CASE ~Holds(g, p) /\ ep = 0
  <2>1. Joined(g, p, level) = [nodes |-> added, ep |-> k]
    BY <1>1, <1>7 DEF Joined
  <2>2. nodes = <<>> /\ k = 1
    BY <1>1, <1>2, <1>7 DEF EntryRight
  <2>3. EntryRight(added, k)
    BY <1>3, <2>2 DEF EntryRight
  <2>4. SameNodes(added, added)
    BY <1>3 DEF SameNodes
  <2> QED BY <1>3, <1>5, <1>7, <1>a, <2>1, <2>3, <2>4
<1>8. CASE ~Holds(g, p) /\ ep # 0
  <2>1. PICK high, top : high = Level(nodes[ep]) /\ top = IF level < high THEN level ELSE high
    OBVIOUS
  <2>2. PICK near : near = Found(added, p, top, ep)
    OBVIOUS
  <2>3. Joined(g, p, level) = [nodes |-> Linked(added, near, k, top), ep |-> IF level >= high THEN k ELSE ep]
    BY <1>1, <1>8, <2>1, <2>2 DEF Joined
  <2>4. /\ ep \in 1 .. k - 1 /\ nodes[ep] \in Node
        /\ \A i \in 1 .. k - 1 : Layers(nodes[i]) <= Layers(nodes[ep])
    BY <1>1, <1>2, <1>3, <1>8 DEF EntryRight
  <2>5. Layers(nodes[ep]) \in Nat /\ Layers(nodes[ep]) = high + 1 /\ high \in Int /\ top \in Int
    <3>1. Layers(nodes[ep]) \in Nat
      BY <2>4, NodeParts
    <3> QED BY <2>1, <3>1 DEF Level, Layers
  <2>6. top + 1 <= level + 1 /\ top + 1 <= Layers(nodes[ep])
    BY <2>1, <2>5
  <2>7. ASSUME NEW l \in 1 .. top + 1, NEW j \in FoundOn(near, l - 1)
        PROVE  j \in 1 .. k - 1 /\ l <= Layers(added[j])
    <3>1. j \in Component(added, l - 1, ep)
      BY <2>2, <2>7, FoundIs
    <3>2. l \in Nat \ {0} /\ l <= Layers(nodes[ep]) /\ k \in Nat
      BY <1>3, <2>5, <2>6
    <3>3. AddedTo(nodes, added, k, p, level)
      BY <1>1, <1>2, AddedIs
    <3> QED BY <1>2, <2>4, <3>1, <3>2, <3>3, ReachIs
  <2>8. \A t, i : <<t, i>> \in near => t \in 0 .. top
    BY <2>2, FoundIs
  <2>9. SameNodes(added, Linked(added, near, k, top)) /\ LinksRight(Linked(added, near, k, top))
    <3>1. k >= 1 /\ top + 1 <= Layers(added[k])
      BY <1>3, <2>6
    <3> QED BY <1>3, <2>5, <2>7, <2>8, <3>1, LinkedIs
  <2>10. PICK e : e = IF level >= high THEN k ELSE ep
    OBVIOUS
  <2>11. EntryRight(added, e) /\ e \in Nat
    <3>1. added # <<>> /\ k \in 1 .. k /\ ep \in 1 .. k /\ added[ep] = nodes[ep]
      BY <1>3, <2>4
    <3>2. e \in 1 .. k /\ e \in Nat
      BY <1>3, <2>10, <3>1
    <3>3. ASSUME NEW i \in 1 .. k PROVE Layers(added[i]) <= Layers(added[e])
      <4>1. i = k \/ i \in 1 .. k - 1
        BY <1>3
      <4>2. CASE i = k /\ level >= high
        BY <1>3, <2>10, <4>2
      <4>3. CASE i = k /\ ~(level >= high)
        BY <1>3, <2>5, <2>10, <3>1, <4>3
      <4>4. CASE i \in 1 .. k - 1
        <5>1. added[i] = nodes[i] /\ nodes[i] \in Node /\ Layers(nodes[i]) <= high + 1
          BY <1>1, <1>2, <1>3, <2>4, <2>5, <4>4
        <5>2. Layers(nodes[i]) \in Nat
          BY <5>1, NodeParts
        <5> QED BY <1>3, <2>5, <2>10, <3>1, <5>1, <5>2
      <4> QED BY <4>1, <4>2, <4>3, <4>4
    <3> QED BY <1>3, <3>1, <3>2, <3>3 DEF EntryRight
  <2> QED BY <1>5, <1>8, <1>a, <2>3, <2>9, <2>10, <2>11
<1> QED BY <1>6, <1>7, <1>8

\* insert.
LEMMA InsertedIs ==
  ASSUME NEW g, GraphRight(g), NEW p \in Points, NEW level \in Nat
  PROVE  Grown(g, HnswInserted(g, p, level), p)
<1>1. PICK joined, high, top :
        /\ joined = Joined(g, p, level) /\ high = Level(g.nodes[g.ep])
        /\ top = IF level < high THEN level ELSE high
  OBVIOUS
<1>2. Grown(g, joined, p)
  BY <1>1, JoinedIs
<1>3. CASE Holds(g, p) \/ g.ep = 0
  <2>1. HnswInserted(g, p, level) = joined
    BY <1>1, <1>3 DEF HnswInserted
  <2> QED BY <1>2, <2>1
<1>4. CASE ~(Holds(g, p) \/ g.ep = 0)
  <2>1. PICK nodes, ep, near, pruned :
          /\ nodes = joined.nodes /\ ep = joined.ep
          /\ near = Found(nodes, p, top, g.ep)
          /\ pruned = Pruned(nodes, near, Len(nodes), top)
    OBVIOUS
  <2>2. HnswInserted(g, p, level) = [joined EXCEPT !.nodes = pruned]
    BY <1>1, <1>4, <2>1 DEF HnswInserted
  <2>3. /\ joined = [nodes |-> nodes, ep |-> ep] /\ nodes \in Seq(Node) /\ ep \in Nat
        /\ LinksRight(nodes) /\ EntryRight(nodes, ep)
        /\ \A q : Held(nodes, q) <=> Held(g.nodes, q) \/ q = p
        /\ Single(g.nodes) => Single(nodes)
    BY <1>2, <2>1 DEF Grown, GraphRight
  <2>4. SameNodes(nodes, pruned) /\ LinksRight(pruned)
    BY <2>1, <2>3, PrunedIs
  <2>5. /\ pruned \in Seq(Node) /\ EntryRight(pruned, ep)
        /\ \A q : Held(nodes, q) <=> Held(pruned, q)
        /\ Single(nodes) => Single(pruned)
    BY <2>3, <2>4, SameNodesKeep DEF SameNodes
  <2>6. [joined EXCEPT !.nodes = pruned] = [nodes |-> pruned, ep |-> ep]
    BY <2>3
  <2> QED BY <2>2, <2>3, <2>4, <2>5, <2>6 DEF Grown, GraphRight
<1> QED BY <1>3, <1>4

-----------------------------------------------------------------------------
(* remove                                                                  *)

\* Where a node was before node k was removed.
Before(i, k) == IF i < k THEN i ELSE i + 1

\* The nodes but one, in order.
LEMMA RemovedIs ==
  ASSUME NEW nodes \in Seq(Node), NEW k \in 1 .. Len(nodes), NEW i \in 1 .. Len(nodes) - 1
  PROVE  /\ Before(i, k) \in 1 .. Len(nodes) /\ Before(i, k) # k
         /\ RemoveAt(nodes, k)[i] = nodes[Before(i, k)]
<1>1. PICK n : n = Len(nodes)
  OBVIOUS
<1>2. n \in Nat /\ k \in 1 .. n /\ i \in 1 .. n - 1 /\ \A m \in 1 .. n : nodes[m] \in Node
  BY <1>1
<1>3. PICK head, tail : head = SubSeq(nodes, 1, k - 1) /\ tail = SubSeq(nodes, k + 1, n)
  OBVIOUS
<1>4. /\ head \in Seq(Node) /\ Len(head) = k - 1
      /\ \A m \in 1 .. k - 1 : head[m] = nodes[m]
  <2>1. 1 \in Int /\ k - 1 \in Int /\ \A m \in 1 .. k - 1 : nodes[m] \in Node
    BY <1>2
  <2>2. /\ head \in Seq(Node) /\ Len(head) = (IF 1 <= k - 1 THEN k - 1 - 1 + 1 ELSE 0)
        /\ \A m \in 1 .. k - 1 - 1 + 1 : head[m] = nodes[1 + m - 1]
    BY <1>3, <2>1, SubSeqProperties
  <2> QED BY <1>2, <2>2
<1>5. /\ tail \in Seq(Node) /\ Len(tail) = n - k
      /\ \A m \in 1 .. n - k : tail[m] = nodes[k + m]
  <2>1. k + 1 \in Int /\ n \in Int /\ \A m \in k + 1 .. n : nodes[m] \in Node
    BY <1>2
  <2>2. /\ tail \in Seq(Node) /\ Len(tail) = (IF k + 1 <= n THEN n - (k + 1) + 1 ELSE 0)
        /\ \A m \in 1 .. n - (k + 1) + 1 : tail[m] = nodes[k + 1 + m - 1]
    BY <1>3, <2>1, SubSeqProperties
  <2>3. \A m \in 1 .. n - k : m \in 1 .. n - (k + 1) + 1 /\ k + 1 + m - 1 = k + m
    BY <1>2
  <2> QED BY <1>2, <2>2, <2>3
<1>6. \A m \in 1 .. Len(head) + Len(tail) :
        (head \o tail)[m] = IF m <= Len(head) THEN head[m] ELSE tail[m - Len(head)]
  BY <1>4, <1>5, ConcatProperties
<1>7. RemoveAt(nodes, k) = head \o tail
  BY <1>1, <1>3 DEF RemoveAt
<1>8. CASE i < k
  <2>1. i \in 1 .. Len(head) + Len(tail) /\ i <= Len(head) /\ i \in 1 .. k - 1
    BY <1>2, <1>4, <1>5, <1>8
  <2>2. (head \o tail)[i] = nodes[i]
    BY <1>4, <1>6, <2>1
  <2>3. Before(i, k) = i
    BY <1>8 DEF Before
  <2> QED BY <1>1, <1>2, <1>7, <1>8, <2>2, <2>3
<1>9. CASE ~(i < k)
  <2>1. /\ i \in 1 .. Len(head) + Len(tail) /\ ~(i <= Len(head)) /\ i - Len(head) = i - (k - 1)
        /\ i - (k - 1) \in 1 .. n - k /\ k + (i - (k - 1)) = i + 1
    BY <1>2, <1>4, <1>5, <1>9
  <2>2. (head \o tail)[i] = nodes[i + 1]
    BY <1>5, <1>6, <2>1
  <2>3. Before(i, k) = i + 1
    BY <1>9 DEF Before
  <2> QED BY <1>1, <1>2, <1>7, <1>9, <2>2, <2>3
<1> QED BY <1>8, <1>9

\* The numbers move up by one behind the node.
LEMMA ShiftedIs ==
  ASSUME NEW n \in Nat, NEW k \in 1 .. n
  PROVE  /\ \A j \in (1 .. n) \ {k} : Shifted(j, k) \in 1 .. n - 1 /\ Before(Shifted(j, k), k) = j
         /\ \A i \in 1 .. n - 1 : \A j \in (1 .. n) \ {k} : Shifted(j, k) = i => j = Before(i, k)
BY DEF Shifted, Before

\* What is left of the nodes.
IsLeft(nodes, new, k) ==
  /\ new \in Seq(Node) /\ Len(new) = Len(nodes) - 1
  /\ \A i \in 1 .. Len(nodes) - 1 :
       /\ Before(i, k) \in 1 .. Len(nodes) /\ Before(i, k) # k
       /\ new[i].at = nodes[Before(i, k)].at
       /\ Layers(new[i]) = Layers(nodes[Before(i, k)])

\* Their links lead where they led.
LEMMA WithoutIs ==
  ASSUME NEW nodes \in Seq(Node), LinksRight(nodes), NEW k \in 1 .. Len(nodes)
  PROVE  IsLeft(nodes, WithoutNode(nodes, k), k) /\ LinksRight(WithoutNode(nodes, k))
<1>0. PICK new : new = WithoutNode(nodes, k)
  OBVIOUS
<1> DEFINE left(i, l) == {Shifted(j, k) : j \in nodes[Before(i, k)].links[l] \ {k}}
<1>1. PICK n : n = Len(nodes)
  OBVIOUS
<1>2. n \in Nat /\ k \in 1 .. n /\ \A m \in 1 .. n : nodes[m] \in Node
  BY <1>1
<1>3. \A i \in 1 .. n - 1 : /\ Before(i, k) \in 1 .. n /\ Before(i, k) # k
                            /\ RemoveAt(nodes, k)[i] = nodes[Before(i, k)]
  BY <1>1, RemovedIs
<1>4. /\ \A j \in (1 .. n) \ {k} : Shifted(j, k) \in 1 .. n - 1 /\ Before(Shifted(j, k), k) = j
      /\ \A i \in 1 .. n - 1 : \A j \in (1 .. n) \ {k} : Shifted(j, k) = i => j = Before(i, k)
  BY <1>2, ShiftedIs
<1>5. new = [i \in 1 .. n - 1 |->
               [RemoveAt(nodes, k)[i] EXCEPT !.links =
                  [l \in DOMAIN RemoveAt(nodes, k)[i].links |->
                     {Shifted(j, k) : j \in RemoveAt(nodes, k)[i].links[l] \ {k}}]]]
  BY <1>0, <1>1 DEF WithoutNode
<1>6. ASSUME NEW i \in 1 .. n - 1, NEW l \in 1 .. Layers(nodes[Before(i, k)]), NEW j \in left(i, l)
      PROVE  /\ j \in 1 .. n - 1 /\ j # i /\ Before(j, k) \in 1 .. n
             /\ l <= Layers(nodes[Before(j, k)])
  <2>1. PICK h \in nodes[Before(i, k)].links[l] \ {k} : j = Shifted(h, k)
    OBVIOUS
  <2>2. h \in 1 .. n /\ h # Before(i, k) /\ l <= Layers(nodes[h])
    BY <1>1, <1>3, <2>1 DEF LinksRight
  <2> QED BY <1>4, <2>1, <2>2
<1> HIDE DEF left
<1>7. ASSUME NEW i \in 1 .. n - 1
      PROVE  /\ new[i] \in Node /\ new[i].at = nodes[Before(i, k)].at
             /\ Layers(new[i]) = Layers(nodes[Before(i, k)])
             /\ \A l \in 1 .. Layers(nodes[Before(i, k)]) : new[i].links[l] = left(i, l)
  <2>1. PICK x, a, L, m, t :
          x = nodes[Before(i, k)] /\ a = x.at /\ L = x.links /\ m = Layers(x) /\ t = new[i]
    OBVIOUS
  <2>2. x \in Node
    BY <1>2, <1>3, <2>1
  <2>3. x = [at |-> a, links |-> L] /\ a \in Points /\ m \in Nat /\ DOMAIN L = 1 .. m
    BY <2>1, <2>2, NodeParts
  <2>4. PICK F : F = [l \in DOMAIN L |-> left(i, l)]
    OBVIOUS
  <2>5. t = [x EXCEPT !.links = F]
    <3>1. RemoveAt(nodes, k)[i] = x
      BY <1>3, <2>1
    <3>2. t = [x EXCEPT !.links = [l \in DOMAIN L |-> {Shifted(j, k) : j \in L[l] \ {k}}]]
      <4>1. new[i] = [RemoveAt(nodes, k)[i] EXCEPT !.links =
                        [l \in DOMAIN RemoveAt(nodes, k)[i].links |->
                           {Shifted(j, k) : j \in RemoveAt(nodes, k)[i].links[l] \ {k}}]]
        BY <1>5, Zenon
      <4>2. new[i] = [x EXCEPT !.links =
                        [l \in DOMAIN x.links |-> {Shifted(j, k) : j \in x.links[l] \ {k}}]]
        BY <3>1, <4>1, Zenon
      <4>3. L = x.links /\ t = new[i]
        BY <2>1
      <4> QED BY <4>2, <4>3, Zenon
    <3>3. F = [l \in DOMAIN L |-> {Shifted(j, k) : j \in L[l] \ {k}}]
      BY <2>1, <2>4, Zenon DEF left
    <3> QED BY <3>2, <3>3, Zenon
  <2>6. t = [at |-> a, links |-> F]
    BY <2>3, <2>5, NodeWith, Zenon
  <2>7. \A l \in 1 .. m : F[l] = left(i, l) /\ left(i, l) \in SUBSET Nat
    <3>1. \A l \in 1 .. m : left(i, l) \in SUBSET Nat
      BY <1>2, <1>6, <2>1
    <3>2. \A l \in 1 .. m : F[l] = left(i, l)
      BY <2>3, <2>4
    <3> QED BY <3>1, <3>2
  <2>8. F \in Seq(SUBSET Nat) /\ Len(F) = m
    <3>1. PICK T : T = SUBSET Nat
      OBVIOUS
    <3>2. F \in [1 .. m -> T] /\ DOMAIN F = 1 .. m
      BY <2>3, <2>4, <2>7, <3>1
    <3>3. F \in Seq(T) /\ Len(F) = m
      BY <2>3, <3>2
    <3> QED BY <3>1, <3>3
  <2>9. t \in Node /\ t.at = a /\ t.links = F /\ Layers(t) = m
    BY <2>3, <2>6, <2>8 DEF Node, Layers
  <2> QED BY <2>1, <2>7, <2>9
<1>8. new \in Seq(Node) /\ Len(new) = n - 1
  <2>1. new = [i \in 1 .. n - 1 |-> new[i]]
    BY <1>5
  <2>2. new \in [1 .. n - 1 -> Node] /\ n - 1 \in Nat
    BY <1>2, <1>7, <2>1
  <2> QED BY <2>1, <2>2
<1>9. LinksRight(new)
  <2>1. \A i \in 1 .. n - 1 : Layers(new[i]) >= 1
    BY <1>1, <1>3, <1>7 DEF LinksRight
  <2>2. ASSUME NEW i \in 1 .. n - 1, NEW l \in 1 .. Layers(new[i]), NEW j \in new[i].links[l]
        PROVE  j \in 1 .. n - 1 /\ j # i /\ l <= Layers(new[j])
    <3>1. l \in 1 .. Layers(nodes[Before(i, k)]) /\ j \in left(i, l)
      BY <1>7, <2>2
    <3>2. j \in 1 .. n - 1 /\ j # i /\ l <= Layers(nodes[Before(j, k)])
      BY <1>6, <3>1
    <3> QED BY <1>7, <3>2
  <2> QED BY <1>8, <2>1, <2>2 DEF LinksRight
<1> QED BY <1>0, <1>1, <1>3, <1>7, <1>8, <1>9 DEF IsLeft

\* The entry point that remove chooses anew.
LEMMA LastHighestIs ==
  ASSUME NEW nodes \in Seq(Node), NEW b \in Nat, \A i \in 1 .. Len(nodes) : Layers(nodes[i]) \in 1 .. b
  PROVE  EntryRight(nodes, LastHighest(nodes)) /\ LastHighest(nodes) \in Nat
<1>1. PICK n : n = Len(nodes)
  OBVIOUS
<1>2. n \in Nat /\ DOMAIN nodes = 1 .. n
  BY <1>1
<1>3. CASE nodes = <<>>
  BY <1>3 DEF LastHighest, EntryRight
<1>4. CASE nodes # <<>>
  <2>1. 1 \in 1 .. n
    BY <1>1, <1>4, EmptySeq
  <2>2. PICK T : T = {Layers(nodes[i]) : i \in 1 .. n}
    OBVIOUS
  <2>3. T \in SUBSET (1 .. b) /\ T # {}
    BY <1>1, <2>1, <2>2
  <2>4. PICK top \in T : \A y \in T : y <= top
    BY <2>3, MaxOf
  <2>5. PICK S : S = {i \in 1 .. n : Layers(nodes[i]) = top}
    OBVIOUS
  <2>6. S \in SUBSET (1 .. n) /\ S # {}
    BY <2>2, <2>4, <2>5
  <2>7. PICK last \in S : \A y \in S : y <= last
    BY <1>2, <2>6, MaxOf
  <2> DEFINE right(i) == \A j \in DOMAIN nodes :
               Level(nodes[j]) < Level(nodes[i]) \/ (Level(nodes[j]) = Level(nodes[i]) /\ j <= i)
  <2>8. \A i \in 1 .. n : Layers(nodes[i]) \in Nat /\ Level(nodes[i]) = Layers(nodes[i]) - 1
    BY <1>1 DEF Level, Layers
  <2>9. last \in DOMAIN nodes /\ right(last)
    <3>1. last \in 1 .. n /\ Layers(nodes[last]) = top
      BY <2>5, <2>7
    <3>2. ASSUME NEW j \in 1 .. n
          PROVE  Level(nodes[j]) < Level(nodes[last]) \/ (Level(nodes[j]) = Level(nodes[last]) /\ j <= last)
      <4>1. Layers(nodes[j]) <= top
        BY <2>2, <2>4
      <4>2. CASE Layers(nodes[j]) = top
        <5>1. j <= last
          BY <2>5, <2>7, <4>2
        <5> QED BY <2>8, <3>1, <4>2, <5>1
      <4>3. CASE Layers(nodes[j]) # top
        BY <2>8, <3>1, <4>1, <4>3
      <4> QED BY <4>2, <4>3
    <3> QED BY <1>2, <3>1, <3>2
  <2>10. LastHighest(nodes) = CHOOSE i \in DOMAIN nodes : right(i)
    BY <1>4 DEF LastHighest
  <2>11. PICK e : e = LastHighest(nodes)
    OBVIOUS
  <2>12. e \in DOMAIN nodes /\ right(e)
    <3> HIDE DEF right
    <3> QED BY <2>9, <2>10, <2>11
  <2>13. e \in 1 .. n /\ \A j \in 1 .. n : Layers(nodes[j]) <= Layers(nodes[e])
    <3>1. e \in 1 .. n
      BY <1>2, <2>12
    <3>2. ASSUME NEW j \in 1 .. n PROVE Layers(nodes[j]) <= Layers(nodes[e])
      <4>1. Level(nodes[j]) < Level(nodes[e]) \/ Level(nodes[j]) = Level(nodes[e])
        BY <1>2, <2>12
      <4> HIDE DEF right
      <4> QED BY <2>8, <3>1, <4>1
    <3> QED BY <3>1, <3>2
  <2> QED BY <1>1, <1>4, <2>11, <2>13 DEF EntryRight
<1> QED BY <1>3, <1>4

\* remove: the graph without the node.
LEMMA HnswRemovedIs ==
  ASSUME NEW g, GraphRight(g), NEW k \in 1 .. Len(g.nodes)
  PROVE  /\ GraphRight(HnswRemoved(g, k))
         /\ \A q : q # g.nodes[k].at /\ Held(g.nodes, q) => Held(HnswRemoved(g, k).nodes, q)
         /\ Single(g.nodes) =>
              /\ Single(HnswRemoved(g, k).nodes)
              /\ \A q : Held(HnswRemoved(g, k).nodes, q) => Held(g.nodes, q) /\ q # g.nodes[k].at
<1>1. PICK nodes, ep, n, new : /\ nodes = g.nodes /\ ep = g.ep /\ n = Len(nodes)
                               /\ new = WithoutNode(nodes, k)
  OBVIOUS
<1>2. /\ nodes \in Seq(Node) /\ LinksRight(nodes) /\ EntryRight(nodes, ep) /\ ep \in Nat
      /\ n \in Nat /\ k \in 1 .. n
  BY <1>1 DEF GraphRight
<1>3. /\ new \in Seq(Node) /\ Len(new) = n - 1 /\ LinksRight(new)
      /\ \A i \in 1 .. n - 1 :
           /\ Before(i, k) \in 1 .. n /\ Before(i, k) # k
           /\ new[i].at = nodes[Before(i, k)].at
           /\ Layers(new[i]) = Layers(nodes[Before(i, k)])
  <2>1. IsLeft(nodes, new, k) /\ LinksRight(new)
    BY <1>1, <1>2, WithoutIs
  <2> QED BY <1>1, <2>1 DEF IsLeft
<1>4. \A j \in (1 .. n) \ {k} : Shifted(j, k) \in 1 .. n - 1 /\ Before(Shifted(j, k), k) = j
  BY <1>2, ShiftedIs
<1>5. PICK e : e = IF ep = k THEN LastHighest(new) ELSE Shifted(ep, k)
  OBVIOUS
<1>6. HnswRemoved(g, k) = [nodes |-> new, ep |-> e]
  BY <1>1, <1>5 DEF HnswRemoved
<1>7. /\ ep \in 1 .. n /\ nodes[ep] \in Node
      /\ \A i \in 1 .. n : Layers(nodes[i]) <= Layers(nodes[ep])
  <2>1. nodes # <<>>
    BY <1>1, <1>2
  <2> QED BY <1>1, <1>2, <2>1 DEF EntryRight
<1>8. EntryRight(new, e) /\ e \in Nat
  <2>1. CASE ep = k
    <3>1. PICK b : b = Layers(nodes[ep])
      OBVIOUS
    <3>2. b \in Nat
      BY <1>7, <3>1, NodeParts
    <3>3. ASSUME NEW i \in 1 .. Len(new) PROVE Layers(new[i]) \in 1 .. b
      <4>1. new[i] \in Node /\ Layers(new[i]) >= 1
        BY <1>3 DEF LinksRight
      <4>2. Layers(new[i]) <= b
        BY <1>3, <1>7, <3>1
      <4>3. Layers(new[i]) \in Nat
        BY <4>1, NodeParts
      <4> QED BY <3>2, <4>1, <4>2, <4>3
    <3>4. EntryRight(new, LastHighest(new)) /\ LastHighest(new) \in Nat
      BY <1>3, <3>2, <3>3, LastHighestIs
    <3> QED BY <1>5, <2>1, <3>4
  <2>2. CASE ep # k
    <3>1. e \in 1 .. n - 1 /\ Before(e, k) = ep
      BY <1>4, <1>5, <1>7, <2>2
    <3>2. new # <<>>
      BY <1>2, <1>3, <3>1
    <3>3. \A i \in 1 .. n - 1 : Layers(new[i]) <= Layers(new[e])
      BY <1>3, <1>7, <3>1
    <3> QED BY <1>2, <1>3, <3>1, <3>2, <3>3 DEF EntryRight
  <2> QED BY <2>1, <2>2
<1>9. ASSUME NEW q, q # nodes[k].at, Held(nodes, q) PROVE Held(new, q)
  <2>1. PICK j \in 1 .. n : nodes[j].at = q
    BY <1>1, <1>9 DEF Held
  <2>2. j # k
    BY <1>9, <2>1
  <2>3. PICK i \in 1 .. n - 1 : Before(i, k) = j
    BY <1>4, <2>2
  <2>4. new[i].at = q
    BY <1>3, <2>1, <2>3
  <2> QED BY <1>3, <2>4 DEF Held
<1>10. GraphRight([nodes |-> new, ep |-> e])
  BY <1>3, <1>8 DEF GraphRight
<1>11. ASSUME Single(nodes)
       PROVE  Single(new) /\ \A q : Held(new, q) => Held(nodes, q) /\ q # nodes[k].at
  <2>1. \A i, j \in 1 .. n - 1 : Before(i, k) = Before(j, k) => i = j
    BY <1>2 DEF Before
  <2>2. Single(new)
    <3> SUFFICES ASSUME NEW i \in 1 .. n - 1, NEW j \in 1 .. n - 1, new[i].at = new[j].at
                 PROVE  i = j
      BY <1>3 DEF Single
    <3>1. PICK x, y : x = Before(i, k) /\ y = Before(j, k)
      OBVIOUS
    <3>2. x \in 1 .. Len(nodes) /\ y \in 1 .. Len(nodes) /\ nodes[x].at = nodes[y].at
      BY <1>1, <1>3, <3>1
    <3>3. x = y
      BY <1>11, <3>2 DEF Single
    <3> QED BY <2>1, <3>1, <3>3
  <2>3. ASSUME NEW q, Held(new, q) PROVE Held(nodes, q) /\ q # nodes[k].at
    <3>1. PICK i \in 1 .. n - 1 : new[i].at = q
      BY <1>3, <2>3 DEF Held
    <3>2. /\ Before(i, k) \in 1 .. Len(nodes) /\ nodes[Before(i, k)].at = q /\ Before(i, k) # k
          /\ k \in 1 .. Len(nodes)
      BY <1>1, <1>2, <1>3, <3>1
    <3> QED BY <1>11, <3>2 DEF Held, Single
  <2> QED BY <2>2, <2>3
<1> QED BY <1>1, <1>6, <1>9, <1>10, <1>11

-----------------------------------------------------------------------------
(* The index.                                                              *)

\* A level that random_level draws is a number.
LEMMA LevelsAre == Levels \subseteq Nat
BY EmbeddingAssumption DEF Levels

\* Each call leaves the graph right, and with a node for each entry.
LEMMA IndexNextKeepsInv ==
  ASSUME IndexInv, [EmbeddingNext]_embeddingVars
  PROVE  IndexInv'
<1>1. /\ entries \in Seq(Points) /\ GraphRight(graph)
      /\ \A k \in 1 .. Len(entries) : Held(graph.nodes, entries[k])
      /\ \A q : Held(graph.nodes, q) => \E k \in 1 .. Len(entries) : entries[k] = q
      /\ Single(graph.nodes)
  BY DEF IndexInv
<1>2. CASE UNCHANGED embeddingVars
  BY <1>1, <1>2 DEF IndexInv, embeddingVars
<1>3. ASSUME NEW p \in Points, NEW level \in Levels, IndexInsert(p, level) PROVE IndexInv'
  <2>1. PICK g, list : g = graph' /\ list = entries'
    OBVIOUS
  <2>2. g = HnswInserted(graph, p, level) /\ list = Append(entries, p) /\ level \in Nat
    BY <1>3, <2>1, LevelsAre DEF IndexInsert
  <2>3. Grown(graph, g, p) /\ Single(graph.nodes)
    BY <1>1, <2>2, InsertedIs
  <2>4. /\ GraphRight(g) /\ Single(g.nodes)
        /\ \A q : Held(g.nodes, q) <=> Held(graph.nodes, q) \/ q = p
    BY <2>3 DEF Grown
  <2>5. /\ list \in Seq(Points) /\ Len(list) = Len(entries) + 1 /\ Len(entries) \in Nat
        /\ \A k \in 1 .. Len(entries) : list[k] = entries[k]
        /\ list[Len(entries) + 1] = p
    BY <1>1, <2>2, AppendProperties
  <2>6. ASSUME NEW k \in 1 .. Len(list) PROVE Held(g.nodes, list[k])
    <3>1. k \in 1 .. Len(entries) \/ k = Len(entries) + 1
      BY <2>5
    <3> QED BY <1>1, <2>4, <2>5, <3>1
  <2>7. ASSUME NEW q, Held(g.nodes, q) PROVE \E k \in 1 .. Len(list) : list[k] = q
    <3>1. CASE q = p
      <4>1. Len(entries) + 1 \in 1 .. Len(list)
        BY <2>5
      <4> QED BY <2>5, <3>1, <4>1
    <3>2. CASE Held(graph.nodes, q)
      <4>1. PICK k \in 1 .. Len(entries) : entries[k] = q
        BY <1>1, <3>2
      <4>2. k \in 1 .. Len(list) /\ list[k] = q
        BY <2>5, <4>1
      <4> QED BY <4>2
    <3> QED BY <2>4, <2>7, <3>1, <3>2
  <2> QED BY <2>1, <2>4, <2>5, <2>6, <2>7 DEF IndexInv
<1>4. ASSUME NEW p \in Points, IndexRemove(p) PROVE IndexInv'
  <2>1. PICK g, list : g = graph' /\ list = entries'
    OBVIOUS
  <2>2. PICK k : k = CHOOSE i \in DOMAIN graph.nodes : graph.nodes[i].at = p
    OBVIOUS
  <2>3. g = HnswRemoved(graph, k) /\ list = OfOthers(p) /\ p \in Range(entries)
    BY <1>4, <2>1, <2>2 DEF IndexRemove
  <2>4. DOMAIN graph.nodes = 1 .. Len(graph.nodes) /\ DOMAIN entries = 1 .. Len(entries)
    BY <1>1 DEF GraphRight
  <2>5. PICK h \in 1 .. Len(entries) : entries[h] = p
    BY <2>3, <2>4 DEF Range
  <2>6. Held(graph.nodes, p)
    BY <1>1, <2>5
  <2>7. k \in 1 .. Len(graph.nodes) /\ graph.nodes[k].at = p
    BY <2>2, <2>4, <2>6 DEF Held
  <2>8. /\ GraphRight(g) /\ \A q : q # p /\ Held(graph.nodes, q) => Held(g.nodes, q)
        /\ Single(g.nodes) /\ \A q : Held(g.nodes, q) => Held(graph.nodes, q) /\ q # p
    BY <1>1, <2>3, <2>7, HnswRemovedIs
  <2>9. /\ list \in Seq(Points)
        /\ \A m \in 1 .. Len(list) : list[m] # p /\ \E j \in 1 .. Len(entries) : list[m] = entries[j]
        /\ \A j \in 1 .. Len(entries) : entries[j] # p =>
             \E m \in 1 .. Len(list) : list[m] = entries[j]
    <3>1. AreOthers(list, p)
      BY <1>1, <2>3, OfOthersIs
    <3> QED BY <3>1 DEF AreOthers
  <2>10. \A m \in 1 .. Len(list) : Held(g.nodes, list[m])
    BY <1>1, <2>8, <2>9
  <2>11. ASSUME NEW q, Held(g.nodes, q) PROVE \E m \in 1 .. Len(list) : list[m] = q
    <3>1. q # p /\ Held(graph.nodes, q)
      BY <2>8, <2>11
    <3>2. PICK j \in 1 .. Len(entries) : entries[j] = q
      BY <1>1, <3>1
    <3> QED BY <2>9, <3>1, <3>2
  <2> QED BY <2>1, <2>8, <2>9, <2>10, <2>11 DEF IndexInv
<1>5. CASE IndexNew
  <2>1. PICK g, list : g = graph' /\ list = entries'
    OBVIOUS
  <2>2. g = NoGraph /\ list = <<>>
    BY <1>5, <2>1 DEF IndexNew
  <2>3. GraphRight(g) /\ Single(g.nodes) /\ \A q : ~ Held(g.nodes, q)
    BY <2>2 DEF GraphRight, NoGraph, LinksRight, EntryRight, Single, Held
  <2> QED BY <2>1, <2>2, <2>3 DEF IndexInv
<1> QED BY <1>2, <1>3, <1>4, <1>5 DEF EmbeddingNext

\* The links and the entry point of such a graph are what a search needs.
LEMMA IndexInvGraph ==
  ASSUME IndexInv
  PROVE  GraphSound
<1>1. PICK nodes, ep : nodes = graph.nodes /\ ep = graph.ep
  OBVIOUS
<1>2. /\ nodes \in Seq(Node) /\ LinksRight(nodes) /\ EntryRight(nodes, ep) /\ ep \in Nat
      /\ DOMAIN nodes = 1 .. Len(nodes) /\ Len(nodes) \in Nat
  BY <1>1 DEF IndexInv, GraphRight
<1>3. ASSUME NEW i \in DOMAIN nodes PROVE Layers(nodes[i]) \in Nat /\ Level(nodes[i]) = Layers(nodes[i]) - 1
  <2>1. nodes[i] \in Node
    BY <1>2
  <2> QED BY <2>1, NodeParts DEF Level, Layers
<1>4. ASSUME NEW i \in DOMAIN nodes, NEW l \in Levels, NEW j \in Links(nodes, i, l)
      PROVE  j \in DOMAIN nodes \ {i} /\ l <= Level(nodes[j])
  <2>1. l \in Nat
    BY LevelsAre
  <2>2. l <= Level(nodes[i]) /\ j \in nodes[i].links[l + 1]
    BY <1>4 DEF Links
  <2>3. l + 1 \in 1 .. Layers(nodes[i])
    BY <1>3, <2>1, <2>2
  <2>4. j \in 1 .. Len(nodes) /\ j # i /\ l + 1 <= Layers(nodes[j])
    BY <1>2, <2>2, <2>3 DEF LinksRight
  <2> QED BY <1>2, <1>3, <2>1, <2>4
<1>5. (ep = 0) = (nodes = <<>>)
  BY <1>2 DEF EntryRight
<1>6. ASSUME ep # 0
      PROVE  ep \in DOMAIN nodes /\ \A i \in DOMAIN nodes : Level(nodes[i]) <= Level(nodes[ep])
  <2>1. ep \in DOMAIN nodes /\ \A i \in DOMAIN nodes : Layers(nodes[i]) <= Layers(nodes[ep])
    BY <1>2, <1>6 DEF EntryRight
  <2> QED BY <1>3, <2>1
<1> QED BY <1>1, <1>4, <1>5, <1>6 DEF GraphSound

\* Whatever is inserted and removed, and whatever levels are drawn: links name
\* nodes that have the layer, and a search starts where there are the most
\* (hnsw.rs insert and remove).
THEOREM GraphStaysSound == EmbeddingSpec => []GraphSound
<1>1. EmbeddingInit => IndexInv
  BY DEF EmbeddingInit, IndexInv, GraphRight, NoGraph, LinksRight, EntryRight, Single, Held
<1>2. IndexInv /\ [EmbeddingNext]_embeddingVars => IndexInv'
  BY IndexNextKeepsInv
<1>3. IndexInv => GraphSound
  BY IndexInvGraph
<1> QED BY <1>1, <1>2, <1>3, PTL DEF EmbeddingSpec

-----------------------------------------------------------------------------
-----------------------------------------------------------------------------
(* The search is exact as long as nothing was cut.                         *)

\* No part of layer 0 is closed: from each node the links lead to all others.
Together(nodes) ==
  \A H \in SUBSET (1 .. Len(nodes)) :
    H # {} /\ (\A i \in H : nodes[i].links[1] \subseteq H) => H = 1 .. Len(nodes)

\* Links of layer 0.
LEMMA LinksBelow ==
  ASSUME NEW nodes \in Seq(Node), LinksRight(nodes), NEW i \in 1 .. Len(nodes)
  PROVE  /\ Links(nodes, i, 0) = nodes[i].links[1]
         /\ nodes[i].links[1] \subseteq (1 .. Len(nodes)) \ {i}
         /\ nodes[i].at \in Points /\ nodes[i].at \in Nat
<1>1. nodes[i] \in Node /\ Layers(nodes[i]) >= 1
  BY DEF LinksRight
<1>2. Layers(nodes[i]) \in Nat /\ nodes[i].at \in Points
  BY <1>1, NodeParts
<1>3. 0 <= Level(nodes[i]) /\ 1 \in 1 .. Layers(nodes[i])
  BY <1>1, <1>2 DEF Level, Layers
<1>4. nodes[i].links[1] \subseteq (1 .. Len(nodes)) \ {i}
  BY <1>3 DEF LinksRight
<1>5. nodes[i].at \in Nat
  BY <1>2, HnswAssumption
<1>6. 0 + 1 = 1
  OBVIOUS
<1>7. Links(nodes, i, 0) = nodes[i].links[1]
  BY <1>3, <1>6, Zenon DEF Links
<1> QED BY <1>2, <1>4, <1>5, <1>7

\* A search finds the node it starts from.
LEMMA StartFound ==
  ASSUME NEW S, NEW nodes \in Seq(S), NEW layer, NEW H, NEW start \in H,
         \A i \in H : Links(nodes, i, layer) \subseteq H
  PROVE  start \in Component(nodes, layer, start)
<1>1. PICK n : n = Len(nodes)
  OBVIOUS
<1>2. PICK fold : /\ Rounds(fold, nodes, layer, start, H)
                  /\ Component(nodes, layer, start) = fold[1 .. Len(nodes)]
  BY ComponentRounds
<1>3. \A r \in SUBSET (1 .. n) : fold[r] = IF r = {} THEN {start}
        ELSE fold[r \ {Max(r)}] \cup UNION {Links(nodes, i, layer) : i \in fold[r \ {Max(r)}]}
  BY <1>1, <1>2 DEF Rounds
<1> DEFINE Good == {r \in SUBSET (1 .. n) : start \in fold[r]}
<1>4. {} \in Good
  BY <1>3
<1>5. ASSUME NEW r \in SUBSET (1 .. n), r # {}, r \ {Max(r)} \in Good PROVE r \in Good
  <2>1. fold[r \ {Max(r)}] \subseteq fold[r]
    BY <1>3, <1>5
  <2> QED BY <1>5, <2>1
<1>6. n \in Nat
  BY <1>1
<1>7. SUBSET (1 .. n) \subseteq Good
  <2> HIDE DEF Good
  <2> QED BY <1>4, <1>5, <1>6, FoldInduction
<1> QED BY <1>1, <1>2, <1>7

\* As many rounds as there are nodes find all of them: each round that does not
\* come to an end finds one more.
LEMMA ComponentAll ==
  ASSUME NEW nodes \in Seq(Node), LinksRight(nodes), Together(nodes),
         NEW start \in 1 .. Len(nodes)
  PROVE  Component(nodes, 0, start) = 1 .. Len(nodes)
<1>1. PICK n : n = Len(nodes)
  OBVIOUS
<1>2. n \in Nat /\ start \in 1 .. n /\ IsFiniteSet(1 .. n) /\ Cardinality(1 .. n) = n
  <2>1. n \in Nat
    BY <1>1
  <2>2. Cardinality(1 .. n) = IF 1 > n THEN 0 ELSE n - 1 + 1
    BY <2>1, FS_Interval
  <2>3. IsFiniteSet(1 .. n)
    BY <2>1, FS_Interval
  <2> QED BY <1>1, <2>1, <2>2, <2>3
<1>3. \A i \in 1 .. n : Links(nodes, i, 0) = nodes[i].links[1] /\ Links(nodes, i, 0) \subseteq 1 .. n
  BY <1>1, LinksBelow
<1>4. PICK fold : /\ Rounds(fold, nodes, 0, start, 1 .. n)
                  /\ Component(nodes, 0, start) = fold[1 .. n]
  <2>1. PICK H : H = 1 .. n
    OBVIOUS
  <2>2. start \in H /\ \A i \in H : Links(nodes, i, 0) \subseteq H
    BY <1>2, <1>3, <2>1
  <2>3. \E fold : /\ Rounds(fold, nodes, 0, start, H)
                  /\ Component(nodes, 0, start) = fold[1 .. Len(nodes)]
    BY <2>2, ComponentRounds
  <2> QED BY <1>1, <2>1, <2>3
<1> DEFINE closed(s) == \A i \in s : Links(nodes, i, 0) \subseteq s
           one(s) == s \cup UNION {Links(nodes, i, 0) : i \in s}
           Good == {r \in SUBSET (1 .. n) :
                      start \in fold[r] /\ (closed(fold[r]) \/ Cardinality(fold[r]) > Cardinality(r))}
<1>5. \A s \in SUBSET (1 .. n) : IsFiniteSet(s) /\ Cardinality(s) \in Nat
  BY <1>2, FS_Subset, FS_CardinalityType
<1>6. {} \in Good
  <2>1. fold[{}] = {start}
    BY <1>1, <1>4 DEF Rounds
  <2>2. Cardinality({start}) = 1 /\ Cardinality({}) = 0
    BY FS_Singleton, FS_EmptySet
  <2>3. start \in fold[{}] /\ Cardinality(fold[{}]) > Cardinality({})
    BY <2>1, <2>2
  <2> QED BY <2>3
<1>7. ASSUME NEW r \in SUBSET (1 .. n), r # {}, r \ {Max(r)} \in Good PROVE r \in Good
  <2>1. PICK s, t, m : s = fold[r \ {m}] /\ t = fold[r] /\ m = Max(r)
    OBVIOUS
  <2>2. s \subseteq 1 .. n /\ t \subseteq 1 .. n /\ t = one(s)
    BY <1>1, <1>4, <1>7, <2>1 DEF Rounds
  <2>3. start \in s /\ (closed(s) \/ Cardinality(s) > Cardinality(r \ {m}))
    BY <1>7, <2>1
  <2>4. Cardinality(r \ {m}) = Cardinality(r) - 1
    BY <1>2, <1>5, <1>7, <2>1, MaxOf, FS_RemoveElement
  <2>5. CASE closed(s)
    <3>1. t = s
      BY <2>2, <2>5
    <3> QED BY <2>1, <2>3, <2>5, <3>1
  <2>6. CASE ~ closed(s)
    <3>1. PICK i \in s : \E x \in Links(nodes, i, 0) : x \notin s
      BY <2>6
    <3>a. PICK x \in Links(nodes, i, 0) : x \notin s
      BY <3>1
    <3>2. x \in t /\ s \subseteq t /\ x \in 1 .. n
      BY <1>3, <2>2, <3>1, <3>a
    <3>3. Cardinality(s \cup {x}) = Cardinality(s) + 1
      BY <1>5, <2>2, <3>a, FS_AddElement
    <3>4. Cardinality(s \cup {x}) <= Cardinality(t)
      BY <1>5, <2>2, <3>2, FS_Subset
    <3>5. Cardinality(s) \in Nat /\ Cardinality(t) \in Nat /\ Cardinality(r) \in Nat
      BY <1>5, <2>2
    <3>6. Cardinality(t) > Cardinality(r)
      BY <2>3, <2>4, <2>6, <3>3, <3>4, <3>5
    <3> QED BY <2>1, <2>3, <3>2, <3>6
  <2> QED BY <2>5, <2>6
<1>8. 1 .. n \in Good
  <2> HIDE DEF Good
  <2> QED BY <1>2, <1>6, <1>7, FoldInduction
<1>9. PICK all : all = fold[1 .. n]
  OBVIOUS
<1>10. all \subseteq 1 .. n /\ start \in all /\ (closed(all) \/ Cardinality(all) > n)
  BY <1>1, <1>2, <1>4, <1>8, <1>9 DEF Rounds
<1>11. Cardinality(all) <= n /\ Cardinality(all) \in Nat
  BY <1>2, <1>5, <1>10, FS_Subset
<1>12. closed(all)
  BY <1>2, <1>10, <1>11
<1>13. \A i \in all : nodes[i].links[1] \subseteq all
  BY <1>3, <1>10, <1>12
<1>14. all = 1 .. n
  BY <1>1, <1>10, <1>13 DEF Together
<1> QED BY <1>1, <1>4, <1>9, <1>14

\* Distances are numbers.
LEMMA AwayIs == \A p, q \in Points : Away(p, q) \in Nat
BY HnswAssumption DEF Away

\* Of some nodes one is the nearest.
LEMMA NearestSome ==
  ASSUME NEW nodes, NEW S, S # {}, \A i \in S : nodes[i].at \in Points,
         NEW p \in Points, NEW n \in Nat \ {0}
  PROVE  Nearest(nodes, S, p, n) # {}
<1> DEFINE T == {Away(p, nodes[i].at) : i \in S}
<1>1. T \in SUBSET Nat /\ T # {}
  BY AwayIs
<1>2. PICK x \in T : \A y \in T : x <= y
  <2> HIDE DEF T
  <2> QED BY <1>1, LeastIn
<1>3. PICK i \in S : x = Away(p, nodes[i].at)
  OBVIOUS
<1>4. ASSUME NEW j \in S PROVE ~ (Away(p, nodes[j].at) < Away(p, nodes[i].at))
  <2>1. x <= Away(p, nodes[j].at) /\ Away(p, nodes[j].at) \in Nat /\ x \in Nat
    BY <1>1, <1>2
  <2> QED BY <1>3, <2>1
<1>5. {j \in S : Away(p, nodes[j].at) < Away(p, nodes[i].at)} = {}
  BY <1>4
<1>6. Cardinality({j \in S : Away(p, nodes[j].at) < Away(p, nodes[i].at)}) < n
  <2>1. Cardinality({j \in S : Away(p, nodes[j].at) < Away(p, nodes[i].at)}) = 0
    BY <1>5, FS_EmptySet, Zenon
  <2> QED BY <2>1
<1> QED BY <1>3, <1>6 DEF Nearest

\* greedy_search_layer stays among the nodes.
LEMMA GreedyIn ==
  ASSUME NEW nodes \in Seq(Node), LinksRight(nodes), NEW p \in Points, NEW layer \in Nat,
         NEW start \in 1 .. Len(nodes)
  PROVE  GreedySearchLayer(nodes, p, layer, start) \in 1 .. Len(nodes)
<1> DEFINE n == Len(nodes)
           one(at, x) == CHOOSE i \in Nearest(nodes, {at} \cup Links(nodes, at, layer), p, 1) : TRUE
           turn(f, r) == IF r = {} THEN start ELSE one(f[r \ {Max(r)}], nodes[Max(r)])
           body(f) == [r \in SUBSET (1 .. n) |-> turn(f, r)]
           fold == CHOOSE f : f = body(f)
           step == [t \in (1 .. n) \X (1 .. n) |-> one(t[2], t[1])]
<1>0. n \in Nat /\ DOMAIN nodes = 1 .. n
  OBVIOUS
<1>1. ASSUME NEW at \in 1 .. n, NEW x PROVE one(at, x) \in 1 .. n
  <2>1. nodes[at] \in Node
    OBVIOUS
  <2>2. Layers(nodes[at]) \in Nat
    BY <2>1, NodeParts
  <2>3. Links(nodes, at, layer) \subseteq 1 .. n
    <3>1. CASE layer <= Level(nodes[at])
      <4>1. layer + 1 \in 1 .. Layers(nodes[at])
        BY <2>2, <3>1 DEF Level, Layers
      <4>2. nodes[at].links[layer + 1] \subseteq 1 .. n
        BY <4>1 DEF LinksRight
      <4> QED BY <3>1, <4>2 DEF Links
    <3>2. CASE ~ (layer <= Level(nodes[at]))
      BY <3>2 DEF Links
    <3> QED BY <3>1, <3>2
  <2>4. PICK S : S = {at} \cup Links(nodes, at, layer)
    OBVIOUS
  <2>5. S # {} /\ S \subseteq 1 .. n
    BY <2>3, <2>4
  <2>6. \A i \in S : nodes[i].at \in Points
    BY <2>5, LinksBelow
  <2>7. Nearest(nodes, S, p, 1) # {}
    <3>1. 1 \in Nat \ {0} /\ S # {} /\ \A i \in S : nodes[i].at \in Points
      BY <2>5, <2>6
    <3> QED BY <3>1, NearestSome, Zenon
  <2>8. Nearest(nodes, S, p, 1) \subseteq 1 .. n
    BY <2>5 DEF Nearest
  <2>9. PICK T : T = Nearest(nodes, S, p, 1)
    OBVIOUS
  <2>10. (CHOOSE i \in T : TRUE) \in 1 .. n
    BY <2>7, <2>8, <2>9
  <2>11. one(at, x) = CHOOSE i \in T : TRUE
    BY <2>4, <2>9, Zenon
  <2> QED BY <2>10, <2>11
<1>2. step \in [(1 .. n) \X (1 .. n) -> 1 .. n] /\ start \in 1 .. n
  <2> HIDE DEF one
  <2> QED BY <1>1
<1>3. \A k, at \in 1 .. n : step[k, at] = one(at, nodes[k])
  OBVIOUS
<1> HIDE DEF step, one
<1>4. PICK f \in [SUBSET (1 .. n) -> 1 .. n] :
        \A r \in SUBSET (1 .. n) : f[r] = FoldStep(step, start, f, r)
  <2>1. FoldsIn(1 .. n, n, step, start)
    BY <1>0, <1>2 DEF FoldsIn
  <2>2. \E f : Results(f, 1 .. n, n, step, start)
    <3> HIDE DEF n
    <3> QED BY <2>1, FoldExists
  <2> QED BY <2>2 DEF Results
<1>5. ASSUME NEW r \in SUBSET (1 .. n) PROVE f[r] = turn(f, r)
  <2>1. CASE r = {}
    BY <1>4, <2>1 DEF FoldStep
  <2>2. CASE r # {}
    <3>1. Max(r) \in 1 .. n /\ r \ {Max(r)} \in SUBSET (1 .. n)
      BY <1>0, <2>2, MaxOf
    <3>2. f[r \ {Max(r)}] \in 1 .. n
      BY <1>4, <3>1
    <3>3. f[r] = step[Max(r), f[r \ {Max(r)}]]
      BY <1>4, <2>2 DEF FoldStep
    <3> QED BY <1>3, <2>2, <3>1, <3>2, <3>3
  <2> QED BY <2>1, <2>2
<1>6. f = body(f)
  <2> HIDE DEF turn
  <2> QED BY <1>4, <1>5
<1>7. fold = body(fold)
  <2> HIDE DEF body
  <2> QED BY <1>6
<1>8. \A r \in SUBSET (1 .. n) : fold[r] = turn(fold, r)
  <2> HIDE DEF turn, fold
  <2> QED BY <1>7
<1>9. GreedySearchLayer(nodes, p, layer, start) = fold[1 .. n]
  BY <1>0, Zenon DEF GreedySearchLayer, FoldLeft, MapThenFoldSet, one
<1> HIDE DEF fold
<1> DEFINE Inside == {r \in SUBSET (1 .. n) : fold[r] \in 1 .. n}
<1>10. {} \in Inside
  BY <1>2, <1>8
<1>11. ASSUME NEW r \in SUBSET (1 .. n), r # {}, r \ {Max(r)} \in Inside PROVE r \in Inside
  <2>1. fold[r] = one(fold[r \ {Max(r)}], nodes[Max(r)])
    BY <1>8, <1>11
  <2>2. one(fold[r \ {Max(r)}], nodes[Max(r)]) \in 1 .. n
    BY <1>1, <1>11
  <2> QED BY <2>1, <2>2
<1>12. SUBSET (1 .. n) \subseteq Inside
  <2> HIDE DEF Inside
  <2> QED BY <1>0, <1>10, <1>11, FoldInduction
<1> QED BY <1>9, <1>12

\* What holds of 0 and comes from a number to the next one holds up to n.
LEMMA UpTo ==
  ASSUME NEW n \in Nat, NEW Good, 0 \in Good,
         \A k \in 1 .. n : k - 1 \in Good => k \in Good
  PROVE  0 .. n \subseteq Good
<1> DEFINE bad == {k \in 0 .. n : k \notin Good}
<1>1. ASSUME bad # {} PROVE FALSE
  <2>1. bad \in SUBSET Nat
    OBVIOUS
  <2>2. PICK k \in bad : \A y \in bad : k <= y
    <3> HIDE DEF bad
    <3> QED BY <1>1, <2>1, LeastIn
  <2>3. k \in 1 .. n /\ k - 1 \in 0 .. n
    OBVIOUS
  <2>4. k - 1 \in Good
    BY <2>2, <2>3
  <2> QED BY <2>3, <2>4
<1> QED BY <1>1

\* A function from the top down: one step a layer.
Descends(f, n, top, step) ==
  \A layer \in 1 .. n + 1 : f[layer] = IF layer = n + 1 THEN top ELSE step[layer, f[layer + 1]]

\* There is one.
LEMMA Descent ==
  ASSUME NEW n \in Nat, NEW A, NEW top \in A, NEW step \in [(1 .. n) \X A -> A]
  PROVE  \E f \in [1 .. n + 1 -> A] : Descends(f, n, top, step)
<1> DEFINE down(f, k) == \A layer \in n + 1 - k .. n + 1 :
               f[layer] = IF layer = n + 1 THEN top ELSE step[layer, f[layer + 1]]
           Good == {k \in 0 .. n : \E f \in [n + 1 - k .. n + 1 -> A] : down(f, k)}
<1>1. 0 \in Good
  <2> DEFINE f == [layer \in n + 1 .. n + 1 |-> top]
  <2>1. f \in [n + 1 - 0 .. n + 1 -> A] /\ down(f, 0)
    OBVIOUS
  <2> HIDE DEF f, down
  <2> QED BY <2>1
<1>2. ASSUME NEW k \in 1 .. n, k - 1 \in Good PROVE k \in Good
  <2>1. PICK low : low = n + 1 - k
    OBVIOUS
  <2>2. low \in 1 .. n /\ n + 1 - (k - 1) = low + 1
    BY <2>1
  <2>3. PICK g \in [low + 1 .. n + 1 -> A] : down(g, k - 1)
    BY <1>2, <2>2
  <2>4. PICK x : x = step[low, g[low + 1]]
    OBVIOUS
  <2>5. x \in A
    <3>1. g[low + 1] \in A
      BY <2>2
    <3> QED BY <2>2, <2>4, <3>1
  <2> DEFINE f == [layer \in low .. n + 1 |-> IF layer = low THEN x ELSE g[layer]]
  <2>6. f \in [low .. n + 1 -> A] /\ f[low] = x /\ \A l \in low + 1 .. n + 1 : f[l] = g[l]
    <3>1. \A l \in low .. n + 1 : l = low \/ (l \in low + 1 .. n + 1 /\ l # low)
      BY <2>2
    <3>2. \A l \in low + 1 .. n + 1 : l \in low .. n + 1 /\ l # low /\ g[l] \in A
      BY <2>2
    <3>3. low \in low .. n + 1
      BY <2>2
    <3> QED BY <2>5, <3>1, <3>2, <3>3
  <2> HIDE DEF f
  <2>8. ASSUME NEW layer \in low .. n + 1
        PROVE  f[layer] = IF layer = n + 1 THEN top ELSE step[layer, f[layer + 1]]
    <3>1. CASE layer = low
      <4>1. low # n + 1 /\ low + 1 \in low + 1 .. n + 1
        BY <2>2
      <4>2. f[low + 1] = g[low + 1]
        BY <2>6, <4>1
      <4> QED BY <2>4, <2>6, <3>1, <4>1, <4>2, Zenon
    <3>2. CASE layer # low
      <4>1. layer \in low + 1 .. n + 1 /\ n + 1 - (k - 1) .. n + 1 = low + 1 .. n + 1
        BY <2>2, <3>2
      <4>2. g[layer] = IF layer = n + 1 THEN top ELSE step[layer, g[layer + 1]]
        BY <2>3, <4>1, Zenon
      <4>3. CASE layer = n + 1
        BY <2>6, <4>1, <4>2, <4>3
      <4>4. CASE layer # n + 1
        <5>1. layer + 1 \in low + 1 .. n + 1
          BY <2>2, <4>1, <4>4
        <5>2. f[layer + 1] = g[layer + 1] /\ f[layer] = g[layer]
          BY <2>6, <4>1, <5>1
        <5> QED BY <4>2, <4>4, <5>2, Zenon
      <4> QED BY <4>3, <4>4
    <3> QED BY <3>1, <3>2
  <2>7. f \in [n + 1 - k .. n + 1 -> A] /\ down(f, k)
    BY <2>1, <2>6, <2>8
  <2> HIDE DEF down
  <2> QED BY <2>7
<1>3. n \in Good
  <2> HIDE DEF Good
  <2>1. 0 .. n \subseteq Good
    BY <1>1, <1>2, UpTo
  <2> QED BY <2>1
<1>4. PICK f \in [n + 1 - n .. n + 1 -> A] : down(f, n)
  BY <1>3
<1>5. n + 1 - n = 1
  OBVIOUS
<1> QED BY <1>4, <1>5 DEF Descends

\* The search reaches layer 0 at one of the nodes, and there compares all.
LEMMA SearchAll ==
  ASSUME NEW g, GraphRight(g), Together(g.nodes), g.nodes # <<>>, NEW p \in Points, NEW n
  PROVE  HnswSearch(g, p, n) = Nearest(g.nodes, 1 .. Len(g.nodes), p, n)
<1>1. PICK nodes, ep, high : nodes = g.nodes /\ ep = g.ep /\ high = Level(nodes[ep])
  OBVIOUS
<1>2. nodes \in Seq(Node) /\ LinksRight(nodes) /\ EntryRight(nodes, ep)
  BY <1>1 DEF GraphRight
<1>3. ep \in 1 .. Len(nodes) /\ ep # 0 /\ nodes[ep] \in Node
  <2>1. ep \in 1 .. Len(nodes)
    BY <1>1, <1>2 DEF EntryRight
  <2> QED BY <1>2, <2>1
<1>4. high \in Nat
  <2>1. Layers(nodes[ep]) \in Nat /\ Layers(nodes[ep]) >= 1
    BY <1>2, <1>3, NodeParts DEF LinksRight
  <2> QED BY <1>1, <2>1 DEF Level, Layers
<1> DEFINE down(f, layer) == IF layer = high + 1 THEN ep
                             ELSE GreedySearchLayer(nodes, p, layer, f[layer + 1])
           start == CHOOSE f : f = [layer \in 1 .. high + 1 |-> down(f, layer)]
           step == [t \in (1 .. high) \X (1 .. Len(nodes)) |-> GreedySearchLayer(nodes, p, t[1], t[2])]
<1>5. step \in [(1 .. high) \X (1 .. Len(nodes)) -> 1 .. Len(nodes)]
  <2>1. ASSUME NEW t \in (1 .. high) \X (1 .. Len(nodes))
        PROVE  GreedySearchLayer(nodes, p, t[1], t[2]) \in 1 .. Len(nodes)
    <3>1. t[1] \in Nat /\ t[2] \in 1 .. Len(nodes)
      BY <1>4
    <3> QED BY <1>2, <3>1, GreedyIn
  <2> QED BY <2>1
<1>6. \A layer \in 1 .. high, at \in 1 .. Len(nodes) :
        step[layer, at] = GreedySearchLayer(nodes, p, layer, at)
  OBVIOUS
<1> HIDE DEF step
<1>7. PICK f \in [1 .. high + 1 -> 1 .. Len(nodes)] : Descends(f, high, ep, step)
  BY <1>3, <1>4, <1>5, Descent
<1>8. f = [layer \in 1 .. high + 1 |-> down(f, layer)]
  <2>1. ASSUME NEW layer \in 1 .. high + 1 PROVE f[layer] = down(f, layer)
    <3>1. CASE layer = high + 1
      BY <1>7, <3>1 DEF Descends
    <3>2. CASE layer # high + 1
      <4>1. layer \in 1 .. high /\ layer + 1 \in 1 .. high + 1
        BY <1>4, <3>2
      <4>2. f[layer + 1] \in 1 .. Len(nodes)
        BY <1>7, <4>1
      <4>3. f[layer] = step[layer, f[layer + 1]]
        BY <1>7, <3>2 DEF Descends
      <4>4. f[layer] = GreedySearchLayer(nodes, p, layer, f[layer + 1])
        BY <1>6, <4>1, <4>2, <4>3
      <4> QED BY <3>2, <4>4
    <3> QED BY <3>1, <3>2
  <2> HIDE DEF down
  <2> QED BY <1>7, <2>1
<1>9. start = [layer \in 1 .. high + 1 |-> down(start, layer)]
  <2>1. \E h : h = [layer \in 1 .. high + 1 |-> down(h, layer)]
    BY <1>8, Zenon
  <2> HIDE DEF down
  <2> QED BY <2>1, Zenon
<1>10. HnswSearch(g, p, n) = SearchLayer(nodes, p, 0, n, start[1])
  BY <1>1, <1>3, Zenon DEF HnswSearch
<1> HIDE DEF start
<1> DEFINE Good == {k \in 0 .. high : start[high + 1 - k] \in 1 .. Len(nodes)}
<1>11. \A layer \in 1 .. high + 1 : start[layer] = down(start, layer)
  <2> HIDE DEF down
  <2> QED BY <1>9
<1>12. 0 \in Good
  <2>1. high + 1 \in 1 .. high + 1 /\ high + 1 - 0 = high + 1
    BY <1>4
  <2>2. start[high + 1] = ep
    BY <1>11, <2>1
  <2> QED BY <1>3, <1>4, <2>1, <2>2
<1>13. ASSUME NEW k \in 1 .. high, k - 1 \in Good PROVE k \in Good
  <2>1. PICK low, at : low = high + 1 - k /\ at = start[low + 1]
    OBVIOUS
  <2>2. low \in 1 .. high /\ high + 1 - (k - 1) = low + 1
    BY <1>4, <2>1
  <2>3. at \in 1 .. Len(nodes)
    BY <1>13, <2>1, <2>2
  <2>4. low \in 1 .. high + 1 /\ low # high + 1 /\ low \in Nat
    BY <1>4, <2>2
  <2>5. start[low] = GreedySearchLayer(nodes, p, low, at)
    BY <1>11, <2>1, <2>4
  <2>6. start[low] \in 1 .. Len(nodes)
    BY <1>2, <2>3, <2>4, <2>5, GreedyIn
  <2> QED BY <1>4, <2>1, <2>6
<1>14. start[1] \in 1 .. Len(nodes)
  <2>1. 0 .. high \subseteq Good
    <3> HIDE DEF Good
    <3> QED BY <1>4, <1>12, <1>13, UpTo
  <2>2. high \in 0 .. high /\ high + 1 - high = 1
    BY <1>4
  <2>3. high \in Good
    BY <2>1, <2>2
  <2>4. start[high + 1 - high] \in 1 .. Len(nodes)
    BY <2>3
  <2> QED BY <2>2, <2>4
<1>15. Component(nodes, 0, start[1]) = 1 .. Len(nodes)
  BY <1>1, <1>2, <1>14, ComponentAll
<1> QED BY <1>1, <1>10, <1>15 DEF SearchLayer

\* A list of m rows that has each id once, at the places given.
Lists(list, m, at, ids) ==
  /\ m \in Nat /\ at \in [1 .. m -> Points] /\ ids = {at[i] : i \in 1 .. m}
  /\ \A i, j \in 1 .. m : at[i] = at[j] => i = j
  /\ \A i \in 1 .. m : list[i].at = at[i]

\* The nearest n of some ids.
Closest(ids, p, n) == {q \in ids : Cardinality({r \in ids : Away(p, r) < Away(p, q)}) < n}

\* The nearest of such a list are those of its ids.
LEMMA NearestIds ==
  ASSUME NEW list, NEW m, NEW at, NEW ids, Lists(list, m, at, ids), NEW p \in Points, NEW n
  PROVE  \A q : (\E i \in Nearest(list, 1 .. m, p, n) : q = at[i]) <=> q \in Closest(ids, p, n)
<1>0. /\ m \in Nat /\ at \in [1 .. m -> Points] /\ ids = {at[i] : i \in 1 .. m}
      /\ \A i, j \in 1 .. m : at[i] = at[j] => i = j
      /\ \A i \in 1 .. m : list[i].at = at[i]
  BY DEF Lists
<1> DEFINE A(i) == {j \in 1 .. m : Away(p, list[j].at) < Away(p, list[i].at)}
           B(q) == {r \in ids : Away(p, r) < Away(p, q)}
<1>1. ASSUME NEW i \in 1 .. m PROVE Cardinality(A(i)) = Cardinality(B(at[i]))
  <2>1. PICK S, T : S = A(i) /\ T = B(at[i])
    OBVIOUS
  <2>2. \A j \in 1 .. m : j \in S <=> at[j] \in T
    BY <1>0, <2>1
  <2>3. \A r \in T : \E j \in S : r = at[j]
    BY <1>0, <2>1, <2>2
  <2>4. S \subseteq 1 .. m
    BY <2>1
  <2> DEFINE f == [j \in S |-> at[j]]
  <2>5. f \in [S -> T] /\ \A j \in S : f[j] = at[j]
    BY <1>0, <2>2, <2>4
  <2> HIDE DEF f
  <2>6. f \in Bijection(S, T)
    <3>1. ASSUME NEW x \in S, NEW y \in S, f[x] = f[y] PROVE x = y
      <4>1. x \in 1 .. m /\ y \in 1 .. m /\ at[x] = at[y]
        BY <2>4, <2>5, <3>1
      <4> QED BY <1>0, <4>1
    <3>2. DOMAIN f = S
      BY <2>5
    <3>3. IsInjective(f)
      BY <3>1, <3>2 DEF IsInjective
    <3>4. \A t \in T : \E x \in S : f[x] = t
      BY <2>3, <2>5
    <3> QED BY <2>5, <3>3, <3>4 DEF Bijection, Injection, Surjection
  <2>7. IsFiniteSet(S)
    <3>1. IsFiniteSet(1 .. m)
      BY <1>0, FS_Interval
    <3> QED BY <2>4, <3>1, FS_Subset
  <2>8. Cardinality(T) = Cardinality(S)
    BY <2>6, <2>7, FS_Bijection DEF ExistsBijection
  <2> QED BY <2>1, <2>8
<1> HIDE DEF A, B
<1>2. Nearest(list, 1 .. m, p, n) = {i \in 1 .. m : Cardinality(A(i)) < n}
  BY <1>0 DEF Nearest, A
<1>3. {i \in 1 .. m : Cardinality(A(i)) < n} = {i \in 1 .. m : Cardinality(B(at[i])) < n}
  BY <1>1
<1>4. {at[i] : i \in {j \in 1 .. m : Cardinality(B(at[j])) < n}} = {q \in ids : Cardinality(B(q)) < n}
  BY <1>0
<1>5. {at[i] : i \in Nearest(list, 1 .. m, p, n)} = Closest(ids, p, n)
  BY <1>2, <1>3, <1>4, Zenon DEF B, Closest
<1> QED BY <1>5

-----------------------------------------------------------------------------

\* A node that is linked both ways with one of a layer hangs together with it.
LEMMA LinkedTogether ==
  ASSUME NEW nodes \in Seq(Node), NEW added, NEW k, NEW p, NEW level,
         AddedTo(nodes, added, k, p, level), LinksRight(nodes), Together(nodes),
         NEW new \in Seq(Node), Len(new) = k, NEW near,
         new[k].links[1] = FoundOn(near, 0),
         \A i \in 1 .. k - 1 : /\ added[i].links[1] \subseteq new[i].links[1]
                               /\ <<0, i>> \in near => k \in new[i].links[1],
         NEW h \in 1 .. k - 1, <<0, h>> \in near,
         FoundOn(near, 0) \subseteq 1 .. k - 1
  PROVE  Together(new)
<1>1. /\ k \in Nat \ {0} /\ Len(nodes) = k - 1 /\ \A i \in 1 .. k - 1 : added[i] = nodes[i]
  BY DEF AddedTo
<1>2. h \in FoundOn(near, 0)
  <2>1. PICK f : f = <<0, h>>
    OBVIOUS
  <2>2. f \in near /\ f[1] = 0 /\ f[2] = h
    BY <2>1
  <2>3. f[2] \in FoundOn(near, 0)
    BY <2>2, Zenon DEF FoundOn
  <2> QED BY <2>2, <2>3
<1> SUFFICES ASSUME NEW H \in SUBSET (1 .. k), H # {}, \A i \in H : new[i].links[1] \subseteq H
             PROVE  H = 1 .. k
  BY DEF Together
<1> DEFINE old == H \ {k}
<1>3. old \in SUBSET (1 .. k - 1)
  BY <1>1
<1>4. ASSUME NEW i \in old PROVE nodes[i].links[1] \subseteq old
  <2>1. i \in 1 .. k - 1 /\ i \in 1 .. k /\ i # k /\ i \in H
    BY <1>1, <1>3
  <2>2. nodes[i].links[1] \subseteq new[i].links[1]
    <3>1. added[i] = nodes[i] /\ added[i].links[1] \subseteq new[i].links[1]
      BY <1>1, <2>1
    <3> QED BY <3>1
  <2>3. nodes[i].links[1] \subseteq 1 .. k - 1
    BY <1>1, <2>1, LinksBelow
  <2> QED BY <1>1, <2>1, <2>2, <2>3
<1>5. old # {}
  <2>1. CASE k \in H
    <3>1. new[k].links[1] \subseteq H /\ k \in 1 .. k
      BY <1>1, <2>1
    <3>2. h \in H /\ h # k
      BY <1>1, <1>2, <3>1
    <3> QED BY <3>2
  <2>2. CASE k \notin H
    BY <2>2
  <2> QED BY <2>1, <2>2
<1>6. old = 1 .. k - 1
  <2> HIDE DEF old
  <2> QED BY <1>1, <1>3, <1>4, <1>5 DEF Together
<1>7. h \in H /\ h \in 1 .. k /\ h # k
  BY <1>1, <1>6
<1>8. k \in H
  BY <1>7
<1>9. ASSUME NEW i \in 1 .. k PROVE i \in H
  <2>1. i = k \/ i \in 1 .. k - 1
    BY <1>1
  <2> QED BY <1>6, <1>8, <2>1
<1> QED BY <1>9

\* insert up to the pruning.
LEMMA JoinedTogether ==
  ASSUME NEW g, GraphRight(g), Together(g.nodes), NEW p \in Points, NEW level \in Nat
  PROVE  Together(Joined(g, p, level).nodes)
<1>1. PICK nodes, ep, k, added :
        /\ nodes = g.nodes /\ ep = g.ep /\ k = Len(nodes) + 1
        /\ added = Append(nodes, NewNode(p, level))
  OBVIOUS
<1>2. nodes \in Seq(Node) /\ LinksRight(nodes) /\ EntryRight(nodes, ep) /\ Together(nodes)
  BY <1>1 DEF GraphRight
<1>3. AddedTo(nodes, added, k, p, level)
  BY <1>1, <1>2, AddedIs
<1>4. /\ added \in Seq(Node) /\ Len(added) = k /\ k \in Nat \ {0} /\ LinksRight(added)
      /\ \A i \in 1 .. k - 1 : added[i] = nodes[i]
      /\ Layers(added[k]) = level + 1
  BY <1>3 DEF AddedTo
<1>5. CASE Holds(g, p)
  BY <1>1, <1>2, <1>5 DEF Joined
<1>6. CASE ~Holds(g, p) /\ ep = 0
  <2>1. Joined(g, p, level) = [nodes |-> added, ep |-> k]
    BY <1>1, <1>6 DEF Joined
  <2>2. nodes = <<>> /\ k = 1
    BY <1>1, <1>2, <1>6 DEF EntryRight
  <2>3. ASSUME NEW H \in SUBSET (1 .. 1), H # {} PROVE H = 1 .. 1
    <3>1. \A x \in H : x = 1
      OBVIOUS
    <3>2. 1 \in H
      BY <2>3, <3>1
    <3>3. \A x \in 1 .. 1 : x = 1
      OBVIOUS
    <3> QED BY <3>1, <3>2, <3>3
  <2>4. Together(added)
    BY <1>4, <2>2, <2>3 DEF Together
  <2> QED BY <2>1, <2>4
<1>7. CASE ~Holds(g, p) /\ ep # 0
  <2>1. PICK high, top : high = Level(nodes[ep]) /\ top = IF level < high THEN level ELSE high
    OBVIOUS
  <2>2. PICK near, new : near = Found(added, p, top, ep) /\ new = Linked(added, near, k, top)
    OBVIOUS
  <2>3. Joined(g, p, level) = [nodes |-> new, ep |-> IF level >= high THEN k ELSE ep]
    BY <1>1, <1>7, <2>1, <2>2 DEF Joined
  <2>4. ep \in 1 .. k - 1 /\ nodes[ep] \in Node /\ Layers(nodes[ep]) >= 1
    BY <1>1, <1>2, <1>4, <1>7 DEF EntryRight, LinksRight
  <2>5. Layers(nodes[ep]) \in Nat /\ Layers(nodes[ep]) = high + 1 /\ high \in Nat /\ top \in Nat
    <3>1. Layers(nodes[ep]) \in Nat
      BY <2>4, NodeParts
    <3> QED BY <2>1, <2>4, <3>1 DEF Level, Layers
  <2>6. top + 1 <= level + 1 /\ top + 1 <= Layers(nodes[ep]) /\ 0 \in 0 .. top
    BY <2>1, <2>5
  <2>7. ASSUME NEW l \in 1 .. top + 1, NEW j \in FoundOn(near, l - 1)
        PROVE  j \in 1 .. k - 1 /\ l <= Layers(added[j])
    <3>1. j \in Component(added, l - 1, ep)
      BY <2>2, <2>7, FoundIs
    <3>2. l \in Nat \ {0} /\ l <= Layers(nodes[ep])
      BY <2>5, <2>6
    <3> QED BY <1>2, <1>3, <2>4, <3>1, <3>2, ReachIs
  <2>8. \A t, i : <<t, i>> \in near => t \in 0 .. top
    BY <2>2, FoundIs
  <2>9. SameNodes(added, new) /\ LinkedBoth(added, new, near, k, top)
    <3>1. k >= 1 /\ top + 1 <= Layers(added[k]) /\ top \in Int
      BY <1>4, <2>5, <2>6
    <3> QED BY <1>4, <2>2, <2>7, <2>8, <3>1, LinkedIs
  <2>10. new \in Seq(Node) /\ Len(new) = k
    BY <1>4, <2>9 DEF SameNodes
  <2>11. FoundOn(near, 0) \subseteq 1 .. k - 1
    <3>1. 1 \in 1 .. top + 1 /\ 1 - 1 = 0
      BY <2>5
    <3> QED BY <2>7, <3>1
  <2>12. PICK h \in 1 .. k - 1 : <<0, h>> \in near
    <3>1. ep \in Component(added, 0, ep) /\ Component(added, 0, ep) \subseteq 1 .. k - 1
      <4>1. \A i \in 1 .. k - 1 : Links(added, i, 0) \subseteq 1 .. k - 1
        <5> SUFFICES ASSUME NEW i \in 1 .. k - 1 PROVE Links(added, i, 0) \subseteq 1 .. k - 1
          OBVIOUS
        <5>1. i \in 1 .. Len(nodes) /\ added[i] = nodes[i] /\ Len(nodes) = k - 1
          BY <1>1, <1>2, <1>4
        <5>2. Links(nodes, i, 0) \subseteq 1 .. k - 1
          BY <1>2, <5>1, LinksBelow
        <5>3. Links(added, i, 0) = Links(nodes, i, 0)
          BY <5>1 DEF Links
        <5> QED BY <5>2, <5>3
      <4>2. PICK H : H = 1 .. k - 1
        OBVIOUS
      <4>3. Component(added, 0, ep) \subseteq H
        BY <1>4, <2>4, <4>1, <4>2, ComponentWithin
      <4>4. ep \in Component(added, 0, ep)
        BY <1>4, <2>4, <4>1, <4>2, StartFound
      <4> QED BY <4>2, <4>3, <4>4
    <3>2. PICK S : S = Component(added, 0, ep)
      OBVIOUS
    <3>3. \A i \in S : added[i].at \in Points
      <4> SUFFICES ASSUME NEW i \in 1 .. k PROVE added[i].at \in Points
        BY <1>4, <3>1, <3>2
      <4> QED BY <1>4, LinksBelow
    <3>4. Nearest(added, S, p, M) # {}
      BY <3>1, <3>2, <3>3, NearestSome, HnswAssumption
    <3>5. PICK h \in Nearest(added, S, p, M) : TRUE
      BY <3>4
    <3>6. h \in S
      BY <3>5 DEF Nearest
    <3>7. <<0, h>> \in near
      BY <2>2, <2>6, <3>2, <3>5 DEF Found, SearchLayer
    <3> QED BY <3>1, <3>2, <3>6, <3>7
  <2>13. /\ new[k].links[1] = FoundOn(near, 0)
         /\ \A i \in 1 .. k - 1 : /\ added[i].links[1] \subseteq new[i].links[1]
                                  /\ <<0, i>> \in near => k \in new[i].links[1]
    <3>1. \A i \in 1 .. k : new[i].links[1] =
            IF i = k THEN FoundOn(near, 0)
            ELSE IF <<0, i>> \in near THEN added[i].links[1] \cup {k} ELSE added[i].links[1]
      BY <2>6, <2>9 DEF LinkedBoth
    <3>2. k \in 1 .. k /\ \A i \in 1 .. k - 1 : i \in 1 .. k /\ i # k
      BY <1>4
    <3> QED BY <3>1, <3>2
  <2>14. Together(new)
    BY <1>2, <1>3, <2>10, <2>11, <2>12, <2>13, LinkedTogether
  <2> QED BY <2>3, <2>14
<1> QED BY <1>5, <1>6, <1>7

\* Layer 0 hangs together until something is cut.
TogetherInv == ~cut => Together(graph.nodes)

\* Without nodes there is nothing to hang together.
LEMMA NoNodes ==
  ASSUME NEW nodes, Len(nodes) = 0
  PROVE  Together(nodes)
<1>1. 1 .. 0 = {}
  OBVIOUS
<1> QED BY <1>1 DEF Together

\* Each call keeps that.
LEMMA IndexNextKeepsTogether ==
  ASSUME IndexInv, IndexInv', TogetherInv, [EmbeddingNext]_embeddingVars
  PROVE  TogetherInv'
<1>1. CASE UNCHANGED embeddingVars
  BY <1>1 DEF TogetherInv, embeddingVars
<1>2. ASSUME NEW p \in Points, NEW level \in Levels, IndexInsert(p, level) PROVE TogetherInv'
  <2> SUFFICES ASSUME ~cut' PROVE Together(graph'.nodes)
    BY DEF TogetherInv
  <2>1. ~cut /\ graph' = Joined(graph, p, level) /\ level \in Nat
    BY <1>2, LevelsAre DEF IndexInsert
  <2>2. GraphRight(graph) /\ Together(graph.nodes)
    BY <2>1 DEF IndexInv, TogetherInv
  <2>3. Together(Joined(graph, p, level).nodes)
    BY <2>1, <2>2, JoinedTogether
  <2> QED BY <2>1, <2>3
<1>3. ASSUME NEW p \in Points, IndexRemove(p) PROVE TogetherInv'
  <2> SUFFICES ASSUME ~cut' PROVE Together(graph'.nodes)
    BY DEF TogetherInv
  <2>1. PICK g, list : g = graph' /\ list = entries'
    OBVIOUS
  <2>2. list = <<>>
    BY <1>3, <2>1 DEF IndexRemove
  <2>3. GraphRight(g) /\ \A q : Held(g.nodes, q) => \E k \in 1 .. Len(list) : list[k] = q
    BY <2>1 DEF IndexInv
  <2>4. g.nodes \in Seq(Node) /\ Len(g.nodes) \in Nat
    BY <2>3 DEF GraphRight
  <2>5. ASSUME Len(g.nodes) # 0 PROVE FALSE
    <3>1. 1 \in 1 .. Len(g.nodes)
      BY <2>4, <2>5
    <3>2. Held(g.nodes, g.nodes[1].at)
      BY <3>1 DEF Held
    <3>3. 1 .. Len(list) = {}
      BY <2>2
    <3> QED BY <2>3, <3>2, <3>3
  <2> QED BY <2>1, <2>5, NoNodes
<1>4. CASE IndexNew
  <2>1. graph' = NoGraph
    BY <1>4 DEF IndexNew
  <2>2. Len(graph'.nodes) = 0
    BY <2>1 DEF NoGraph
  <2> QED BY <2>2, NoNodes DEF TogetherInv
<1> QED BY <1>1, <1>2, <1>3, <1>4 DEF EmbeddingNext

\* What either of the two answers with.
LEMMA SearchIs ==
  ASSUME IndexInv, TogetherInv, ~cut, Cardinality(Range(entries)) = Len(entries),
         NEW p \in Points, NEW n
  PROVE  SearchCosine(p, n) = Closest(Range(entries), p, n)
<1>1. PICK g, list, ids : g = graph /\ list = entries /\ ids = Range(entries)
  OBVIOUS
<1>2. /\ list \in Seq(Points) /\ GraphRight(g) /\ Single(g.nodes) /\ Together(g.nodes)
      /\ \A k \in 1 .. Len(list) : Held(g.nodes, list[k])
      /\ \A q : Held(g.nodes, q) => \E k \in 1 .. Len(list) : list[k] = q
  BY <1>1 DEF IndexInv, TogetherInv
<1>3. /\ Len(list) \in Nat /\ DOMAIN list = 1 .. Len(list)
      /\ list \in [1 .. Len(list) -> Points] /\ ids = {list[k] : k \in 1 .. Len(list)}
  BY <1>1, <1>2 DEF Range
<1>4. \A i, j \in 1 .. Len(list) : list[i] = list[j] => i = j
  <2>1. list \in Surjection(1 .. Len(list), ids)
    BY <1>3 DEF Surjection
  <2>2. IsFiniteSet(1 .. Len(list)) /\ Cardinality(1 .. Len(list)) = Len(list)
    <3>1. 1 \in Int /\ Len(list) \in Int
      BY <1>3
    <3>2. Cardinality(1 .. Len(list)) = IF 1 > Len(list) THEN 0 ELSE Len(list) - 1 + 1
      BY <3>1, FS_Interval
    <3>3. IsFiniteSet(1 .. Len(list))
      BY <3>1, FS_Interval
    <3> QED BY <1>3, <3>2, <3>3
  <2>3. Cardinality(1 .. Len(list)) = Cardinality(ids)
    BY <1>1, <2>2
  <2>4. list \in Injection(1 .. Len(list), ids)
    BY <2>1, <2>2, <2>3, FS_SurjSameCardinalityImpliesInj
  <2> QED BY <1>3, <2>4 DEF Injection, IsInjective
<1>5. CASE Len(g.nodes) >= GraphAnswers
  <2>1. PICK nodes, m, at : /\ nodes = g.nodes /\ m = Len(nodes)
                            /\ at = [i \in 1 .. m |-> nodes[i].at]
    OBVIOUS
  <2>2. nodes \in Seq(Node) /\ LinksRight(nodes) /\ m \in Nat
    BY <1>2, <2>1 DEF GraphRight
  <2>3. at \in [1 .. m -> Points] /\ \A i \in 1 .. m : nodes[i].at = at[i]
    BY <2>1, <2>2, LinksBelow
  <2>4. \A i, j \in 1 .. m : at[i] = at[j] => i = j
    BY <1>2, <2>1, <2>3 DEF Single
  <2>5. ids = {at[i] : i \in 1 .. m}
    <3>1. ASSUME NEW q \in ids PROVE \E i \in 1 .. m : q = at[i]
      <4>1. PICK k \in 1 .. Len(list) : q = list[k]
        BY <1>3
      <4>2. Held(nodes, q)
        BY <1>2, <2>1, <4>1
      <4> QED BY <2>1, <2>3, <4>2 DEF Held
    <3>2. ASSUME NEW i \in 1 .. m PROVE at[i] \in ids
      <4>1. Held(nodes, at[i])
        BY <2>1, <2>3 DEF Held
      <4>2. PICK k \in 1 .. Len(list) : list[k] = at[i]
        BY <1>2, <2>1, <4>1
      <4> QED BY <1>3, <4>2
    <3> QED BY <3>1, <3>2
  <2>6. SearchCosine(p, n) = {nodes[i].at : i \in HnswSearch(g, p, n)}
    BY <1>1, <1>5, <2>1 DEF SearchCosine
  <2>7. HnswSearch(g, p, n) = Nearest(nodes, 1 .. m, p, n)
    <3>1. CASE nodes = <<>>
      <4>1. m = 0 /\ g.ep = 0
        BY <1>2, <2>1, <3>1 DEF GraphRight, EntryRight
      <4>2. HnswSearch(g, p, n) = {}
        BY <4>1, Zenon DEF HnswSearch
      <4>3. Nearest(nodes, 1 .. m, p, n) = {}
        BY <4>1 DEF Nearest
      <4> QED BY <4>2, <4>3
    <3>2. CASE nodes # <<>>
      BY <1>2, <2>1, <3>2, SearchAll
    <3> QED BY <3>1, <3>2
  <2>8. Nearest(nodes, 1 .. m, p, n) \subseteq 1 .. m
    BY DEF Nearest
  <2>9. SearchCosine(p, n) = {at[i] : i \in Nearest(nodes, 1 .. m, p, n)}
    BY <2>3, <2>6, <2>7, <2>8
  <2>10. \A q : (\E i \in Nearest(nodes, 1 .. m, p, n) : q = at[i]) <=> q \in Closest(ids, p, n)
    <3>1. Lists(nodes, m, at, ids)
      BY <2>2, <2>3, <2>4, <2>5 DEF Lists
    <3> QED BY <3>1, NearestIds, Zenon
  <2> QED BY <1>1, <2>9, <2>10
<1>6. CASE ~ (Len(g.nodes) >= GraphAnswers)
  <2>1. PICK rows : rows = [k \in DOMAIN list |-> [at |-> list[k]]]
    OBVIOUS
  <2>2. \A k \in 1 .. Len(list) : rows[k].at = list[k]
    BY <1>3, <2>1
  <2>3. SearchCosine(p, n) = {list[k] : k \in Nearest(rows, 1 .. Len(list), p, n)}
    <3>1. SearchCosine(p, n) = {list[k] : k \in Nearest(rows, DOMAIN list, p, n)}
      BY <1>1, <1>6, <2>1, Zenon DEF SearchCosine
    <3> QED BY <1>3, <3>1
  <2>4. \A q : (\E k \in Nearest(rows, 1 .. Len(list), p, n) : q = list[k]) <=> q \in Closest(ids, p, n)
    <3>1. Lists(rows, Len(list), list, ids)
      BY <1>3, <1>4, <2>2 DEF Lists
    <3> QED BY <3>1, NearestIds, Zenon
  <2> QED BY <1>1, <2>3, <2>4
<1> QED BY <1>5, <1>6

\* As long as nothing was removed, pruned or inserted twice, a search gives the
\* nearest ids of the list, whichever of the graph and the list answers
\* (embed.rs search_cosine, hnsw.rs insert and search).
THEOREM SearchStaysExact == EmbeddingSpec => []SearchExact
<1>1. EmbeddingInit => IndexInv /\ TogetherInv
  <2> SUFFICES ASSUME EmbeddingInit PROVE IndexInv /\ TogetherInv
    OBVIOUS
  <2>1. graph = NoGraph /\ entries = <<>>
    BY DEF EmbeddingInit
  <2>2. Len(graph.nodes) = 0
    BY <2>1 DEF NoGraph
  <2>3. TogetherInv
    BY <2>2, NoNodes DEF TogetherInv
  <2> QED BY <2>1, <2>3
        DEF IndexInv, GraphRight, NoGraph, LinksRight, EntryRight, Single, Held
<1>2. IndexInv /\ TogetherInv /\ [EmbeddingNext]_embeddingVars => IndexInv' /\ TogetherInv'
  BY IndexNextKeepsInv, IndexNextKeepsTogether
<1>3. IndexInv /\ TogetherInv => SearchExact
  <2> SUFFICES ASSUME IndexInv, TogetherInv, ~cut, Cardinality(Range(entries)) = Len(entries)
               PROVE  \A p \in Points, n \in {1, Len(entries)} :
                        SearchCosine(p, n) = Closest(Range(entries), p, n)
    BY Zenon DEF SearchExact, Closest
  <2> QED BY SearchIs, Zenon
<1> QED BY <1>1, <1>2, <1>3, PTL DEF EmbeddingSpec


-----------------------------------------------------------------------------
(* The bytes of files.                                                     *)

Values == Bytes \cup {0}

\* A history: bytes at places within the size.
Histories == {w \in [size : Nat, at : UNION {[P -> Bytes] : P \in SUBSET Nat}] :
                DOMAIN w.at \subseteq 1 .. w.size}

Handles == [inode : Inodes, offset : Nat, readable : BOOLEAN, writable : BOOLEAN]

\* The history of a file gives its content, and a command's one handle is as
\* far as its loop.
FileInv ==
  /\ DOMAIN contents \subseteq Inodes
  /\ written \in [Inodes -> Histories]
  /\ \A i \in DOMAIN contents : contents[i] = Image(written[i])
  /\ \A h \in DOMAIN handles : handles[h] \in Handles
  /\ command.do = "write" =>
       /\ command = [do |-> "write", data |-> command.data, offset |-> command.offset]
       /\ command.data \in Seq(Bytes) /\ command.offset \in 0 .. Len(command.data)
       /\ DOMAIN handles = {1} /\ handles[1].inode \in DOMAIN contents
       /\ handles[1].offset = command.offset
       /\ contents[handles[1].inode] = Bytewise(command.data, 0, command.offset)
  /\ command.do = "cat" =>
       /\ command = [do |-> "cat", out |-> command.out]
       /\ DOMAIN handles = {1} /\ handles[1].inode \in DOMAIN contents
       /\ handles[1].readable
       /\ command.out \in Seq(Values)
       /\ handles[1].offset = Len(command.out)
       /\ Len(command.out) <= Len(contents[handles[1].inode])
       /\ command.out = Bytewise(contents[handles[1].inode], 0, Len(command.out))

\* The content that a history stands for is a sequence as long as its size.
LEMMA Images ==
  ASSUME NEW w \in Histories
  PROVE  /\ w.size \in Nat
         /\ DOMAIN w.at \subseteq 1 .. w.size
         /\ \A p \in DOMAIN w.at : w.at[p] \in Bytes
         /\ Image(w) \in Seq(Values)
         /\ Len(Image(w)) = w.size
<1>1. w.size \in Nat /\ DOMAIN w.at \subseteq 1 .. w.size
  BY DEF Histories
<1>2. \A p \in DOMAIN w.at : w.at[p] \in Bytes
  BY DEF Histories
<1>3. Image(w) \in [1 .. w.size -> Values]
  BY <1>2 DEF Image, Values
<1> QED
  BY <1>1, <1>2, <1>3, LenProperties DEF Image

\* A part of a sequence: as long as asked, or to the end.
LEMMA Parts ==
  ASSUME NEW S, NEW s \in Seq(S), NEW offset \in Nat, NEW n \in Nat
  PROVE  /\ Bytewise(s, offset, n) \in Seq(S)
         /\ Len(Bytewise(s, offset, n)) =
              IF offset + n <= Len(s) THEN n ELSE IF offset < Len(s) THEN Len(s) - offset ELSE 0
         /\ \A k \in 1 .. Len(Bytewise(s, offset, n)) : Bytewise(s, offset, n)[k] = s[offset + k]
<1> DEFINE end == IF offset + n < Len(s) THEN offset + n ELSE Len(s)
<1>1. Len(s) \in Nat /\ end \in Nat /\ \A i \in offset + 1 .. end : s[i] \in S
  OBVIOUS
<1>2. /\ SubSeq(s, offset + 1, end) \in Seq(S)
      /\ Len(SubSeq(s, offset + 1, end)) = IF offset + 1 <= end THEN end - (offset + 1) + 1 ELSE 0
      /\ \A i \in 1 .. end - (offset + 1) + 1 : SubSeq(s, offset + 1, end)[i] = s[offset + 1 + i - 1]
  <2> HIDE DEF end
  <2> QED
    BY <1>1, SubSeqProperties
<1>3. Bytewise(s, offset, n) = SubSeq(s, offset + 1, end)
  BY DEF Bytewise
<1> QED
  BY <1>1, <1>2, <1>3

\* Writing and cutting do the same to a content and to its history.
LEMMA Overwriting ==
  ASSUME NEW w \in Histories, NEW offset \in Nat, NEW data \in Seq(Bytes)
  PROVE  /\ WrittenAt(w, offset, data) \in Histories
         /\ Overwritten(Image(w), offset, data) = Image(WrittenAt(w, offset, data))
<1> DEFINE new == WrittenAt(w, offset, data)
           there == offset + 1 .. offset + Len(data)
<1>1. /\ w.size \in Nat /\ DOMAIN w.at \subseteq 1 .. w.size
      /\ \A p \in DOMAIN w.at : w.at[p] \in Bytes
      /\ Len(Image(w)) = w.size
  BY Images
<1>2. Len(data) \in Nat /\ \A p \in there : data[p - offset] \in Bytes
  OBVIOUS
<1>3. /\ new.size = Larger(w.size, offset + Len(data)) /\ new.size \in Nat
      /\ DOMAIN new.at = DOMAIN w.at \cup there
      /\ \A p \in DOMAIN new.at : new.at[p] = IF p \in there THEN data[p - offset] ELSE w.at[p]
      /\ new = [size |-> new.size, at |-> new.at]
  BY <1>1, <1>2 DEF WrittenAt, Larger
<1>4. DOMAIN new.at \subseteq 1 .. new.size
  BY <1>1, <1>2, <1>3 DEF Larger
<1>5. new.at \in [DOMAIN new.at -> Bytes] /\ DOMAIN new.at \in SUBSET Nat
  <2>1. new.at = [p \in DOMAIN w.at \cup there |-> IF p \in there THEN data[p - offset] ELSE w.at[p]]
    BY DEF WrittenAt
  <2>2. \A p \in DOMAIN w.at \cup there : (IF p \in there THEN data[p - offset] ELSE w.at[p]) \in Bytes
    BY <1>1, <1>2
  <2>3. new.at \in [DOMAIN w.at \cup there -> Bytes]
    BY <2>1, <2>2
  <2> QED
    BY <2>3, <1>3, <1>4
<1>6. new \in Histories
  BY <1>3, <1>4, <1>5 DEF Histories
<1>7. Overwritten(Image(w), offset, data) =
        [p \in 1 .. new.size |->
           IF p \in there THEN data[p - offset] ELSE IF p <= w.size THEN Image(w)[p] ELSE 0]
  BY <1>1, <1>3 DEF Overwritten, Resized
<1>8. Image(new) = [p \in 1 .. new.size |->
           IF p \in there THEN data[p - offset] ELSE IF p \in DOMAIN w.at THEN w.at[p] ELSE 0]
  BY <1>3 DEF Image
<1>9. \A p \in 1 .. new.size :
        (IF p <= w.size THEN Image(w)[p] ELSE 0) = (IF p \in DOMAIN w.at THEN w.at[p] ELSE 0)
  BY <1>1, <1>3 DEF Image
<1> HIDE DEF new, there
<1>10. Overwritten(Image(w), offset, data) = Image(new)
  BY <1>7, <1>8, <1>9
<1> QED
  BY <1>6, <1>10 DEF new

\* Resizing the image of a history is the image of the history cut to size.
LEMMA Cutting ==
  ASSUME NEW w \in Histories, NEW size \in Nat
  PROVE  /\ CutTo(w, size) \in Histories
         /\ Resized(Image(w), size) = Image(CutTo(w, size))
<1> DEFINE new == CutTo(w, size)
           left == {q \in DOMAIN w.at : q <= size}
<1>1. /\ w.size \in Nat /\ DOMAIN w.at \subseteq 1 .. w.size
      /\ \A p \in DOMAIN w.at : w.at[p] \in Bytes
      /\ Len(Image(w)) = w.size
  BY Images
<1>2. new = [size |-> size, at |-> [p \in left |-> w.at[p]]]
  BY DEF CutTo
<1>3. new.size = size /\ new.at = [p \in left |-> w.at[p]] /\ DOMAIN new.at = left
  BY <1>2
<1>4. left \subseteq 1 .. size /\ left \in SUBSET Nat /\ new.at \in [left -> Bytes]
  BY <1>1, <1>3
<1>5. new \in Histories
  BY <1>2, <1>3, <1>4 DEF Histories
<1>6. Resized(Image(w), size) = [p \in 1 .. size |-> IF p <= w.size THEN Image(w)[p] ELSE 0]
  BY <1>1 DEF Resized
<1>7. Image(new) = [p \in 1 .. size |-> IF p \in left THEN w.at[p] ELSE 0]
  BY <1>3 DEF Image
<1>8. \A p \in 1 .. size :
        (IF p <= w.size THEN Image(w)[p] ELSE 0) = (IF p \in left THEN w.at[p] ELSE 0)
  BY <1>1 DEF Image
<1> HIDE DEF new, left
<1>9. Resized(Image(w), size) = Image(new)
  BY <1>6, <1>7, <1>8
<1> QED
  BY <1>5, <1>9 DEF new

-----------------------------------------------------------------------------

\* The data of the driver and of the commands are sequences of bytes.
LEMMA BufferSequences == Buffers \subseteq Seq(Bytes)
BY FileAssumption DEF Buffers

\* With no command running only the files and the handles are there to keep.
LEMMA Idle ==
  ASSUME FileInv, Mounted
  PROVE  command.do = "none"
BY DEF Mounted, NoCommand

\* Overwriting a file at one place and its history at the same keeps the two
\* together, for that file and the others.
LEMMA KeptByWriting ==
  ASSUME FileInv, NEW i \in DOMAIN contents, NEW offset \in Nat, NEW data \in Seq(Bytes),
         contents' = [contents EXCEPT ![i] = Overwritten(@, offset, data)],
         written' = [written EXCEPT ![i] = WrittenAt(@, offset, data)]
  PROVE  /\ DOMAIN contents' = DOMAIN contents
         /\ written' \in [Inodes -> Histories]
         /\ \A j \in DOMAIN contents' : contents'[j] = Image(written'[j])
<1>1. i \in Inodes /\ written[i] \in Histories /\ contents[i] = Image(written[i])
  BY DEF FileInv
<1>2. /\ WrittenAt(written[i], offset, data) \in Histories
      /\ Overwritten(contents[i], offset, data) = Image(WrittenAt(written[i], offset, data))
  BY <1>1, Overwriting
<1> QED
  BY <1>1, <1>2 DEF FileInv

\* A truncate keeps every file the image of its history.
LEMMA KeptByCutting ==
  ASSUME FileInv, NEW i \in DOMAIN contents, NEW size \in Nat,
         contents' = [contents EXCEPT ![i] = Resized(@, size)],
         written' = [written EXCEPT ![i] = CutTo(@, size)]
  PROVE  /\ DOMAIN contents' = DOMAIN contents
         /\ written' \in [Inodes -> Histories]
         /\ \A j \in DOMAIN contents' : contents'[j] = Image(written'[j])
<1>1. i \in Inodes /\ written[i] \in Histories /\ contents[i] = Image(written[i])
  BY DEF FileInv
<1>2. /\ CutTo(written[i], size) \in Histories
      /\ Resized(contents[i], size) = Image(CutTo(written[i], size))
  BY <1>1, Cutting
<1> QED
  BY <1>1, <1>2 DEF FileInv

\* What a read gives is a sequence, no longer than asked.
LEMMA Reading ==
  ASSUME FileInv, NEW h \in DOMAIN handles, NEW offset \in Nat, NEW n \in Nat
  PROVE  ReadBytes(h, offset, n) \in Seq(Values)
<1>1. CASE handles[h].readable /\ Opened(h)
  <2>1. contents[handles[h].inode] \in Seq(Values)
    BY <1>1, Images DEF FileInv, Opened
  <2> QED
    BY <1>1, <2>1, Parts DEF ReadBytes
<1>2. CASE ~(handles[h].readable /\ Opened(h))
  BY <1>2 DEF ReadBytes
<1> QED
  BY <1>1, <1>2

\* A handle that is moved stays one, whatever became of the others.
LEMMA MovedHandle ==
  ASSUME FileInv, NEW h \in DOMAIN handles, NEW offset \in Nat,
         handles' = [handles EXCEPT ![h].offset = offset]
  PROVE  /\ DOMAIN handles' = DOMAIN handles
         /\ \A g \in DOMAIN handles' : handles'[g] \in Handles
         /\ handles'[h].offset = offset
         /\ handles'[h].inode = handles[h].inode
         /\ handles'[h].readable = handles[h].readable
<1>1. \A g \in DOMAIN handles : handles[g] \in Handles
  BY DEF FileInv
<1> QED
  BY <1>1 DEF Handles

\* Empty files are the images of empty histories.
LEMMA FileInvInit == FileInit => FileInv
<1> SUFFICES ASSUME FileInit PROVE FileInv
  OBVIOUS
<1> DEFINE new == [size |-> 0, at |-> [p \in {} |-> 0]]
<1>1. new \in Histories /\ Image(new) = <<>>
  <2>1. new.at \in [{} -> Bytes]
    OBVIOUS
  <2>2. new \in [size : Nat, at : UNION {[P -> Bytes] : P \in SUBSET Nat}]
    BY <2>1
  <2>3. Image(new) = [p \in 1 .. 0 |-> IF p \in {} THEN 0 ELSE 0]
    BY DEF Image
  <2> QED
    BY <2>2, <2>3 DEF Histories
<1>2. written \in [Inodes -> Histories] /\ \A i \in DOMAIN contents : contents[i] = Image(written[i])
  BY <1>1 DEF FileInit
<1>3. command.do = "none"
  BY DEF FileInit, NoCommand
<1> QED
  BY <1>2, <1>3 DEF FileInv, FileInit, NoHandles

\* Requests to the driver leave no command running.
LEMMA FileInvRequests ==
  ASSUME FileInv, NEW i \in Inodes, NEW h
  PROVE  /\ \A access \in {"r", "w", "rw"} : OpenFile(i, h, access) => FileInv'
         /\ h \in DOMAIN handles /\ Release(h) => FileInv'
         /\ \A offset, n \in Nat : h \in DOMAIN handles /\ ReadRequest(h, offset, n) => FileInv'
         /\ \A offset \in Nat, data \in Buffers :
              h \in DOMAIN handles /\ WriteRequest(h, offset, data) => FileInv'
         /\ \A size \in Nat : SetSize(i, size) => FileInv'
         /\ RemoveFile(i) => FileInv'
<1>1. ASSUME NEW access \in {"r", "w", "rw"}, OpenFile(i, h, access) PROVE FileInv'
  <2>1. NewHandle(i, access) \in Handles
    BY DEF NewHandle, Handles
  <2>2. command'.do = "none"
    BY <1>1, Idle DEF OpenFile
  <2> QED
    BY <1>1, <2>1, <2>2 DEF FileInv, OpenFile
<1>2. ASSUME h \in DOMAIN handles, Release(h) PROVE FileInv'
  <2>1. command'.do = "none"
    BY <1>2, Idle DEF Release
  <2> QED
    BY <1>2, <2>1 DEF FileInv, Release
<1>3. ASSUME NEW offset \in Nat, NEW n \in Nat, h \in DOMAIN handles, ReadRequest(h, offset, n)
      PROVE  FileInv'
  <2>1. command'.do = "none"
    BY <1>3, Idle DEF ReadRequest
  <2>2. offset + Len(ReadBytes(h, offset, n)) \in Nat
    BY <1>3, Reading
  <2>3. \A g \in DOMAIN handles' : handles'[g] \in Handles
    BY <1>3, <2>2, MovedHandle DEF ReadRequest
  <2> QED
    BY <1>3, <2>1, <2>3 DEF FileInv, ReadRequest
<1>4. ASSUME NEW offset \in Nat, NEW data \in Buffers, h \in DOMAIN handles,
             WriteRequest(h, offset, data)
      PROVE  FileInv'
  <2>1. command'.do = "none"
    BY <1>4, Idle DEF WriteRequest
  <2>2. data \in Seq(Bytes)
    BY BufferSequences
  <2>3. \A g \in DOMAIN handles' : handles'[g] \in Handles
    <3>1. offset + Len(data) \in Nat
      BY <2>2
    <3>2. CASE handles[h].writable /\ Opened(h)
      BY <1>4, <3>1, <3>2, MovedHandle DEF WriteRequest
    <3>3. CASE ~(handles[h].writable /\ Opened(h))
      BY <1>4, <3>3, MovedHandle DEF WriteRequest
    <3> QED
      BY <3>2, <3>3
  <2>4. CASE handles[h].writable /\ Opened(h)
    <3>1. handles[h].inode \in DOMAIN contents
      BY <2>4 DEF Opened
    <3>2. /\ contents' = [contents EXCEPT ![handles[h].inode] = Overwritten(@, offset, data)]
          /\ written' = [written EXCEPT ![handles[h].inode] = WrittenAt(@, offset, data)]
      BY <1>4, <2>4 DEF WriteRequest
    <3>3. /\ DOMAIN contents' = DOMAIN contents
          /\ written' \in [Inodes -> Histories]
          /\ \A j \in DOMAIN contents' : contents'[j] = Image(written'[j])
      BY <2>2, <3>1, <3>2, KeptByWriting
    <3> QED
      BY <2>1, <2>3, <3>3 DEF FileInv
  <2>5. CASE ~(handles[h].writable /\ Opened(h))
    BY <1>4, <2>1, <2>3, <2>5 DEF FileInv, WriteRequest
  <2> QED
    BY <2>4, <2>5
<1>5. ASSUME NEW size \in Nat, SetSize(i, size) PROVE FileInv'
  <2>1. command'.do = "none"
    BY <1>5, Idle DEF SetSize
  <2>2. /\ DOMAIN contents' = DOMAIN contents
        /\ written' \in [Inodes -> Histories]
        /\ \A j \in DOMAIN contents' : contents'[j] = Image(written'[j])
    BY <1>5, KeptByCutting DEF SetSize
  <2> QED
    BY <1>5, <2>1, <2>2 DEF FileInv, SetSize
<1>6. ASSUME RemoveFile(i) PROVE FileInv'
  <2>1. command'.do = "none"
    BY <1>6, Idle DEF RemoveFile
  <2> QED
    BY <1>6, <2>1 DEF FileInv, RemoveFile
<1> QED
  BY <1>1, <1>2, <1>3, <1>4, <1>5, <1>6

-----------------------------------------------------------------------------

\* The part of a sequence up to a place.
LEMMA Beginnings ==
  ASSUME NEW S, NEW s \in Seq(S), NEW n \in 0 .. Len(s)
  PROVE  /\ Bytewise(s, 0, n) \in Seq(S)
         /\ Len(Bytewise(s, 0, n)) = n
         /\ \A k \in 1 .. n : Bytewise(s, 0, n)[k] = s[k]
<1>1. n \in Nat /\ Len(s) \in Nat /\ 0 + n <= Len(s)
  OBVIOUS
<1>2. /\ Bytewise(s, 0, n) \in Seq(S)
      /\ Len(Bytewise(s, 0, n)) = n
      /\ \A k \in 1 .. n : Bytewise(s, 0, n)[k] = s[0 + k]
  BY <1>1, Parts
<1>3. \A k \in 1 .. n : 0 + k = k
  BY <1>1
<1> QED
  BY <1>2, <1>3

\* The part of a sequence up to a place, and the next part put behind it, are
\* the part up to the place further on; and overwriting a part there is that.
LEMMA NextPart ==
  ASSUME NEW S, NEW s \in Seq(S), NEW offset \in 0 .. Len(s), NEW n \in Nat \ {0}
  PROVE  LET chunk == Bytewise(s, offset, n)
         IN  /\ offset + Len(chunk) \in 0 .. Len(s)
             /\ chunk = <<>> <=> offset = Len(s)
             /\ Bytewise(s, 0, offset) \o chunk = Bytewise(s, 0, offset + Len(chunk))
             /\ Overwritten(Bytewise(s, 0, offset), offset, chunk)
                  = Bytewise(s, 0, offset + Len(chunk))
<1> DEFINE chunk == Bytewise(s, offset, n)
           before == Bytewise(s, 0, offset)
           after == Bytewise(s, 0, offset + Len(chunk))
<1>0. offset \in Nat /\ n \in Nat /\ Len(s) \in Nat
  OBVIOUS
<1>1. /\ chunk \in Seq(S)
      /\ Len(chunk) = IF offset + n <= Len(s) THEN n ELSE IF offset < Len(s) THEN Len(s) - offset ELSE 0
      /\ \A k \in 1 .. Len(chunk) : chunk[k] = s[offset + k]
  <2>1. chunk \in Seq(S)
    BY <1>0, Parts
  <2>2. Len(chunk) = IF offset + n <= Len(s) THEN n ELSE IF offset < Len(s) THEN Len(s) - offset ELSE 0
    BY <1>0, Parts
  <2>3. \A k \in 1 .. Len(chunk) : chunk[k] = s[offset + k]
    BY <1>0, Parts
  <2> QED
    BY <2>1, <2>2, <2>3
<1>2. Len(chunk) \in Nat /\ offset + Len(chunk) \in 0 .. Len(s)
  BY <1>0, <1>1
<1>3. chunk = <<>> <=> offset = Len(s)
  <2>1. chunk = <<>> <=> Len(chunk) = 0
    BY <1>1, EmptySeq
  <2> QED
    BY <1>0, <1>1, <2>1
<1>4. /\ before \in Seq(S) /\ Len(before) = offset
      /\ \A k \in 1 .. offset : before[k] = s[k]
  BY Beginnings
<1>5. /\ after \in Seq(S) /\ Len(after) = offset + Len(chunk)
      /\ \A k \in 1 .. offset + Len(chunk) : after[k] = s[k]
  BY <1>2, Beginnings
<1> HIDE DEF chunk, before, after
<1>6. before \o chunk = after
  <2>1. /\ before \o chunk \in Seq(S)
        /\ Len(before \o chunk) = Len(before) + Len(chunk)
        /\ \A k \in 1 .. Len(before) + Len(chunk) :
             (before \o chunk)[k] = IF k <= Len(before) THEN before[k] ELSE chunk[k - Len(before)]
    BY <1>1, <1>4, ConcatProperties
  <2>2. \A k \in 1 .. Len(after) : (before \o chunk)[k] = after[k]
    <3> TAKE k \in 1 .. Len(after)
    <3>1. CASE k <= offset
      BY <1>2, <1>4, <1>5, <2>1, <3>1
    <3>2. CASE k > offset
      <4>1. k - offset \in 1 .. Len(chunk)
        BY <1>2, <1>5, <3>2
      <4>2. chunk[k - offset] = s[offset + (k - offset)] /\ offset + (k - offset) = k
        BY <1>1, <4>1
      <4>3. (before \o chunk)[k] = chunk[k - offset]
        BY <1>2, <1>4, <1>5, <2>1, <3>2
      <4>4. after[k] = s[k]
        BY <1>5
      <4> QED
        BY <4>2, <4>3, <4>4
    <3>3. k <= offset \/ k > offset
      BY <1>0, <1>2, <1>5
    <3> QED
      BY <3>1, <3>2, <3>3
  <2>3. Len(before \o chunk) = Len(after)
    BY <1>4, <1>5, <2>1
  <2> QED
    BY <2>1, <2>2, <2>3, <1>5, SeqEqual
<1>7. Overwritten(before, offset, chunk) = after
  <2>1. Larger(Len(before), offset + Len(chunk)) = Len(after)
    BY <1>2, <1>4, <1>5 DEF Larger
  <2>2. Overwritten(before, offset, chunk) =
          [p \in 1 .. Len(after) |->
             IF p \in offset + 1 .. offset + Len(chunk) THEN chunk[p - offset]
             ELSE IF p <= Len(before) THEN before[p] ELSE 0]
    BY <2>1 DEF Overwritten, Resized
  <2>3. \A p \in 1 .. Len(after) :
          (IF p \in offset + 1 .. offset + Len(chunk) THEN chunk[p - offset]
           ELSE IF p <= Len(before) THEN before[p] ELSE 0) = after[p]
    BY <1>1, <1>2, <1>4, <1>5
  <2>4. after = [p \in 1 .. Len(after) |-> after[p]]
    BY <1>5
  <2> QED
    BY <2>2, <2>3, <2>4
<1> QED
  BY <1>2, <1>3, <1>6, <1>7 DEF chunk, before, after

\* A command begins at the start of its file, and with nothing said.
LEMMA FileInvStarts ==
  ASSUME FileInv, NEW i \in Inodes
  PROVE  /\ \A data \in Buffers : StartWrite(i, data) => FileInv'
         /\ StartCat(i) => FileInv'
<1>1. ASSUME NEW data \in Buffers, StartWrite(i, data) PROVE FileInv'
  <2>1. data \in Seq(Bytes)
    BY BufferSequences
  <2>2. i \in DOMAIN contents
    BY <1>1 DEF StartWrite, Started
  <2>3. /\ DOMAIN contents' = DOMAIN contents
        /\ written' \in [Inodes -> Histories]
        /\ \A j \in DOMAIN contents' : contents'[j] = Image(written'[j])
    BY <1>1, <2>2, KeptByCutting DEF StartWrite
  <2>4. /\ handles' = [h \in {1} |-> NewHandle(i, "w")]
        /\ command' = [do |-> "write", data |-> data, offset |-> 0]
    BY <1>1 DEF StartWrite, Started
  <2>5. contents'[i] = <<>>
    BY <1>1, <2>2 DEF StartWrite, Resized
  <2>6. Bytewise(data, 0, 0) = <<>>
    BY <2>1, Parts, EmptySeq
  <2>7. DOMAIN handles' = {1} /\ handles'[1] \in Handles
        /\ handles'[1].inode = i /\ handles'[1].offset = 0
    BY <2>4 DEF NewHandle, Handles
  <2>8. /\ command'.do = "write" /\ command'.data = data /\ command'.offset = 0
        /\ command' = [do |-> "write", data |-> command'.data, offset |-> command'.offset]
    BY <2>4
  <2>9. DOMAIN contents' \subseteq Inodes
    BY <2>3 DEF FileInv
  <2> QED
    BY <2>1, <2>2, <2>3, <2>5, <2>6, <2>7, <2>8, <2>9 DEF FileInv
<1>2. ASSUME StartCat(i) PROVE FileInv'
  <2>1. i \in DOMAIN contents /\ contents' = contents /\ written' = written
    BY <1>2 DEF StartCat, Started
  <2>2. /\ handles' = [h \in {1} |-> NewHandle(i, "r")]
        /\ command' = [do |-> "cat", out |-> <<>>]
    BY <1>2 DEF StartCat, Started
  <2>3. contents[i] \in Seq(Values) /\ Len(contents[i]) \in Nat
    BY <2>1, Images DEF FileInv
  <2>4. Bytewise(contents[i], 0, 0) = <<>>
    BY <2>3, Parts, EmptySeq
  <2>5. /\ DOMAIN handles' = {1} /\ handles'[1] \in Handles
        /\ handles'[1].inode = i /\ handles'[1].offset = 0 /\ handles'[1].readable
    BY <2>2 DEF NewHandle, Handles
  <2>6. /\ command'.do = "cat" /\ command'.out = <<>> /\ Len(command'.out) = 0
        /\ command' = [do |-> "cat", out |-> command'.out]
    BY <2>2
  <2>7. command'.out \in Seq(Values)
    BY <2>6
  <2> QED
    BY <2>1, <2>3, <2>4, <2>5, <2>6, <2>7 DEF FileInv
<1> QED
  BY <1>1, <1>2

\* A turn of a command's loop takes handle and loop on by as much, and leaves
\* the file, or what was said, that much further.
LEMMA FileInvTurns ==
  ASSUME FileInv
  PROVE  /\ WriteChunk => FileInv'
         /\ CatChunk => FileInv'
<1>1. ASSUME WriteChunk PROVE FileInv'
  <2> DEFINE i == handles[1].inode
             chunk == Bytewise(command.data, command.offset, BufferSize)
  <2>1. command.do = "write"
    BY <1>1 DEF WriteChunk
  <2>2. /\ command.data \in Seq(Bytes) /\ command.offset \in 0 .. Len(command.data)
        /\ DOMAIN handles = {1} /\ i \in DOMAIN contents
        /\ handles[1].offset = command.offset
        /\ contents[i] = Bytewise(command.data, 0, command.offset)
    BY <2>1 DEF FileInv
  <2>3. command.offset \in Nat /\ BufferSize \in Nat \ {0}
    BY <2>2, FileAssumption
  <2>4. /\ command.offset + Len(chunk) \in 0 .. Len(command.data)
        /\ Overwritten(contents[i], command.offset, chunk)
             = Bytewise(command.data, 0, command.offset + Len(chunk))
    <3>1. /\ command.offset + Len(chunk) \in 0 .. Len(command.data)
          /\ Overwritten(Bytewise(command.data, 0, command.offset), command.offset, chunk)
               = Bytewise(command.data, 0, command.offset + Len(chunk))
      BY <2>2, <2>3, NextPart, Zenon
    <3> QED
      BY <2>2, <3>1
  <2>5. chunk \in Seq(Bytes) /\ Len(chunk) \in Nat
    <3>1. BufferSize \in Nat
      BY <2>3
    <3>2. chunk \in Seq(Bytes)
      BY <2>2, <2>3, <3>1, Parts, Zenon
    <3> HIDE DEF chunk
    <3> QED
      BY <3>2
  <2>6. /\ contents' = [contents EXCEPT ![i] = Overwritten(@, command.offset, chunk)]
        /\ written' = [written EXCEPT ![i] = WrittenAt(@, command.offset, chunk)]
        /\ handles' = [handles EXCEPT ![1].offset = command.offset + Len(chunk)]
        /\ command' = [command EXCEPT !.offset = command.offset + Len(chunk)]
    BY <1>1, <2>2 DEF WriteChunk, Moved
  <2>7. /\ DOMAIN contents' = DOMAIN contents
        /\ written' \in [Inodes -> Histories]
        /\ \A j \in DOMAIN contents' : contents'[j] = Image(written'[j])
    BY <2>2, <2>3, <2>5, <2>6, KeptByWriting
  <2>8. /\ DOMAIN handles' = DOMAIN handles
        /\ \A g \in DOMAIN handles' : handles'[g] \in Handles
        /\ handles'[1].offset = command.offset + Len(chunk)
        /\ handles'[1].inode = i
    <3>1. command.offset + Len(chunk) \in Nat /\ 1 \in DOMAIN handles
      BY <2>2, <2>3, <2>5
    <3> QED
      BY <2>6, <3>1, MovedHandle
  <2>9. /\ command'.do = "write" /\ command'.data = command.data
        /\ command'.offset = command.offset + Len(chunk)
        /\ command' = [do |-> "write", data |-> command'.data, offset |-> command'.offset]
    <3>1. command = [do |-> "write", data |-> command.data, offset |-> command.offset]
      BY <2>1 DEF FileInv
    <3> QED
      BY <2>6, <3>1
  <2>10. contents'[i] = Overwritten(contents[i], command.offset, chunk)
    BY <2>2, <2>6
  <2> QED
    BY <2>2, <2>4, <2>7, <2>8, <2>9, <2>10 DEF FileInv
<1>2. ASSUME CatChunk PROVE FileInv'
  <2> DEFINE i == handles[1].inode
             content == contents[i]
             chunk == ReadBytes(1, handles[1].offset, BufferSize)
  <2>1. command.do = "cat"
    BY <1>2 DEF CatChunk
  <2>2. /\ command = [do |-> "cat", out |-> command.out]
        /\ DOMAIN handles = {1} /\ i \in DOMAIN contents
        /\ handles[1].readable
        /\ command.out \in Seq(Values)
        /\ handles[1].offset = Len(command.out)
        /\ Len(command.out) <= Len(content)
        /\ command.out = Bytewise(content, 0, Len(command.out))
    BY <2>1 DEF FileInv
  <2>3. content \in Seq(Values)
    BY <2>2, Images DEF FileInv
  <2>4. /\ Len(command.out) \in Nat /\ Len(command.out) \in 0 .. Len(content)
        /\ BufferSize \in Nat \ {0} /\ BufferSize \in Nat
    BY <2>2, <2>3, FileAssumption
  <2>5. chunk = Bytewise(content, Len(command.out), BufferSize)
    BY <2>2 DEF ReadBytes, Opened
  <2>6. chunk \in Seq(Values) /\ Len(chunk) \in Nat
    <3>1. Bytewise(content, Len(command.out), BufferSize) \in Seq(Values)
      BY <2>3, <2>4, Parts, Zenon
    <3> HIDE DEF content, chunk
    <3> QED
      BY <2>5, <3>1
  <2>7. /\ Len(command.out) + Len(chunk) \in 0 .. Len(content)
        /\ command.out \o chunk = Bytewise(content, 0, Len(command.out) + Len(chunk))
    <3> HIDE DEF content, chunk
    <3>1. LET next == Bytewise(content, Len(command.out), BufferSize)
          IN  /\ Len(command.out) + Len(next) \in 0 .. Len(content)
              /\ Bytewise(content, 0, Len(command.out)) \o next
                   = Bytewise(content, 0, Len(command.out) + Len(next))
      BY <2>3, <2>4, NextPart
    <3> QED
      BY <2>2, <2>5, <3>1
  <2>8. /\ contents' = contents /\ written' = written
        /\ handles' = [handles EXCEPT ![1].offset = Len(command.out) + Len(chunk)]
        /\ command' = [command EXCEPT !.out = command.out \o chunk]
    BY <1>2, <2>2 DEF CatChunk, Moved
  <2>9. /\ DOMAIN handles' = DOMAIN handles
        /\ \A g \in DOMAIN handles' : handles'[g] \in Handles
        /\ handles'[1].offset = Len(command.out) + Len(chunk)
        /\ handles'[1].inode = i
        /\ handles'[1].readable
    <3>1. Len(command.out) + Len(chunk) \in Nat /\ 1 \in DOMAIN handles
      BY <2>2, <2>4, <2>6
    <3> QED
      BY <2>2, <2>8, <3>1, MovedHandle
  <2>10. /\ command'.do = "cat" /\ command'.out = command.out \o chunk
         /\ command' = [do |-> "cat", out |-> command'.out]
    <3> DEFINE new == command.out \o chunk
    <3>1. command = [do |-> "cat", out |-> command.out] /\ command' = [command EXCEPT !.out = new]
      BY <2>2, <2>8
    <3> HIDE DEF new
    <3>2. command' = [do |-> "cat", out |-> new]
      BY <3>1
    <3> QED
      BY <3>2 DEF new
  <2>11. command'.out \in Seq(Values) /\ Len(command'.out) = Len(command.out) + Len(chunk)
    <3> HIDE DEF chunk
    <3>1. /\ command.out \o chunk \in Seq(Values)
          /\ Len(command.out \o chunk) = Len(command.out) + Len(chunk)
      BY <2>2, <2>6, ConcatProperties
    <3> QED
      BY <2>10, <3>1
  <2>12. contents'[i] = content
    BY <2>8
  <2> HIDE DEF i, content, chunk
  <2>13. /\ DOMAIN handles' = {1} /\ handles'[1].inode \in DOMAIN contents'
         /\ handles'[1].readable
         /\ handles'[1].offset = Len(command'.out)
         /\ Len(command'.out) <= Len(contents'[handles'[1].inode])
         /\ command'.out = Bytewise(contents'[handles'[1].inode], 0, Len(command'.out))
    <3>1. handles'[1].inode = i /\ contents'[i] = content /\ i \in DOMAIN contents
      BY <2>2, <2>9, <2>12 DEF i
    <3>2. Len(command'.out) <= Len(content)
      BY <2>3, <2>4, <2>6, <2>7, <2>11
    <3>3. command'.out = Bytewise(content, 0, Len(command'.out))
      BY <2>7, <2>10, <2>11
    <3> QED
      BY <2>2, <2>8, <2>9, <2>11, <3>1, <3>2, <3>3
  <2> QED
    BY <2>8, <2>9, <2>10, <2>11, <2>13 DEF FileInv
<1> QED
  BY <1>1, <1>2

\* Every call keeps files the images of their histories.
LEMMA FileInvNext == FileInv /\ [FileNext]_fileVars => FileInv'
<1> SUFFICES ASSUME FileInv, [FileNext]_fileVars PROVE FileInv'
  OBVIOUS
<1>1. ASSUME NEW i \in Inodes, NEW h \in HandleNums, NEW access \in {"r", "w", "rw"},
             OpenFile(i, h, access)
      PROVE  FileInv'
  BY <1>1, FileInvRequests
<1>2. ASSUME NEW i \in Inodes, NEW size \in 0 .. MaxSize, SetSize(i, size) PROVE FileInv'
  <2>1. size \in Nat
    BY FileAssumption
  <2> QED
    BY <1>2, <2>1, FileInvRequests
<1>3. ASSUME NEW i \in Inodes, RemoveFile(i) PROVE FileInv'
  BY <1>3, FileInvRequests
<1>4. ASSUME NEW i \in Inodes, NEW data \in Buffers, StartWrite(i, data) PROVE FileInv'
  BY <1>4, FileInvStarts
<1>5. ASSUME NEW i \in Inodes, StartCat(i) PROVE FileInv'
  BY <1>5, FileInvStarts
<1>6. ASSUME NEW h \in DOMAIN handles, Release(h) PROVE FileInv'
  <2>1. handles[h].inode \in Inodes
    BY DEF FileInv, Handles
  <2> QED
    BY <1>6, <2>1, FileInvRequests
<1>7. ASSUME NEW h \in DOMAIN handles, NEW offset \in 0 .. MaxSize, NEW n \in {1, MaxSize},
             ReadRequest(h, offset, n)
      PROVE  FileInv'
  <2>1. handles[h].inode \in Inodes /\ offset \in Nat /\ n \in Nat
    BY FileAssumption DEF FileInv, Handles
  <2> QED
    BY <1>7, <2>1, FileInvRequests
<1>8. ASSUME NEW h \in DOMAIN handles, NEW offset \in 0 .. MaxSize, NEW data \in Buffers,
             WriteRequest(h, offset, data)
      PROVE  FileInv'
  <2>1. handles[h].inode \in Inodes /\ offset \in Nat
    BY FileAssumption DEF FileInv, Handles
  <2> QED
    BY <1>8, <2>1, FileInvRequests
<1>9. CASE WriteChunk \/ CatChunk
  BY <1>9, FileInvTurns
<1>10. CASE ProcessEnds
  <2>1. command'.do = "none"
    BY <1>10 DEF ProcessEnds, NoCommand
  <2> QED
    BY <1>10, <2>1 DEF FileInv, ProcessEnds, NoHandles
<1>11. CASE UNCHANGED fileVars
  BY <1>11 DEF FileInv, fileVars
<1> QED
  BY <1>1, <1>2, <1>3, <1>4, <1>5, <1>6, <1>7, <1>8, <1>9, <1>10, <1>11 DEF FileNext

\* cat has said all when a read gives nothing.
LEMMA FileInvImplies == FileInv => FilesHoldWhatWasWritten
<1> SUFFICES ASSUME FileInv PROVE FilesHoldWhatWasWritten
  OBVIOUS
<1> DEFINE content == contents[handles[1].inode]
<1>1. ASSUME command.do = "cat", ReadBytes(1, handles[1].offset, BufferSize) = <<>>
      PROVE  command.out = content
  <2>1. /\ handles[1].inode \in DOMAIN contents /\ handles[1].readable
        /\ handles[1].offset = Len(command.out)
        /\ command.out \in Seq(Values)
        /\ Len(command.out) <= Len(content)
        /\ command.out = Bytewise(content, 0, Len(command.out))
    BY <1>1 DEF FileInv
  <2>2. content \in Seq(Values)
    BY <2>1, Images DEF FileInv
  <2>3. Bytewise(content, Len(command.out), BufferSize) = <<>>
    BY <1>1, <2>1 DEF ReadBytes, Opened
  <2>4. Len(command.out) \in 0 .. Len(content) /\ BufferSize \in Nat \ {0}
    BY <2>1, <2>2, FileAssumption
  <2>5. Len(command.out) = Len(content)
    <3> HIDE DEF content
    <3> QED
      BY <2>2, <2>3, <2>4, NextPart
  <2>6. \A k \in 1 .. Len(command.out) : command.out[k] = content[k]
    <3> HIDE DEF content
    <3> QED
      BY <2>1, <2>2, <2>4, Beginnings
  <2> QED
    BY <2>1, <2>2, <2>5, <2>6, SeqEqual
<1> QED
  BY <1>1 DEF FileInv, FilesHoldWhatWasWritten

\* For every number of files and handles and every size of bytes, buffers and
\* files: a file holds at each place the byte last written there or zero, what
\* a command has written of its data is what its file holds, and cat stops at
\* the end.
THEOREM FilesHold == FileSpec => []FilesHoldWhatWasWritten
<1>1. FileSpec => []FileInv
  BY FileInvInit, FileInvNext, PTL DEF FileSpec
<1> QED
  BY <1>1, FileInvImplies, PTL

-----------------------------------------------------------------------------
(* The scan of a directory.                                                *)

\* What a request lists, and the names that were given out.
Listable == dir_index \cup Dots
Given == ToSet(scan.listed)

\* Names the scan has passed without giving them, and given ones ahead of it.
Overlooked == {n \in kept : Place(n) <= scan.offset /\ n \notin Given}
Ahead == {n \in kept : Place(n) > scan.offset /\ n \in Given}

\* The types, which a proof needs and a run has no use for.
ScanTypes ==
  /\ dir_index \subseteq EntryNames
  /\ kept \subseteq Listable
  /\ scan \in [offset : Nat, listed : Seq(Nat), done : BOOLEAN]
  /\ passed \in [went : Nat, came : Nat, changes : Nat]

\* What every request and every change keeps: a name that went accounts for each
\* name overlooked, and one that came for each name given twice or about to be.
ScanInv ==
  /\ ScanTypes
  /\ Cardinality(Overlooked) <= passed.went
  /\ Cardinality(Repeated) + Cardinality(Ahead) <= passed.came
  /\ scan.done => \A n \in Listable : Place(n) <= scan.offset

\* The place of a number among those of a set, in it or not.
Rank(D, n) == Cardinality({m \in D : m < n}) + 1

\* A name's place is above those of the names before it.
LEMMA RankIs ==
  ASSUME NEW D \in SUBSET Nat, IsFiniteSet(D), NEW n \in Nat
  PROVE  /\ Rank(D, n) \in Nat \ {0}
         /\ \A m \in Nat : m <= n => Rank(D, m) <= Rank(D, n)
         /\ \A m \in D : m < n => Rank(D, m) < Rank(D, n)
         /\ n \in D => Rank(D, n) <= Cardinality(D)
<1> DEFINE before(m) == {k \in D : k < m}
<1>1. \A m : IsFiniteSet(before(m)) /\ Cardinality(before(m)) \in Nat
  <2> SUFFICES ASSUME NEW m PROVE IsFiniteSet(before(m)) /\ Cardinality(before(m)) \in Nat
    OBVIOUS
  <2>1. before(m) \in SUBSET D
    OBVIOUS
  <2> HIDE DEF before
  <2> QED BY <2>1, FS_Subset, FS_CardinalityType
<1>2. ASSUME NEW m \in Nat, m <= n PROVE Cardinality(before(m)) <= Cardinality(before(n))
  <2>1. \A k \in D : k < m => k < n
    BY <1>2
  <2>2. before(m) \in SUBSET before(n)
    BY <2>1
  <2> HIDE DEF before
  <2> QED BY <1>1, <2>2, FS_Subset
<1>3. ASSUME NEW m \in D, m < n PROVE Cardinality(before(m)) < Cardinality(before(n))
  <2>0. \A k \in D : k < m => k < n
    BY <1>3
  <2>1. before(m) \in SUBSET before(n) /\ m \in before(n)
    BY <1>3, <2>0
  <2>2. m \notin before(m)
    OBVIOUS
  <2> HIDE DEF before
  <2>3. Cardinality(before(m)) <= Cardinality(before(n))
        /\ Cardinality(before(m)) # Cardinality(before(n))
    BY <1>1, <2>1, <2>2, FS_Subset
  <2> QED BY <1>1, <2>3
<1>4. ASSUME n \in D PROVE Cardinality(before(n)) < Cardinality(D)
  <2>1. before(n) \in SUBSET D /\ n \notin before(n)
    OBVIOUS
  <2> HIDE DEF before
  <2>2. Cardinality(before(n)) <= Cardinality(D) /\ Cardinality(before(n)) # Cardinality(D)
    BY <1>4, <2>1, FS_Subset
  <2> QED BY <1>1, <2>2, FS_CardinalityType
<1>5. \A m : Rank(D, m) = Cardinality(before(m)) + 1
  BY DEF Rank
<1>6. Cardinality(D) \in Nat
  BY FS_CardinalityType
<1> HIDE DEF before
<1> QED BY <1>1, <1>2, <1>3, <1>4, <1>5, <1>6

\* Each number up to the size of the set is the place of one of its numbers.
LEMMA RankOnto ==
  ASSUME NEW D \in SUBSET Nat, IsFiniteSet(D), NEW k \in 1 .. Cardinality(D)
  PROVE  \E n \in D : Rank(D, n) = k
<1> DEFINE f == [n \in D |-> Rank(D, n)]
           T == 1 .. Cardinality(D)
<1>1. Cardinality(D) \in Nat /\ IsFiniteSet(T) /\ Cardinality(T) = Cardinality(D)
  BY FS_CardinalityType, FS_Interval
<1>2. \A n \in D : Rank(D, n) \in T
  BY <1>1, RankIs
<1>3. \A m, n \in D : m < n => Rank(D, m) # Rank(D, n)
  BY RankIs
<1>4. \A m, n \in D : m # n => f[m] # f[n]
  BY <1>3
<1>5. f \in Injection(D, T)
  BY <1>2, <1>4 DEF Injection, IsInjective
<1>6. f \in Surjection(D, T)
  <2> HIDE DEF f, T
  <2> QED BY <1>1, <1>5, FS_Injection
<1> QED BY <1>6 DEF Surjection

\* What a name that goes does to the places of the others.
LEMMA RankWithout ==
  ASSUME NEW D \in SUBSET Nat, IsFiniteSet(D), NEW x \in D, NEW n \in Nat
  PROVE  Rank(D \ {x}, n) = IF x < n THEN Rank(D, n) - 1 ELSE Rank(D, n)
<1> DEFINE before == {m \in D : m < n}
           after == {m \in D \ {x} : m < n}
<1>1. before \in SUBSET D /\ after = before \ {x} /\ (x \in before <=> x < n)
  OBVIOUS
<1>2. Rank(D \ {x}, n) = Cardinality(after) + 1 /\ Rank(D, n) = Cardinality(before) + 1
  BY DEF Rank
<1> HIDE DEF before, after
<1>3. IsFiniteSet(before)
  BY <1>1, FS_Subset
<1>4. Cardinality(before) \in Nat
  BY <1>3, FS_CardinalityType
<1>5. Cardinality(after) = IF x < n THEN Cardinality(before) - 1 ELSE Cardinality(before)
  BY <1>1, <1>3, FS_RemoveElement
<1> QED BY <1>2, <1>4, <1>5

\* And one that comes.
LEMMA RankWith ==
  ASSUME NEW D \in SUBSET Nat, IsFiniteSet(D), NEW x \in Nat, NEW n \in Nat
  PROVE  Rank(D \cup {x}, n) = IF x < n /\ x \notin D THEN Rank(D, n) + 1 ELSE Rank(D, n)
<1> DEFINE before == {m \in D : m < n}
           after == {m \in D \cup {x} : m < n}
<1>1. /\ before \in SUBSET D
      /\ after = IF x < n THEN before \cup {x} ELSE before
      /\ x < n => (x \in before <=> x \in D)
  OBVIOUS
<1>2. Rank(D \cup {x}, n) = Cardinality(after) + 1 /\ Rank(D, n) = Cardinality(before) + 1
  BY DEF Rank
<1> HIDE DEF before, after
<1>3. IsFiniteSet(before)
  BY <1>1, FS_Subset
<1>4. Cardinality(before) \in Nat
  BY <1>3, FS_CardinalityType
<1>5. Cardinality(before \cup {x}) = IF x \in before THEN Cardinality(before) ELSE Cardinality(before) + 1
  BY <1>3, FS_AddElement
<1> QED BY <1>1, <1>2, <1>4, <1>5

-----------------------------------------------------------------------------
(* What the sets of the model are.                                         *)

\* They are finite sets of numbers, and have sizes.
LEMMA SetsAre ==
  ASSUME ScanTypes
  PROVE  /\ Listable \in SUBSET Nat /\ IsFiniteSet(Listable)
         /\ IsFiniteSet(kept) /\ kept \in SUBSET Nat
         /\ \A n : Place(n) = Rank(Listable, n)
         /\ Cardinality(Listable) \in Nat
         /\ IsFiniteSet(Overlooked) /\ IsFiniteSet(Ahead) /\ IsFiniteSet(Repeated)
         /\ Cardinality(Overlooked) \in Nat /\ Cardinality(Ahead) \in Nat
         /\ Cardinality(Repeated) \in Nat
<1>1. IsFiniteSet(Dots) /\ Dots \in SUBSET Nat
  <2>1. IsFiniteSet({0}) /\ Dots = {0} \cup {1}
    BY FS_Singleton DEF Dots
  <2> QED BY <2>1, FS_AddElement
<1>2. IsFiniteSet(dir_index) /\ dir_index \in SUBSET Nat
  BY EntryAssumption, FS_Subset DEF ScanTypes
<1>3. Listable \in SUBSET Nat /\ IsFiniteSet(Listable)
  BY <1>1, <1>2, FS_Union DEF Listable
<1>4. IsFiniteSet(kept) /\ kept \in SUBSET Nat
  BY <1>3, FS_Subset DEF ScanTypes
<1>5. \A n : Place(n) = Rank(Listable, n)
  BY DEF Place, Rank, Listable
<1>6. Overlooked \in SUBSET kept /\ Ahead \in SUBSET kept
  BY DEF Overlooked, Ahead
<1>7. IsFiniteSet(Overlooked) /\ IsFiniteSet(Ahead)
  BY <1>4, <1>6, FS_Subset
<1>8. IsFiniteSet(Repeated)
  <2>1. Len(scan.listed) \in Nat /\ DOMAIN scan.listed = 1 .. Len(scan.listed)
    BY DEF ScanTypes
  <2>2. IsFiniteSet(1 .. Len(scan.listed)) /\ Repeated \in SUBSET (1 .. Len(scan.listed))
    BY <2>1, FS_Interval DEF Repeated
  <2> QED BY <2>2, FS_Subset
<1> QED BY <1>3, <1>4, <1>5, <1>7, <1>8, FS_CardinalityType

\* The listing has every name at its place.
LEMMA ListingIs ==
  ASSUME ScanTypes
  PROVE  /\ Listing \in Seq(Nat)
         /\ Len(Listing) = Cardinality(Listable)
         /\ \A k \in 1 .. Len(Listing) : Listing[k] \in Listable /\ Place(Listing[k]) = k
         /\ \A n \in Listable : Place(n) \in 1 .. Len(Listing) /\ Listing[Place(n)] = n
<1> DEFINE size == Cardinality(Listable)
           at(k) == CHOOSE n \in Listable : Place(n) = k
<1>1. size \in Nat /\ Listable \in SUBSET Nat /\ IsFiniteSet(Listable)
      /\ \A n : Place(n) = Rank(Listable, n)
  BY SetsAre
<1>2. Listing = [k \in 1 .. size |-> at(k)]
  BY DEF Listing, Listable
<1>3. \A k \in 1 .. size : at(k) \in Listable /\ Place(at(k)) = k
  <2> SUFFICES ASSUME NEW k \in 1 .. size PROVE at(k) \in Listable /\ Place(at(k)) = k
    OBVIOUS
  <2>1. \E n \in Listable : Place(n) = k
    BY <1>1, RankOnto
  <2> HIDE DEF size
  <2> QED BY <2>1
<1> HIDE DEF at, size
<1>4. /\ Listing \in Seq(Nat) /\ Len(Listing) = size
      /\ \A k \in 1 .. size : Listing[k] = at(k)
  <2>1. \A k \in 1 .. size : at(k) \in Nat
    BY <1>1, <1>3
  <2> HIDE DEF at
  <2>2. Listing \in [1 .. size -> Nat]
    BY <1>2, <2>1
  <2> QED BY <1>1, <1>2, <2>2
<1>5. ASSUME NEW n \in Listable
      PROVE  Place(n) \in 1 .. size /\ Listing[Place(n)] = n
  <2>1. Place(n) \in 1 .. size
    BY <1>1, RankIs DEF size
  <2>2. at(Place(n)) \in Listable /\ Place(at(Place(n))) = Place(n)
    BY <1>3, <2>1
  <2>3. \A m \in Listable : m # n => Place(m) # Place(n)
    <3>1. \A m, k \in Listable : m < k => Rank(Listable, m) < Rank(Listable, k)
      BY <1>1, RankIs
    <3>2. \A m \in Listable : Rank(Listable, m) \in Nat
      BY <1>1, RankIs
    <3>3. \A m \in Listable : m # n => m < n \/ n < m
      BY <1>1
    <3> QED BY <1>1, <3>1, <3>2, <3>3
  <2>4. Listing[Place(n)] = at(Place(n))
    BY <1>4, <2>1
  <2> QED BY <2>1, <2>2, <2>3, <2>4
<1> QED BY <1>3, <1>4, <1>5 DEF size

\* The names of a directory, and what they are counted among.
LEMMA ListableIs ==
  ASSUME NEW D \in SUBSET EntryNames
  PROVE  D \cup Dots \in SUBSET Nat /\ IsFiniteSet(D \cup Dots)
<1>1. IsFiniteSet(Dots) /\ Dots \in SUBSET Nat
  <2>1. IsFiniteSet({0}) /\ Dots = {0} \cup {1}
    BY FS_Singleton DEF Dots
  <2> QED BY <2>1, FS_AddElement
<1> QED BY <1>1, EntryAssumption, FS_Subset, FS_Union

-----------------------------------------------------------------------------
(* What requests do to a scan.                                             *)

\* The n entries of a listing that follow the first o.
PageOf(s, o, n) == SubSeq(s, o + 1, IF o + n < Len(s) THEN o + n ELSE Len(s))

\* A page that is not empty is what the listing s has behind o, put behind L.
Follows(page, s, o, L) ==
  /\ page # <<>> /\ page \in Seq(Nat) /\ Len(page) \in Nat \ {0}
  /\ o + Len(page) <= Len(s)
  /\ L \o page \in Seq(Nat) /\ Len(L \o page) = Len(L) + Len(page)
  /\ \A k \in 1 .. Len(L) : (L \o page)[k] = L[k]
  /\ \A j \in 1 .. Len(page) : (L \o page)[Len(L) + j] = s[o + j]

\* A page is empty behind the end of the listing, and what is found there else.
LEMMA PageIs ==
  ASSUME NEW s \in Seq(Nat), NEW o \in Nat, NEW n \in Nat \ {0}, NEW L \in Seq(Nat)
  PROVE  \/ PageOf(s, o, n) = <<>> /\ Len(s) <= o
         \/ Follows(PageOf(s, o, n), s, o, L)
<1>0. PICK last, page : /\ last = IF o + n < Len(s) THEN o + n ELSE Len(s)
                        /\ page = SubSeq(s, o + 1, last) /\ page = PageOf(s, o, n)
  BY DEF PageOf
<1>1. Len(s) \in Nat /\ last \in Int /\ Len(L) \in Nat
  BY <1>0
<1>2. CASE Len(s) <= o
  <2>1. last < o + 1
    BY <1>0, <1>1, <1>2
  <2>2. page = <<>>
    BY <1>0, <1>1, <2>1, SubSeqEmpty
  <2> QED BY <1>0, <1>2, <2>2
<1>3. CASE o < Len(s)
  <2>1. o + 1 <= last /\ last <= Len(s)
    BY <1>0, <1>1, <1>3
  <2>2. \A i \in o + 1 .. last : s[i] \in Nat
    BY <1>1, <2>1
  <2>3. /\ page \in Seq(Nat) /\ Len(page) = last - (o + 1) + 1
        /\ \A i \in 1 .. last - (o + 1) + 1 : page[i] = s[o + 1 + i - 1]
    BY <1>0, <1>1, <2>1, <2>2, SubSeqProperties
  <2>4. Len(page) = last - o /\ Len(page) \in Nat \ {0} /\ o + Len(page) <= Len(s)
    BY <1>1, <2>1, <2>3
  <2>2a. page # <<>>
    BY <2>3, <2>4
  <2>5. ASSUME NEW i \in 1 .. Len(page) PROVE page[i] = s[o + i]
    <3>1. i \in 1 .. last - (o + 1) + 1 /\ o + 1 + i - 1 = o + i
      BY <1>1, <2>4
    <3> QED BY <2>3, <3>1
  <2>6. /\ L \o page \in Seq(Nat) /\ Len(L \o page) = Len(L) + Len(page)
        /\ \A k \in 1 .. Len(L) + Len(page) :
             (L \o page)[k] = IF k <= Len(L) THEN L[k] ELSE page[k - Len(L)]
    BY <2>3, ConcatProperties
  <2>7. \A k \in 1 .. Len(L) : (L \o page)[k] = L[k]
    BY <1>1, <2>4, <2>6
  <2>8. ASSUME NEW j \in 1 .. Len(page) PROVE (L \o page)[Len(L) + j] = s[o + j]
    <3>1. Len(L) + j \in 1 .. Len(L) + Len(page) /\ ~(Len(L) + j <= Len(L)) /\ (Len(L) + j) - Len(L) = j
      BY <1>1, <2>4
    <3> QED BY <2>5, <2>6, <3>1
  <2> QED BY <1>0, <2>2a, <2>3, <2>4, <2>6, <2>7, <2>8 DEF Follows
<1>4. Len(s) <= o \/ o < Len(s)
  BY <1>1
<1> QED BY <1>2, <1>3, <1>4

\* One field of a scan changed.
LEMMA ScanWith ==
  ASSUME NEW o, NEW L, NEW d, NEW s, s = [offset |-> o, listed |-> L, done |-> d], NEW e, NEW t
  PROVE  /\ t = [s EXCEPT !.offset = e] => t = [offset |-> e, listed |-> L, done |-> d]
         /\ t = [s EXCEPT !.listed = e] => t = [offset |-> o, listed |-> e, done |-> d]
         /\ t = [s EXCEPT !.done = e] => t = [offset |-> o, listed |-> L, done |-> e]
<1>1. ASSUME t = [s EXCEPT !.offset = e] PROVE t = [offset |-> e, listed |-> L, done |-> d]
  BY <1>1, SMT
<1>2. ASSUME t = [s EXCEPT !.listed = e] PROVE t = [offset |-> o, listed |-> e, done |-> d]
  BY <1>2, SMT
<1>3. ASSUME t = [s EXCEPT !.done = e] PROVE t = [offset |-> o, listed |-> L, done |-> e]
  BY <1>3, SMT
<1> QED BY <1>1, <1>2, <1>3, Zenon

\* And the two that a page changes.
LEMMA ScanMoved ==
  ASSUME NEW o, NEW L, NEW d, NEW s, s = [offset |-> o, listed |-> L, done |-> d],
         NEW p, NEW K, NEW t, t = [s EXCEPT !.offset = p, !.listed = K]
  PROVE  t = [offset |-> p, listed |-> K, done |-> d]
<1>1. PICK u : u = [s EXCEPT !.offset = p]
  OBVIOUS
<1>2. u = [offset |-> p, listed |-> L, done |-> d]
  BY <1>1, ScanWith, Zenon
<1>3. t = [u EXCEPT !.listed = K]
  BY <1>1, Zenon
<1> QED BY <1>2, <1>3, ScanWith, Zenon

\* A request at the end of the listing ends the scan; another gives out what
\* is listed behind the place of the scan.
LEMMA PageRead ==
  ASSUME ScanTypes, NEW n \in Nat \ {0}, ReadPage(n)
  PROVE  \/ /\ Len(Listing) <= scan.offset
            /\ scan' = [offset |-> scan.offset, listed |-> scan.listed, done |-> TRUE]
         \/ \E t \in Nat \ {0}, K \in Seq(Nat) :
              /\ scan' = [offset |-> scan.offset + t, listed |-> K, done |-> FALSE]
              /\ scan.offset + t <= Len(Listing)
              /\ Len(K) = Len(scan.listed) + t
              /\ \A k \in 1 .. Len(scan.listed) : K[k] = scan.listed[k]
              /\ \A j \in 1 .. t : K[Len(scan.listed) + j] = Listing[scan.offset + j]
<1>1. PICK o, L, s, page : /\ o = scan.offset /\ L = scan.listed /\ s = Listing
                           /\ page = PageOf(s, o, n)
  OBVIOUS
<1>2. o \in Nat /\ L \in Seq(Nat) /\ s \in Seq(Nat)
  BY <1>1, ListingIs DEF ScanTypes
<1>3. scan = [offset |-> o, listed |-> L, done |-> FALSE]
  BY <1>1 DEF ScanTypes, ReadPage
<1>4. /\ page = <<>> => scan' = [scan EXCEPT !.done = TRUE]
      /\ page # <<>> => scan' = [scan EXCEPT !.offset = o + Len(page), !.listed = L \o page]
  BY <1>1 DEF ReadPage, PageOf
<1>5. CASE page = <<>> /\ Len(s) <= o
  <2>1. scan' = [offset |-> o, listed |-> L, done |-> TRUE]
    BY <1>3, <1>4, <1>5, ScanWith, Zenon
  <2> QED BY <1>1, <1>5, <2>1
<1>6. ASSUME Follows(page, s, o, L)
      PROVE  \E t \in Nat \ {0}, K \in Seq(Nat) :
               /\ scan' = [offset |-> scan.offset + t, listed |-> K, done |-> FALSE]
               /\ scan.offset + t <= Len(Listing)
               /\ Len(K) = Len(scan.listed) + t
               /\ \A k \in 1 .. Len(scan.listed) : K[k] = scan.listed[k]
               /\ \A j \in 1 .. t : K[Len(scan.listed) + j] = Listing[scan.offset + j]
  <2>1. PICK t \in Nat \ {0}, K \in Seq(Nat) : t = Len(page) /\ K = L \o page
    BY <1>6 DEF Follows
  <2>2. o + t \in Nat
    BY <1>2, <2>1
  <2>3. scan' = [scan EXCEPT !.offset = o + t, !.listed = K]
    BY <1>4, <1>6, <2>1 DEF Follows
  <2>4. scan' = [offset |-> o + t, listed |-> K, done |-> FALSE]
    BY <1>3, <2>3, ScanMoved, Zenon
  <2> WITNESS t \in Nat \ {0}, K \in Seq(Nat)
  <2> QED BY <1>1, <1>6, <2>1, <2>4 DEF Follows
<1>7. (page = <<>> /\ Len(s) <= o) \/ Follows(page, s, o, L)
  BY <1>1, <1>2, PageIs
<1> QED BY <1>1, <1>5, <1>6, <1>7

\* A page moves the scan on by what it gives; a name given again is one that
\* was given ahead of the scan, and no name is passed without being given.
LEMMA PageKeepsInv ==
  ASSUME ScanInv, NEW n \in Nat \ {0}, ReadPage(n)
  PROVE  ScanInv'
<1>1. /\ ScanTypes /\ scan.offset \in Nat /\ scan.listed \in Seq(Nat)
  BY DEF ScanInv, ScanTypes
<1>2. /\ UNCHANGED <<dir_index, kept, passed>> /\ Listable' = Listable
      /\ \A x : Place(x)' = Place(x)
  BY DEF ReadPage, Listable, Place
<1>3. CASE /\ Len(Listing) <= scan.offset
           /\ scan' = [offset |-> scan.offset, listed |-> scan.listed, done |-> TRUE]
  <2>1. /\ ScanTypes' /\ Overlooked' = Overlooked /\ Ahead' = Ahead /\ Repeated' = Repeated
    BY <1>1, <1>2, <1>3 DEF ScanTypes, Overlooked, Ahead, Repeated, Given
  <2>2. ASSUME NEW x \in Listable PROVE Place(x) <= scan.offset
    <3>1. Place(x) \in 1 .. Len(Listing) /\ Len(Listing) \in Nat
      BY <1>1, ListingIs
    <3> QED BY <1>1, <1>3, <3>1
  <2> QED BY <1>2, <1>3, <2>1, <2>2 DEF ScanInv
<1>4. ASSUME NEW t \in Nat \ {0}, NEW K \in Seq(Nat),
             scan' = [offset |-> scan.offset + t, listed |-> K, done |-> FALSE],
             scan.offset + t <= Len(Listing),
             Len(K) = Len(scan.listed) + t,
             \A k \in 1 .. Len(scan.listed) : K[k] = scan.listed[k],
             \A j \in 1 .. t : K[Len(scan.listed) + j] = Listing[scan.offset + j]
      PROVE  ScanInv'
  <2>1. PICK o \in Nat, L \in Seq(Nat) : o = scan.offset /\ L = scan.listed
    BY <1>1
  <2>2. Len(L) \in Nat /\ DOMAIN L = 1 .. Len(L) /\ DOMAIN K = 1 .. Len(L) + t
    BY <1>4, <2>1
  <2>3. scan'.offset = o + t /\ scan'.listed = K /\ scan'.done = FALSE
    BY <1>4, <2>1
  <2>4. ASSUME NEW k \in 1 .. Len(L) PROVE k \in 1 .. Len(L) + t /\ K[k] = L[k]
    BY <1>4, <2>1, <2>2
  <2>5. ASSUME NEW j \in 1 .. t
        PROVE  /\ Len(L) + j \in 1 .. Len(L) + t
               /\ K[Len(L) + j] = Listing[o + j]
               /\ Listing[o + j] \in Listable /\ Place(Listing[o + j]) = o + j
    <3>1. o + j \in 1 .. Len(Listing) /\ Len(L) + j \in 1 .. Len(L) + t
      <4>1. Len(Listing) \in Nat /\ o + t <= Len(Listing)
        BY <1>1, <1>4, <2>1, ListingIs, SetsAre
      <4> QED BY <2>2, <4>1
    <3>2. /\ \A k \in 1 .. Len(Listing) : Listing[k] \in Listable /\ Place(Listing[k]) = k
          /\ \A k \in 1 .. t : K[Len(L) + k] = Listing[o + k]
      BY <1>1, <1>4, <2>1, ListingIs
    <3> QED BY <3>1, <3>2
  <2>6. ASSUME NEW k \in 1 .. Len(L) + t, k \notin 1 .. Len(L)
        PROVE  k - Len(L) \in 1 .. t /\ k = Len(L) + (k - Len(L))
    BY <2>2, <2>6
  <2>7. ScanTypes'
    BY <1>1, <1>2, <1>4 DEF ScanTypes
  <2>8. ASSUME NEW x
        PROVE  x \in Given' <=> x \in Given \/ \E j \in 1 .. t : x = Listing[o + j]
    <3>1. Given' = {K[k] : k \in 1 .. Len(L) + t} /\ Given = {L[k] : k \in 1 .. Len(L)}
      BY <2>1, <2>2, <2>3 DEF Given, ToSet
    <3>2. ASSUME x \in Given' PROVE x \in Given \/ \E j \in 1 .. t : x = Listing[o + j]
      <4>1. PICK k \in 1 .. Len(L) + t : x = K[k]
        BY <3>1, <3>2
      <4>2. CASE k \in 1 .. Len(L)
        BY <2>4, <3>1, <4>1, <4>2
      <4>3. CASE k \notin 1 .. Len(L)
        <5>1. PICK j \in 1 .. t : k = Len(L) + j
          BY <2>6, <4>3
        <5> QED BY <2>5, <4>1, <5>1
      <4> QED BY <4>2, <4>3
    <3>3. ASSUME x \in Given PROVE x \in Given'
      BY <2>4, <3>1, <3>3
    <3>4. ASSUME NEW j \in 1 .. t, x = Listing[o + j] PROVE x \in Given'
      BY <2>5, <3>1, <3>4
    <3> QED BY <3>2, <3>3, <3>4
  <2>9. ASSUME NEW x \in kept
        PROVE  /\ x \in Listable /\ Place(x) \in Nat /\ Listing[Place(x)] = x
               /\ Place(x)' = Place(x)
    <3>1. x \in Listable
      BY <1>1 DEF ScanTypes
    <3>2. Place(x) \in 1 .. Len(Listing) /\ Listing[Place(x)] = x
      BY <1>1, <3>1, ListingIs
    <3> QED BY <1>2, <3>1, <3>2
  <2>10. Overlooked' \subseteq Overlooked
    <3> SUFFICES ASSUME NEW x \in kept, Place(x) <= o + t, x \notin Given' PROVE x \in Overlooked
      BY <1>2, <2>3 DEF Overlooked
    <3>1. x \notin Given /\ \A j \in 1 .. t : x # Listing[o + j]
      BY <2>8
    <3>2. CASE Place(x) > o
      <4>1. Place(x) - o \in 1 .. t /\ o + (Place(x) - o) = Place(x)
        BY <2>9, <3>2
      <4> QED BY <2>9, <3>1, <4>1
    <3>3. CASE Place(x) <= o
      BY <2>1, <3>1, <3>3 DEF Overlooked
    <3> QED BY <2>9, <3>2, <3>3
  <2>11. ASSUME NEW x, x \in Ahead' PROVE x \in Ahead
    <3>1. x \in kept /\ Place(x) > o + t /\ x \in Given'
      BY <1>2, <2>3, <2>11 DEF Ahead
    <3>2. \A j \in 1 .. t : x # Listing[o + j]
      <4> SUFFICES ASSUME NEW j \in 1 .. t, x = Listing[o + j] PROVE FALSE
        OBVIOUS
      <4>1. Place(x) = o + j
        BY <2>5
      <4> QED BY <3>1, <4>1
    <3>3. x \in Given /\ Place(x) > o
      <4>1. x \in Given
        BY <2>8, <3>1, <3>2
      <4>2. Place(x) \in Nat
        BY <2>9, <3>1
      <4> QED BY <3>1, <4>1, <4>2
    <3> QED BY <2>1, <3>1, <3>3 DEF Ahead
  <2>12. PICK again : again = {k \in Repeated' : k \notin 1 .. Len(L)}
    OBVIOUS
  <2>13. Repeated' \subseteq 1 .. Len(L) + t /\ Repeated \subseteq 1 .. Len(L)
    BY <2>1, <2>2, <2>3 DEF Repeated
  <2>14. ASSUME NEW k \in 1 .. Len(L)
         PROVE  k \in Repeated' <=> k \in Repeated
    <3>1. \A j \in 1 .. k - 1 : j \in 1 .. Len(L)
      BY <2>2
    <3>2. k \in 1 .. Len(L) + t /\ K[k] = L[k] /\ \A j \in 1 .. k - 1 : K[j] = L[j]
      BY <2>4, <3>1
    <3> QED BY <1>2, <2>1, <2>2, <2>3, <3>2 DEF Repeated
  <2>15. ASSUME NEW k \in again
         PROVE  /\ k \in Nat /\ K[k] \in Ahead /\ K[k] \notin Ahead'
                /\ Place(K[k]) = o + (k - Len(L))
    <3>1. k \in 1 .. Len(L) + t /\ k \notin 1 .. Len(L) /\ k \in Repeated'
      BY <2>12, <2>13
    <3>2. K[k] \in kept /\ \E i \in 1 .. k - 1 : K[i] = K[k]
      BY <1>2, <2>3, <3>1 DEF Repeated
    <3>3. PICK j \in 1 .. t : j = k - Len(L) /\ k = Len(L) + j
      BY <2>6, <3>1
    <3>4. K[k] = Listing[o + j] /\ Place(K[k]) = o + j
      BY <2>5, <3>3
    <3>5. PICK i \in 1 .. k - 1 : K[i] = K[k]
      BY <3>2
    <3>6. i \in 1 .. Len(L) + t
      BY <2>2, <3>1
    <3>7. i \in 1 .. Len(L)
      <4> SUFFICES ASSUME i \notin 1 .. Len(L) PROVE FALSE
        OBVIOUS
      <4>1. PICK h \in 1 .. t : i = Len(L) + h
        BY <2>6, <3>6
      <4>2. Place(K[i]) = o + h
        BY <2>5, <4>1
      <4> QED BY <2>2, <3>3, <3>4, <3>5, <4>1, <4>2
    <3>8. K[k] \in Given
      BY <2>1, <2>2, <2>4, <3>5, <3>7 DEF Given, ToSet
    <3>9. K[k] \in Ahead
      BY <2>1, <3>2, <3>4, <3>8 DEF Ahead
    <3>10. K[k] \notin Ahead'
      <4>1. ~(Place(K[k]) > o + t)
        BY <3>4
      <4> QED BY <1>2, <2>3, <4>1 DEF Ahead
    <3> QED BY <2>2, <3>1, <3>3, <3>4, <3>9, <3>10
  <2>16. PICK T : T = Ahead \ Ahead'
    OBVIOUS
  <2>17. IsFiniteSet(T) /\ IsFiniteSet(Ahead)
    BY <1>1, <2>16, SetsAre, FS_Difference
  <2>18. Cardinality(again) <= Cardinality(T) /\ IsFiniteSet(again)
    <3>1. PICK f : f = [k \in again |-> K[k]]
      OBVIOUS
    <3>2. f \in [again -> T]
      BY <2>15, <2>16, <3>1
    <3>3. \A j, k \in again : K[j] = K[k] => j = k
      BY <2>2, <2>15
    <3>4. \A j, k \in again : f[j] = f[k] => j = k
      BY <3>1, <3>3
    <3>5. f \in Injection(again, T)
      BY <3>2, <3>4 DEF Injection, IsInjective
    <3> QED BY <2>17, <3>5, FS_Injection
  <2>19. PICK R : R = Repeated
    OBVIOUS
  <2>20. Repeated' = R \cup again /\ R \cap again = {} /\ IsFiniteSet(R)
    <3>1. IsFiniteSet(R)
      BY <1>1, <2>19, SetsAre
    <3> QED BY <2>12, <2>13, <2>14, <2>19, <3>1
  <2>21. Cardinality(Repeated') = Cardinality(R) + Cardinality(again)
         /\ Cardinality(R) \in Nat /\ Cardinality(again) \in Nat
    <3>1. Cardinality(R \cup again) = Cardinality(R) + Cardinality(again) - Cardinality({})
      BY <2>18, <2>20, FS_Union
    <3>2. Cardinality({}) = 0 /\ Cardinality(R) \in Nat /\ Cardinality(again) \in Nat
      BY <2>18, <2>20, FS_EmptySet, FS_CardinalityType
    <3> QED BY <2>20, <3>1, <3>2
  <2>22. PICK A, B : A = Ahead /\ B = Ahead'
    OBVIOUS
  <2>23. Cardinality(T) = Cardinality(A) - Cardinality(B) /\ Cardinality(A) \in Nat /\ Cardinality(B) \in Nat
    <3>1. A \cap B = B /\ T = A \ B /\ IsFiniteSet(A) /\ B \subseteq A
      BY <2>11, <2>16, <2>17, <2>22
    <3>2. IsFiniteSet(B)
      BY <3>1, FS_Subset
    <3> QED BY <3>1, <3>2, FS_Difference, FS_CardinalityType
  <2>24. Cardinality(Overlooked') <= Cardinality(Overlooked) /\ Cardinality(Overlooked') \in Nat
         /\ Cardinality(Overlooked) \in Nat
    <3>1. IsFiniteSet(Overlooked) /\ IsFiniteSet(Overlooked')
      BY <1>1, <2>10, SetsAre, FS_Subset
    <3> QED BY <2>10, <3>1, FS_Subset, FS_CardinalityType
  <2>25. passed' = passed /\ passed.went \in Nat /\ passed.came \in Nat
    BY <1>1, <1>2 DEF ScanTypes
  <2>26. /\ Cardinality(Overlooked) <= passed.went
         /\ Cardinality(R) + Cardinality(A) <= passed.came
    BY <2>19, <2>22 DEF ScanInv
  <2>27. Cardinality(Overlooked') <= passed.went
    BY <2>24, <2>25, <2>26
  <2>28. Cardinality(Repeated') + Cardinality(Ahead') <= passed.came
    BY <2>18, <2>21, <2>22, <2>23, <2>25, <2>26
  <2> QED BY <2>3, <2>7, <2>25, <2>27, <2>28 DEF ScanInv
<1> QED BY <1>1, <1>3, <1>4, PageRead

\* A scan that begins has passed nothing.
LEMMA Beginning ==
  /\ ScanInit => ScanInv
  /\ ScanTypes /\ OpenDirectory => ScanInv'
<1>1. Cardinality({}) = 0
  BY FS_EmptySet
<1>3. ASSUME ScanInit PROVE ScanInv
  <2>1. ScanTypes
    BY <1>3 DEF ScanInit, ScanTypes, NewScan, Unchanged, Listable
  <2>2. \A n \in kept : Place(n) > 0 /\ Place(n) \in Nat
    <3>1. kept = Listable
      BY <1>3 DEF ScanInit, Listable
    <3> QED BY <2>1, <3>1, SetsAre, RankIs
  <2>3. Overlooked = {}
    BY <1>3, <2>2 DEF Overlooked, ScanInit, NewScan
  <2>4. Ahead = {} /\ Repeated = {}
    BY <1>3 DEF Ahead, Repeated, Given, ToSet, ScanInit, NewScan
  <2> QED BY <1>1, <1>3, <2>1, <2>3, <2>4 DEF ScanInv, ScanInit, NewScan, Unchanged
<1>4. ASSUME ScanTypes, OpenDirectory PROVE ScanInv'
  <2>1. ScanTypes' /\ Listable' = Listable
    BY <1>4 DEF OpenDirectory, ScanTypes, NewScan, Unchanged, Listable
  <2>2. \A n \in kept' : Place(n)' = Place(n) /\ Place(n) > 0 /\ Place(n) \in Nat
    <3>1. \A n \in kept' : n \in Listable
      BY <1>4 DEF OpenDirectory, Listable
    <3>2. \A n \in Listable : Place(n) > 0 /\ Place(n) \in Nat
      BY <1>4, SetsAre, RankIs
    <3>3. \A n : Place(n)' = Place(n)
      BY <1>4 DEF OpenDirectory, Place
    <3> QED BY <3>1, <3>2, <3>3
  <2>3. Overlooked' = {}
    BY <1>4, <2>2 DEF Overlooked, OpenDirectory, NewScan
  <2>4. Ahead' = {} /\ Repeated' = {}
    BY <1>4 DEF Ahead, Repeated, Given, ToSet, OpenDirectory, NewScan
  <2> QED BY <1>1, <1>4, <2>1, <2>3, <2>4 DEF ScanInv, OpenDirectory, NewScan, Unchanged
<1> QED BY <1>3, <1>4

-----------------------------------------------------------------------------
(* What changes of the directory do to a scan.                             *)

\* One element of D, or none.
OneOf(S, D) == S = {} \/ \E x \in D : S = {x}

\* From place r to place t, by one at most and for a name before n.
Shifts(r, t, gone, come, n) ==
  \/ t = r
  \/ t = r - 1 /\ \E x \in gone : x < n
  \/ t = r + 1 /\ \E y \in come : y < n

\* When a name goes and a name comes, another moves by one place at most:
\* down for a name that went before it, up for one that came before it.
LEMMA RankChanged ==
  ASSUME NEW D \in SUBSET Nat, IsFiniteSet(D),
         NEW gone, OneOf(gone, D), NEW new, OneOf(new, Nat),
         NEW n \in Nat
  PROVE  /\ Rank(D, n) \in Nat /\ Rank((D \ gone) \cup new, n) \in Nat
         /\ Shifts(Rank(D, n), Rank((D \ gone) \cup new, n), gone, new \ D, n)
<1>1. PICK left : left = D \ gone
  OBVIOUS
<1>2. left \in SUBSET Nat /\ IsFiniteSet(left)
  BY <1>1, FS_Subset
<1>3. PICK r, s, t : r = Rank(D, n) /\ s = Rank(left, n) /\ t = Rank(left \cup new, n)
  OBVIOUS
<1>4. r \in Nat /\ s \in Nat
  BY <1>2, <1>3, RankIs
<1>5. \/ s = r /\ \A x \in gone : ~(x < n)
      \/ s = r - 1 /\ \E x \in gone : x < n
  <2>1. CASE gone = {}
    <3>1. left = D
      BY <1>1, <2>1
    <3> QED BY <1>3, <2>1, <3>1
  <2>2. CASE gone # {}
    <3>1. PICK x \in D : gone = {x}
      BY <2>2 DEF OneOf
    <3>2. s = IF x < n THEN r - 1 ELSE r
      BY <1>1, <1>3, <3>1, RankWithout
    <3> QED BY <3>1, <3>2
  <2> QED BY <2>1, <2>2
<1>6. \/ t = s
      \/ t = s + 1 /\ \E y \in new : y < n /\ y \notin left
  <2>1. CASE new = {}
    <3>1. left \cup new = left
      BY <2>1
    <3> QED BY <1>3, <3>1
  <2>2. CASE new # {}
    <3>1. PICK y \in Nat : new = {y}
      BY <2>2 DEF OneOf
    <3>2. t = IF y < n /\ y \notin left THEN s + 1 ELSE s
      BY <1>2, <1>3, <3>1, RankWith
    <3> QED BY <3>1, <3>2
  <2> QED BY <2>1, <2>2
<1>7. ASSUME \A x \in gone : ~(x < n), NEW y \in new, y < n, y \notin left PROVE y \in new \ D
  BY <1>1, <1>7
<1>8. t \in Nat
  BY <1>4, <1>6
<1>9. \/ t = r
      \/ t = r - 1 /\ \E x \in gone : x < n
      \/ t = r + 1 /\ \E y \in new \ D : y < n
  <2>1. CASE s = r - 1 /\ \E x \in gone : x < n
    BY <1>4, <1>6, <2>1
  <2>2. CASE s = r /\ \A x \in gone : ~(x < n)
    BY <1>6, <1>7, <2>2
  <2> QED BY <1>5, <2>1, <2>2
<1> QED BY <1>1, <1>3, <1>4, <1>8, <1>9 DEF Shifts

\* A set that has at most one element that another has not.
LEMMA OneMore ==
  ASSUME NEW T, IsFiniteSet(T), NEW S, NEW c \in Nat,
         \A a, b \in S \ T : a = b,
         S \ T # {} => c > 0
  PROVE  Cardinality(S) <= Cardinality(T) + c /\ Cardinality(S) \in Nat
<1>1. Cardinality(T) \in Nat
  BY FS_CardinalityType
<1>2. CASE S \ T = {}
  <2>1. S \in SUBSET T
    BY <1>2
  <2>2. Cardinality(S) <= Cardinality(T) /\ IsFiniteSet(S)
    BY <2>1, FS_Subset
  <2> QED BY <1>1, <2>2, FS_CardinalityType
<1>3. CASE S \ T # {}
  <2>1. PICK a : a \in S \ T
    BY <1>3
  <2>2. S \in SUBSET (T \cup {a})
    BY <2>1
  <2>3. IsFiniteSet(T \cup {a}) /\ Cardinality(T \cup {a}) = Cardinality(T) + 1
    BY <2>1, FS_AddElement
  <2>4. Cardinality(S) <= Cardinality(T) + 1 /\ IsFiniteSet(S)
    BY <2>2, <2>3, FS_Subset
  <2>5. Cardinality(S) \in Nat
    BY <2>4, FS_CardinalityType
  <2> QED BY <1>1, <1>3, <2>4, <2>5
<1> QED BY <1>2, <1>3

\* What may go and come in one change.
OneChange(gone, new) == OneOf(gone, dir_index) /\ OneOf(new, EntryNames)

\* A change moves one name across the place of the scan at most: down when
\* one goes that was passed, up when one comes where it had passed.
LEMMA ChangeKeepsInv ==
  ASSUME ScanInv, NEW gone, NEW new, OneChange(gone, new), Changed(gone, new)
  PROVE  ScanInv'
<1>1. /\ ScanTypes /\ scan.offset \in Nat
      /\ scan' = scan /\ ~scan.done
      /\ kept' = kept \ (gone \cup new)
      /\ dir_index' = (dir_index \ gone) \cup new
      /\ Given' = Given
  BY DEF ScanInv, ScanTypes, Changed, Given
<1>2. PICK o, D, lost, won :
        /\ o = scan.offset /\ D = Listable
        /\ lost = {n \in gone : Place(n) <= scan.offset}
        /\ won = {n \in new \ dir_index : Place(n) <= scan.offset}
  OBVIOUS
<1>3. /\ D \in SUBSET Nat /\ IsFiniteSet(D) /\ kept \subseteq D /\ o \in Nat
      /\ \A n : Place(n) = Rank(D, n)
  BY <1>1, <1>2, SetsAre DEF ScanTypes
<1>4. /\ OneOf(gone, D) /\ OneOf(new, Nat)
      /\ new \ D = new \ dir_index /\ gone \subseteq D /\ new \subseteq EntryNames
      /\ gone \cap Dots = {}
  BY <1>1, <1>2, EntryAssumption DEF OneChange, OneOf, Listable, Dots, ScanTypes
<1>5. Listable' = (D \ gone) \cup new /\ \A n : Place(n)' = Rank((D \ gone) \cup new, n)
  <2>1. dir_index' \cup Dots = (D \ gone) \cup new
    BY <1>1, <1>2, <1>4 DEF Listable
  <2> QED BY <2>1 DEF Listable, Place, Rank
<1>6. /\ IsFiniteSet(lost) /\ IsFiniteSet(won)
      /\ Cardinality(lost) \in Nat /\ Cardinality(won) \in Nat
      /\ lost # {} => Cardinality(lost) > 0
      /\ won # {} => Cardinality(won) > 0
  <2>1. IsFiniteSet(gone) /\ IsFiniteSet(new)
    <3>1. gone \in SUBSET D /\ new \in SUBSET EntryNames
      BY <1>4 DEF OneOf
    <3> QED BY <1>3, <3>1, EntryAssumption, FS_Subset
  <2>2. lost \in SUBSET gone /\ won \in SUBSET new
    BY <1>2
  <2>3. IsFiniteSet(lost) /\ IsFiniteSet(won)
    BY <2>1, <2>2, FS_Subset
  <2> QED BY <2>3, FS_CardinalityType, FS_EmptySet
<1>7. /\ passed' = [went |-> passed.went + Cardinality(lost),
                    came |-> passed.came + Cardinality(won),
                    changes |-> passed.changes + 1]
      /\ passed.went \in Nat /\ passed.came \in Nat /\ passed.changes \in Nat
  BY <1>1, <1>2 DEF Changed, ScanTypes
<1>8. ScanTypes'
  <2>1. dir_index' \subseteq EntryNames /\ kept' \subseteq Listable'
    <3>1. dir_index \subseteq EntryNames
      BY <1>1 DEF ScanTypes
    <3> QED BY <1>1, <1>3, <1>4, <1>5, <3>1
  <2>2. passed' \in [went : Nat, came : Nat, changes : Nat]
    BY <1>6, <1>7
  <2>3. scan' \in [offset : Nat, listed : Seq(Nat), done : BOOLEAN]
    BY <1>1 DEF ScanTypes
  <2> QED BY <2>1, <2>2, <2>3 DEF ScanTypes
<1>9. ASSUME NEW n \in kept'
      PROVE  /\ n \in kept /\ n \in D /\ Place(n) \in Nat /\ Place(n)' \in Nat
             /\ \/ Place(n)' = Place(n)
                \/ Place(n)' = Place(n) - 1 /\ \E x \in gone : x < n
                \/ Place(n)' = Place(n) + 1 /\ \E y \in new \ D : y < n
  <2>1. n \in kept /\ n \in D /\ n \in Nat
    BY <1>1, <1>3
  <2>2. /\ Rank(D, n) \in Nat /\ Rank((D \ gone) \cup new, n) \in Nat
        /\ Shifts(Rank(D, n), Rank((D \ gone) \cup new, n), gone, new \ D, n)
    <3>1. /\ D \in SUBSET Nat /\ IsFiniteSet(D) /\ n \in Nat
          /\ OneOf(gone, D) /\ OneOf(new, Nat)
      BY <1>3, <1>4, <2>1
    <3> QED BY <3>1, RankChanged
  <2>3. Place(n) = Rank(D, n) /\ Place(n)' = Rank((D \ gone) \cup new, n)
    BY <1>3, <1>5
  <2> QED BY <2>1, <2>2, <2>3 DEF Shifts
<1>10. \A m, n \in D : Place(m) = Place(n) => m = n
  <2>1. \A m, n \in D : m < n => Rank(D, m) < Rank(D, n)
    BY <1>3, RankIs
  <2>2. \A m \in D : Rank(D, m) \in Nat
    BY <1>3, RankIs
  <2>3. \A m, n \in D : m = n \/ m < n \/ n < m
    BY <1>3
  <2> QED BY <1>3, <2>1, <2>2, <2>3
<1>11. ASSUME NEW n \in Overlooked' \ Overlooked
       PROVE  Place(n) = o + 1 /\ n \in D /\ lost # {}
  <2>1. n \in kept' /\ Place(n)' <= o /\ n \notin Given
    BY <1>1, <1>2 DEF Overlooked
  <2>2. n \in kept /\ Place(n) > o
    <3>1. n \in kept /\ Place(n) \in Nat
      BY <1>9, <2>1
    <3>2. ~(Place(n) <= o)
      BY <1>2, <2>1, <3>1 DEF Overlooked
    <3> QED BY <1>3, <3>1, <3>2
  <2>3. Place(n)' = Place(n) - 1 /\ Place(n) = o + 1
    BY <1>3, <1>9, <2>1, <2>2
  <2>4. PICK x \in gone : x < n
    BY <1>9, <2>1, <2>3
  <2>5. x \in D /\ Place(x) \in Nat /\ Place(x) < Place(n)
    BY <1>3, <1>4, <1>9, <2>1, <2>4, RankIs
  <2>6. x \in lost
    BY <1>2, <1>3, <2>3, <2>5
  <2> QED BY <1>9, <2>1, <2>3, <2>6
<1>12. ASSUME NEW n \in Ahead' \ Ahead
       PROVE  Place(n) = o /\ n \in D /\ won # {}
  <2>1. n \in kept' /\ Place(n)' > o /\ n \in Given
    BY <1>1, <1>2 DEF Ahead
  <2>2. n \in kept /\ Place(n) <= o
    BY <1>2, <1>3, <1>9, <2>1 DEF Ahead
  <2>3. Place(n)' = Place(n) + 1 /\ Place(n) = o
    BY <1>3, <1>9, <2>1, <2>2
  <2>4. PICK y \in new \ D : y < n
    BY <1>9, <2>1, <2>3
  <2>5. y \in Nat /\ n \in Nat /\ Place(y) \in Nat /\ Place(y) <= Place(n)
    <3>1. y \in Nat /\ n \in Nat
      BY <1>3, <1>4, <1>9, <2>1, EntryAssumption
    <3> QED BY <1>3, <2>4, <3>1, RankIs
  <2>6. y \in won
    BY <1>2, <1>3, <1>4, <2>3, <2>4, <2>5
  <2> QED BY <1>9, <2>1, <2>3, <2>6
<1>13. Cardinality(Overlooked') <= Cardinality(Overlooked) + Cardinality(lost)
       /\ Cardinality(Overlooked') \in Nat /\ Cardinality(Overlooked) \in Nat
  <2>1. PICK S, T : S = Overlooked' /\ T = Overlooked
    OBVIOUS
  <2>2. IsFiniteSet(T) /\ Cardinality(T) \in Nat
    BY <1>1, <2>1, SetsAre
  <2>3. \A a, b \in S \ T : a = b
    BY <1>10, <1>11, <2>1
  <2>4. S \ T # {} => Cardinality(lost) > 0
    BY <1>6, <1>11, <2>1
  <2> QED BY <1>6, <2>1, <2>2, <2>3, <2>4, OneMore
<1>14. Cardinality(Ahead') <= Cardinality(Ahead) + Cardinality(won)
       /\ Cardinality(Ahead') \in Nat /\ Cardinality(Ahead) \in Nat
  <2>1. PICK S, T : S = Ahead' /\ T = Ahead
    OBVIOUS
  <2>2. IsFiniteSet(T) /\ Cardinality(T) \in Nat
    BY <1>1, <2>1, SetsAre
  <2>3. \A a, b \in S \ T : a = b
    BY <1>10, <1>12, <2>1
  <2>4. S \ T # {} => Cardinality(won) > 0
    BY <1>6, <1>12, <2>1
  <2>5. PICK c \in Nat : c = Cardinality(won)
    BY <1>6
  <2>6. Cardinality(S) <= Cardinality(T) + c /\ Cardinality(S) \in Nat
    BY <2>2, <2>3, <2>4, <2>5, OneMore
  <2> QED BY <2>1, <2>2, <2>5, <2>6
<1>15. Cardinality(Repeated') <= Cardinality(Repeated)
       /\ Cardinality(Repeated') \in Nat /\ Cardinality(Repeated) \in Nat
  <2>1. Repeated' \in SUBSET Repeated
    BY <1>1 DEF Repeated
  <2>2. IsFiniteSet(Repeated)
    BY <1>1, SetsAre
  <2> QED BY <2>1, <2>2, FS_Subset, FS_CardinalityType
<1>16. /\ Cardinality(Overlooked) <= passed.went
       /\ Cardinality(Repeated) + Cardinality(Ahead) <= passed.came
  BY DEF ScanInv
<1>17. /\ passed'.went = passed.went + Cardinality(lost)
       /\ passed'.came = passed.came + Cardinality(won)
  BY <1>7
<1>18. Cardinality(Overlooked') <= passed'.went
  BY <1>6, <1>7, <1>13, <1>16, <1>17
<1>19. Cardinality(Repeated') + Cardinality(Ahead') <= passed'.came
  BY <1>6, <1>7, <1>14, <1>15, <1>16, <1>17
<1> QED BY <1>1, <1>8, <1>18, <1>19 DEF ScanInv

-----------------------------------------------------------------------------

\* At the end of a scan every name is behind it: those it missed are those it
\* overlooked.
LEMMA ScanInvEnds ==
  ASSUME ScanInv
  PROVE  ScansMissOnlyWhatMoved
<1>1. ScanTypes
  BY DEF ScanInv
<1>2. /\ Cardinality(Repeated) \in Nat /\ Cardinality(Ahead) \in Nat
      /\ passed.came \in Nat
  BY <1>1, SetsAre DEF ScanTypes
<1>3. Cardinality(Repeated) + Cardinality(Ahead) <= passed.came
  BY DEF ScanInv
<1>4. Cardinality(Repeated) <= passed.came
  BY <1>2, <1>3
<1>5. ASSUME scan.done PROVE Cardinality(Missed) <= passed.went
  <2>1. \A n \in kept : Place(n) <= scan.offset
    BY <1>1, <1>5 DEF ScanInv, ScanTypes
  <2>2. Missed = Overlooked
    BY <2>1 DEF Missed, Overlooked, Given
  <2> QED BY <2>2 DEF ScanInv
<1> QED BY <1>4, <1>5 DEF ScansMissOnlyWhatMoved

\* Every request and every change keeps the invariant (main.rs readdir, vfs.rs).
LEMMA ScanNextKeepsInv ==
  ASSUME ScanInv, [ScanNext]_scanVars
  PROVE  ScanInv'
<1>1. ScanTypes /\ IsFiniteSet(EntryNames)
  BY EntryAssumption DEF ScanInv
<1>2. CASE UNCHANGED scanVars
  <2>1. UNCHANGED <<dir_index, scan, kept, passed>>
    BY <1>2 DEF scanVars
  <2> QED BY <2>1 DEF ScanInv, ScanTypes, Overlooked, Ahead, Repeated, Given, Listable, Place
<1>3. ASSUME NEW n \in 1 .. Cardinality(EntryNames), ReadPage(n) PROVE ScanInv'
  <2>1. n \in Nat \ {0}
    BY <1>1, FS_CardinalityType
  <2> QED BY <1>3, <2>1, PageKeepsInv
<1>4. CASE OpenDirectory
  BY <1>1, <1>4, Beginning
<1>5. ASSUME NEW n \in EntryNames, AddEntry(n) PROVE ScanInv'
  <2>1. OneChange({}, {n}) /\ Changed({}, {n})
    BY <1>5 DEF AddEntry, OneChange, OneOf
  <2> QED BY <2>1, ChangeKeepsInv
<1>6. ASSUME NEW n \in EntryNames, RemoveEntry(n) PROVE ScanInv'
  <2>1. OneChange({n}, {}) /\ Changed({n}, {})
    BY <1>6 DEF RemoveEntry, OneChange, OneOf
  <2> QED BY <2>1, ChangeKeepsInv
<1>7. ASSUME NEW n \in EntryNames, NEW m \in EntryNames, RenameEntry(n, m) PROVE ScanInv'
  <2>1. OneChange({n}, {m}) /\ Changed({n}, {m})
    BY <1>7 DEF RenameEntry, OneChange, OneOf
  <2> QED BY <2>1, ChangeKeepsInv
<1> QED BY <1>2, <1>3, <1>4, <1>5, <1>6, <1>7 DEF ScanNext

\* A scan misses no more entries than went where it had passed, and repeats
\* no more than came there.
THEOREM ScansAreBounded == ScanSpec => []ScansMissOnlyWhatMoved
<1>1. ScanInit => ScanInv
  BY Beginning
<1>2. ScanInv /\ [ScanNext]_scanVars => ScanInv'
  BY ScanNextKeepsInv
<1>3. ScanInv => ScansMissOnlyWhatMoved
  BY ScanInvEnds
<1> QED BY <1>1, <1>2, <1>3, PTL DEF ScanSpec
=============================================================================
