---------------------------- MODULE CrashProofs ----------------------------
(***************************************************************************)
(* Proofs about crashes of the persistent store: at every file write of    *)
(* the first session the file has, in its pages and its log together, what *)
(* was acknowledged, and the session after the crash brings back no        *)
(* particle that was deleted.                                              *)
(***************************************************************************)
EXTENDS PersistProofs

-----------------------------------------------------------------------------
(* Folds *)

\* What holds of 0 and comes from a number to the next one holds up to n.
LEMMA UpTo ==
  ASSUME NEW n \in Nat, NEW Good, 0 \in Good,
         \A k \in 1 .. n : k - 1 \in Good => k \in Good
  PROVE  0 .. n \subseteq Good
<1> DEFINE bad == {k \in 0 .. n : k \notin Good}
<1>1. ASSUME bad # {} PROVE FALSE
  <2>1. bad \in SUBSET Nat
    OBVIOUS
  <2>2. PICK k \in bad : \A i \in bad : k <= i
    <3> HIDE DEF bad
    <3> QED
      BY <1>1, <2>1, CodecHolds, Codec!LeastExists
  <2>3. k \in 1 .. n /\ k - 1 \in 0 .. n
    OBVIOUS
  <2>4. k - 1 \in bad
    BY <2>3
  <2>5. k <= k - 1
    <3> HIDE DEF bad
    <3> QED
      BY <2>2, <2>4
  <2> QED
    BY <2>3, <2>5
<1> QED
  BY <1>1

\* What holds of the empty set and comes from a set without one of its elements
\* to the set ...
Passed(S, Good) ==
  \A s \in SUBSET S : s # {} => \E x \in s : s \ {x} \in Good => s \in Good

\* ... holds of all subsets of a finite set.
LEMMA SubsetsUpTo ==
  ASSUME NEW S, IsFiniteSet(S), NEW Good, {} \in Good, Passed(S, Good)
  PROVE  SUBSET S \subseteq Good
<1> DEFINE sized(k) == {s \in SUBSET S : Cardinality(s) = k}
           fine == {k \in Nat : sized(k) \subseteq Good}
<1>1. \A s \in SUBSET S : IsFiniteSet(s) /\ Cardinality(s) \in Nat /\ Cardinality(s) <= Cardinality(S)
  BY FS_Subset, FS_CardinalityType
<1>2. 0 \in fine
  <2>1. \A s \in sized(0) : s = {}
    BY <1>1, FS_EmptySet
  <2> QED
    BY <2>1
<1>3. ASSUME NEW k \in 1 .. Cardinality(S), k - 1 \in fine PROVE k \in fine
  <2>1. ASSUME NEW s \in sized(k) PROVE s \in Good
    <3>1. s \in SUBSET S /\ Cardinality(s) = k /\ IsFiniteSet(s)
      BY <1>1
    <3>2. s # {}
      BY <3>1, FS_EmptySet
    <3>3. PICK x \in s : s \ {x} \in Good => s \in Good
      BY <3>1, <3>2 DEF Passed
    <3>4. Cardinality(s \ {x}) = k - 1
      BY <3>1, FS_RemoveElement
    <3>5. s \ {x} \in sized(k - 1)
      BY <3>1, <3>4
    <3>6. sized(k - 1) \subseteq Good
      BY <1>3
    <3> QED
      BY <3>3, <3>5, <3>6
  <2> QED
    BY <2>1
<1>4. Cardinality(S) \in Nat
  BY FS_CardinalityType
<1>5. 0 .. Cardinality(S) \subseteq fine
  <2> HIDE DEF fine
  <2> QED
    BY <1>2, <1>3, <1>4, UpTo
<1>6. ASSUME NEW s \in SUBSET S PROVE s \in Good
  <2>1. Cardinality(s) \in fine
    <3>1. Cardinality(s) \in 0 .. Cardinality(S)
      BY <1>1, <1>4
    <3> HIDE DEF fine
    <3> QED
      BY <1>5, <3>1
  <2>2. s \in sized(Cardinality(s))
    OBVIOUS
  <2> QED
    BY <2>1, <2>2
<1> QED
  BY <1>6

\* A fold over a set, its elements in the order of pick, with all results in A,
\* and the results.
FoldsIn(A, S, pick, step, base) ==
  /\ IsFiniteSet(S) /\ base \in A /\ step \in [S \X A -> A]
  /\ \A s \in SUBSET S : s # {} => pick[s] \in s

Results(f, A, S, pick, step, base) ==
  /\ f \in [SUBSET S -> A]
  /\ \A s \in SUBSET S : f[s] = IF s = {} THEN base ELSE step[pick[s], f[s \ {pick[s]}]]

\* Such a fold has results.
LEMMA FoldExists ==
  ASSUME NEW A, NEW S, NEW pick, NEW step, NEW base, FoldsIn(A, S, pick, step, base)
  PROVE  \E f : Results(f, A, S, pick, step, base)
<1>1. /\ IsFiniteSet(S) /\ base \in A /\ step \in [S \X A -> A]
      /\ \A s \in SUBSET S : s # {} => pick[s] \in s
  BY DEF FoldsIn
<1> DEFINE rest(s) == s \ {pick[s]}
           small(k) == {s \in SUBSET S : Cardinality(s) <= k}
           upto(f, k) == \A s \in small(k) : f[s] = IF s = {} THEN base ELSE step[pick[s], f[rest(s)]]
           Good == {k \in Nat : \E f \in [SUBSET S -> A] : upto(f, k)}
<1>2. \A s \in SUBSET S : /\ IsFiniteSet(s) /\ Cardinality(s) \in Nat
                          /\ Cardinality(s) <= Cardinality(S)
  BY <1>1, FS_Subset, FS_CardinalityType
<1>3. \A s \in SUBSET S : s # {} => /\ rest(s) \in SUBSET S /\ pick[s] \in S
                                    /\ Cardinality(rest(s)) = Cardinality(s) - 1
  BY <1>1, <1>2, FS_RemoveElement
<1>4. 0 \in Good
  <2> DEFINE f == [s \in SUBSET S |-> base]
  <2>1. \A s \in small(0) : s = {}
    BY <1>2, FS_EmptySet
  <2>2. f \in [SUBSET S -> A] /\ upto(f, 0)
    BY <1>1, <2>1
  <2> HIDE DEF f, upto
  <2> QED
    BY <2>2
<1>5. ASSUME NEW k \in 1 .. Cardinality(S), k - 1 \in Good PROVE k \in Good
  <2>1. PICK g \in [SUBSET S -> A] : upto(g, k - 1)
    BY <1>5
  <2> DEFINE f == [s \in SUBSET S |->
                     IF Cardinality(s) <= k - 1 THEN g[s]
                     ELSE IF s = {} THEN base ELSE step[pick[s], g[rest(s)]]]
  <2>2. f \in [SUBSET S -> A]
    <3> SUFFICES ASSUME NEW s \in SUBSET S, s # {} PROVE step[pick[s], g[rest(s)]] \in A
      BY <1>1, <2>1
    <3>1. pick[s] \in S /\ g[rest(s)] \in A
      BY <1>3, <2>1
    <3> HIDE DEF rest
    <3> QED
      BY <1>1, <3>1
  <2>3. ASSUME NEW s \in small(k)
        PROVE  f[s] = IF s = {} THEN base ELSE step[pick[s], f[rest(s)]]
    <3>1. s \in SUBSET S /\ Cardinality(s) \in Nat /\ Cardinality(s) <= k
      BY <1>2
    <3>2. s # {} => f[rest(s)] = g[rest(s)]
      <4>1. s # {} => rest(s) \in SUBSET S /\ Cardinality(rest(s)) <= k - 1
        BY <1>3, <3>1
      <4> HIDE DEF rest
      <4> QED
        BY <4>1
    <3>3. CASE Cardinality(s) <= k - 1
      <4>1. s \in small(k - 1)
        BY <3>1, <3>3
      <4>2. g[s] = IF s = {} THEN base ELSE step[pick[s], g[rest(s)]]
        BY <2>1, <4>1
      <4>3. f[s] = g[s]
        BY <3>1, <3>3
      <4> HIDE DEF f, rest
      <4> QED
        BY <3>2, <4>2, <4>3
    <3>4. CASE ~ (Cardinality(s) <= k - 1)
      <4>1. f[s] = IF s = {} THEN base ELSE step[pick[s], g[rest(s)]]
        BY <3>1, <3>4
      <4> HIDE DEF f, rest
      <4> QED
        BY <3>2, <4>1
    <3> QED
      BY <3>3, <3>4
  <2>4. upto(f, k)
    BY <2>3
  <2> HIDE DEF f, upto
  <2> QED
    BY <2>2, <2>4
<1>6. Cardinality(S) \in Good
  <2>1. Cardinality(S) \in Nat
    BY <1>1, FS_CardinalityType
  <2> HIDE DEF Good
  <2> QED
    BY <1>4, <1>5, <2>1, UpTo
<1>7. PICK f \in [SUBSET S -> A] : upto(f, Cardinality(S))
  BY <1>6
<1>8. \A s \in SUBSET S : f[s] = IF s = {} THEN base ELSE step[pick[s], f[s \ {pick[s]}]]
  BY <1>2, <1>7
<1> QED
  BY <1>8 DEF Results

-----------------------------------------------------------------------------
(* What a delete gives up, whatever the tables say *)

\* The store x is the store m, but for some blocks of s that it gave up.
Within(m, s, x) ==
  /\ x \in Stores
  /\ x.store = m.store /\ x.modified = m.modified /\ x.index = m.index /\ x.sb = m.sb
  /\ m.used \ s \subseteq x.used
  /\ \A d \in Dims : x.dedup[d].block \in {m.dedup[d].block, 0}

\* Freeing a dimension page changes nothing else.
LEMMA FreedIs ==
  ASSUME NEW x \in Stores, NEW b
  PROVE  \E used \in SUBSET Blocks, dedup \in DedupTables :
           /\ DimensionFreed(x, b) = With(x, used, dedup)
           /\ x.used \ {b} \subseteq used
           /\ \A d \in Dims : dedup[d].block \in {x.dedup[d].block, 0}
<1> DEFINE holders == {d \in Dims : x.dedup[d].block = b}
           d == CHOOSE e \in holders : TRUE
<1>1. /\ x.used \in SUBSET Blocks /\ x.dedup \in DedupTables
      /\ x = With(x, x.used, x.dedup)
  BY DEF Stores, With
<1>2. CASE holders = {}
  <2>1. DimensionFreed(x, b) = [x EXCEPT !.used = @ \ {b}]
    BY <1>2, Zenon DEF DimensionFreed
  <2>2. [x EXCEPT !.used = @ \ {b}] = With(x, x.used \ {b}, x.dedup)
    BY DEF Stores, With
  <2> QED
    BY <1>1, <2>1, <2>2
<1>3. CASE holders # {} /\ x.dedup[d].count <= 1
  <2>1. d \in Dims
    BY <1>3
  <2>2. DimensionFreed(x, b) = [x EXCEPT !.used = @ \ {b}, !.dedup[d] = NoDedup[d]]
    BY <1>3, Zenon DEF DimensionFreed
  <2> HIDE DEF d
  <2> DEFINE t == [x.dedup EXCEPT ![d] = NoDedup[d]]
  <2>3. [x EXCEPT !.used = @ \ {b}, !.dedup[d] = NoDedup[d]] = With(x, x.used \ {b}, t)
    <3>1. [x EXCEPT !.used = @ \ {b}] = With(x, x.used \ {b}, x.dedup)
      BY DEF Stores, With
    <3>2. [With(x, x.used \ {b}, x.dedup) EXCEPT !.dedup[d] = NoDedup[d]] =
            With(x, x.used \ {b}, t)
      BY DEF With
    <3>3. [x EXCEPT !.used = @ \ {b}, !.dedup[d] = NoDedup[d]] =
            [[x EXCEPT !.used = @ \ {b}] EXCEPT !.dedup[d] = NoDedup[d]]
      OBVIOUS
    <3> HIDE DEF t
    <3> QED
      BY <3>1, <3>2, <3>3
  <2>4. NoDedup[d] = [block |-> 0, count |-> 0]
    BY <2>1 DEF NoDedup
  <2>5. t \in DedupTables
    BY <1>1, <2>1, <2>4 DEF DedupTables, Pointers
  <2>6. \A e \in Dims : t[e].block \in {x.dedup[e].block, 0}
    BY <1>1, <2>1, <2>4 DEF DedupTables
  <2>7. x.used \ {b} \in SUBSET Blocks
    BY <1>1
  <2> HIDE DEF t
  <2> QED
    BY <2>2, <2>3, <2>5, <2>6, <2>7
<1>4. CASE holders # {} /\ ~ (x.dedup[d].count <= 1)
  <2>1. d \in Dims
    BY <1>4
  <2>2. DimensionFreed(x, b) = [x EXCEPT !.dedup[d].count = @ - 1]
    BY <1>4, Zenon DEF DimensionFreed
  <2>3. ~ (x.dedup[d].count <= 1)
    BY <1>4
  <2> HIDE DEF d
  <2> DEFINE less == [block |-> x.dedup[d].block, count |-> x.dedup[d].count - 1]
             t == [x.dedup EXCEPT ![d] = less]
  <2>4. x.dedup[d] \in [block : Pointers, count : Nat]
    BY <1>1, <2>1 DEF DedupTables
  <2>5. [x.dedup[d] EXCEPT !.count = @ - 1] = less
    BY <2>4
  <2>6. [x EXCEPT !.dedup[d].count = @ - 1] = With(x, x.used, t)
    <3> HIDE DEF less
    <3> QED
      BY <2>5 DEF Stores, With
  <2>7. less \in [block : Pointers, count : Nat]
    BY <2>3, <2>4
  <2>10. less.count # 0
    BY <2>3, <2>4
  <2>8. t \in DedupTables
    <3> HIDE DEF less
    <3> QED
      BY <1>1, <2>3, <2>4, <2>7, <2>10 DEF DedupTables
  <2>9. \A e \in Dims : t[e].block \in {x.dedup[e].block, 0}
    BY <1>1, <2>1 DEF DedupTables
  <2> HIDE DEF t
  <2> QED
    BY <1>1, <2>2, <2>6, <2>8, <2>9
<1> QED
  BY <1>2, <1>3, <1>4

\* One more page freed.
LEMMA WithinFreed ==
  ASSUME NEW m, NEW s, NEW x, Within(m, s, x), NEW b
  PROVE  Within(m, s \cup {b}, DimensionFreed(x, b))
<1>1. PICK used \in SUBSET Blocks, dedup \in DedupTables :
        /\ DimensionFreed(x, b) = With(x, used, dedup)
        /\ x.used \ {b} \subseteq used
        /\ \A d \in Dims : dedup[d].block \in {x.dedup[d].block, 0}
  BY FreedIs DEF Within
<1>2. With(x, used, dedup) \in Stores
  BY DEF Within, Stores, With
<1>3. /\ With(x, used, dedup).store = m.store /\ With(x, used, dedup).modified = m.modified
      /\ With(x, used, dedup).index = m.index /\ With(x, used, dedup).sb = m.sb
      /\ With(x, used, dedup).used = used /\ With(x, used, dedup).dedup = dedup
  BY DEF Within, With
<1>4. m.used \ (s \cup {b}) \subseteq used
  BY <1>1 DEF Within
<1>5. \A d \in Dims : dedup[d].block \in {m.dedup[d].block, 0}
  BY <1>1 DEF Within
<1> QED
  BY <1>1, <1>2, <1>3, <1>4, <1>5 DEF Within

\* The loop of delete over the dimension pages of a leaf.
LEMMA WithinFold ==
  ASSUME NEW m \in Stores, NEW blocks, IsFiniteSet(blocks)
  PROVE  Within(m, blocks, FoldSet(LAMBDA b, acc : DimensionFreed(acc, b), m, blocks))
<1> DEFINE choice(s) == CHOOSE x \in s : TRUE
           body(f) == [s \in SUBSET blocks |->
                         IF s = {} THEN m
                         ELSE LET x == choice(s) IN DimensionFreed(f[s \ {x}], x)]
           fold == CHOOSE f : f = body(f)
           pick == [s \in SUBSET blocks |-> choice(s)]
           step == [t \in blocks \X Stores |-> DimensionFreed(t[2], t[1])]
<1>1. \A s \in SUBSET blocks : s # {} => choice(s) \in s /\ choice(s) \in blocks
  OBVIOUS
<1>2. \A x \in Stores : \A b : DimensionFreed(x, b) \in Stores
  <2> SUFFICES ASSUME NEW x \in Stores, NEW b PROVE DimensionFreed(x, b) \in Stores
    OBVIOUS
  <2>1. Within(x, {}, x)
    BY DEF Within
  <2> QED
    BY <2>1, WithinFreed DEF Within
<1>3. \A b \in blocks, x \in Stores : step[b, x] = DimensionFreed(x, b)
  OBVIOUS
<1>4. step \in [blocks \X Stores -> Stores]
  BY <1>2
<1> HIDE DEF step, choice
<1>5. \A s \in SUBSET blocks : pick[s] = choice(s)
  OBVIOUS
<1> HIDE DEF pick
<1>6. PICK f \in [SUBSET blocks -> Stores] :
        \A s \in SUBSET blocks : f[s] = IF s = {} THEN m ELSE step[pick[s], f[s \ {pick[s]}]]
  <2>1. FoldsIn(Stores, blocks, pick, step, m)
    BY <1>1, <1>4, <1>5 DEF FoldsIn
  <2>2. \E f : Results(f, Stores, blocks, pick, step, m)
    BY <2>1, FoldExists, Zenon
  <2> QED
    BY <2>2 DEF Results
<1>7. f = body(f)
  <2>1. ASSUME NEW s \in SUBSET blocks PROVE f[s] = body(f)[s]
    <3>1. CASE s = {}
      BY <1>6, <3>1
    <3>2. CASE s # {}
      <4>1. choice(s) \in blocks /\ s \ {choice(s)} \in SUBSET blocks
        BY <1>1, <3>2
      <4>2. f[s \ {choice(s)}] \in Stores
        BY <1>6, <4>1
      <4>3. f[s] = step[choice(s), f[s \ {choice(s)}]]
        BY <1>5, <1>6, <3>2
      <4>4. f[s] = DimensionFreed(f[s \ {choice(s)}], choice(s))
        BY <1>3, <4>1, <4>2, <4>3
      <4> QED
        BY <3>2, <4>4
    <3> QED
      BY <3>1, <3>2
  <2>2. f = [s \in SUBSET blocks |-> f[s]]
    BY <1>6
  <2> QED
    BY <2>1, <2>2
<1>8. fold = body(fold)
  <2> HIDE DEF body
  <2> QED
    BY <1>7
<1>9. FoldSet(LAMBDA b, acc : DimensionFreed(acc, b), m, blocks) = fold[blocks]
  BY Zenon DEF FoldSet, MapThenFoldSet, choice
<1> HIDE DEF fold
<1> DEFINE Good == {s \in SUBSET blocks : Within(m, s, fold[s])}
<1>10. {} \in Good
  <2>1. fold[{}] = m
    BY <1>8
  <2> QED
    BY <2>1 DEF Within
<1>11. ASSUME NEW s \in SUBSET blocks, s # {}
       PROVE  \E x \in s : s \ {x} \in Good => s \in Good
  <2> DEFINE x == choice(s)
  <2>1. x \in s
    BY <1>1, <1>11
  <2>2. fold[s] = DimensionFreed(fold[s \ {x}], x)
    BY <1>8, <1>11
  <2> HIDE DEF x
  <2>3. ASSUME s \ {x} \in Good PROVE s \in Good
    <3>1. Within(m, s \ {x}, fold[s \ {x}])
      BY <2>3
    <3>2. Within(m, (s \ {x}) \cup {x}, DimensionFreed(fold[s \ {x}], x))
      BY <3>1, WithinFreed
    <3>3. (s \ {x}) \cup {x} = s
      BY <2>1
    <3> QED
      BY <2>2, <3>2, <3>3
  <2> QED
    BY <2>1, <2>3
<1>12. blocks \in Good
  <2> HIDE DEF Good
  <2>1. Passed(blocks, Good)
    BY <1>11 DEF Passed
  <2>2. SUBSET blocks \subseteq Good
    BY <1>10, <2>1, SubsetsUpTo
  <2> QED
    BY <2>2
<1> QED
  BY <1>9, <1>12

\* The blocks that go with the leaf in block b.
GivenUp(b) == {b} \cup (IF IsLeaf(b) THEN {Page(b).at[d] : d \in Dims} \ {0} ELSE {})

\* A delete, whatever the index and the dedup table say.
LEMMA DeletedWithin ==
  ASSUME NEW m \in Stores, NEW id \in Ids
  PROVE  LET x == Deleted(m, id)
         IN  /\ x \in Stores
             /\ x.store = [m.store EXCEPT ![id] = None]
             /\ x.index = [m.index EXCEPT ![id] = 0]
             /\ x.modified = m.modified \ {id} /\ x.sb = m.sb
             /\ m.used \ GivenUp(m.index[id]) \subseteq x.used
             /\ \A d \in Dims : x.dedup[d].block \in {m.dedup[d].block, 0}
<1> DEFINE leaf == m.index[id]
           blocks == IF IsLeaf(leaf) THEN {Page(leaf).at[d] : d \in Dims} \ {0} ELSE {}
           fold == FoldSet(LAMBDA b, acc : DimensionFreed(acc, b), m, blocks)
<1>1. IsFiniteSet(blocks)
  <2> DEFINE at == Page(leaf).at
  <2>1. IsFiniteSet(Dims)
    BY PersistAssumption, FS_Interval DEF Dims
  <2>2. IsFiniteSet({at[d] : d \in Dims})
    <3> DEFINE T == {at[d] : d \in Dims}
               f == [d \in Dims |-> at[d]]
    <3> HIDE DEF at
    <3>1. f \in Surjection(Dims, T)
      BY DEF Surjection
    <3> QED
      BY <2>1, <3>1, FS_Surjection
  <2>3. IsFiniteSet({})
    BY FS_EmptySet
  <2> QED
    BY <2>2, <2>3, FS_Subset
<1>2. GivenUp(leaf) = {leaf} \cup blocks
  BY DEF GivenUp
<1> HIDE DEF blocks
<1>3. Within(m, blocks, fold)
  BY <1>1, WithinFold
<1>4. Deleted(m, id) = [fold EXCEPT !.used = @ \ {leaf}, !.index[id] = 0,
                                    !.store[id] = None, !.modified = @ \ {id}]
  BY Zenon DEF Deleted, blocks
<1> HIDE DEF fold, leaf
<1>5. fold \in Stores /\ fold.store = m.store /\ fold.index = m.index
      /\ fold.modified = m.modified /\ fold.sb = m.sb
  BY <1>3 DEF Within
<1> DEFINE x == [store |-> [m.store EXCEPT ![id] = None], modified |-> m.modified \ {id},
                 index |-> [m.index EXCEPT ![id] = 0],
                 dedup |-> fold.dedup, used |-> fold.used \ {leaf}, sb |-> m.sb]
<1>6. Deleted(m, id) = x
  BY <1>4, <1>5 DEF Stores
<1>7. x \in Stores
  BY <1>5 DEF Stores, Indexes, Pointers
<1>8. m.used \ ({leaf} \cup blocks) \subseteq x.used
      /\ \A d \in Dims : x.dedup[d].block \in {m.dedup[d].block, 0}
  BY <1>3 DEF Within
<1>9. /\ x.store = [m.store EXCEPT ![id] = None] /\ x.index = [m.index EXCEPT ![id] = 0]
      /\ x.modified = m.modified \ {id} /\ x.sb = m.sb
  OBVIOUS
<1> HIDE DEF x
<1> QED
  BY <1>2, <1>6, <1>7, <1>8, <1>9 DEF leaf

-----------------------------------------------------------------------------
(* The replay *)

\* What an operation leaves of its particle.
Outcome(op) == IF op.op = "delete" THEN None ELSE op.content

\* The last operation on its particle among the first n.
LastOf(ops, n, k) == \A j \in 1 .. n : j > k => ops[j].id # ops[k].id

\* The store that the replay of the first n operations makes of base.
ReplayIs(m, base, ops, n) ==
  /\ m \in Stores /\ m.sb = base.sb /\ m.modified \subseteq base.modified
  /\ \A id \in Ids : (\A k \in 1 .. n : ops[k].id # id) =>
       m.store[id] = base.store[id] /\ m.index[id] = base.index[id]
  /\ \A k \in 1 .. n : LastOf(ops, n, k) => m.store[ops[k].id] = Outcome(ops[k])
  /\ \A k \in 1 .. n : ops[k].op = "delete" => m.index[ops[k].id] = 0
  /\ \A id \in Ids : m.index[id] \in {base.index[id], 0}
  /\ \A b \in base.used :
       (\A k \in 1 .. n : b \notin GivenUp(base.index[ops[k].id])) => b \in m.used
  /\ \A d \in Dims : m.dedup[d].block \in {base.dedup[d].block, 0}

\* One more operation.
LEMMA ReplayOne ==
  ASSUME NEW base \in Stores, NEW ops \in Seq(Ops), NEW n \in Nat, n + 1 <= Len(ops),
         NEW m, ReplayIs(m, base, ops, n)
  PROVE  ReplayIs(Replayed(m, ops[n + 1]), base, ops, n + 1)
<1> DEFINE op == ops[n + 1]
           x == Replayed(m, op)
<1>1. op \in Ops /\ \A k \in 1 .. n + 1 : ops[k] \in Ops
  OBVIOUS
<1>2. \A k \in 1 .. n + 1 : k = n + 1 \/ k \in 1 .. n
  OBVIOUS
<1>3. \A o \in Ops : /\ o.id \in Ids
                     /\ o.op # "delete" => o.content \in Contents /\ Outcome(o) = o.content
                     /\ o.op = "delete" => Outcome(o) = None
  BY DEF Ops, WriteOp, DeleteOp, Outcome
<1>4. m \in Stores
  BY DEF ReplayIs
<1> HIDE DEF op
<1>5. /\ x \in Stores /\ x.sb = m.sb /\ x.modified \subseteq m.modified
      /\ x.store = [m.store EXCEPT ![op.id] = Outcome(op)]
      /\ op.op = "delete" => x.index[op.id] = 0
      /\ \A id \in Ids : x.index[id] \in {m.index[id], 0}
      /\ \A id \in Ids : id # op.id => x.index[id] = m.index[id]
      /\ \A b \in m.used : b \notin GivenUp(m.index[op.id]) => b \in x.used
      /\ \A d \in Dims : x.dedup[d].block \in {m.dedup[d].block, 0}
  <2>1. CASE op.op = "delete"
    <3>1. x = Deleted(m, op.id)
      BY <2>1 DEF Replayed
    <3> HIDE DEF x
    <3>2. /\ x \in Stores
          /\ x.store = [m.store EXCEPT ![op.id] = None]
          /\ x.index = [m.index EXCEPT ![op.id] = 0]
          /\ x.modified = m.modified \ {op.id} /\ x.sb = m.sb
          /\ m.used \ GivenUp(m.index[op.id]) \subseteq x.used
          /\ \A d \in Dims : x.dedup[d].block \in {m.dedup[d].block, 0}
      BY <1>1, <1>3, <1>4, <3>1, DeletedWithin
    <3>3. m.index \in Indexes
      BY <1>4 DEF Stores
    <3> QED
      BY <1>1, <1>3, <2>1, <3>2, <3>3 DEF Indexes
  <2>2. CASE op.op # "delete"
    <3>1. x = [m EXCEPT !.store[op.id] = op.content]
      BY <2>2 DEF Replayed
    <3> HIDE DEF x
    <3>2. op.content \in SUBSET Dims
      BY <1>1, <1>3, <2>2, PersistAssumption
    <3>3. /\ x \in Stores /\ x.store = [m.store EXCEPT ![op.id] = op.content]
          /\ x.index = m.index /\ x.modified = m.modified /\ x.sb = m.sb
          /\ x.used = m.used /\ x.dedup = m.dedup
      BY <1>4, <3>1, <3>2 DEF Stores
    <3> QED
      BY <1>1, <1>3, <2>2, <3>3
  <2> QED
    BY <2>1, <2>2
<1> HIDE DEF x
<1>6. m.store \in [Ids -> (SUBSET Dims) \cup {None}] /\ op.id \in Ids
  BY <1>1, <1>3, <1>4 DEF Stores
<1>7. x.sb = base.sb /\ x.modified \subseteq base.modified
  BY <1>5 DEF ReplayIs
<1>8. ASSUME NEW id \in Ids, \A k \in 1 .. n + 1 : ops[k].id # id
      PROVE  x.store[id] = base.store[id] /\ x.index[id] = base.index[id]
  <2>1. id # op.id /\ \A k \in 1 .. n : ops[k].id # id
    BY <1>8 DEF op
  <2> QED
    BY <1>5, <1>6, <2>1 DEF ReplayIs
<1>9. ASSUME NEW k \in 1 .. n + 1, LastOf(ops, n + 1, k)
      PROVE  x.store[ops[k].id] = Outcome(ops[k])
  <2>1. CASE k = n + 1
    BY <1>5, <1>6, <2>1 DEF op
  <2>2. CASE k # n + 1
    <3>1. k \in 1 .. n /\ ops[n + 1].id # ops[k].id /\ LastOf(ops, n, k)
      BY <1>9, <2>2 DEF LastOf
    <3>2. m.store[ops[k].id] = Outcome(ops[k])
      BY <3>1 DEF ReplayIs
    <3>3. ops[k].id \in Ids /\ ops[k].id # op.id
      BY <1>1, <1>3, <3>1 DEF op
    <3> QED
      BY <1>5, <1>6, <3>2, <3>3
  <2> QED
    BY <2>1, <2>2
<1>10. ASSUME NEW k \in 1 .. n + 1, ops[k].op = "delete" PROVE x.index[ops[k].id] = 0
  <2>1. CASE k = n + 1
    BY <1>5, <1>10, <2>1 DEF op
  <2>2. CASE k # n + 1
    <3>1. m.index[ops[k].id] = 0 /\ ops[k].id \in Ids
      BY <1>1, <1>2, <1>3, <1>10, <2>2 DEF ReplayIs
    <3> QED
      BY <1>5, <3>1
  <2> QED
    BY <2>1, <2>2
<1>11. \A id \in Ids : x.index[id] \in {base.index[id], 0}
  BY <1>5 DEF ReplayIs
<1>12. ASSUME NEW b \in base.used, \A k \in 1 .. n + 1 : b \notin GivenUp(base.index[ops[k].id])
       PROVE  b \in x.used
  <2>1. b \in m.used
    BY <1>12 DEF ReplayIs
  <2>2. b \notin GivenUp(base.index[op.id])
    BY <1>12 DEF op
  <2>3. b \notin GivenUp(0)
    <3>1. b # 0
      BY DEF Stores, Blocks
    <3>2. ~ IsLeaf(0)
      BY DEF IsLeaf, Page, NoPage
    <3> QED
      BY <3>1, <3>2 DEF GivenUp
  <2>4. m.index[op.id] \in {base.index[op.id], 0}
    BY <1>6 DEF ReplayIs
  <2> QED
    BY <1>5, <2>1, <2>2, <2>3, <2>4
<1>13. \A d \in Dims : x.dedup[d].block \in {base.dedup[d].block, 0}
  BY <1>5 DEF ReplayIs
<1>14. x \in Stores
  BY <1>5
<1>15. ReplayIs(x, base, ops, n + 1)
  BY <1>7, <1>8, <1>9, <1>10, <1>11, <1>12, <1>13, <1>14 DEF ReplayIs
<1> QED
  BY <1>15 DEF x, op

\* The greatest of some positions.
LEMMA MaxOf ==
  ASSUME NEW n \in Nat, NEW s \in SUBSET (1 .. n), s # {}
  PROVE  Max(s) \in s /\ \A y \in s : y <= Max(s)
<1> DEFINE below == {n - y : y \in s}
<1>1. PICK y \in s : TRUE
  OBVIOUS
<1>2. n - y \in below /\ below \in SUBSET Nat
  OBVIOUS
<1>3. PICK d \in below : \A e \in below : d <= e
  <2> HIDE DEF below
  <2> QED
    BY <1>2, CodecHolds, Codec!LeastExists
<1>4. PICK x \in s : d = n - x
  OBVIOUS
<1>5. ASSUME NEW z \in s PROVE x >= z
  <2>1. d <= n - z
    BY <1>3
  <2> QED
    BY <2>1, <1>4
<1>6. Max(s) \in s /\ \A z \in s : Max(s) >= z
  BY <1>5 DEF Max
<1> QED
  BY <1>6

\* The replay of a log.
LEMMA ReplayAll ==
  ASSUME NEW base \in Stores, NEW ops \in Seq(Ops)
  PROVE  ReplayIs(FoldLeft(Replayed, base, ops), base, ops, Len(ops))
<1> DEFINE n == Len(ops)
           all == DOMAIN ops
           body(f) == [s \in SUBSET all |->
                         IF s = {} THEN base
                         ELSE LET x == Max(s) IN Replayed(f[s \ {x}], ops[x])]
           fold == CHOOSE f : f = body(f)
           pick == [s \in SUBSET all |-> Max(s)]
           step == [t \in all \X Stores |-> Replayed(t[2], ops[t[1]])]
<1>1. n \in Nat /\ all = 1 .. n /\ \A k \in all : ops[k] \in Ops
  OBVIOUS
<1> HIDE DEF n, all
<1>2. \A s \in SUBSET all : s # {} => Max(s) \in s /\ Max(s) \in all /\ pick[s] = Max(s)
  BY <1>1, MaxOf
<1>3. ASSUME NEW m \in Stores, NEW k \in all PROVE Replayed(m, ops[k]) \in Stores
  <2> DEFINE op == ops[k]
  <2>1. op \in Ops
    BY <1>1
  <2> HIDE DEF op
  <2>2. op.id \in Ids /\ (op.op # "delete" => op.content \in SUBSET Dims)
    BY <2>1, PersistAssumption DEF Ops, WriteOp, DeleteOp
  <2>3. CASE op.op = "delete"
    BY <2>2, <2>3, DeletedWithin DEF Replayed, op
  <2>4. CASE op.op # "delete"
    <3>1. [m EXCEPT !.store[op.id] = op.content] \in Stores
      BY <2>2, <2>4 DEF Stores
    <3> QED
      BY <2>4, <3>1 DEF Replayed, op
  <2> QED
    BY <2>3, <2>4
<1>4. /\ step \in [all \X Stores -> Stores]
      /\ \A k \in all, m \in Stores : step[k, m] = Replayed(m, ops[k])
  BY <1>3
<1> HIDE DEF pick, step
<1>5. PICK f \in [SUBSET all -> Stores] :
        \A s \in SUBSET all : f[s] = IF s = {} THEN base ELSE step[pick[s], f[s \ {pick[s]}]]
  <2>1. IsFiniteSet(all)
    BY <1>1, FS_Interval
  <2>2. FoldsIn(Stores, all, pick, step, base)
    BY <1>2, <1>4, <2>1 DEF FoldsIn
  <2>3. \E f : Results(f, Stores, all, pick, step, base)
    BY <2>2, FoldExists, Zenon
  <2> QED
    BY <2>3 DEF Results
<1>6. f = body(f)
  <2>1. ASSUME NEW s \in SUBSET all PROVE f[s] = body(f)[s]
    <3>1. CASE s = {}
      BY <1>5, <3>1
    <3>2. CASE s # {}
      <4>1. Max(s) \in all /\ s \ {Max(s)} \in SUBSET all /\ pick[s] = Max(s)
        BY <1>2, <3>2
      <4>2. f[s \ {Max(s)}] \in Stores
        BY <1>5, <4>1
      <4>3. f[s] = step[Max(s), f[s \ {Max(s)}]]
        BY <1>5, <3>2, <4>1
      <4>4. f[s] = Replayed(f[s \ {Max(s)}], ops[Max(s)])
        BY <1>4, <4>1, <4>2, <4>3
      <4> QED
        BY <3>2, <4>4
    <3> QED
      BY <3>1, <3>2
  <2>2. f = [s \in SUBSET all |-> f[s]]
    BY <1>5
  <2> QED
    BY <2>1, <2>2
<1>7. fold = body(fold)
  <2> HIDE DEF body
  <2> QED
    BY <1>6
<1>8. FoldLeft(Replayed, base, ops) = fold[all]
  BY Zenon DEF FoldLeft, MapThenFoldSet, all
<1> HIDE DEF fold
<1>9. fold[{}] = base
  BY <1>7
<1>10. ASSUME NEW k \in 1 .. n PROVE fold[1 .. k] = Replayed(fold[1 .. (k - 1)], ops[k])
  <2>1. 1 .. k \in SUBSET all /\ 1 .. k # {} /\ (1 .. k) \ {k} = 1 .. (k - 1) /\ k \in 1 .. k
    <3>1. k \in Nat \ {0} /\ k <= n
      BY <1>1
    <3>2. k \in 1 .. k /\ (1 .. k) \ {k} = 1 .. (k - 1)
      BY <3>1
    <3>3. 1 .. k \in SUBSET (1 .. n)
      BY <1>1, <3>1
    <3> QED
      BY <1>1, <3>2, <3>3
  <2>2. Max(1 .. k) = k
    <3>1. 1 .. k \in SUBSET (1 .. n) /\ n \in Nat
      BY <1>1
    <3>2. Max(1 .. k) \in 1 .. k /\ \A y \in 1 .. k : y <= Max(1 .. k)
      BY <2>1, <3>1, MaxOf
    <3>3. k <= Max(1 .. k)
      BY <2>1, <3>2
    <3> DEFINE x == Max(1 .. k)
    <3>4. x \in 1 .. k /\ k <= x
      BY <3>2, <3>3
    <3> HIDE DEF x
    <3>5. x = k
      BY <3>4
    <3> QED
      BY <3>5 DEF x
  <2>3. fold[1 .. k] = Replayed(fold[(1 .. k) \ {Max(1 .. k)}], ops[Max(1 .. k)])
    BY <1>7, <2>1
  <2> QED
    BY <2>1, <2>2, <2>3
<1> DEFINE Good == {k \in 0 .. n : ReplayIs(fold[1 .. k], base, ops, k)}
<1>11. 0 \in Good
  <2>1. 1 .. 0 = {} /\ 0 \in 0 .. n
    BY <1>1
  <2>2. ReplayIs(base, base, ops, 0)
    BY <2>1 DEF ReplayIs, Stores
  <2> QED
    BY <1>9, <2>1, <2>2
<1>12. ASSUME NEW k \in 1 .. n, k - 1 \in Good PROVE k \in Good
  <2> DEFINE j == k - 1
  <2>1. j \in Nat /\ j + 1 = k /\ j + 1 <= Len(ops) /\ k \in 0 .. n
    BY <1>1 DEF n
  <2>2. ReplayIs(fold[1 .. j], base, ops, j)
    BY <1>12
  <2>3. fold[1 .. k] = Replayed(fold[1 .. j], ops[k])
    BY <1>10
  <2> HIDE DEF j
  <2>4. ReplayIs(Replayed(fold[1 .. j], ops[j + 1]), base, ops, j + 1)
    BY <2>1, <2>2, ReplayOne
  <2> QED
    BY <2>1, <2>3, <2>4
<1>13. n \in Good
  <2>1. 0 .. n \subseteq Good
    <3> HIDE DEF Good
    <3>1. \A k \in 1 .. n : k - 1 \in Good => k \in Good
      BY <1>12
    <3>2. n \in Nat
      BY <1>1
    <3> QED
      BY <1>11, <3>1, <3>2, UpTo
  <2>2. n \in 0 .. n
    BY <1>1
  <2> QED
    BY <2>1, <2>2
<1> QED
  BY <1>1, <1>8, <1>13 DEF n

-----------------------------------------------------------------------------
(* The invariant of the first session *)

\* What an open of the file as it is now would replay, and what it would read.
ToReplay == Wal!Recovered(journal)
StoredIndex == ReadIndex(disk.sb.index)
StoredDedup == ReadDedup(disk.sb.dedup)

IdsOf(ops) == {ops[k].id : k \in 1 .. Len(ops)}
Touched == IdsOf(ToReplay)

\* The last operation on a particle says what is expected of it.
Tells(ops, exp) ==
  \A k \in 1 .. Len(ops) : LastOf(ops, Len(ops), k) => exp[ops[k].id] = Outcome(ops[k])

\* The index in the file says it of the others.
FileTells ==
  \A id \in Ids \ Touched :
    IF expected[id] = None THEN StoredIndex[id] = 0
    ELSE /\ IsLeaf(StoredIndex[id]) /\ Page(StoredIndex[id]).id = id
         /\ ContentAt(StoredIndex[id]) = expected[id]

\* While the session runs, the log has all of its operations since the last
\* checkpoint, and the file's index is memory's, but for what these touched.
LogGood ==
  Codec!Journaled(journal, log.offset, ToReplay) /\ mem.modified \subseteq Touched

IndexGood ==
  /\ \A id \in Ids \ Touched : StoredIndex[id] = mem.index[id]
  /\ pc # "index_sb" => disk.sb.index = mem.sb.index

\* A particle that the index or memory has was not deleted.
Undeleted == \A id \in Ids : mem.index[id] # 0 \/ mem.store[id] # None => expected[id] # None

Tracked ==
  /\ Tells(ToReplay, expected)
  /\ Running => crashes = 0 /\ LogGood /\ IndexGood /\ Undeleted
  /\ ~ Running => /\ work = None /\ disk \in Disks /\ ToReplay \in Seq(Ops)
                  /\ expected \in [Ids -> (SUBSET Dims) \cup {None}] /\ FileTells

CrashInv == opens \in Nat \ {0} /\ (opens = 1 /\ failures = {} => Tracked)

\* No compaction is under way.
Steady == Live /\ pc \notin {"compact", "compact_sb"}

LEMMA SoundIsSteady == Sound => Steady
BY DEF Sound, Steady, Lasting, Filed

-----------------------------------------------------------------------------
(* The log *)

\* The operations of a log that is one longer.
LEMMA Appended ==
  ASSUME NEW ops \in Seq(Ops), NEW op \in Ops
  PROVE  /\ Append(ops, op) \in Seq(Ops) /\ Len(Append(ops, op)) = Len(ops) + 1
         /\ Len(ops) \in Nat
         /\ \A k \in 1 .. Len(ops) : Append(ops, op)[k] = ops[k]
         /\ Append(ops, op)[Len(ops) + 1] = op
OBVIOUS

\* They touch one more particle.
LEMMA IdsAppended ==
  ASSUME NEW ops \in Seq(Ops), NEW op \in Ops
  PROVE  IdsOf(Append(ops, op)) = IdsOf(ops) \cup {op.id}
<1> DEFINE n == Len(ops)
           new == Append(ops, op)
<1>1. /\ n \in Nat /\ Len(new) = n + 1
      /\ \A k \in 1 .. n : new[k] = ops[k]
      /\ new[n + 1] = op
  BY Appended
<1> HIDE DEF n, new
<1>2. \A k \in 1 .. n + 1 : k = n + 1 \/ k \in 1 .. n
  BY <1>1
<1>3. n + 1 \in 1 .. n + 1 /\ \A k \in 1 .. n : k \in 1 .. n + 1
  BY <1>1
<1>4. {new[k].id : k \in 1 .. n + 1} = {ops[k].id : k \in 1 .. n} \cup {op.id}
  BY <1>1, <1>2, <1>3
<1> QED
  BY <1>1, <1>4 DEF IdsOf, n, new

\* They tell what is expected after one more.
LEMMA TellsAppended ==
  ASSUME NEW ops \in Seq(Ops), NEW op \in Ops, NEW exp, NEW exp2, Tells(ops, exp),
         exp2[op.id] = Outcome(op), \A id \in Ids : id # op.id => exp2[id] = exp[id]
  PROVE  Tells(Append(ops, op), exp2)
<1> DEFINE n == Len(ops)
           new == Append(ops, op)
<1>1. /\ n \in Nat /\ Len(new) = n + 1
      /\ \A k \in 1 .. n : new[k] = ops[k] /\ ops[k] \in Ops
      /\ new[n + 1] = op
  BY Appended
<1>2. \A o \in Ops : o.id \in Ids
  BY DEF Ops, WriteOp, DeleteOp
<1>3. \A k \in 1 .. n : LastOf(ops, n, k) => exp[ops[k].id] = Outcome(ops[k])
  BY DEF Tells
<1> HIDE DEF n, new
<1>4. ASSUME NEW k \in 1 .. n + 1, LastOf(new, n + 1, k)
      PROVE  exp2[new[k].id] = Outcome(new[k])
  <2>1. CASE k = n + 1
    BY <1>1, <2>1
  <2>2. CASE k # n + 1
    <3>1. k \in 1 .. n /\ n + 1 \in 1 .. n + 1 /\ n + 1 > k /\ \A j \in 1 .. n : j \in 1 .. n + 1
      BY <1>1, <2>2
    <3>2. new[k] = ops[k] /\ op.id # ops[k].id
      BY <1>1, <1>4, <3>1 DEF LastOf
    <3>3. LastOf(ops, n, k)
      BY <1>1, <1>4, <3>1 DEF LastOf
    <3> QED
      BY <1>1, <1>2, <1>3, <3>1, <3>2, <3>3
  <2> QED
    BY <2>1, <2>2
<1> QED
  BY <1>1, <1>4 DEF Tells, n, new

\* A logged operation comes last in the replay.
LEMMA LogAppends ==
  ASSUME Steady, Codec!Journaled(journal, log.offset, ToReplay),
         NEW op \in Ops, Fits(op), Logged(op)
  PROVE  /\ Codec!Journaled(journal', log'.offset, ToReplay')
         /\ ToReplay' = Append(ToReplay, op) /\ ToReplay \in Seq(Ops)
<1> DEFINE end == log.offset
           n == Codec!Data(op)
<1>1. /\ n \in Nat \ {0} /\ Codec!EntryCells(op) = 1 + n /\ end + (1 + n) <= JournalCells
      /\ end \in Nat /\ JournalCells \in Nat /\ log.sequence \in Nat
  BY Entries, SameCodec, PersistAssumption DEF Fits, Steady, Live, PersistTypes
<1>2. journal' = [i \in DOMAIN journal |->
                    IF i = end THEN Codec!Header(op, log.sequence)
                    ELSE IF i - end \in 1 .. n THEN Codec!Piece(op, i - end) ELSE journal[i]]
  BY SameCodec, Zenon DEF Logged, Wal!Header, Codec!Header, Wal!Piece, Codec!Piece
<1>3. DOMAIN journal = 0 .. JournalCells - 1
  BY DEF Steady, Live, PersistTypes
<1>4. log'.offset = end + (1 + n)
  BY <1>1, SameCodec DEF Logged
<1> HIDE DEF end, n
<1>5. Codec!WrittenAt(journal', journal, end, op)
  <2>1. /\ Codec!Header(op, log.sequence) \in Codec!Headers
        /\ Codec!Header(op, log.sequence).op = op
    BY <1>1 DEF Codec!Header, Codec!Headers
  <2>2. journal'[end] = Codec!Header(op, log.sequence)
    <3>1. end \in DOMAIN journal
      BY <1>1, <1>3
    <3> QED
      BY <1>2, <3>1
  <2>3. ASSUME NEW k \in 1 .. n PROVE journal'[end + k] = Codec!Piece(op, k)
    <3>1. end + k \in DOMAIN journal /\ end + k # end /\ (end + k) - end = k
      BY <1>1, <1>3
    <3> QED
      BY <1>2, <3>1
  <2>4. ASSUME NEW i \in Nat, i < end PROVE journal'[i] = journal[i]
    <3>1. i \in DOMAIN journal /\ i # end /\ i - end \notin 1 .. n
      BY <1>1, <1>3, <2>4
    <3> QED
      BY <1>2, <3>1
  <2>5. ASSUME NEW i \in end + (1 + n) .. JournalCells - 1 PROVE journal'[i] = journal[i]
    <3>1. i \in DOMAIN journal /\ i # end /\ i - end \notin 1 .. n
      BY <1>1, <1>3, <2>5
    <3> QED
      BY <1>2, <3>1
  <2> QED
    BY <1>1, <2>1, <2>2, <2>3, <2>4, <2>5 DEF Codec!WrittenAt, n
<1>6. Codec!Journaled(journal', end + Codec!EntryCells(op), Append(ToReplay, op))
  BY <1>1, <1>5, CodecHolds, Codec!JournaledAppends DEF end
<1>7. Codec!Recovered(journal') = Append(ToReplay, op)
  BY <1>6, CodecHolds, Codec!JournaledRecovers
<1>8. ToReplay' = Wal!Recovered(journal')
  BY DEF ToReplay
<1>9. ToReplay' = Append(ToReplay, op)
  BY <1>7, <1>8, SameCodec
<1>10. ToReplay \in Seq(Ops)
  BY CodecHolds, Codec!JournaledRecovers
<1> QED
  BY <1>1, <1>4, <1>6, <1>9, <1>10

\* After a checkpoint there is nothing to replay.
LEMMA LogCheckpoint ==
  ASSUME Steady, Codec!Journaled(journal, log.offset, ToReplay),
         log.offset < JournalCells, WriteCheckpoint
  PROVE  /\ Codec!Journaled(journal', log'.offset, ToReplay')
         /\ ToReplay' = << >>
<1> DEFINE end == log.offset
<1>1. end \in Nat /\ JournalCells \in Nat /\ log.sequence \in Nat
  BY PersistAssumption DEF Steady, Live, PersistTypes
<1>2. /\ journal' = [journal EXCEPT ![end] = Codec!Header(Checkpoint, log.sequence)]
      /\ log'.offset = end + 1
  <2>1. Wal!Header(Checkpoint, log.sequence) = Codec!Header(Checkpoint, log.sequence)
    BY DEF Wal!Header, Codec!Header
  <2> QED
    BY <2>1 DEF WriteCheckpoint
<1>3. DOMAIN journal = 0 .. JournalCells - 1
  BY DEF Steady, Live, PersistTypes
<1>4. Codec!Data(Checkpoint) = 0 /\ Codec!EntryCells(Checkpoint) = 1
  BY Entries, SameCodec
<1>5. Codec!WrittenAt(journal', journal, end, Checkpoint)
  <2>1. /\ Codec!Header(Checkpoint, log.sequence) \in Codec!Headers
        /\ Codec!Header(Checkpoint, log.sequence).op = Checkpoint
    BY <1>1 DEF Codec!Header, Codec!Headers
  <2>2. end \in DOMAIN journal
    BY <1>1, <1>3
  <2>3. journal'[end] = Codec!Header(Checkpoint, log.sequence)
        /\ \A i : i # end => journal'[i] = journal[i]
    BY <1>2, <2>2
  <2>4. /\ \A k \in 1 .. 0 : FALSE
        /\ \A i \in Nat : i < end => i # end
        /\ \A i \in end + 1 .. JournalCells - 1 : i # end
    BY <1>1
  <2> HIDE DEF end
  <2> QED
    BY <1>4, <2>1, <2>3, <2>4 DEF Codec!WrittenAt
<1>6. Codec!Journaled(journal', end + 1, << >>)
  BY <1>5, CodecHolds, Codec!JournaledCheckpoint
<1>7. Codec!Recovered(journal') = << >>
  BY <1>6, CodecHolds, Codec!JournaledRecovers
<1>8. ToReplay' = Wal!Recovered(journal')
  BY DEF ToReplay
<1>9. ToReplay' = << >>
  BY <1>7, <1>8, SameCodec
<1> QED
  BY <1>2, <1>6, <1>9

-----------------------------------------------------------------------------
(* The steps of the first session *)

\* The index in the file is a matter of one pointer and one page.
LEMMA FileIndexSame ==
  ASSUME disk'.sb.index = disk.sb.index,
         disk.sb.index # 0 => disk'.pages[disk.sb.index] = disk.pages[disk.sb.index]
  PROVE  StoredIndex' = StoredIndex
BY DEF StoredIndex, ReadIndex, Page

\* The log as it was.
LEMMA LogSame ==
  ASSUME UNCHANGED <<journal, log>>
  PROVE  /\ ToReplay' = ToReplay /\ Touched' = Touched
         /\ LogGood /\ mem'.modified \subseteq mem.modified => LogGood'
<1>1. ToReplay' = Wal!Recovered(journal')
  BY DEF ToReplay
<1>2. ToReplay' = ToReplay
  BY <1>1 DEF ToReplay
<1>3. Touched' = Touched
  BY <1>2 DEF Touched, IdsOf
<1> QED
  BY <1>2, <1>3 DEF LogGood

\* A write that is logged.
LEMMA WriteTracked ==
  ASSUME Steady, Tracked, pc \in {"ready", "retry"}, NEW op \in Writes, LoggedWrite(op),
         UNCHANGED <<disk, crashes>>
  PROVE  Tracked'
<1>1. Running /\ Running' /\ pc # "index_sb" /\ pc' # "index_sb"
  BY DEF Running, LoggedWrite
<1>2. /\ op \in Ops /\ op.id \in Ids /\ op.content \in SUBSET Dims /\ op.content # None
      /\ Outcome(op) = op.content
  BY PersistAssumption DEF Writes, Ops, WriteOp, Outcome
<1>3. /\ mem' = [mem EXCEPT !.store[op.id] = op.content, !.modified = @ \cup {op.id}]
      /\ expected' = [expected EXCEPT ![op.id] = op.content]
      /\ Fits(op) /\ Logged(op)
  BY DEF LoggedWrite
<1>4. mem \in Stores /\ expected \in [Ids -> (SUBSET Dims) \cup {None}]
  BY DEF Steady, Live, PersistTypes
<1>5. /\ mem'.store = [mem.store EXCEPT ![op.id] = op.content]
      /\ mem'.modified = mem.modified \cup {op.id}
      /\ mem'.index = mem.index /\ mem'.sb = mem.sb
  BY <1>3, <1>4 DEF Stores
<1>6. /\ Codec!Journaled(journal', log'.offset, ToReplay')
      /\ ToReplay' = Append(ToReplay, op) /\ ToReplay \in Seq(Ops)
  BY <1>1, <1>2, <1>3, LogAppends DEF Tracked, LogGood
<1>7. Touched' = Touched \cup {op.id}
  <2>1. Touched' = IdsOf(ToReplay')
    BY DEF Touched, IdsOf
  <2> QED
    BY <1>2, <1>6, <2>1, IdsAppended DEF Touched
<1>8. LogGood'
  BY <1>1, <1>5, <1>6, <1>7 DEF Tracked, LogGood
<1>9. Tells(ToReplay, expected)'
  <2>1. /\ expected'[op.id] = Outcome(op)
        /\ \A id \in Ids : id # op.id => expected'[id] = expected[id]
    BY <1>2, <1>3, <1>4
  <2>2. Tells(Append(ToReplay, op), expected')
    BY <1>2, <1>6, <2>1, TellsAppended DEF Tracked
  <2>3. Tells(ToReplay', expected')
    BY <1>6, <2>2
  <2> QED
    BY <2>3
<1>10. IndexGood'
  <2>1. StoredIndex' = StoredIndex
    BY FileIndexSame
  <2> QED
    BY <1>1, <1>5, <1>7, <2>1 DEF Tracked, IndexGood
<1>11. Undeleted'
  BY <1>1, <1>2, <1>3, <1>4, <1>5 DEF Tracked, Undeleted, Stores
<1> QED
  BY <1>1, <1>8, <1>9, <1>10, <1>11 DEF Tracked

\* A delete that is logged.
LEMMA DeleteTracked ==
  ASSUME Steady, Tracked, NEW id \in Ids, Delete(id), Fits(DeleteOp(id)), UNCHANGED crashes
  PROVE  Tracked'
<1> DEFINE m == Deleted(mem, id)
           op == DeleteOp(id)
<1>1. /\ pc = "ready" /\ mem' = m /\ expected' = [expected EXCEPT ![id] = None]
      /\ Logged(op) /\ UNCHANGED <<disk, pc>>
  BY DEF Delete, Called
<1>2. Running /\ Running' /\ pc # "index_sb" /\ pc' # "index_sb"
  BY <1>1 DEF Running
<1>3. Image(mem, disk.pages, {})
  <2>1. Held = {}
    BY <1>1, Idle DEF Steady, Live
  <2> QED
    BY <1>2, <2>1 DEF Steady, Live, StoreGood
<1>4. /\ m.index = [mem.index EXCEPT ![id] = 0] /\ m.store = [mem.store EXCEPT ![id] = None]
      /\ m.modified = mem.modified \ {id} /\ m.sb = mem.sb
  BY <1>3, DeletedIs DEF Steady, Live, PersistTypes, Disks
<1> HIDE DEF m
<1>5. op \in Ops /\ op.id = id /\ Outcome(op) = None
  BY DEF Ops, DeleteOp, Outcome
<1>6. mem \in Stores /\ expected \in [Ids -> (SUBSET Dims) \cup {None}]
  BY DEF Steady, Live, PersistTypes
<1>7. /\ Codec!Journaled(journal', log'.offset, ToReplay')
      /\ ToReplay' = Append(ToReplay, op) /\ ToReplay \in Seq(Ops)
  BY <1>1, <1>2, <1>5, LogAppends DEF Tracked, LogGood
<1> HIDE DEF op
<1>8. Touched' = Touched \cup {id}
  <2>1. Touched' = IdsOf(ToReplay')
    BY DEF Touched, IdsOf
  <2> QED
    BY <1>5, <1>7, <2>1, IdsAppended DEF Touched
<1>9. LogGood'
  BY <1>1, <1>2, <1>4, <1>7, <1>8 DEF Tracked, LogGood
<1>10. /\ expected'[id] = None
       /\ \A i \in Ids : i # id => expected'[i] = expected[i]
  BY <1>1, <1>6
<1>11. Tells(ToReplay, expected)'
  <2>1. Tells(Append(ToReplay, op), expected')
    BY <1>5, <1>7, <1>10, TellsAppended DEF Tracked
  <2>2. Tells(ToReplay', expected')
    BY <1>7, <2>1
  <2> QED
    BY <2>2
<1>12. \A i \in Ids : i # id => mem'.index[i] = mem.index[i] /\ mem'.store[i] = mem.store[i]
  BY <1>1, <1>4, <1>6 DEF Stores, Indexes
<1>13. mem'.index[id] = 0 /\ mem'.store[id] = None
  BY <1>1, <1>4, <1>6 DEF Stores, Indexes
<1>14. IndexGood'
  <2>1. StoredIndex' = StoredIndex
    BY <1>1, FileIndexSame
  <2> QED
    BY <1>1, <1>2, <1>4, <1>8, <1>12, <2>1 DEF Tracked, IndexGood
<1>15. Undeleted'
  BY <1>2, <1>10, <1>12, <1>13 DEF Tracked, Undeleted
<1> QED
  BY <1>1, <1>2, <1>9, <1>11, <1>14, <1>15 DEF Tracked

\* Whatever writes neither the log nor the index, and puts no particle into
\* memory that was not expected.
LEMMA ElseTracked ==
  ASSUME Tracked, Running, Running', UNCHANGED <<journal, log, expected, crashes>>,
         mem'.modified \subseteq mem.modified,
         StoredIndex' = StoredIndex \/ StoredIndex' = mem.index,
         \A id \in Ids \ Touched : mem'.index[id] = mem.index[id],
         pc' # "index_sb" => disk'.sb.index = mem'.sb.index,
         \A id \in Ids : mem'.index[id] # 0 \/ mem'.store[id] # None => expected[id] # None
  PROVE  Tracked'
<1>1. ToReplay' = ToReplay /\ Touched' = Touched /\ LogGood'
  BY LogSame DEF Tracked
<1>2. Tells(ToReplay, expected)'
  <2>1. Tells(ToReplay', expected')
    BY <1>1 DEF Tracked
  <2> QED
    BY <2>1
<1>3. IndexGood'
  BY <1>1 DEF Tracked, IndexGood
<1>4. Undeleted'
  BY DEF Undeleted
<1> QED
  BY <1>1, <1>2, <1>3, <1>4 DEF Tracked

\* The calls that leave memory and file alone.
LEMMA CallTracked ==
  ASSUME Steady, Tracked, Running, Running', pc # "index_sb", pc' # "index_sb",
         UNCHANGED <<mem, disk, journal, log, expected, crashes>>
  PROVE  Tracked'
<1>1. StoredIndex' = StoredIndex
  BY FileIndexSame
<1> QED
  BY <1>1, ElseTracked DEF Tracked, IndexGood, Undeleted

\* A particle read from its leaf.
LEMMA LoadTracked ==
  ASSUME Steady, Tracked, NEW id \in Ids, LoadParticle(id), UNCHANGED crashes
  PROVE  Tracked'
<1> DEFINE content == ContentAt(mem.index[id])
<1>1. /\ pc = "ready" /\ IsLeaf(mem.index[id])
      /\ mem' = [mem EXCEPT !.store[Page(mem.index[id]).id] = content]
      /\ UNCHANGED <<disk, pc, log, journal, expected>>
  BY DEF LoadParticle, unsynced
<1>2. Running /\ Running' /\ pc # "index_sb" /\ pc' # "index_sb"
  BY <1>1 DEF Running
<1>3. Image(mem, disk.pages, Held)
  BY <1>2 DEF Steady, Live, StoreGood
<1>4. mem.index[id] # 0
  BY <1>1 DEF IsLeaf, Page, NoPage
<1>5. Page(mem.index[id]).id = id
  BY <1>3, <1>4, ContentIs
<1>6. mem \in Stores
  BY DEF Steady, Live, PersistTypes
<1> HIDE DEF content
<1>7. /\ mem'.store = [mem.store EXCEPT ![id] = content] /\ mem'.modified = mem.modified
      /\ mem'.index = mem.index /\ mem'.sb = mem.sb
  BY <1>1, <1>5, <1>6 DEF Stores
<1>8. StoredIndex' = StoredIndex
  BY <1>1, FileIndexSame
<1>9. \A i \in Ids : mem'.index[i] # 0 \/ mem'.store[i] # None => expected[i] # None
  BY <1>2, <1>4, <1>6, <1>7 DEF Tracked, Undeleted, Stores
<1> QED
  BY <1>1, <1>2, <1>7, <1>8, <1>9, ElseTracked DEF Tracked, IndexGood

\* The index page in the file is in use, so no new page is written over it.
LEMMA IndexPageKept ==
  ASSUME Steady, Tracked, Running, pc # "index_sb",
         NEW new \in Blocks, new \notin mem.used, NEW page \in Pages,
         disk' = [disk EXCEPT !.pages[new] = page]
  PROVE  /\ disk'.sb = disk.sb /\ disk.sb.index = mem.sb.index
         /\ StoredIndex' = StoredIndex
<1>1. disk.sb.index = mem.sb.index
  BY DEF Tracked, IndexGood
<1>2. disk.sb.index # 0 => disk.sb.index \in mem.used
  BY <1>1 DEF Steady, Live, StoreGood, Image, Tables
<1>3. disk \in Disks /\ mem \in Stores
  BY DEF Steady, Live, PersistTypes, Disks
<1>4. /\ disk'.sb = disk.sb
      /\ \A b \in Blocks : b # new => disk'.pages[b] = disk.pages[b]
  BY <1>3, PageWritten
<1>5. disk.sb.index # 0 => disk'.pages[disk.sb.index] = disk.pages[disk.sb.index]
  BY <1>2, <1>3, <1>4 DEF Stores
<1> QED
  BY <1>1, <1>4, <1>5, FileIndexSame

\* A dimension of the particle being written.
LEMMA DimensionTracked ==
  ASSUME Steady, Tracked, WriteDimension, UNCHANGED crashes
  PROVE  Tracked'
<1> DEFINE d == Min(Unwritten)
           new == Allocated(mem)
<1>1. work # None /\ UNCHANGED <<pc, log, journal, expected>>
  BY DEF WriteDimension, unsynced
<1>2. pc = "particles" /\ Running /\ Running' /\ pc # "index_sb" /\ pc' # "index_sb"
  BY <1>1 DEF Steady, Live, WorkGood, Running
<1>3. mem \in Stores
  BY DEF Steady, Live, PersistTypes
<1>4. \/ UNCHANGED disk /\ mem' = [mem EXCEPT !.dedup[d].count = @ + 1]
      \/ /\ Free(mem) # {} /\ disk' = [disk EXCEPT !.pages[new] = DimPage(d)]
         /\ mem' = [mem EXCEPT !.used = @ \cup {new}, !.dedup[d] = [block |-> new, count |-> 1]]
  BY DEF WriteDimension
<1>5. d \in Dims
  <2>1. Unwritten \in SUBSET Nat /\ Unwritten # {} /\ Unwritten \subseteq Dims
    <3>1. work.content \in SUBSET Dims
      BY <1>1 DEF Steady, Live, PersistTypes
    <3> QED
      BY <3>1 DEF WriteDimension, Unwritten, Dims
  <2> DEFINE U == Unwritten
  <2>2. PICK x \in U : \A y \in U : x <= y
    <3> HIDE DEF U
    <3>1. U \in SUBSET Nat /\ U # {}
      BY <2>1 DEF U
    <3> QED
      BY <3>1, CodecHolds, Codec!LeastExists
  <2>3. Min(Unwritten) \in Unwritten
    BY <2>1, <2>2 DEF Min
  <2> QED
    BY <2>1, <2>3
<1> HIDE DEF d, new
<1>6. mem'.modified = mem.modified /\ mem'.index = mem.index /\ mem'.store = mem.store
      /\ mem'.sb = mem.sb
  BY <1>3, <1>4 DEF Stores
<1>7. disk'.sb.index = disk.sb.index /\ StoredIndex' = StoredIndex
  <2>1. CASE UNCHANGED disk
    BY <2>1, FileIndexSame
  <2>2. CASE Free(mem) # {} /\ disk' = [disk EXCEPT !.pages[new] = DimPage(d)]
    <3>1. new \in Blocks /\ new \notin mem.used
      BY <2>2, AllocatedIsFree DEF new
    <3>2. DimPage(d) \in Pages
      BY <1>5 DEF DimPage, Pages
    <3> QED
      BY <1>2, <2>2, <3>1, <3>2, IndexPageKept
  <2> QED
    BY <1>4, <2>1, <2>2
<1> QED
  BY <1>1, <1>2, <1>6, <1>7, ElseTracked DEF Tracked, IndexGood, Undeleted

\* The leaf of a particle that was written since the last checkpoint.
LEMMA LeafTracked ==
  ASSUME Steady, Tracked, WriteLeaf, UNCHANGED crashes
  PROVE  Tracked'
<1> DEFINE new == Allocated(mem)
           id == work.id
<1>1. /\ work # None /\ Free(mem) # {} /\ UNCHANGED <<pc, log, journal, expected>>
      /\ mem' = [mem EXCEPT !.used = @ \cup {new}, !.index[id] = new,
                            !.store[id] = work.content]
      /\ disk' = [disk EXCEPT !.pages[new] = LeafPage(id, work.at)]
  BY DEF WriteLeaf, unsynced
<1>2. pc = "particles" /\ Running /\ Running' /\ pc # "index_sb" /\ pc' # "index_sb"
  BY <1>1 DEF Steady, Live, WorkGood, Running
<1>3. /\ mem \in Stores /\ work.content \in SUBSET Dims /\ work.at \in [Dims -> Pointers]
  BY <1>1 DEF Steady, Live, PersistTypes
<1>4. id \in Ids /\ id \in mem.modified /\ expected[id] # None
  BY <1>1, <1>2 DEF Steady, Live, WorkGood, StoreGood, PersistTypes
<1>5. new \in Blocks /\ new \notin mem.used
  BY <1>1, AllocatedIsFree
<1>6. LeafPage(id, work.at) \in Pages
  BY <1>3, <1>4 DEF LeafPage, Pages
<1> HIDE DEF new, id
<1>7. /\ mem'.modified = mem.modified /\ mem'.sb = mem.sb
      /\ mem'.index = [mem.index EXCEPT ![id] = new]
      /\ mem'.store = [mem.store EXCEPT ![id] = work.content]
  BY <1>1, <1>3 DEF Stores
<1>8. \A i \in Ids : i # id => mem'.index[i] = mem.index[i] /\ mem'.store[i] = mem.store[i]
  BY <1>3, <1>7 DEF Stores, Indexes
<1>9. disk'.sb.index = disk.sb.index /\ StoredIndex' = StoredIndex
  BY <1>1, <1>2, <1>5, <1>6, IndexPageKept
<1>10. id \in Touched
  BY <1>2, <1>4 DEF Tracked, LogGood
<1>11. \A i \in Ids \ Touched : mem'.index[i] = mem.index[i]
  BY <1>8, <1>10
<1>12. \A i \in Ids : mem'.index[i] # 0 \/ mem'.store[i] # None => expected[i] # None
  BY <1>2, <1>4, <1>8 DEF Tracked, Undeleted
<1> QED
  BY <1>1, <1>2, <1>7, <1>9, <1>11, <1>12, ElseTracked DEF Tracked, IndexGood

\* The writes of the pointers and of the bitmap.
LEMMA FlushTracked ==
  ASSUME Steady, Tracked, UNCHANGED crashes,
         \/ SyncVolume \/ SyncVolumeBitmap \/ WriteIndexPointer \/ WriteDedupPointer
         \/ CheckpointSync \/ CheckpointSyncBitmap
  PROVE  Tracked'
<1>1. /\ pc \in SyncStates /\ pc' \in SyncStates \cup {"ready", "retry"}
      /\ pc' # "index_sb"
      /\ \/ disk' = [disk EXCEPT !.sb = mem.sb]
         \/ pc # "index_sb" /\ disk' = [disk EXCEPT !.used = mem.used]
      /\ mem' = [mem EXCEPT !.modified = {}] \/ mem' = mem
      /\ UNCHANGED <<log, journal, expected>>
  BY DEF SyncVolume, SyncVolumeBitmap, WriteIndexPointer, WriteDedupPointer, CheckpointSync,
         CheckpointSyncBitmap, FlushSuperblock, FlushBitmap, unsynced, SyncStates
<1>2. Running /\ Running'
  BY <1>1 DEF Running, SyncStates
<1>3. mem \in Stores /\ disk \in Disks
  BY DEF Steady, Live, PersistTypes, Disks
<1>4. /\ mem'.modified \subseteq mem.modified /\ mem'.index = mem.index
      /\ mem'.store = mem.store /\ mem'.sb = mem.sb
  BY <1>1, <1>3 DEF Stores
<1>5. disk'.pages = disk.pages
      /\ (disk'.sb = mem.sb \/ (pc # "index_sb" /\ disk'.sb = disk.sb))
  BY <1>1, <1>3 DEF Disks
<1>6. disk'.sb.index = mem.sb.index
  BY <1>2, <1>5 DEF Tracked, IndexGood
<1>7. StoredIndex' = StoredIndex \/ StoredIndex' = mem.index
  <2>1. CASE pc # "index_sb"
    <3>1. disk'.sb.index = disk.sb.index
      BY <1>2, <1>6, <2>1 DEF Tracked, IndexGood
    <3> QED
      BY <1>5, <3>1, FileIndexSame
  <2>2. CASE pc = "index_sb"
    <3>1. ReadIndex(mem.sb.index) = mem.index
      BY <2>2 DEF Steady, Live, Progress, Syncing
    <3>2. StoredIndex' = ReadIndex(mem.sb.index)
      BY <1>5, <1>6 DEF StoredIndex, ReadIndex, Page
    <3> QED
      BY <3>1, <3>2
  <2> QED
    BY <2>1, <2>2
<1> QED
  BY <1>1, <1>2, <1>4, <1>6, <1>7, ElseTracked DEF Tracked, Undeleted

\* A table written anew; the index may get into the place of the old one.
LEMMA TableTracked ==
  ASSUME Steady, Tracked, UNCHANGED crashes, WriteIndex \/ WriteDedup
  PROVE  Tracked'
<1>1. PICK p, page :
        /\ p \in {"index", "dedup"} /\ pc = p /\ TableWritten(p, page)
        /\ p = "index" => page = IndexPage(mem.index) /\ pc' = "index_sb"
        /\ p = "dedup" => page = DedupPage(mem.dedup) /\ pc' = "dedup_sb"
        /\ UNCHANGED <<todo, work, log, journal, pending, expected>>
  BY DEF WriteIndex, WriteDedup, unsynced
<1>2. mem \in Stores /\ disk \in Disks
  BY DEF Steady, Live, PersistTypes, Disks
<1>3. page \in Pages /\ page.kind = p
  BY <1>1, <1>2 DEF IndexPage, DedupPage, Pages, Stores
<1>4. /\ p \in {"index", "dedup"} /\ pc = p /\ pc' \in SyncStates \ {"particles"}
      /\ Running /\ Running' /\ pc # "index_sb" /\ disk.sb.index = mem.sb.index
  BY <1>1 DEF SyncStates, Running, Tracked, IndexGood
<1> DEFINE freed == [mem EXCEPT !.used = @ \ {mem.sb[p]}]
           new == Allocated(freed)
<1>5. /\ Free(freed) # {} /\ disk' = [disk EXCEPT !.pages[new] = page]
      /\ mem' = [freed EXCEPT !.used = @ \cup {new}, !.sb[p] = new]
  BY <1>1 DEF TableWritten
<1>6. new \in Blocks /\ new \notin freed.used
  BY <1>5, AllocatedIsFree
<1>7. freed.used = mem.used \ {mem.sb[p]} /\ freed.store = mem.store
      /\ freed.modified = mem.modified /\ freed.index = mem.index /\ freed.sb = mem.sb
      /\ freed \in Stores
  BY <1>2 DEF Stores
<1> HIDE DEF freed, new
<1>8. /\ mem'.store = mem.store /\ mem'.modified = mem.modified /\ mem'.index = mem.index
      /\ mem'.sb = [mem.sb EXCEPT ![p] = new]
  BY <1>1, <1>5, <1>7 DEF Stores
<1>9. /\ disk'.sb = disk.sb /\ disk'.pages[new] = page
      /\ \A b \in Blocks : b # new => disk'.pages[b] = disk.pages[b]
  BY <1>2, <1>3, <1>5, <1>6, PageWritten
<1>10. disk.sb.index # 0 => disk.sb.index \in Blocks /\ disk.sb.index \in mem.used
                            /\ disk.pages[disk.sb.index].kind = "index"
  BY <1>2, <1>4 DEF Steady, Live, StoreGood, Image, Tables, Stores
<1>11. StoredIndex' = StoredIndex \/ StoredIndex' = mem.index
  <2>1. CASE disk.sb.index # 0 /\ disk.sb.index = new
    <3>1. mem.sb[p] = new
      BY <1>6, <1>7, <1>10, <2>1
    <3>2. p = "index"
      <4>1. p = "dedup" => disk.pages[new].kind = "dedup"
        BY <2>1, <3>1, <1>4 DEF Steady, Live, StoreGood, Image, Tables
      <4> QED
        BY <1>4, <1>10, <2>1, <4>1
    <3>3. page.kind = "index" /\ page.index = mem.index
      <4>1. page = IndexPage(mem.index)
        BY <1>1, <3>2
      <4> QED
        BY <4>1 DEF IndexPage
    <3> QED
      BY <1>9, <2>1, <3>3 DEF StoredIndex, ReadIndex, Page
  <2>2. CASE ~ (disk.sb.index # 0 /\ disk.sb.index = new)
    <3>1. disk.sb.index # 0 => disk'.pages[disk.sb.index] = disk.pages[disk.sb.index]
      BY <1>9, <1>10, <2>2
    <3> QED
      BY <1>9, <3>1, FileIndexSame
  <2> QED
    BY <2>1, <2>2
<1>12. pc' # "index_sb" => disk'.sb.index = mem'.sb.index
  <2>1. pc' # "index_sb" => p = "dedup"
    BY <1>1
  <2>2. mem.sb \in Superblocks
    BY <1>2 DEF Stores
  <2>3. p = "dedup" => mem'.sb.index = mem.sb.index
    BY <1>8, <2>2 DEF Superblocks
  <2> QED
    BY <1>4, <1>9, <2>1, <2>3
<1> QED
  BY <1>1, <1>4, <1>8, <1>11, <1>12, ElseTracked DEF Tracked, Undeleted

\* An empty dedup table.
LEMMA DropTracked ==
  ASSUME Steady, Tracked, UNCHANGED crashes, DropDedup
  PROVE  Tracked'
<1>1. /\ pc = "dedup" /\ pc' = "checkpoint"
      /\ mem' = [mem EXCEPT !.used = @ \ {mem.sb.dedup}, !.sb.dedup = 0]
      /\ UNCHANGED <<disk, log, journal, expected>>
  BY DEF DropDedup, unsynced
<1>2. mem \in Stores /\ Running /\ Running'
  BY <1>1 DEF Steady, Live, PersistTypes, Running
<1>3. /\ mem'.store = mem.store /\ mem'.modified = mem.modified /\ mem'.index = mem.index
      /\ mem'.sb.index = mem.sb.index
  BY <1>1, <1>2 DEF Stores, Superblocks
<1>4. StoredIndex' = StoredIndex
  BY <1>1, FileIndexSame
<1> QED
  BY <1>1, <1>2, <1>3, <1>4, ElseTracked DEF Tracked, IndexGood, Undeleted

\* The checkpoint: the file has the index of memory, whole.
LEMMA CheckpointTracked ==
  ASSUME Steady, Tracked, UNCHANGED crashes, WriteCheckpoint, log.offset < JournalCells
  PROVE  Tracked'
<1>1. /\ pc = "checkpoint" /\ pc' = "last_sb" /\ UNCHANGED <<mem, disk, expected>>
  BY DEF WriteCheckpoint
<1>2. Running /\ Running'
  BY <1>1 DEF Running
<1>3. Codec!Journaled(journal', log'.offset, ToReplay') /\ ToReplay' = << >>
  BY <1>2, LogCheckpoint DEF Tracked, LogGood
<1>4. Len(ToReplay') = 0
  BY <1>3
<1>5. mem.modified = {}
  BY <1>1 DEF Steady, Live, Progress, Syncing
<1>6. LogGood'
  BY <1>1, <1>3, <1>5 DEF LogGood
<1>7. Tells(ToReplay, expected)'
  BY <1>4 DEF Tells
<1>8. StoredIndex = mem.index /\ disk.sb.index = mem.sb.index
  <2>1. ReadIndex(mem.sb.index) = mem.index
    BY <1>1 DEF Steady, Live, Progress, Syncing
  <2>2. disk.sb.index = mem.sb.index
    BY <1>1, <1>2 DEF Tracked, IndexGood
  <2> QED
    BY <2>1, <2>2 DEF StoredIndex
<1>9. IndexGood'
  <2>1. StoredIndex' = StoredIndex
    BY <1>1, FileIndexSame
  <2> QED
    BY <1>1, <1>8, <2>1 DEF IndexGood
<1>10. Undeleted'
  BY <1>1, <1>2 DEF Tracked, Undeleted
<1> QED
  BY <1>1, <1>2, <1>6, <1>7, <1>9, <1>10 DEF Tracked

\* What the file says depends on the file and on what is expected alone.
LEMMA FileTellsSame ==
  ASSUME UNCHANGED <<disk, journal, expected>>
  PROVE  /\ ToReplay' = ToReplay
         /\ Tells(ToReplay, expected) => Tells(ToReplay, expected)'
         /\ FileTells => FileTells'
<1>1. ToReplay' = ToReplay
  <2>1. ToReplay' = Wal!Recovered(journal')
    BY DEF ToReplay
  <2> QED
    BY <2>1 DEF ToReplay
<1>2. Tells(ToReplay, expected)' <=> Tells(ToReplay', expected')
  OBVIOUS
<1>3. Touched' = Touched
  BY <1>1 DEF Touched, IdsOf
<1>4. FileTells => FileTells'
  <2>1. StoredIndex' = StoredIndex
    BY FileIndexSame
  <2>2. \A id \in Ids : /\ IsLeaf(StoredIndex[id])' = IsLeaf(StoredIndex[id])
                        /\ Page(StoredIndex[id])' = Page(StoredIndex[id])
                        /\ ContentAt(StoredIndex[id])' = ContentAt(StoredIndex[id])
    BY <2>1 DEF IsLeaf, Page, ContentAt
  <2> QED
    BY <1>3, <2>1, <2>2 DEF FileTells
<1> QED
  BY <1>1, <1>2, <1>4

\* While the session runs, too, the file says it of what the log does not have.
LEMMA FileTellsRunning ==
  ASSUME Steady, Tracked, Running
  PROVE  FileTells
<1> SUFFICES ASSUME NEW id \in Ids \ Touched
             PROVE  IF expected[id] = None THEN StoredIndex[id] = 0
                    ELSE /\ IsLeaf(StoredIndex[id]) /\ Page(StoredIndex[id]).id = id
                         /\ ContentAt(StoredIndex[id]) = expected[id]
  BY DEF FileTells
<1>1. StoredIndex[id] = mem.index[id]
  BY DEF Tracked, IndexGood
<1>2. CASE expected[id] = None
  BY <1>1, <1>2 DEF Tracked, Undeleted
<1>3. CASE expected[id] # None
  <2>1. id \notin Dirty
    BY DEF Dirty, Tracked, LogGood, Steady, Live, WorkGood
  <2>2. /\ mem.index[id] # 0
        /\ {d \in Dims : disk.pages[mem.index[id]].at[d] # 0} = expected[id]
    BY <1>3, <2>1 DEF Steady, Live, StoreGood, Saved
  <2>3. Image(mem, disk.pages, Held)
    BY DEF Steady, Live, StoreGood
  <2>4. /\ IsLeaf(mem.index[id]) /\ Page(mem.index[id]).id = id
        /\ ContentAt(mem.index[id]) = {d \in Dims : disk.pages[mem.index[id]].at[d] # 0}
    BY <2>2, <2>3, ContentIs
  <2> QED
    BY <1>1, <1>3, <2>2, <2>4
<1> QED
  BY <1>2, <1>3

\* The session ends, in whatever way.
LEMMA GoneTracked ==
  ASSUME Steady, Tracked, Running, Gone
  PROVE  Tracked'
<1>1. UNCHANGED <<disk, journal, expected>> /\ ~ Running' /\ work' = None
  BY DEF Gone, Running
<1>2. FileTells
  BY FileTellsRunning
<1>3. disk \in Disks /\ expected \in [Ids -> (SUBSET Dims) \cup {None}]
  BY DEF Steady, Live, PersistTypes, Disks
<1>4. ToReplay \in Seq(Ops)
  BY CodecHolds, Codec!JournaledRecovers DEF Tracked, LogGood
<1>5. /\ ToReplay' = ToReplay /\ Tells(ToReplay, expected)' /\ FileTells'
  BY <1>1, <1>2, FileTellsSame DEF Tracked
<1>6. disk' \in Disks /\ expected' \in [Ids -> (SUBSET Dims) \cup {None}]
  BY <1>1, <1>3
<1> QED
  BY <1>1, <1>4, <1>5, <1>6 DEF Tracked

\* Nothing happens to a file that no process has open.
LEMMA ClosedStays ==
  ASSUME Tracked, ~ Running, [Next]_vars, opens' = 1, opens \in Nat \ {0}
  PROVE  Tracked'
<1>1. pc = "closed" /\ work = None
  BY DEF Tracked, Running
<1>2. ~ Opening
  <2> SUFFICES ASSUME Opening PROVE FALSE
    OBVIOUS
  <2>1. opens' = opens + 1
    BY DEF Opening, Open
  <2> QED
    BY <2>1
<1>3. UNCHANGED vars
  BY <1>1, <1>2, Zenon
     DEF Next, Step, Write, WriteFull, Called, LoadParticle, SyncBegin, SyncStep, BeginParticle,
         WriteDimension, WriteLeaf, LeafTooLarge, SyncVolume, SyncVolumeBitmap, WriteIndex,
         WriteIndexPointer, WriteDedup, DropDedup, WriteDedupPointer, WriteCheckpoint,
         CheckpointSync, CheckpointSyncBitmap, SyncFails, Retry, Close, Crash, Gone,
         Delete, FlushSuperblock, FlushBitmap
<1>4. UNCHANGED <<disk, journal, expected, pc, work>>
  BY <1>3 DEF vars
<1>5. ToReplay' = ToReplay /\ Tells(ToReplay, expected)' /\ FileTells'
  BY <1>4, FileTellsSame DEF Tracked, Running
<1> QED
  BY <1>4, <1>5 DEF Tracked, Running

\* A new volume.
LEMMA InitTracked == Init => CrashInv
<1> SUFFICES ASSUME Init PROVE opens \in Nat \ {0} /\ Tracked
  BY DEF CrashInv
<1>1. /\ mem.store = NoStore /\ mem.modified = {} /\ mem.index = NoIndex
      /\ mem.sb = NullPointers /\ disk.sb = NullPointers
      /\ log.offset = 0 /\ pc = "ready" /\ expected = NoStore /\ opens = 1 /\ crashes = 0
      /\ journal = [i \in 0 .. JournalCells - 1 |-> Blank]
  BY DEF Init
<1>2. Codec!Journaled(journal, 0, << >>)
  BY <1>1, CodecHolds, Codec!JournaledBlank
<1>3. ToReplay = << >>
  <2>1. Codec!Recovered(journal) = << >>
    BY <1>2, CodecHolds, Codec!JournaledRecovers
  <2> QED
    BY <2>1, SameCodec DEF ToReplay
<1>4. Len(ToReplay) = 0
  BY <1>3
<1>5. LogGood /\ Tells(ToReplay, expected)
  BY <1>1, <1>2, <1>3, <1>4 DEF LogGood, Tells
<1>6. StoredIndex = NoIndex
  BY <1>1 DEF StoredIndex, ReadIndex, Page, NoPage, NullPointers
<1>7. IndexGood
  BY <1>1, <1>6 DEF IndexGood
<1>8. Undeleted
  BY <1>1 DEF Undeleted, NoIndex, NoStore
<1> QED
  BY <1>1, <1>5, <1>7, <1>8 DEF Tracked, Running

\* Sessions are counted; a second one is a matter of opening the file.
LEMMA SessionsCount ==
  ASSUME opens \in Nat \ {0}, [Next]_vars
  PROVE  /\ opens' \in {opens, opens + 1} /\ opens' \in Nat \ {0}
         /\ Opening => opens' # 1
<1>1. CASE UNCHANGED vars
  <2>1. opens' = opens
    BY <1>1 DEF vars
  <2>2. Opening => opens' = opens + 1
    BY DEF Opening, Open
  <2> QED
    BY <2>1, <2>2
<1>2. CASE Opening
  BY <1>2 DEF Opening, Open
<1>3. CASE Next /\ ~ Opening
  <2>1. opens' = opens
    BY <1>3, Zenon
     DEF Next, Step, Write, WriteFull, LoadParticle, SyncBegin, SyncStep, BeginParticle,
         WriteDimension, WriteLeaf, LeafTooLarge, SyncVolume, SyncVolumeBitmap, WriteIndex,
         WriteIndexPointer, WriteDedup, DropDedup, WriteDedupPointer, WriteCheckpoint,
         CheckpointSync, CheckpointSyncBitmap, SyncFails, Retry, Close, Crash, Gone,
         Delete, unsynced
  <2> QED
    BY <1>3, <2>1
<1> QED
  BY <1>1, <1>2, <1>3

\* Every step of a running store, and its end, keeps the log and the file in
\* agreement with what is expected.
LEMMA RunningTracked ==
  ASSUME Steady, Tracked, Running, [Next]_vars, ~ Opening, failures' = {}
  PROVE  Tracked'
<1>1. ASSUME NEW id \in Ids, NEW c \in Contents, Write(id, c) PROVE Tracked'
  <2>1. /\ pc = "ready" /\ LoggedWrite(WriteOp(id, c)) /\ WriteOp(id, c) \in Writes
        /\ UNCHANGED <<disk, crashes>>
    BY <1>1 DEF Write, Called, Writes
  <2> QED
    BY <2>1, WriteTracked
<1>2. ASSUME NEW id \in Ids, NEW c \in Contents, WriteFull(id, c) PROVE Tracked'
  <2>1. /\ pc = "ready" /\ pc' = "particles"
        /\ UNCHANGED <<mem, disk, journal, log, expected, crashes>>
    BY <1>2 DEF WriteFull, Called
  <2> QED
    BY <2>1, CallTracked DEF Running
<1>3. ASSUME NEW id \in Ids, LoadParticle(id) PROVE Tracked'
  BY <1>3, LoadTracked DEF LoadParticle, unsynced
<1>4. CASE SyncBegin
  <2>1. /\ pc = "ready" /\ pc' = "particles"
        /\ UNCHANGED <<mem, disk, journal, log, expected, crashes>>
    BY <1>4 DEF SyncBegin, Called
  <2> QED
    BY <2>1, CallTracked DEF Running
<1>5. ASSUME NEW id \in Ids, BeginParticle(id) PROVE Tracked'
  <2>1. /\ pc = "particles" /\ pc' = "particles"
        /\ UNCHANGED <<mem, disk, journal, log, expected, crashes>>
    BY <1>5 DEF BeginParticle, unsynced
  <2> QED
    BY <2>1, CallTracked DEF Running
<1>6. CASE WriteDimension
  BY <1>6, DimensionTracked DEF WriteDimension, unsynced
<1>7. CASE WriteLeaf
  BY <1>7, LeafTracked DEF WriteLeaf, unsynced
<1>8. CASE \/ SyncVolume \/ SyncVolumeBitmap \/ WriteIndexPointer \/ WriteDedupPointer
           \/ CheckpointSync \/ CheckpointSyncBitmap
  <2>1. UNCHANGED crashes
    BY <1>8 DEF SyncVolume, SyncVolumeBitmap, WriteIndexPointer, WriteDedupPointer,
                CheckpointSync, CheckpointSyncBitmap, unsynced
  <2> QED
    BY <1>8, <2>1, FlushTracked
<1>9. CASE WriteIndex \/ WriteDedup
  <2>1. UNCHANGED crashes
    BY <1>9 DEF WriteIndex, WriteDedup, unsynced
  <2> QED
    BY <1>9, <2>1, TableTracked
<1>10. CASE DropDedup
  BY <1>10, DropTracked DEF DropDedup, unsynced
<1>11. CASE WriteCheckpoint
  <2>1. log.offset < JournalCells
    <3> SUFFICES ASSUME ~ (log.offset < JournalCells) PROVE "overrun" \in failures'
      OBVIOUS
    <3> QED
      BY <1>11 DEF WriteCheckpoint
  <2> QED
    BY <1>11, <2>1, CheckpointTracked DEF WriteCheckpoint
<1>12. ~ SyncFails /\ ~ LeafTooLarge
  <2> SUFFICES ASSUME SyncFails \/ LeafTooLarge PROVE "error" \in failures'
    OBVIOUS
  <2> QED
    BY DEF SyncFails, LeafTooLarge
<1>13. CASE Retry
  <2>1. pending \in Writes /\ pc = "retry" /\ UNCHANGED <<disk, crashes>>
    BY <1>13, PersistAssumption DEF Retry, Steady, Live, PersistTypes
  <2>2. CASE Fits(pending)
    <3>1. LoggedWrite(pending)
      BY <1>13, <2>2 DEF Retry
    <3> QED
      BY <2>1, <3>1, WriteTracked
  <2>3. CASE ~ Fits(pending)
    <3>1. pc' = "ready" /\ UNCHANGED <<mem, journal, log, expected>>
      BY <1>13, <2>3 DEF Retry
    <3> QED
      BY <2>1, <3>1, CallTracked DEF Running
  <2> QED
    BY <2>2, <2>3
<1>14. CASE Close \/ Crash
  BY <1>14, GoneTracked DEF Close, Crash
<1>15. ASSUME NEW id \in Ids, Delete(id) PROVE Tracked'
  <2>1. Fits(DeleteOp(id))
    <3> SUFFICES ASSUME ~ Fits(DeleteOp(id)) PROVE "error" \in failures'
      OBVIOUS
    <3> QED
      BY <1>15 DEF Delete
  <2> QED
    BY <1>15, <2>1, DeleteTracked DEF Delete
<1>16. CASE UNCHANGED vars
  <2>1. UNCHANGED <<mem, disk, journal, log, pc, expected, crashes>>
    BY <1>16 DEF vars
  <2>2. StoredIndex' = StoredIndex
    BY <2>1, FileIndexSame
  <2> QED
    BY <2>1, <2>2, ElseTracked DEF Running, Tracked, IndexGood, Undeleted
<1> QED
  BY <1>1, <1>2, <1>3, <1>4, <1>5, <1>6, <1>7, <1>8, <1>9, <1>10, <1>11, <1>12,
     <1>13, <1>14, <1>15, <1>16 DEF Next, Step, SyncStep

\* So does every step of the first session.
LEMMA StepTracked == PersistInv /\ CrashInv /\ [Next]_vars => CrashInv'
<1> SUFFICES ASSUME PersistInv, CrashInv, [Next]_vars, opens' = 1, failures' = {}
             PROVE  Tracked'
  BY SessionsCount DEF CrashInv
<1>1. failures \subseteq failures' /\ opens' \in {opens, opens + 1} /\ opens \in Nat \ {0}
      /\ ~ Opening
  BY DamageStays, SessionsCount DEF PersistInv, CrashInv
<1>2. failures = {} /\ Tracked
  BY <1>1 DEF CrashInv
<1>3. CASE ~ Running
  BY <1>1, <1>2, <1>3, ClosedStays
<1>4. CASE Running
  <2>1. Sound
    BY <1>2, <1>4 DEF PersistInv, Undamaged, Tracked
  <2> QED
    BY <1>1, <1>2, <1>4, <2>1, SoundIsSteady, RunningTracked
<1> QED
  BY <1>3, <1>4

-----------------------------------------------------------------------------
(* What the file gives *)

\* What an open reads before it replays the log.
Before == [store |-> NoStore, modified |-> {}, index |-> StoredIndex, dedup |-> StoredDedup,
           used |-> disk.used, sb |-> disk.sb]

\* Every particle of a log has a last operation.
LEMMA LastExists ==
  ASSUME NEW ops \in Seq(Ops), NEW id \in IdsOf(ops)
  PROVE  \E k \in 1 .. Len(ops) : ops[k].id = id /\ LastOf(ops, Len(ops), k)
<1> DEFINE n == Len(ops)
           at == {k \in 1 .. n : ops[k].id = id}
<1>1. n \in Nat /\ at \in SUBSET (1 .. n) /\ at # {}
  BY DEF IdsOf
<1>2. Max(at) \in at /\ \A y \in at : y <= Max(at)
  <2> HIDE DEF at, n
  <2> QED
    BY <1>1, MaxOf
<1> DEFINE k == Max(at)
<1>3. k \in 1 .. n /\ ops[k].id = id
  BY <1>2
<1>4. ASSUME NEW j \in 1 .. n, j > k, ops[j].id = id PROVE FALSE
  <2>1. j <= k
    BY <1>2, <1>4
  <2> HIDE DEF k, at
  <2> QED
    BY <1>1, <1>3, <1>4, <2>1
<1> HIDE DEF k
<1> QED
  BY <1>3, <1>4 DEF LastOf

\* The replay of the log over the file, taken apart.
LEMMA OpenedIs ==
  ASSUME disk \in Disks, ToReplay \in Seq(Ops)
  PROVE  /\ Before \in Stores
         /\ ReplayIs(Opened, Before, ToReplay, Len(ToReplay))
<1>1. /\ StoredIndex \in Indexes /\ StoredDedup \in DedupTables
      /\ disk.used \in SUBSET Blocks /\ disk.sb \in Superblocks
  BY FileImageTypes DEF FileImage, StoredIndex, StoredDedup, Disks
<1>2. Before \in Stores
  BY <1>1 DEF Before, Stores, NoStore
<1>3. Opened = FoldLeft(Replayed, Before, ToReplay)
  BY Zenon DEF Opened, Before, StoredIndex, StoredDedup, ToReplay
<1> QED
  BY <1>2, <1>3, ReplayAll

\* The file gives what is expected of every particle.
LEMMA ImageComplete ==
  ASSUME disk \in Disks, ToReplay \in Seq(Ops),
         expected \in [Ids -> (SUBSET Dims) \cup {None}],
         Tells(ToReplay, expected), FileTells, NEW id \in Ids
  PROVE  Visible(Opened, id) = expected[id]
<1> DEFINE m == Opened
           n == Len(ToReplay)
<1> SUFFICES Visible(m, id) = expected[id]
  OBVIOUS
<1>1. Before \in Stores /\ ReplayIs(m, Before, ToReplay, n)
  BY OpenedIs
<1>2. Before.store = NoStore /\ Before.index = StoredIndex
  BY DEF Before
<1>3. ~ IsLeaf(0)
  BY DEF IsLeaf, Page, NoPage
<1>4. \A k \in 1 .. n : ToReplay[k] \in Ops
  OBVIOUS
<1> HIDE DEF m
<1>5. CASE id \in Touched
  <2>1. PICK k \in 1 .. n : ToReplay[k].id = id /\ LastOf(ToReplay, n, k)
    BY <1>5, LastExists DEF Touched
  <2> DEFINE op == ToReplay[k]
  <2>2. expected[id] = Outcome(op)
    BY <2>1 DEF Tells
  <2>3. m.store[id] = Outcome(op)
    BY <1>1, <2>1 DEF ReplayIs
  <2>4. op \in Ops /\ op.id = id
    BY <1>4, <2>1
  <2>5. op.op = "delete" => m.index[id] = 0
    BY <1>1, <2>1 DEF ReplayIs
  <2> HIDE DEF op
  <2>6. CASE op.op = "delete"
    BY <1>3, <2>2, <2>3, <2>5, <2>6 DEF Outcome, Visible
  <2>7. CASE op.op # "delete"
    <3>1. Outcome(op) # None
      BY <2>4, <2>7, PersistAssumption DEF Ops, WriteOp, DeleteOp, Outcome
    <3> QED
      BY <2>2, <2>3, <3>1 DEF Visible
  <2> QED
    BY <2>6, <2>7
<1>6. CASE id \notin Touched
  <2>1. \A k \in 1 .. n : ToReplay[k].id # id
    BY <1>6 DEF Touched, IdsOf
  <2>2. m.store[id] = None /\ m.index[id] = StoredIndex[id]
    BY <1>1, <1>2, <2>1 DEF ReplayIs, NoStore
  <2>3. CASE expected[id] = None
    BY <1>3, <1>6, <2>2, <2>3 DEF FileTells, Visible
  <2>4. CASE expected[id] # None
    BY <1>6, <2>2, <2>4 DEF FileTells, Visible
  <2> QED
    BY <2>3, <2>4
<1> QED
  BY <1>5, <1>6

\* What the log and the file together hold is the whole of the first session.
LEMMA TrackedComplete == PersistInv /\ CrashInv => CrashImageComplete
<1> SUFFICES ASSUME PersistInv, CrashInv, opens = 1, failures = {}, NEW id \in Ids
             PROVE  Visible(Opened, id) = expected[id]
  BY DEF CrashImageComplete
<1>1. Tracked
  BY DEF CrashInv
<1>2. /\ disk \in Disks /\ ToReplay \in Seq(Ops) /\ FileTells
      /\ expected \in [Ids -> (SUBSET Dims) \cup {None}]
  <2>1. CASE Running
    <3>1. Sound /\ Steady
      BY <1>1, <2>1, SoundIsSteady DEF PersistInv, Undamaged, Tracked
    <3>2. FileTells
      BY <1>1, <2>1, <3>1, FileTellsRunning
    <3>3. ToReplay \in Seq(Ops)
      BY <1>1, <2>1, CodecHolds, Codec!JournaledRecovers DEF Tracked, LogGood
    <3> QED
      BY <3>1, <3>2, <3>3 DEF Sound, Live, PersistTypes, Disks
  <2>2. CASE ~ Running
    BY <1>1, <2>2 DEF Tracked
  <2> QED
    BY <2>1, <2>2
<1> QED
  BY <1>1, <1>2, ImageComplete DEF Tracked

\* At every step of the first session, and when it has ended in whatever way,
\* a process that opens the file finds exactly what was acknowledged.  TablesFit
\* is essential: the tables take one block each, and a longer one, written block
\* by block, may be cut off half-way in its own place (SyncedAreFound of Chains).
THEOREM CrashImageIsComplete == Spec => []CrashImageComplete
<1>1. Init => CrashInv
  BY InitTracked
<1>2. PersistInv /\ CrashInv /\ [Next]_vars => CrashInv'
  BY StepTracked
<1>3. PersistInv /\ CrashInv => CrashImageComplete
  BY TrackedComplete
<1> QED
  BY <1>1, <1>2, <1>3, PersistInvariant, PTL DEF Spec

-----------------------------------------------------------------------------
(* Leaves on their own *)

\* The block of id's leaf is named by nothing else in m.
Alone(m, pages, id) ==
  LET b == m.index[id]
  IN  /\ b \notin {m.sb.index, m.sb.dedup}
      /\ \A i \in Ids \ {id} : m.index[i] # b
      /\ \A i \in Ids : m.index[i] # 0 /\ pages[m.index[i]].kind = "leaf" =>
           \A d \in Dims : pages[m.index[i]].at[d] # b
      /\ \A d \in Dims : m.dedup[d].block # b

\* What the log does not touch is on its own in the file, so that the replay of
\* a deletion gives up no leaf of another particle.
Apart ==
  \A id \in Ids \ Touched : FileImage.index[id] # 0 =>
    FileImage.index[id] \in FileImage.used /\ Alone(FileImage, disk.pages, id)

\* The states of a sync in which the leaves it wrote are used in the file.
Mapped == {"index", "index_sb", "dedup", "dedup_sb", "checkpoint", "last_sb", "last_bitmap"}

\* How far the file is behind memory.
InFile ==
  \A id \in Ids : mem.index[id] # 0 /\ (id \notin Touched \/ pc \in Mapped) =>
    mem.index[id] \in disk.used

DedupBehind ==
  \/ disk.sb.dedup = mem.sb.dedup
  \/ pc = "dedup_sb"
  \/ pc \in {"checkpoint", "last_sb"} /\ mem.dedup = NoDedup

FileKinds ==
  /\ disk.sb.index # 0 => disk.pages[disk.sb.index].kind = "index"
  /\ disk.sb.dedup # 0 => disk.pages[disk.sb.dedup].kind = "dedup"

Known == \A id \in Ids : expected[id] \in Contents \cup {None}

Behind == InFile /\ DedupBehind /\ FileKinds /\ Known

ApartInv == opens = 1 /\ failures = {} => Apart /\ (Running => Behind)

\* The leaves of a good image are.
LEMMA ImageAlone ==
  ASSUME NEW m, NEW pages, NEW held, Image(m, pages, held), NEW id \in Ids, m.index[id] # 0
  PROVE  /\ m.index[id] \in m.used
         /\ pages[m.index[id]].kind = "leaf" /\ pages[m.index[id]].id = id
         /\ Alone(m, pages, id)
<1> DEFINE b == m.index[id]
<1>1. b \in m.used /\ pages[b].kind = "leaf" /\ pages[b].id = id
  BY DEF Image, Leaves
<1>2. b \notin {m.sb.index, m.sb.dedup}
  <2>1. pages[b].kind # "index" /\ pages[b].kind # "dedup"
    BY <1>1
  <2> QED
    BY <2>1 DEF Image, Tables
<1>3. ASSUME NEW i \in Ids \ {id} PROVE m.index[i] # b
  <2> SUFFICES ASSUME m.index[i] = b PROVE FALSE
    OBVIOUS
  <2>1. pages[b].id = i
    BY DEF Image, Leaves
  <2> QED
    BY <1>1, <2>1
<1>4. \A d \in Dims : m.dedup[d].block # b
  <2> SUFFICES ASSUME NEW d \in Dims, m.dedup[d].block = b PROVE FALSE
    OBVIOUS
  <2>1. pages[b] = DimPage(d)
    BY DEF Image, Shared
  <2> QED
    BY <1>1, <2>1 DEF DimPage
<1>5. ASSUME NEW i \in Ids, m.index[i] # 0, NEW d \in Dims PROVE pages[m.index[i]].at[d] # b
  <2> SUFFICES ASSUME pages[m.index[i]].at[d] = b PROVE FALSE
    OBVIOUS
  <2>1. m.dedup[d].block = b
    BY <1>5 DEF Image, Leaves
  <2> QED
    BY <1>4, <2>1
<1> HIDE DEF b
<1> QED
  BY <1>1, <1>2, <1>3, <1>4, <1>5 DEF Alone, b

\* One step of the first session: the tables in the file stay as they are, or
\* become those of memory.
LEMMA ApartNext ==
  ASSUME Sound', Tracked', Running', Behind', Apart,
         StoredIndex' = mem'.index \/ (StoredIndex' = StoredIndex /\ Touched \subseteq Touched'),
         \/ StoredDedup' = mem'.dedup
         \/ /\ StoredDedup' = StoredDedup /\ Touched \subseteq Touched'
            /\ \A id \in Ids \ Touched : StoredIndex'[id] = StoredIndex[id],
         \A i \in Ids : StoredIndex[i] # 0 =>
           \/ disk'.pages[StoredIndex[i]] = disk.pages[StoredIndex[i]]
           \/ disk'.pages[StoredIndex[i]].kind # "leaf"
           \/ \A d \in Dims : disk'.pages[StoredIndex[i]].at[d] \in {0, mem'.dedup[d].block}
  PROVE  Apart'
<1> DEFINE file == FileImage
<1>1. /\ file.index = StoredIndex /\ file.dedup = StoredDedup /\ file.used = disk.used
      /\ file.sb = disk.sb
      /\ file'.index = StoredIndex' /\ file'.dedup = StoredDedup' /\ file'.used = disk'.used
      /\ file'.sb = disk'.sb
  BY DEF FileImage, StoredIndex, StoredDedup
<1>2. Apart' <=> \A id \in Ids \ Touched' : file'.index[id] # 0 =>
                   file'.index[id] \in file'.used /\ Alone(file', disk'.pages, id)
  BY DEF Apart, Alone
<1> HIDE DEF file
<1> SUFFICES ASSUME NEW id \in Ids \ Touched', file'.index[id] # 0
             PROVE  file'.index[id] \in file'.used /\ Alone(file', disk'.pages, id)
  BY <1>2
<1> DEFINE b == file'.index[id]
<1>3. b = mem'.index[id]
  BY <1>1 DEF Tracked, IndexGood
<1>4. PICK held : Image(mem', disk'.pages, held)
  <2>1. Image(mem', disk'.pages, Held')
    BY DEF Sound, Live, StoreGood, Image, Tables, Leaves, Shared, Counted, HoldersOf
  <2> QED
    BY <2>1
<1>5. disk'.pages[b].kind = "leaf" /\ Alone(mem', disk'.pages, id)
  BY <1>3, <1>4, ImageAlone
<1>6. b \in disk'.used
  BY <1>3 DEF Behind, InFile
<1>7. b \notin {disk'.sb.index, disk'.sb.dedup}
  <2>1. disk'.pages[b].kind # "index" /\ disk'.pages[b].kind # "dedup"
    BY <1>5
  <2> QED
    BY <2>1 DEF Behind, FileKinds
<1>8. /\ \A i \in Ids \ {id} : mem'.index[i] # b
      /\ \A i \in Ids : mem'.index[i] # 0 /\ disk'.pages[mem'.index[i]].kind = "leaf" =>
           \A d \in Dims : disk'.pages[mem'.index[i]].at[d] # b
      /\ \A d \in Dims : mem'.dedup[d].block # b
  BY <1>3, <1>5 DEF Alone
<1>9. Touched \subseteq Touched' /\ (\A i \in Ids \ Touched : StoredIndex'[i] = StoredIndex[i]) =>
        /\ file.index[id] = b /\ id \in Ids \ Touched
        /\ \A i \in Ids \ {id} : StoredIndex[i] # b
        /\ \A i \in Ids : StoredIndex[i] # 0 /\ disk.pages[StoredIndex[i]].kind = "leaf" =>
             \A d \in Dims : disk.pages[StoredIndex[i]].at[d] # b
        /\ \A d \in Dims : StoredDedup[d].block # b
  <2> SUFFICES ASSUME Touched \subseteq Touched',
                      \A i \in Ids \ Touched : StoredIndex'[i] = StoredIndex[i]
               PROVE  /\ file.index[id] = b /\ id \in Ids \ Touched
                      /\ \A i \in Ids \ {id} : StoredIndex[i] # b
                      /\ \A i \in Ids : StoredIndex[i] # 0 /\ disk.pages[StoredIndex[i]].kind = "leaf" =>
                           \A d \in Dims : disk.pages[StoredIndex[i]].at[d] # b
                      /\ \A d \in Dims : StoredDedup[d].block # b
    OBVIOUS
  <2>1. file.index[id] = b /\ id \in Ids \ Touched
    BY <1>1
  <2>2. Alone(file, disk.pages, id)
    BY <2>1 DEF Apart, file
  <2> HIDE DEF b
  <2> QED
    BY <1>1, <2>1, <2>2 DEF Alone
<1> HIDE DEF b
<1>10. \A i \in Ids \ {id} : StoredIndex'[i] # b
  BY <1>8, <1>9
<1>11. ASSUME NEW i \in Ids, StoredIndex'[i] # 0, disk'.pages[StoredIndex'[i]].kind = "leaf",
              NEW d \in Dims
       PROVE  disk'.pages[StoredIndex'[i]].at[d] # b
  <2>1. CASE StoredIndex' = mem'.index
    BY <1>8, <1>11, <2>1
  <2>2. CASE StoredIndex' = StoredIndex /\ Touched \subseteq Touched'
    <3>1. CASE disk'.pages[StoredIndex[i]] = disk.pages[StoredIndex[i]]
      BY <1>9, <1>11, <2>2, <3>1
    <3>2. CASE \A e \in Dims : disk'.pages[StoredIndex[i]].at[e] \in {0, mem'.dedup[e].block}
      <4>1. b # 0
        BY DEF b
      <4> QED
        BY <1>8, <2>2, <3>2, <4>1
    <3> QED
      BY <1>11, <2>2, <3>1, <3>2
  <2> QED
    BY <2>1, <2>2
<1>12. \A d \in Dims : StoredDedup'[d].block # b
  BY <1>8, <1>9
<1>13. Alone(file', disk'.pages, id)
  BY <1>1, <1>7, <1>10, <1>11, <1>12 DEF Alone, b
<1> QED
  BY <1>1, <1>6, <1>13 DEF b

\* The dedup table in the file is a matter of one pointer and one page, too.
LEMMA FileDedupSame ==
  ASSUME disk'.sb.dedup = disk.sb.dedup,
         disk.sb.dedup # 0 => disk'.pages[disk.sb.dedup] = disk.pages[disk.sb.dedup]
  PROVE  StoredDedup' = StoredDedup
BY DEF StoredDedup, ReadDedup, Page

\* The dimension that is written next.
LEMMA UnwrittenLeast ==
  ASSUME work # None, Unwritten # {}, work.content \in SUBSET Dims
  PROVE  Min(Unwritten) \in Unwritten /\ Min(Unwritten) \in Dims
<1> DEFINE U == Unwritten
<1>1. U \in SUBSET Nat /\ U # {} /\ U \subseteq Dims
  BY DEF Unwritten, Dims
<1>2. PICK x \in U : \A y \in U : x <= y
  <2> HIDE DEF U
  <2> QED
    BY <1>1, CodecHolds, Codec!LeastExists
<1>3. Min(Unwritten) \in Unwritten
  BY <1>1, <1>2 DEF Min
<1> QED
  BY <1>1, <1>3

\* The calls, which write no page.
LEMMA CallApart ==
  ASSUME Sound', Tracked', Running', Apart, Behind, UNCHANGED disk,
         pc \notin Mapped, pc' \notin Mapped, Touched \subseteq Touched',
         mem'.sb = mem.sb, \A id \in Ids : mem'.index[id] \in {mem.index[id], 0},
         Known'
  PROVE  Apart' /\ Behind'
<1>1. StoredIndex' = StoredIndex /\ StoredDedup' = StoredDedup
  BY FileIndexSame, FileDedupSame
<1>2. disk.sb.dedup = mem.sb.dedup
  BY DEF Behind, DedupBehind, Mapped
<1>3. Behind'
  BY <1>2 DEF Behind, InFile, DedupBehind, FileKinds
<1> QED
  BY <1>1, <1>3, ApartNext

\* A page of a particle: a dimension or the leaf.
LEMMA PageApart ==
  ASSUME Sound, Tracked, Running, Sound', Tracked', Running', Apart, Behind,
         pc = "particles", pc' = "particles", UNCHANGED <<journal, expected>>,
         NEW new \in Blocks, new \notin mem.used, NEW page \in Pages,
         disk' = [disk EXCEPT !.pages[new] = page],
         page.kind = "leaf" => \A d \in Dims : page.at[d] \in {0, mem'.dedup[d].block},
         mem'.sb = mem.sb, \A id \in Ids \ Touched : mem'.index[id] = mem.index[id]
  PROVE  Apart' /\ Behind'
<1>1. Touched' = Touched
  <2>1. ToReplay' = Wal!Recovered(journal')
    BY DEF ToReplay
  <2> QED
    BY <2>1 DEF ToReplay, Touched, IdsOf
<1>2. disk \in Disks /\ mem \in Stores
  BY DEF Sound, Live, PersistTypes, Disks
<1>3. /\ disk'.pages[new] = page /\ disk'.used = disk.used /\ disk'.sb = disk.sb
      /\ \A b \in Blocks : b # new => disk'.pages[b] = disk.pages[b]
  BY <1>2, PageWritten
<1>4. disk.sb.dedup = mem.sb.dedup /\ disk.sb.index = mem.sb.index
  BY DEF Behind, DedupBehind, Tracked, IndexGood
<1>5. /\ disk.sb.index # 0 => disk'.pages[disk.sb.index] = disk.pages[disk.sb.index]
      /\ disk.sb.dedup # 0 => disk'.pages[disk.sb.dedup] = disk.pages[disk.sb.dedup]
  <2>1. /\ disk.sb.index # 0 => disk.sb.index \in mem.used
        /\ disk.sb.dedup # 0 => disk.sb.dedup \in mem.used
    BY <1>4 DEF Sound, Live, StoreGood, Image, Tables
  <2> QED
    BY <1>2, <1>3, <2>1 DEF Stores
<1>6. StoredIndex' = StoredIndex /\ StoredDedup' = StoredDedup
  BY <1>3, <1>5, FileIndexSame, FileDedupSame
<1>7. Behind'
  <2>1. InFile'
    BY <1>1, <1>3 DEF Behind, InFile, Mapped
  <2>2. DedupBehind' /\ FileKinds'
    BY <1>3, <1>4, <1>5 DEF Behind, DedupBehind, FileKinds
  <2> QED
    BY <2>1, <2>2 DEF Behind, Known
<1>8. StoredIndex \in Indexes
  BY <1>2, FileImageTypes DEF FileImage, StoredIndex
<1>9. \A i \in Ids : StoredIndex[i] # 0 =>
           \/ disk'.pages[StoredIndex[i]] = disk.pages[StoredIndex[i]]
           \/ disk'.pages[StoredIndex[i]].kind # "leaf"
           \/ \A d \in Dims : disk'.pages[StoredIndex[i]].at[d] \in {0, mem'.dedup[d].block}
  BY <1>3, <1>8 DEF Indexes, Pointers
<1> QED
  BY <1>1, <1>6, <1>7, <1>9, ApartNext

\* A dimension of the particle being written.
LEMMA DimensionApart ==
  ASSUME Sound, Tracked, Sound', Tracked', Apart, Behind, WriteDimension
  PROVE  Apart' /\ Behind'
<1> DEFINE d == Min(Unwritten)
           new == Allocated(mem)
<1>1. work # None /\ UNCHANGED <<pc, journal, expected>>
  BY DEF WriteDimension, unsynced
<1>2. pc = "particles" /\ pc' = "particles" /\ Running /\ Running'
  BY <1>1 DEF Sound, Live, Lasting, Filed, WorkGood, Running
<1>3. mem \in Stores
  BY DEF Sound, Live, PersistTypes
<1>4. \/ UNCHANGED disk /\ mem' = [mem EXCEPT !.dedup[d].count = @ + 1]
      \/ /\ Free(mem) # {} /\ disk' = [disk EXCEPT !.pages[new] = DimPage(d)]
         /\ mem' = [mem EXCEPT !.used = @ \cup {new}, !.dedup[d] = [block |-> new, count |-> 1]]
  BY DEF WriteDimension
<1>5. d \in Dims
  BY UnwrittenLeast DEF Sound, Live, PersistTypes, WriteDimension
<1> HIDE DEF d, new
<1>6. mem'.index = mem.index /\ mem'.sb = mem.sb
  BY <1>3, <1>4 DEF Stores
<1>7. CASE UNCHANGED disk
  <2>1. Touched' = Touched
    <3>1. ToReplay' = Wal!Recovered(journal')
      BY DEF ToReplay
    <3> QED
      BY <1>1, <3>1 DEF ToReplay, Touched, IdsOf
  <2>2. Known'
    BY <1>1 DEF Behind, Known
  <2> QED
    BY <1>2, <1>6, <1>7, <2>1, <2>2, CallApart DEF Mapped
<1>8. CASE Free(mem) # {} /\ disk' = [disk EXCEPT !.pages[new] = DimPage(d)]
  <2>1. new \in Blocks /\ new \notin mem.used
    BY <1>8, AllocatedIsFree DEF new
  <2>2. DimPage(d) \in Pages /\ DimPage(d).kind # "leaf"
    BY <1>5 DEF DimPage, Pages
  <2> QED
    BY <1>1, <1>2, <1>6, <1>8, <2>1, <2>2, PageApart
<1> QED
  BY <1>4, <1>7, <1>8

\* The leaf of a particle.
LEMMA LeafApart ==
  ASSUME Sound, Tracked, Sound', Tracked', Apart, Behind, WriteLeaf
  PROVE  Apart' /\ Behind'
<1> DEFINE new == Allocated(mem)
           id == work.id
<1>1. /\ work # None /\ Free(mem) # {} /\ UNCHANGED <<pc, journal, expected>>
      /\ mem' = [mem EXCEPT !.used = @ \cup {new}, !.index[id] = new,
                            !.store[id] = work.content]
      /\ disk' = [disk EXCEPT !.pages[new] = LeafPage(id, work.at)]
  BY DEF WriteLeaf, unsynced
<1>2. pc = "particles" /\ pc' = "particles" /\ Running /\ Running'
  BY <1>1 DEF Sound, Live, Lasting, Filed, WorkGood, Running
<1>3. /\ mem \in Stores /\ work.at \in [Dims -> Pointers] /\ id \in Ids
  BY <1>1 DEF Sound, Live, PersistTypes
<1>4. id \in Touched
  BY <1>1, <1>2 DEF Sound, Live, WorkGood, Tracked, LogGood
<1>5. \A d \in Dims : work.at[d] \in {0, mem.dedup[d].block}
  BY <1>1 DEF Sound, Live, WorkGood
<1>6. new \in Blocks /\ new \notin mem.used
  BY <1>1, AllocatedIsFree
<1>7. LeafPage(id, work.at) \in Pages /\ LeafPage(id, work.at).at = work.at
  BY <1>3 DEF LeafPage, Pages
<1> HIDE DEF new, id
<1>8. /\ mem'.sb = mem.sb /\ mem'.dedup = mem.dedup
      /\ mem'.index = [mem.index EXCEPT ![id] = new]
  BY <1>1, <1>3 DEF Stores
<1>9. \A i \in Ids \ Touched : mem'.index[i] = mem.index[i]
  BY <1>3, <1>4, <1>8 DEF Stores, Indexes
<1> QED
  BY <1>1, <1>2, <1>5, <1>6, <1>7, <1>8, <1>9, PageApart

\* Without writing to the log.
LEMMA TouchedSame ==
  ASSUME UNCHANGED journal
  PROVE  Touched' = Touched
<1>1. ToReplay' = Wal!Recovered(journal')
  BY DEF ToReplay
<1> QED
  BY <1>1 DEF ToReplay, Touched, IdsOf

\* The writes of the bitmap.
LEMMA BitmapApart ==
  ASSUME Sound, Tracked, Sound', Tracked', Apart, Behind,
         SyncVolumeBitmap \/ CheckpointSyncBitmap
  PROVE  Apart' /\ Behind'
<1>1. /\ pc \in {"bitmap", "last_bitmap"} /\ pc' \in {"index", "ready", "retry"}
      /\ disk' = [disk EXCEPT !.used = mem.used]
      /\ UNCHANGED <<mem, journal, expected>>
  BY DEF SyncVolumeBitmap, CheckpointSyncBitmap, FlushBitmap, unsynced
<1>2. Running /\ Running' /\ Touched' = Touched
  BY <1>1, TouchedSame DEF Running
<1>3. disk'.pages = disk.pages /\ disk'.used = mem.used /\ disk'.sb = disk.sb
  BY <1>1 DEF Sound, Live, PersistTypes
<1>4. StoredIndex' = StoredIndex /\ StoredDedup' = StoredDedup
  BY <1>3, FileIndexSame, FileDedupSame
<1>5. Image(mem, disk.pages, Held)
  BY <1>2 DEF Sound, Live, StoreGood
<1>6. InFile'
  BY <1>1, <1>3, <1>5 DEF InFile, Image, Leaves
<1>7. DedupBehind' /\ FileKinds' /\ Known'
  BY <1>1, <1>3 DEF Behind, DedupBehind, FileKinds, Known
<1> QED
  BY <1>2, <1>3, <1>4, <1>6, <1>7, ApartNext DEF Behind

\* The writes of the superblock.
LEMMA PointersApart ==
  ASSUME Sound, Tracked, Sound', Tracked', Apart, Behind,
         SyncVolume \/ WriteIndexPointer \/ WriteDedupPointer \/ CheckpointSync
  PROVE  Apart' /\ Behind'
<1>1. /\ \/ pc = "particles" /\ pc' = "bitmap"
         \/ pc = "index_sb" /\ pc' = "dedup"
         \/ pc = "dedup_sb" /\ pc' = "checkpoint"
         \/ pc = "last_sb" /\ pc' = "last_bitmap"
      /\ disk' = [disk EXCEPT !.sb = mem.sb]
      /\ mem' = [mem EXCEPT !.modified = {}] \/ mem' = mem
      /\ UNCHANGED <<journal, expected>>
  BY DEF SyncVolume, WriteIndexPointer, WriteDedupPointer, CheckpointSync, FlushSuperblock,
         unsynced
<1>2. Running /\ Running' /\ Touched' = Touched
  BY <1>1, TouchedSame DEF Running
<1>3. disk'.pages = disk.pages /\ disk'.used = disk.used /\ disk'.sb = mem.sb
  BY <1>1 DEF Sound, Live, PersistTypes
<1>4. mem'.index = mem.index /\ mem'.dedup = mem.dedup /\ mem'.sb = mem.sb
  BY <1>1 DEF Sound, Live, PersistTypes, Stores
<1>5. StoredIndex' = StoredIndex \/ StoredIndex' = mem.index
  <2>1. CASE pc = "index_sb"
    <3>1. ReadIndex(mem.sb.index) = mem.index
      BY <2>1 DEF Sound, Live, Lasting, Filed, Progress, Syncing
    <3>2. StoredIndex' = ReadIndex(mem.sb.index)
      BY <1>3 DEF StoredIndex, ReadIndex, Page
    <3> QED
      BY <3>1, <3>2
  <2>2. CASE pc # "index_sb"
    <3>1. disk'.sb.index = disk.sb.index
      BY <1>2, <1>3, <2>2 DEF Tracked, IndexGood
    <3> QED
      BY <1>3, <3>1, FileIndexSame
  <2> QED
    BY <2>1, <2>2
<1>6. StoredDedup' = StoredDedup \/ StoredDedup' = mem.dedup
  <2>1. CASE disk.sb.dedup = mem.sb.dedup
    BY <1>3, <2>1, FileDedupSame
  <2>2. CASE disk.sb.dedup # mem.sb.dedup
    <3>1. pc \in {"dedup_sb", "last_sb"}
      BY <1>1, <2>2 DEF Behind, DedupBehind
    <3>2. ReadDedup(mem.sb.dedup) = mem.dedup
      BY <3>1 DEF Sound, Live, Lasting, Filed, Progress, Syncing
    <3>3. StoredDedup' = ReadDedup(mem.sb.dedup)
      BY <1>3 DEF StoredDedup, ReadDedup, Page
    <3> QED
      BY <3>2, <3>3
  <2> QED
    BY <2>1, <2>2
<1>7. \A id \in Ids \ Touched : StoredIndex'[id] = StoredIndex[id]
  BY <1>2, <1>5 DEF Tracked, IndexGood
<1>8. Image(mem, disk.pages, Held)
  BY <1>2 DEF Sound, Live, StoreGood
<1>9. InFile'
  BY <1>1, <1>2, <1>3, <1>4 DEF Behind, InFile, Mapped
<1>10. DedupBehind' /\ FileKinds'
  BY <1>3, <1>4, <1>8 DEF DedupBehind, FileKinds, Image, Tables
<1>11. Known'
  BY <1>1 DEF Behind, Known
<1> QED
  BY <1>2, <1>3, <1>4, <1>5, <1>6, <1>7, <1>9, <1>10, <1>11, ApartNext DEF Behind

\* A table written anew, perhaps into the place of the old one.
LEMMA TableApart ==
  ASSUME Sound, Tracked, Sound', Tracked', Apart, Behind, WriteIndex \/ WriteDedup
  PROVE  Apart' /\ Behind'
<1>1. PICK p, page :
        /\ p \in {"index", "dedup"} /\ pc = p /\ TableWritten(p, page)
        /\ p = "index" => page = IndexPage(mem.index) /\ pc' = "index_sb"
        /\ p = "dedup" => page = DedupPage(mem.dedup) /\ pc' = "dedup_sb"
        /\ UNCHANGED <<journal, expected>>
  BY DEF WriteIndex, WriteDedup, unsynced
<1>2. mem \in Stores /\ disk \in Disks
  BY DEF Sound, Live, PersistTypes, Disks
<1>3. page \in Pages /\ page.kind = p /\ p \in {"index", "dedup"}
  BY <1>1, <1>2 DEF IndexPage, DedupPage, Pages, Stores
<1>4. /\ pc = p /\ pc \in Mapped /\ pc' \in Mapped
      /\ p = "index" => pc' = "index_sb"
      /\ p = "dedup" => pc' = "dedup_sb"
      /\ Running /\ Running' /\ pc # "index_sb" /\ pc # "dedup_sb"
      /\ disk.sb.index = mem.sb.index /\ disk.sb.dedup = mem.sb.dedup
      /\ Touched' = Touched
  <2>1. /\ pc = p /\ p \in {"index", "dedup"} /\ Touched' = Touched
        /\ p = "index" => pc' = "index_sb"
        /\ p = "dedup" => pc' = "dedup_sb"
    BY <1>1, TouchedSame
  <2> QED
    BY <1>1, <2>1 DEF Mapped, Running, Tracked, IndexGood, Behind, DedupBehind
<1> DEFINE freed == [mem EXCEPT !.used = @ \ {mem.sb[p]}]
           new == Allocated(freed)
<1>5. /\ Free(freed) # {} /\ disk' = [disk EXCEPT !.pages[new] = page]
      /\ mem' = [freed EXCEPT !.used = @ \cup {new}, !.sb[p] = new]
  BY <1>1 DEF TableWritten
<1>6. new \in Blocks /\ new \notin freed.used
  BY <1>5, AllocatedIsFree
<1>7. /\ freed.used = mem.used \ {mem.sb[p]} /\ freed.dedup = mem.dedup
      /\ freed.index = mem.index /\ freed.sb = mem.sb /\ freed \in Stores
  BY <1>2 DEF Stores
<1> HIDE DEF freed, new
<1>8. mem'.index = mem.index /\ mem'.dedup = mem.dedup /\ mem'.sb = [mem.sb EXCEPT ![p] = new]
  BY <1>5, <1>7 DEF Stores
<1>9. /\ disk'.sb = disk.sb /\ disk'.used = disk.used /\ disk'.pages[new] = page
      /\ \A b \in Blocks : b # new => disk'.pages[b] = disk.pages[b]
  BY <1>2, <1>3, <1>5, <1>6, PageWritten
<1>10. /\ disk.sb.index # 0 => disk.sb.index \in Blocks /\ disk.sb.index \in mem.used
                               /\ disk.pages[disk.sb.index].kind = "index"
       /\ disk.sb.dedup # 0 => disk.sb.dedup \in Blocks /\ disk.sb.dedup \in mem.used
                               /\ disk.pages[disk.sb.dedup].kind = "dedup"
  BY <1>2, <1>4 DEF Sound, Live, StoreGood, Image, Tables, Stores
<1>11. p = "dedup" => disk.sb.index = 0 \/ disk.sb.index # new
  <2> SUFFICES ASSUME p = "dedup", disk.sb.index # 0, disk.sb.index = new PROVE FALSE
    OBVIOUS
  <2>1. mem.sb.dedup = new
    BY <1>6, <1>7, <1>10
  <2> QED
    BY <1>4, <1>10, <2>1
<1>12. p = "index" => disk.sb.dedup = 0 \/ disk.sb.dedup # new
  <2> SUFFICES ASSUME p = "index", disk.sb.dedup # 0, disk.sb.dedup = new PROVE FALSE
    OBVIOUS
  <2>1. mem.sb.index = new
    BY <1>6, <1>7, <1>10
  <2> QED
    BY <1>4, <1>10, <2>1
<1>13. StoredIndex' = StoredIndex \/ StoredIndex' = mem.index
  <2>1. CASE disk.sb.index # 0 /\ disk.sb.index = new
    <3>1. p = "index"
      BY <1>3, <1>11, <2>1
    <3>2. page = IndexPage(mem.index)
      BY <1>1, <3>1
    <3>3. page.kind = "index" /\ page.index = mem.index
      BY <3>2 DEF IndexPage
    <3> QED
      BY <1>9, <2>1, <3>3 DEF StoredIndex, ReadIndex, Page
  <2>2. CASE disk.sb.index # 0 => disk.sb.index # new
    BY <1>9, <1>10, <2>2, FileIndexSame
  <2> QED
    BY <2>1, <2>2
<1>14. StoredDedup' = StoredDedup \/ StoredDedup' = mem.dedup
  <2>1. CASE disk.sb.dedup # 0 /\ disk.sb.dedup = new
    <3>1. p = "dedup"
      BY <1>3, <1>12, <2>1
    <3>2. page = DedupPage(mem.dedup)
      BY <1>1, <3>1
    <3>3. page.kind = "dedup" /\ page.dedup = mem.dedup
      BY <3>2 DEF DedupPage
    <3> QED
      BY <1>9, <2>1, <3>3 DEF StoredDedup, ReadDedup, Page
  <2>2. CASE disk.sb.dedup # 0 => disk.sb.dedup # new
    BY <1>9, <1>10, <2>2, FileDedupSame
  <2> QED
    BY <2>1, <2>2
<1>15. \A id \in Ids \ Touched : StoredIndex'[id] = StoredIndex[id]
  BY <1>4, <1>13 DEF Tracked, IndexGood
<1>16. FileKinds'
  <2>1. disk.sb.index # 0 => disk'.pages[disk.sb.index].kind = "index"
    BY <1>3, <1>9, <1>10, <1>11
  <2>2. disk.sb.dedup # 0 => disk'.pages[disk.sb.dedup].kind = "dedup"
    BY <1>3, <1>9, <1>10, <1>12
  <2> QED
    BY <1>9, <2>1, <2>2 DEF FileKinds
<1>17. DedupBehind'
  <2>1. p = "index" => mem'.sb.dedup = mem.sb.dedup
    <3>1. mem.sb \in Superblocks
      BY <1>2 DEF Stores
    <3> QED
      BY <1>8, <3>1 DEF Superblocks
  <2> QED
    BY <1>3, <1>4, <1>9, <2>1 DEF DedupBehind
<1>18. InFile'
  BY <1>4, <1>8, <1>9 DEF Behind, InFile
<1>19. Known'
  BY <1>1 DEF Behind, Known
<1>20. StoredIndex \in Indexes
  BY <1>2, FileImageTypes DEF FileImage, StoredIndex
<1>21. \A i \in Ids : StoredIndex[i] # 0 =>
           \/ disk'.pages[StoredIndex[i]] = disk.pages[StoredIndex[i]]
           \/ disk'.pages[StoredIndex[i]].kind # "leaf"
  <2>1. page.kind # "leaf"
    BY <1>3
  <2> QED
    BY <1>9, <1>20, <2>1 DEF Indexes, Pointers
<1> QED
  BY <1>4, <1>8, <1>13, <1>14, <1>15, <1>16, <1>17, <1>18, <1>19, <1>21, ApartNext
     DEF Behind

\* An empty dedup table.
LEMMA DropApart ==
  ASSUME Sound, Tracked, Sound', Tracked', Apart, Behind, DropDedup
  PROVE  Apart' /\ Behind'
<1>1. /\ pc = "dedup" /\ pc' = "checkpoint" /\ mem.dedup = NoDedup
      /\ mem' = [mem EXCEPT !.used = @ \ {mem.sb.dedup}, !.sb.dedup = 0]
      /\ UNCHANGED <<disk, journal, expected>>
  BY DEF DropDedup, unsynced
<1>2. Running /\ Running' /\ Touched' = Touched
  BY <1>1, TouchedSame DEF Running
<1>3. mem'.index = mem.index /\ mem'.dedup = NoDedup
  BY <1>1 DEF Sound, Live, PersistTypes, Stores
<1>4. StoredIndex' = StoredIndex /\ StoredDedup' = StoredDedup
  BY <1>1, FileIndexSame, FileDedupSame
<1>5. Behind'
  BY <1>1, <1>2, <1>3 DEF Behind, InFile, DedupBehind, FileKinds, Known, Mapped
<1> QED
  BY <1>1, <1>2, <1>4, <1>5, ApartNext

\* The checkpoint: all of the index counts.  A dedup table that is to go from
\* the file then is one that nothing refers to.
LEMMA CheckpointApart ==
  ASSUME {} \notin Contents, Sound, Tracked, Sound', Tracked', Apart, Behind,
         WriteCheckpoint, log.offset < JournalCells
  PROVE  Apart' /\ Behind'
<1>1. pc = "checkpoint" /\ pc' = "last_sb" /\ UNCHANGED <<mem, disk, expected>>
  BY DEF WriteCheckpoint
<1>2. Running /\ Running'
  BY <1>1 DEF Running
<1>3. /\ ReadIndex(mem.sb.index) = mem.index /\ ReadDedup(mem.sb.dedup) = mem.dedup
      /\ mem.modified = {}
  BY <1>1 DEF Sound, Live, Lasting, Filed, Progress, Syncing
<1>4. StoredIndex' = mem.index
  <2>1. disk.sb.index = mem.sb.index
    BY <1>1, <1>2 DEF Tracked, IndexGood
  <2>2. StoredIndex' = StoredIndex
    BY <1>1, FileIndexSame
  <2> QED
    BY <1>3, <2>1, <2>2 DEF StoredIndex
<1>5. StoredDedup' = StoredDedup
  BY <1>1, FileDedupSame
<1>6. Behind'
  BY <1>1 DEF Behind, InFile, DedupBehind, FileKinds, Known, Mapped
<1>7. CASE disk.sb.dedup = mem.sb.dedup
  <2>1. StoredDedup' = mem.dedup
    BY <1>3, <1>5, <1>7 DEF StoredDedup
  <2> QED
    BY <1>1, <1>2, <1>4, <1>6, <2>1, ApartNext
<1>8. CASE disk.sb.dedup # mem.sb.dedup
  <2>1. mem.dedup = NoDedup
    BY <1>1, <1>8 DEF Behind, DedupBehind
  <2>2. ASSUME NEW id \in Ids, mem.index[id] # 0 PROVE FALSE
    <3>1. expected[id] # None
      BY <1>2, <2>2 DEF Tracked, Undeleted
    <3>2. expected[id] \in Contents /\ expected[id] # {}
      BY <3>1 DEF Behind, Known
    <3>3. Dirty = {}
      BY <1>1, <1>3 DEF Dirty
    <3>4. {d \in Dims : disk.pages[mem.index[id]].at[d] # 0} = expected[id]
      BY <1>2, <3>1, <3>3 DEF Sound, Live, StoreGood, Saved
    <3>5. PICK d \in Dims : disk.pages[mem.index[id]].at[d] # 0
      BY <3>2, <3>4
    <3>6. mem.dedup[d].block # 0
      BY <1>2, <2>2, <3>5 DEF Sound, Live, StoreGood, Image, Leaves
    <3> QED
      BY <2>1, <3>6 DEF NoDedup
  <2>3. FileImage'.index = StoredIndex'
    BY DEF FileImage, StoredIndex
  <2>4. \A id \in Ids : FileImage'.index[id] = 0
    BY <1>4, <2>2, <2>3
  <2>5. Apart'
    BY <2>4 DEF Apart
  <2> QED
    BY <1>6, <2>5
<1> QED
  BY <1>7, <1>8

\* Without writing to the file.
LEMMA ApartSame ==
  ASSUME Apart, UNCHANGED <<disk, journal>>
  PROVE  Apart'
<1>1. StoredIndex' = StoredIndex /\ StoredDedup' = StoredDedup /\ Touched' = Touched
  BY FileIndexSame, FileDedupSame, TouchedSame
<1>2. FileImage' = FileImage
  BY <1>1 DEF FileImage, StoredIndex, StoredDedup
<1> QED
  BY <1>1, <1>2 DEF Apart, Alone

\* Only what ends a session ends it.
LEMMA OnlyGone ==
  ASSUME Next, Running, ~ Running'
  PROVE  Close \/ Crash
<1> SUFFICES ASSUME ~ Close, ~ Crash PROVE FALSE
  OBVIOUS
<1>1. pc # "closed" /\ pc' = "closed"
  BY DEF Running
<1>2. ~ (\E id \in Ids, c \in Contents : Write(id, c) \/ WriteFull(id, c))
  BY <1>1 DEF Write, WriteFull, LoggedWrite
<1>3. ~ (\E id \in Ids : LoadParticle(id) \/ BeginParticle(id) \/ Delete(id))
  BY <1>1 DEF LoadParticle, BeginParticle, Delete
<1>4. ~ (SyncBegin \/ WriteDimension \/ WriteLeaf \/ LeafTooLarge \/ SyncVolume
         \/ SyncVolumeBitmap \/ WriteIndex \/ WriteIndexPointer)
  BY <1>1 DEF SyncBegin, WriteDimension, WriteLeaf, LeafTooLarge, SyncVolume, SyncVolumeBitmap, WriteIndex,
              WriteIndexPointer, FlushSuperblock, FlushBitmap
<1>5. ~ (WriteDedup \/ DropDedup \/ WriteDedupPointer \/ WriteCheckpoint \/ CheckpointSync
         \/ CheckpointSyncBitmap \/ SyncFails \/ Retry)
  BY <1>1 DEF WriteDedup, DropDedup, WriteDedupPointer, WriteCheckpoint, CheckpointSync,
              CheckpointSyncBitmap, SyncFails, Retry, LoggedWrite, FlushSuperblock, FlushBitmap
<1>6. ~ Opening
  BY <1>1 DEF Opening, Open
<1> QED
  BY <1>2, <1>3, <1>4, <1>5, <1>6 DEF Next, Step, SyncStep

\* Only an open begins a session, and only a crash is counted as one.
LEMMA OpensStay ==
  ASSUME [Next]_vars, ~ Opening
  PROVE  opens' = opens
BY Zenon
   DEF Next, Step, Write, WriteFull, LoadParticle, SyncBegin, SyncStep, BeginParticle,
       WriteDimension, WriteLeaf, LeafTooLarge, SyncVolume, SyncVolumeBitmap, WriteIndex,
       WriteIndexPointer, WriteDedup, DropDedup, WriteDedupPointer, WriteCheckpoint,
       CheckpointSync, CheckpointSyncBitmap, SyncFails, Retry, Close, Crash, Gone,
       Delete, unsynced, vars

\* Only a close and a crash change what has crashed.
LEMMA CrashesStay ==
  ASSUME [Next]_vars, ~ (Close \/ Crash)
  PROVE  crashes' = crashes
BY Zenon
   DEF Next, Step, Write, WriteFull, LoadParticle, SyncBegin, SyncStep, BeginParticle,
       WriteDimension, WriteLeaf, LeafTooLarge, SyncVolume, SyncVolumeBitmap, WriteIndex,
       WriteIndexPointer, WriteDedup, DropDedup, WriteDedupPointer, WriteCheckpoint,
       CheckpointSync, CheckpointSyncBitmap, SyncFails, Retry, Opening, Open,
       Delete, unsynced, vars

\* Without a process only an open is possible.
LEMMA NothingElse ==
  ASSUME pc = "closed", work = None, [Next]_vars, ~ Opening
  PROVE  UNCHANGED vars
BY Zenon
   DEF Next, Step, Write, WriteFull, Called, LoadParticle, SyncBegin, SyncStep, BeginParticle,
       WriteDimension, WriteLeaf, LeafTooLarge, SyncVolume, SyncVolumeBitmap, WriteIndex,
       WriteIndexPointer, WriteDedup, DropDedup, WriteDedupPointer, WriteCheckpoint,
       CheckpointSync, CheckpointSyncBitmap, SyncFails, Retry, Close, Crash, Gone,
       Delete, FlushSuperblock, FlushBitmap

\* A new volume.
LEMMA InitApart == Init => ApartInv
<1> SUFFICES ASSUME Init PROVE Apart /\ Behind
  BY DEF ApartInv
<1>1. /\ mem.index = NoIndex /\ mem.sb = NullPointers /\ disk.sb = NullPointers
      /\ pc = "ready" /\ expected = NoStore
  BY DEF Init
<1>2. FileImage.index = NoIndex
  BY <1>1 DEF FileImage, ReadIndex, Page, NoPage, NullPointers
<1>3. Apart
  BY <1>2 DEF Apart, NoIndex
<1>4. Behind
  BY <1>1 DEF Behind, InFile, DedupBehind, FileKinds, Known, NoIndex, NoStore, NullPointers
<1> QED
  BY <1>3, <1>4

\* A write that is logged.
LEMMA WriteApart ==
  ASSUME Sound, Tracked, Sound', Tracked', Apart, Behind, pc \in {"ready", "retry"},
         NEW op \in Writes, LoggedWrite(op), UNCHANGED disk
  PROVE  Apart' /\ Behind'
<1>1. /\ pc \notin Mapped /\ pc' \notin Mapped /\ Running /\ Running'
  BY DEF LoggedWrite, Mapped, Running
<1>2. /\ mem' = [mem EXCEPT !.store[op.id] = op.content, !.modified = @ \cup {op.id}]
      /\ expected' = [expected EXCEPT ![op.id] = op.content]
      /\ Fits(op) /\ Logged(op)
  BY DEF LoggedWrite
<1>3. op \in Ops /\ op.content \in Contents /\ op.id \in Ids
  BY DEF Writes, Ops, WriteOp
<1>4. mem'.index = mem.index /\ mem'.sb = mem.sb
  BY <1>2 DEF Sound, Live, PersistTypes, Stores
<1>5. Known'
  <2>1. expected \in [Ids -> (SUBSET Dims) \cup {None}]
    BY DEF Sound, Live, PersistTypes
  <2> QED
    BY <1>2, <1>3, <2>1 DEF Behind, Known
<1>6. Touched \subseteq Touched'
  <2>1. ToReplay' = Append(ToReplay, op) /\ ToReplay \in Seq(Ops)
    BY <1>1, <1>2, <1>3, LogAppends, SoundIsSteady DEF Tracked, LogGood
  <2>2. Touched' = IdsOf(ToReplay')
    BY DEF Touched, IdsOf
  <2> QED
    BY <1>3, <2>1, <2>2, IdsAppended DEF Touched
<1> QED
  BY <1>1, <1>4, <1>5, <1>6, CallApart

\* A delete that is logged.
LEMMA DeleteApart ==
  ASSUME Sound, Tracked, Sound', Tracked', Apart, Behind,
         NEW id \in Ids, Delete(id), Fits(DeleteOp(id))
  PROVE  Apart' /\ Behind'
<1> DEFINE op == DeleteOp(id)
<1>1. /\ pc = "ready" /\ pc' = "ready" /\ mem' = Deleted(mem, id)
      /\ expected' = [expected EXCEPT ![id] = None]
      /\ Logged(op) /\ UNCHANGED disk
  BY DEF Delete, Called
<1>2. /\ pc \notin Mapped /\ pc' \notin Mapped /\ Running /\ Running'
  BY <1>1 DEF Mapped, Running
<1>3. mem \in Stores
  BY DEF Sound, Live, PersistTypes
<1>4. mem'.sb = mem.sb /\ mem'.index = [mem.index EXCEPT ![id] = 0]
  BY <1>1, <1>3, DeletedWithin
<1>5. \A i \in Ids : mem'.index[i] \in {mem.index[i], 0}
  BY <1>3, <1>4 DEF Stores, Indexes
<1>6. op \in Ops /\ op.id = id
  BY DEF Ops, DeleteOp
<1> HIDE DEF op
<1>7. Known'
  BY <1>1 DEF Behind, Known, Sound, Live, PersistTypes
<1>8. Touched \subseteq Touched'
  <2>1. ToReplay' = Append(ToReplay, op) /\ ToReplay \in Seq(Ops)
    BY <1>1, <1>2, <1>6, LogAppends, SoundIsSteady DEF Tracked, LogGood, op
  <2>2. Touched' = IdsOf(ToReplay')
    BY DEF Touched, IdsOf
  <2> QED
    BY <1>6, <2>1, <2>2, IdsAppended DEF Touched
<1> QED
  BY <1>1, <1>2, <1>4, <1>5, <1>7, <1>8, CallApart

\* What neither logs nor writes.
LEMMA ElseApart ==
  ASSUME Sound', Tracked', Running', Apart, Behind, pc \notin Mapped, pc' \notin Mapped,
         UNCHANGED <<disk, journal, expected>>, mem'.index = mem.index, mem'.sb = mem.sb
  PROVE  Apart' /\ Behind'
<1>1. Touched' = Touched
  BY TouchedSame
<1>2. Known'
  BY DEF Behind, Known
<1> QED
  BY <1>1, <1>2, CallApart

\* Every step of the first session, and its end, keeps the leaves in the file on
\* their own.
LEMMA StepApart ==
  ASSUME {} \notin Contents, PersistInv, CrashInv, ApartInv, [Next]_vars,
         PersistInv', CrashInv'
  PROVE  ApartInv'
<1> SUFFICES ASSUME opens' = 1, failures' = {}
             PROVE  Apart' /\ (Running' => Behind')
  BY DEF ApartInv
<1>1. failures \subseteq failures' /\ opens' \in {opens, opens + 1} /\ opens \in Nat \ {0}
      /\ ~ Opening
  BY DamageStays, SessionsCount DEF PersistInv, CrashInv
<1>2. /\ failures = {} /\ Tracked /\ Tracked' /\ Apart /\ (Running => Behind)
      /\ (Running => Sound) /\ (Running' => Sound')
  BY <1>1 DEF CrashInv, ApartInv, PersistInv, Undamaged, Tracked
<1>3. CASE ~ Running
  <2>1. pc = "closed" /\ work = None
    BY <1>2, <1>3 DEF Tracked, Running
  <2>2. UNCHANGED vars
    BY <1>1, <2>1, NothingElse
  <2> QED
    BY <1>2, <1>3, <2>2, ApartSame DEF vars, Running
<1>4. ASSUME Running, ~ Running', Next PROVE Apart' /\ (Running' => Behind')
  <2>1. Close \/ Crash
    BY <1>4, OnlyGone
  <2> QED
    BY <1>2, <1>4, <2>1, ApartSame DEF Close, Crash, Gone
<1>5. ASSUME Running, Running', Next PROVE Apart' /\ Behind'
  <2>1. Sound /\ Sound' /\ Tracked /\ Tracked' /\ Apart /\ Behind /\ mem \in Stores
    BY <1>2, <1>5 DEF Sound, Live, PersistTypes
  <2>2. ASSUME NEW id \in Ids, NEW c \in Contents, Write(id, c) PROVE Apart' /\ Behind'
    BY <2>1, <2>2, WriteApart DEF Write, Called, Writes
  <2>3. ASSUME NEW id \in Ids, NEW c \in Contents, WriteFull(id, c) PROVE Apart' /\ Behind'
    BY <1>5, <2>1, <2>3, ElseApart DEF WriteFull, Called, Mapped
  <2>4. ASSUME NEW id \in Ids, LoadParticle(id) PROVE Apart' /\ Behind'
    <3>1. mem'.index = mem.index /\ mem'.sb = mem.sb
      BY <2>1, <2>4 DEF LoadParticle, Stores
    <3> QED
      BY <1>5, <2>1, <2>4, <3>1, ElseApart DEF LoadParticle, unsynced, Mapped
  <2>5. CASE SyncBegin
    BY <1>5, <2>1, <2>5, ElseApart DEF SyncBegin, Called, Mapped
  <2>6. ASSUME NEW id \in Ids, BeginParticle(id) PROVE Apart' /\ Behind'
    BY <1>5, <2>1, <2>6, ElseApart DEF BeginParticle, unsynced, Mapped
  <2>7. CASE WriteDimension
    BY <2>1, <2>7, DimensionApart
  <2>8. CASE WriteLeaf
    BY <2>1, <2>8, LeafApart
  <2>9. CASE SyncVolume \/ WriteIndexPointer \/ WriteDedupPointer \/ CheckpointSync
    BY <2>1, <2>9, PointersApart
  <2>10. CASE SyncVolumeBitmap \/ CheckpointSyncBitmap
    BY <2>1, <2>10, BitmapApart
  <2>11. CASE WriteIndex \/ WriteDedup
    BY <2>1, <2>11, TableApart
  <2>12. CASE DropDedup
    BY <2>1, <2>12, DropApart
  <2>13. CASE WriteCheckpoint
    <3>1. log.offset < JournalCells
      <4> SUFFICES ASSUME ~ (log.offset < JournalCells) PROVE "overrun" \in failures'
        OBVIOUS
      <4> QED
        BY <2>13 DEF WriteCheckpoint
    <3> QED
      BY <2>1, <2>13, <3>1, CheckpointApart
  <2>14. ~ SyncFails /\ ~ LeafTooLarge
    <3> SUFFICES ASSUME SyncFails \/ LeafTooLarge PROVE "error" \in failures'
      OBVIOUS
    <3> QED
      BY DEF SyncFails, LeafTooLarge
  <2>15. CASE Retry
    <3>1. pending \in Writes /\ pc = "retry" /\ UNCHANGED disk
      BY <2>1, <2>15, PersistAssumption DEF Retry, Sound, Live, PersistTypes
    <3>2. CASE Fits(pending)
      <4>1. LoggedWrite(pending)
        BY <2>15, <3>2 DEF Retry
      <4> QED
        BY <2>1, <3>1, <4>1, WriteApart
    <3>3. CASE ~ Fits(pending)
      <4>1. pc' = "ready" /\ UNCHANGED <<mem, journal, expected>>
        BY <2>15, <3>3 DEF Retry
      <4> QED
        BY <1>5, <2>1, <3>1, <4>1, ElseApart DEF Mapped
    <3> QED
      BY <3>2, <3>3
  <2>16. ~ (Close \/ Crash)
    BY <1>5 DEF Close, Crash, Gone, Running
  <2>17. ASSUME NEW id \in Ids, Delete(id) PROVE Apart' /\ Behind'
    <3>1. Fits(DeleteOp(id))
      <4> SUFFICES ASSUME ~ Fits(DeleteOp(id)) PROVE "error" \in failures'
        OBVIOUS
      <4> QED
        BY <2>17 DEF Delete
    <3> QED
      BY <2>1, <2>17, <3>1, DeleteApart
  <2> QED
    BY <1>1, <1>5, <2>2, <2>3, <2>4, <2>5, <2>6, <2>7, <2>8, <2>9, <2>10, <2>11, <2>12,
       <2>13, <2>14, <2>15, <2>16, <2>17 DEF Next, Step, SyncStep
<1>6. CASE UNCHANGED vars
  <2>1. UNCHANGED <<mem, disk, journal, pc, expected>>
    BY <1>6 DEF vars
  <2>2. Apart' /\ Touched' = Touched /\ Running' = Running
    BY <1>2, <2>1, ApartSame, TouchedSame DEF Running
  <2>3. Behind => Behind'
    BY <2>1, <2>2 DEF Behind, InFile, DedupBehind, FileKinds, Known
  <2> QED
    BY <1>2, <2>2, <2>3
<1> QED
  BY <1>3, <1>4, <1>5, <1>6

-----------------------------------------------------------------------------
(* Leaves that the file's index names *)

\* The particles whose deletion the log holds.
RemovedIn(ops) == {ops[k].id : k \in {j \in 1 .. Len(ops) : ops[j].op = "delete"}}
Removed == RemovedIn(ToReplay)

\* The leaf of a particle in the file's index is one of its own, perhaps an
\* older one than memory names.
LeafStands(id) ==
  LET b == StoredIndex[id]
  IN  /\ disk.pages[b].kind = "leaf" /\ disk.pages[b].id = id
      /\ Running => b \in mem.used

LeavesStand == \A id \in Ids \ Removed : StoredIndex[id] # 0 => LeafStands(id)

StandInv == opens = 1 /\ failures = {} => LeavesStand

\* What one more operation removes.
LEMMA RemovedAppended ==
  ASSUME NEW ops \in Seq(Ops), NEW op \in Ops
  PROVE  /\ RemovedIn(ops) \subseteq RemovedIn(Append(ops, op))
         /\ op.op = "delete" => op.id \in RemovedIn(Append(ops, op))
<1> DEFINE n == Len(ops)
           new == Append(ops, op)
<1>1. /\ n \in Nat /\ Len(new) = n + 1
      /\ \A k \in 1 .. n : new[k] = ops[k]
      /\ new[n + 1] = op
  BY Appended
<1>2. RemovedIn(ops) = {ops[k].id : k \in {j \in 1 .. n : ops[j].op = "delete"}}
      /\ RemovedIn(new) = {new[k].id : k \in {j \in 1 .. Len(new) : new[j].op = "delete"}}
  BY DEF RemovedIn
<1> HIDE DEF n, new
<1>3. ASSUME NEW k \in 1 .. n, ops[k].op = "delete" PROVE ops[k].id \in RemovedIn(new)
  <2>1. k \in 1 .. Len(new) /\ new[k] = ops[k]
    BY <1>1
  <2> QED
    BY <1>2, <1>3, <2>1
<1>4. ASSUME op.op = "delete" PROVE op.id \in RemovedIn(new)
  <2>1. n + 1 \in 1 .. Len(new)
    BY <1>1
  <2> QED
    BY <1>1, <1>2, <1>4, <2>1
<1> QED
  BY <1>2, <1>3, <1>4 DEF new

\* Without writing to the log.
LEMMA RemovedSame ==
  ASSUME UNCHANGED journal
  PROVE  Removed' = Removed
<1>1. ToReplay' = Wal!Recovered(journal')
  BY DEF ToReplay
<1> QED
  BY <1>1 DEF ToReplay, Removed, RemovedIn

\* One step: the file's index becomes that of memory, or stays with its leaves.
LEMMA StandNext ==
  ASSUME Sound', Running', LeavesStand,
         \/ StoredIndex' = mem'.index
         \/ /\ StoredIndex' = StoredIndex /\ Removed \subseteq Removed'
            /\ \A id \in Ids \ Removed' : StoredIndex[id] # 0 /\ LeafStands(id) =>
                 /\ disk'.pages[StoredIndex[id]] = disk.pages[StoredIndex[id]]
                 /\ StoredIndex[id] \in mem'.used
  PROVE  LeavesStand'
<1> SUFFICES ASSUME NEW id \in Ids \ Removed', StoredIndex'[id] # 0
             PROVE  /\ disk'.pages[StoredIndex'[id]].kind = "leaf"
                    /\ disk'.pages[StoredIndex'[id]].id = id
                    /\ StoredIndex'[id] \in mem'.used
  BY DEF LeavesStand, LeafStands
<1>1. CASE StoredIndex' = mem'.index
  <2>1. Image(mem', disk'.pages, Held')
    BY DEF Sound, Live, StoreGood, Image, Tables, Leaves, Shared, Counted, HoldersOf
  <2> QED
    BY <1>1, <2>1, ImageAlone
<1>2. CASE /\ StoredIndex' = StoredIndex /\ Removed \subseteq Removed'
           /\ \A i \in Ids \ Removed' : StoredIndex[i] # 0 /\ LeafStands(i) =>
                /\ disk'.pages[StoredIndex[i]] = disk.pages[StoredIndex[i]]
                /\ StoredIndex[i] \in mem'.used
  <2>1. LeafStands(id)
    BY <1>2 DEF LeavesStand
  <2> QED
    BY <1>2, <2>1 DEF LeafStands
<1> QED
  BY <1>1, <1>2

\* A step that writes no page and frees no block.
LEMMA RestStand ==
  ASSUME Running, Sound', Running', LeavesStand,
         StoredIndex' \in {StoredIndex, mem'.index}, Removed \subseteq Removed',
         disk'.pages = disk.pages, mem.used \subseteq mem'.used
  PROVE  LeavesStand'
<1>1. \A id \in Ids \ Removed' : StoredIndex[id] # 0 /\ LeafStands(id) =>
        /\ disk'.pages[StoredIndex[id]] = disk.pages[StoredIndex[id]]
        /\ StoredIndex[id] \in mem'.used
  BY DEF LeafStands
<1> QED
  BY <1>1, StandNext

\* What writes neither to the file nor to the log.
LEMMA ElseStands ==
  ASSUME Running, Sound', Running', LeavesStand, UNCHANGED <<disk, journal>>,
         mem.used \subseteq mem'.used
  PROVE  LeavesStand'
<1>1. StoredIndex' = StoredIndex /\ Removed' = Removed
  BY FileIndexSame, RemovedSame
<1> QED
  BY <1>1, RestStand

\* Without a process nothing changes.
LEMMA StandSame ==
  ASSUME LeavesStand, UNCHANGED <<disk, journal>>, ~ Running'
  PROVE  LeavesStand'
<1>1. StoredIndex' = StoredIndex /\ Removed' = Removed
  BY FileIndexSame, RemovedSame
<1> QED
  BY <1>1 DEF LeavesStand, LeafStands

\* A write that is logged.
LEMMA WriteStands ==
  ASSUME Sound, Tracked, Sound', LeavesStand, pc \in {"ready", "retry"},
         NEW op \in Writes, LoggedWrite(op), UNCHANGED disk
  PROVE  LeavesStand'
<1>1. Running /\ Running'
  BY DEF LoggedWrite, Running
<1>2. /\ mem' = [mem EXCEPT !.store[op.id] = op.content, !.modified = @ \cup {op.id}]
      /\ Fits(op) /\ Logged(op)
  BY DEF LoggedWrite
<1>3. op \in Ops
  BY DEF Writes, Ops, WriteOp
<1>4. mem'.used = mem.used
  BY <1>2 DEF Sound, Live, PersistTypes, Stores
<1>5. Removed \subseteq Removed'
  <2>1. ToReplay' = Append(ToReplay, op) /\ ToReplay \in Seq(Ops)
    BY <1>1, <1>2, <1>3, LogAppends, SoundIsSteady DEF Tracked, LogGood
  <2>2. Removed' = RemovedIn(ToReplay')
    BY DEF Removed, RemovedIn
  <2> QED
    BY <1>3, <2>1, <2>2, RemovedAppended DEF Removed
<1>6. StoredIndex' = StoredIndex
  BY FileIndexSame
<1> QED
  BY <1>1, <1>4, <1>5, <1>6, RestStand

\* A delete that is logged: it frees a leaf of the particle it removes, and
\* pages that are no leaves.
LEMMA DeleteStands ==
  ASSUME Sound, Tracked, Sound', LeavesStand,
         NEW id \in Ids, Delete(id), Fits(DeleteOp(id))
  PROVE  LeavesStand'
<1> DEFINE op == DeleteOp(id)
           leaf == mem.index[id]
<1>1. /\ pc = "ready" /\ pc' = "ready" /\ mem' = Deleted(mem, id)
      /\ Logged(op) /\ UNCHANGED disk
  BY DEF Delete, Called
<1>2. Running /\ Running' /\ mem \in Stores
  BY <1>1 DEF Running, Sound, Live, PersistTypes
<1>3. mem.used \ GivenUp(leaf) \subseteq mem'.used
  BY <1>1, <1>2, DeletedWithin
<1>4. op \in Ops /\ op.id = id /\ op.op = "delete"
  BY DEF Ops, DeleteOp
<1>5. Removed \subseteq Removed' /\ id \in Removed'
  <2> HIDE DEF op
  <2>1. ToReplay' = Append(ToReplay, op) /\ ToReplay \in Seq(Ops)
    BY <1>1, <1>2, <1>4, LogAppends, SoundIsSteady DEF Tracked, LogGood, op
  <2>2. Removed' = RemovedIn(ToReplay')
    BY DEF Removed, RemovedIn
  <2> QED
    BY <1>4, <2>1, <2>2, RemovedAppended DEF Removed
<1>6. StoredIndex' = StoredIndex
  BY <1>1, FileIndexSame
<1>7. Image(mem, disk.pages, Held)
  BY <1>2 DEF Sound, Live, StoreGood
<1> HIDE DEF op, leaf
<1>8. ASSUME NEW b, b # 0, disk.pages[b].kind = "leaf", disk.pages[b].id # id
      PROVE  b \notin GivenUp(leaf)
  <2>1. CASE leaf = 0
    BY <1>8, <2>1 DEF GivenUp, IsLeaf, Page, NoPage
  <2>2. CASE leaf # 0
    <3>1. disk.pages[leaf].id = id /\ Page(leaf) = disk.pages[leaf]
      BY <1>7, <2>2, ImageAlone DEF leaf, Page
    <3>2. ASSUME NEW d \in Dims, disk.pages[leaf].at[d] = b PROVE FALSE
      <4>1. mem.dedup[d].block = b
        BY <1>7, <1>8, <2>2, <3>2 DEF Image, Leaves, leaf
      <4>2. disk.pages[b] = DimPage(d)
        BY <1>7, <1>8, <4>1 DEF Image, Shared
      <4> QED
        BY <1>8, <4>2 DEF DimPage
    <3> QED
      BY <1>8, <3>1, <3>2 DEF GivenUp
  <2> QED
    BY <2>1, <2>2
<1>9. ASSUME NEW i \in Ids \ Removed', StoredIndex[i] # 0, LeafStands(i)
      PROVE  /\ disk'.pages[StoredIndex[i]] = disk.pages[StoredIndex[i]]
             /\ StoredIndex[i] \in mem'.used
  <2>1. i # id
    BY <1>5
  <2>2. StoredIndex[i] \notin GivenUp(leaf) /\ StoredIndex[i] \in mem.used
    BY <1>2, <1>8, <1>9, <2>1 DEF LeafStands
  <2> QED
    BY <1>1, <1>3, <2>2
<1> QED
  BY <1>2, <1>5, <1>6, <1>9, StandNext

\* A page of a particle, written into a free block.
LEMMA PageStands ==
  ASSUME Sound, Tracked, Running, Sound', Running', LeavesStand, pc = "particles",
         UNCHANGED journal, NEW new \in Blocks, new \notin mem.used, NEW page \in Pages,
         disk' = [disk EXCEPT !.pages[new] = page], mem.used \subseteq mem'.used
  PROVE  LeavesStand'
<1>1. disk \in Disks /\ mem \in Stores
  BY DEF Sound, Live, PersistTypes, Disks
<1>2. \A b \in Blocks : b # new => disk'.pages[b] = disk.pages[b]
  BY <1>1, PageWritten
<1>3. StoredIndex' = StoredIndex /\ Removed' = Removed
  BY IndexPageKept, SoundIsSteady, RemovedSame
<1>4. \A id \in Ids \ Removed' : StoredIndex[id] # 0 /\ LeafStands(id) =>
        /\ disk'.pages[StoredIndex[id]] = disk.pages[StoredIndex[id]]
        /\ StoredIndex[id] \in mem'.used
  BY <1>1, <1>2 DEF LeafStands, Stores
<1> QED
  BY <1>3, <1>4, StandNext

\* A dimension or the leaf of the particle being written.
LEMMA ParticleStands ==
  ASSUME Sound, Tracked, Sound', LeavesStand, WriteDimension \/ WriteLeaf
  PROVE  LeavesStand'
<1> DEFINE d == Min(Unwritten)
           new == Allocated(mem)
<1>1. work # None /\ UNCHANGED <<pc, journal>>
  BY DEF WriteDimension, WriteLeaf, unsynced
<1>2. pc = "particles" /\ pc' = "particles" /\ Running /\ Running'
  BY <1>1 DEF Sound, Live, Lasting, Filed, WorkGood, Running
<1>3. /\ mem \in Stores /\ work.at \in [Dims -> Pointers] /\ work.id \in Ids
  BY <1>1 DEF Sound, Live, PersistTypes
<1>4. CASE WriteDimension
  <2>1. \/ UNCHANGED disk /\ mem' = [mem EXCEPT !.dedup[d].count = @ + 1]
        \/ /\ Free(mem) # {} /\ disk' = [disk EXCEPT !.pages[new] = DimPage(d)]
           /\ mem' = [mem EXCEPT !.used = @ \cup {new}, !.dedup[d] = [block |-> new, count |-> 1]]
    BY <1>4 DEF WriteDimension
  <2>2. d \in Dims
    BY <1>4, UnwrittenLeast DEF Sound, Live, PersistTypes, WriteDimension
  <2> HIDE DEF d, new
  <2>3. mem.used \subseteq mem'.used
    BY <1>3, <2>1 DEF Stores
  <2>4. CASE UNCHANGED disk
    BY <1>1, <1>2, <2>3, <2>4, ElseStands
  <2>5. CASE Free(mem) # {} /\ disk' = [disk EXCEPT !.pages[new] = DimPage(d)]
    <3>1. new \in Blocks /\ new \notin mem.used
      BY <2>5, AllocatedIsFree DEF new
    <3>2. DimPage(d) \in Pages
      BY <2>2 DEF DimPage, Pages
    <3> QED
      BY <1>1, <1>2, <2>3, <2>5, <3>1, <3>2, PageStands
  <2> QED
    BY <2>1, <2>4, <2>5
<1>5. CASE WriteLeaf
  <2>1. /\ Free(mem) # {}
        /\ mem' = [mem EXCEPT !.used = @ \cup {new}, !.index[work.id] = new,
                              !.store[work.id] = work.content]
        /\ disk' = [disk EXCEPT !.pages[new] = LeafPage(work.id, work.at)]
    BY <1>5 DEF WriteLeaf
  <2>2. new \in Blocks /\ new \notin mem.used
    BY <2>1, AllocatedIsFree
  <2>3. LeafPage(work.id, work.at) \in Pages
    BY <1>3 DEF LeafPage, Pages
  <2> HIDE DEF new
  <2>4. mem.used \subseteq mem'.used
    BY <1>3, <2>1 DEF Stores
  <2> QED
    BY <1>1, <1>2, <2>1, <2>2, <2>3, <2>4, PageStands
<1> QED
  BY <1>4, <1>5

\* The writes of the superblock and of the bitmap.
LEMMA FlushStands ==
  ASSUME Sound, Tracked, Sound', LeavesStand,
         \/ SyncVolume \/ SyncVolumeBitmap \/ WriteIndexPointer \/ WriteDedupPointer
         \/ CheckpointSync \/ CheckpointSyncBitmap
  PROVE  LeavesStand'
<1>1. /\ \/ disk' = [disk EXCEPT !.sb = mem.sb] \/ disk' = [disk EXCEPT !.used = mem.used]
      /\ mem' = [mem EXCEPT !.modified = {}] \/ mem' = mem
      /\ pc # "closed" /\ pc' # "closed" /\ UNCHANGED journal
  BY DEF SyncVolume, SyncVolumeBitmap, WriteIndexPointer, WriteDedupPointer, CheckpointSync,
         CheckpointSyncBitmap, FlushSuperblock, FlushBitmap, unsynced
<1>2. Running /\ Running' /\ Removed' = Removed
  BY <1>1, RemovedSame DEF Running
<1>3. mem \in Stores /\ disk \in Disks
  BY DEF Sound, Live, PersistTypes, Disks
<1>4. /\ disk'.pages = disk.pages /\ disk'.sb \in {disk.sb, mem.sb}
      /\ mem'.index = mem.index /\ mem'.used = mem.used
  BY <1>1, <1>3 DEF Stores, Disks
<1>5. StoredIndex' = StoredIndex \/ StoredIndex' = mem.index
  <2>1. CASE pc = "index_sb" /\ disk'.sb = mem.sb
    <3>1. ReadIndex(mem.sb.index) = mem.index
      BY <2>1 DEF Sound, Live, Lasting, Filed, Progress, Syncing
    <3>2. StoredIndex' = ReadIndex(mem.sb.index)
      BY <1>4, <2>1 DEF StoredIndex, ReadIndex, Page
    <3> QED
      BY <3>1, <3>2
  <2>2. CASE pc # "index_sb" \/ disk'.sb = disk.sb
    <3>1. disk'.sb.index = disk.sb.index
      BY <1>2, <1>4, <2>2 DEF Tracked, IndexGood
    <3> QED
      BY <1>4, <3>1, FileIndexSame
  <2> QED
    BY <1>4, <2>1, <2>2
<1> QED
  BY <1>2, <1>4, <1>5, RestStand

\* A table written anew, perhaps into the place of the old one, which is no leaf.
LEMMA TableStands ==
  ASSUME Sound, Tracked, Sound', LeavesStand, WriteIndex \/ WriteDedup
  PROVE  LeavesStand'
<1>1. PICK p, page :
        /\ p \in {"index", "dedup"} /\ pc = p /\ TableWritten(p, page)
        /\ p = "index" => page = IndexPage(mem.index)
        /\ p = "dedup" => page = DedupPage(mem.dedup)
        /\ pc' # "closed" /\ UNCHANGED journal
  BY DEF WriteIndex, WriteDedup, unsynced
<1>2. mem \in Stores /\ disk \in Disks
  BY DEF Sound, Live, PersistTypes, Disks
<1>3. page \in Pages /\ p \in {"index", "dedup"}
  BY <1>1, <1>2 DEF IndexPage, DedupPage, Pages, Stores
<1>4. /\ Running /\ Running' /\ pc # "index_sb" /\ Removed' = Removed
      /\ disk.sb.index = mem.sb.index
  <2>1. pc \in {"index", "dedup"}
    BY <1>1
  <2> QED
    BY <1>1, <2>1, RemovedSame DEF Running, Tracked, IndexGood
<1> DEFINE freed == [mem EXCEPT !.used = @ \ {mem.sb[p]}]
           new == Allocated(freed)
<1>5. /\ Free(freed) # {} /\ disk' = [disk EXCEPT !.pages[new] = page]
      /\ mem' = [freed EXCEPT !.used = @ \cup {new}, !.sb[p] = new]
  BY <1>1 DEF TableWritten
<1>6. new \in Blocks /\ new \notin freed.used
  BY <1>5, AllocatedIsFree
<1>7. /\ freed.used = mem.used \ {mem.sb[p]} /\ freed.index = mem.index /\ freed \in Stores
  BY <1>2 DEF Stores
<1> HIDE DEF freed, new
<1>8. mem'.index = mem.index /\ mem'.used = freed.used \cup {new}
  BY <1>5, <1>7 DEF Stores
<1>9. /\ disk'.sb = disk.sb /\ disk'.pages[new] = page
      /\ \A b \in Blocks : b # new => disk'.pages[b] = disk.pages[b]
  BY <1>2, <1>3, <1>5, <1>6, PageWritten
<1>10. /\ mem.sb.index # 0 => mem.sb.index \in Blocks /\ mem.sb.index \in mem.used
                               /\ disk.pages[mem.sb.index].kind = "index"
       /\ mem.sb.dedup # 0 => disk.pages[mem.sb.dedup].kind = "dedup"
  BY <1>2, <1>4 DEF Sound, Live, StoreGood, Image, Tables, Stores
<1>11. StoredIndex' = StoredIndex \/ StoredIndex' = mem.index
  <2>1. CASE disk.sb.index # 0 /\ disk.sb.index = new
    <3>1. p = "index"
      <4> SUFFICES ASSUME p = "dedup" PROVE FALSE
        BY <1>3
      <4>1. mem.sb.dedup = new
        BY <1>4, <1>6, <1>7, <1>10, <2>1
      <4> QED
        BY <1>4, <1>10, <2>1, <4>1
    <3>2. page = IndexPage(mem.index)
      BY <1>1, <3>1
    <3>3. page.kind = "index" /\ page.index = mem.index
      BY <3>2 DEF IndexPage
    <3> QED
      BY <1>9, <2>1, <3>3 DEF StoredIndex, ReadIndex, Page
  <2>2. CASE disk.sb.index # 0 => disk.sb.index # new
    BY <1>4, <1>9, <1>10, <2>2, FileIndexSame
  <2> QED
    BY <2>1, <2>2
<1>12. ASSUME NEW id \in Ids \ Removed', StoredIndex[id] # 0, LeafStands(id)
       PROVE  /\ disk'.pages[StoredIndex[id]] = disk.pages[StoredIndex[id]]
              /\ StoredIndex[id] \in mem'.used
  <2> DEFINE b == StoredIndex[id]
  <2>1. disk.pages[b].kind = "leaf" /\ b \in mem.used /\ b # 0
    BY <1>4, <1>12 DEF LeafStands
  <2> HIDE DEF b
  <2>2. b # mem.sb[p]
    <3>1. b # mem.sb.index /\ b # mem.sb.dedup
      BY <1>10, <2>1
    <3> QED
      BY <1>3, <3>1
  <2>3. b \in freed.used /\ b \in Blocks
    BY <1>2, <1>7, <2>1, <2>2 DEF Stores
  <2>4. b # new
    BY <1>6, <2>3
  <2> QED
    BY <1>8, <1>9, <2>3, <2>4 DEF b
<1> QED
  BY <1>4, <1>8, <1>11, <1>12, StandNext

\* An empty dedup table.
LEMMA DropStands ==
  ASSUME Sound, Tracked, Sound', LeavesStand, DropDedup
  PROVE  LeavesStand'
<1>1. /\ pc = "dedup" /\ pc' = "checkpoint"
      /\ mem' = [mem EXCEPT !.used = @ \ {mem.sb.dedup}, !.sb.dedup = 0]
      /\ UNCHANGED <<disk, journal>>
  BY DEF DropDedup, unsynced
<1>2. Running /\ Running' /\ StoredIndex' = StoredIndex /\ Removed' = Removed
  BY <1>1, FileIndexSame, RemovedSame DEF Running
<1>3. mem'.used = mem.used \ {mem.sb.dedup}
  BY <1>1 DEF Sound, Live, PersistTypes, Stores
<1>4. mem.sb.dedup # 0 => disk.pages[mem.sb.dedup].kind = "dedup"
  BY <1>2 DEF Sound, Live, StoreGood, Image, Tables
<1>5. \A id \in Ids \ Removed' : StoredIndex[id] # 0 /\ LeafStands(id) =>
        /\ disk'.pages[StoredIndex[id]] = disk.pages[StoredIndex[id]]
        /\ StoredIndex[id] \in mem'.used
  BY <1>1, <1>2, <1>3, <1>4 DEF LeafStands
<1> QED
  BY <1>2, <1>5, StandNext

\* The checkpoint takes the deletions out of the log when the file's index is
\* that of memory.
LEMMA CheckpointStands ==
  ASSUME Sound, Tracked, Sound', LeavesStand, WriteCheckpoint, log.offset < JournalCells
  PROVE  LeavesStand'
<1>1. pc = "checkpoint" /\ pc' = "last_sb" /\ UNCHANGED <<mem, disk>>
  BY DEF WriteCheckpoint
<1>2. Running /\ Running' /\ pc # "index_sb"
  BY <1>1 DEF Running
<1>3. ReadIndex(mem.sb.index) = mem.index
  BY <1>1 DEF Sound, Live, Lasting, Filed, Progress, Syncing
<1>4. StoredIndex' = mem'.index
  <2>1. disk.sb.index = mem.sb.index
    BY <1>2 DEF Tracked, IndexGood
  <2>2. StoredIndex' = StoredIndex
    BY <1>1, FileIndexSame
  <2> QED
    BY <1>1, <1>3, <2>1, <2>2 DEF StoredIndex
<1> QED
  BY <1>2, <1>4, StandNext

\* A new volume.
LEMMA InitStands == Init => StandInv
<1> SUFFICES ASSUME Init PROVE LeavesStand
  BY DEF StandInv
<1>1. StoredIndex = NoIndex
  BY DEF Init, StoredIndex, ReadIndex, Page, NoPage, NullPointers
<1> QED
  BY <1>1 DEF LeavesStand, NoIndex

\* Every step of the first session, and its end, keeps the leaves of the file's
\* index.
LEMMA StepStand ==
  ASSUME PersistInv, CrashInv, StandInv, [Next]_vars, PersistInv', CrashInv'
  PROVE  StandInv'
<1> SUFFICES ASSUME opens' = 1, failures' = {}
             PROVE  LeavesStand'
  BY DEF StandInv
<1>1. failures \subseteq failures' /\ opens' \in {opens, opens + 1} /\ opens \in Nat \ {0}
      /\ ~ Opening
  BY DamageStays, SessionsCount DEF PersistInv, CrashInv
<1>2. /\ failures = {} /\ Tracked /\ Tracked' /\ LeavesStand
      /\ (Running => Sound) /\ (Running' => Sound')
  BY <1>1 DEF CrashInv, StandInv, PersistInv, Undamaged, Tracked
<1>3. CASE ~ Running
  <2>1. pc = "closed" /\ work = None
    BY <1>2, <1>3 DEF Tracked, Running
  <2>2. UNCHANGED vars
    BY <1>1, <2>1, NothingElse
  <2>3. UNCHANGED <<disk, journal>> /\ ~ Running'
    BY <1>3, <2>2 DEF vars, Running
  <2> QED
    BY <1>2, <2>3, StandSame
<1>4. ASSUME Running, ~ Running', Next PROVE LeavesStand'
  <2>1. Close \/ Crash
    BY <1>4, OnlyGone
  <2>2. UNCHANGED <<disk, journal>>
    BY <2>1 DEF Close, Crash, Gone
  <2> QED
    BY <1>2, <1>4, <2>2, StandSame
<1>5. ASSUME Running, Running', Next PROVE LeavesStand'
  <2>1. Sound /\ Sound' /\ Tracked /\ LeavesStand /\ mem \in Stores
    BY <1>2, <1>5 DEF Sound, Live, PersistTypes
  <2>2. ASSUME NEW id \in Ids, NEW c \in Contents, Write(id, c) PROVE LeavesStand'
    BY <2>1, <2>2, WriteStands DEF Write, Called, Writes
  <2>3. ASSUME NEW id \in Ids, NEW c \in Contents, WriteFull(id, c) PROVE LeavesStand'
    BY <1>5, <2>1, <2>3, ElseStands DEF WriteFull
  <2>4. ASSUME NEW id \in Ids, LoadParticle(id) PROVE LeavesStand'
    <3>1. mem'.used = mem.used
      BY <2>1, <2>4 DEF LoadParticle, Stores
    <3> QED
      BY <1>5, <2>1, <2>4, <3>1, ElseStands DEF LoadParticle, unsynced
  <2>5. CASE SyncBegin
    BY <1>5, <2>1, <2>5, ElseStands DEF SyncBegin
  <2>6. ASSUME NEW id \in Ids, BeginParticle(id) PROVE LeavesStand'
    BY <1>5, <2>1, <2>6, ElseStands DEF BeginParticle, unsynced
  <2>7. CASE WriteDimension \/ WriteLeaf
    BY <2>1, <2>7, ParticleStands
  <2>8. CASE \/ SyncVolume \/ SyncVolumeBitmap \/ WriteIndexPointer \/ WriteDedupPointer
             \/ CheckpointSync \/ CheckpointSyncBitmap
    BY <2>1, <2>8, FlushStands
  <2>9. CASE WriteIndex \/ WriteDedup
    BY <2>1, <2>9, TableStands
  <2>10. CASE DropDedup
    BY <2>1, <2>10, DropStands
  <2>11. CASE WriteCheckpoint
    <3>1. log.offset < JournalCells
      <4> SUFFICES ASSUME ~ (log.offset < JournalCells) PROVE "overrun" \in failures'
        OBVIOUS
      <4> QED
        BY <2>11 DEF WriteCheckpoint
    <3> QED
      BY <2>1, <2>11, <3>1, CheckpointStands
  <2>12. ~ SyncFails /\ ~ LeafTooLarge
    <3> SUFFICES ASSUME SyncFails \/ LeafTooLarge PROVE "error" \in failures'
      OBVIOUS
    <3> QED
      BY DEF SyncFails, LeafTooLarge
  <2>13. CASE Retry
    <3>1. pending \in Writes /\ pc = "retry" /\ UNCHANGED disk
      BY <2>1, <2>13, PersistAssumption DEF Retry, Sound, Live, PersistTypes
    <3>2. CASE Fits(pending)
      <4>1. LoggedWrite(pending)
        BY <2>13, <3>2 DEF Retry
      <4> QED
        BY <2>1, <3>1, <4>1, WriteStands
    <3>3. CASE ~ Fits(pending)
      <4>1. UNCHANGED <<mem, journal>>
        BY <2>13, <3>3 DEF Retry
      <4> QED
        BY <1>5, <2>1, <3>1, <4>1, ElseStands
    <3> QED
      BY <3>2, <3>3
  <2>14. ~ (Close \/ Crash)
    BY <1>5 DEF Close, Crash, Gone, Running
  <2>15. ASSUME NEW id \in Ids, Delete(id) PROVE LeavesStand'
    <3>1. Fits(DeleteOp(id))
      <4> SUFFICES ASSUME ~ Fits(DeleteOp(id)) PROVE "error" \in failures'
        OBVIOUS
      <4> QED
        BY <2>15 DEF Delete
    <3> QED
      BY <2>1, <2>15, <3>1, DeleteStands
  <2> QED
    BY <1>1, <1>5, <2>2, <2>3, <2>4, <2>5, <2>6, <2>7, <2>8, <2>9, <2>10, <2>11, <2>12,
       <2>13, <2>14, <2>15 DEF Next, Step, SyncStep
<1>6. CASE UNCHANGED vars
  <2>1. UNCHANGED <<mem, disk, journal, pc>>
    BY <1>6 DEF vars
  <2>2. CASE Running
    <3>1. Running' /\ mem.used \subseteq mem'.used
      BY <2>1, <2>2 DEF Running
    <3> QED
      BY <1>2, <2>1, <2>2, <3>1, ElseStands
  <2>3. CASE ~ Running
    BY <1>2, <2>1, <2>3, StandSame DEF Running
  <2> QED
    BY <2>2, <2>3
<1> QED
  BY <1>3, <1>4, <1>5, <1>6

-----------------------------------------------------------------------------
(* The session after a crash *)

\* A particle that is not in memory has its leaf, on its own, and the particle
\* being written does not refer to it.
LeafAlone(id) ==
  LET b == mem.index[id]
  IN  /\ b \in mem.used
      /\ disk.pages[b].kind = "leaf" /\ disk.pages[b].id = id
      /\ Alone(mem, disk.pages, id)
      /\ work # None => \A d \in Dims : work.at[d] # b

LeavesAlone ==
  \A id \in Ids : mem.store[id] = None /\ mem.index[id] # 0 => LeafAlone(id)

SecondTypes ==
  /\ mem \in Stores /\ disk \in Disks /\ todo \in SUBSET Ids
  /\ work \in [id : Ids, content : SUBSET Dims, at : [Dims -> Pointers]] \cup {None}
  /\ pending \in Writes \cup {None}
  /\ expected \in [Ids -> (SUBSET Dims) \cup {None}]

SecondWork ==
  /\ todo \subseteq mem.modified
  /\ pc # "particles" => todo = {} /\ work = None
  /\ work # None => work.id \in todo /\ work.content # None
  /\ \A id \in mem.modified : mem.store[id] # None

\* What a delete in this session finds is the particle's own, or stale.
Second == SecondTypes /\ SecondWork /\ Undeleted /\ LeavesAlone

SecondInv == opens = 2 /\ crashes > 0 /\ failures = {} /\ Running => Second

\* A step that writes at most one page, which it allocates.
LEMMA LeavesStay ==
  ASSUME mem \in Stores, mem' \in Stores, LeavesAlone, NEW new,
         \A id \in Ids : mem'.store[id] = None /\ mem'.index[id] # 0 =>
           /\ mem.store[id] = None /\ mem'.index[id] = mem.index[id]
           /\ LeafAlone(id) => mem.index[id] \in mem'.used \ {new},
         \A id \in Ids : mem'.index[id] \in {mem.index[id], 0, new},
         \A d \in Dims : mem'.dedup[d].block \in {mem.dedup[d].block, 0, new},
         mem'.sb.index \in {mem.sb.index, 0, new}, mem'.sb.dedup \in {mem.sb.dedup, 0, new},
         \A b \in Blocks : b # new => disk'.pages[b] = disk.pages[b],
         \/ new \notin Blocks
         \/ disk'.pages[new].kind # "leaf"
         \/ work # None /\ disk'.pages[new].at = work.at,
         work' # None => \A d \in Dims : \/ work'.at[d] \in {0, new, mem.dedup[d].block}
                                         \/ work # None /\ work'.at[d] = work.at[d]
  PROVE  LeavesAlone'
<1> SUFFICES ASSUME NEW id \in Ids, mem'.store[id] = None, mem'.index[id] # 0
             PROVE  LeafAlone(id)'
  BY DEF LeavesAlone
<1> DEFINE b == mem.index[id]
<1>1. mem.store[id] = None /\ mem'.index[id] = b /\ b # 0
  OBVIOUS
<1>2. LeafAlone(id)
  BY <1>1 DEF LeavesAlone
<1>3. b \in mem'.used /\ b \in mem.used /\ b # new /\ b \in Blocks
  BY <1>2 DEF LeafAlone, Stores
<1>4. disk'.pages[b].kind = "leaf" /\ disk'.pages[b].id = id
  BY <1>2, <1>3 DEF LeafAlone
<1>5. /\ b \notin {mem.sb.index, mem.sb.dedup}
      /\ \A i \in Ids \ {id} : mem.index[i] # b
      /\ \A i \in Ids : mem.index[i] # 0 /\ disk.pages[mem.index[i]].kind = "leaf" =>
           \A d \in Dims : disk.pages[mem.index[i]].at[d] # b
      /\ \A d \in Dims : mem.dedup[d].block # b
  BY <1>2 DEF LeafAlone, Alone
<1>6. work # None => \A d \in Dims : work.at[d] # b
  BY <1>2 DEF LeafAlone
<1> HIDE DEF b
<1>7. b \notin {mem'.sb.index, mem'.sb.dedup}
  BY <1>1, <1>3, <1>5
<1>8. \A i \in Ids \ {id} : mem'.index[i] # b
  BY <1>1, <1>3, <1>5
<1>9. \A d \in Dims : mem'.dedup[d].block # b
  BY <1>1, <1>3, <1>5
<1>10. ASSUME NEW i \in Ids, mem'.index[i] # 0, disk'.pages[mem'.index[i]].kind = "leaf",
              NEW d \in Dims
       PROVE  disk'.pages[mem'.index[i]].at[d] # b
  <2> DEFINE x == mem'.index[i]
  <2>1. x \in Blocks
    BY <1>10 DEF Stores, Indexes, Pointers
  <2>2. CASE x = new
    BY <1>6, <1>10, <2>1, <2>2
  <2>3. CASE x # new
    <3>1. x = mem.index[i] /\ disk'.pages[x] = disk.pages[x]
      BY <1>10, <2>1, <2>3
    <3> QED
      BY <1>5, <1>10, <3>1
  <2> QED
    BY <2>2, <2>3
<1>11. work' # None => \A d \in Dims : work'.at[d] # b
  BY <1>1, <1>3, <1>5, <1>6
<1>12. Alone(mem', disk'.pages, id)
  BY <1>1, <1>7, <1>8, <1>9, <1>10 DEF Alone
<1>13. Alone(mem, disk.pages, id)' <=> Alone(mem', disk'.pages, id)
  BY DEF Alone
<1> QED
  BY <1>1, <1>3, <1>4, <1>11, <1>12, <1>13 DEF LeafAlone

\* A step that writes no page and gives up none.
LEMMA LeavesRest ==
  ASSUME mem \in Stores, mem' \in Stores, LeavesAlone, disk'.pages = disk.pages,
         mem'.index = mem.index, mem'.sb = mem.sb, mem.used \subseteq mem'.used,
         \A d \in Dims : mem'.dedup[d].block = mem.dedup[d].block,
         \A id \in Ids : mem'.store[id] = None => mem.store[id] = None,
         work' # None => \A d \in Dims : \/ work'.at[d] \in {0, mem.dedup[d].block}
                                         \/ work # None /\ work'.at[d] = work.at[d]
  PROVE  LeavesAlone'
<1>1. 0 \notin Blocks
  BY DEF Blocks
<1>2. \A id \in Ids : mem'.store[id] = None /\ mem'.index[id] # 0 =>
           /\ mem.store[id] = None /\ mem'.index[id] = mem.index[id]
           /\ LeafAlone(id) => mem.index[id] \in mem'.used \ {0}
  BY DEF LeafAlone
<1> QED
  BY <1>1, <1>2, LeavesStay

\* x is m with particles that m indexes put in the store.
Loading(m, x) ==
  /\ x \in Stores /\ x.modified = m.modified /\ x.index = m.index /\ x.dedup = m.dedup
  /\ x.used = m.used /\ x.sb = m.sb
  /\ \A id \in Ids : x.store[id] = m.store[id] \/ (m.index[id] # 0 /\ x.store[id] # None)

\* The leaves that m's index names are those of the particles.
OwnLeaves(m) ==
  \A id \in Ids : m.index[id] # 0 /\ disk.pages[m.index[id]].kind = "leaf" =>
    disk.pages[m.index[id]].id = id

\* Then load_all puts in nothing else.
LEMMA LoadsIndexed ==
  ASSUME NEW m \in Stores, Indexed(m) # {}, OwnLeaves(m)
  PROVE  Loading(m, LoadedAll(m))
<1> DEFINE store == LoadedFrom(LeavesOf(m), m.store)
<1>1. LoadedAll(m) = [m EXCEPT !.store = store]
  BY DEF LoadedAll
<1>2. ASSUME NEW id \in Ids
      PROVE  /\ store[id] \in (SUBSET Dims) \cup {None}
             /\ store[id] = m.store[id] \/ (m.index[id] # 0 /\ store[id] # None)
  <2> DEFINE leaves == {b \in LeavesOf(m) : IsLeaf(b) /\ Page(b).id = id}
  <2>1. store[id] = IF leaves = {} THEN m.store[id] ELSE ContentAt(Max(leaves))
    BY DEF LoadedFrom
  <2>2. leaves # {} => m.index[id] # 0
    <3> SUFFICES ASSUME NEW b \in leaves PROVE m.index[id] # 0
      OBVIOUS
    <3>1. PICK j \in Ids : m.index[j] # 0 /\ b = m.index[j]
      BY DEF LeavesOf, Indexed
    <3>2. disk.pages[b].kind = "leaf" /\ disk.pages[b].id = id
      BY <3>1 DEF IsLeaf, Page
    <3>3. j = id
      BY <3>1, <3>2 DEF OwnLeaves
    <3> QED
      BY <3>1, <3>3
  <2>3. ContentAt(Max(leaves)) \in SUBSET Dims
    BY DEF ContentAt
  <2>4. ContentAt(Max(leaves)) # None
    BY <2>3, PersistAssumption
  <2>5. m.store[id] \in (SUBSET Dims) \cup {None}
    BY DEF Stores
  <2> HIDE DEF store, leaves
  <2> QED
    BY <2>1, <2>2, <2>3, <2>4, <2>5
<1>3. store \in [Ids -> (SUBSET Dims) \cup {None}]
  <2>1. store = [id \in Ids |-> store[id]]
    BY DEF LoadedFrom
  <2> HIDE DEF store
  <2> QED
    BY <1>2, <2>1
<1> HIDE DEF store
<1> DEFINE x == LoadedAll(m)
<1>4. /\ x.store = store /\ x.modified = m.modified /\ x.index = m.index /\ x.dedup = m.dedup
      /\ x.used = m.used /\ x.sb = m.sb
  BY <1>1 DEF Stores
<1>5. x \in Stores
  BY <1>1, <1>3 DEF Stores
<1> HIDE DEF x
<1> QED
  BY <1>2, <1>4, <1>5 DEF Loading, x

\* What opens the file after a crash of the first session, with load_all or
\* without, unless that finds the index empty.
LEMMA OpenSecond ==
  ASSUME Tracked, ~ Running, Apart, LeavesStand, Opening, crashes > 0, crashes \in Nat,
         failures' = {}, todo = {}, pending = None
  PROVE  Second'
<1>1. /\ mem' = Opened \/ (Indexed(Opened) # {} /\ mem' = LoadedAll(Opened))
      /\ pc' = "ready"
      /\ UNCHANGED <<disk, journal, todo, work, pending, expected>>
  <2>1. PICK all \in LoadAll : Open(all)
    BY DEF Opening
  <2>2. all => Indexed(Opened) # {}
    <3> SUFFICES ASSUME all, Indexed(Opened) = {} PROVE "scanned" \in failures'
      OBVIOUS
    <3> QED
      BY <2>1 DEF Open
  <2> QED
    BY <2>1, <2>2 DEF Open
<1>2. /\ disk \in Disks /\ ToReplay \in Seq(Ops) /\ FileTells /\ Tells(ToReplay, expected)
      /\ expected \in [Ids -> (SUBSET Dims) \cup {None}] /\ work = None
  BY DEF Tracked
<1> DEFINE m == Opened
           n == Len(ToReplay)
<1>3. Before \in Stores /\ ReplayIs(m, Before, ToReplay, n)
  BY <1>2, OpenedIs
<1> HIDE DEF m
<1>4. /\ Before.store = NoStore /\ Before.index = StoredIndex /\ Before.dedup = StoredDedup
      /\ Before.used = disk.used /\ Before.sb = disk.sb /\ Before.modified = {}
  BY DEF Before
<1>5. /\ FileImage.index = StoredIndex /\ FileImage.dedup = StoredDedup
      /\ FileImage.used = disk.used /\ FileImage.sb = disk.sb
  BY DEF FileImage, StoredIndex, StoredDedup
<1>6. m \in Stores /\ m.modified = {} /\ m.sb = disk.sb
  BY <1>3, <1>4 DEF ReplayIs
<1>7. \A k \in 1 .. n : ToReplay[k] \in Ops /\ ToReplay[k].id \in Touched
  BY <1>2 DEF Touched, IdsOf
<1>8. ASSUME NEW id \in Touched
      PROVE  \/ expected[id] # None /\ m.store[id] # None
             \/ expected[id] = None /\ m.store[id] = None /\ m.index[id] = 0
  <2>1. PICK k \in 1 .. n : ToReplay[k].id = id /\ LastOf(ToReplay, n, k)
    BY <1>2, LastExists DEF Touched
  <2> DEFINE op == ToReplay[k]
  <2>2. /\ expected[id] = Outcome(op) /\ m.store[id] = Outcome(op)
        /\ op.op = "delete" => m.index[id] = 0
    BY <1>2, <1>3, <2>1 DEF Tells, ReplayIs
  <2>3. op \in Ops
    BY <1>7
  <2> HIDE DEF op
  <2>4. CASE op.op = "delete"
    BY <2>2, <2>4 DEF Outcome
  <2>5. CASE op.op # "delete"
    <3>1. Outcome(op) # None
      BY <2>3, <2>5, PersistAssumption DEF Ops, WriteOp, DeleteOp, Outcome
    <3> QED
      BY <2>2, <3>1
  <2> QED
    BY <2>4, <2>5
<1>9. ASSUME NEW id \in Ids \ Touched
      PROVE  m.store[id] = None /\ m.index[id] = StoredIndex[id]
  <2>1. \A k \in 1 .. n : ToReplay[k].id # id
    BY DEF Touched, IdsOf
  <2> QED
    BY <1>3, <1>4, <2>1 DEF ReplayIs, NoStore
<1>10. \A id \in Ids : m.index[id] # 0 \/ m.store[id] # None => expected[id] # None
  BY <1>2, <1>8, <1>9 DEF FileTells
<1>11. ASSUME NEW id \in Ids, m.store[id] = None, m.index[id] # 0
       PROVE  /\ m.index[id] \in m.used
              /\ disk.pages[m.index[id]].kind = "leaf" /\ disk.pages[m.index[id]].id = id
              /\ Alone(m, disk.pages, id)
  <2> DEFINE b == m.index[id]
  <2>1. id \in Ids \ Touched
    BY <1>8, <1>11
  <2>2. b = StoredIndex[id] /\ expected[id] # None
    BY <1>9, <1>10, <1>11, <2>1
  <2>3. IsLeaf(b) /\ Page(b).id = id
    BY <1>2, <2>1, <2>2 DEF FileTells
  <2>4. disk.pages[b].kind = "leaf" /\ disk.pages[b].id = id
    BY <1>11, <2>3 DEF IsLeaf, Page
  <2>5. b \in disk.used /\ Alone(FileImage, disk.pages, id)
    BY <1>5, <1>11, <2>1, <2>2 DEF Apart
  <2>6. /\ b \notin {disk.sb.index, disk.sb.dedup}
        /\ \A i \in Ids \ {id} : StoredIndex[i] # b
        /\ \A i \in Ids : StoredIndex[i] # 0 /\ disk.pages[StoredIndex[i]].kind = "leaf" =>
             \A d \in Dims : disk.pages[StoredIndex[i]].at[d] # b
        /\ \A d \in Dims : StoredDedup[d].block # b
    BY <1>5, <2>2, <2>5 DEF Alone
  <2>7. b # 0
    BY <1>11
  <2> HIDE DEF b
  <2>8. ASSUME NEW k \in 1 .. n PROVE b \notin GivenUp(Before.index[ToReplay[k].id])
    <3> DEFINE i == ToReplay[k].id
    <3>1. i \in Ids \ {id}
      <4>1. i \in Ids
        BY <1>7 DEF Ops, WriteOp, DeleteOp
      <4> QED
        BY <1>7, <2>1, <4>1
    <3> HIDE DEF i
    <3>2. StoredIndex[i] # b
      BY <2>6, <3>1
    <3>3. IsLeaf(StoredIndex[i]) => \A d \in Dims : Page(StoredIndex[i]).at[d] # b
      <4>1. CASE StoredIndex[i] = 0
        BY <4>1 DEF IsLeaf, Page, NoPage
      <4>2. CASE StoredIndex[i] # 0
        BY <2>6, <3>1, <4>2 DEF IsLeaf, Page
      <4> QED
        BY <4>1, <4>2
    <3>4. b \notin GivenUp(StoredIndex[i])
      BY <3>2, <3>3 DEF GivenUp
    <3> QED
      BY <1>4, <3>4 DEF i
  <2>9. b \in m.used
    BY <1>3, <1>4, <2>5, <2>8 DEF ReplayIs
  <2>10. \A i \in Ids : m.index[i] \in {StoredIndex[i], 0}
    BY <1>3, <1>4 DEF ReplayIs
  <2>11. \A d \in Dims : m.dedup[d].block \in {StoredDedup[d].block, 0}
    BY <1>3, <1>4 DEF ReplayIs
  <2>12. Alone(m, disk.pages, id)
    <3>1. \A i \in Ids \ {id} : m.index[i] # b
      BY <2>6, <2>7, <2>10
    <3>2. \A i \in Ids : m.index[i] # 0 /\ disk.pages[m.index[i]].kind = "leaf" =>
             \A d \in Dims : disk.pages[m.index[i]].at[d] # b
      BY <2>6, <2>10
    <3>3. \A d \in Dims : m.dedup[d].block # b
      BY <2>6, <2>7, <2>11
    <3> QED
      BY <1>6, <2>6, <3>1, <3>2, <3>3 DEF Alone, b
  <2> QED
    BY <2>4, <2>9, <2>12 DEF b
<1>12. ASSUME NEW id \in Ids, m.index[id] # 0 PROVE disk.pages[m.index[id]].id = id
  <2>1. \A k \in 1 .. n : ToReplay[k].op = "delete" => ToReplay[k].id # id
    BY <1>3, <1>12 DEF ReplayIs
  <2>2. id \in Ids \ Removed
    BY <2>1 DEF Removed, RemovedIn
  <2>3. m.index[id] = StoredIndex[id]
    BY <1>3, <1>4, <1>12 DEF ReplayIs
  <2> QED
    BY <1>12, <2>2, <2>3 DEF LeavesStand, LeafStands
<1>13. Loading(m, mem')
  <2>1. CASE mem' = m
    BY <1>6, <2>1 DEF Loading
  <2>2. CASE Indexed(m) # {} /\ mem' = LoadedAll(m)
    <3>1. OwnLeaves(m)
      BY <1>12 DEF OwnLeaves
    <3>2. m \in Stores
      BY <1>6
    <3>3. Loading(m, LoadedAll(m))
      BY <2>2, <3>1, <3>2, LoadsIndexed
    <3> QED
      BY <2>2, <3>3
  <2> QED
    BY <1>1, <2>1, <2>2 DEF m
<1>14. /\ mem' \in Stores /\ mem'.modified = {}
       /\ mem'.index = m.index /\ mem'.used = m.used /\ mem'.sb = m.sb /\ mem'.dedup = m.dedup
       /\ \A id \in Ids : mem'.store[id] = m.store[id]
                          \/ (m.index[id] # 0 /\ mem'.store[id] # None)
  BY <1>6, <1>13 DEF Loading
<1>15. SecondTypes'
  BY <1>1, <1>2, <1>14 DEF SecondTypes
<1>16. SecondWork'
  BY <1>1, <1>2, <1>14 DEF SecondWork
<1>17. Undeleted'
  BY <1>1, <1>10, <1>14 DEF Undeleted
<1>18. LeavesAlone'
  <2> SUFFICES ASSUME NEW id \in Ids, mem'.store[id] = None, mem'.index[id] # 0
               PROVE  LeafAlone(id)'
    BY DEF LeavesAlone
  <2>1. disk' = disk /\ work' = None
    BY <1>1, <1>2
  <2>2. m.store[id] = None /\ m.index[id] # 0
    BY <1>14
  <2>3. Alone(mem', disk'.pages, id)
    BY <1>11, <1>14, <2>1, <2>2 DEF Alone
  <2>4. Alone(mem, disk.pages, id)' <=> Alone(mem', disk'.pages, id)
    BY DEF Alone
  <2> QED
    BY <1>11, <1>14, <2>1, <2>2, <2>3, <2>4 DEF LeafAlone
<1> QED
  BY <1>15, <1>16, <1>17, <1>18 DEF Second

\* A write that is logged.
LEMMA WriteSecond ==
  ASSUME Second, pc \in {"ready", "retry"}, NEW op \in Writes, LoggedWrite(op),
         UNCHANGED <<disk, work>>, pending' \in {pending, None}
  PROVE  Second'
<1>1. /\ mem' = [mem EXCEPT !.store[op.id] = op.content, !.modified = @ \cup {op.id}]
      /\ expected' = [expected EXCEPT ![op.id] = op.content]
      /\ \/ pc' = "particles" /\ todo' = mem'.modified
         \/ pc' = "ready" /\ todo' = {}
  BY DEF LoggedWrite
<1>2. op.id \in Ids /\ op.content \in SUBSET Dims /\ op.content # None
  BY PersistAssumption DEF Writes, WriteOp
<1>3. /\ mem \in Stores /\ expected \in [Ids -> (SUBSET Dims) \cup {None}] /\ work = None
      /\ disk \in Disks /\ pending \in Writes \cup {None}
      /\ \A id \in mem.modified : mem.store[id] # None
  BY DEF Second, SecondTypes, SecondWork
<1>4. /\ mem' \in Stores
      /\ mem'.store = [mem.store EXCEPT ![op.id] = op.content]
      /\ mem'.modified = mem.modified \cup {op.id}
      /\ mem'.index = mem.index /\ mem'.sb = mem.sb /\ mem'.used = mem.used
      /\ mem'.dedup = mem.dedup
  BY <1>1, <1>2, <1>3 DEF Stores
<1>5. /\ mem'.store[op.id] = op.content /\ expected'[op.id] = op.content
      /\ \A id \in Ids : id # op.id => mem'.store[id] = mem.store[id] /\ expected'[id] = expected[id]
  BY <1>1, <1>2, <1>3, <1>4 DEF Stores
<1>6. expected' \in [Ids -> (SUBSET Dims) \cup {None}]
  BY <1>1, <1>2, <1>3
<1>7. mem'.modified \in SUBSET Ids /\ mem.modified \in SUBSET Ids
  BY <1>3, <1>4 DEF Stores
<1>8. SecondTypes'
  BY <1>1, <1>3, <1>4, <1>6, <1>7 DEF SecondTypes
<1>9. SecondWork'
  BY <1>1, <1>2, <1>3, <1>4, <1>5, <1>7 DEF SecondWork
<1>10. Undeleted'
  BY <1>2, <1>4, <1>5 DEF Second, Undeleted
<1>11. LeavesAlone'
  BY <1>2, <1>3, <1>4, <1>5, LeavesRest DEF Second
<1> QED
  BY <1>8, <1>9, <1>10, <1>11 DEF Second

\* What leaves the tables of memory, the file's pages and the work alone.
LEMMA ElseSecond ==
  ASSUME Second, mem' \in Stores, disk' \in Disks, UNCHANGED <<expected, work>>,
         disk'.pages = disk.pages, mem'.store = mem.store, mem'.index = mem.index,
         mem'.sb = mem.sb, mem'.used = mem.used, mem'.dedup = mem.dedup,
         pending' \in Writes \cup {None}, SecondWork', todo' \in SUBSET Ids
  PROVE  Second'
<1>1. SecondTypes'
  BY DEF Second, SecondTypes
<1>2. Undeleted'
  BY DEF Second, Undeleted
<1>3. LeavesAlone'
  BY LeavesRest DEF Second, SecondTypes
<1> QED
  BY <1>1, <1>2, <1>3 DEF Second

\* A deletion: it gives up no leaf that another particle needs.
LEMMA DeleteSecond ==
  ASSUME Second, NEW id \in Ids, Delete(id)
  PROVE  Second'
<1>1. /\ pc = "ready" /\ mem' = Deleted(mem, id) /\ expected' = [expected EXCEPT ![id] = None]
      /\ UNCHANGED <<disk, pc, todo, work, pending>>
  BY DEF Delete, Called
<1>2. /\ mem \in Stores /\ expected \in [Ids -> (SUBSET Dims) \cup {None}] /\ work = None
      /\ todo = {} /\ mem.modified \in SUBSET Ids
      /\ \A i \in mem.modified : mem.store[i] # None
  BY <1>1 DEF Second, SecondTypes, SecondWork, Stores
<1>3. /\ mem' \in Stores
      /\ mem'.store = [mem.store EXCEPT ![id] = None]
      /\ mem'.index = [mem.index EXCEPT ![id] = 0]
      /\ mem'.modified = mem.modified \ {id} /\ mem'.sb = mem.sb
      /\ mem.used \ GivenUp(mem.index[id]) \subseteq mem'.used
      /\ \A d \in Dims : mem'.dedup[d].block \in {mem.dedup[d].block, 0}
  BY <1>1, <1>2, DeletedWithin
<1>4. /\ mem'.store[id] = None /\ mem'.index[id] = 0 /\ expected'[id] = None
      /\ \A i \in Ids : i # id => /\ mem'.store[i] = mem.store[i]
                                  /\ mem'.index[i] = mem.index[i]
                                  /\ expected'[i] = expected[i]
  BY <1>1, <1>2, <1>3 DEF Stores, Indexes
<1>5. SecondTypes'
  <2>1. expected' \in [Ids -> (SUBSET Dims) \cup {None}]
    BY <1>1, <1>2
  <2> QED
    BY <1>1, <1>3, <2>1 DEF Second, SecondTypes
<1>6. SecondWork'
  BY <1>1, <1>2, <1>3, <1>4 DEF SecondWork
<1>7. Undeleted'
  BY <1>4 DEF Second, Undeleted
<1>8. ASSUME NEW i \in Ids, mem'.store[i] = None, mem'.index[i] # 0
      PROVE  /\ mem.store[i] = None /\ mem'.index[i] = mem.index[i]
             /\ LeafAlone(i) => mem.index[i] \in mem'.used
  <2>1. i # id /\ mem.store[i] = None /\ mem'.index[i] = mem.index[i]
    BY <1>4, <1>8
  <2>2. ASSUME LeafAlone(i) PROVE mem.index[i] \in mem'.used
    <3>1. mem.index[i] \in mem.used /\ mem.index[id] # mem.index[i]
      BY <2>1, <2>2 DEF LeafAlone, Alone
    <3>2. IsLeaf(mem.index[id]) => \A d \in Dims : Page(mem.index[id]).at[d] # mem.index[i]
      <4>1. CASE mem.index[id] = 0
        BY <4>1 DEF IsLeaf, Page, NoPage
      <4>2. CASE mem.index[id] # 0
        BY <2>2, <4>2 DEF LeafAlone, Alone, IsLeaf, Page
      <4> QED
        BY <4>1, <4>2
    <3>3. mem.index[i] \notin GivenUp(mem.index[id])
      BY <3>1, <3>2 DEF GivenUp
    <3> QED
      BY <1>3, <3>1, <3>3
  <2> QED
    BY <2>1, <2>2
<1>9. LeavesAlone'
  <2>1. 0 \notin Blocks
    BY DEF Blocks
  <2>2. \A i \in Ids : mem'.index[i] \in {mem.index[i], 0}
    BY <1>4
  <2>3. /\ disk' = disk /\ work' = None
    BY <1>1, <1>2
  <2>4. LeavesAlone
    BY DEF Second
  <2>5. \A i \in Ids : mem'.store[i] = None /\ mem'.index[i] # 0 =>
           /\ mem.store[i] = None /\ mem'.index[i] = mem.index[i]
           /\ LeafAlone(i) => mem.index[i] \in mem'.used \ {0}
    BY <1>8
  <2> QED
    BY <1>2, <1>3, <2>1, <2>2, <2>3, <2>4, <2>5, LeavesStay
<1> QED
  BY <1>5, <1>6, <1>7, <1>9 DEF Second

\* A particle read from its leaf.
LEMMA LoadSecond ==
  ASSUME Second, NEW id \in Ids, LoadParticle(id)
  PROVE  Second'
<1> DEFINE content == ContentAt(mem.index[id])
<1>1. /\ pc = "ready" /\ mem.store[id] = None /\ IsLeaf(mem.index[id])
      /\ mem' = [mem EXCEPT !.store[Page(mem.index[id]).id] = content]
      /\ UNCHANGED <<disk, pc, todo, work, pending, expected>>
  BY DEF LoadParticle, unsynced
<1>2. /\ mem \in Stores /\ work = None /\ todo = {} /\ mem.modified \in SUBSET Ids
      /\ \A i \in mem.modified : mem.store[i] # None
  BY <1>1 DEF Second, SecondTypes, SecondWork, Stores
<1>3. mem.index[id] # 0
  BY <1>1 DEF IsLeaf, Page, NoPage
<1>4. Page(mem.index[id]).id = id
  BY <1>1, <1>3 DEF Second, LeavesAlone, LeafAlone, Page
<1>5. content \in SUBSET Dims
  BY DEF ContentAt
<1> HIDE DEF content
<1>6. /\ mem' \in Stores /\ mem'.store = [mem.store EXCEPT ![id] = content]
      /\ mem'.modified = mem.modified /\ mem'.index = mem.index /\ mem'.sb = mem.sb
      /\ mem'.used = mem.used /\ mem'.dedup = mem.dedup
  BY <1>1, <1>2, <1>4, <1>5 DEF Stores
<1>7. \A i \in Ids : i # id => mem'.store[i] = mem.store[i]
  BY <1>2, <1>6 DEF Stores
<1>8. SecondTypes'
  BY <1>1, <1>6 DEF Second, SecondTypes
<1>9. SecondWork'
  BY <1>1, <1>2, <1>6, <1>7 DEF SecondWork
<1>10. Undeleted'
  BY <1>1, <1>3, <1>6, <1>7 DEF Second, Undeleted
<1>11. LeavesAlone'
  BY <1>1, <1>2, <1>6, <1>7, LeavesRest DEF Second
<1> QED
  BY <1>8, <1>9, <1>10, <1>11 DEF Second

\* A particle is taken up.
LEMMA BeginSecond ==
  ASSUME Second, NEW id \in Ids, BeginParticle(id)
  PROVE  Second'
<1>1. /\ pc = "particles" /\ work = None /\ id \in todo
      /\ work' = [id |-> id, content |-> mem.store[id], at |-> Nowhere]
      /\ UNCHANGED <<mem, disk, pc, todo, pending, expected>>
  BY DEF BeginParticle, unsynced
<1>2. /\ mem \in Stores /\ todo \subseteq mem.modified
      /\ \A i \in mem.modified : mem.store[i] # None
  BY DEF Second, SecondTypes, SecondWork
<1>3. mem.store[id] \in SUBSET Dims /\ mem.store[id] # None
  BY <1>1, <1>2 DEF Stores
<1>4. /\ work'.id = id /\ work'.content = mem.store[id] /\ \A d \in Dims : work'.at[d] = 0
      /\ work' \in [id : Ids, content : SUBSET Dims, at : [Dims -> Pointers]]
  BY <1>1, <1>3 DEF Nowhere, Pointers
<1>5. SecondTypes'
  BY <1>1, <1>4 DEF Second, SecondTypes
<1>6. SecondWork'
  BY <1>1, <1>3, <1>4 DEF Second, SecondWork
<1>7. Undeleted'
  BY <1>1 DEF Second, Undeleted
<1>8. LeavesAlone'
  BY <1>1, <1>2, <1>4, LeavesRest DEF Second
<1> QED
  BY <1>5, <1>6, <1>7, <1>8 DEF Second

\* A dimension of the particle being written, in a block of its own or shared.
LEMMA DimensionSecond ==
  ASSUME Second, WriteDimension
  PROVE  Second'
<1> DEFINE d == Min(Unwritten)
           new == Allocated(mem)
           shared == mem.dedup[d].block
<1>1. /\ work # None /\ Unwritten # {} /\ UNCHANGED <<pc, todo, pending, expected>>
      /\ \/ /\ shared # 0
            /\ mem' = [mem EXCEPT !.dedup[d].count = @ + 1]
            /\ work' = [work EXCEPT !.at[d] = shared]
            /\ UNCHANGED disk
         \/ /\ shared = 0 /\ Free(mem) # {}
            /\ mem' = [mem EXCEPT !.used = @ \cup {new}, !.dedup[d] = [block |-> new, count |-> 1]]
            /\ work' = [work EXCEPT !.at[d] = new]
            /\ disk' = [disk EXCEPT !.pages[new] = DimPage(d)]
  BY DEF WriteDimension, unsynced
<1>2. /\ mem \in Stores /\ disk \in Disks /\ mem.dedup \in DedupTables /\ LeavesAlone
      /\ work \in [id : Ids, content : SUBSET Dims, at : [Dims -> Pointers]]
      /\ work.id \in todo /\ work.content # None /\ pc = "particles"
  BY <1>1 DEF Second, SecondTypes, SecondWork, Stores
<1>3. d \in Dims
  BY <1>1, <1>2, UnwrittenLeast
<1> HIDE DEF d, new
<1>4. shared \in Pointers
  BY <1>2, <1>3 DEF DedupTables
<1>5. SecondTypes /\ SecondWork /\ Undeleted
  BY DEF Second
<1>6. CASE shared # 0 /\ mem' = [mem EXCEPT !.dedup[d].count = @ + 1]
           /\ work' = [work EXCEPT !.at[d] = shared] /\ UNCHANGED disk
  <2>1. mem.dedup' = [mem.dedup EXCEPT ![d].count = @ + 1]
        /\ mem'.store = mem.store /\ mem'.modified = mem.modified
        /\ mem'.index = mem.index /\ mem'.used = mem.used /\ mem'.sb = mem.sb
    BY <1>2, <1>6 DEF Stores
  <2>2. mem'.dedup \in DedupTables
        /\ \A e \in Dims : mem'.dedup[e].block = mem.dedup[e].block
    <3>1. \A e \in Dims : /\ mem'.dedup[e] \in [block : Pointers, count : Nat]
                          /\ mem'.dedup[e].block = mem.dedup[e].block
                          /\ mem'.dedup[e].count \in {mem.dedup[e].count, mem.dedup[e].count + 1}
                          /\ mem.dedup[e].count \in Nat
                          /\ mem.dedup[e].block # 0 => mem.dedup[e].count # 0
      BY <1>2, <1>3, <2>1 DEF DedupTables
    <3>2. \A e \in Dims : mem'.dedup[e].block # 0 => mem'.dedup[e].count # 0
      BY <3>1
    <3>3. mem'.dedup \in [Dims -> [block : Pointers, count : Nat]]
      BY <1>2, <1>3, <2>1, <3>1 DEF DedupTables
    <3> QED
      BY <3>1, <3>2, <3>3 DEF DedupTables
  <2>3. mem' \in Stores
    <3>1. mem' = [mem EXCEPT !.dedup = mem'.dedup]
      BY <1>2, <1>6, <2>1 DEF Stores
    <3> QED
      BY <1>2, <2>2, <3>1 DEF Stores
  <2> HIDE DEF shared
  <2>4. /\ work' \in [id : Ids, content : SUBSET Dims, at : [Dims -> Pointers]]
        /\ work'.id = work.id /\ work'.content = work.content /\ work'.at[d] = shared
        /\ \A e \in Dims : e # d => work'.at[e] = work.at[e]
    BY <1>2, <1>3, <1>4, <1>6
  <2>5. SecondTypes'
    BY <1>1, <1>5, <1>6, <2>3, <2>4 DEF SecondTypes
  <2>6. SecondWork'
    BY <1>1, <1>2, <1>5, <2>1, <2>4 DEF SecondWork
  <2>7. Undeleted'
    BY <1>1, <1>5, <2>1 DEF Undeleted
  <2>8. \A e \in Dims : \/ work'.at[e] \in {0, mem.dedup[e].block}
                        \/ work # None /\ work'.at[e] = work.at[e]
    BY <1>1, <1>3, <2>4 DEF shared
  <2>9. LeavesAlone'
    BY <1>2, <1>6, <2>1, <2>2, <2>3, <2>8, LeavesRest
  <2> QED
    BY <2>5, <2>6, <2>7, <2>9 DEF Second
<1>7. CASE /\ Free(mem) # {}
           /\ mem' = [mem EXCEPT !.used = @ \cup {new}, !.dedup[d] = [block |-> new, count |-> 1]]
           /\ work' = [work EXCEPT !.at[d] = new]
           /\ disk' = [disk EXCEPT !.pages[new] = DimPage(d)]
  <2>1. new \in Blocks /\ new \notin mem.used /\ new # 0
    BY <1>7, AllocatedIsFree DEF new
  <2>2. DimPage(d) \in Pages /\ DimPage(d).kind # "leaf"
    BY <1>3 DEF DimPage, Pages
  <2>3. /\ mem'.used = mem.used \cup {new}
        /\ mem'.dedup = [mem.dedup EXCEPT ![d] = [block |-> new, count |-> 1]]
        /\ mem'.store = mem.store /\ mem'.modified = mem.modified
        /\ mem'.index = mem.index /\ mem'.sb = mem.sb
    BY <1>2, <1>7 DEF Stores
  <2>4. mem'.dedup \in DedupTables /\ \A e \in Dims : mem'.dedup[e].block \in {mem.dedup[e].block, new}
    BY <1>2, <1>3, <2>1, <2>3 DEF DedupTables, Pointers
  <2>5. mem' \in Stores
    <3>1. mem' = [mem EXCEPT !.dedup = mem'.dedup, !.used = mem'.used]
      BY <1>2, <1>7, <2>3 DEF Stores
    <3> QED
      BY <1>2, <2>1, <2>3, <2>4, <3>1 DEF Stores
  <2>6. /\ disk' \in Disks /\ disk'.pages[new] = DimPage(d)
        /\ \A b \in Blocks : b # new => disk'.pages[b] = disk.pages[b]
    BY <1>2, <1>7, <2>1, <2>2, PageWritten
  <2>7. /\ work' \in [id : Ids, content : SUBSET Dims, at : [Dims -> Pointers]]
        /\ work'.id = work.id /\ work'.content = work.content /\ work'.at[d] = new
        /\ \A e \in Dims : e # d => work'.at[e] = work.at[e]
    BY <1>2, <1>3, <1>7, <2>1 DEF Pointers
  <2>8. SecondTypes'
    BY <1>1, <1>5, <2>5, <2>6, <2>7 DEF SecondTypes
  <2>9. SecondWork'
    BY <1>1, <1>2, <1>5, <2>3, <2>7 DEF SecondWork
  <2>10. Undeleted'
    BY <1>1, <1>5, <2>3 DEF Undeleted
  <2>11. \A e \in Dims : \/ work'.at[e] \in {0, new, mem.dedup[e].block}
                         \/ work # None /\ work'.at[e] = work.at[e]
    BY <1>1, <2>7
  <2>12. \A id \in Ids : mem'.store[id] = None /\ mem'.index[id] # 0 =>
           /\ mem.store[id] = None /\ mem'.index[id] = mem.index[id]
           /\ LeafAlone(id) => mem.index[id] \in mem'.used \ {new}
    BY <2>1, <2>3 DEF LeafAlone
  <2>13. /\ \A id \in Ids : mem'.index[id] \in {mem.index[id], 0, new}
         /\ \A e \in Dims : mem'.dedup[e].block \in {mem.dedup[e].block, 0, new}
         /\ mem'.sb.index \in {mem.sb.index, 0, new} /\ mem'.sb.dedup \in {mem.sb.dedup, 0, new}
    BY <2>3, <2>4
  <2>14. disk'.pages[new].kind # "leaf"
    BY <2>2, <2>6
  <2>15. LeavesAlone'
    BY <1>2, <2>1, <2>5, <2>6, <2>11, <2>12, <2>13, <2>14, LeavesStay
  <2> QED
    BY <2>8, <2>9, <2>10, <2>15 DEF Second
<1> QED
  BY <1>1, <1>6, <1>7

\* The leaf of a particle.
LEMMA LeafSecond ==
  ASSUME Second, WriteLeaf
  PROVE  Second'
<1> DEFINE new == Allocated(mem)
           id == work.id
           at == work.at
<1>1. /\ work # None /\ Free(mem) # {} /\ UNCHANGED <<pc, pending, expected>>
      /\ mem' = [mem EXCEPT !.used = @ \cup {new}, !.index[id] = new,
                            !.store[id] = work.content]
      /\ disk' = [disk EXCEPT !.pages[new] = LeafPage(id, at)]
      /\ todo' = todo \ {id} /\ work' = None
  BY DEF WriteLeaf, unsynced
<1>2. /\ mem \in Stores /\ disk \in Disks /\ LeavesAlone
      /\ id \in Ids /\ work.content \in SUBSET Dims /\ at \in [Dims -> Pointers]
      /\ id \in todo /\ work.content # None /\ pc = "particles"
      /\ todo \subseteq mem.modified /\ \A i \in mem.modified : mem.store[i] # None
  BY <1>1 DEF Second, SecondTypes, SecondWork
<1>3. SecondTypes /\ SecondWork /\ Undeleted
  BY DEF Second
<1>4. new \in Blocks /\ new \notin mem.used /\ new # 0
  BY <1>1, AllocatedIsFree
<1>5. LeafPage(id, at) \in Pages /\ LeafPage(id, at).at = at
  BY <1>2 DEF LeafPage, Pages
<1> HIDE DEF new, id
<1>6. /\ mem' \in Stores
      /\ mem'.index = [mem.index EXCEPT ![id] = new]
      /\ mem'.store = [mem.store EXCEPT ![id] = work.content]
      /\ mem'.used = mem.used \cup {new} /\ mem'.modified = mem.modified
      /\ mem'.sb = mem.sb /\ mem'.dedup = mem.dedup
  <2> DEFINE c == work.content
  <2>1. mem' = [store |-> [mem.store EXCEPT ![id] = c], modified |-> mem.modified,
                index |-> [mem.index EXCEPT ![id] = new], dedup |-> mem.dedup,
                used |-> mem.used \cup {new}, sb |-> mem.sb]
    BY <1>1, <1>2 DEF Stores
  <2>2. [mem.store EXCEPT ![id] = c] \in [Ids -> (SUBSET Dims) \cup {None}]
    BY <1>2 DEF Stores
  <2>3. [mem.index EXCEPT ![id] = new] \in Indexes
    BY <1>2, <1>4 DEF Stores, Indexes, Pointers
  <2>4. mem.used \cup {new} \in SUBSET Blocks
    BY <1>2, <1>4 DEF Stores
  <2> HIDE DEF c
  <2>5. mem' \in Stores
    BY <1>2, <2>1, <2>2, <2>3, <2>4 DEF Stores
  <2> QED
    BY <2>1, <2>5 DEF c
<1>7. /\ mem'.store[id] = work.content /\ mem'.index[id] = new
      /\ \A i \in Ids : i # id => mem'.store[i] = mem.store[i] /\ mem'.index[i] = mem.index[i]
  BY <1>2, <1>6 DEF Stores, Indexes
<1>8. /\ disk' \in Disks /\ disk'.pages[new] = LeafPage(id, at)
      /\ \A b \in Blocks : b # new => disk'.pages[b] = disk.pages[b]
  BY <1>1, <1>2, <1>4, <1>5, PageWritten
<1>9. SecondTypes'
  BY <1>1, <1>3, <1>6, <1>8 DEF SecondTypes
<1>10. SecondWork'
  BY <1>1, <1>2, <1>3, <1>6, <1>7 DEF SecondWork
<1>11. Undeleted'
  <2>1. expected[id] # None
    BY <1>2, <1>3 DEF Undeleted
  <2> QED
    BY <1>1, <1>3, <1>7, <2>1 DEF Undeleted
<1>12. \A i \in Ids : mem'.store[i] = None /\ mem'.index[i] # 0 =>
         /\ mem.store[i] = None /\ mem'.index[i] = mem.index[i]
         /\ LeafAlone(i) => mem.index[i] \in mem'.used \ {new}
  BY <1>2, <1>4, <1>6, <1>7 DEF LeafAlone
<1>13. /\ \A i \in Ids : mem'.index[i] \in {mem.index[i], 0, new}
       /\ \A e \in Dims : mem'.dedup[e].block \in {mem.dedup[e].block, 0, new}
       /\ mem'.sb.index \in {mem.sb.index, 0, new} /\ mem'.sb.dedup \in {mem.sb.dedup, 0, new}
  BY <1>6, <1>7
<1>14. work # None /\ disk'.pages[new].at = work.at
  BY <1>1, <1>5, <1>8
<1>15. LeavesAlone'
  BY <1>1, <1>2, <1>4, <1>6, <1>8, <1>12, <1>13, <1>14, LeavesStay
<1> QED
  BY <1>9, <1>10, <1>11, <1>15 DEF Second

\* A table written anew, and an empty one dropped.
LEMMA TableSecond ==
  ASSUME Second, WriteIndex \/ WriteDedup
  PROVE  Second'
<1>1. PICK p, page :
        /\ p \in {"index", "dedup"} /\ pc = p /\ TableWritten(p, page)
        /\ p = "index" => page = IndexPage(mem.index)
        /\ p = "dedup" => page = DedupPage(mem.dedup)
        /\ pc' # "particles" /\ UNCHANGED <<todo, work, pending, expected>>
  BY DEF WriteIndex, WriteDedup, unsynced
<1>2. /\ mem \in Stores /\ disk \in Disks /\ LeavesAlone /\ work = None /\ todo = {}
      /\ p \in {"index", "dedup"} /\ mem.sb \in Superblocks
  <2>1. pc # "particles" /\ p \in {"index", "dedup"}
    BY <1>1
  <2> QED
    BY <2>1 DEF Second, SecondTypes, SecondWork, Stores
<1>3. SecondTypes /\ SecondWork /\ Undeleted
  BY DEF Second
<1>4. page \in Pages /\ page.kind # "leaf"
  BY <1>1, <1>2 DEF IndexPage, DedupPage, Pages, Stores
<1> DEFINE freed == [mem EXCEPT !.used = @ \ {mem.sb[p]}]
           new == Allocated(freed)
<1>5. /\ Free(freed) # {} /\ disk' = [disk EXCEPT !.pages[new] = page]
      /\ mem' = [freed EXCEPT !.used = @ \cup {new}, !.sb[p] = new]
  BY <1>1 DEF TableWritten
<1>6. new \in Blocks /\ new \notin freed.used /\ new # 0
  BY <1>5, AllocatedIsFree
<1>7. /\ freed.used = mem.used \ {mem.sb[p]} /\ freed.dedup = mem.dedup
      /\ freed.index = mem.index /\ freed.sb = mem.sb /\ freed.store = mem.store
      /\ freed.modified = mem.modified /\ freed \in Stores
  BY <1>2 DEF Stores
<1> HIDE DEF freed, new
<1>8. /\ mem' \in Stores /\ mem'.index = mem.index /\ mem'.dedup = mem.dedup
      /\ mem'.sb = [mem.sb EXCEPT ![p] = new] /\ mem'.store = mem.store
      /\ mem'.modified = mem.modified /\ mem'.used = freed.used \cup {new}
  <2>1. mem' = [store |-> freed.store, modified |-> freed.modified, index |-> freed.index,
                dedup |-> freed.dedup, used |-> freed.used \cup {new},
                sb |-> [freed.sb EXCEPT ![p] = new]]
    BY <1>5, <1>7 DEF Stores
  <2>2. [freed.sb EXCEPT ![p] = new] \in Superblocks
    BY <1>2, <1>6, <1>7 DEF Superblocks, Pointers
  <2>3. mem' \in Stores
    BY <1>6, <1>7, <2>1, <2>2 DEF Stores
  <2> QED
    BY <1>7, <2>1, <2>3
<1>9. mem'.sb.index \in {mem.sb.index, 0, new} /\ mem'.sb.dedup \in {mem.sb.dedup, 0, new}
  BY <1>2, <1>8 DEF Superblocks
<1>10. /\ disk' \in Disks /\ disk'.pages[new] = page
       /\ \A b \in Blocks : b # new => disk'.pages[b] = disk.pages[b]
  BY <1>2, <1>4, <1>5, <1>6, PageWritten
<1>11. SecondTypes'
  BY <1>1, <1>3, <1>8, <1>10 DEF SecondTypes
<1>12. SecondWork'
  BY <1>1, <1>2, <1>3, <1>8 DEF SecondWork
<1>13. Undeleted'
  BY <1>1, <1>3, <1>8 DEF Undeleted
<1>14. ASSUME NEW id \in Ids, mem'.store[id] = None, mem'.index[id] # 0
       PROVE  LeafAlone(id) /\ mem.index[id] \in freed.used
  <2>1. LeafAlone(id)
    BY <1>2, <1>8, <1>14 DEF LeavesAlone
  <2>2. mem.sb[p] \in {mem.sb.index, mem.sb.dedup}
    BY <1>2
  <2> QED
    BY <1>7, <2>1, <2>2 DEF LeafAlone, Alone
<1>15. \A id \in Ids : mem'.store[id] = None /\ mem'.index[id] # 0 =>
         /\ mem.store[id] = None /\ mem'.index[id] = mem.index[id]
         /\ LeafAlone(id) => mem.index[id] \in mem'.used \ {new}
  BY <1>6, <1>8, <1>14
<1>16. /\ \A id \in Ids : mem'.index[id] \in {mem.index[id], 0, new}
       /\ \A e \in Dims : mem'.dedup[e].block \in {mem.dedup[e].block, 0, new}
       /\ disk'.pages[new].kind # "leaf" /\ work' = None
  BY <1>1, <1>2, <1>4, <1>8, <1>10
<1>17. LeavesAlone'
  BY <1>2, <1>8, <1>9, <1>10, <1>15, <1>16, LeavesStay
<1> QED
  BY <1>11, <1>12, <1>13, <1>17 DEF Second

\* An empty dedup table.
LEMMA DropSecond ==
  ASSUME Second, DropDedup
  PROVE  Second'
<1>1. /\ pc = "dedup" /\ pc' = "checkpoint"
      /\ mem' = [mem EXCEPT !.used = @ \ {mem.sb.dedup}, !.sb.dedup = 0]
      /\ UNCHANGED <<disk, todo, work, pending, expected>>
  BY DEF DropDedup, unsynced
<1>2. /\ mem \in Stores /\ disk \in Disks /\ LeavesAlone /\ work = None /\ todo = {}
      /\ mem.sb \in Superblocks
  BY <1>1 DEF Second, SecondTypes, SecondWork, Stores
<1>3. SecondTypes /\ SecondWork /\ Undeleted
  BY DEF Second
<1>4. /\ mem'.index = mem.index /\ mem'.dedup = mem.dedup /\ mem'.store = mem.store
      /\ mem'.sb = [mem.sb EXCEPT !.dedup = 0] /\ mem'.used = mem.used \ {mem.sb.dedup}
      /\ mem'.modified = mem.modified
  BY <1>1, <1>2 DEF Stores
<1>5. mem' \in Stores
  <2>1. mem'.sb \in Superblocks
    BY <1>2, <1>4 DEF Superblocks, Pointers
  <2> QED
    BY <1>1, <1>2, <1>4, <2>1 DEF Stores
<1>6. mem'.sb.index = mem.sb.index /\ mem'.sb.dedup = 0
  BY <1>2, <1>4 DEF Superblocks
<1>7. SecondTypes'
  BY <1>1, <1>3, <1>5 DEF SecondTypes
<1>8. SecondWork'
  BY <1>1, <1>2, <1>3, <1>4 DEF SecondWork
<1>9. Undeleted'
  BY <1>1, <1>3, <1>4 DEF Undeleted
<1>10. \A id \in Ids : mem'.store[id] = None /\ mem'.index[id] # 0 =>
         /\ mem.store[id] = None /\ mem'.index[id] = mem.index[id]
         /\ LeafAlone(id) => mem.index[id] \in mem'.used \ {0}
  BY <1>4 DEF LeafAlone, Alone
<1>11. 0 \notin Blocks
  BY DEF Blocks
<1>12. /\ \A id \in Ids : mem'.index[id] \in {mem.index[id], 0}
       /\ \A e \in Dims : mem'.dedup[e].block \in {mem.dedup[e].block, 0}
       /\ \A b \in Blocks : disk'.pages[b] = disk.pages[b]
       /\ work' = None
  BY <1>1, <1>2, <1>4
<1>13. LeavesAlone'
  BY <1>2, <1>5, <1>6, <1>10, <1>11, <1>12, LeavesStay
<1> QED
  BY <1>7, <1>8, <1>9, <1>13 DEF Second

\* The writes of pointers and bitmap, which no read of memory depends on.
LEMMA FlushSecond ==
  ASSUME Second,
         \/ SyncVolume \/ SyncVolumeBitmap \/ WriteIndexPointer \/ WriteDedupPointer
         \/ CheckpointSync \/ CheckpointSyncBitmap
  PROVE  Second'
<1>1. /\ disk' = [disk EXCEPT !.sb = mem.sb] \/ disk' = [disk EXCEPT !.used = mem.used]
      /\ mem' = [mem EXCEPT !.modified = {}] \/ mem' = mem
      /\ pc = "particles" => todo = {} /\ work = None
      /\ pc' # "particles"
      /\ UNCHANGED <<todo, work, pending, expected>>
  BY DEF SyncVolume, SyncVolumeBitmap, WriteIndexPointer, WriteDedupPointer, CheckpointSync,
         CheckpointSyncBitmap, FlushSuperblock, FlushBitmap, unsynced
<1>2. /\ mem \in Stores /\ disk \in Disks /\ todo \in SUBSET Ids /\ pending \in Writes \cup {None}
      /\ todo = {} /\ work = None /\ \A id \in mem.modified : mem.store[id] # None
  BY <1>1 DEF Second, SecondTypes, SecondWork
<1>3. disk' \in Disks /\ disk'.pages = disk.pages
  BY <1>1, <1>2 DEF Disks, Stores
<1>4. /\ mem' \in Stores /\ mem'.store = mem.store /\ mem'.index = mem.index
      /\ mem'.sb = mem.sb /\ mem'.used = mem.used /\ mem'.dedup = mem.dedup
      /\ mem'.modified \subseteq mem.modified
  BY <1>1, <1>2 DEF Stores
<1>5. SecondWork'
  BY <1>1, <1>2, <1>4 DEF SecondWork
<1> QED
  BY <1>1, <1>2, <1>3, <1>4, <1>5, ElseSecond

\* The calls that start or end without changing memory.
LEMMA CallSecond ==
  ASSUME Second, UNCHANGED <<mem, disk, work, expected>>, pc # "particles",
         todo' = mem.modified \/ todo' = {}, pc' # "particles" => todo' = {},
         pending' \in Writes \cup {None}
  PROVE  Second'
<1>1. /\ mem \in Stores /\ disk \in Disks /\ mem.modified \in SUBSET Ids /\ work = None
      /\ \A id \in mem.modified : mem.store[id] # None
  BY DEF Second, SecondTypes, SecondWork, Stores
<1>2. SecondWork'
  BY <1>1 DEF SecondWork
<1> QED
  BY <1>1, <1>2, ElseSecond

\* Without a process nothing is under way.
Idling == ~ Running => todo = {} /\ work = None /\ pending = None

\* Every step keeps that.
LEMMA StepIdling == Idling /\ [Next]_vars => Idling'
<1> SUFFICES ASSUME Idling, [Next]_vars, ~ Running'
             PROVE  todo' = {} /\ work' = None /\ pending' = None
  BY DEF Idling
<1>1. CASE UNCHANGED vars
  BY <1>1 DEF vars, Idling, Running
<1>2. CASE Next /\ Running
  <2>1. Close \/ Crash
    BY <1>2, OnlyGone
  <2> QED
    BY <2>1 DEF Close, Crash, Gone
<1>3. CASE Next /\ ~ Running
  <2>1. ~ Opening
    <3> SUFFICES ASSUME Opening PROVE pc' = "ready"
      BY DEF Running
    <3> QED
      BY DEF Opening, Open
  <2>2. UNCHANGED vars
    BY <1>3, <2>1, NothingElse DEF Idling, Running
  <2> QED
    BY <1>3, <2>2 DEF vars, Idling
<1> QED
  BY <1>1, <1>2, <1>3

\* Every step of the session after a crash keeps the leaves that it needs on
\* their own.
LEMMA StepSecond ==
  ASSUME PersistInv, CrashInv, ApartInv, StandInv, SecondInv, Idling, [Next]_vars
  PROVE  SecondInv'
<1> SUFFICES ASSUME opens' = 2, crashes' > 0, failures' = {}, Running'
             PROVE  Second'
  BY DEF SecondInv
<1>1. /\ failures \subseteq failures' /\ opens' \in {opens, opens + 1} /\ opens \in Nat \ {0}
      /\ crashes \in Nat /\ crashes' \in {crashes, crashes + 1}
  BY DamageStays, SessionsCount DEF PersistInv, CrashInv
<1>2. CASE Opening
  <2>1. opens = 1 /\ ~ Running /\ crashes' = crashes
    <3>1. opens' = opens + 1 /\ pc = "closed" /\ crashes' = crashes
      BY <1>2 DEF Opening, Open
    <3> QED
      BY <1>1, <3>1 DEF Running
  <2>2. Tracked /\ Apart /\ LeavesStand /\ todo = {} /\ pending = None
    BY <1>1, <2>1 DEF CrashInv, ApartInv, StandInv, Idling
  <2> QED
    BY <1>1, <1>2, <2>1, <2>2, OpenSecond
<1>3. ASSUME ~ Opening, ~ Running PROVE Second'
  <2>1. UNCHANGED vars
    BY <1>3, NothingElse DEF Idling, Running
  <2> QED
    BY <1>3, <2>1 DEF vars, Running
<1>4. ASSUME ~ Opening, Running PROVE Second'
  <2>1. opens' = opens
    BY <1>4, OpensStay
  <2>2. ~ (Close \/ Crash)
    BY DEF Close, Crash, Gone, Running
  <2>3. crashes' = crashes
    BY <2>2, <1>4, CrashesStay
  <2>4. Second
    BY <1>1, <1>4, <2>1, <2>3 DEF SecondInv
  <2>5. pending \in Writes \cup {None} /\ SecondTypes /\ SecondWork
    BY <2>4 DEF Second, SecondTypes
  <2>6. ASSUME NEW id \in Ids, NEW c \in Contents, Write(id, c) PROVE Second'
    BY <2>4, <2>6, WriteSecond DEF Write, Called, Writes
  <2>7. ASSUME NEW id \in Ids, NEW c \in Contents, WriteFull(id, c) PROVE Second'
    <3>1. WriteOp(id, c) \in Writes
      BY DEF Writes
    <3> QED
      BY <2>4, <2>7, <3>1, CallSecond DEF WriteFull, Called
  <2>8. ASSUME NEW id \in Ids, LoadParticle(id) PROVE Second'
    BY <2>4, <2>8, LoadSecond
  <2>9. CASE SyncBegin
    BY <2>4, <2>5, <2>9, CallSecond DEF SyncBegin, Called
  <2>10. ASSUME NEW id \in Ids, BeginParticle(id) PROVE Second'
    BY <2>4, <2>10, BeginSecond
  <2>11. CASE WriteDimension
    BY <2>4, <2>11, DimensionSecond
  <2>12. CASE WriteLeaf
    BY <2>4, <2>12, LeafSecond
  <2>13. CASE \/ SyncVolume \/ SyncVolumeBitmap \/ WriteIndexPointer \/ WriteDedupPointer
              \/ CheckpointSync \/ CheckpointSyncBitmap
    BY <2>4, <2>13, FlushSecond
  <2>14. CASE WriteIndex \/ WriteDedup
    BY <2>4, <2>14, TableSecond
  <2>15. CASE DropDedup
    BY <2>4, <2>15, DropSecond
  <2>16. CASE WriteCheckpoint
    <3>1. log.offset < JournalCells
      <4> SUFFICES ASSUME ~ (log.offset < JournalCells) PROVE "overrun" \in failures'
        OBVIOUS
      <4> QED
        BY <2>16 DEF WriteCheckpoint
    <3>2. /\ pc = "checkpoint" /\ pc' = "last_sb"
          /\ UNCHANGED <<mem, disk, todo, work, pending, expected>>
      BY <2>16, <3>1 DEF WriteCheckpoint
    <3>3. todo = {}
      BY <2>5, <3>2 DEF SecondWork
    <3> QED
      BY <2>4, <2>5, <3>2, <3>3, CallSecond
  <2>17. ~ SyncFails /\ ~ LeafTooLarge
    <3> SUFFICES ASSUME SyncFails \/ LeafTooLarge PROVE "error" \in failures'
      OBVIOUS
    <3> QED
      BY DEF SyncFails, LeafTooLarge
  <2>18. CASE Retry
    <3>1. /\ pending \in Writes /\ pc = "retry" /\ pending' = None /\ UNCHANGED <<disk, work>>
      BY <2>5, <2>18, PersistAssumption DEF Retry
    <3>2. CASE Fits(pending)
      <4>1. LoggedWrite(pending)
        BY <2>18, <3>2 DEF Retry
      <4> QED
        BY <2>4, <3>1, <4>1, WriteSecond
    <3>3. CASE ~ Fits(pending)
      <4>1. pc' = "ready" /\ UNCHANGED <<mem, todo, expected>>
        BY <2>18, <3>3 DEF Retry
      <4>2. todo = {}
        BY <2>5, <3>1 DEF SecondWork
      <4> QED
        BY <2>4, <3>1, <4>1, <4>2, CallSecond
    <3> QED
      BY <3>2, <3>3
  <2>19. ASSUME NEW id \in Ids, Delete(id) PROVE Second'
    BY <2>4, <2>19, DeleteSecond
  <2>20. CASE UNCHANGED vars
    <3>1. UNCHANGED <<mem, disk, pc, todo, work, pending, expected>>
      BY <2>20 DEF vars
    <3>2. SecondWork'
      BY <2>5, <3>1 DEF SecondWork
    <3> QED
      BY <2>4, <2>5, <3>1, <3>2, ElseSecond DEF SecondTypes
  <2> QED
    BY <1>4, <2>2, <2>6, <2>7, <2>8, <2>9, <2>10, <2>11, <2>12, <2>13, <2>14, <2>15, <2>16,
       <2>17, <2>18, <2>19, <2>20 DEF Next, Step, SyncStep
<1> QED
  BY <1>2, <1>3, <1>4

\* What was deleted is not found again, neither in the session that deleted it
\* nor in the one after a crash of that session, wherever it was cut off, opened
\* with load_all or without.  A load_all that finds the index empty is left out:
\* it brings deleted particles back.  The file system gives every particle
\* dimensions: a particle without any is the one whose leaf a dedup table that is
\* no longer in force may name.
THEOREM DeletedStaysAway ==
  ASSUME {} \notin Contents
  PROVE  Spec => []DeletedStaysDeleted
<1>1. Init => CrashInv /\ ApartInv /\ StandInv /\ SecondInv /\ Idling
  <2> SUFFICES ASSUME Init PROVE SecondInv /\ Idling
    BY InitTracked, InitApart, InitStands
  <2> QED
    BY DEF Init, SecondInv, Idling
<1>2. PersistInv /\ CrashInv /\ PersistInv' /\ CrashInv' /\ ApartInv /\ StandInv /\ SecondInv
        /\ Idling /\ [Next]_vars
      => ApartInv' /\ StandInv' /\ SecondInv' /\ Idling'
  BY StepApart, StepStand, StepSecond, StepIdling
<1>3. CrashInv /\ SecondInv => DeletedStaysDeleted
  <2> SUFFICES ASSUME CrashInv, SecondInv, Running, failures = {},
                      opens = 1 \/ (opens = 2 /\ crashes > 0),
                      NEW id \in Ids, expected[id] = None
               PROVE  Visible(mem, id) = None
    BY DEF DeletedStaysDeleted
  <2>1. Undeleted
    BY DEF CrashInv, SecondInv, Tracked, Second
  <2>2. mem.store[id] = None /\ mem.index[id] = 0
    BY <2>1 DEF Undeleted
  <2>3. ~ IsLeaf(0)
    BY DEF IsLeaf, Page, NoPage
  <2> QED
    BY <2>2, <2>3 DEF Visible
<1>4. PersistInv /\ CrashInv /\ [Next]_vars => CrashInv'
  BY StepTracked
<1> QED
  BY <1>1, <1>2, <1>3, <1>4, PersistInvariant, PTL DEF Spec
=============================================================================
