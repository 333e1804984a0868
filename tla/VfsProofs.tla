----------------------------- MODULE VfsProofs -----------------------------
(***************************************************************************)
(* The particle store in memory and the file system on top of it, for any  *)
(* names, directories and calls: the incoming index is exact, inode        *)
(* numbers are not given twice, cached indexes are the stored ones, and    *)
(* in the first process names, particles and bonds agree at every logged   *)
(* write.                                                                  *)
(***************************************************************************)
EXTENDS Vfs, FiniteSetTheorems, SequenceTheorems, WellFoundedInduction, TLAPS

-----------------------------------------------------------------------------
(* The incoming index of the particle store.                               *)

\* The particles in memory are particles (the type of the map in store.rs).
ParticlesOK ==
  /\ DOMAIN particles \subseteq Ids
  /\ \A id \in DOMAIN particles : particles[id] \in Particles

\* What follows says of every entry of the index, one at a time.
LEMMA ReferencesOf ==
  ASSUME NEW ps, NEW r
  PROVE  r \in AllReferences(ps)
           <=> \E id \in DOMAIN ps : \E k \in DOMAIN ps[id].gravity :
                 r = <<ps[id].gravity[k], id, k>>
BY DEF AllReferences, References

\* write replaces the entries of the particle and no others.
LEMMA StoredKeepsExact ==
  ASSUME IncomingExact, NEW new, Stored(new)
  PROVE  IncomingExact'
<1> DEFINE all == Merge(particles, new)
<1>1. \A r : r \in incoming' <=> r \in AllReferences(all)
  <2> SUFFICES ASSUME NEW r PROVE r \in incoming' <=> r \in AllReferences(all)
    OBVIOUS
  <2>1. DOMAIN all = DOMAIN particles \cup DOMAIN new
    BY DEF Merge
  <2>2. \A id \in DOMAIN all : all[id] = IF id \in DOMAIN new THEN new[id] ELSE particles[id]
    BY DEF Merge
  <2>3. r \in incoming' <=> \/ r \in AllReferences(particles) /\ r[2] \notin DOMAIN new
                            \/ r \in AllReferences(new)
    BY DEF Stored, IncomingExact
  <2>4. ASSUME r \in AllReferences(particles), r[2] \notin DOMAIN new
        PROVE  r \in AllReferences(all)
    <3>1. PICK id \in DOMAIN particles : \E k \in DOMAIN particles[id].gravity :
                 r = <<particles[id].gravity[k], id, k>>
      BY <2>4, ReferencesOf
    <3>2. id \notin DOMAIN new
      BY <3>1, <2>4
    <3> QED BY <3>1, <3>2, <2>1, <2>2, ReferencesOf
  <2>5. ASSUME r \in AllReferences(new) PROVE r \in AllReferences(all)
    <3>1. PICK id \in DOMAIN new : \E k \in DOMAIN new[id].gravity :
                 r = <<new[id].gravity[k], id, k>>
      BY <2>5, ReferencesOf
    <3> QED BY <3>1, <2>1, <2>2, ReferencesOf
  <2>6. ASSUME r \in AllReferences(all)
        PROVE  \/ r \in AllReferences(particles) /\ r[2] \notin DOMAIN new
               \/ r \in AllReferences(new)
    <3>1. PICK id \in DOMAIN all : \E k \in DOMAIN all[id].gravity :
                 r = <<all[id].gravity[k], id, k>>
      BY <2>6, ReferencesOf
    <3>2. CASE id \in DOMAIN new
      BY <3>1, <3>2, <2>2, ReferencesOf
    <3>3. CASE id \notin DOMAIN new
      BY <3>1, <3>3, <2>1, <2>2, ReferencesOf
    <3> QED BY <3>2, <3>3
  <2> QED BY <2>3, <2>4, <2>5, <2>6
<1>2. particles' = all
  BY DEF Stored
<1>3. incoming' = UNION {References(id, all[id]) : id \in DOMAIN all}
  <2>1. AllReferences(all) = UNION {References(id, all[id]) : id \in DOMAIN all}
    BY DEF AllReferences
  <2>2. incoming' = AllReferences(all)
    BY <1>1
  <2> QED BY <2>1, <2>2
<1> QED BY <1>2, <1>3 DEF IncomingExact, AllReferences

\* delete clears the lists of the targets of the particle: all that name it.
LEMMA RemovedKeepsExact ==
  ASSUME IncomingExact, NEW id \in DOMAIN particles, Removed(id)
  PROVE  IncomingExact'
<1> DEFINE rest == Drop(particles, id)
<1>1. DOMAIN rest = DOMAIN particles \ {id} /\ \A i \in DOMAIN rest : rest[i] = particles[i]
  BY DEF Drop
<1>2. ASSUME NEW r PROVE r \in incoming' <=> r \in AllReferences(rest)
  <2>1. r \in incoming' <=> /\ r \in AllReferences(particles)
                            /\ \/ r[2] # id
                               \/ \A k \in DOMAIN particles[id].gravity :
                                    particles[id].gravity[k] # r[1]
    BY DEF Removed, IncomingExact
  <2>2. ASSUME r \in incoming' PROVE r \in AllReferences(rest)
    <3>1. PICK i \in DOMAIN particles : \E k \in DOMAIN particles[i].gravity :
                 r = <<particles[i].gravity[k], i, k>>
      BY <2>1, <2>2, ReferencesOf
    <3>2. i # id
      BY <3>1, <2>1, <2>2
    <3> QED BY <3>1, <3>2, <1>1, ReferencesOf
  <2>3. ASSUME r \in AllReferences(rest) PROVE r \in incoming'
    <3>1. PICK i \in DOMAIN rest : \E k \in DOMAIN rest[i].gravity :
                 r = <<rest[i].gravity[k], i, k>>
      BY <2>3, ReferencesOf
    <3>2. r \in AllReferences(particles) /\ r[2] # id
      BY <3>1, <1>1, ReferencesOf
    <3> QED BY <3>2, <2>1
  <2> QED BY <2>2, <2>3
<1>3. incoming' = UNION {References(i, rest[i]) : i \in DOMAIN rest}
  <2>1. incoming' = AllReferences(rest)
    BY <1>2
  <2> QED BY <2>1 DEF AllReferences
<1>4. particles' = rest
  BY DEF Removed
<1> QED BY <1>3, <1>4 DEF IncomingExact, AllReferences

\* A dimension is no bond.
LEMMA DimensionKeepsExact ==
  ASSUME ParticlesOK, IncomingExact, NEW id, NEW dims, WriteDimension(id, dims)
  PROVE  IncomingExact'
<1>1. DOMAIN particles' = DOMAIN particles
  BY DEF WriteDimension
<1>2. \A i \in DOMAIN particles : particles'[i].gravity = particles[i].gravity
  BY DEF WriteDimension, ParticlesOK, Particles
<1>3. \A i \in DOMAIN particles : References(i, particles'[i]) = References(i, particles[i])
  BY <1>2 DEF References
<1>4. UNION {References(i, particles'[i]) : i \in DOMAIN particles}
        = UNION {References(i, particles[i]) : i \in DOMAIN particles}
  BY <1>3
<1> QED BY <1>1, <1>4 DEF IncomingExact, AllReferences, WriteDimension

\* Writes, deletes and changed dimensions leave particles in the map.
LEMMA ParticlesStayOK ==
  ASSUME ParticlesOK, StoreNext
  PROVE  ParticlesOK'
<1>1. ASSUME NEW id \in Ids, NEW p \in Particles, WriteParticle(id, p)
      PROVE  ParticlesOK'
  BY <1>1 DEF WriteParticle, Stored, Merge, ParticlesOK
<1>2. ASSUME NEW id \in Ids, DeleteParticle(id) PROVE ParticlesOK'
  BY <1>2 DEF DeleteParticle, Removed, Drop, ParticlesOK
<1>3. ASSUME NEW id \in Ids, NEW dims \in Dims, WriteDimension(id, dims) PROVE ParticlesOK'
  BY <1>3 DEF WriteDimension, ParticlesOK, Particles
<1> QED BY <1>1, <1>2, <1>3 DEF StoreNext

\* The incoming index of the store is exact after any writes, deletes and
\* changes of dimensions (store.rs:82, store.rs:105).
THEOREM IncomingIsExact == StoreSpec => []IncomingExact
<1>1. StoreInit => ParticlesOK /\ IncomingExact
  BY DEF StoreInit, ParticlesOK, IncomingExact, AllReferences, Empty
<1>2. ParticlesOK /\ IncomingExact /\ [StoreNext]_storeVars => (ParticlesOK /\ IncomingExact)'
  <2> SUFFICES ASSUME ParticlesOK, IncomingExact, [StoreNext]_storeVars
               PROVE  (ParticlesOK /\ IncomingExact)'
    OBVIOUS
  <2>1. CASE StoreNext
    <3>1. IncomingExact'
      <4>1. ASSUME NEW id \in Ids, NEW p \in Particles, WriteParticle(id, p)
            PROVE  IncomingExact'
        BY <4>1, StoredKeepsExact DEF WriteParticle
      <4>2. ASSUME NEW id \in Ids, DeleteParticle(id) PROVE IncomingExact'
        BY <4>2, RemovedKeepsExact DEF DeleteParticle
      <4>3. ASSUME NEW id \in Ids, NEW dims \in Dims, WriteDimension(id, dims)
            PROVE  IncomingExact'
        BY <4>3, DimensionKeepsExact
      <4> QED BY <2>1, <4>1, <4>2, <4>3 DEF StoreNext
    <3> QED BY <2>1, <3>1, ParticlesStayOK
  <2>2. CASE UNCHANGED storeVars
    BY <2>2 DEF storeVars, ParticlesOK, IncomingExact, AllReferences, References
  <2> QED BY <2>1, <2>2
<1> QED BY <1>1, <1>2, PTL DEF StoreSpec

-----------------------------------------------------------------------------
(* Folds over sequences.                                                   *)

\* A set of natural numbers has a least element, a bounded one a greatest.
LEMMA LeastIn ==
  ASSUME NEW T \in SUBSET Nat, T # {}
  PROVE  \E x \in T : \A y \in T : x <= y
<1> DEFINE R == OpToRel(<, Nat)
<1>1. IsWellFoundedOn(R, Nat)
  BY NatLessThanWellFounded
<1>2. PICK x \in T : \A y \in T : ~ (<<y, x>> \in R)
  BY <1>1, WFMin
<1>3. \A y \in T : ~ (y < x)
  BY <1>2 DEF OpToRel
<1> QED
  BY <1>3

\* The maximum the modules use is that greatest element.
LEMMA MaxOf ==
  ASSUME NEW n \in Nat, NEW s \in SUBSET (1 .. n), s # {}
  PROVE  /\ Max(s) \in s
         /\ \A y \in s : y <= Max(s)
<1> DEFINE below == {n - y : y \in s}
<1>1. PICK y \in s : TRUE
  OBVIOUS
<1>2. n - y \in below /\ below \in SUBSET Nat
  OBVIOUS
<1>3. PICK d \in below : \A e \in below : d <= e
  BY <1>2, LeastIn
<1>4. PICK x \in s : d = n - x
  OBVIOUS
<1>5. ASSUME NEW z \in s PROVE x >= z
  <2>1. d <= n - z
    BY <1>3
  <2> QED
    BY <2>1, <1>4
<1>6. Max(s) \in s /\ \A z \in s : Max(s) >= z
  BY <1>5 DEF Max
<1> QED
  BY <1>6

\* What holds of the empty set and comes from a set without its greatest
\* element to the set holds of all sets of positions.
LEMMA FoldInduction ==
  ASSUME NEW n \in Nat, NEW Good, {} \in Good,
         \A s \in SUBSET (1 .. n) : s # {} /\ s \ {Max(s)} \in Good => s \in Good
  PROVE  SUBSET (1 .. n) \subseteq Good
<1> DEFINE bad == {s \in SUBSET (1 .. n) : s \notin Good}
           sizes == {Cardinality(s) : s \in bad}
<1>1. \A s \in SUBSET (1 .. n) : IsFiniteSet(s) /\ Cardinality(s) \in Nat
  <2>1. IsFiniteSet(1 .. n)
    BY FS_Interval
  <2> QED BY <2>1, FS_Subset, FS_CardinalityType
<1>2. ASSUME bad # {} PROVE FALSE
  <2>1. sizes \in SUBSET Nat /\ sizes # {}
    BY <1>1, <1>2
  <2>2. PICK k \in sizes : \A m \in sizes : k <= m
    <3> HIDE DEF sizes
    <3> QED BY <2>1, LeastIn
  <2>3. PICK s \in bad : Cardinality(s) = k
    OBVIOUS
  <2> DEFINE rest == s \ {Max(s)}
  <2>4. s \in SUBSET (1 .. n) /\ s # {} /\ Max(s) \in s
    BY MaxOf
  <2>5. rest \in bad
    BY <2>4
  <2>6. Cardinality(rest) = Cardinality(s) - 1
    BY <1>1, <2>4, FS_RemoveElement
  <2>7. Cardinality(rest) \in sizes
    BY <2>5
  <2>8. k <= Cardinality(rest) /\ Cardinality(s) \in Nat
    <3> HIDE DEF rest, sizes
    <3> QED BY <2>2, <2>7, <1>1, <2>4
  <2> HIDE DEF rest, sizes, bad
  <2> QED BY <2>3, <2>6, <2>8
<1> QED BY <1>2

Among(bonds, x) == \E k \in DOMAIN bonds : bonds[k] = x

\* retain drops the target and nothing else.
LEMMA RetainedIs ==
  ASSUME NEW S, NEW bonds \in Seq(S), NEW target
  PROVE  /\ Retained(bonds, target) \in Seq(S)
         /\ \A x : Among(Retained(bonds, target), x) <=> x # target /\ Among(bonds, x)
<1> DEFINE n == Len(bonds)
           one(acc, t) == IF t = target THEN acc ELSE Append(acc, t)
           turn(f, r) == IF r = {} THEN <<>> ELSE one(f[r \ {Max(r)}], bonds[Max(r)])
           body(f) == [r \in SUBSET (1 .. n) |-> turn(f, r)]
           Good == {s \in SUBSET (1 .. n) :
                      \E f : f = [r \in SUBSET s |-> turn(f, r)]}
           fold == CHOOSE f : f = body(f)
<1>0. n \in Nat /\ DOMAIN bonds = 1 .. n
  OBVIOUS
<1> HIDE DEF one
<1>1. {} \in Good
  <2> DEFINE f == [r \in SUBSET {} |-> <<>>]
  <2>1. f = [r \in SUBSET {} |-> turn(f, r)]
    OBVIOUS
  <2> HIDE DEF f
  <2> QED BY <2>1
<1>2. ASSUME NEW s \in SUBSET (1 .. n), s # {}, s \ {Max(s)} \in Good
      PROVE  s \in Good
  <2> DEFINE rest == s \ {Max(s)}
  <2>1. PICK g : g = [r \in SUBSET rest |-> turn(g, r)]
    BY <1>2
  <2> DEFINE f == [r \in SUBSET s |-> IF r \in SUBSET rest THEN g[r]
                                      ELSE one(g[r \ {Max(r)}], bonds[Max(r)])]
  <2>2. ASSUME NEW r \in SUBSET s PROVE f[r] = turn(f, r)
    <3>1. CASE r \in SUBSET rest
      <4>1. f[r] = g[r] /\ g[r] = turn(g, r)
        <5>1. g[r] = turn(g, r)
          <6> HIDE DEF turn
          <6> QED BY <2>1, <3>1
        <5> QED BY <3>1, <5>1
      <4>2. r \ {Max(r)} \in SUBSET rest /\ r \ {Max(r)} \in SUBSET s
        BY <3>1
      <4>3. f[r \ {Max(r)}] = g[r \ {Max(r)}]
        BY <4>2
      <4> HIDE DEF f
      <4> QED BY <4>1, <4>3
    <3>2. CASE r \notin SUBSET rest
      <4>1. r # {} /\ Max(s) \in r
        BY <3>2
      <4>2. Max(r) = Max(s)
        <5>1. r \in SUBSET (1 .. n)
          OBVIOUS
        <5>2. Max(r) \in r /\ Max(s) <= Max(r)
          BY <1>0, <4>1, <5>1, MaxOf
        <5>3. Max(r) <= Max(s) /\ Max(s) \in s
          BY <1>0, <1>2, <5>2, MaxOf
        <5>4. Max(s) \in 1 .. n /\ Max(r) \in 1 .. n
          BY <5>1, <5>2, <5>3
        <5> HIDE DEF n
        <5> QED BY <1>0, <5>2, <5>3, <5>4
      <4>3. r \ {Max(r)} \in SUBSET rest /\ r \ {Max(r)} \in SUBSET s
        BY <4>2
      <4>4. f[r \ {Max(r)}] = g[r \ {Max(r)}]
        BY <4>3
      <4>5. f[r] = one(g[r \ {Max(r)}], bonds[Max(r)])
        BY <3>2
      <4> HIDE DEF f
      <4> QED BY <4>1, <4>4, <4>5
    <3> QED BY <3>1, <3>2
  <2> HIDE DEF turn
  <2>3. f = [r \in SUBSET s |-> turn(f, r)]
    <3> DEFINE h == [r \in SUBSET s |-> turn(f, r)]
    <3>1. \A r \in SUBSET s : f[r] = h[r]
      <4> HIDE DEF f
      <4> QED BY <2>2
    <3>2. DOMAIN f = SUBSET s /\ f = [r \in SUBSET s |-> f[r]]
      OBVIOUS
    <3>3. h = [r \in SUBSET s |-> h[r]]
      OBVIOUS
    <3> HIDE DEF f, h
    <3>4. f = h
      BY <3>1, <3>2, <3>3
    <3> QED BY <3>4 DEF h
  <2> HIDE DEF f
  <2> QED BY <2>3
<1>3. SUBSET (1 .. n) \subseteq Good
  <2> HIDE DEF Good
  <2> QED BY <1>0, <1>1, <1>2, FoldInduction
<1>4. fold = body(fold)
  <2>1. 1 .. n \in Good
    <3> HIDE DEF Good
    <3> QED BY <1>3
  <2>2. \E f : f = body(f)
    <3> HIDE DEF turn
    <3>1. PICK f : f = [r \in SUBSET (1 .. n) |-> turn(f, r)]
      BY <2>1, Zenon
    <3> QED BY <3>1, Zenon
  <2> HIDE DEF body
  <2> QED BY <2>2
<1>5. \A s \in SUBSET (1 .. n) : fold[s] = turn(fold, s)
  <2> HIDE DEF turn, fold
  <2> QED BY <1>4
<1>6. Retained(bonds, target) = fold[1 .. n]
  BY <1>0, Zenon DEF Retained, FoldLeft, MapThenFoldSet, one
<1> HIDE DEF fold
<1> DEFINE right(s) == /\ fold[s] \in Seq(S)
                       /\ \A x : (\E k \in DOMAIN fold[s] : fold[s][k] = x)
                                   <=> x # target /\ \E k \in s : bonds[k] = x
           Right == {s \in SUBSET (1 .. n) : right(s)}
<1>7. right({})
  <2>1. fold[{}] = <<>>
    BY <1>5
  <2> QED BY <2>1
<1>8. ASSUME NEW s \in SUBSET (1 .. n), s # {}, right(s \ {Max(s)}) PROVE right(s)
  <2> DEFINE rest == s \ {Max(s)}
             acc == fold[rest]
             t == bonds[Max(s)]
  <2>1. fold[s] = one(acc, t)
    <3> HIDE DEF one
    <3> QED BY <1>5, <1>8
  <2>2. Max(s) \in s /\ t \in S
    <3>1. Max(s) \in s
      BY <1>0, <1>8, MaxOf
    <3>2. Max(s) \in 1 .. Len(bonds)
      BY <1>0, <3>1
    <3> QED BY <3>1, <3>2
  <2>3. acc \in Seq(S)
    BY <1>8
  <2>4. ASSUME NEW x
        PROVE  (\E k \in DOMAIN acc : acc[k] = x) <=> x # target /\ \E k \in rest : bonds[k] = x
    BY <1>8
  <2>5. ASSUME NEW x
        PROVE  (\E k \in s : bonds[k] = x) <=> x = t \/ \E k \in rest : bonds[k] = x
    BY <2>2
  <2> HIDE DEF rest, acc, t
  <2>6. CASE t = target
    <3>1. fold[s] = acc
      BY <2>1, <2>6 DEF one
    <3> QED BY <3>1, <2>3, <2>4, <2>5, <2>6
  <2>7. CASE t # target
    <3>1. fold[s] = Append(acc, t)
      BY <2>1, <2>7 DEF one
    <3>2. Append(acc, t) \in Seq(S)
      BY <2>2, <2>3
    <3>3. ASSUME NEW x
          PROVE  (\E k \in DOMAIN Append(acc, t) : Append(acc, t)[k] = x)
                   <=> x = t \/ \E k \in DOMAIN acc : acc[k] = x
      BY <2>2, <2>3, AppendProperties
    <3> QED BY <3>1, <3>2, <3>3, <2>4, <2>5, <2>7
  <2> QED BY <2>6, <2>7
<1> HIDE DEF right
<1>9. SUBSET (1 .. n) \subseteq Right
  <2>1. {} \in Right /\ \A s \in SUBSET (1 .. n) : s # {} /\ s \ {Max(s)} \in Right => s \in Right
    BY <1>7, <1>8
  <2> HIDE DEF Right
  <2> QED BY <1>0, <2>1, FoldInduction
<1>10. right(1 .. n)
  BY <1>9
<1>11. /\ Retained(bonds, target) \in Seq(S)
       /\ \A x : (\E k \in DOMAIN Retained(bonds, target) : Retained(bonds, target)[k] = x)
                   <=> x # target /\ \E k \in DOMAIN bonds : bonds[k] = x
  BY <1>0, <1>6, <1>10 DEF right
<1> QED BY <1>11 DEF Among

-----------------------------------------------------------------------------
(* What an id can name, and what a call can have left to do.               *)

\* The root is in no directory.
Children == Ids \ {Root}
ChildIndexes == UNION {[s -> Children] : s \in SUBSET Names}

StepRecords ==
  [do : {"new"}, at : Children, name : Names, content : Contents \cup {None}]
  \cup [do : {"bond", "unbond"}, at : Ids, id : Children]
  \cup [do : {"name"}, at : Children, name : Names]
  \cup [do : {"content"}, at : Ids, content : Contents]
  \cup [do : {"index"}, at : Ids, index : ChildIndexes]
  \cup [do : {"enter"}, at : Ids, name : Names, id : Children]
  \cup [do : {"delete", "number"}, at : Children]

\* A particle as a call leaves it.
GoodParticle(i, p) ==
  /\ p \in Particles
  /\ p.gravity \in Seq(Children)
  /\ p.dims.index # None => p.dims.index \in ChildIndexes
  /\ i # Root => p.dims.name \in Names

SavedOK ==
  /\ DOMAIN saved \subseteq Ids /\ Root \in DOMAIN saved
  /\ \A i \in DOMAIN saved : GoodParticle(i, saved[i])
  /\ logged \subseteq DOMAIN saved

\* Memory holds nothing but what is saved: every write goes to both.
MemoryOK == \A i \in DOMAIN particles : i \in DOMAIN saved /\ particles[i] = saved[i]

CacheOK == DOMAIN cache \subseteq Ids /\ \A d \in DOMAIN cache : cache[d] \in ChildIndexes

\* Numbers below next are given out or given up, and none is given twice.
TableOK(t) ==
  /\ t = [next |-> t.next, byInode |-> t.byInode, byParticle |-> t.byParticle]
  /\ t.next \in Nat /\ t.next > 0
  /\ DOMAIN t.byInode \subseteq 1 .. t.next - 1
  /\ \A n \in DOMAIN t.byInode : t.byInode[n] \in Ids
  /\ \A id \in DOMAIN t.byParticle :
       /\ t.byParticle[id] \in DOMAIN t.byInode
       /\ t.byInode[t.byParticle[id]] = id

HandlesOK ==
  \A h \in DOMAIN handles :
    /\ handles[h].inode \in 1 .. inodes.next - 1
    /\ handles[h].inode \in DOMAIN inodes.byInode
         => inodes.byInode[handles[h].inode] = handles[h].file

VfsInv ==
  /\ SavedOK /\ MemoryOK /\ CacheOK /\ steps \in Seq(StepRecords)
  /\ TableOK(inodes) /\ HandlesOK
  /\ IncomingExact
  /\ restarts \in Nat

-----------------------------------------------------------------------------
(* Cached indexes.                                                         *)

\* A call makes its new particle first, while no index of it is cached.
NewFirst ==
  \A k \in DOMAIN steps : steps[k].do = "new" => k = 1 /\ steps[k].at \notin DOMAIN cache

CacheInv == CacheMatches /\ NewFirst

-----------------------------------------------------------------------------
(* Names and bonds in the first process.                                   *)

NotNamed(id) == \A d \in DOMAIN cache : \A n \in DOMAIN cache[d] : cache[d][n] # id
BondedIn(ps, d, id) == Among(ps[d].gravity, id)
Bonded(d, id) == BondedIn(saved, d, id)
NotBonded(id) == \A d \in DOMAIN saved : ~Bonded(d, id)
OnlyBondedBy(d, id) == Bonded(d, id) /\ \A e \in DOMAIN saved : Bonded(e, id) => e = d
Entry(d, n, id) == d \in DOMAIN cache /\ n \in DOMAIN cache[d] /\ cache[d][n] = id
Ready(id, n) == id \in DOMAIN saved /\ saved[id].dims.name = n

\* A directory without an index is empty, but for the bonds of P.
PlainOK(P) ==
  \A d \in DOMAIN saved \ DOMAIN cache :
    saved[d].dims.index = None /\ \A id \in Ids : Bonded(d, id) => <<d, id>> \in P

\* An entry has the name of its particle, unless it is one of X, and is bonded
\* to it, unless it is one of B; no other directory is.
EntriesOK(X, B) ==
  \A d \in DOMAIN cache : \A n \in DOMAIN cache[d] :
    /\ cache[d][n] \in DOMAIN saved
    /\ \A e \in DOMAIN saved : Bonded(e, cache[d][n]) => e = d
    /\ saved[cache[d][n]].dims.name = n \/ <<d, n>> \in X
    /\ Bonded(d, cache[d][n]) \/ <<d, n>> \in B

NamedOnce ==
  \A d, e \in DOMAIN cache : \A n \in DOMAIN cache[d], m \in DOMAIN cache[e] :
    cache[d][n] = cache[e][m] => d = e /\ n = m

Agree(X, B, P) ==
  /\ DOMAIN particles = DOMAIN saved
  /\ DOMAIN cache \subseteq DOMAIN saved
  /\ PlainOK(P)
  /\ \A d \in DOMAIN saved, id \in Ids : Bonded(d, id) => id \in DOMAIN saved
  /\ EntriesOK(X, B)
  /\ NamedOnce

\* Nothing is on its way.
Settled == Agree({}, {}, {})

\* What a call has still to do, and how far names and bonds agree meanwhile.
Resting ==
  /\ steps # <<>> => Len(steps) = 1 /\ Head(steps).do \in {"number", "content"}
  /\ Settled

ToMake(d, n, id, content) ==
  /\ d \in DOMAIN cache /\ NotNamed(id) /\ NotBonded(id) /\ Settled
  /\ steps = CreateScript(d, n, id, content)

ToBond(d, n, id) ==
  /\ d \in DOMAIN cache /\ NotNamed(id) /\ NotBonded(id) /\ Ready(id, n) /\ Settled
  /\ steps = <<BondStep(d, id), IndexStep(d, Put(cache[d], n, id)), NumberStep(id)>>

ToIndex(d, n, id) ==
  /\ d \in DOMAIN cache /\ NotNamed(id) /\ OnlyBondedBy(d, id) /\ Ready(id, n) /\ Settled
  /\ steps = <<IndexStep(d, Put(cache[d], n, id)), NumberStep(id)>>

ToUnbond(d, n, id) ==
  /\ Entry(d, n, id) /\ Settled
  /\ steps = UnlinkScript(d, n)

ToUnname(d, n, id) ==
  /\ Entry(d, n, id) /\ NotBonded(id) /\ Agree({}, {<<d, n>>}, {})
  /\ steps = <<IndexStep(d, Drop(cache[d], n)), DeleteStep(id)>>

ToDelete(id) ==
  /\ NotNamed(id) /\ NotBonded(id) /\ Settled
  /\ steps = <<DeleteStep(id)>>

ToRename(d, n, m, id) ==
  /\ Entry(d, n, id) /\ Settled
  /\ steps = RenameScript(d, n, m)

Renamed(d, n, m, id) ==
  /\ Entry(d, n, id) /\ Ready(id, m) /\ OnlyBondedBy(d, id) /\ Agree({<<d, n>>}, {}, {})
  /\ steps = <<IndexStep(d, Put(Drop(cache[d], n), m, id))>>

ToMove(d, n, e, m, id) ==
  /\ Entry(d, n, id) /\ Settled
  /\ steps = MoveScript(d, n, e, m)

Taken(d, n, e, m, id) ==
  /\ Entry(d, n, id) /\ NotBonded(id) /\ Ready(id, n) /\ Agree({}, {<<d, n>>}, {})
  /\ steps = IF n = m
             THEN <<IndexStep(d, Drop(cache[d], n)), BondStep(e, id), EnterStep(e, m, id)>>
             ELSE <<IndexStep(d, Drop(cache[d], n)), NameStep(id, m),
                    BondStep(e, id), EnterStep(e, m, id)>>

InNeither(e, m, id) ==
  /\ NotNamed(id) /\ NotBonded(id) /\ Settled
  /\ steps = <<NameStep(id, m), BondStep(e, id), EnterStep(e, m, id)>>

Arriving(e, m, id) ==
  /\ NotNamed(id) /\ NotBonded(id) /\ Ready(id, m) /\ Settled
  /\ steps = <<BondStep(e, id), EnterStep(e, m, id)>>

Entering(e, m, id) ==
  /\ e \in DOMAIN saved /\ NotNamed(id) /\ OnlyBondedBy(e, id) /\ Ready(id, m)
  /\ Agree({}, {}, {<<e, id>>})
  /\ steps = <<EnterStep(e, m, id)>>

NamesOK ==
  \/ Resting
  \/ \E d \in Ids, n \in Names, id \in Children :
       \/ \E content \in Contents \cup {None} : ToMake(d, n, id, content)
       \/ ToBond(d, n, id) \/ ToIndex(d, n, id)
       \/ ToUnbond(d, n, id) \/ ToUnname(d, n, id) \/ ToDelete(id)
       \/ InNeither(d, n, id) \/ Arriving(d, n, id) \/ Entering(d, n, id)
       \/ \E m \in Names : ToRename(d, n, m, id) \/ Renamed(d, n, m, id)
       \/ \E e \in Ids, m \in Names : ToMove(d, n, e, m, id) \/ Taken(d, n, e, m, id)

NamesInv == restarts = 0 => NamesOK

-----------------------------------------------------------------------------
(* Inode numbers.                                                          *)

\* A later table: numbers given out since are new ones.
Extends(t, u) ==
  /\ u.next >= t.next
  /\ \A n \in DOMAIN u.byInode :
       n < t.next => n \in DOMAIN t.byInode /\ u.byInode[n] = t.byInode[n]

\* Giving a particle a number keeps the table in order and takes none away.
LEMMA NumberedExtends ==
  ASSUME NEW t, TableOK(t), NEW id \in Ids
  PROVE  TableOK(Numbered(t, id)) /\ Extends(t, Numbered(t, id))
<1> DEFINE u == Numbered(t, id)
           inode == Put(t.byInode, t.next, id)
           particle == Put(t.byParticle, id, t.next)
<1>1. CASE id \in DOMAIN t.byParticle
  BY <1>1 DEF Numbered, TableOK, Extends
<1>2. CASE id \notin DOMAIN t.byParticle
  <2>1. u = [next |-> t.next + 1, byInode |-> inode, byParticle |-> particle]
    BY <1>2 DEF Numbered
  <2>2. u.next = t.next + 1 /\ u.byInode = inode /\ u.byParticle = particle
    BY <2>1
  <2>3. /\ DOMAIN inode = DOMAIN t.byInode \cup {t.next} /\ inode[t.next] = id
        /\ \A n \in DOMAIN t.byInode : n # t.next => inode[n] = t.byInode[n]
    BY DEF Put
  <2>4. /\ DOMAIN particle = DOMAIN t.byParticle \cup {id} /\ particle[id] = t.next
        /\ \A i \in DOMAIN t.byParticle : i # id => particle[i] = t.byParticle[i]
    BY DEF Put
  <2>5. t.next \in Nat /\ t.next > 0 /\ \A n \in DOMAIN t.byInode : n \in Nat /\ n > 0 /\ n < t.next
    BY DEF TableOK
  <2> HIDE DEF u, inode, particle
  <2>6. DOMAIN u.byInode \subseteq 1 .. u.next - 1
    BY <2>2, <2>3, <2>5
  <2>7. \A i \in DOMAIN u.byParticle :
          u.byParticle[i] \in DOMAIN u.byInode /\ u.byInode[u.byParticle[i]] = i
    BY <2>2, <2>3, <2>4, <2>5 DEF TableOK
  <2>8. TableOK(u)
    <3>1. u = [next |-> u.next, byInode |-> u.byInode, byParticle |-> u.byParticle]
      BY <2>1, <2>2
    <3>2. u.next \in Nat /\ u.next > 0
      BY <2>2, <2>5
    <3>3. \A n \in DOMAIN u.byInode : u.byInode[n] \in Ids
      BY <2>2, <2>3 DEF TableOK
    <3> QED BY <3>1, <3>2, <3>3, <2>6, <2>7 DEF TableOK
  <2>9. Extends(t, u)
    BY <2>2, <2>3, <2>5 DEF Extends
  <2> QED BY <2>8, <2>9 DEF u
<1> QED BY <1>1, <1>2

\* One later table after another.
LEMMA ExtendsOn ==
  ASSUME NEW t, NEW u, NEW v, t.next \in Nat, u.next \in Nat, v.next \in Nat,
         Extends(t, u), Extends(u, v), DOMAIN v.byInode \subseteq Nat
  PROVE  Extends(t, v)
BY DEF Extends

\* The children of a directory get numbers one after the other.
LEMMA ChildrenNumberedExtends ==
  ASSUME NEW ids \in Seq(Children), NEW t, TableOK(t)
  PROVE  TableOK(ChildrenNumbered(t, ids)) /\ Extends(t, ChildrenNumbered(t, ids))
<1> DEFINE n == Len(ids)
           one(u, id) == IF id \in DOMAIN saved THEN Numbered(u, id) ELSE u
           turn(f, r) == IF r = {} THEN t ELSE one(f[r \ {Max(r)}], ids[Max(r)])
           body(f) == [r \in SUBSET (1 .. n) |-> turn(f, r)]
           Good == {s \in SUBSET (1 .. n) :
                      \E f : f = [r \in SUBSET s |-> turn(f, r)]}
           fold == CHOOSE f : f = body(f)
<1>0. n \in Nat /\ DOMAIN ids = 1 .. n
  OBVIOUS
<1> HIDE DEF one
<1>1. {} \in Good
  <2> DEFINE f == [r \in SUBSET {} |-> t]
  <2>1. f = [r \in SUBSET {} |-> turn(f, r)]
    OBVIOUS
  <2> HIDE DEF f
  <2> QED BY <2>1
<1>2. ASSUME NEW s \in SUBSET (1 .. n), s # {}, s \ {Max(s)} \in Good
      PROVE  s \in Good
  <2> DEFINE rest == s \ {Max(s)}
  <2>1. PICK g : g = [r \in SUBSET rest |-> turn(g, r)]
    BY <1>2
  <2> DEFINE f == [r \in SUBSET s |-> IF r \in SUBSET rest THEN g[r]
                                      ELSE one(g[r \ {Max(r)}], ids[Max(r)])]
  <2>2. ASSUME NEW r \in SUBSET s PROVE f[r] = turn(f, r)
    <3>1. CASE r \in SUBSET rest
      <4>1. f[r] = g[r] /\ g[r] = turn(g, r)
        <5>1. g[r] = turn(g, r)
          <6> HIDE DEF turn
          <6> QED BY <2>1, <3>1
        <5> QED BY <3>1, <5>1
      <4>2. r \ {Max(r)} \in SUBSET rest /\ r \ {Max(r)} \in SUBSET s
        BY <3>1
      <4>3. f[r \ {Max(r)}] = g[r \ {Max(r)}]
        BY <4>2
      <4> HIDE DEF f
      <4> QED BY <4>1, <4>3
    <3>2. CASE r \notin SUBSET rest
      <4>1. r # {} /\ Max(s) \in r
        BY <3>2
      <4>2. Max(r) = Max(s)
        <5>1. r \in SUBSET (1 .. n)
          OBVIOUS
        <5>2. Max(r) \in r /\ Max(s) <= Max(r)
          BY <1>0, <4>1, <5>1, MaxOf
        <5>3. Max(r) <= Max(s) /\ Max(s) \in s
          BY <1>0, <1>2, <5>2, MaxOf
        <5>4. Max(s) \in 1 .. n /\ Max(r) \in 1 .. n
          BY <5>1, <5>2, <5>3
        <5> HIDE DEF n
        <5> QED BY <1>0, <5>2, <5>3, <5>4
      <4>3. r \ {Max(r)} \in SUBSET rest /\ r \ {Max(r)} \in SUBSET s
        BY <4>2
      <4>4. f[r \ {Max(r)}] = g[r \ {Max(r)}]
        BY <4>3
      <4>5. f[r] = one(g[r \ {Max(r)}], ids[Max(r)])
        BY <3>2
      <4> HIDE DEF f
      <4> QED BY <4>1, <4>4, <4>5
    <3> QED BY <3>1, <3>2
  <2> HIDE DEF turn
  <2>3. f = [r \in SUBSET s |-> turn(f, r)]
    <3> DEFINE h == [r \in SUBSET s |-> turn(f, r)]
    <3>1. \A r \in SUBSET s : f[r] = h[r]
      <4> HIDE DEF f
      <4> QED BY <2>2
    <3>2. DOMAIN f = SUBSET s /\ f = [r \in SUBSET s |-> f[r]]
      OBVIOUS
    <3>3. h = [r \in SUBSET s |-> h[r]]
      OBVIOUS
    <3> HIDE DEF f, h
    <3>4. f = h
      BY <3>1, <3>2, <3>3
    <3> QED BY <3>4 DEF h
  <2> HIDE DEF f
  <2> QED BY <2>3
<1>3. SUBSET (1 .. n) \subseteq Good
  <2> HIDE DEF Good
  <2> QED BY <1>0, <1>1, <1>2, FoldInduction
<1>4. fold = body(fold)
  <2>1. 1 .. n \in Good
    <3> HIDE DEF Good
    <3> QED BY <1>3
  <2>2. \E f : f = body(f)
    <3> HIDE DEF turn
    <3>1. PICK f : f = [r \in SUBSET (1 .. n) |-> turn(f, r)]
      BY <2>1, Zenon
    <3> QED BY <3>1, Zenon
  <2> HIDE DEF body
  <2> QED BY <2>2
<1>5. \A s \in SUBSET (1 .. n) : fold[s] = turn(fold, s)
  <2> HIDE DEF turn, fold
  <2> QED BY <1>4
<1>6. ChildrenNumbered(t, ids) = fold[1 .. n]
  BY <1>0, Zenon DEF ChildrenNumbered, FoldLeft, MapThenFoldSet, one
<1> HIDE DEF fold
<1> DEFINE right(s) == TableOK(fold[s]) /\ Extends(t, fold[s])
           Right == {s \in SUBSET (1 .. n) : right(s)}
<1>7. right({})
  <2>1. fold[{}] = t
    BY <1>5
  <2> QED BY <2>1 DEF Extends, TableOK
<1>8. ASSUME NEW s \in SUBSET (1 .. n), s # {}, right(s \ {Max(s)}) PROVE right(s)
  <2> DEFINE u == fold[s \ {Max(s)}]
             id == ids[Max(s)]
  <2>1. fold[s] = one(u, id)
    <3> HIDE DEF one
    <3> QED BY <1>5, <1>8
  <2>2. TableOK(u) /\ Extends(t, u)
    BY <1>8
  <2>5. id \in Ids
    <3>1. Max(s) \in s
      BY <1>0, <1>8, MaxOf
    <3>2. Max(s) \in 1 .. Len(ids)
      BY <1>0, <3>1
    <3>3. id \in Children
      BY <3>2
    <3> QED BY <3>3 DEF Children
  <2> HIDE DEF u, id
  <2>3. CASE id \in DOMAIN saved
    <3>1. fold[s] = Numbered(u, id)
      BY <2>1, <2>3 DEF one
    <3>2. TableOK(Numbered(u, id)) /\ Extends(u, Numbered(u, id))
      BY <2>2, <2>5, NumberedExtends
    <3>3. Extends(t, Numbered(u, id))
      <4> DEFINE v == Numbered(u, id)
      <4>1. /\ t.next \in Nat /\ u.next \in Nat /\ v.next \in Nat
            /\ DOMAIN v.byInode \subseteq Nat
        BY <2>2, <3>2 DEF TableOK
      <4> HIDE DEF v
      <4>2. Extends(u, v)
        BY <3>2 DEF v
      <4>3. Extends(t, v)
        BY <4>1, <4>2, <2>2, ExtendsOn
      <4> QED BY <4>3 DEF v
    <3> QED BY <3>1, <3>2, <3>3
  <2>4. CASE id \notin DOMAIN saved
    BY <2>1, <2>2, <2>4 DEF one
  <2> QED BY <2>3, <2>4
<1> HIDE DEF right
<1>9. SUBSET (1 .. n) \subseteq Right
  <2>1. {} \in Right /\ \A s \in SUBSET (1 .. n) : s # {} /\ s \ {Max(s)} \in Right => s \in Right
    BY <1>7, <1>8
  <2> HIDE DEF Right
  <2> QED BY <1>0, <2>1, FoldInduction
<1>10. right(1 .. n)
  BY <1>9
<1> QED BY <1>6, <1>10 DEF right

\* remove gives up the number and the particle's entry together.
LEMMA UnnumberedExtends ==
  ASSUME NEW t, TableOK(t), NEW id
  PROVE  TableOK(Unnumbered(t, id)) /\ Extends(t, Unnumbered(t, id))
<1> DEFINE u == Unnumbered(t, id)
           inode == Drop(t.byInode, t.byParticle[id])
           particle == Drop(t.byParticle, id)
<1>1. CASE id \notin DOMAIN t.byParticle
  BY <1>1 DEF Unnumbered, TableOK, Extends
<1>2. CASE id \in DOMAIN t.byParticle
  <2>1. u = [next |-> t.next, byInode |-> inode, byParticle |-> particle]
    BY <1>2 DEF Unnumbered, TableOK
  <2>2. u.next = t.next /\ u.byInode = inode /\ u.byParticle = particle
    BY <2>1
  <2>3. /\ DOMAIN inode = DOMAIN t.byInode \ {t.byParticle[id]}
        /\ \A n \in DOMAIN t.byInode : n # t.byParticle[id] => inode[n] = t.byInode[n]
    BY DEF Drop
  <2>4. /\ DOMAIN particle = DOMAIN t.byParticle \ {id}
        /\ \A i \in DOMAIN t.byParticle : i # id => particle[i] = t.byParticle[i]
    BY DEF Drop
  <2> HIDE DEF u, inode, particle
  <2>5. \A i \in DOMAIN u.byParticle :
          u.byParticle[i] \in DOMAIN u.byInode /\ u.byInode[u.byParticle[i]] = i
    BY <1>2, <2>2, <2>3, <2>4 DEF TableOK
  <2>6. TableOK(u)
    BY <2>1, <2>2, <2>3, <2>5 DEF TableOK
  <2>7. Extends(t, u)
    BY <2>2, <2>3 DEF Extends, TableOK
  <2> QED BY <2>6, <2>7 DEF u
<1> QED BY <1>1, <1>2

-----------------------------------------------------------------------------
(* Indexes, particles and steps.                                           *)

\* What an index of children is made of; it is not the missing one.
LEMMA ChildIndexIs ==
  ASSUME NEW f \in ChildIndexes
  PROVE  /\ f = [x \in DOMAIN f |-> f[x]]
         /\ DOMAIN f \subseteq Names
         /\ \A x \in DOMAIN f : f[x] \in Children
         /\ f # None
<1>1. PICK S \in SUBSET Names : f \in [S -> Children]
  BY DEF ChildIndexes
<1>2. f \in [S -> Ids]
  BY <1>1 DEF Children
<1>3. f \in Indexes
  BY <1>2 DEF Indexes
<1> QED BY <1>1, <1>3, VfsAssumption

\* And what makes one.
LEMMA ChildIndexFrom ==
  ASSUME NEW f, f = [x \in DOMAIN f |-> f[x]], DOMAIN f \subseteq Names,
         \A x \in DOMAIN f : f[x] \in Children
  PROVE  f \in ChildIndexes
<1>1. f \in [DOMAIN f -> Children]
  OBVIOUS
<1> QED BY <1>1 DEF ChildIndexes

\* An entry more is an index still.
LEMMA PutIndex ==
  ASSUME NEW f \in ChildIndexes, NEW n \in Names, NEW id \in Children
  PROVE  Put(f, n, id) \in ChildIndexes
<1> DEFINE g == Put(f, n, id)
<1>1. g = [x \in DOMAIN g |-> g[x]]
  BY DEF Put
<1>2. DOMAIN g \subseteq Names /\ \A x \in DOMAIN g : g[x] \in Children
  BY ChildIndexIs DEF Put
<1> QED BY <1>1, <1>2, ChildIndexFrom

\* An entry less is an index still.
LEMMA DropIndex ==
  ASSUME NEW f \in ChildIndexes, NEW n
  PROVE  Drop(f, n) \in ChildIndexes
<1> DEFINE g == Drop(f, n)
<1>1. g = [x \in DOMAIN g |-> g[x]]
  BY DEF Drop
<1>2. DOMAIN g \subseteq Names /\ \A x \in DOMAIN g : g[x] \in Children
  BY ChildIndexIs DEF Drop
<1> QED BY <1>1, <1>2, ChildIndexFrom

\* What is in an index built from bonds is a child that is there, under the
\* name the child has.
LEMMA FromBondsIs ==
  ASSUME SavedOK, NEW d \in DOMAIN saved
  PROVE  /\ FromBonds(d) \in ChildIndexes
         /\ \A n \in DOMAIN FromBonds(d) :
              \E k \in DOMAIN saved[d].gravity :
                /\ FromBonds(d)[n] = saved[d].gravity[k]
                /\ saved[d].gravity[k] \in DOMAIN saved
                /\ saved[saved[d].gravity[k]].dims.name = n
<1> DEFINE bonds == saved[d].gravity
           found == {k \in DOMAIN bonds : bonds[k] \in DOMAIN saved}
           name(k) == saved[bonds[k]].dims.name
           last(n) == Max({k \in found : name(k) = n})
           f == FromBonds(d)
<1>1. bonds \in Seq(Children) /\ DOMAIN bonds = 1 .. Len(bonds) /\ Len(bonds) \in Nat
  BY DEF SavedOK, GoodParticle
<1>2. f = [n \in {name(k) : k \in found} |-> bonds[last(n)]]
  BY DEF FromBonds
<1> HIDE DEF f
<1>3. ASSUME NEW n \in DOMAIN f
      PROVE  last(n) \in found /\ name(last(n)) = n /\ f[n] = bonds[last(n)]
  <2> DEFINE those == {k \in found : name(k) = n}
  <2>1. those # {}
    BY <1>2, <1>3
  <2>2. those \in SUBSET (1 .. Len(bonds))
    BY <1>1
  <2>3. Max(those) \in those
    <3> HIDE DEF those
    <3> QED BY <1>1, <2>1, <2>2, MaxOf
  <2>4. f[n] = bonds[last(n)]
    BY <1>2, <1>3
  <2> QED BY <2>3, <2>4
<1> HIDE DEF last
<1>4. ASSUME NEW n \in DOMAIN f
      PROVE  n \in Names /\ f[n] \in Children
  <2>1. last(n) \in found /\ name(last(n)) = n /\ f[n] = bonds[last(n)]
    BY <1>3
  <2>2. bonds[last(n)] \in Children
    BY <1>1, <2>1
  <2> QED BY <2>1, <2>2 DEF SavedOK, GoodParticle, Children
<1>5. f = [n \in DOMAIN f |-> f[n]]
  BY <1>2
<1>6. f \in ChildIndexes
  BY <1>4, <1>5, ChildIndexFrom
<1>7. \A n \in DOMAIN f : \E k \in DOMAIN bonds :
        f[n] = bonds[k] /\ bonds[k] \in DOMAIN saved /\ saved[bonds[k]].dims.name = n
  BY <1>3
<1> QED BY <1>6, <1>7 DEF f

\* A particle changed in one field keeps the others.
LEMMA ParticleIs ==
  ASSUME NEW p \in Particles
  PROVE  /\ p = [gravity |-> p.gravity, dims |-> p.dims]
         /\ p.gravity \in Seq(Ids)
         /\ p.dims = [name |-> p.dims.name, content |-> p.dims.content, index |-> p.dims.index]
         /\ p.dims.name \in Names \cup {None}
         /\ p.dims.content \in Contents \cup {None}
         /\ p.dims.index \in Indexes \cup {None}
BY VfsAssumption DEF Particles

\* A particle made of its parts.
LEMMA ParticleFrom ==
  ASSUME NEW gravity \in Seq(Ids), NEW name \in Names \cup {None},
         NEW content \in Contents \cup {None}, NEW index \in Indexes \cup {None}
  PROVE  [gravity |-> gravity, dims |-> [name |-> name, content |-> content, index |-> index]]
           \in Particles
BY VfsAssumption DEF Particles

\* A bond added or dropped changes nothing else of the particle.
LEMMA ChangedGravity ==
  ASSUME NEW i, NEW p, GoodParticle(i, p), NEW g \in Seq(Children)
  PROVE  LET q == [p EXCEPT !.gravity = g]
         IN  /\ GoodParticle(i, q)
             /\ q.gravity = g /\ q.dims = p.dims
<1> DEFINE q == [p EXCEPT !.gravity = g]
<1>1. p \in Particles
  BY DEF GoodParticle
<1>2. g \in Seq(Ids)
  BY DEF Children
<1>3. q \in Particles /\ q.gravity = g /\ q.dims = p.dims
  BY <1>1, <1>2 DEF Particles
<1> QED BY <1>3 DEF GoodParticle

\* A new name leaves bonds and index as they were.
LEMMA ChangedName ==
  ASSUME NEW i, NEW p, GoodParticle(i, p), NEW n \in Names
  PROVE  LET q == [p EXCEPT !.dims.name = n]
         IN  /\ GoodParticle(i, q)
             /\ q.gravity = p.gravity /\ q.dims.name = n /\ q.dims.index = p.dims.index
<1> DEFINE q == [p EXCEPT !.dims.name = n]
<1>1. p \in Particles
  BY DEF GoodParticle
<1>a. /\ p = [gravity |-> p.gravity, dims |-> p.dims]
      /\ p.dims = [name |-> p.dims.name, content |-> p.dims.content, index |-> p.dims.index]
  BY <1>1, ParticleIs
<1>2. /\ q.gravity = p.gravity /\ q = [gravity |-> q.gravity, dims |-> q.dims]
      /\ q.dims = [name |-> n, content |-> p.dims.content, index |-> p.dims.index]
  BY <1>a
<1>3. q \in Particles
  <2> HIDE DEF q
  <2>1. /\ p.gravity \in Seq(Ids) /\ p.dims.name \in Names \cup {None}
        /\ p.dims.content \in Contents \cup {None} /\ p.dims.index \in Indexes \cup {None}
    BY <1>1, ParticleIs
  <2>2. q = [gravity |-> p.gravity,
             dims |-> [name |-> n, content |-> p.dims.content, index |-> p.dims.index]]
    BY <1>2
  <2> QED BY <2>1, <2>2, ParticleFrom
<1> QED BY <1>2, <1>3 DEF GoodParticle

\* New content leaves the rest as it was.
LEMMA ChangedContent ==
  ASSUME NEW i, NEW p, GoodParticle(i, p), NEW c \in Contents
  PROVE  LET q == [p EXCEPT !.dims.content = c]
         IN  /\ GoodParticle(i, q)
             /\ q.gravity = p.gravity /\ q.dims.name = p.dims.name
             /\ q.dims.index = p.dims.index
<1> DEFINE q == [p EXCEPT !.dims.content = c]
<1>1. p \in Particles
  BY DEF GoodParticle
<1>a. /\ p = [gravity |-> p.gravity, dims |-> p.dims]
      /\ p.dims = [name |-> p.dims.name, content |-> p.dims.content, index |-> p.dims.index]
  BY <1>1, ParticleIs
<1>2. /\ q.gravity = p.gravity /\ q = [gravity |-> q.gravity, dims |-> q.dims]
      /\ q.dims = [name |-> p.dims.name, content |-> c, index |-> p.dims.index]
  BY <1>a
<1>3. q \in Particles
  <2> HIDE DEF q
  <2>1. /\ p.gravity \in Seq(Ids) /\ p.dims.name \in Names \cup {None}
        /\ p.dims.content \in Contents \cup {None} /\ p.dims.index \in Indexes \cup {None}
    BY <1>1, ParticleIs
  <2>2. q = [gravity |-> p.gravity,
             dims |-> [name |-> p.dims.name, content |-> c, index |-> p.dims.index]]
    BY <1>2
  <2> QED BY <2>1, <2>2, ParticleFrom
<1> QED BY <1>2, <1>3 DEF GoodParticle

\* A new index leaves bonds and name as they were.
LEMMA ChangedIndex ==
  ASSUME NEW i, NEW p, GoodParticle(i, p), NEW f \in ChildIndexes
  PROVE  LET q == Indexed(p, f)
         IN  /\ GoodParticle(i, q)
             /\ q.gravity = p.gravity /\ q.dims.name = p.dims.name /\ q.dims.index = f
<1> DEFINE q == [p EXCEPT !.dims.index = f]
<1>1. p \in Particles
  BY DEF GoodParticle
<1>a. /\ p = [gravity |-> p.gravity, dims |-> p.dims]
      /\ p.dims = [name |-> p.dims.name, content |-> p.dims.content, index |-> p.dims.index]
  BY <1>1, ParticleIs
<1>2. /\ q.gravity = p.gravity /\ q = [gravity |-> q.gravity, dims |-> q.dims]
      /\ q.dims = [name |-> p.dims.name, content |-> p.dims.content, index |-> f]
  BY <1>a
<1>3. f \in Indexes
  <2> HIDE DEF q
  <2>1. PICK S \in SUBSET Names : f \in [S -> Children]
    BY DEF ChildIndexes
  <2>2. f \in [S -> Ids]
    BY <2>1 DEF Children
  <2> QED BY <2>2 DEF Indexes
<1>4. q \in Particles
  <2> HIDE DEF q
  <2>1. /\ p.gravity \in Seq(Ids) /\ p.dims.name \in Names \cup {None}
        /\ p.dims.content \in Contents \cup {None} /\ f \in Indexes \cup {None}
    BY <1>1, <1>3, ParticleIs
  <2>2. q = [gravity |-> p.gravity,
             dims |-> [name |-> p.dims.name, content |-> p.dims.content, index |-> f]]
    BY <1>2
  <2> QED BY <2>1, <2>2, ParticleFrom
<1> QED BY <1>2, <1>4 DEF GoodParticle, Indexed

\* What mkdir and create write first.
LEMMA NewParticle ==
  ASSUME NEW i, NEW n \in Names, NEW c \in Contents \cup {None}
  PROVE  GoodParticle(i, [gravity |-> <<>>, dims |-> [name |-> n, content |-> c, index |-> None]])
<1> DEFINE q == [gravity |-> <<>>, dims |-> [name |-> n, content |-> c, index |-> None]]
<1>1. <<>> \in Seq(Ids) /\ <<>> \in Seq(Children)
  OBVIOUS
<1>2. q \in Particles
  BY <1>1, ParticleFrom
<1> QED BY <1>1, <1>2 DEF GoodParticle

\* The next step and the rest.
LEMMA NextStep ==
  ASSUME steps \in Seq(StepRecords), steps # <<>>
  PROVE  Head(steps) \in StepRecords /\ Tail(steps) \in Seq(StepRecords)
OBVIOUS

\* What each kind of step is about.
LEMMA StepKinds ==
  ASSUME NEW s \in StepRecords
  PROVE  /\ s.do = "new" => /\ s.at \in Children /\ s.name \in Names
                            /\ s.content \in Contents \cup {None}
         /\ s.do \in {"bond", "unbond"} => s.at \in Ids /\ s.id \in Children
         /\ s.do = "name" => s.at \in Children /\ s.name \in Names
         /\ s.do = "content" => s.at \in Ids /\ s.content \in Contents
         /\ s.do = "index" => s.at \in Ids /\ s.index \in ChildIndexes
         /\ s.do = "enter" => s.at \in Ids /\ s.name \in Names /\ s.id \in Children
         /\ s.do \in {"delete", "number"} => s.at \in Children
BY DEF StepRecords

-----------------------------------------------------------------------------
(* What each logged write does to saved and to memory.                     *)

\* The only particle written is d.
Only(d) ==
  /\ d \in DOMAIN saved' /\ DOMAIN saved' = DOMAIN saved \cup {d}
  /\ \A x \in DOMAIN saved : x # d => saved'[x] = saved[x]

StoreInv == SavedOK /\ MemoryOK /\ IncomingExact

\* What comes to memory is what is saved.
LEMMA StoredMemory ==
  ASSUME MemoryOK, NEW new, Stored(new),
         \A x \in DOMAIN new : x \in DOMAIN saved' /\ new[x] = saved'[x],
         \A x \in DOMAIN saved \ DOMAIN new : x \in DOMAIN saved' /\ saved'[x] = saved[x]
  PROVE  MemoryOK' /\ DOMAIN particles' = DOMAIN particles \cup DOMAIN new
<1>1. /\ DOMAIN particles' = DOMAIN particles \cup DOMAIN new
      /\ \A x \in DOMAIN new : particles'[x] = new[x]
      /\ \A x \in DOMAIN particles \ DOMAIN new : particles'[x] = particles[x]
  BY DEF Stored, Merge
<1> QED BY <1>1 DEF MemoryOK

\* A write of one particle touches no other.
LEMMA PutOnly ==
  ASSUME NEW d, NEW p, saved' = Put(saved, d, p)
  PROVE  Only(d) /\ saved'[d] = p
BY DEF Put, Only

\* A good particle written where it belongs keeps the volume good.
LEMMA OnlySavedOK ==
  ASSUME SavedOK, NEW d \in Ids, Only(d), GoodParticle(d, saved'[d]),
         logged' \subseteq logged \cup {d}
  PROVE  SavedOK'
<1>1. DOMAIN saved' \subseteq Ids /\ Root \in DOMAIN saved'
  BY DEF SavedOK, Only
<1>2. \A x \in DOMAIN saved' : GoodParticle(x, saved'[x])
  BY DEF SavedOK, Only
<1>3. logged' \subseteq DOMAIN saved'
  BY DEF SavedOK, Only
<1> QED BY <1>1, <1>2, <1>3 DEF SavedOK

\* A logged write: the same particle in memory and in the log, and no other.
LEMMA SavedIs ==
  ASSUME StoreInv, NEW d \in Ids, NEW p, GoodParticle(d, p), Saved(d, p)
  PROVE  /\ StoreInv'
         /\ Only(d) /\ saved'[d] = p
         /\ DOMAIN particles' = DOMAIN particles \cup {d}
<1> DEFINE new == [i \in {d} |-> p]
<1>1. Only(d) /\ saved'[d] = p
  BY PutOnly DEF Saved
<1>2. Stored(new) /\ DOMAIN new = {d} /\ new[d] = p
  BY DEF Saved, WriteParticle
<1>3. SavedOK'
  BY <1>1, OnlySavedOK DEF Saved, StoreInv
<1> HIDE DEF new
<1>4. MemoryOK' /\ DOMAIN particles' = DOMAIN particles \cup DOMAIN new
  BY <1>1, <1>2, StoredMemory DEF StoreInv, Only
<1>5. IncomingExact'
  BY <1>2, StoredKeepsExact DEF StoreInv
<1> QED BY <1>1, <1>2, <1>3, <1>4, <1>5 DEF StoreInv

\* A directory is written while children of it come to memory.
LEMMA OpenedIs ==
  ASSUME StoreInv, NEW d \in Ids, NEW p, GoodParticle(d, p), NEW ids,
         saved' = Put(saved, d, p), logged' \subseteq logged \cup {d},
         Stored(Put(Loaded(ids), d, p))
  PROVE  /\ StoreInv'
         /\ Only(d) /\ saved'[d] = p
         /\ DOMAIN particles' = DOMAIN particles \cup (ids \cap DOMAIN saved) \cup {d}
<1> DEFINE new == Put(Loaded(ids), d, p)
           fresh == (ids \cap DOMAIN saved) \ DOMAIN particles
<1>1. Only(d) /\ saved'[d] = p
  BY PutOnly
<1>2. /\ DOMAIN new = fresh \cup {d} /\ new[d] = p
      /\ \A x \in fresh : x # d => new[x] = saved[x]
  BY DEF Put, Loaded
<1>3. SavedOK'
  BY <1>1, OnlySavedOK DEF StoreInv
<1> HIDE DEF new
<1>4. MemoryOK' /\ DOMAIN particles' = DOMAIN particles \cup DOMAIN new
  <2>1. Stored(new)
    BY DEF new
  <2>2. \A x \in DOMAIN new : x \in DOMAIN saved' /\ new[x] = saved'[x]
    BY <1>1, <1>2 DEF Only
  <2>3. \A x \in DOMAIN saved \ DOMAIN new : x \in DOMAIN saved' /\ saved'[x] = saved[x]
    BY <1>1, <1>2 DEF Only
  <2> QED BY <2>1, <2>2, <2>3, StoredMemory DEF StoreInv
<1>5. IncomingExact'
  BY StoredKeepsExact DEF StoreInv
<1> QED BY <1>1, <1>2, <1>3, <1>4, <1>5 DEF StoreInv

\* The effect of the step that makes a particle.
LEMMA NewIs ==
  ASSUME VfsInv, StepNew
  PROVE  /\ StoreInv'
         /\ At \in Children /\ Only(At)
         /\ DOMAIN particles' = DOMAIN particles \cup {At}
         /\ saved'[At].gravity = <<>> /\ saved'[At].dims.index = None
         /\ saved'[At].dims.name = Head(steps).name
<1> DEFINE q == [gravity |-> <<>>,
                 dims |-> [name |-> Head(steps).name, content |-> Head(steps).content,
                           index |-> None]]
<1>1. /\ At \in Children /\ Head(steps).name \in Names
      /\ Head(steps).content \in Contents \cup {None}
  BY NextStep, StepKinds DEF StepNew, Running, VfsInv, At
<1>2. GoodParticle(At, q) /\ At \in Ids
  BY <1>1, NewParticle DEF Children
<1>3. Saved(At, q)
  BY DEF StepNew
<1>4. q.gravity = <<>> /\ q.dims.index = None /\ q.dims.name = Head(steps).name
  OBVIOUS
<1> HIDE DEF q
<1> QED BY <1>1, <1>2, <1>3, <1>4, SavedIs DEF VfsInv, StoreInv

\* A step that reads a particle reads what is saved.
LEMMA InMemoryIs ==
  ASSUME VfsInv, InMemory
  PROVE  /\ At \in DOMAIN saved /\ At \in Ids /\ particles[At] = saved[At]
         /\ GoodParticle(At, particles[At])
BY DEF VfsInv, InMemory, MemoryOK, SavedOK

\* The effect of a bond.
LEMMA BondIs ==
  ASSUME VfsInv, StepBond
  PROVE  /\ StoreInv' /\ Head(steps).id \in Children
         /\ At \in DOMAIN saved /\ Only(At)
         /\ DOMAIN particles' = DOMAIN particles
         /\ saved[At].gravity \in Seq(Children)
         /\ saved'[At].gravity = Append(saved[At].gravity, Head(steps).id)
         /\ saved'[At].dims = saved[At].dims
<1> DEFINE g == Append(particles[At].gravity, Head(steps).id)
           q == [particles[At] EXCEPT !.gravity = g]
<1>1. Head(steps).id \in Children
  BY NextStep, StepKinds DEF StepBond, Running, VfsInv
<1>2. /\ At \in DOMAIN saved /\ At \in Ids /\ particles[At] = saved[At]
      /\ GoodParticle(At, particles[At]) /\ At \in DOMAIN particles
  BY InMemoryIs DEF StepBond, InMemory
<1>3. particles[At].gravity \in Seq(Children)
  BY <1>2 DEF GoodParticle
<1>4. g \in Seq(Children)
  BY <1>1, <1>3
<1>5. Saved(At, q)
  BY DEF StepBond
<1> HIDE DEF g
<1>6. GoodParticle(At, q) /\ q.gravity = g /\ q.dims = particles[At].dims
  BY <1>2, <1>4, ChangedGravity
<1> HIDE DEF q
<1> QED BY <1>1, <1>2, <1>3, <1>5, <1>6, SavedIs DEF VfsInv, StoreInv, g

\* The effect of taking a bond away.
LEMMA UnbondIs ==
  ASSUME VfsInv, StepUnbond
  PROVE  /\ StoreInv' /\ Head(steps).id \in Children
         /\ At \in DOMAIN saved /\ Only(At)
         /\ DOMAIN particles' = DOMAIN particles
         /\ saved[At].gravity \in Seq(Children)
         /\ saved'[At].gravity = Retained(saved[At].gravity, Head(steps).id)
         /\ saved'[At].dims = saved[At].dims
<1> DEFINE g == Retained(particles[At].gravity, Head(steps).id)
           q == [particles[At] EXCEPT !.gravity = g]
<1>1. Head(steps).id \in Children
  BY NextStep, StepKinds DEF StepUnbond, Running, VfsInv
<1>2. /\ At \in DOMAIN saved /\ At \in Ids /\ particles[At] = saved[At]
      /\ GoodParticle(At, particles[At]) /\ At \in DOMAIN particles
  BY InMemoryIs DEF StepUnbond, InMemory
<1>3. particles[At].gravity \in Seq(Children)
  BY <1>2 DEF GoodParticle
<1>4. g \in Seq(Children)
  BY <1>3, RetainedIs
<1>5. Saved(At, q)
  BY DEF StepUnbond
<1> HIDE DEF g
<1>6. GoodParticle(At, q) /\ q.gravity = g /\ q.dims = particles[At].dims
  BY <1>2, <1>4, ChangedGravity
<1> HIDE DEF q
<1> QED BY <1>1, <1>2, <1>3, <1>5, <1>6, SavedIs DEF VfsInv, StoreInv, g

\* The effect of writing the name dimension.
LEMMA NameIs ==
  ASSUME VfsInv, StepName
  PROVE  /\ StoreInv' /\ Head(steps).name \in Names
         /\ At \in DOMAIN saved /\ Only(At)
         /\ DOMAIN particles' = DOMAIN particles
         /\ saved'[At].gravity = saved[At].gravity
         /\ saved'[At].dims.name = Head(steps).name
         /\ saved'[At].dims.index = saved[At].dims.index
<1> DEFINE n == Head(steps).name
           q == [particles[At] EXCEPT !.dims.name = n]
<1>1. n \in Names
  BY NextStep, StepKinds DEF StepName, Running, VfsInv
<1>2. /\ At \in DOMAIN saved /\ At \in Ids /\ particles[At] = saved[At]
      /\ GoodParticle(At, particles[At]) /\ At \in DOMAIN particles
  BY InMemoryIs DEF StepName, InMemory
<1>3. Saved(At, q)
  BY DEF StepName
<1> HIDE DEF n
<1>4. /\ GoodParticle(At, q) /\ q.gravity = particles[At].gravity /\ q.dims.name = n
      /\ q.dims.index = particles[At].dims.index
  BY <1>1, <1>2, ChangedName
<1> HIDE DEF q
<1> QED BY <1>1, <1>2, <1>3, <1>4, SavedIs DEF VfsInv, StoreInv, n

\* The effect of writing content.
LEMMA ContentIs ==
  ASSUME VfsInv, StepContent
  PROVE  /\ StoreInv'
         /\ At \in DOMAIN saved /\ Only(At)
         /\ DOMAIN particles' = DOMAIN particles
         /\ saved'[At].gravity = saved[At].gravity
         /\ saved'[At].dims.name = saved[At].dims.name
         /\ saved'[At].dims.index = saved[At].dims.index
<1> DEFINE c == Head(steps).content
           q == [particles[At] EXCEPT !.dims.content = c]
<1>1. c \in Contents
  BY NextStep, StepKinds DEF StepContent, Running, VfsInv
<1>2. /\ At \in DOMAIN saved /\ At \in Ids /\ particles[At] = saved[At]
      /\ GoodParticle(At, particles[At]) /\ At \in DOMAIN particles
  BY InMemoryIs DEF StepContent, InMemory
<1>3. Saved(At, q)
  BY DEF StepContent
<1> HIDE DEF c
<1>4. /\ GoodParticle(At, q) /\ q.gravity = particles[At].gravity
      /\ q.dims.name = particles[At].dims.name
      /\ q.dims.index = particles[At].dims.index
  BY <1>1, <1>2, ChangedContent
<1> HIDE DEF q
<1> QED BY <1>1, <1>2, <1>3, <1>4, SavedIs DEF VfsInv, StoreInv

\* The effect of writing an index: stored and cached alike.
LEMMA IndexIs ==
  ASSUME VfsInv, StepIndex
  PROVE  /\ StoreInv' /\ Head(steps).index \in ChildIndexes
         /\ At \in DOMAIN saved /\ Only(At)
         /\ DOMAIN particles' = DOMAIN particles
         /\ saved'[At].gravity = saved[At].gravity
         /\ saved'[At].dims.name = saved[At].dims.name
         /\ saved'[At].dims.index = Head(steps).index
         /\ cache' = Put(cache, At, Head(steps).index)
<1> DEFINE f == Head(steps).index
           q == Indexed(particles[At], f)
<1>1. f \in ChildIndexes
  BY NextStep, StepKinds DEF StepIndex, Running, VfsInv
<1>2. /\ At \in DOMAIN saved /\ At \in Ids /\ particles[At] = saved[At]
      /\ GoodParticle(At, particles[At]) /\ At \in DOMAIN particles
  BY InMemoryIs DEF StepIndex, InMemory
<1>3. Saved(At, q) /\ cache' = Put(cache, At, f)
  BY DEF StepIndex, IndexSaved
<1> HIDE DEF f
<1>4. /\ GoodParticle(At, q) /\ q.gravity = particles[At].gravity
      /\ q.dims.name = particles[At].dims.name /\ q.dims.index = f
  BY <1>1, <1>2, ChangedIndex
<1> HIDE DEF q
<1> QED BY <1>1, <1>2, <1>3, <1>4, SavedIs DEF VfsInv, StoreInv, f

\* The index a directory has, stored or built.
LEMMA StoredIndexIs ==
  ASSUME SavedOK, NEW d \in DOMAIN saved
  PROVE  /\ StoredIndex(d) \in ChildIndexes
         /\ saved[d].gravity \in Seq(Children)
         /\ BuiltFrom(d) \in Seq(Children)
<1>1. saved[d].gravity \in Seq(Children) /\ <<>> \in Seq(Children)
  BY DEF SavedOK, GoodParticle
<1>2. CASE HasIndex(d)
  BY <1>1, <1>2 DEF StoredIndex, BuiltFrom, HasIndex, SavedOK, GoodParticle
<1>3. CASE ~HasIndex(d)
  BY <1>1, <1>3, FromBondsIs DEF StoredIndex, BuiltFrom
<1> QED BY <1>2, <1>3

\* The effect of the last step of a move, which may build the index first.
LEMMA EnterIs ==
  ASSUME VfsInv, StepEnter
  PROVE  /\ StoreInv' /\ Head(steps).id \in Children /\ Head(steps).name \in Names
         /\ At \in DOMAIN saved /\ Only(At)
         /\ DOMAIN particles \subseteq DOMAIN particles'
         /\ IndexOf(At) \in ChildIndexes
         /\ saved'[At].gravity = saved[At].gravity
         /\ saved'[At].dims.name = saved[At].dims.name
         /\ saved'[At].dims.index = Put(IndexOf(At), Head(steps).name, Head(steps).id)
         /\ cache' = Put(cache, At, Put(IndexOf(At), Head(steps).name, Head(steps).id))
         /\ BuiltFrom(At) \in Seq(Children)
<1> DEFINE f == Put(IndexOf(At), Head(steps).name, Head(steps).id)
           q == Indexed(particles[At], f)
           ids == ToSet(BuiltFrom(At))
<1>1. Head(steps).id \in Children /\ Head(steps).name \in Names
  BY NextStep, StepKinds DEF StepEnter, Running, VfsInv
<1>2. /\ At \in DOMAIN saved /\ At \in Ids /\ particles[At] = saved[At]
      /\ GoodParticle(At, particles[At]) /\ At \in DOMAIN particles
  BY InMemoryIs DEF StepEnter, InMemory
<1>3. StoredIndex(At) \in ChildIndexes /\ BuiltFrom(At) \in Seq(Children)
  BY <1>2, StoredIndexIs DEF VfsInv
<1>4. IndexOf(At) \in ChildIndexes
  BY <1>3 DEF IndexOf, VfsInv, CacheOK
<1>5. f \in ChildIndexes
  BY <1>1, <1>4, PutIndex
<1>6. /\ saved' = Put(saved, At, q) /\ logged' = logged \cup {At}
      /\ Stored(Put(Loaded(ids), At, q)) /\ cache' = Put(cache, At, f)
  BY DEF StepEnter
<1> HIDE DEF f
<1>7. /\ GoodParticle(At, q) /\ q.gravity = particles[At].gravity
      /\ q.dims.name = particles[At].dims.name /\ q.dims.index = f
  BY <1>2, <1>5, ChangedIndex
<1> HIDE DEF q, ids
<1>8. StoreInv
  BY DEF VfsInv, StoreInv
<1>9. /\ StoreInv' /\ Only(At) /\ saved'[At] = q
      /\ DOMAIN particles' = DOMAIN particles \cup (ids \cap DOMAIN saved) \cup {At}
  BY <1>2, <1>6, <1>7, <1>8, OpenedIs
<1> QED BY <1>1, <1>2, <1>3, <1>4, <1>6, <1>7, <1>9 DEF f

\* The effect of loading a directory: stored and cached index alike.
LEMMA LoadIs ==
  ASSUME VfsInv, NEW d, LoadDirectory(d)
  PROVE  /\ StoreInv'
         /\ d \in DOMAIN saved \ DOMAIN cache /\ Only(d)
         /\ DOMAIN particles \subseteq DOMAIN particles'
         /\ DOMAIN particles' \subseteq DOMAIN saved
         /\ StoredIndex(d) \in ChildIndexes
         /\ saved'[d].gravity = saved[d].gravity
         /\ saved'[d].dims.name = saved[d].dims.name
         /\ saved'[d].dims.index = StoredIndex(d)
         /\ cache' = Put(cache, d, StoredIndex(d))
         /\ BuiltFrom(d) \in Seq(Children)
<1> DEFINE f == StoredIndex(d)
           q == Indexed(saved[d], f)
           ids == ToSet(BuiltFrom(d))
<1>1. d \in DOMAIN saved \ DOMAIN cache
  BY DEF LoadDirectory
<1>2. /\ GoodParticle(d, saved[d]) /\ d \in Ids
  BY <1>1 DEF VfsInv, SavedOK
<1>3. f \in ChildIndexes /\ BuiltFrom(d) \in Seq(Children)
  BY <1>1, StoredIndexIs DEF VfsInv
<1>4. /\ saved' = Put(saved, d, q) /\ logged' \subseteq logged \cup {d}
      /\ Stored(Put(Loaded(ids), d, q)) /\ cache' = Put(cache, d, f)
  BY DEF LoadDirectory
<1> HIDE DEF f
<1>5. /\ GoodParticle(d, q) /\ q.gravity = saved[d].gravity
      /\ q.dims.name = saved[d].dims.name /\ q.dims.index = f
  BY <1>2, <1>3, ChangedIndex
<1> HIDE DEF q, ids
<1>6. StoreInv
  BY DEF VfsInv, StoreInv
<1>7. /\ StoreInv' /\ Only(d) /\ saved'[d] = q
      /\ DOMAIN particles' = DOMAIN particles \cup (ids \cap DOMAIN saved) \cup {d}
  BY <1>2, <1>4, <1>5, <1>6, OpenedIs
<1>8. DOMAIN particles' \subseteq DOMAIN saved
  BY <1>1, <1>7 DEF VfsInv, MemoryOK
<1> QED BY <1>1, <1>3, <1>4, <1>5, <1>7, <1>8 DEF f

\* A lookup brings particles to memory and nothing more.
LEMMA LookupIs ==
  ASSUME VfsInv, NEW d, NEW n, Lookup(d, n)
  PROVE  StoreInv' /\ DOMAIN particles \subseteq DOMAIN particles'
<1> DEFINE new == Loaded({cache[d][n]})
<1>1. Stored(new) /\ saved' = saved /\ logged' = logged
  BY DEF Lookup
<1>2. \A x \in DOMAIN new : x \in DOMAIN saved /\ new[x] = saved[x]
  BY DEF Loaded
<1> HIDE DEF new
<1>3. MemoryOK' /\ DOMAIN particles' = DOMAIN particles \cup DOMAIN new
  BY <1>1, <1>2, StoredMemory DEF VfsInv
<1>4. IncomingExact'
  BY <1>1, StoredKeepsExact DEF VfsInv
<1>5. SavedOK'
  BY <1>1 DEF VfsInv, SavedOK
<1> QED BY <1>3, <1>4, <1>5 DEF StoreInv

\* The effect of a delete, in memory and in what is saved.
LEMMA DeleteIs ==
  ASSUME VfsInv, StepDelete
  PROVE  /\ StoreInv'
         /\ At \in DOMAIN saved /\ At \in Children
         /\ DOMAIN saved' = DOMAIN saved \ {At}
         /\ \A x \in DOMAIN saved' : saved'[x] = saved[x]
         /\ DOMAIN particles' = DOMAIN particles \ {At}
<1>1. At \in Children
  BY NextStep, StepKinds DEF StepDelete, Running, VfsInv, At
<1>2. /\ At \in DOMAIN saved
      /\ DOMAIN saved' = DOMAIN saved \ {At} /\ \A x \in DOMAIN saved' : saved'[x] = saved[x]
      /\ logged' = logged \ {At}
  BY DEF StepDelete, Drop
<1>3. /\ DOMAIN particles' = DOMAIN particles \ {At}
      /\ \A x \in DOMAIN particles' : particles'[x] = particles[x]
  BY DEF StepDelete, InMemory, Removed, Drop, storeVars
<1>4. SavedOK'
  <2>1. Root # At
    BY <1>1 DEF Children
  <2> HIDE DEF At
  <2> QED BY <1>2, <2>1 DEF VfsInv, SavedOK
<1>5. MemoryOK'
  BY <1>2, <1>3 DEF VfsInv, MemoryOK
<1>6. IncomingExact'
  <2>1. CASE InMemory
    BY <2>1, RemovedKeepsExact DEF StepDelete, InMemory, VfsInv
  <2>2. CASE ~InMemory
    BY <2>2 DEF StepDelete, VfsInv, IncomingExact, AllReferences, References, storeVars
  <2> QED BY <2>1, <2>2
<1> QED BY <1>1, <1>2, <1>3, <1>4, <1>5, <1>6 DEF StoreInv

\* The next process holds what is saved and has nothing cached.
LEMMA RestartIs ==
  ASSUME VfsInv, Restart
  PROVE  StoreInv' /\ cache' = Empty /\ steps' = <<>>
<1>1. /\ saved' = saved /\ logged' = logged
      /\ particles' = [i \in (logged \cap DOMAIN saved) \cup {Root} |-> saved[i]]
      /\ incoming' = AllReferences(particles')
  BY DEF Restart
<1>2. SavedOK'
  BY <1>1 DEF VfsInv, SavedOK
<1>3. MemoryOK'
  BY <1>1 DEF VfsInv, SavedOK, MemoryOK
<1>4. IncomingExact'
  BY <1>1 DEF IncomingExact, AllReferences
<1> QED BY <1>2, <1>3, <1>4 DEF StoreInv, Restart

-----------------------------------------------------------------------------
(* The inode table and the handles.                                        *)

\* Handles stay right while the table only grows or gives numbers up.
LEMMA HandlesKeep ==
  ASSUME TableOK(inodes), HandlesOK, handles' = handles,
         TableOK(inodes'), Extends(inodes, inodes')
  PROVE  HandlesOK'
<1>1. inodes.next \in Nat /\ inodes'.next \in Nat /\ inodes'.next >= inodes.next
  BY DEF TableOK, Extends
<1> SUFFICES ASSUME NEW h \in DOMAIN handles
             PROVE  /\ handles[h].inode \in 1 .. inodes'.next - 1
                    /\ handles[h].inode \in DOMAIN inodes'.byInode
                         => inodes'.byInode[handles[h].inode] = handles[h].file
  BY DEF HandlesOK
<1>2. handles[h].inode \in 1 .. inodes.next - 1
  BY DEF HandlesOK
<1>3. handles[h].inode \in DOMAIN inodes.byInode
        => inodes.byInode[handles[h].inode] = handles[h].file
  BY DEF HandlesOK
<1> QED BY <1>1, <1>2, <1>3 DEF Extends

\* Or does not change.
LEMMA SameTable ==
  ASSUME TableOK(inodes), HandlesOK, handles' = handles, inodes' = inodes
  PROVE  TableOK(inodes') /\ HandlesOK'
BY DEF TableOK, HandlesOK

-----------------------------------------------------------------------------
(* The invariant of every call, step and restart.                          *)

\* The root is nobody's child.
LEMMA ChildIsNoRoot ==
  ASSUME NEW d \in Ids, NEW kind, NEW n, ChildId(d, kind, n) \in Ids
  PROVE  ChildId(d, kind, n) \in Children
<1> DEFINE P == {"dir", "file"} \X Names
<1>1. d \in Seq(P) /\ ChildId(d, kind, n) \in Seq(P)
  BY VfsAssumption
<1>2. ChildId(d, kind, n) = Append(d, <<kind, n>>)
  BY DEF ChildId
<1>3. Len(Append(d, <<kind, n>>)) = Len(d) + 1 /\ Len(d) \in Nat
  BY <1>1
<1>4. ChildId(d, kind, n) # <<>>
  <2> HIDE DEF P
  <2> QED BY <1>2, <1>3
<1> QED BY <1>4 DEF Children, Root

\* Steps of calls are steps.
LEMMA StepTypes ==
  /\ \A id \in Children, n \in Names, c \in Contents \cup {None} : NewStep(id, n, c) \in StepRecords
  /\ \A d \in Ids, id \in Children :
       BondStep(d, id) \in StepRecords /\ UnbondStep(d, id) \in StepRecords
  /\ \A id \in Children, n \in Names : NameStep(id, n) \in StepRecords
  /\ \A id \in Ids, c \in Contents : ContentStep(id, c) \in StepRecords
  /\ \A d \in Ids, f \in ChildIndexes : IndexStep(d, f) \in StepRecords
  /\ \A d \in Ids, n \in Names, id \in Children : EnterStep(d, n, id) \in StepRecords
  /\ \A id \in Children : DeleteStep(id) \in StepRecords /\ NumberStep(id) \in StepRecords
<1>1. \A id \in Children, n \in Names, c \in Contents \cup {None} : NewStep(id, n, c) \in StepRecords
  BY DEF NewStep, StepRecords
<1>2. \A d \in Ids, id \in Children :
       BondStep(d, id) \in StepRecords /\ UnbondStep(d, id) \in StepRecords
  BY DEF BondStep, UnbondStep, StepRecords
<1>3. \A id \in Children, n \in Names : NameStep(id, n) \in StepRecords
  BY DEF NameStep, StepRecords
<1>4. \A id \in Ids, c \in Contents : ContentStep(id, c) \in StepRecords
  BY DEF ContentStep, StepRecords
<1>5. \A d \in Ids, f \in ChildIndexes : IndexStep(d, f) \in StepRecords
  BY DEF IndexStep, StepRecords
<1>6. \A d \in Ids, n \in Names, id \in Children : EnterStep(d, n, id) \in StepRecords
  BY DEF EnterStep, StepRecords
<1>7. \A id \in Children : DeleteStep(id) \in StepRecords /\ NumberStep(id) \in StepRecords
  BY DEF DeleteStep, NumberStep, StepRecords
<1> QED BY <1>1, <1>2, <1>3, <1>4, <1>5, <1>6, <1>7

\* An entry is a name and a child.
LEMMA EntryTypes ==
  ASSUME VfsInv, NEW d \in DOMAIN cache
  PROVE  /\ d \in Ids /\ cache[d] \in ChildIndexes
         /\ \A n \in DOMAIN cache[d] : n \in Names /\ cache[d][n] \in Children
BY ChildIndexIs DEF VfsInv, CacheOK

\* Calls on entries are made of steps.
LEMMA ScriptTypes ==
  ASSUME VfsInv, NEW d \in DOMAIN cache, NEW n \in Names
  PROVE  /\ \A id \in Children, c \in Contents \cup {None} :
              CreateScript(d, n, id, c) \in Seq(StepRecords)
         /\ n \in DOMAIN cache[d] => UnlinkScript(d, n) \in Seq(StepRecords)
         /\ \A m \in Names : n \in DOMAIN cache[d] => RenameScript(d, n, m) \in Seq(StepRecords)
         /\ \A e \in Ids, m \in Names :
              n \in DOMAIN cache[d] => MoveScript(d, n, e, m) \in Seq(StepRecords)
<1>1. /\ d \in Ids /\ cache[d] \in ChildIndexes
      /\ n \in DOMAIN cache[d] => cache[d][n] \in Children
  BY EntryTypes
<1>2. /\ \A id \in Children : Put(cache[d], n, id) \in ChildIndexes
      /\ Drop(cache[d], n) \in ChildIndexes
      /\ \A m \in Names, id \in Children : Put(Drop(cache[d], n), m, id) \in ChildIndexes
  BY <1>1, PutIndex, DropIndex
<1>3. ASSUME NEW id \in Children, NEW c \in Contents \cup {None}
      PROVE  CreateScript(d, n, id, c) \in Seq(StepRecords)
  BY <1>1, <1>2, StepTypes DEF CreateScript
<1>4. ASSUME n \in DOMAIN cache[d] PROVE UnlinkScript(d, n) \in Seq(StepRecords)
  BY <1>1, <1>2, <1>4, StepTypes DEF UnlinkScript
<1>5. ASSUME NEW m \in Names, n \in DOMAIN cache[d]
      PROVE  RenameScript(d, n, m) \in Seq(StepRecords)
  BY <1>1, <1>2, <1>5, StepTypes DEF RenameScript
<1>6. ASSUME NEW e \in Ids, NEW m \in Names, n \in DOMAIN cache[d]
      PROVE  MoveScript(d, n, e, m) \in Seq(StepRecords)
  <2> DEFINE id == cache[d][n]
             u == UnbondStep(d, id)
             i == IndexStep(d, Drop(cache[d], n))
             t == NameStep(id, m)
             b == BondStep(e, id)
             x == EnterStep(e, m, id)
  <2>1. /\ u \in StepRecords /\ i \in StepRecords /\ t \in StepRecords
        /\ b \in StepRecords /\ x \in StepRecords
    BY <1>1, <1>2, <1>6, StepTypes
  <2>2. MoveScript(d, n, e, m) = IF n = m THEN <<u, i, b, x>> ELSE <<u, i, t, b, x>>
    BY DEF MoveScript
  <2> HIDE DEF u, i, t, b, x
  <2> QED BY <2>1, <2>2
<1> QED BY <1>3, <1>4, <1>5, <1>6

\* A call only says what is to be done.
LEMMA CallKeepsInv ==
  ASSUME VfsInv, NEW entries, NEW script \in Seq(StepRecords), Call(entries, script)
  PROVE  VfsInv'
BY DEF VfsInv, Call, SavedOK, MemoryOK, CacheOK, HandlesOK, IncomingExact, AllReferences,
       References, TableOK

\* Calls only say what is to be done.
LEMMA CallsKeepInv ==
  ASSUME VfsInv, NEW d \in DOMAIN cache, NEW n \in Names,
         \/ \E kind \in {"dir", "file"} : Make(kind, d, n)
         \/ Unlink(d, n)
         \/ Rmdir(d, n)
         \/ \E m \in Names : Rename(d, n, m)
         \/ \E e \in DOMAIN saved, m \in Names : Move(d, n, e, m)
  PROVE  VfsInv'
<1>1. ASSUME NEW kind \in {"dir", "file"}, Make(kind, d, n) PROVE VfsInv'
  <2> DEFINE id == ChildId(d, kind, n)
             content == IF kind = "file" THEN Blank ELSE None
  <2>1. d \in Ids /\ id \in Ids
    BY <1>1, EntryTypes DEF Make
  <2>2. id \in Children
    BY <2>1, ChildIsNoRoot
  <2>3. content \in Contents \cup {None}
    BY VfsAssumption
  <2>4. Call({<<d, n>>}, CreateScript(d, n, id, content))
    BY <1>1 DEF Make
  <2> HIDE DEF id, content
  <2> QED BY <2>2, <2>3, <2>4, ScriptTypes, CallKeepsInv
<1>2. CASE Unlink(d, n)
  BY <1>2, ScriptTypes, CallKeepsInv DEF Unlink, HasEntry
<1>3. CASE Rmdir(d, n)
  BY <1>3, ScriptTypes, CallKeepsInv DEF Rmdir, HasEntry
<1>4. ASSUME NEW m \in Names, Rename(d, n, m) PROVE VfsInv'
  BY <1>4, ScriptTypes, CallKeepsInv DEF Rename, HasEntry
<1>5. ASSUME NEW e \in DOMAIN saved, NEW m \in Names, Move(d, n, e, m) PROVE VfsInv'
  <2>1. e \in Ids
    BY DEF VfsInv, SavedOK
  <2> QED BY <1>5, <2>1, ScriptTypes, CallKeepsInv DEF Move, HasEntry
<1> QED BY <1>1, <1>2, <1>3, <1>4, <1>5

\* A new handle has the particle of its inode.
LEMMA HandleCallsKeepInv ==
  ASSUME VfsInv,
         \/ \E i \in DOMAIN inodes.byInode : OpenHandle(i)
         \/ \E h \in DOMAIN handles : CloseHandle(h) \/ \E c \in Contents : WriteFile(h, c)
  PROVE  VfsInv'
<1>1. ASSUME NEW i \in DOMAIN inodes.byInode, OpenHandle(i) PROVE VfsInv'
  <2>1. /\ DOMAIN handles' = {1}
        /\ handles'[1].inode = i /\ handles'[1].file = inodes.byInode[i]
    BY <1>1 DEF OpenHandle, Put, Empty
  <2>2. i \in 1 .. inodes.next - 1
    BY DEF VfsInv, TableOK
  <2>3. HandlesOK'
    BY <1>1, <2>1, <2>2 DEF OpenHandle, HandlesOK
  <2> QED BY <1>1, <2>3 DEF OpenHandle, VfsInv, SavedOK, MemoryOK, CacheOK, IncomingExact,
                            AllReferences, References, TableOK, bounds
<1>2. ASSUME NEW h \in DOMAIN handles, CloseHandle(h) PROVE VfsInv'
  <2>1. HandlesOK'
    BY <1>2 DEF CloseHandle, VfsInv, HandlesOK, Drop
  <2> QED BY <1>2, <2>1 DEF CloseHandle, VfsInv, SavedOK, MemoryOK, CacheOK, IncomingExact,
                            AllReferences, References, TableOK, bounds
<1>3. ASSUME NEW h \in DOMAIN handles, NEW c \in Contents, WriteFile(h, c) PROVE VfsInv'
  <2> DEFINE id == inodes.byInode[handles[h].inode]
  <2>1. id \in Ids
    BY <1>3 DEF WriteFile, VfsInv, TableOK
  <2>2. Call(Named(id), <<ContentStep(id, c)>>)
    BY <1>3 DEF WriteFile
  <2> HIDE DEF id
  <2>3. <<ContentStep(id, c)>> \in Seq(StepRecords)
    BY <2>1, StepTypes
  <2> QED BY <2>2, <2>3, CallKeepsInv
<1> QED BY <1>1, <1>2, <1>3

\* A cached index more.
LEMMA OnlyCache ==
  ASSUME CacheOK, NEW d \in Ids, NEW f \in ChildIndexes, cache' = Put(cache, d, f)
  PROVE  CacheOK'
BY DEF CacheOK, Put

\* A write of one particle by a step that changes neither cache nor numbers.
LEMMA WriteKeepsInv ==
  ASSUME VfsInv, StoreInv', steps # <<>>, Continued,
         UNCHANGED <<cache, inodes, handles, restarts>>
  PROVE  VfsInv'
<1>1. steps' \in Seq(StepRecords)
  BY NextStep DEF VfsInv, Continued
<1>2. TableOK(inodes') /\ HandlesOK'
  BY SameTable DEF VfsInv
<1>3. CacheOK' /\ restarts' \in Nat
  BY DEF VfsInv, CacheOK
<1> QED BY <1>1, <1>2, <1>3 DEF VfsInv, StoreInv

\* Each step of a call.
LEMMA StepKeepsInv ==
  ASSUME VfsInv, Step
  PROVE  VfsInv'
<1>1. CASE StepNew
  BY <1>1, NewIs, WriteKeepsInv DEF StepNew, Running, bounds
<1>2. CASE StepBond
  BY <1>2, BondIs, WriteKeepsInv DEF StepBond, Running, bounds
<1>3. CASE StepUnbond
  BY <1>3, UnbondIs, WriteKeepsInv DEF StepUnbond, Running, bounds
<1>4. CASE StepName
  BY <1>4, NameIs, WriteKeepsInv DEF StepName, Running, bounds
<1>5. CASE StepContent
  BY <1>5, ContentIs, WriteKeepsInv DEF StepContent, Running, bounds
<1>6. CASE StepIndex
  <2>1. /\ StoreInv' /\ Head(steps).index \in ChildIndexes /\ At \in DOMAIN saved
        /\ cache' = Put(cache, At, Head(steps).index)
    BY <1>6, IndexIs
  <2>2. CacheOK'
    BY <2>1, OnlyCache DEF VfsInv, SavedOK
  <2>3. TableOK(inodes') /\ HandlesOK'
    BY <1>6, SameTable DEF VfsInv, StepIndex
  <2>4. steps' \in Seq(StepRecords)
    BY <1>6, NextStep DEF VfsInv, StepIndex, Continued, Running
  <2>5. restarts' \in Nat
    BY <1>6 DEF VfsInv, StepIndex, bounds
  <2> QED BY <2>1, <2>2, <2>3, <2>4, <2>5 DEF VfsInv, StoreInv
<1>7. CASE StepEnter
  <2> DEFINE f == Put(IndexOf(At), Head(steps).name, Head(steps).id)
             t == ChildrenNumbered(inodes, BuiltFrom(At))
  <2>1. /\ StoreInv' /\ At \in DOMAIN saved /\ cache' = Put(cache, At, f)
        /\ f \in ChildIndexes /\ BuiltFrom(At) \in Seq(Children)
    BY <1>7, EnterIs, PutIndex
  <2>2. CacheOK'
    <3> HIDE DEF f
    <3> QED BY <2>1, OnlyCache DEF VfsInv, SavedOK
  <2>3. inodes' = t /\ handles' = handles
    BY <1>7 DEF StepEnter
  <2>4. TableOK(t) /\ Extends(inodes, t)
    BY <2>1, ChildrenNumberedExtends DEF VfsInv
  <2> HIDE DEF t
  <2>5. TableOK(inodes') /\ HandlesOK'
    BY <2>3, <2>4, HandlesKeep DEF VfsInv
  <2>6. steps' \in Seq(StepRecords)
    BY <1>7, NextStep DEF VfsInv, StepEnter, Continued, Running
  <2>7. restarts' \in Nat
    BY <1>7 DEF VfsInv, StepEnter, bounds
  <2> QED BY <2>1, <2>2, <2>5, <2>6, <2>7 DEF VfsInv, StoreInv
<1>8. CASE StepDelete
  <2>1. StoreInv'
    BY <1>8, DeleteIs
  <2>2. CacheOK'
    BY <1>8 DEF VfsInv, StepDelete, CacheOK, Drop
  <2>3. inodes' = Unnumbered(inodes, At) /\ handles' = handles
    BY <1>8 DEF StepDelete
  <2>4. TableOK(inodes') /\ HandlesOK'
    BY <2>3, UnnumberedExtends, HandlesKeep DEF VfsInv
  <2>5. steps' \in Seq(StepRecords)
    BY <1>8, NextStep DEF VfsInv, StepDelete, Continued, Running
  <2>6. restarts' \in Nat
    BY <1>8 DEF VfsInv, StepDelete, bounds
  <2> QED BY <2>1, <2>2, <2>4, <2>5, <2>6 DEF VfsInv, StoreInv
<1>9. CASE StepNumber
  <2>1. At \in Ids
    BY <1>9, NextStep, StepKinds DEF StepNumber, Running, VfsInv, At, Children
  <2>2. inodes' = Numbered(inodes, At) /\ handles' = handles
    BY <1>9 DEF StepNumber
  <2>3. TableOK(inodes') /\ HandlesOK'
    BY <2>1, <2>2, NumberedExtends, HandlesKeep DEF VfsInv
  <2>4. steps' \in Seq(StepRecords)
    BY <1>9, NextStep DEF VfsInv, StepNumber, Continued, Running
  <2> QED BY <1>9, <2>3, <2>4 DEF StepNumber, VfsInv, SavedOK, MemoryOK, CacheOK, IncomingExact,
                                  AllReferences, References, bounds
<1>10. CASE StepFails
  <2>1. TableOK(inodes') /\ HandlesOK'
    BY <1>10, SameTable DEF VfsInv, StepFails
  <2>2. steps' \in Seq(StepRecords)
    BY <1>10 DEF StepFails
  <2> QED BY <1>10, <2>1, <2>2 DEF StepFails, VfsInv, SavedOK, MemoryOK, CacheOK, IncomingExact,
                                   AllReferences, References, bounds
<1> QED BY <1>1, <1>2, <1>3, <1>4, <1>5, <1>6, <1>7, <1>8, <1>9, <1>10 DEF Step

\* Loading directories and particles.
LEMMA LoadsKeepInv ==
  ASSUME VfsInv, NEW d, NEW n, LoadDirectory(d) \/ Lookup(d, n)
  PROVE  VfsInv'
<1>1. CASE LoadDirectory(d)
  <2> DEFINE f == StoredIndex(d)
             t == Numbered(inodes, d)
             u == ChildrenNumbered(t, BuiltFrom(d))
  <2>1. /\ StoreInv' /\ d \in DOMAIN saved /\ cache' = Put(cache, d, f)
        /\ f \in ChildIndexes /\ BuiltFrom(d) \in Seq(Children)
    BY <1>1, LoadIs
  <2>2. d \in Ids
    BY <2>1 DEF VfsInv, SavedOK
  <2>3. CacheOK'
    <3> HIDE DEF f
    <3> QED BY <2>1, <2>2, OnlyCache DEF VfsInv
  <2>4. inodes' = u /\ handles' = handles
    BY <1>1 DEF LoadDirectory
  <2>5. TableOK(t) /\ Extends(inodes, t)
    BY <2>2, NumberedExtends DEF VfsInv
  <2> HIDE DEF t
  <2>6. TableOK(u) /\ Extends(t, u)
    BY <2>1, <2>5, ChildrenNumberedExtends
  <2> HIDE DEF u
  <2>7. Extends(inodes, u)
    <3>1. /\ inodes.next \in Nat /\ t.next \in Nat /\ u.next \in Nat
          /\ DOMAIN u.byInode \subseteq Nat
      BY <2>5, <2>6 DEF VfsInv, TableOK
    <3> QED BY <3>1, <2>5, <2>6, ExtendsOn
  <2>8. TableOK(inodes') /\ HandlesOK'
    BY <2>4, <2>6, <2>7, HandlesKeep DEF VfsInv
  <2>9. steps' \in Seq(StepRecords) /\ restarts' \in Nat
    BY <1>1 DEF VfsInv, LoadDirectory, bounds
  <2> QED BY <2>1, <2>3, <2>8, <2>9 DEF VfsInv, StoreInv
<1>2. CASE Lookup(d, n)
  <2>1. StoreInv'
    BY <1>2, LookupIs
  <2>2. cache[d][n] \in Ids
    BY <1>2, EntryTypes DEF Lookup, Children
  <2>3. inodes' = Numbered(inodes, cache[d][n]) /\ handles' = handles
    BY <1>2 DEF Lookup
  <2>4. TableOK(inodes') /\ HandlesOK'
    BY <2>2, <2>3, NumberedExtends, HandlesKeep DEF VfsInv
  <2> QED BY <1>2, <2>1, <2>4 DEF Lookup, VfsInv, StoreInv, CacheOK, bounds
<1> QED BY <1>1, <1>2

\* The table of a process that begins.
LEMMA RootTable == TableOK(NewInodes)
<1> DEFINE inode == Put(Empty, 1, Root)
           particle == Put(Empty, Root, 1)
<1>1. /\ DOMAIN inode = {1} /\ inode[1] = Root
      /\ DOMAIN particle = {Root} /\ particle[Root] = 1
  BY DEF Put, Empty
<1> HIDE DEF inode, particle
<1>2. NewInodes = [next |-> 2, byInode |-> inode, byParticle |-> particle]
  BY DEF NewInodes, inode, particle
<1> QED BY <1>1, <1>2, VfsAssumption DEF TableOK

\* The end of the process and the checkpoint.
LEMMA RestartKeepsInv ==
  ASSUME VfsInv, Restart \/ Sync
  PROVE  VfsInv'
<1>1. CASE Restart
  <2>1. StoreInv' /\ cache' = Empty /\ steps' = <<>>
    BY <1>1, RestartIs
  <2>2. CacheOK'
    BY <2>1 DEF CacheOK, Empty
  <2>3. TableOK(inodes') /\ HandlesOK'
    BY <1>1, RootTable DEF Restart, HandlesOK, Empty
  <2>4. steps' \in Seq(StepRecords)
    BY <2>1
  <2>5. restarts' \in Nat
    BY <1>1 DEF Restart, VfsInv
  <2> QED BY <2>1, <2>2, <2>3, <2>4, <2>5 DEF VfsInv, StoreInv
<1>2. CASE Sync
  <2>1. TableOK(inodes') /\ HandlesOK'
    BY <1>2, SameTable DEF VfsInv, Sync
  <2>2. SavedOK'
    BY <1>2 DEF VfsInv, Sync, SavedOK
  <2> QED BY <1>2, <2>1, <2>2 DEF Sync, VfsInv, MemoryOK, CacheOK, IncomingExact,
                                  AllReferences, References, bounds
<1> QED BY <1>1, <1>2

\* An empty volume.
LEMMA InitInv == Init => VfsInv
<1> SUFFICES ASSUME Init PROVE VfsInv
  OBVIOUS
<1> DEFINE root == [gravity |-> <<>>, dims |-> [name |-> None, content |-> None, index |-> None]]
<1>1. DOMAIN saved = {Root} /\ saved[Root] = root
  BY DEF Init, Put, Empty
<1>2. GoodParticle(Root, root)
  <2>1. <<>> \in Seq(Ids) /\ <<>> \in Seq(Children)
    OBVIOUS
  <2>2. root \in Particles
    BY <2>1, ParticleFrom
  <2> QED BY <2>1, <2>2 DEF GoodParticle
<1>3. SavedOK
  BY <1>1, <1>2, VfsAssumption DEF SavedOK, Init
<1>4. MemoryOK
  BY DEF Init, MemoryOK
<1>5. IncomingExact
  <2>1. particles[Root].gravity = <<>> /\ DOMAIN particles = {Root}
    BY <1>1 DEF Init
  <2>2. References(Root, particles[Root]) = {}
    BY <2>1 DEF References
  <2> QED BY <2>1, <2>2 DEF Init, IncomingExact, AllReferences
<1>6. CacheOK /\ HandlesOK /\ TableOK(inodes)
  BY RootTable DEF Init, CacheOK, HandlesOK, Empty
<1>7. steps \in Seq(StepRecords) /\ restarts \in Nat
  BY DEF Init
<1> QED BY <1>3, <1>4, <1>5, <1>6, <1>7 DEF VfsInv

\* Every action.
LEMMA NextInv == VfsInv /\ [Next]_vars => VfsInv'
<1> SUFFICES ASSUME VfsInv, [Next]_vars PROVE VfsInv'
  OBVIOUS
<1>1. ASSUME NEW d \in DOMAIN saved, LoadDirectory(d) PROVE VfsInv'
  BY <1>1, LoadsKeepInv
<1>2. ASSUME NEW d \in DOMAIN cache, NEW n \in Names,
             \/ Lookup(d, n)
             \/ \E kind \in {"dir", "file"} : Make(kind, d, n)
             \/ Unlink(d, n)
             \/ Rmdir(d, n)
             \/ \E m \in Names : Rename(d, n, m)
             \/ \E e \in DOMAIN saved, m \in Names : Move(d, n, e, m)
      PROVE  VfsInv'
  BY <1>2, LoadsKeepInv, CallsKeepInv
<1>3. CASE \/ \E i \in DOMAIN inodes.byInode : OpenHandle(i)
           \/ \E h \in DOMAIN handles : CloseHandle(h) \/ \E c \in Contents : WriteFile(h, c)
  BY <1>3, HandleCallsKeepInv
<1>4. CASE Step \/ Sync \/ Restart
  BY <1>4, StepKeepsInv, RestartKeepsInv
<1>5. CASE UNCHANGED vars
  BY <1>5 DEF vars, bounds, VfsInv, SavedOK, MemoryOK, CacheOK, HandlesOK, IncomingExact,
              AllReferences, References, TableOK
<1> QED BY <1>1, <1>2, <1>3, <1>4, <1>5 DEF Next

\* Whatever calls are made, cut short and begun again: particles are well
\* formed, memory holds what is saved and the index of its bonds is exact, and
\* a number stands for one particle only.
THEOREM VfsInvariant == Spec => []VfsInv
<1> QED BY InitInv, NextInv, PTL DEF Spec

\* The types of the file system's state: what the tables of directories,
\* inodes and handles hold (vfs.rs:70).
THEOREM VfsTypes == Spec => []TypeOK
<1>1. VfsInv => TypeOK
  <2> SUFFICES ASSUME VfsInv PROVE TypeOK
    OBVIOUS
  <2>1. DOMAIN particles \subseteq Ids /\ \A id \in DOMAIN particles : particles[id] \in Particles
    BY DEF VfsInv, SavedOK, MemoryOK, GoodParticle
  <2>2. incoming \subseteq Ids \X Ids \X Nat
    <3> SUFFICES ASSUME NEW r \in AllReferences(particles) PROVE r \in Ids \X Ids \X Nat
      BY DEF VfsInv, IncomingExact
    <3>1. PICK id \in DOMAIN particles : \E k \in DOMAIN particles[id].gravity :
                 r = <<particles[id].gravity[k], id, k>>
      BY ReferencesOf
    <3>2. particles[id].gravity \in Seq(Ids) /\ id \in Ids
      BY <2>1, ParticleIs
    <3> QED BY <3>1, <3>2
  <2> QED BY <2>1, <2>2 DEF TypeOK, StoreTypeOK, VfsInv, SavedOK, CacheOK, TableOK, HandlesOK,
                            GoodParticle
<1> QED BY <1>1, VfsInvariant, PTL

\* A handle or a number the kernel remembers never comes to mean another file
\* (vfs.rs:536): numbers are not given twice, whatever is deleted, made again,
\* or numbered when an index is built.
THEOREM HandlesStayRight == Spec => []HandlesKeepTheirFile
<1>1. VfsInv => HandlesKeepTheirFile
  BY DEF VfsInv, HandlesOK, HandlesKeepTheirFile
<1> QED BY <1>1, VfsInvariant, PTL

\* The file system's own use of the store keeps the index of incoming bonds
\* exact, through restarts too (store.rs:82).
THEOREM VfsKeepsIncomingExact == Spec => []IncomingExact
<1>1. VfsInv => IncomingExact
  BY DEF VfsInv
<1> QED BY <1>1, VfsInvariant, PTL

-----------------------------------------------------------------------------
(* Cached indexes are the stored ones.                                     *)

\* Once a call has made its first step it makes no particle any more.
LEMMA NoNewLeft ==
  ASSUME steps \in Seq(StepRecords), NewFirst, steps # <<>>, Continued
  PROVE  NewFirst'
<1>1. \A k \in DOMAIN Tail(steps) : k + 1 \in DOMAIN steps /\ Tail(steps)[k] = steps[k + 1] /\ k > 0
  OBVIOUS
<1>2. \A k \in DOMAIN steps' : steps'[k].do # "new"
  BY <1>1 DEF NewFirst, Continued
<1> QED BY <1>2 DEF NewFirst

\* Every step but the making of a particle keeps the index dimension of what
\* it writes, or sets it together with the cache.
LEMMA OnlyMatches ==
  ASSUME CacheMatches, NEW d, Only(d),
         \/ cache' = cache /\ (d \in DOMAIN cache => saved'[d].dims.index = saved[d].dims.index)
         \/ \E f : cache' = Put(cache, d, f) /\ saved'[d].dims.index = f
  PROVE  CacheMatches'
BY DEF CacheMatches, Only, Put

\* A step of a call leaves the cache as it has to be.
LEMMA StepKeepsCache ==
  ASSUME VfsInv, CacheInv, Step
  PROVE  CacheInv'
<1>0. /\ steps \in Seq(StepRecords) /\ NewFirst /\ CacheMatches
  BY DEF VfsInv, CacheInv
<1>1. CASE StepNew
  <2>1. At \notin DOMAIN cache
    BY <1>0, <1>1 DEF StepNew, Running, NewFirst, At
  <2>2. CacheMatches'
    BY <1>0, <1>1, <2>1, NewIs, OnlyMatches DEF StepNew
  <2> QED BY <1>0, <1>1, <2>2, NoNewLeft DEF CacheInv, StepNew, Running
<1>2. CASE StepBond
  <2>1. CacheMatches'
    BY <1>0, <1>2, BondIs, OnlyMatches DEF StepBond
  <2> QED BY <1>0, <1>2, <2>1, NoNewLeft DEF CacheInv, StepBond, Running
<1>3. CASE StepUnbond
  <2>1. CacheMatches'
    BY <1>0, <1>3, UnbondIs, OnlyMatches DEF StepUnbond
  <2> QED BY <1>0, <1>3, <2>1, NoNewLeft DEF CacheInv, StepUnbond, Running
<1>4. CASE StepName
  <2>1. CacheMatches'
    BY <1>0, <1>4, NameIs, OnlyMatches DEF StepName
  <2> QED BY <1>0, <1>4, <2>1, NoNewLeft DEF CacheInv, StepName, Running
<1>5. CASE StepContent
  <2>1. CacheMatches'
    BY <1>0, <1>5, ContentIs, OnlyMatches DEF StepContent
  <2> QED BY <1>0, <1>5, <2>1, NoNewLeft DEF CacheInv, StepContent, Running
<1>6. CASE StepIndex
  <2>1. CacheMatches'
    BY <1>0, <1>6, IndexIs, OnlyMatches
  <2> QED BY <1>0, <1>6, <2>1, NoNewLeft DEF CacheInv, StepIndex, Running
<1>7. CASE StepEnter
  <2>1. CacheMatches'
    BY <1>0, <1>7, EnterIs, OnlyMatches
  <2> QED BY <1>0, <1>7, <2>1, NoNewLeft DEF CacheInv, StepEnter, Running
<1>8. CASE StepDelete
  <2>1. cache' = Drop(cache, At)
    BY <1>8 DEF StepDelete
  <2>2. /\ DOMAIN saved' = DOMAIN saved \ {At}
        /\ \A x \in DOMAIN saved' : saved'[x] = saved[x]
    BY <1>8, DeleteIs
  <2>3. CacheMatches'
    BY <1>0, <2>1, <2>2 DEF CacheMatches, Drop
  <2> QED BY <1>0, <1>8, <2>3, NoNewLeft DEF CacheInv, StepDelete, Running
<1>9. CASE StepNumber
  <2>1. CacheMatches'
    BY <1>0, <1>9 DEF CacheMatches, StepNumber
  <2> QED BY <1>0, <1>9, <2>1, NoNewLeft DEF CacheInv, StepNumber, Running
<1>10. CASE StepFails
  BY <1>0, <1>10 DEF StepFails, CacheInv, CacheMatches, NewFirst
<1> QED BY <1>1, <1>2, <1>3, <1>4, <1>5, <1>6, <1>7, <1>8, <1>9, <1>10 DEF Step

\* A call begins with the making of its particle or makes none.
LEMMA CallKeepsCache ==
  ASSUME CacheInv, NEW entries, NEW script, Call(entries, script),
         \A k \in DOMAIN script : script[k].do = "new" => k = 1 /\ script[k].at \notin DOMAIN cache
  PROVE  CacheInv'
BY DEF CacheInv, CacheMatches, NewFirst, Call

\* Clients do not make what is in use, so what is made has no cached index.
LEMMA CallsKeepCache ==
  ASSUME ~Reuse, CacheInv, NEW d \in DOMAIN cache, NEW n \in Names,
         \/ \E kind \in {"dir", "file"} : Make(kind, d, n)
         \/ Unlink(d, n)
         \/ Rmdir(d, n)
         \/ \E m \in Names : Rename(d, n, m)
         \/ \E e \in DOMAIN saved, m \in Names : Move(d, n, e, m)
  PROVE  CacheInv'
<1>1. ASSUME NEW kind \in {"dir", "file"}, Make(kind, d, n) PROVE CacheInv'
  <2> DEFINE id == ChildId(d, kind, n)
             content == IF kind = "file" THEN Blank ELSE None
             script == CreateScript(d, n, id, content)
  <2>1. Call({<<d, n>>}, script) /\ id \notin DOMAIN cache
    BY <1>1 DEF Make, Unused
  <2> HIDE DEF id, content
  <2>2. /\ DOMAIN script = 1 .. 4
        /\ script[1].at = id /\ script[2].do = "bond"
        /\ script[3].do = "index" /\ script[4].do = "number"
    BY DEF CreateScript, NewStep, BondStep, IndexStep, NumberStep
  <2>3. \A k \in DOMAIN script : script[k].do = "new" => k = 1 /\ script[k].at \notin DOMAIN cache
    <3> HIDE DEF script
    <3> QED BY <2>1, <2>2
  <2> HIDE DEF script
  <2> QED BY <2>1, <2>3, CallKeepsCache
<1>2. CASE Unlink(d, n) \/ Rmdir(d, n)
  <2>1. \A k \in DOMAIN UnlinkScript(d, n) : UnlinkScript(d, n)[k].do # "new"
    BY DEF UnlinkScript, UnbondStep, IndexStep, DeleteStep
  <2> QED BY <1>2, <2>1, CallKeepsCache DEF Unlink, Rmdir
<1>3. ASSUME NEW m \in Names, Rename(d, n, m) PROVE CacheInv'
  <2>1. \A k \in DOMAIN RenameScript(d, n, m) : RenameScript(d, n, m)[k].do # "new"
    BY DEF RenameScript, NameStep, IndexStep
  <2> QED BY <1>3, <2>1, CallKeepsCache DEF Rename
<1>4. ASSUME NEW e \in DOMAIN saved, NEW m \in Names, Move(d, n, e, m) PROVE CacheInv'
  <2>1. \A k \in DOMAIN MoveScript(d, n, e, m) : MoveScript(d, n, e, m)[k].do # "new"
    <3>1. CASE n = m
      BY <3>1 DEF MoveScript, UnbondStep, IndexStep, BondStep, EnterStep
    <3>2. CASE n # m
      BY <3>2 DEF MoveScript, UnbondStep, IndexStep, NameStep, BondStep, EnterStep
    <3> QED BY <3>1, <3>2
  <2> QED BY <1>4, <2>1, CallKeepsCache DEF Move
<1> QED BY <1>1, <1>2, <1>3, <1>4

\* Loads come between calls, and what they put in the cache they save.
LEMMA LoadsKeepCache ==
  ASSUME VfsInv, CacheInv, NEW d, NEW n, LoadDirectory(d) \/ Lookup(d, n)
  PROVE  CacheInv'
<1>1. CASE LoadDirectory(d)
  <2>1. CacheMatches'
    BY <1>1, LoadIs, OnlyMatches DEF CacheInv
  <2> QED BY <1>1, <2>1 DEF CacheInv, NewFirst, LoadDirectory, Idle
<1>2. CASE Lookup(d, n)
  BY <1>2 DEF Lookup, CacheInv, CacheMatches, NewFirst, Idle
<1> QED BY <1>1, <1>2

\* Every action keeps both parts.
LEMMA NextKeepsCache ==
  ASSUME ~Reuse, VfsInv, CacheInv, [Next]_vars
  PROVE  CacheInv'
<1>1. ASSUME NEW d \in DOMAIN saved, LoadDirectory(d) PROVE CacheInv'
  BY <1>1, LoadsKeepCache
<1>2. ASSUME NEW d \in DOMAIN cache, NEW n \in Names,
             \/ Lookup(d, n)
             \/ \E kind \in {"dir", "file"} : Make(kind, d, n)
             \/ Unlink(d, n)
             \/ Rmdir(d, n)
             \/ \E m \in Names : Rename(d, n, m)
             \/ \E e \in DOMAIN saved, m \in Names : Move(d, n, e, m)
      PROVE  CacheInv'
  BY <1>2, LoadsKeepCache, CallsKeepCache
<1>3. CASE \/ \E i \in DOMAIN inodes.byInode : OpenHandle(i)
           \/ \E h \in DOMAIN handles : CloseHandle(h)
  BY <1>3 DEF OpenHandle, CloseHandle, CacheInv, CacheMatches, NewFirst
<1>4. ASSUME NEW h \in DOMAIN handles, NEW c \in Contents, WriteFile(h, c) PROVE CacheInv'
  <2> DEFINE id == inodes.byInode[handles[h].inode]
  <2>1. Call(Named(id), <<ContentStep(id, c)>>)
    BY <1>4 DEF WriteFile
  <2> HIDE DEF id
  <2>2. \A k \in DOMAIN <<ContentStep(id, c)>> : <<ContentStep(id, c)>>[k].do # "new"
    BY DEF ContentStep
  <2> QED BY <2>1, <2>2, CallKeepsCache
<1>5. CASE Step
  BY <1>5, StepKeepsCache
<1>6. CASE Sync
  BY <1>6 DEF Sync, CacheInv, CacheMatches, NewFirst
<1>7. CASE Restart
  BY <1>7 DEF Restart, CacheInv, CacheMatches, NewFirst, Empty
<1>8. CASE UNCHANGED vars
  BY <1>8 DEF vars, CacheInv, CacheMatches, NewFirst
<1> QED BY <1>1, <1>2, <1>3, <1>4, <1>5, <1>6, <1>7, <1>8 DEF Next

\* A cached index is the one its directory has (vfs.rs:285), as long as
\* clients do not make what still has a name or a bond: a directory removed
\* and made again does not come back with its old entries.
THEOREM CacheStaysTrue == ASSUME ~Reuse PROVE Spec => []CacheMatches
<1>1. Init => CacheInv
  BY DEF Init, CacheInv, CacheMatches, NewFirst, Empty
<1>2. VfsInv /\ CacheInv /\ [Next]_vars => CacheInv'
  BY NextKeepsCache
<1>3. CacheInv => CacheMatches
  BY DEF CacheInv
<1> QED BY <1>1, <1>2, <1>3, VfsInvariant, PTL DEF Spec

-----------------------------------------------------------------------------
(* How far names and bonds agree after each kind of logged write.          *)

\* The bonds of a particle written with the bonds it had.
LEMMA SameBonds ==
  ASSUME NEW d \in DOMAIN saved, Only(d), saved'[d].gravity = saved[d].gravity
  PROVE  /\ DOMAIN saved' = DOMAIN saved
         /\ \A x \in DOMAIN saved : \A i : BondedIn(saved', x, i) <=> BondedIn(saved, x, i)
BY DEF Only, BondedIn

\* A new particle has no bonds, and nothing names it or is bonded to it yet.
LEMMA MadeAgrees ==
  ASSUME Settled, NEW id, Only(id), NotNamed(id), NotBonded(id), id \notin DOMAIN cache,
         saved'[id].gravity = <<>>, saved'[id].dims.index = None, cache' = cache,
         DOMAIN particles' = DOMAIN particles \cup {id}
  PROVE  Settled' /\ NotNamed(id)' /\ NotBonded(id)'
<1>1. /\ DOMAIN saved' = DOMAIN saved \cup {id}
      /\ \A x \in DOMAIN saved : x # id => saved'[x] = saved[x]
  BY DEF Only
<1>2. \A x \in DOMAIN saved' : \A i : BondedIn(saved', x, i) <=> x # id /\ BondedIn(saved, x, i)
  BY <1>1 DEF BondedIn, Among
<1>3. /\ DOMAIN particles' = DOMAIN saved' /\ DOMAIN cache' \subseteq DOMAIN saved'
  BY <1>1 DEF Settled, Agree
<1>4. PlainOK({})'
  BY <1>1, <1>2 DEF Settled, Agree, PlainOK, Bonded
<1>5. \A d \in DOMAIN saved', i \in Ids : BondedIn(saved', d, i) => i \in DOMAIN saved'
  BY <1>1, <1>2 DEF Settled, Agree, Bonded
<1>6. EntriesOK({}, {})'
  BY <1>1, <1>2 DEF Settled, Agree, EntriesOK, Bonded, NotNamed
<1>7. NamedOnce'
  BY DEF Settled, Agree, NamedOnce
<1>8. NotNamed(id)' /\ NotBonded(id)'
  BY <1>1, <1>2 DEF NotNamed, NotBonded, Bonded
<1> QED BY <1>3, <1>4, <1>5, <1>6, <1>7, <1>8 DEF Settled, Agree, Bonded

\* A bond to a particle that nothing names.
LEMMA BondAgrees ==
  ASSUME Settled, NEW d \in DOMAIN saved, NEW id \in DOMAIN saved, Only(d),
         saved[d].gravity \in Seq(Children), id \in Children,
         saved'[d].gravity = Append(saved[d].gravity, id), saved'[d].dims = saved[d].dims,
         NotNamed(id), NotBonded(id), cache' = cache, DOMAIN particles' = DOMAIN particles
  PROVE  /\ Agree({}, {}, {<<d, id>>})' /\ (d \in DOMAIN cache => Settled')
         /\ NotNamed(id)' /\ OnlyBondedBy(d, id)'
         /\ \A n : Ready(id, n) => Ready(id, n)'
<1>1. /\ DOMAIN saved' = DOMAIN saved
      /\ \A x \in DOMAIN saved : x # d => saved'[x] = saved[x]
      /\ \A x \in DOMAIN saved : saved'[x].dims = saved[x].dims
  BY DEF Only
<1>2. \A i : BondedIn(saved', d, i) <=> i = id \/ BondedIn(saved, d, i)
  BY AppendProperties DEF BondedIn, Among
<1>3. \A x \in DOMAIN saved : \A i : x # d => (BondedIn(saved', x, i) <=> BondedIn(saved, x, i))
  BY <1>1 DEF BondedIn
<1>4. /\ DOMAIN particles' = DOMAIN saved' /\ DOMAIN cache' \subseteq DOMAIN saved'
  BY <1>1 DEF Settled, Agree
<1>5. PlainOK({<<d, id>>})'
  BY <1>1, <1>2, <1>3 DEF Settled, Agree, PlainOK, Bonded
<1>6. \A x \in DOMAIN saved', i \in Ids : BondedIn(saved', x, i) => i \in DOMAIN saved'
  BY <1>1, <1>2, <1>3 DEF Settled, Agree, Bonded
<1>7. EntriesOK({}, {})'
  BY <1>1, <1>2, <1>3 DEF Settled, Agree, EntriesOK, Bonded, NotNamed
<1>8. NamedOnce'
  BY DEF Settled, Agree, NamedOnce
<1>9. NotNamed(id)' /\ OnlyBondedBy(d, id)'
  BY <1>1, <1>2, <1>3 DEF NotNamed, OnlyBondedBy, NotBonded, Bonded
<1>10. \A n : Ready(id, n) => Ready(id, n)'
  BY <1>1 DEF Ready
<1>11. d \in DOMAIN cache => PlainOK({})'
  BY <1>1, <1>3 DEF Settled, Agree, PlainOK, Bonded
<1> QED BY <1>4, <1>5, <1>6, <1>7, <1>8, <1>9, <1>10, <1>11 DEF Agree, Settled, Bonded

\* The bonds to the particle of an entry go.
LEMMA UnbondAgrees ==
  ASSUME Settled, NEW d, NEW n, NEW id, Entry(d, n, id), Only(d),
         saved[d].gravity \in Seq(Children),
         saved'[d].gravity = Retained(saved[d].gravity, id), saved'[d].dims = saved[d].dims,
         cache' = cache, DOMAIN particles' = DOMAIN particles
  PROVE  /\ Agree({}, {<<d, n>>}, {})'
         /\ Entry(d, n, id)' /\ NotBonded(id)' /\ Ready(id, n)'
<1>0. d \in DOMAIN cache /\ d \in DOMAIN saved /\ n \in DOMAIN cache[d] /\ cache[d][n] = id
  BY DEF Settled, Agree, Entry
<1>1. /\ DOMAIN saved' = DOMAIN saved
      /\ \A x \in DOMAIN saved : x # d => saved'[x] = saved[x]
      /\ \A x \in DOMAIN saved : saved'[x].dims = saved[x].dims
  BY <1>0 DEF Only
<1>2. \A i : BondedIn(saved', d, i) <=> i # id /\ BondedIn(saved, d, i)
  BY RetainedIs DEF BondedIn
<1>3. \A x \in DOMAIN saved : \A i : x # d => (BondedIn(saved', x, i) <=> BondedIn(saved, x, i))
  BY <1>1 DEF BondedIn
<1>4. /\ DOMAIN particles' = DOMAIN saved' /\ DOMAIN cache' \subseteq DOMAIN saved'
  BY <1>1 DEF Settled, Agree
<1>5. PlainOK({})'
  BY <1>1, <1>2, <1>3 DEF Settled, Agree, PlainOK, Bonded
<1>6. \A x \in DOMAIN saved', i \in Ids : BondedIn(saved', x, i) => i \in DOMAIN saved'
  BY <1>1, <1>2, <1>3 DEF Settled, Agree, Bonded
<1>7. EntriesOK({}, {<<d, n>>})'
  <2> SUFFICES ASSUME NEW e \in DOMAIN cache, NEW m \in DOMAIN cache[e]
               PROVE  /\ cache[e][m] \in DOMAIN saved'
                      /\ \A x \in DOMAIN saved' : BondedIn(saved', x, cache[e][m]) => x = e
                      /\ saved'[cache[e][m]].dims.name = m
                      /\ BondedIn(saved', e, cache[e][m]) \/ <<e, m>> = <<d, n>>
    BY DEF EntriesOK, Bonded
  <2>1. /\ cache[e][m] \in DOMAIN saved
        /\ \A x \in DOMAIN saved : BondedIn(saved, x, cache[e][m]) => x = e
        /\ saved[cache[e][m]].dims.name = m
        /\ BondedIn(saved, e, cache[e][m])
    BY DEF Settled, Agree, EntriesOK, Bonded
  <2>2. cache[e][m] = id => e = d /\ m = n
    BY <1>0 DEF Settled, Agree, NamedOnce
  <2>3. e \in DOMAIN saved
    BY DEF Settled, Agree
  <2> QED BY <1>1, <1>2, <1>3, <2>1, <2>2, <2>3
<1>8. NamedOnce'
  BY DEF Settled, Agree, NamedOnce
<1>9. Entry(d, n, id)'
  BY DEF Entry
<1>10. NotBonded(id)'
  BY <1>0, <1>1, <1>2, <1>3 DEF Settled, Agree, EntriesOK, NotBonded, Bonded
<1>11. Ready(id, n)'
  BY <1>0, <1>1 DEF Settled, Agree, EntriesOK, Ready
<1> QED BY <1>4, <1>5, <1>6, <1>7, <1>8, <1>9, <1>10, <1>11 DEF Agree, Bonded

\* A write that changes neither bonds nor index, and the name of id only when
\* every entry of id is one of Y.
LEMMA NameAgrees ==
  ASSUME NEW Y, Settled, NEW id \in DOMAIN saved, Only(id),
         saved'[id].gravity = saved[id].gravity, saved'[id].dims.index = saved[id].dims.index,
         cache' = cache, DOMAIN particles' = DOMAIN particles,
         \/ saved'[id].dims.name = saved[id].dims.name
         \/ \A d \in DOMAIN cache : \A n \in DOMAIN cache[d] : cache[d][n] = id => <<d, n>> \in Y
  PROVE  Agree(Y, {}, {})'
<1>1. /\ DOMAIN saved' = DOMAIN saved
      /\ \A x \in DOMAIN saved : \A i : BondedIn(saved', x, i) <=> BondedIn(saved, x, i)
  BY SameBonds
<1>2. /\ \A x \in DOMAIN saved : saved'[x].dims.index = saved[x].dims.index
      /\ \A x \in DOMAIN saved : x # id => saved'[x].dims.name = saved[x].dims.name
  BY DEF Only
<1>3. /\ DOMAIN particles' = DOMAIN saved' /\ DOMAIN cache' \subseteq DOMAIN saved'
  BY <1>1 DEF Settled, Agree
<1>4. PlainOK({})'
  BY <1>1, <1>2 DEF Settled, Agree, PlainOK, Bonded
<1>5. \A x \in DOMAIN saved', i \in Ids : BondedIn(saved', x, i) => i \in DOMAIN saved'
  BY <1>1 DEF Settled, Agree, Bonded
<1>6. EntriesOK(Y, {})'
  <2> SUFFICES ASSUME NEW e \in DOMAIN cache, NEW m \in DOMAIN cache[e]
               PROVE  /\ cache[e][m] \in DOMAIN saved'
                      /\ \A x \in DOMAIN saved' : BondedIn(saved', x, cache[e][m]) => x = e
                      /\ saved'[cache[e][m]].dims.name = m \/ <<e, m>> \in Y
                      /\ BondedIn(saved', e, cache[e][m])
    BY DEF EntriesOK, Bonded
  <2>1. /\ cache[e][m] \in DOMAIN saved
        /\ \A x \in DOMAIN saved : BondedIn(saved, x, cache[e][m]) => x = e
        /\ saved[cache[e][m]].dims.name = m
        /\ BondedIn(saved, e, cache[e][m])
    BY DEF Settled, Agree, EntriesOK, Bonded
  <2>2. saved'[cache[e][m]].dims.name = m \/ <<e, m>> \in Y
    BY <1>2, <2>1
  <2>3. e \in DOMAIN saved
    BY DEF Settled, Agree
  <2> QED BY <1>1, <2>1, <2>2, <2>3
<1>7. NamedOnce'
  BY DEF Settled, Agree, NamedOnce
<1> QED BY <1>3, <1>4, <1>5, <1>6, <1>7 DEF Agree, Bonded

\* What a write of one particle, with the bonds it had, does not disturb.
LEMMA NameKeeps ==
  ASSUME NEW id \in DOMAIN saved, Only(id), saved'[id].gravity = saved[id].gravity,
         cache' = cache
  PROVE  \A i : /\ NotNamed(i) => NotNamed(i)'
                /\ NotBonded(i) => NotBonded(i)'
                /\ \A d \in DOMAIN saved : OnlyBondedBy(d, i) => OnlyBondedBy(d, i)'
                /\ \A d, n : Entry(d, n, i) => Entry(d, n, i)'
BY SameBonds DEF NotNamed, NotBonded, OnlyBondedBy, Bonded, Entry

\* An index loses an entry, and with it the only excuse there was.
LEMMA DropAgrees ==
  ASSUME NEW d, NEW n, NEW id, Agree({}, {<<d, n>>}, {}), Entry(d, n, id), Only(d),
         saved'[d].gravity = saved[d].gravity, saved'[d].dims.name = saved[d].dims.name,
         cache' = Put(cache, d, Drop(cache[d], n)), DOMAIN particles' = DOMAIN particles,
         NotBonded(id)
  PROVE  Settled' /\ NotNamed(id)' /\ NotBonded(id)' /\ \A m : Ready(id, m) => Ready(id, m)'
<1>0. d \in DOMAIN cache /\ d \in DOMAIN saved /\ n \in DOMAIN cache[d] /\ cache[d][n] = id
  BY DEF Agree, Entry
<1>1. /\ DOMAIN saved' = DOMAIN saved
      /\ \A x \in DOMAIN saved : \A i : BondedIn(saved', x, i) <=> BondedIn(saved, x, i)
  BY <1>0, SameBonds
<1>2. /\ \A x \in DOMAIN saved : x # d => saved'[x] = saved[x]
      /\ \A x \in DOMAIN saved : saved'[x].dims.name = saved[x].dims.name
  BY <1>0 DEF Only
<1>3. /\ DOMAIN cache' = DOMAIN cache
      /\ \A e \in DOMAIN cache : e # d => cache'[e] = cache[e]
      /\ DOMAIN cache'[d] = DOMAIN cache[d] \ {n}
      /\ \A m \in DOMAIN cache[d] : m # n => cache'[d][m] = cache[d][m]
  BY <1>0 DEF Put, Drop
<1>4. \A e \in DOMAIN cache' : \A m \in DOMAIN cache'[e] :
        /\ e \in DOMAIN cache /\ m \in DOMAIN cache[e] /\ cache'[e][m] = cache[e][m]
        /\ <<e, m>> # <<d, n>>
  BY <1>3
<1>5. /\ DOMAIN particles' = DOMAIN saved' /\ DOMAIN cache' \subseteq DOMAIN saved'
  BY <1>1, <1>3 DEF Agree
<1>6. PlainOK({})'
  BY <1>0, <1>1, <1>2, <1>3 DEF Agree, PlainOK, Bonded
<1>7. \A x \in DOMAIN saved', i \in Ids : BondedIn(saved', x, i) => i \in DOMAIN saved'
  BY <1>1 DEF Agree, Bonded
<1>8. EntriesOK({}, {})'
  BY <1>1, <1>2, <1>4 DEF Agree, EntriesOK, Bonded
<1>9. NamedOnce'
  BY <1>4 DEF Agree, NamedOnce
<1>10. NotNamed(id)'
  BY <1>0, <1>4 DEF Agree, NamedOnce, NotNamed
<1>11. NotBonded(id)' /\ \A m : Ready(id, m) => Ready(id, m)'
  BY <1>1, <1>2 DEF NotBonded, Bonded, Ready
<1> QED BY <1>5, <1>6, <1>7, <1>8, <1>9, <1>10, <1>11 DEF Settled, Agree, Bonded

\* An index gets the entry of a particle that no other entry names: the rest
\* of it, f, are entries it had.
LEMMA PutAgrees ==
  ASSUME NEW X, NEW P, Agree(X, {}, P), NEW d \in DOMAIN saved, NEW m, NEW id, NEW f, Only(d),
         OnlyBondedBy(d, id), Ready(id, m),
         \A x \in DOMAIN f : x # m =>
           d \in DOMAIN cache /\ x \in DOMAIN cache[d] /\ f[x] = cache[d][x] /\ f[x] # id,
         \A e \in DOMAIN cache : \A x \in DOMAIN cache[e] :
           <<e, x>> \in X => e = d /\ x \notin DOMAIN f,
         \A e \in DOMAIN cache : \A x \in DOMAIN cache[e] :
           cache[e][x] = id => e = d /\ x \notin DOMAIN f,
         P \subseteq {<<d, id>>},
         saved'[d].gravity = saved[d].gravity, saved'[d].dims.name = saved[d].dims.name,
         cache' = Put(cache, d, Put(f, m, id)), DOMAIN particles' = DOMAIN particles
  PROVE  Settled'
<1>1. /\ DOMAIN saved' = DOMAIN saved
      /\ \A x \in DOMAIN saved : \A i : BondedIn(saved', x, i) <=> BondedIn(saved, x, i)
  BY SameBonds
<1>2. /\ \A x \in DOMAIN saved : x # d => saved'[x] = saved[x]
      /\ \A x \in DOMAIN saved : saved'[x].dims.name = saved[x].dims.name
  BY DEF Only
<1>3. /\ DOMAIN cache' = DOMAIN cache \cup {d}
      /\ \A e \in DOMAIN cache : e # d => cache'[e] = cache[e]
      /\ DOMAIN cache'[d] = DOMAIN f \cup {m} /\ cache'[d][m] = id
      /\ \A x \in DOMAIN f : x # m => cache'[d][x] = f[x]
  BY DEF Put
<1>4. \A e \in DOMAIN cache' : \A x \in DOMAIN cache'[e] :
        \/ /\ e \in DOMAIN cache /\ x \in DOMAIN cache[e] /\ cache'[e][x] = cache[e][x]
           /\ cache'[e][x] # id /\ <<e, x>> \notin X
        \/ e = d /\ x = m /\ cache'[e][x] = id
  <2> SUFFICES ASSUME NEW e \in DOMAIN cache', NEW x \in DOMAIN cache'[e]
               PROVE  \/ /\ e \in DOMAIN cache /\ x \in DOMAIN cache[e]
                         /\ cache'[e][x] = cache[e][x]
                         /\ cache'[e][x] # id /\ <<e, x>> \notin X
                      \/ e = d /\ x = m /\ cache'[e][x] = id
    OBVIOUS
  <2>1. CASE e # d
    <3>1. e \in DOMAIN cache /\ cache'[e] = cache[e] /\ x \in DOMAIN cache[e]
      BY <1>3, <2>1
    <3> QED BY <2>1, <3>1
  <2>2. CASE e = d /\ x # m
    <3>1. x \in DOMAIN f /\ cache'[d][x] = f[x]
      BY <1>3, <2>2
    <3> QED BY <2>2, <3>1
  <2>3. CASE e = d /\ x = m
    BY <1>3, <2>3
  <2> QED BY <2>1, <2>2, <2>3
<1>5. /\ DOMAIN particles' = DOMAIN saved' /\ DOMAIN cache' \subseteq DOMAIN saved'
  BY <1>1, <1>3 DEF Agree
<1>6. PlainOK({})'
  <2>1. \A e, i : <<e, i>> \in P => e = d
    OBVIOUS
  <2>2. \A e \in DOMAIN saved \ DOMAIN cache :
          saved[e].dims.index = None /\ \A i \in Ids : BondedIn(saved, e, i) => <<e, i>> \in P
    BY DEF Agree, PlainOK, Bonded
  <2> SUFFICES ASSUME NEW e \in DOMAIN saved' \ DOMAIN cache'
               PROVE  saved'[e].dims.index = None /\ \A i \in Ids : ~BondedIn(saved', e, i)
    BY DEF PlainOK, Bonded
  <2>3. e \in DOMAIN saved \ DOMAIN cache /\ e # d /\ saved'[e] = saved[e]
    BY <1>1, <1>2, <1>3
  <2> QED BY <1>1, <2>1, <2>2, <2>3
<1>7. \A x \in DOMAIN saved', i \in Ids : BondedIn(saved', x, i) => i \in DOMAIN saved'
  BY <1>1 DEF Agree, Bonded
<1>8. EntriesOK({}, {})'
  <2> SUFFICES ASSUME NEW e \in DOMAIN cache', NEW x \in DOMAIN cache'[e]
               PROVE  /\ cache'[e][x] \in DOMAIN saved
                      /\ \A y \in DOMAIN saved : BondedIn(saved, y, cache'[e][x]) => y = e
                      /\ saved[cache'[e][x]].dims.name = x
                      /\ BondedIn(saved, e, cache'[e][x])
    BY <1>1, <1>2, <1>3 DEF EntriesOK, Bonded, Agree
  <2>1. CASE /\ e \in DOMAIN cache /\ x \in DOMAIN cache[e] /\ cache'[e][x] = cache[e][x]
             /\ <<e, x>> \notin X
    BY <2>1 DEF Agree, EntriesOK, Bonded
  <2>2. CASE e = d /\ x = m /\ cache'[e][x] = id
    BY <2>2 DEF OnlyBondedBy, Bonded, Ready
  <2> QED BY <1>4, <2>1, <2>2
<1>9. NamedOnce'
  <2> SUFFICES ASSUME NEW e \in DOMAIN cache', NEW g \in DOMAIN cache',
                      NEW x \in DOMAIN cache'[e], NEW y \in DOMAIN cache'[g],
                      cache'[e][x] = cache'[g][y]
               PROVE  e = g /\ x = y
    BY DEF NamedOnce
  <2>1. CASE cache'[e][x] = id
    BY <1>4, <2>1
  <2>2. CASE cache'[e][x] # id
    <3>1. /\ e \in DOMAIN cache /\ x \in DOMAIN cache[e] /\ cache'[e][x] = cache[e][x]
          /\ g \in DOMAIN cache /\ y \in DOMAIN cache[g] /\ cache'[g][y] = cache[g][y]
      BY <1>4, <2>2
    <3>2. NamedOnce /\ cache[e][x] = cache[g][y]
      BY <3>1 DEF Agree
    <3> QED BY <3>1, <3>2 DEF NamedOnce
  <2> QED BY <2>1, <2>2
<1> QED BY <1>5, <1>6, <1>7, <1>8, <1>9 DEF Settled, Agree, Bonded

\* A particle that no entry names and no bond leads to is deleted.
LEMMA DeleteAgrees ==
  ASSUME Settled, NEW id, NotNamed(id), NotBonded(id),
         DOMAIN saved' = DOMAIN saved \ {id}, \A x \in DOMAIN saved' : saved'[x] = saved[x],
         cache' = Drop(cache, id), DOMAIN particles' = DOMAIN particles \ {id}
  PROVE  Settled'
<1>1. \A x \in DOMAIN saved' : \A i : BondedIn(saved', x, i) <=> BondedIn(saved, x, i)
  BY DEF BondedIn
<1>2. DOMAIN cache' = DOMAIN cache \ {id} /\ \A e \in DOMAIN cache' : cache'[e] = cache[e]
  BY DEF Drop
<1>3. /\ DOMAIN particles' = DOMAIN saved' /\ DOMAIN cache' \subseteq DOMAIN saved'
  BY <1>2 DEF Settled, Agree
<1>4. PlainOK({})'
  BY <1>1, <1>2 DEF Settled, Agree, PlainOK, Bonded
<1>5. \A x \in DOMAIN saved', i \in Ids : BondedIn(saved', x, i) => i \in DOMAIN saved'
  BY <1>1 DEF Settled, Agree, Bonded, NotBonded
<1>6. EntriesOK({}, {})'
  BY <1>1, <1>2 DEF Settled, Agree, EntriesOK, Bonded, NotNamed
<1>7. NamedOnce'
  BY <1>2 DEF Settled, Agree, NamedOnce
<1> QED BY <1>3, <1>4, <1>5, <1>6, <1>7 DEF Settled, Agree, Bonded

\* A directory loaded for the first time has nothing in it.
LEMMA LoadAgrees ==
  ASSUME SavedOK, Settled, NEW d \in DOMAIN saved \ DOMAIN cache, Only(d),
         saved'[d].gravity = saved[d].gravity, saved'[d].dims.name = saved[d].dims.name,
         cache' = Put(cache, d, StoredIndex(d)), DOMAIN particles' = DOMAIN particles
  PROVE  Settled'
<1>1. /\ DOMAIN saved' = DOMAIN saved
      /\ \A x \in DOMAIN saved : \A i : BondedIn(saved', x, i) <=> BondedIn(saved, x, i)
  BY SameBonds
<1>2. /\ \A x \in DOMAIN saved : x # d => saved'[x] = saved[x]
      /\ \A x \in DOMAIN saved : saved'[x].dims.name = saved[x].dims.name
  BY DEF Only
<1>3. DOMAIN StoredIndex(d) = {}
  <2>1. saved[d].dims.index = None /\ \A i \in Ids : ~BondedIn(saved, d, i)
    BY DEF Settled, Agree, PlainOK, Bonded
  <2>2. StoredIndex(d) = FromBonds(d)
    BY <2>1 DEF StoredIndex, HasIndex
  <2>3. DOMAIN saved \subseteq Ids
    BY DEF SavedOK
  <2>4. \A n \in DOMAIN FromBonds(d) : \E k \in DOMAIN saved[d].gravity :
          saved[d].gravity[k] \in DOMAIN saved
    BY FromBondsIs
  <2> QED BY <2>1, <2>2, <2>3, <2>4 DEF BondedIn, Among
<1>4. /\ DOMAIN cache' = DOMAIN cache \cup {d}
      /\ \A e \in DOMAIN cache : cache'[e] = cache[e]
      /\ DOMAIN cache'[d] = {}
  BY <1>3 DEF Put
<1>5. /\ DOMAIN particles' = DOMAIN saved' /\ DOMAIN cache' \subseteq DOMAIN saved'
  BY <1>1, <1>4 DEF Settled, Agree
<1>6. PlainOK({})'
  BY <1>1, <1>2, <1>4 DEF Settled, Agree, PlainOK, Bonded
<1>7. \A x \in DOMAIN saved', i \in Ids : BondedIn(saved', x, i) => i \in DOMAIN saved'
  BY <1>1 DEF Settled, Agree, Bonded
<1>8. EntriesOK({}, {})'
  BY <1>1, <1>2, <1>4 DEF Settled, Agree, EntriesOK, Bonded
<1>9. NamedOnce'
  BY <1>4 DEF Settled, Agree, NamedOnce
<1> QED BY <1>5, <1>6, <1>7, <1>8, <1>9 DEF Settled, Agree, Bonded

-----------------------------------------------------------------------------
(* What each step makes of what a call has still to do.                    *)

\* The next step tells how far the call has come.
LEMMA Doing ==
  ASSUME NamesOK, steps # <<>>
  PROVE  /\ Head(steps).do = "new" =>
              \E d \in Ids, n \in Names, id \in Children, c \in Contents \cup {None} :
                ToMake(d, n, id, c)
         /\ Head(steps).do = "bond" =>
              \E d \in Ids, n \in Names, id \in Children : ToBond(d, n, id) \/ Arriving(d, n, id)
         /\ Head(steps).do = "unbond" =>
              \E d \in Ids, n \in Names, id \in Children :
                ToUnbond(d, n, id) \/ \E e \in Ids, m \in Names : ToMove(d, n, e, m, id)
         /\ Head(steps).do = "name" =>
              \E d \in Ids, n \in Names, id \in Children :
                InNeither(d, n, id) \/ \E m \in Names : ToRename(d, n, m, id)
         /\ Head(steps).do = "index" =>
              \E d \in Ids, n \in Names, id \in Children :
                \/ ToIndex(d, n, id) \/ ToUnname(d, n, id)
                \/ \E m \in Names : Renamed(d, n, m, id)
                \/ \E e \in Ids, m \in Names : Taken(d, n, e, m, id)
         /\ Head(steps).do = "enter" =>
              \E e \in Ids, m \in Names, id \in Children : Entering(e, m, id)
         /\ Head(steps).do = "delete" => \E id \in Children : ToDelete(id)
         /\ Head(steps).do \in {"number", "content"} => Len(steps) = 1 /\ Settled
         /\ Head(steps).do \notin {"index", "enter"} => Settled
<1> DEFINE do == Head(steps).do
<1>1. Resting => do \in {"number", "content"} /\ Len(steps) = 1 /\ Settled
  BY DEF Resting
<1>2. \A d, n, id, c : ToMake(d, n, id, c) => do = "new" /\ Settled
  BY DEF ToMake, CreateScript, NewStep
<1>3. \A d, n, id : ToBond(d, n, id) \/ Arriving(d, n, id) => do = "bond" /\ Settled
  BY DEF ToBond, Arriving, BondStep
<1>4. \A d, n, id : ToUnbond(d, n, id) => do = "unbond" /\ Settled
  BY DEF ToUnbond, UnlinkScript, UnbondStep
<1>5. \A d, n, e, m, id : ToMove(d, n, e, m, id) => do = "unbond" /\ Settled
  BY DEF ToMove, MoveScript, UnbondStep
<1>6. \A d, n, id : InNeither(d, n, id) => do = "name" /\ Settled
  BY DEF InNeither, NameStep
<1>7. \A d, n, m, id : ToRename(d, n, m, id) => do = "name" /\ Settled
  BY DEF ToRename, RenameScript, NameStep
<1>8. \A d, n, id : ToIndex(d, n, id) \/ ToUnname(d, n, id) => do = "index"
  BY DEF ToIndex, ToUnname, IndexStep
<1>9. \A d, n, m, id : Renamed(d, n, m, id) => do = "index"
  BY DEF Renamed, IndexStep
<1>10. \A d, n, e, m, id : Taken(d, n, e, m, id) => do = "index"
  BY DEF Taken, IndexStep
<1>11. \A e, m, id : Entering(e, m, id) => do = "enter"
  BY DEF Entering, EnterStep
<1>12. \A id : ToDelete(id) => do = "delete" /\ Settled
  BY DEF ToDelete, DeleteStep
<1> HIDE DEF do
<1>13. CASE Resting
  BY <1>1, <1>13 DEF do
<1>14. CASE \E d \in Ids, n \in Names, id \in Children :
              \E content \in Contents \cup {None} : ToMake(d, n, id, content)
  BY <1>2, <1>14 DEF do
<1>15. CASE \E d \in Ids, n \in Names, id \in Children : ToBond(d, n, id) \/ Arriving(d, n, id)
  BY <1>3, <1>15 DEF do
<1>16. CASE \E d \in Ids, n \in Names, id \in Children :
              ToUnbond(d, n, id) \/ \E e \in Ids, m \in Names : ToMove(d, n, e, m, id)
  BY <1>4, <1>5, <1>16 DEF do
<1>17. CASE \E d \in Ids, n \in Names, id \in Children :
              InNeither(d, n, id) \/ \E m \in Names : ToRename(d, n, m, id)
  BY <1>6, <1>7, <1>17 DEF do
<1>18. CASE \E d \in Ids, n \in Names, id \in Children :
              \/ ToIndex(d, n, id) \/ ToUnname(d, n, id)
              \/ \E m \in Names : Renamed(d, n, m, id)
              \/ \E e \in Ids, m \in Names : Taken(d, n, e, m, id)
  BY <1>8, <1>9, <1>10, <1>18 DEF do
<1>19. CASE \E e \in Ids, m \in Names, id \in Children : Entering(e, m, id)
  BY <1>11, <1>19 DEF do
<1>20. CASE \E id \in Children : ToDelete(id)
  BY <1>12, <1>20 DEF do
<1> QED BY <1>13, <1>14, <1>15, <1>16, <1>17, <1>18, <1>19, <1>20 DEF NamesOK

\* The new particle is there, under its name, and nothing leads to it.
LEMMA NewNames ==
  ASSUME VfsInv, CacheInv, NEW d \in Ids, NEW n \in Names, NEW id \in Children,
         NEW c \in Contents \cup {None}, ToMake(d, n, id, c), StepNew
  PROVE  NamesOK'
<1>1. /\ At = id /\ Head(steps).name = n
      /\ Tail(steps) = <<BondStep(d, id), IndexStep(d, Put(cache[d], n, id)), NumberStep(id)>>
      /\ d \in DOMAIN cache /\ NotNamed(id) /\ NotBonded(id) /\ Settled
  BY DEF ToMake, CreateScript, NewStep, At
<1>2. /\ Only(id) /\ DOMAIN particles' = DOMAIN particles \cup {id}
      /\ saved'[id].gravity = <<>> /\ saved'[id].dims.index = None
      /\ saved'[id].dims.name = n
  BY <1>1, NewIs
<1>3. id \notin DOMAIN cache
  BY <1>1 DEF CacheInv, NewFirst, StepNew, Running, VfsInv, At
<1>4. cache' = cache /\ steps' = Tail(steps)
  BY DEF StepNew, Continued
<1>5. Settled' /\ NotNamed(id)' /\ NotBonded(id)'
  BY <1>1, <1>2, <1>3, <1>4, MadeAgrees
<1>6. Ready(id, n)'
  BY <1>2 DEF Ready, Only
<1>7. ToBond(d, n, id)'
  BY <1>1, <1>4, <1>5, <1>6 DEF ToBond
<1> QED BY <1>7 DEF NamesOK

\* The bond is there, and next the index is written.
LEMMA BondNames ==
  ASSUME VfsInv, NEW d \in Ids, NEW n \in Names, NEW id \in Children,
         ToBond(d, n, id) \/ Arriving(d, n, id), StepBond
  PROVE  NamesOK'
<1>1. /\ At = d /\ Head(steps).id = id
      /\ NotNamed(id) /\ NotBonded(id) /\ Ready(id, n) /\ Settled
  BY DEF ToBond, Arriving, BondStep, At
<1>2. /\ d \in DOMAIN saved /\ Only(d) /\ DOMAIN particles' = DOMAIN particles
      /\ saved[d].gravity \in Seq(Children)
      /\ saved'[d].gravity = Append(saved[d].gravity, id)
      /\ saved'[d].dims = saved[d].dims
  BY <1>1, BondIs
<1>3. id \in DOMAIN saved
  BY <1>1 DEF Ready
<1>4. cache' = cache /\ steps' = Tail(steps)
  BY DEF StepBond, Continued
<1>5. /\ Agree({}, {}, {<<d, id>>})' /\ (d \in DOMAIN cache => Settled')
      /\ NotNamed(id)' /\ OnlyBondedBy(d, id)' /\ Ready(id, n)'
  BY <1>1, <1>2, <1>3, <1>4, BondAgrees
<1>6. CASE ToBond(d, n, id)
  <2>1. /\ d \in DOMAIN cache
        /\ Tail(steps) = <<IndexStep(d, Put(cache[d], n, id)), NumberStep(id)>>
    BY <1>6 DEF ToBond
  <2>2. ToIndex(d, n, id)'
    BY <1>4, <1>5, <2>1 DEF ToIndex
  <2> QED BY <2>2 DEF NamesOK
<1>7. CASE Arriving(d, n, id)
  <2>1. Tail(steps) = <<EnterStep(d, n, id)>>
    BY <1>7 DEF Arriving
  <2>2. d \in DOMAIN saved'
    BY <1>2 DEF Only
  <2>3. Entering(d, n, id)'
    BY <1>4, <1>5, <2>1, <2>2 DEF Entering
  <2> QED BY <2>3 DEF NamesOK
<1> QED BY <1>6, <1>7

\* The bond is gone; the entry is still in the index.
LEMMA UnbondNames ==
  ASSUME VfsInv, NEW d \in Ids, NEW n \in Names, NEW id \in Children,
         ToUnbond(d, n, id) \/ \E e \in Ids, m \in Names : ToMove(d, n, e, m, id), StepUnbond
  PROVE  NamesOK'
<1>1. /\ At = d /\ Head(steps).id = id /\ Entry(d, n, id) /\ Settled
  BY DEF ToUnbond, ToMove, UnlinkScript, MoveScript, UnbondStep, At, Entry
<1>2. /\ Only(d) /\ DOMAIN particles' = DOMAIN particles
      /\ saved[d].gravity \in Seq(Children)
      /\ saved'[d].gravity = Retained(saved[d].gravity, id)
      /\ saved'[d].dims = saved[d].dims
  BY <1>1, UnbondIs
<1>3. cache' = cache /\ steps' = Tail(steps)
  BY DEF StepUnbond, Continued
<1>4. /\ Agree({}, {<<d, n>>}, {})' /\ Entry(d, n, id)' /\ NotBonded(id)' /\ Ready(id, n)'
  BY <1>1, <1>2, <1>3, UnbondAgrees
<1>5. CASE ToUnbond(d, n, id)
  <2>1. Tail(steps) = <<IndexStep(d, Drop(cache[d], n)), DeleteStep(id)>>
    BY <1>1, <1>5 DEF ToUnbond, UnlinkScript, Entry
  <2>2. ToUnname(d, n, id)'
    BY <1>3, <1>4, <2>1 DEF ToUnname
  <2> QED BY <2>2 DEF NamesOK
<1>6. ASSUME NEW e \in Ids, NEW m \in Names, ToMove(d, n, e, m, id) PROVE NamesOK'
  <2>1. Tail(steps) = IF n = m
             THEN <<IndexStep(d, Drop(cache[d], n)), BondStep(e, id), EnterStep(e, m, id)>>
             ELSE <<IndexStep(d, Drop(cache[d], n)), NameStep(id, m),
                    BondStep(e, id), EnterStep(e, m, id)>>
    BY <1>1, <1>6 DEF ToMove, MoveScript, Entry
  <2>2. Taken(d, n, e, m, id)'
    BY <1>3, <1>4, <2>1 DEF Taken
  <2> QED BY <2>2 DEF NamesOK
<1> QED BY <1>5, <1>6

\* The particle has its new name, and the index the old one, or none.
LEMMA NameNames ==
  ASSUME VfsInv, NEW d \in Ids, NEW n \in Names, NEW id \in Children,
         InNeither(d, n, id) \/ \E m \in Names : ToRename(d, n, m, id), StepName
  PROVE  NamesOK'
<1>0. cache' = cache /\ steps' = Tail(steps)
  BY DEF StepName, Continued
<1>1. At = id /\ Settled
  BY DEF InNeither, ToRename, RenameScript, NameStep, At, Entry
<1>2. /\ id \in DOMAIN saved /\ Only(id) /\ DOMAIN particles' = DOMAIN particles
      /\ saved'[id].gravity = saved[id].gravity
      /\ saved'[id].dims.name = Head(steps).name
      /\ saved'[id].dims.index = saved[id].dims.index
  BY <1>1, NameIs
<1>3. CASE InNeither(d, n, id)
  <2>1. /\ Head(steps).name = n /\ NotNamed(id) /\ NotBonded(id)
        /\ Tail(steps) = <<BondStep(d, id), EnterStep(d, n, id)>>
    BY <1>3 DEF InNeither, NameStep
  <2>2. \A e \in DOMAIN cache : \A m \in DOMAIN cache[e] : cache[e][m] = id => <<e, m>> \in {}
    BY <2>1 DEF NotNamed
  <2>3. Settled'
    BY <1>0, <1>1, <1>2, <2>2, NameAgrees DEF Settled
  <2>4. NotNamed(id)' /\ NotBonded(id)'
    BY <1>0, <1>2, <2>1, NameKeeps
  <2>5. Ready(id, n)'
    BY <1>2, <2>1 DEF Ready, Only
  <2>6. Arriving(d, n, id)'
    BY <1>0, <2>1, <2>3, <2>4, <2>5 DEF Arriving
  <2> QED BY <2>6 DEF NamesOK
<1>4. ASSUME NEW m \in Names, ToRename(d, n, m, id) PROVE NamesOK'
  <2>1. /\ Entry(d, n, id) /\ Head(steps).name = m
        /\ Tail(steps) = <<IndexStep(d, Put(Drop(cache[d], n), m, id))>>
    BY <1>4 DEF ToRename, RenameScript, NameStep, Entry
  <2>2. \A e \in DOMAIN cache : \A x \in DOMAIN cache[e] : cache[e][x] = id => <<e, x>> \in {<<d, n>>}
    BY <1>1, <2>1 DEF Settled, Agree, NamedOnce, Entry
  <2>3. Agree({<<d, n>>}, {}, {})'
    BY <1>0, <1>1, <1>2, <2>2, NameAgrees
  <2>4. OnlyBondedBy(d, id) /\ d \in DOMAIN saved
    BY <1>1, <2>1 DEF Settled, Agree, EntriesOK, Entry, OnlyBondedBy
  <2>5. OnlyBondedBy(d, id)' /\ Entry(d, n, id)'
    BY <1>0, <1>2, <2>1, <2>4, NameKeeps
  <2>6. Ready(id, m)'
    BY <1>2, <2>1 DEF Ready, Only
  <2>7. Renamed(d, n, m, id)'
    BY <1>0, <2>1, <2>3, <2>5, <2>6 DEF Renamed
  <2> QED BY <2>7 DEF NamesOK
<1> QED BY <1>3, <1>4

\* The index of a directory gets or loses the entry.
LEMMA IndexNames ==
  ASSUME VfsInv, NEW d \in Ids, NEW n \in Names, NEW id \in Children,
         \/ ToIndex(d, n, id) \/ ToUnname(d, n, id)
         \/ \E m \in Names : Renamed(d, n, m, id)
         \/ \E e \in Ids, m \in Names : Taken(d, n, e, m, id),
         StepIndex
  PROVE  NamesOK'
<1>0. steps' = Tail(steps)
  BY DEF StepIndex, Continued
<1>1. At = d /\ d \in DOMAIN cache
  BY DEF ToIndex, ToUnname, Renamed, Taken, IndexStep, At, Entry
<1>2. /\ d \in DOMAIN saved /\ Only(d) /\ DOMAIN particles' = DOMAIN particles
      /\ saved'[d].gravity = saved[d].gravity
      /\ saved'[d].dims.name = saved[d].dims.name
      /\ cache' = Put(cache, d, Head(steps).index)
  BY <1>1, IndexIs
<1>3. CASE ToIndex(d, n, id)
  <2>1. /\ Head(steps).index = Put(cache[d], n, id) /\ Tail(steps) = <<NumberStep(id)>>
        /\ NotNamed(id) /\ OnlyBondedBy(d, id) /\ Ready(id, n) /\ Agree({}, {}, {})
    BY <1>3 DEF ToIndex, IndexStep, Settled
  <2>2. \A e \in DOMAIN cache : \A x \in DOMAIN cache[e] : cache[e][x] # id
    BY <2>1 DEF NotNamed
  <2>3. cache' = Put(cache, d, Put(cache[d], n, id))
    BY <1>2, <2>1
  <2>4. Settled'
    BY <1>1, <1>2, <2>1, <2>2, <2>3, PutAgrees
  <2>5. Len(steps') = 1 /\ Head(steps').do = "number"
    <3>1. Len(<<NumberStep(id)>>) = 1 /\ Head(<<NumberStep(id)>>).do = "number"
      BY DEF NumberStep
    <3>2. steps' = <<NumberStep(id)>>
      BY <1>0, <2>1
    <3> QED BY <3>1, <3>2
  <2> QED BY <2>4, <2>5 DEF NamesOK, Resting
<1>4. CASE ToUnname(d, n, id)
  <2>1. /\ Head(steps).index = Drop(cache[d], n) /\ Tail(steps) = <<DeleteStep(id)>>
        /\ Entry(d, n, id) /\ NotBonded(id) /\ Agree({}, {<<d, n>>}, {})
    BY <1>4 DEF ToUnname, IndexStep
  <2>2. Settled' /\ NotNamed(id)' /\ NotBonded(id)'
    BY <1>2, <2>1, DropAgrees
  <2>3. ToDelete(id)'
    BY <1>0, <2>1, <2>2 DEF ToDelete
  <2> QED BY <2>3 DEF NamesOK
<1>5. ASSUME NEW m \in Names, Renamed(d, n, m, id) PROVE NamesOK'
  <2> DEFINE f == Drop(cache[d], n)
             X == {<<d, n>>}
  <2>1. /\ Head(steps).index = Put(f, m, id) /\ Tail(steps) = <<>>
        /\ Entry(d, n, id) /\ OnlyBondedBy(d, id) /\ Ready(id, m) /\ Agree(X, {}, {})
    BY <1>5 DEF Renamed, IndexStep
  <2>2. \A e \in DOMAIN cache : \A x \in DOMAIN cache[e] : cache[e][x] = id => e = d /\ x = n
    BY <2>1 DEF Agree, NamedOnce, Entry
  <2>3. DOMAIN f = DOMAIN cache[d] \ {n} /\ \A x \in DOMAIN f : f[x] = cache[d][x]
    BY DEF Drop
  <2>4. cache' = Put(cache, d, Put(f, m, id))
    BY <1>2, <2>1
  <2>5. \A e, x : <<e, x>> \in X => e = d /\ x = n
    OBVIOUS
  <2> HIDE DEF f, X
  <2>6. /\ \A x \in DOMAIN f : x # m =>
             d \in DOMAIN cache /\ x \in DOMAIN cache[d] /\ f[x] = cache[d][x] /\ f[x] # id
        /\ \A e \in DOMAIN cache : \A x \in DOMAIN cache[e] :
             <<e, x>> \in X => e = d /\ x \notin DOMAIN f
        /\ \A e \in DOMAIN cache : \A x \in DOMAIN cache[e] :
             cache[e][x] = id => e = d /\ x \notin DOMAIN f
    BY <1>1, <2>2, <2>3, <2>5
  <2>7. Settled'
    BY <1>2, <2>1, <2>4, <2>6, PutAgrees
  <2> QED BY <1>0, <2>1, <2>7 DEF NamesOK, Resting
<1>6. ASSUME NEW e \in Ids, NEW m \in Names, Taken(d, n, e, m, id) PROVE NamesOK'
  <2>1. /\ Head(steps).index = Drop(cache[d], n)
        /\ Tail(steps) = IF n = m THEN <<BondStep(e, id), EnterStep(e, m, id)>>
                         ELSE <<NameStep(id, m), BondStep(e, id), EnterStep(e, m, id)>>
        /\ Entry(d, n, id) /\ NotBonded(id) /\ Ready(id, n) /\ Agree({}, {<<d, n>>}, {})
    BY <1>6 DEF Taken, IndexStep
  <2>2. Settled' /\ NotNamed(id)' /\ NotBonded(id)' /\ Ready(id, n)'
    BY <1>2, <2>1, DropAgrees
  <2>3. CASE n = m
    <3>1. Arriving(e, m, id)'
      BY <1>0, <2>1, <2>2, <2>3 DEF Arriving
    <3> QED BY <3>1 DEF NamesOK
  <2>4. CASE n # m
    <3>1. InNeither(e, m, id)'
      BY <1>0, <2>1, <2>2, <2>4 DEF InNeither
    <3> QED BY <3>1 DEF NamesOK
  <2> QED BY <2>3, <2>4
<1> QED BY <1>3, <1>4, <1>5, <1>6

\* What is moved has its entry in the new directory, whose index is built
\* from the one new bond when it had none.
LEMMA EnterNames ==
  ASSUME VfsInv, NEW e \in Ids, NEW m \in Names, NEW id \in Children,
         Entering(e, m, id), StepEnter
  PROVE  NamesOK'
<1> DEFINE f == IndexOf(e)
           P == {<<e, id>>}
<1>0. steps' = Tail(steps)
  BY DEF StepEnter, Continued
<1>1. /\ At = e /\ Head(steps).name = m /\ Head(steps).id = id /\ Tail(steps) = <<>>
      /\ e \in DOMAIN saved /\ NotNamed(id) /\ OnlyBondedBy(e, id) /\ Ready(id, m)
      /\ Agree({}, {}, P)
  BY DEF Entering, EnterStep, At
<1>2. /\ StoreInv' /\ Only(e) /\ DOMAIN particles \subseteq DOMAIN particles'
      /\ saved'[e].gravity = saved[e].gravity
      /\ saved'[e].dims.name = saved[e].dims.name
      /\ cache' = Put(cache, e, Put(f, m, id))
  BY <1>1, EnterIs
<1>3. DOMAIN particles' = DOMAIN particles
  <2>1. DOMAIN particles' \subseteq DOMAIN saved'
    BY <1>2 DEF StoreInv, MemoryOK
  <2>2. DOMAIN saved' = DOMAIN saved
    BY <1>1, <1>2 DEF Only
  <2> QED BY <1>1, <1>2, <2>1, <2>2 DEF Agree
<1>4. \A x \in DOMAIN f : x # m =>
        e \in DOMAIN cache /\ x \in DOMAIN cache[e] /\ f[x] = cache[e][x] /\ f[x] # id
  <2>1. CASE e \in DOMAIN cache
    BY <1>1, <2>1 DEF IndexOf, NotNamed
  <2>2. CASE e \notin DOMAIN cache
    <3>1. saved[e].dims.index = None /\ \A i \in Ids : BondedIn(saved, e, i) => i = id
      BY <1>1, <2>2 DEF Agree, PlainOK, Bonded
    <3>2. f = FromBonds(e)
      BY <2>2, <3>1 DEF IndexOf, StoredIndex, HasIndex
    <3>3. \A x \in DOMAIN f : \E k \in DOMAIN saved[e].gravity :
            /\ saved[e].gravity[k] \in DOMAIN saved
            /\ saved[saved[e].gravity[k]].dims.name = x
      BY <1>1, <3>2, FromBondsIs DEF VfsInv
    <3>4. DOMAIN saved \subseteq Ids
      BY DEF VfsInv, SavedOK
    <3>5. \A x \in DOMAIN f : saved[id].dims.name = x
      BY <3>1, <3>3, <3>4 DEF BondedIn, Among
    <3> QED BY <1>1, <3>5 DEF Ready
  <2> QED BY <2>1, <2>2
<1>5. \A g \in DOMAIN cache : \A x \in DOMAIN cache[g] : cache[g][x] # id
  BY <1>1 DEF NotNamed
<1> HIDE DEF f
<1>6. Settled'
  BY <1>1, <1>2, <1>3, <1>4, <1>5, PutAgrees
<1> QED BY <1>0, <1>1, <1>6 DEF NamesOK, Resting

\* The particle is gone, which nothing led to.
LEMMA DeleteNames ==
  ASSUME VfsInv, NEW id \in Children, ToDelete(id), StepDelete
  PROVE  NamesOK'
<1>1. /\ At = id /\ Tail(steps) = <<>> /\ NotNamed(id) /\ NotBonded(id) /\ Settled
  BY DEF ToDelete, DeleteStep, At
<1>2. /\ DOMAIN saved' = DOMAIN saved \ {id} /\ \A x \in DOMAIN saved' : saved'[x] = saved[x]
      /\ DOMAIN particles' = DOMAIN particles \ {id}
  BY <1>1, DeleteIs
<1>3. cache' = Drop(cache, id) /\ steps' = Tail(steps)
  BY <1>1 DEF StepDelete, Continued
<1>4. Settled'
  BY <1>1, <1>2, <1>3, DeleteAgrees
<1> QED BY <1>1, <1>3, <1>4 DEF NamesOK, Resting

\* Nothing has changed that names and bonds are about.
LEMMA SettledStays ==
  ASSUME Settled, saved' = saved, cache' = cache, DOMAIN particles' = DOMAIN particles
  PROVE  Settled'
BY DEF Settled, Agree, PlainOK, EntriesOK, NamedOnce, Bonded

\* Content and numbers are no names.
LEMMA OtherNames ==
  ASSUME VfsInv, Settled, Len(steps) = 1, StepNumber \/ StepContent
  PROVE  NamesOK'
<1>1. steps' = <<>>
  <2>1. steps \in Seq(StepRecords) /\ steps' = Tail(steps)
    BY DEF VfsInv, StepNumber, StepContent, Continued
  <2> QED BY <2>1
<1>2. CASE StepNumber
  <2>1. Settled'
    BY <1>2, SettledStays DEF StepNumber
  <2> QED BY <1>1, <2>1 DEF NamesOK, Resting
<1>3. CASE StepContent
  <2>1. PICK id \in DOMAIN saved : id = At
    BY <1>3, ContentIs
  <2>2. /\ Only(id) /\ DOMAIN particles' = DOMAIN particles
        /\ saved'[id].gravity = saved[id].gravity
        /\ saved'[id].dims.name = saved[id].dims.name
        /\ saved'[id].dims.index = saved[id].dims.index
    BY <1>3, <2>1, ContentIs
  <2>3. cache' = cache
    BY <1>3 DEF StepContent
  <2>4. Settled'
    BY <2>2, <2>3, NameAgrees DEF Settled
  <2> QED BY <1>1, <2>4 DEF NamesOK, Resting
<1> QED BY <1>2, <1>3

\* In the first process everything is in memory, so no call fails at a step
\* that something is on its way.
LEMMA FailNames ==
  ASSUME NamesOK, StepFails
  PROVE  NamesOK'
<1>1. steps # <<>> /\ steps' = <<>>
  BY DEF StepFails
<1>2. Head(steps).do \notin {"index", "enter"}
  <2>1. CASE Head(steps).do = "index"
    <3>1. PICK d \in Ids, n \in Names, id \in Children :
            \/ ToIndex(d, n, id) \/ ToUnname(d, n, id)
            \/ \E m \in Names : Renamed(d, n, m, id)
            \/ \E e \in Ids, m \in Names : Taken(d, n, e, m, id)
      BY <1>1, <2>1, Doing
    <3>2. At = d /\ d \in DOMAIN cache
      BY <3>1 DEF ToIndex, ToUnname, Renamed, Taken, IndexStep, At, Entry
    <3>3. d \in DOMAIN particles
      BY <3>1, <3>2 DEF ToIndex, ToUnname, Renamed, Taken, Agree, Settled
    <3> QED BY <2>1, <3>2, <3>3 DEF StepFails, Running
  <2>2. CASE Head(steps).do = "enter"
    <3>1. PICK e \in Ids, m \in Names, id \in Children : Entering(e, m, id)
      BY <1>1, <2>2, Doing
    <3>2. At = e /\ e \in DOMAIN particles
      BY <3>1 DEF Entering, EnterStep, At, Agree
    <3> QED BY <2>2, <3>2 DEF StepFails, Running
  <2> QED BY <2>1, <2>2
<1>3. Settled
  BY <1>1, <1>2, Doing
<1>4. Settled'
  BY <1>3, SettledStays DEF StepFails
<1> QED BY <1>1, <1>4 DEF NamesOK, Resting

\* Every step takes a call one step further.
LEMMA StepNames ==
  ASSUME VfsInv, CacheInv, NamesOK, Step
  PROVE  NamesOK'
<1>1. CASE StepNew
  BY <1>1, Doing, NewNames DEF StepNew, Running
<1>2. CASE StepBond
  BY <1>2, Doing, BondNames DEF StepBond, Running
<1>3. CASE StepUnbond
  BY <1>3, Doing, UnbondNames DEF StepUnbond, Running
<1>4. CASE StepName
  BY <1>4, Doing, NameNames DEF StepName, Running
<1>5. CASE StepIndex
  BY <1>5, Doing, IndexNames DEF StepIndex, Running
<1>6. CASE StepEnter
  BY <1>6, Doing, EnterNames DEF StepEnter, Running
<1>7. CASE StepDelete
  BY <1>7, Doing, DeleteNames DEF StepDelete, Running
<1>8. CASE StepNumber \/ StepContent
  BY <1>8, Doing, OtherNames DEF StepNumber, StepContent, Running
<1>9. CASE StepFails
  BY <1>9, FailNames
<1> QED BY <1>1, <1>2, <1>3, <1>4, <1>5, <1>6, <1>7, <1>8, <1>9 DEF Step

-----------------------------------------------------------------------------
(* What calls and loads make of names and bonds.                           *)

\* Between calls nothing is on its way.
LEMMA IdleSettled ==
  ASSUME NamesOK, Idle
  PROVE  Settled
BY DEF NamesOK, Idle, Resting, ToMake, CreateScript, ToBond, ToIndex, ToUnbond, UnlinkScript,
       ToUnname, ToDelete, ToRename, RenameScript, Renamed, ToMove, MoveScript, Taken, InNeither,
       Arriving, Entering

\* A call only says what is to be done.
LEMMA CallNames ==
  ASSUME NamesOK, NEW entries, NEW script, Call(entries, script)
  PROVE  /\ Settled /\ Settled' /\ steps' = script
         /\ cache' = cache /\ saved' = saved /\ restarts' = restarts
<1>1. Settled
  BY IdleSettled DEF Call
<1>2. Settled'
  BY <1>1, SettledStays DEF Call
<1> QED BY <1>1, <1>2 DEF Call

\* Each call begins where its first step expects it to.
LEMMA CallsName ==
  ASSUME ~Reuse, VfsInv, CacheInv, NamesOK, NEW d \in DOMAIN cache, NEW n \in Names,
         \/ \E kind \in {"dir", "file"} : Make(kind, d, n)
         \/ Unlink(d, n)
         \/ Rmdir(d, n)
         \/ \E m \in Names : Rename(d, n, m)
         \/ \E e \in DOMAIN saved, m \in Names : Move(d, n, e, m)
  PROVE  NamesOK'
<1>0. d \in Ids /\ (n \in DOMAIN cache[d] => cache[d][n] \in Children)
  BY EntryTypes
<1>1. ASSUME NEW kind \in {"dir", "file"}, Make(kind, d, n) PROVE NamesOK'
  <2> DEFINE id == ChildId(d, kind, n)
             content == IF kind = "file" THEN Blank ELSE None
  <2>1. Call({<<d, n>>}, CreateScript(d, n, id, content)) /\ Unused(id) /\ id \in Ids
    BY <1>1 DEF Make
  <2>2. id \in Children /\ content \in Contents \cup {None}
    BY <1>0, <2>1, ChildIsNoRoot, VfsAssumption
  <2> HIDE DEF id, content
  <2>3. /\ Settled /\ Settled' /\ steps' = CreateScript(d, n, id, content)
        /\ cache' = cache /\ saved' = saved
    BY <2>1, CallNames
  <2>4. NotBonded(id)
    <3> SUFFICES ASSUME NEW e \in DOMAIN saved PROVE ~Among(saved[e].gravity, id)
      BY DEF NotBonded, Bonded, BondedIn
    <3>1. ~Contains(saved[e].gravity, id)
      BY <2>1 DEF Unused
    <3>2. DOMAIN saved[e].gravity = 1 .. Len(saved[e].gravity)
      BY DEF VfsInv, SavedOK, GoodParticle
    <3> QED BY <3>1, <3>2 DEF Contains, Among
  <2>5. NotNamed(id)
    <3> SUFFICES ASSUME NEW e \in DOMAIN cache, NEW m \in DOMAIN cache[e] PROVE cache[e][m] # id
      BY DEF NotNamed
    <3>1. e \in DOMAIN saved /\ saved[e].dims.index = cache[e]
      BY DEF CacheInv, CacheMatches
    <3>2. cache[e] # None
      BY EntryTypes, ChildIndexIs
    <3>3. StoredIndex(e) = cache[e]
      BY <3>1, <3>2 DEF StoredIndex, HasIndex
    <3> QED BY <2>1, <3>1, <3>3 DEF Unused
  <2>6. NotNamed(id)' /\ NotBonded(id)'
    BY <2>3, <2>4, <2>5 DEF NotNamed, NotBonded, Bonded
  <2>7. ToMake(d, n, id, content)'
    BY <2>3, <2>6 DEF ToMake, CreateScript
  <2>8. \E c \in Contents \cup {None} : ToMake(d, n, id, c)'
    BY <2>2, <2>7
  <2> QED BY <1>0, <2>2, <2>8, Zenon DEF NamesOK
<1>2. CASE Unlink(d, n) \/ Rmdir(d, n)
  <2>1. Call({<<d, n>>}, UnlinkScript(d, n)) /\ n \in DOMAIN cache[d]
    BY <1>2 DEF Unlink, Rmdir, HasEntry
  <2>2. Settled' /\ steps' = UnlinkScript(d, n) /\ cache' = cache
    BY <2>1, CallNames
  <2>3. PICK id \in Children : id = cache[d][n]
    BY <1>0, <2>1
  <2>4. ToUnbond(d, n, id)'
    BY <2>1, <2>2, <2>3 DEF ToUnbond, UnlinkScript, Entry
  <2> QED BY <1>0, <2>4 DEF NamesOK
<1>3. ASSUME NEW m \in Names, Rename(d, n, m) PROVE NamesOK'
  <2>1. Call({<<d, n>>, <<d, m>>}, RenameScript(d, n, m)) /\ n \in DOMAIN cache[d]
    BY <1>3 DEF Rename, HasEntry
  <2>2. Settled' /\ steps' = RenameScript(d, n, m) /\ cache' = cache
    BY <2>1, CallNames
  <2>3. PICK id \in Children : id = cache[d][n]
    BY <1>0, <2>1
  <2>4. ToRename(d, n, m, id)'
    BY <2>1, <2>2, <2>3 DEF ToRename, RenameScript, Entry
  <2> QED BY <1>0, <2>4 DEF NamesOK
<1>4. ASSUME NEW e \in DOMAIN saved, NEW m \in Names, Move(d, n, e, m) PROVE NamesOK'
  <2>1. Call({<<d, n>>, <<e, m>>}, MoveScript(d, n, e, m)) /\ n \in DOMAIN cache[d]
    BY <1>4 DEF Move, HasEntry
  <2>2. Settled' /\ steps' = MoveScript(d, n, e, m) /\ cache' = cache
    BY <2>1, CallNames
  <2>3. PICK id \in Children : id = cache[d][n]
    BY <1>0, <2>1
  <2>4. ToMove(d, n, e, m, id)'
    BY <2>1, <2>2, <2>3 DEF ToMove, MoveScript, Entry
  <2>5. e \in Ids
    BY DEF VfsInv, SavedOK
  <2> QED BY <1>0, <2>4, <2>5 DEF NamesOK
<1> QED BY <1>1, <1>2, <1>3, <1>4

\* Loading what the first process has in memory anyhow.
LEMMA LoadsName ==
  ASSUME VfsInv, NamesOK, NEW d, NEW n, LoadDirectory(d) \/ Lookup(d, n)
  PROVE  NamesOK'
<1>1. Settled /\ steps' = <<>>
  BY IdleSettled DEF LoadDirectory, Lookup, Idle
<1>2. DOMAIN particles = DOMAIN saved
  BY <1>1 DEF Settled, Agree
<1>3. CASE LoadDirectory(d)
  <2>1. /\ d \in DOMAIN saved \ DOMAIN cache /\ Only(d)
        /\ DOMAIN particles' = DOMAIN particles
        /\ saved'[d].gravity = saved[d].gravity
        /\ saved'[d].dims.name = saved[d].dims.name
        /\ cache' = Put(cache, d, StoredIndex(d))
    BY <1>2, <1>3, LoadIs
  <2>2. SavedOK
    BY DEF VfsInv
  <2>3. Settled'
    BY <1>1, <2>1, <2>2, LoadAgrees
  <2> QED BY <1>1, <2>3 DEF NamesOK, Resting
<1>4. CASE Lookup(d, n)
  <2>1. saved' = saved /\ cache' = cache
    BY <1>4 DEF Lookup
  <2>2. StoreInv' /\ DOMAIN particles \subseteq DOMAIN particles'
    BY <1>4, LookupIs
  <2>3. DOMAIN particles' = DOMAIN particles
    BY <1>2, <2>1, <2>2 DEF StoreInv, MemoryOK
  <2>4. Settled'
    BY <1>1, <2>1, <2>3, SettledStays
  <2> QED BY <1>1, <2>4 DEF NamesOK, Resting
<1> QED BY <1>3, <1>4

\* Handles and checkpoints are nothing to names.
LEMMA QuietNames ==
  ASSUME NamesOK,
         \/ \E i \in DOMAIN inodes.byInode : OpenHandle(i)
         \/ \E h \in DOMAIN handles : CloseHandle(h)
         \/ Sync
  PROVE  NamesOK'
<1>1. Idle /\ steps' = <<>> /\ saved' = saved /\ cache' = cache /\ particles' = particles
  BY DEF OpenHandle, CloseHandle, Sync, Idle
<1>2. Settled
  BY <1>1, IdleSettled
<1>3. Settled'
  BY <1>1, <1>2, SettledStays
<1> QED BY <1>1, <1>3 DEF NamesOK, Resting

\* A write of content is a call of one step.
LEMMA WriteNames ==
  ASSUME NamesOK, NEW h, NEW c, WriteFile(h, c)
  PROVE  NamesOK'
<1> DEFINE id == inodes.byInode[handles[h].inode]
<1>1. Call(Named(id), <<ContentStep(id, c)>>)
  BY DEF WriteFile
<1> HIDE DEF id
<1>2. Settled' /\ steps' = <<ContentStep(id, c)>>
  BY <1>1, CallNames
<1>3. Len(<<ContentStep(id, c)>>) = 1 /\ Head(<<ContentStep(id, c)>>).do = "content"
  BY DEF ContentStep
<1> QED BY <1>2, <1>3 DEF NamesOK, Resting

\* At the start there is the root, and nothing in it.
LEMMA InitNames == Init => NamesInv
<1> SUFFICES ASSUME Init PROVE NamesOK
  BY DEF NamesInv
<1>1. /\ DOMAIN saved = {Root} /\ saved[Root].gravity = <<>> /\ saved[Root].dims.index = None
      /\ particles = saved /\ DOMAIN cache = {} /\ steps = <<>>
  BY DEF Init, Put, Empty
<1>2. \A i : ~BondedIn(saved, Root, i)
  BY <1>1 DEF BondedIn, Among
<1>3. Settled
  BY <1>1, <1>2 DEF Settled, Agree, PlainOK, EntriesOK, NamedOnce, Bonded
<1> QED BY <1>1, <1>3 DEF NamesOK, Resting

\* Doing nothing.
LEMMA StutterNames ==
  ASSUME NamesOK, UNCHANGED <<saved, cache, particles, steps>>
  PROVE  NamesOK'
<1>1. \A X, B, P : Agree(X, B, P) => Agree(X, B, P)'
  BY DEF Agree, PlainOK, EntriesOK, NamedOnce, Bonded
<1>2. Settled => Settled'
  BY <1>1 DEF Settled
<1>3. \A i : (NotNamed(i) => NotNamed(i)') /\ (NotBonded(i) => NotBonded(i)')
  BY DEF NotNamed, NotBonded, Bonded
<1>4. /\ \A d, i : OnlyBondedBy(d, i) => OnlyBondedBy(d, i)'
      /\ \A d, n, i : Entry(d, n, i) => Entry(d, n, i)'
      /\ \A n, i : Ready(i, n) => Ready(i, n)'
  BY DEF OnlyBondedBy, Bonded, Entry, Ready
<1>5. Resting => Resting'
  BY <1>2 DEF Resting, Idle
<1>6. \A d, n, id, c : ToMake(d, n, id, c) => ToMake(d, n, id, c)'
  BY <1>2, <1>3 DEF ToMake, CreateScript
<1>7. \A d, n, id : ToBond(d, n, id) => ToBond(d, n, id)'
  BY <1>2, <1>3, <1>4 DEF ToBond
<1>8. \A d, n, id : ToIndex(d, n, id) => ToIndex(d, n, id)'
  BY <1>2, <1>3, <1>4 DEF ToIndex
<1>9. \A d, n, id : ToUnbond(d, n, id) => ToUnbond(d, n, id)'
  BY <1>2, <1>4 DEF ToUnbond, UnlinkScript
<1>10. \A d, n, id : ToUnname(d, n, id) => ToUnname(d, n, id)'
  BY <1>1, <1>3, <1>4 DEF ToUnname
<1>11. \A id : ToDelete(id) => ToDelete(id)'
  BY <1>2, <1>3 DEF ToDelete
<1>12. \A d, n, m, id : ToRename(d, n, m, id) => ToRename(d, n, m, id)'
  BY <1>2, <1>4 DEF ToRename, RenameScript
<1>13. \A d, n, m, id : Renamed(d, n, m, id) => Renamed(d, n, m, id)'
  BY <1>1, <1>4 DEF Renamed
<1>14. \A d, n, e, m, id : ToMove(d, n, e, m, id) => ToMove(d, n, e, m, id)'
  BY <1>2, <1>4 DEF ToMove, MoveScript
<1>15. \A d, n, e, m, id : Taken(d, n, e, m, id) => Taken(d, n, e, m, id)'
  BY <1>1, <1>3, <1>4 DEF Taken
<1>16. \A e, m, id : InNeither(e, m, id) => InNeither(e, m, id)'
  BY <1>2, <1>3 DEF InNeither
<1>17. \A e, m, id : Arriving(e, m, id) => Arriving(e, m, id)'
  BY <1>2, <1>3, <1>4 DEF Arriving
<1>18. \A e, m, id : Entering(e, m, id) => Entering(e, m, id)'
  BY <1>1, <1>3, <1>4 DEF Entering
<1> QED BY <1>5, <1>6, <1>7, <1>8, <1>9, <1>10, <1>11, <1>12, <1>13, <1>14, <1>15, <1>16, <1>17,
           <1>18 DEF NamesOK

\* Only the end of the process ends the first process.
LEMMA FirstProcess ==
  ASSUME Next, ~Restart
  PROVE  restarts' = restarts
<1>1. ASSUME NEW entries, NEW script, Call(entries, script) PROVE restarts' = restarts
  BY <1>1 DEF Call
<1>2. ASSUME NEW d, LoadDirectory(d) PROVE restarts' = restarts
  BY <1>2 DEF LoadDirectory, bounds
<1>3. ASSUME NEW d, NEW n, Lookup(d, n) PROVE restarts' = restarts
  BY <1>3 DEF Lookup, bounds
<1>4. ASSUME NEW d, NEW n,
             \/ \E kind \in {"dir", "file"} : Make(kind, d, n)
             \/ Unlink(d, n)
             \/ Rmdir(d, n)
             \/ \E m \in Names : Rename(d, n, m)
             \/ \E e \in DOMAIN saved, m \in Names : Move(d, n, e, m)
      PROVE  restarts' = restarts
  BY <1>1, <1>4 DEF Make, Unlink, Rmdir, Rename, Move
<1>5. CASE \/ \E i \in DOMAIN inodes.byInode : OpenHandle(i)
           \/ \E h \in DOMAIN handles : CloseHandle(h)
           \/ Sync
  BY <1>5 DEF OpenHandle, CloseHandle, Sync, bounds
<1>6. ASSUME NEW h, NEW c, WriteFile(h, c) PROVE restarts' = restarts
  BY <1>1, <1>6 DEF WriteFile
<1>7. CASE Step
  BY <1>7 DEF Step, StepNew, StepBond, StepUnbond, StepName, StepContent, StepIndex, StepEnter,
              StepDelete, StepNumber, StepFails, bounds
<1> QED BY <1>2, <1>3, <1>4, <1>5, <1>6, <1>7 DEF Next

\* Every action of the first process.
LEMMA NextNames ==
  ASSUME ~Reuse, VfsInv, CacheInv, NamesInv, [Next]_vars
  PROVE  NamesInv'
<1> SUFFICES ASSUME restarts' = 0 PROVE NamesOK'
  BY DEF NamesInv
<1>1. CASE UNCHANGED vars
  <2>1. restarts = 0 /\ UNCHANGED <<saved, cache, particles, steps>>
    BY <1>1 DEF vars
  <2> QED BY <2>1, StutterNames DEF NamesInv
<1>2. CASE Restart
  BY <1>2 DEF Restart, VfsInv
<1>3. CASE Next /\ ~Restart
  <2>1. restarts = 0
    BY <1>3, FirstProcess
  <2>2. NamesOK
    BY <2>1 DEF NamesInv
  <2>3. ASSUME NEW d \in DOMAIN saved, LoadDirectory(d) PROVE NamesOK'
    BY <2>2, <2>3, LoadsName
  <2>4. ASSUME NEW d \in DOMAIN cache, NEW n \in Names,
               \/ Lookup(d, n)
               \/ \E kind \in {"dir", "file"} : Make(kind, d, n)
               \/ Unlink(d, n)
               \/ Rmdir(d, n)
               \/ \E m \in Names : Rename(d, n, m)
               \/ \E e \in DOMAIN saved, m \in Names : Move(d, n, e, m)
        PROVE  NamesOK'
    BY <2>2, <2>4, LoadsName, CallsName
  <2>5. CASE \/ \E i \in DOMAIN inodes.byInode : OpenHandle(i)
             \/ \E h \in DOMAIN handles : CloseHandle(h)
             \/ Sync
    BY <2>2, <2>5, QuietNames
  <2>6. ASSUME NEW h \in DOMAIN handles, NEW c \in Contents, WriteFile(h, c) PROVE NamesOK'
    BY <2>2, <2>6, WriteNames
  <2>7. CASE Step
    BY <2>2, <2>7, StepNames
  <2> QED BY <1>3, <2>3, <2>4, <2>5, <2>6, <2>7 DEF Next
<1> QED BY <1>1, <1>2, <1>3

\* The three invariants together: the last needs the other two.
THEOREM NamesInvariant == ASSUME ~Reuse PROVE Spec => [](VfsInv /\ CacheInv /\ NamesInv)
<1>1. Init => CacheInv /\ NamesInv
  BY InitNames DEF Init, CacheInv, CacheMatches, NewFirst, Empty
<1>2. VfsInv /\ CacheInv /\ NamesInv /\ [Next]_vars => CacheInv' /\ NamesInv'
  BY NextKeepsCache, NextNames
<1> QED BY <1>1, <1>2, VfsInvariant, PTL DEF Spec

-----------------------------------------------------------------------------
(* What is found by name.                                                  *)

\* However far a call has come, names and bonds agree but for what it is about,
\* and only a particle that is entering is bonded without a name.
LEMMA AlwaysAgree ==
  ASSUME NamesOK
  PROVE  \/ \E X, B : Agree(X, B, {})
         \/ \E e \in Ids, m \in Names, id \in Children : Entering(e, m, id)
<1>1. Settled => \E X, B : Agree(X, B, {})
  BY DEF Settled
<1>2. CASE Resting
  BY <1>1, <1>2 DEF Resting
<1>3. ASSUME NEW d, NEW n, NEW id, NEW c, ToMake(d, n, id, c) PROVE Settled
  BY <1>3 DEF ToMake
<1>4. ASSUME NEW d, NEW n, NEW id, ToBond(d, n, id) \/ ToIndex(d, n, id) \/ ToUnbond(d, n, id)
                                   \/ ToDelete(id) \/ InNeither(d, n, id) \/ Arriving(d, n, id)
      PROVE  Settled
  BY <1>4 DEF ToBond, ToIndex, ToUnbond, ToDelete, InNeither, Arriving
<1>5. ASSUME NEW d, NEW n, NEW id, ToUnname(d, n, id) PROVE \E X, B : Agree(X, B, {})
  BY <1>5 DEF ToUnname
<1>6. ASSUME NEW d, NEW n, NEW m, NEW id, ToRename(d, n, m, id) PROVE Settled
  BY <1>6 DEF ToRename
<1>7. ASSUME NEW d, NEW n, NEW m, NEW id, Renamed(d, n, m, id) PROVE \E X, B : Agree(X, B, {})
  BY <1>7 DEF Renamed
<1>8. ASSUME NEW d, NEW n, NEW e, NEW m, NEW id, ToMove(d, n, e, m, id) PROVE Settled
  BY <1>8 DEF ToMove
<1>9. ASSUME NEW d, NEW n, NEW e, NEW m, NEW id, Taken(d, n, e, m, id)
      PROVE  \E X, B : Agree(X, B, {})
  BY <1>9 DEF Taken
<1> QED BY <1>1, <1>2, <1>3, <1>4, <1>5, <1>6, <1>7, <1>8, <1>9 DEF NamesOK

\* An entry that is stored is one the cache has, or the one a move is about to
\* give: the new parent without an index would be built to hold it already.
LEMMA FoundIs ==
  ASSUME VfsInv, CacheInv, NamesOK, NEW d \in DOMAIN saved, NEW n \in DOMAIN StoredIndex(d),
         NEW id, StoredIndex(d)[n] = id
  PROVE  /\ n \in Names /\ id \in Children /\ id \in DOMAIN saved
         /\ Entry(d, n, id) \/ (d \notin DOMAIN cache /\ Entering(d, n, id))
<1>0. SavedOK
  BY DEF VfsInv
<1>1. n \in Names /\ id \in Children
  BY <1>0, StoredIndexIs, ChildIndexIs
<1>2. CASE d \in DOMAIN cache
  <2>1. saved[d].dims.index = cache[d] /\ cache[d] # None
    BY <1>2, ChildIndexIs DEF CacheInv, CacheMatches, VfsInv, CacheOK
  <2>2. StoredIndex(d) = cache[d]
    BY <2>1 DEF StoredIndex, HasIndex
  <2>3. Entry(d, n, id)
    BY <1>2, <2>2 DEF Entry
  <2>4. \E X, B, P : Agree(X, B, P)
    BY AlwaysAgree DEF Entering
  <2>5. id \in DOMAIN saved
    BY <2>3, <2>4 DEF Agree, EntriesOK, Entry
  <2> QED BY <1>1, <2>3, <2>5
<1>3. CASE d \notin DOMAIN cache
  <2>1. \E P : PlainOK(P)
    BY AlwaysAgree DEF Entering, Agree
  <2>2. saved[d].dims.index = None
    BY <1>3, <2>1 DEF PlainOK
  <2>3. StoredIndex(d) = FromBonds(d)
    BY <2>2 DEF StoredIndex, HasIndex
  <2>4. PICK k \in DOMAIN saved[d].gravity :
          saved[d].gravity[k] = id /\ id \in DOMAIN saved /\ saved[id].dims.name = n
    BY <1>0, <2>3, FromBondsIs
  <2>5. Bonded(d, id) /\ id \in Ids
    BY <1>1, <2>4 DEF Bonded, BondedIn, Among, Children
  <2>6. ~ \E X, B : Agree(X, B, {})
    BY <1>3, <2>5 DEF Agree, PlainOK
  <2>7. PICK e \in Ids, m \in Names, i \in Children : Entering(e, m, i)
    BY <2>6, AlwaysAgree
  <2>8. d = e /\ id = i
    BY <1>3, <2>5, <2>7 DEF Entering, Agree, PlainOK
  <2>9. m = n
    BY <2>4, <2>7, <2>8 DEF Entering, Ready
  <2> QED BY <1>1, <1>3, <2>4, <2>7, <2>8, <2>9
<1> QED BY <1>2, <1>3

\* Bonds lead to particles that are there.
LEMMA BondsLead ==
  ASSUME VfsInv, NamesOK, NEW d \in DOMAIN saved, NEW id \in Ids, Contains(saved[d].gravity, id)
  PROVE  id \in DOMAIN saved
<1>1. Bonded(d, id)
  <2>1. DOMAIN saved[d].gravity = 1 .. Len(saved[d].gravity)
    BY DEF VfsInv, SavedOK, GoodParticle
  <2> QED BY <2>1 DEF Contains, Bonded, BondedIn, Among
<1>2. \E X, B, P : Agree(X, B, P)
  BY AlwaysAgree DEF Entering
<1> QED BY <1>1, <1>2 DEF Agree

\* At every logged write of the first process each name and each bond has its
\* particle: unlink takes the name first, mkdir and create give it last.
THEOREM EntriesHaveParticles == ASSUME ~Reuse PROVE Spec => []EntriesExist
<1>1. ASSUME VfsInv, CacheInv, NamesInv PROVE EntriesExist
  <2> SUFFICES ASSUME restarts = 0
               PROVE  /\ \A d \in DOMAIN saved : \A n \in DOMAIN StoredIndex(d) :
                           StoredIndex(d)[n] \in DOMAIN saved
                      /\ DanglingBonds = {}
    BY DEF EntriesExist
  <2>1. NamesOK
    BY <1>1 DEF NamesInv
  <2>2. ASSUME NEW d \in DOMAIN saved, NEW n \in DOMAIN StoredIndex(d)
        PROVE  StoredIndex(d)[n] \in DOMAIN saved
    BY <1>1, <2>1, FoundIs
  <2>3. DanglingBonds = {}
    BY <1>1, <2>1, BondsLead DEF DanglingBonds
  <2> QED BY <2>2, <2>3
<1> QED BY <1>1, NamesInvariant, PTL

\* Between the calls of the first process every entry is bonded to its
\* particle, so that rmdir and fsck, which go by bonds, see what names show.
THEOREM EntriesKeepTheirBond == ASSUME ~Reuse PROVE Spec => []EntriesAreBonded
<1>1. ASSUME VfsInv, CacheInv, NamesInv PROVE EntriesAreBonded
  <2> SUFFICES ASSUME Idle, restarts = 0
               PROVE  /\ \A d \in DOMAIN cache : \A n \in DOMAIN cache[d] :
                           Contains(saved[d].gravity, cache[d][n])
                      /\ \A id \in OrphanedParticles : Named(id) = {}
    BY DEF EntriesAreBonded
  <2>1. NamesOK /\ Settled
    BY <1>1, IdleSettled DEF NamesInv
  <2>2. ASSUME NEW d, NEW n, NEW id, Entry(d, n, id)
        PROVE  d \in DOMAIN saved /\ Contains(saved[d].gravity, id)
    <3>1. d \in DOMAIN saved /\ Bonded(d, id)
      BY <2>1, <2>2 DEF Settled, Agree, EntriesOK, Entry
    <3>2. DOMAIN saved[d].gravity = 1 .. Len(saved[d].gravity)
      BY <1>1, <3>1 DEF VfsInv, SavedOK, GoodParticle
    <3> QED BY <3>1, <3>2 DEF Contains, Bonded, BondedIn, Among
  <2>3. ASSUME NEW d \in DOMAIN cache, NEW n \in DOMAIN cache[d]
        PROVE  Contains(saved[d].gravity, cache[d][n])
    BY <2>2 DEF Entry
  <2>4. ASSUME NEW id \in OrphanedParticles, NEW x \in Named(id) PROVE FALSE
    <3>1. \A d \in DOMAIN saved : ~Contains(saved[d].gravity, id)
      BY <2>4 DEF OrphanedParticles
    <3>2. Entry(x[1], x[2], id) \/ Entering(x[1], x[2], id)
      BY <1>1, <2>1, <2>4, FoundIs DEF Named
    <3>3. ~Entering(x[1], x[2], id)
      BY DEF Entering, Idle
    <3> QED BY <2>2, <3>1, <3>2, <3>3
  <2> QED BY <2>3, <2>4
<1> QED BY <1>1, NamesInvariant, PTL

=============================================================================
