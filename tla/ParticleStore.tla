--------------------------- MODULE ParticleStore ---------------------------
(***************************************************************************)
(* The particle store in memory (store.rs): particles by id, and the index *)
(* of incoming bonds kept beside them.  A particle is its bonds, in order, *)
(* and its dimensions; of a bond only the target matters here, its kind    *)
(* and strength select results.  The lists of the index are a relation:    *)
(* <<t, s, k>> says that bond k of s points at t.                          *)
(***************************************************************************)
EXTENDS Naturals, Sequences

CONSTANTS
  Ids,
  Dims       \* what the dimensions of a particle may hold together

Particles == [gravity : Seq(Ids), dims : Dims]

VARIABLES particles, incoming

storeVars == <<particles, incoming>>

-----------------------------------------------------------------------------
(* Partial functions.                                                      *)

Empty == [i \in {} |-> {}]
Put(f, k, v) == [x \in DOMAIN f \cup {k} |-> IF x = k THEN v ELSE f[x]]
Drop(f, k) == [x \in DOMAIN f \ {k} |-> f[x]]
Merge(f, g) == [x \in DOMAIN f \cup DOMAIN g |-> IF x \in DOMAIN g THEN g[x] ELSE f[x]]

-----------------------------------------------------------------------------

\* The index entries a particle accounts for.
References(id, p) == {<<p.gravity[k], id, k>> : k \in DOMAIN p.gravity}
AllReferences(ps) == UNION {References(id, ps[id]) : id \in DOMAIN ps}

\* Mutant: a rewrite leaves the entries of the earlier version.
StoredOver(new) ==
  /\ particles' = Merge(particles, new)
  /\ incoming' = incoming \cup AllReferences(new)

\* write of each of the particles of new.
Stored(new) ==
  /\ particles' = Merge(particles, new)
  /\ incoming' = {r \in incoming : r[2] \notin DOMAIN new} \cup AllReferences(new)

\* delete visits the lists of the targets the particle has now, only.
Removed(id) ==
  /\ particles' = Drop(particles, id)
  /\ incoming' = {r \in incoming :
                    \/ r[2] # id
                    \/ \A k \in DOMAIN particles[id].gravity : particles[id].gravity[k] # r[1]}

WriteParticle(id, p) == Stored([i \in {id} |-> p])

DeleteParticle(id) ==
  /\ id \in DOMAIN particles
  /\ Removed(id)

\* write_dimension leaves the bonds alone.
WriteDimension(id, dims) ==
  /\ id \in DOMAIN particles
  /\ particles' = [particles EXCEPT ![id].dims = dims]
  /\ UNCHANGED incoming

StoreInit ==
  /\ particles = Empty
  /\ incoming = {}

StoreNext ==
  \E id \in Ids :
    \/ \E p \in Particles : WriteParticle(id, p)
    \/ DeleteParticle(id)
    \/ \E dims \in Dims : WriteDimension(id, dims)

StoreSpec == StoreInit /\ [][StoreNext]_storeVars

-----------------------------------------------------------------------------

StoreTypeOK ==
  /\ DOMAIN particles \subseteq Ids
  /\ \A id \in DOMAIN particles : particles[id] \in Particles
  /\ incoming \subseteq Ids \X Ids \X Nat

\* The incoming index (store.rs:82) has an entry for each bond of each
\* particle, at the position the bond has, and no other: incoming_bonds
\* reads the position without looking where that bond points.
IncomingExact == incoming = AllReferences(particles)
=============================================================================
