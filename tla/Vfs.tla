-------------------------------- MODULE Vfs --------------------------------
(***************************************************************************)
(* The virtual file system (vfs.rs) over the particle store.  A directory  *)
(* is a particle whose bonds point at its children and whose __dir_index   *)
(* dimension maps names to them; the file system keeps a cache of indexes, *)
(* the table of inode numbers and the open handles.  A call is several     *)
(* logged writes, one step each, and the process can end between any two.  *)
(*                                                                         *)
(* Below it stands a persistent store that gives back what it acknowledged *)
(* (Persist says when it does): saved is what log and file hold together,  *)
(* particles what is in memory.  read sees the memory only.                *)
(***************************************************************************)
EXTENDS ParticleStore, FiniteSets, SequencesExt

CONSTANTS
  Names,
  Contents,     \* what a file may be given to hold
  Blank,        \* the content of a new file
  None,
  Reuse,        \* whether clients create names whose id is still in use
  MaxEvents,    \* bound: calls that change something, and restarts
  MaxRestarts   \* bound: ends of the process, in a call or between two

Root == <<>>

\* ParticleId::from_content of "dir:" or "file:", the parent's id and the
\* name: the same call in the same directory makes the same id again.
ChildId(parent, kind, name) == Append(parent, <<kind, name>>)

\* Clients name directories as parents: a path walk and the kernel see to it.
IsDirectory(id) == IF id = Root THEN TRUE ELSE Last(id)[1] = "dir"

Indexes == UNION {[s -> Ids] : s \in SUBSET Names}

\* An id stands for the path it was made from; the dimensions that matter are
\* the name, what a file holds, and __dir_index.
ASSUME VfsAssumption ==
  /\ Root \in Ids /\ Ids \subseteq Seq({"dir", "file"} \X Names)
  /\ Dims = [name : Names \cup {None}, content : Contents \cup {None},
             index : Indexes \cup {None}]
  /\ Blank \in Contents
  /\ None \notin Names /\ None \notin Contents /\ None \notin Indexes
  /\ Reuse \in BOOLEAN
  /\ MaxEvents \in Nat /\ MaxRestarts \in Nat

VARIABLES
  saved,     \* particles that survive the end of the process
  logged,    \* ids written since the last checkpoint: open puts them in memory
  cache,     \* dir_index_cache
  inodes,    \* the inode table: next number, by_inode, by_particle
  handles,   \* open handles: the inode, and which particle it was (history)
  steps,     \* what the running call has still to do
  touched,   \* history: the entries the running call is about
  calls, restarts

vars == <<particles, incoming, saved, logged, cache, inodes, handles, steps,
          touched, calls, restarts>>
bounds == <<calls, restarts>>

-----------------------------------------------------------------------------
(* The inode table.                                                        *)

NewInodes == [next |-> 2, byInode |-> Put(Empty, 1, Root), byParticle |-> Put(Empty, Root, 1)]

\* Mutant: the lowest number not in use.
NumberedAgain(t, id) ==
  IF id \in DOMAIN t.byParticle THEN t
  ELSE LET free == CHOOSE n \in 2 .. t.next : /\ n \notin DOMAIN t.byInode
                                              /\ \A m \in 2 .. n - 1 : m \in DOMAIN t.byInode
       IN  [next |-> t.next + 1, byInode |-> Put(t.byInode, free, id),
            byParticle |-> Put(t.byParticle, id, free)]

\* get_or_insert
Numbered(t, id) ==
  IF id \in DOMAIN t.byParticle THEN t
  ELSE [next |-> t.next + 1, byInode |-> Put(t.byInode, t.next, id),
        byParticle |-> Put(t.byParticle, id, t.next)]

\* Mutant: the particle keeps the number that was given up.
HalfUnnumbered(t, id) ==
  IF id \notin DOMAIN t.byParticle THEN t
  ELSE [t EXCEPT !.byInode = Drop(@, t.byParticle[id])]

\* remove
Unnumbered(t, id) ==
  IF id \notin DOMAIN t.byParticle THEN t
  ELSE [next |-> t.next, byInode |-> Drop(t.byInode, t.byParticle[id]),
        byParticle |-> Drop(t.byParticle, id)]

-----------------------------------------------------------------------------
(* Directory indexes.                                                      *)

\* build_dir_index_from_bonds: children that cannot be loaded are left out,
\* and of two with one name the later replaces the earlier.
FromBonds(d) ==
  LET bonds == saved[d].gravity
      found == {k \in DOMAIN bonds : bonds[k] \in DOMAIN saved}
      name(k) == saved[bonds[k]].dims.name
  IN  [n \in {name(k) : k \in found} |-> bonds[Max({k \in found : name(k) = n})]]

HasIndex(d) == saved[d].dims.index # None
StoredIndex(d) == IF HasIndex(d) THEN saved[d].dims.index ELSE FromBonds(d)
IndexOf(d) == IF d \in DOMAIN cache THEN cache[d] ELSE StoredIndex(d)

\* The children an index built from bonds asks for: those that can be loaded
\* come to memory and get inode numbers.
BuiltFrom(d) == IF d \in DOMAIN cache \/ HasIndex(d) THEN <<>> ELSE saved[d].gravity

Loaded(ids) == [i \in (ids \cap DOMAIN saved) \ DOMAIN particles |-> saved[i]]

ChildrenNumbered(t, ids) ==
  FoldLeft(LAMBDA u, id : IF id \in DOMAIN saved THEN Numbered(u, id) ELSE u, t, ids)

-----------------------------------------------------------------------------
(* Logged writes of one particle, in memory and in the log alike.          *)

Saved(id, p) ==
  /\ saved' = Put(saved, id, p)
  /\ logged' = logged \cup {id}
  /\ WriteParticle(id, p)

Indexed(p, index) == [p EXCEPT !.dims.index = index]

\* save_dir_index of the particle p, which may just have been changed.
IndexSaved(d, p, index) ==
  /\ Saved(d, Indexed(p, index))
  /\ cache' = Put(cache, d, index)

-----------------------------------------------------------------------------
(* The steps of a call.  Those that read a particle need it in memory.     *)

NewStep(id, name, content) == [do |-> "new", at |-> id, name |-> name, content |-> content]
BondStep(d, id) == [do |-> "bond", at |-> d, id |-> id]
UnbondStep(d, id) == [do |-> "unbond", at |-> d, id |-> id]
NameStep(id, name) == [do |-> "name", at |-> id, name |-> name]
ContentStep(id, content) == [do |-> "content", at |-> id, content |-> content]
IndexStep(d, index) == [do |-> "index", at |-> d, index |-> index]
EnterStep(d, name, id) == [do |-> "enter", at |-> d, name |-> name, id |-> id]
DeleteStep(id) == [do |-> "delete", at |-> id]
NumberStep(id) == [do |-> "number", at |-> id]

Running(do) == steps # <<>> /\ Head(steps).do = do
At == Head(steps).at
InMemory == At \in DOMAIN particles
Continued ==
  /\ steps' = Tail(steps)
  /\ touched' = IF Len(steps) = 1 THEN {} ELSE touched

\* The particle of a new file or directory takes the place of any of its id.
StepNew ==
  /\ Running("new")
  /\ Saved(At, [gravity |-> <<>>,
                dims |-> [name |-> Head(steps).name, content |-> Head(steps).content,
                          index |-> None]])
  /\ Continued
  /\ UNCHANGED <<cache, inodes, handles, bounds>>

StepBond ==
  /\ Running("bond") /\ InMemory
  /\ Saved(At, [particles[At] EXCEPT !.gravity = Append(@, Head(steps).id)])
  /\ Continued
  /\ UNCHANGED <<cache, inodes, handles, bounds>>

\* retain drops every bond to the target.
Retained(bonds, target) ==
  FoldLeft(LAMBDA kept, t : IF t = target THEN kept ELSE Append(kept, t), <<>>, bonds)

StepUnbond ==
  /\ Running("unbond") /\ InMemory
  /\ Saved(At, [particles[At] EXCEPT !.gravity = Retained(@, Head(steps).id)])
  /\ Continued
  /\ UNCHANGED <<cache, inodes, handles, bounds>>

StepName ==
  /\ Running("name") /\ InMemory
  /\ Saved(At, [particles[At] EXCEPT !.dims.name = Head(steps).name])
  /\ Continued
  /\ UNCHANGED <<cache, inodes, handles, bounds>>

StepContent ==
  /\ Running("content") /\ InMemory
  /\ Saved(At, [particles[At] EXCEPT !.dims.content = Head(steps).content])
  /\ Continued
  /\ UNCHANGED <<cache, inodes, handles, bounds>>

StepIndex ==
  /\ Running("index") /\ InMemory
  /\ IndexSaved(At, particles[At], Head(steps).index)
  /\ Continued
  /\ UNCHANGED <<inodes, handles, bounds>>

\* Mutant: the index of the new parent is begun anew.
StepEnterAnew ==
  /\ Running("enter") /\ InMemory
  /\ IndexSaved(At, particles[At], Put(Empty, Head(steps).name, Head(steps).id))
  /\ Continued
  /\ UNCHANGED <<inodes, handles, bounds>>

\* The end of rename_cross loads the index of the new parent only here.
StepEnter ==
  /\ Running("enter") /\ InMemory
  /\ LET children == BuiltFrom(At)
         index == Put(IndexOf(At), Head(steps).name, Head(steps).id)
         p == Indexed(particles[At], index)
     IN  /\ saved' = Put(saved, At, p)
         /\ logged' = logged \cup {At}
         /\ Stored(Put(Loaded(ToSet(children)), At, p))
         /\ cache' = Put(cache, At, index)
         /\ inodes' = ChildrenNumbered(inodes, children)
  /\ Continued
  /\ UNCHANGED <<handles, bounds>>

\* Mutant: the cached index of what was deleted stays.
StepDeleteUncached ==
  /\ Running("delete") /\ At \in DOMAIN saved
  /\ saved' = Drop(saved, At)
  /\ logged' = logged \ {At}
  /\ IF InMemory THEN Removed(At) ELSE UNCHANGED storeVars
  /\ inodes' = Unnumbered(inodes, At)
  /\ Continued
  /\ UNCHANGED <<cache, handles, bounds>>

\* PersistentStore::delete finds a particle in memory or in the file.
StepDelete ==
  /\ Running("delete") /\ At \in DOMAIN saved
  /\ saved' = Drop(saved, At)
  /\ logged' = logged \ {At}
  /\ IF InMemory THEN Removed(At) ELSE UNCHANGED storeVars
  /\ inodes' = Unnumbered(inodes, At)
  /\ cache' = Drop(cache, At)
  /\ Continued
  /\ UNCHANGED <<handles, bounds>>

StepNumber ==
  /\ Running("number")
  /\ inodes' = Numbered(inodes, At)
  /\ Continued
  /\ UNCHANGED <<particles, incoming, saved, logged, cache, handles, bounds>>

\* The particle a step reads is not there: the call returns an error, and
\* what it has done stays.
StepFails ==
  /\ steps # <<>>
  /\ Head(steps).do \notin {"new", "number"}
  /\ At \notin (IF Running("delete") THEN DOMAIN saved ELSE DOMAIN particles)
  /\ steps' = <<>> /\ touched' = {}
  /\ UNCHANGED <<particles, incoming, saved, logged, cache, inodes, handles, bounds>>

Step ==
  \/ StepNew \/ StepBond \/ StepUnbond \/ StepName \/ StepContent
  \/ StepIndex \/ StepEnter \/ StepDelete \/ StepNumber \/ StepFails

-----------------------------------------------------------------------------
(* Calls.                                                                  *)

Idle == steps = <<>>

\* load_dir_index of a directory that is not cached; the index is written
\* back when it had to be built.  Every call begins with it for its parent,
\* and lookups and path walks do nothing more.
LoadDirectory(d) ==
  /\ Idle
  /\ d \in DOMAIN saved \ DOMAIN cache
  /\ \/ d \in DOMAIN inodes.byParticle
     \/ \E e \in DOMAIN cache : \E n \in DOMAIN cache[e] : cache[e][n] = d
  /\ LET children == BuiltFrom(d)
         index == StoredIndex(d)
         p == Indexed(saved[d], index)
     IN  /\ Stored(Put(Loaded(ToSet(children)), d, p))
         /\ saved' = Put(saved, d, p)
         /\ logged' = IF HasIndex(d) THEN logged ELSE logged \cup {d}
         /\ cache' = Put(cache, d, index)
         /\ inodes' = ChildrenNumbered(Numbered(inodes, d), children)
  /\ UNCHANGED <<handles, steps, touched, bounds>>

\* lookup, lookup_by_name and each entry of readdir: ensure_particle_loaded.
Lookup(d, n) ==
  /\ Idle
  /\ d \in DOMAIN cache /\ n \in DOMAIN cache[d]
  /\ LET id == cache[d][n]
     IN  /\ id \in DOMAIN saved
         /\ ~(id \in DOMAIN particles /\ id \in DOMAIN inodes.byParticle)
         /\ Stored(Loaded({id}))
         /\ inodes' = Numbered(inodes, id)
  /\ UNCHANGED <<saved, logged, cache, handles, steps, touched, bounds>>

\* A call that changes something, with the entries it is about.
Call(entries, script) ==
  /\ Idle
  /\ calls + restarts < MaxEvents
  /\ calls' = calls + 1
  /\ steps' = script
  /\ touched' = entries
  /\ UNCHANGED <<particles, incoming, saved, logged, cache, inodes, handles, restarts>>

\* The parent of a call has an inode number, and its index is loaded.
Parent(d) == d \in DOMAIN inodes.byParticle /\ d \in DOMAIN cache /\ IsDirectory(d)
HasEntry(d, n) == Parent(d) /\ n \in DOMAIN cache[d]

\* No directory names the particle or has a bond to it, and no index of it is
\* cached.  (A rename over an entry leaves the bond to what loses its name.)
Unused(id) ==
  /\ id \notin DOMAIN cache
  /\ \A d \in DOMAIN saved :
       /\ ~Contains(saved[d].gravity, id)
       /\ \A n \in DOMAIN StoredIndex(d) : StoredIndex(d)[n] # id

\* Mutant: the bond to the parent is left out.
UnbondedScript(d, n, id, content) ==
  <<NewStep(id, n, content), IndexStep(d, Put(cache[d], n, id)), NumberStep(id)>>

CreateScript(d, n, id, content) ==
  <<NewStep(id, n, content), BondStep(d, id), IndexStep(d, Put(cache[d], n, id)),
    NumberStep(id)>>

\* mkdir and create.
Make(kind, d, n) ==
  LET id == ChildId(d, kind, n)
      content == IF kind = "file" THEN Blank ELSE None
  IN  /\ Parent(d) /\ n \notin DOMAIN cache[d]
      /\ id \in Ids
      /\ Reuse \/ Unused(id)
      /\ Call({<<d, n>>}, CreateScript(d, n, id, content))

\* Mutant: the particle is deleted before its name is taken away.
DeleteFirst(d, n) ==
  <<DeleteStep(cache[d][n]), UnbondStep(d, cache[d][n]), IndexStep(d, Drop(cache[d], n))>>

UnlinkScript(d, n) ==
  <<UnbondStep(d, cache[d][n]), IndexStep(d, Drop(cache[d], n)), DeleteStep(cache[d][n])>>

\* unlink asks nothing of its target: it removes a directory with all below.
Unlink(d, n) ==
  /\ HasEntry(d, n)
  /\ Call({<<d, n>>}, UnlinkScript(d, n))

\* rmdir looks at the bonds, of a target that has to be in memory.
Rmdir(d, n) ==
  /\ HasEntry(d, n)
  /\ cache[d][n] \in DOMAIN particles
  /\ particles[cache[d][n]].gravity = <<>>
  /\ Call({<<d, n>>}, UnlinkScript(d, n))

\* Mutant: the old name stays.
RenameKeepsOld(d, n, m) ==
  <<NameStep(cache[d][n], m), IndexStep(d, Put(cache[d], m, cache[d][n]))>>

RenameScript(d, n, m) ==
  <<NameStep(cache[d][n], m), IndexStep(d, Put(Drop(cache[d], n), m, cache[d][n]))>>

\* rename, within a directory: what has the new name loses it, no more.
Rename(d, n, m) ==
  /\ HasEntry(d, n)
  /\ Call({<<d, n>>, <<d, m>>}, RenameScript(d, n, m))

\* The name dimension is written only when it changes.
MoveScript(d, n, e, m) ==
  LET id    == cache[d][n]
      taken == UnbondStep(d, id)
      index == IndexStep(d, Drop(cache[d], n))
      put   == BondStep(e, id)
      enter == EnterStep(e, m, id)
  IN  IF n = m THEN <<taken, index, put, enter>>
               ELSE <<taken, index, NameStep(id, m), put, enter>>

\* rename_cross, between two directories.
Move(d, n, e, m) ==
  /\ HasEntry(d, n)
  /\ d # e /\ e \in DOMAIN inodes.byParticle /\ IsDirectory(e)
  /\ Call({<<d, n>>, <<e, m>>}, MoveScript(d, n, e, m))

\* open_handle.  One handle at a time is enough: handles do not interact.
OpenHandle(i) ==
  /\ Idle
  /\ handles = Empty
  /\ i \in DOMAIN inodes.byInode
  /\ ~IsDirectory(inodes.byInode[i])
  /\ inodes.byInode[i] \in DOMAIN particles
  /\ handles' = Put(handles, 1, [inode |-> i, file |-> inodes.byInode[i]])
  /\ UNCHANGED <<particles, incoming, saved, logged, cache, inodes, steps, touched, bounds>>

Named(id) ==
  {e \in (DOMAIN saved) \X Names :
     e[2] \in DOMAIN StoredIndex(e[1]) /\ StoredIndex(e[1])[e[2]] = id}

\* close_handle
CloseHandle(h) ==
  /\ Idle
  /\ h \in DOMAIN handles
  /\ handles' = Drop(handles, h)
  /\ UNCHANGED <<particles, incoming, saved, logged, cache, inodes, steps, touched, bounds>>

\* write through a handle, and truncate: one logged write.
WriteFile(h, c) ==
  /\ h \in DOMAIN handles
  /\ handles[h].inode \in DOMAIN inodes.byInode
  /\ LET id == inodes.byInode[handles[h].inode]
     IN  Call(Named(id), <<ContentStep(id, c)>>)

\* sync.  One that a logged write begins by itself, inside a call, would
\* only leave less for the next process to have in memory from the start.
Sync ==
  /\ Idle
  /\ logged # {}
  /\ logged' = {}
  /\ UNCHANGED <<particles, incoming, saved, cache, inodes, handles, steps, touched, bounds>>

\* The process ends and another opens the volume: the log is replayed, the
\* root is loaded, and the rest comes on demand.
Restart ==
  /\ restarts < MaxRestarts /\ calls + restarts < MaxEvents
  /\ restarts' = restarts + 1
  /\ particles' = [i \in (logged \cap DOMAIN saved) \cup {Root} |-> saved[i]]
  /\ incoming' = AllReferences(particles')
  /\ cache' = Empty
  /\ inodes' = NewInodes
  /\ handles' = Empty
  /\ steps' = <<>> /\ touched' = {}
  /\ UNCHANGED <<saved, logged, calls>>

Init ==
  /\ saved = Put(Empty, Root, [gravity |-> <<>>,
                               dims |-> [name |-> None, content |-> None, index |-> None]])
  /\ logged = {}
  /\ particles = saved /\ incoming = {}
  /\ cache = Empty
  /\ inodes = NewInodes
  /\ handles = Empty
  /\ steps = <<>> /\ touched = {}
  /\ calls = 0 /\ restarts = 0

Next ==
  \/ \E d \in DOMAIN saved : LoadDirectory(d)
  \/ \E d \in DOMAIN cache, n \in Names :
       \/ Lookup(d, n)
       \/ \E kind \in {"dir", "file"} : Make(kind, d, n)
       \/ Unlink(d, n)
       \/ Rmdir(d, n)
       \/ \E m \in Names : Rename(d, n, m)
       \/ \E e \in DOMAIN saved, m \in Names : Move(d, n, e, m)
  \/ \E i \in DOMAIN inodes.byInode : OpenHandle(i)
  \/ \E h \in DOMAIN handles : CloseHandle(h) \/ \E c \in Contents : WriteFile(h, c)
  \/ Step \/ Sync \/ Restart

Spec == Init /\ [][Next]_vars

-----------------------------------------------------------------------------
(* check_semantic of fsck (fsck.rs:168), on the volume as it is opened.    *)

DanglingBonds ==
  {b \in (DOMAIN saved) \X Ids : Contains(saved[b[1]].gravity, b[2]) /\ b[2] \notin DOMAIN saved}

\* The particles no bond leads to.  The root is known by being the only one
\* among them with bonds of its own, so an empty root counts as an orphan.
OrphanedParticles ==
  LET loose == {id \in DOMAIN saved : \A d \in DOMAIN saved : ~Contains(saved[d].gravity, id)}
      tops  == {id \in loose : saved[id].gravity # <<>>}
  IN  IF Cardinality(tops) = 1 THEN loose \ tops ELSE loose

-----------------------------------------------------------------------------
TypeOK ==
  /\ StoreTypeOK
  /\ DOMAIN saved \subseteq Ids /\ Root \in DOMAIN saved
  /\ \A id \in DOMAIN saved : saved[id] \in Particles
  /\ logged \subseteq DOMAIN saved
  /\ DOMAIN cache \subseteq Ids
  /\ DOMAIN inodes.byInode \subseteq 1 .. inodes.next - 1
  /\ \A id \in DOMAIN inodes.byParticle :
       /\ inodes.byParticle[id] \in DOMAIN inodes.byInode
       /\ inodes.byInode[inodes.byParticle[id]] = id
  /\ \A h \in DOMAIN handles : handles[h].inode \in 1 .. inodes.next - 1

\* Directories that can be reached from the root, after any crash too.
Reachable ==
  LET Below[k \in Nat] ==
        IF k = 0 THEN {Root}
        ELSE Below[k - 1] \cup
             UNION {{StoredIndex(d)[n] : n \in DOMAIN StoredIndex(d)} \cap DOMAIN saved :
                      d \in Below[k - 1]}
  IN  Below[Cardinality(DOMAIN saved)]

\* A name never outlives what it names: unlink (vfs.rs:629) takes the name
\* away first and mkdir and create give it last, so that whatever logged
\* write the process stops at, every entry of every directory has a particle.
\* Nor does a bond: fsck has no dangling one to report or repair.  Of the
\* first process, and so of what it leaves behind wherever it ends.  A later
\* one may build an index by a name dimension that a rename cut short has
\* left stale, and then one particle is found under two names.
EntriesExist ==
  restarts = 0 =>
    /\ \A d \in DOMAIN saved : \A n \in DOMAIN StoredIndex(d) :
         StoredIndex(d)[n] \in DOMAIN saved
    /\ DanglingBonds = {}

\* There are no hard links (vfs.rs:646): no particle is found under two
\* names, at no logged write of a rename or a move, where the process may
\* end.  Of the first process: a rename cut short leaves a name dimension
\* that is not the entry's, and an index built from bonds later goes by it.
OneName ==
  restarts = 0 =>
    LET reach == Reachable
    IN  \A id \in DOMAIN saved : Cardinality({e \in Named(id) : e[1] \in reach}) <= 1

\* A cached index is the one its directory has (vfs.rs:285): a directory
\* removed and made again does not come back with its old entries.
CacheMatches ==
  \A d \in DOMAIN cache : d \in DOMAIN saved /\ saved[d].dims.index = cache[d]

\* Between calls that ran to their end, every entry has its bond, which is
\* what rmdir (vfs.rs:682), is_dir and getattr go by, and what fsck goes by:
\* it takes nothing that has a name for an orphan.
EntriesAreBonded ==
  Idle /\ restarts = 0 =>
    /\ \A d \in DOMAIN cache : \A n \in DOMAIN cache[d] : Contains(saved[d].gravity, cache[d][n])
    /\ \A id \in OrphanedParticles : Named(id) = {}

\* A handle or an inode number the kernel remembers never comes to mean
\* another file than the one it was given for (vfs.rs:536).
HandlesKeepTheirFile ==
  \A h \in DOMAIN handles :
    handles[h].inode \in DOMAIN inodes.byInode
      => inodes.byInode[handles[h].inode] = handles[h].file

\* What a client finds: entries with the particle and what it holds.
View ==
  LET found(d) == {n \in DOMAIN StoredIndex(d) : StoredIndex(d)[n] \in DOMAIN saved}
  IN  UNION {{<<d, n, StoredIndex(d)[n], saved[StoredIndex(d)[n]].dims.content>> :
                n \in found(d)} : d \in Reachable}

\* No step of a call, finished, failed or cut short, changes any entry but
\* those the call was given, nor what another entry's file holds; entries
\* below a directory that was taken away go with it.
OthersUntouched ==
  [][saved' # saved =>
     LET after == View'
         reach == Reachable'
     IN  \A v \in View : <<v[1], v[2]>> \in touched \/ v[1] \notin reach \/ v \in after]_vars

\* A call that fails leaves the particle it was about with a name: "Move an
\* entry from one directory to another" (vfs.rs:702) does not lose it.
FailuresLoseNothing ==
  [][StepFails =>
       \A id \in DOMAIN saved : Running("name") /\ At = id => Named(id) # {}]_vars
=============================================================================
