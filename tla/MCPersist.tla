----------------------------- MODULE MCPersist -----------------------------
(* Particles are interchangeable: the code visits modified ones in the order *)
(* of a hash map.                                                            *)
EXTENDS Persist, TLC

Identities == Permutations(Ids)

\* Every particle has dimension 1, so particles share it.
SharedContents == {{1}, {1, 2}}

\* One content whose record fits no page.
LongContents == {{2}}
AnyContents == SharedContents \cup LongContents
=============================================================================
