---------------------------- MODULE MCStructures ----------------------------
(* Six parts that do not touch each other.  A behaviour is about one of    *)
(* them, chosen at the start, so that their states add up instead of       *)
(* multiplying.  Particles are interchangeable.                            *)
EXTENDS BlockBitmap, EmbeddingIndex, Prefetch, Traversal, FileIO, DirScan, TLC

VARIABLE part

vars == <<part, bitmapVars, embeddingVars, prefetchVars, storeVars, fileVars, scanVars>>

\* What the parts but one keep.
Except(p) ==
  /\ p = "bitmap" \/ UNCHANGED bitmapVars
  /\ p = "embedding" \/ UNCHANGED embeddingVars
  /\ p = "prefetch" \/ UNCHANGED prefetchVars
  /\ p = "traversal" \/ UNCHANGED storeVars
  /\ p = "files" \/ UNCHANGED fileVars
  /\ p = "scan" \/ UNCHANGED scanVars

Init ==
  /\ part \in {"bitmap", "embedding", "prefetch", "traversal", "files", "scan"}
  /\ BitmapInit /\ EmbeddingInit /\ PrefetchInit /\ StoreInit /\ FileInit
  /\ IF part = "scan" THEN ScanInit ELSE ScanInit /\ dir_index = {}

Next ==
  /\ UNCHANGED part
  /\ \/ part = "bitmap" /\ BitmapNext /\ Except("bitmap")
     \/ part = "embedding" /\ EmbeddingNext /\ Except("embedding")
     \/ part = "prefetch" /\ PrefetchNext /\ Except("prefetch")
     \/ part = "traversal" /\ TraversalNext /\ Except("traversal")
     \/ part = "files" /\ FileNext /\ Except("files")
     \/ part = "scan" /\ ScanNext /\ Except("scan")

Spec == Init /\ [][Next]_vars

Alike == Permutations(Ids)

\* The points have one near all the others: its links get too many.
Hubs == {0, 3, 30, 40, 75, 81}
=============================================================================
