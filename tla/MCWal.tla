------------------------------- MODULE MCWal -------------------------------
(* Three operations: two writes, whose data crosses a block, and a delete. *)
EXTENDS Wal

CONSTANTS write_p, write_q, delete_p

MCOps == {write_p, write_q, delete_p}
MCDataCells == [op \in MCOps |-> IF op = delete_p THEN 1 ELSE 2]
=============================================================================
