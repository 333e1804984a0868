---------------------------- MODULE AbstractLog ----------------------------
(***************************************************************************)
(* What a write-ahead log promises its owner: the operations to replay are *)
(* those appended since the last truncation, in order, whole.              *)
(***************************************************************************)
EXTENDS Sequences

CONSTANT Ops

VARIABLE log

Init == log = << >>

AppendOp(op) == log' = Append(log, op)

Truncate == log' = << >>

Next == Truncate \/ \E op \in Ops : AppendOp(op)

Spec == Init /\ [][Next]_log
=============================================================================
