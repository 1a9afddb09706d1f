------------------------------ MODULE FifoQueue ------------------------------
(***************************************************************************)
(* What internal/persistence/queue.go promises ("a disk-backed FIFO queue  *)
(* for inference requests/results"): a sequence that grows at its end and  *)
(* shrinks at its front.                                                   *)
(***************************************************************************)
EXTENDS Sequences

CONSTANT Item

VARIABLE q

FifoInit == q = <<>>

Put(x) == q' = Append(q, x)

Get == q # <<>> /\ q' = Tail(q)

FifoNext == Get \/ \E x \in Item : Put(x)

FifoSpec == FifoInit /\ [][FifoNext]_q
=============================================================================
