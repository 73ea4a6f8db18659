------------------------ MODULE MCAllReduceExecution ------------------------
(* Up to five ranks, of which the kernels support four. *)
EXTENDS AllReduceExecution
=============================================================================
