--------------------------- MODULE MCFlowControl ----------------------------
(***************************************************************************)
(* Every valid configuration with a window of at most three credits, every *)
(* capacity pattern of at most three ticks, up to four chunks.             *)
(***************************************************************************)
EXTENDS FlowControl
=============================================================================
