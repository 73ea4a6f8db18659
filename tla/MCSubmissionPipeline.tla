------------------------ MODULE MCSubmissionPipeline ------------------------
(***************************************************************************)
(* Two revisions: the first is good or cannot replay, the second is good,  *)
(* changes the ABI, or fails one check of full or of the stage.            *)
(***************************************************************************)
EXTENDS SubmissionPipeline
Rev(abi, broken) == [abi |-> abi, broken |-> broken]
MCSources == {<<Rev(1, "none"), Rev(1, b)>> : b \in {"none", "g3-b3-full", "scan", "abi"}}
             \cup {<<Rev(1, "none"), Rev(2, "none")>>}
MCInTheWay == {"nowhere", "build-a", "stage"}
=============================================================================
