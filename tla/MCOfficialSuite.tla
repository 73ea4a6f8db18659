-------------------------- MODULE MCOfficialSuite ---------------------------
(* The suite, or one request, right or wrong, in environments that differ in *)
(* one thing each.  The checker prints one complete block, of the operation  *)
(* asked for or of another.                                                  *)
EXTENDS OfficialSuite

Good == [shell |-> TRUE, answer |-> "complete", common |-> TRUE,
         tests |-> Primitives,
         report |-> [commit |-> "frozen", cann |-> "9.1.0"]]

MCEnvironments ==
  {Good,
   [Good EXCEPT !.report.cann = "9.2.0"],
   [Good EXCEPT !.report.commit = "moved"],
   [Good EXCEPT !.tests = {"AllGather"}],
   [Good EXCEPT !.answer = "part"],
   [Good EXCEPT !.shell = FALSE]}

Block(p, stages) ==
  [summary |->
     [type |-> p, elements |-> Contracts[p].elements, reduce |-> "SUM"],
   stages |-> stages]

MCCheckerOutputs ==
  [blocks : {{Block(p, "success")} : p \in Primitives}, configured : {TRUE},
   success : {TRUE}, fatal : {FALSE}, warnings : {0, 4}]

(* No output of the checker is accepted for two primitives, and none is that *)
(* lacks a stage in one of two blocks.                                       *)
ASSUME OwnOutputOnly ==
  \A printed \in Outputs({{b, c} : b, c \in Blocks}), p, q \in Primitives :
    CheckerAccepts(printed, p) /\ CheckerAccepts(printed, q) =>
      p = q /\ \A block \in printed.blocks : block.stages = "success"
=============================================================================
