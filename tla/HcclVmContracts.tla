--------------------------- MODULE HcclVmContracts ---------------------------
(***************************************************************************)
(* What an official HCCL-VM validation is measured against, and how its    *)
(* checker output is read: plugin/hccl_vm_registry.py and                  *)
(* plugin/hccl_vm_checker.py.                                              *)
(*                                                                         *)
(* The checker's output is a set of operation blocks, each a summary with  *)
(* the stages that follow it, and a few facts about the whole log.  The    *)
(* pattern matching that finds them is left out.                           *)
(***************************************************************************)
EXTENDS Integers

Primitives == {"AllReduce", "AllGather", "ReduceScatter"}

Contract(executable, reduces, elements) ==
  [executable |-> executable, reduces |-> reduces, elements |-> elements]

(* PRIMITIVE_REGISTRY.  The ranks are two and the type is int32 throughout. *)
Contracts ==
  [AllReduce |-> Contract("all_reduce_test", TRUE, 16),
   AllGather |-> Contract("all_gather_test", FALSE, 8),
   ReduceScatter |-> Contract("reduce_scatter_test", TRUE, 8)]

Request(primitive, op, elements) ==
  [primitive |-> primitive, ranks |-> 2, op |-> op, elements |-> elements]

(* What a user may ask for; "none" is an option left out. *)
Requests ==
  [primitive : Primitives \cup {"Broadcast"}, ranks : {2, 4},
   op : {"none", "sum", "max"}, elements : {8, 16}]

(* resolve_collective_request raises ValueError for any other request. *)
Resolves(request) ==
  /\ request.primitive \in Primitives
  /\ request.ranks = 2
  /\ request.elements = Contracts[request.primitive].elements
  /\ request.op =
       IF Contracts[request.primitive].reduces THEN "sum" ELSE "none"

-----------------------------------------------------------------------------
(* A summary of the checker; the stages it reports after one: all required *)
(* stages there and every stage successful, one of them missing, or some   *)
(* observed stage failed.                                                  *)
Summaries == [type : Primitives, elements : {8, 16}, reduce : {"SUM", "MAX"}]
Stages == {"success", "missing", "failed"}
Blocks == [summary : Summaries, stages : Stages]

(* What the log says besides: hccl_config.sh ended with 0, "Checker        *)
(* Success" was seen, a fatal signal was seen, and the number of warnings  *)
(* 103, of which four are the baseline.                                    *)
Outputs(operations) ==
  [blocks : operations, configured : BOOLEAN, success : BOOLEAN,
   fatal : BOOLEAN, warnings : {0, 4}]

(* _summary_matches_contract *)
MatchesContract(summary, primitive) ==
  /\ summary.type = primitive
  /\ summary.elements = Contracts[primitive].elements
  /\ Contracts[primitive].reduces => summary.reduce = "SUM"

(* The part of parse_official_result that is about the checker's output: at *)
(* least one summary, and every block of the operation asked for and        *)
(* complete.  A changed number of warnings is recorded and does not count.  *)
CheckerAccepts(output, primitive) ==
  /\ output.configured /\ output.success /\ ~output.fatal
  /\ output.blocks # {}
  /\ \A block \in output.blocks :
       MatchesContract(block.summary, primitive) /\ block.stages = "success"

(* The status a session has earned if its exit codes are in order too. *)
Status(output, primitive) ==
  IF ~CheckerAccepts(output, primitive) THEN "FAIL"
  ELSE IF output.warnings = 0 THEN "PASS_CLEAN" ELSE "PASS_WITH_WARNING"

-----------------------------------------------------------------------------
(* _audit_related_processes asks ps for the names of all processes; a name *)
(* longer than fifteen characters is cut by the kernel.                    *)
Comm(name) == IF name = "reduce_scatter_test" THEN "reduce_scatter_" ELSE name

ExpectedNames(primitive) ==
  {"hccl-vm", "mpirun", "checker", Contracts[primitive].executable}

SeenByAudit(name, primitive) == Comm(name) \in ExpectedNames(primitive)
=============================================================================
