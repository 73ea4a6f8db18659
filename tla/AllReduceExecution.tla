------------------------- MODULE AllReduceExecution -------------------------
(***************************************************************************)
(* An AllReduce of ExecutionEngine (plugin/execution_engine.py) through    *)
(* the communicator of hcccl/src/hccl_comm.c and the reference kernel of   *)
(* hcccl/src/hccl_algorithms.c.                                            *)
(*                                                                         *)
(* One thread plays all the ranks.  It submits each rank's input, which    *)
(* the communicator stores in a row of its own, and then calls every rank  *)
(* again to retrieve its result.  Each call reduces all rows, including    *)
(* those still zero; any call may run out of memory.                       *)
(*                                                                         *)
(* Values are abstracted: a reduction is the set of ranks whose inputs are *)
(* in it.                                                                  *)
(***************************************************************************)
EXTENDS Integers, Sequences

CONSTANTS
  Sizes,        \* numbers of ranks
  Counts,       \* elements per rank
  MaxDevices,   \* ranks the kernels support, 64 in the code
  MaxFailures   \* bound: how often memory runs out during a call

ASSUME ParametersAssumption ==
  /\ Sizes \subseteq Nat \ {0} /\ Counts \subseteq Nat \ {0}
  /\ MaxDevices \in Nat /\ MaxFailures \in Nat

VARIABLES
  call,       \* the engine's method, the algorithm and the shape of the data
  pc,         \* "init" | "submit" | "retrieve" | "destroy" | "returned"
  rank,       \* the rank being served
  storage,    \* rank_count and rank_capacity
  stored,     \* the ranks whose input is in rank_values; other rows are zero
  recv,       \* the receive buffer
  results,    \* the results retrieved
  status,     \* what the method returns
  failures    \* how often memory ran out

comm == <<storage, stored, recv, failures>>
engineVars == <<call, pc, rank, comm, results, status>>

(* execute_algorithm sends one value per rank. *)
Calls ==
  [method: {"execute_allreduce_data"},
   algorithm: {"Ring", "Butterfly", "NHR", "Mesh", "Fat-Tree"},
   ranks: Sizes, count: Counts]
    \cup [method: {"execute_algorithm"},
           algorithm: {"Ring", "Butterfly", "NHR", "Mesh", "Fat-Tree"},
           ranks: Sizes, count: {1}]

CommRanks == 0..(call.ranks - 1)

PowerOfTwo(n) == \E k \in 0..n : n = 2^k

-----------------------------------------------------------------------------
(* One call of an AllReduce kernel on behalf of rank. *)

NotSupported == call.algorithm = "Butterfly" /\ ~PowerOfTwo(call.ranks)
Refused == NotSupported \/ call.ranks > MaxDevices

(* ensure_allreduce_storage keeps the rows, or replaces them by zeros.     *)
Fits == call.ranks * call.count <= storage.capacity /\ storage.count = call.count
Fitted == IF Fits THEN storage
          ELSE [count |-> call.count, capacity |-> call.ranks * call.count]
Kept == IF Fits THEN stored ELSE {}

Reduces ==
  /\ ~Refused
  /\ storage' = Fitted
  /\ stored' = Kept \cup {rank}
  /\ recv' = stored'
  /\ UNCHANGED failures

Refuses == Refused /\ UNCHANGED comm

(* Memory runs out, before the storage is fitted or after it. *)
RunsOut ==
  /\ ~Refused
  /\ failures < MaxFailures
  /\ failures' = failures + 1
  /\ \/ UNCHANGED <<storage, stored>>
     \/ storage' = Fitted /\ stored' = Kept
  /\ UNCHANGED recv

-----------------------------------------------------------------------------
(* The engine.  Seeded faults: the passes end a rank too early or too late; *)
(* no return code is checked.                                               *)
LastTooEarly(r) == r + 2 >= call.ranks
LastTooLate(r) == r = call.ranks
Last(r) == r + 1 = call.ranks

ChecksNothing == FALSE
ChecksReturnCode == call.method = "execute_allreduce_data"

EngineInit ==
  /\ call \in Calls
  /\ pc = "init" /\ rank = 0
  /\ storage = [count |-> 0, capacity |-> 0] /\ stored = {} /\ recv = {}
  /\ results = <<>> /\ status = "none" /\ failures = 0

CommInit ==
  /\ pc = "init"
  /\ storage' = [count |-> 1, capacity |-> call.ranks]
  /\ pc' = "submit"
  /\ UNCHANGED <<call, rank, stored, recv, results, status, failures>>

CommInitFails ==
  /\ pc = "init"
  /\ failures < MaxFailures
  /\ failures' = failures + 1
  /\ status' = "comm_init_failed"
  /\ pc' = "returned"
  /\ UNCHANGED <<call, rank, storage, stored, recv, results>>

(* The first pass; what the call returns is ignored. *)
Submit ==
  /\ pc = "submit"
  /\ Reduces \/ Refuses \/ RunsOut
  /\ rank' = IF Last(rank) THEN 0 ELSE rank + 1
  /\ pc' = IF Last(rank) THEN "retrieve" ELSE "submit"
  /\ UNCHANGED <<call, results, status>>

(* The second pass submits once more and takes what is in the buffer, which *)
(* execute_algorithm never resets.                                          *)
Retrieve ==
  /\ pc = "retrieve"
  /\ Reduces \/ (~ChecksReturnCode /\ (Refuses \/ RunsOut))
  /\ results' = Append(results, recv')
  /\ rank' = IF Last(rank) THEN 0 ELSE rank + 1
  /\ pc' = IF Last(rank) THEN "destroy" ELSE "retrieve"
  /\ status' = IF Last(rank) THEN "success" ELSE status
  /\ UNCHANGED call

RetrieveFails ==
  /\ pc = "retrieve"
  /\ ChecksReturnCode
  /\ Refuses \/ RunsOut
  /\ results' = <<>>
  /\ status' = IF NotSupported THEN "not_supported" ELSE "error"
  /\ pc' = "destroy"
  /\ UNCHANGED <<call, rank>>

CommDestroy ==
  /\ pc = "destroy"
  /\ storage' = [count |-> 0, capacity |-> 0]
  /\ stored' = {}
  /\ pc' = "returned"
  /\ UNCHANGED <<call, rank, recv, results, status, failures>>

EngineNext ==
  \/ CommInit
  \/ CommInitFails
  \/ Submit
  \/ Retrieve
  \/ RetrieveFails
  \/ CommDestroy

EngineSpec == EngineInit /\ [][EngineNext]_engineVars

-----------------------------------------------------------------------------
(* Types; one result per rank served, each for a rank of the communicator. *)
EngineTypeOK ==
  /\ call \in Calls
  /\ pc \in {"init", "submit", "retrieve", "destroy", "returned"}
  /\ rank \in CommRanks
  /\ storage \in [count: Nat, capacity: Nat]
  /\ stored \subseteq CommRanks /\ recv \subseteq CommRanks
  /\ results \in Seq(SUBSET CommRanks)
  /\ pc = "retrieve" => Len(results) = rank
  /\ status \in {"none", "success", "error", "not_supported", "comm_init_failed"}
  /\ failures \in 0..MaxFailures

(* While memory lasts, a supported collective returns to every rank the     *)
(* reduction of all inputs, and so the same to each.                        *)
ReducedWhenHealthy ==
  pc = "returned" /\ failures = 0 /\ ~Refused =>
    status = "success" /\ results = [i \in 1..call.ranks |-> CommRanks]

(* execute_allreduce_data reports success only with results that hold the   *)
(* inputs of the rank itself and of every rank before it, whichever of the  *)
(* ignored submissions failed; the last rank's is always complete.          *)
SuccessCoversPredecessors ==
  call.method = "execute_allreduce_data" /\ status = "success" =>
    \A i \in 1..call.ranks : 0..(i - 1) \subseteq results[i]

(* Success is reported of a reduction of all the inputs only. *)
SuccessIsReduction ==
  status = "success" => \A i \in 1..call.ranks : results[i] = CommRanks
=============================================================================
