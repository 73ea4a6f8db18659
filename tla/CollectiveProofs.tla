--------------------------- MODULE CollectiveProofs ---------------------------
(***************************************************************************)
(* Theorems about the collectives, for any numbers of ranks.               *)
(*                                                                         *)
(* AllReduceExecution: what the results hold when the engine reports       *)
(* success, for any numbers of elements and supported devices, and however *)
(* often memory runs out.                                                  *)
(*                                                                         *)
(* ScheduleExecution: what the ranks hold when a schedule has ended, for   *)
(* any group size and fan-out, any order that nhr_order may find, and any  *)
(* interleaving of the transfers of a phase.                               *)
(***************************************************************************)
EXTENDS AllReduceExecution, ScheduleExecution, SequenceTheorems, FiniteSetTheorems,
  WellFoundedInduction, TLAPS

(***************************************************************************)
(* The engine and the communicator.                                        *)
(***************************************************************************)

(* The two passes serve the ranks in order; nothing is retrieved before the *)
(* second, and success is only reported after it.                           *)
Passes ==
  /\ pc \in {"init", "submit"} => results = <<>>
  /\ pc \in {"init", "submit", "retrieve"} => status = "none"
  /\ pc = "init" => rank = 0 /\ stored = {} /\ failures = 0
  /\ status = "success" => Len(results) = call.ranks

(* While memory lasts every row is stored, none is lost, and from the first *)
(* retrieval on all are there.                                              *)
Undisturbed == failures = 0 /\ ~Refused
Healthy ==
  Undisturbed =>
    /\ pc = "submit" => stored = 0..(rank - 1) /\ (rank > 0 => Fits)
    /\ pc = "retrieve" =>
         stored = CommRanks /\ Fits /\ results = [i \in 1..rank |-> CommRanks]
    /\ pc \in {"destroy", "returned"} =>
         status = "success" /\ results = [i \in 1..call.ranks |-> CommRanks]

(* Where return codes are checked, a retrieval that went well leaves the row *)
(* of its rank in a storage that fits from then on.                          *)
Covers(n) == \A i \in 1..n : 0..(i - 1) \subseteq results[i]
Checked ==
  call.method = "execute_allreduce_data" =>
    /\ pc = "retrieve" =>
         /\ rank > 0 => Fits /\ 0..(rank - 1) \subseteq stored
         /\ Covers(rank)
    /\ status = "success" => Covers(call.ranks)

EngineInv == EngineTypeOK /\ Passes /\ Healthy /\ Checked

-----------------------------------------------------------------------------
LEMMA CallFacts ==
  ASSUME call \in Calls
  PROVE  /\ call.ranks \in Nat \ {0} /\ call.count \in Nat \ {0}
         /\ call.ranks * call.count \in Nat
         /\ 0 \in CommRanks /\ CommRanks = 0..(call.ranks - 1)
<1>1. call.ranks \in Sizes /\ (call.count \in Counts \/ call.count = 1)
  BY DEF Calls
<1>2. call.ranks \in Nat \ {0} /\ call.count \in Nat \ {0}
  <2>1. Sizes \subseteq Nat \ {0} /\ Counts \subseteq Nat \ {0}
    BY ParametersAssumption
  <2>2. 1 \in Nat \ {0}
    OBVIOUS
  <2>3. call.count \in Nat \ {0}
    BY <1>1, <2>1, <2>2, Zenon
  <2> QED
    BY <1>1, <2>1, <2>3, Zenon
<1>3. ASSUME NEW m \in Nat \ {0}, NEW n \in Nat \ {0} PROVE m * n \in Nat /\ 0 \in 0..(m - 1)
  OBVIOUS
<1> QED
  BY <1>2, <1>3 DEF CommRanks

LEMMA ServedFacts ==
  ASSUME EngineTypeOK
  PROVE  /\ rank \in Nat /\ rank < call.ranks /\ call.ranks \in Nat
         /\ ~Last(rank) => rank + 1 \in CommRanks
         /\ Last(rank) <=> rank + 1 = call.ranks
         /\ 0..rank \subseteq CommRanks
  BY CallFacts DEF EngineTypeOK, CommRanks, Last

LEMMA FittedFacts ==
  ASSUME EngineTypeOK
  PROVE  /\ Fitted \in [count : Nat, capacity : Nat] /\ Kept \subseteq stored
         /\ call.ranks * call.count <= Fitted.capacity /\ Fitted.count = call.count
         /\ Fits => Kept = stored
  BY CallFacts DEF EngineTypeOK, Fits, Fitted, Kept

(* Whatever a call of the kernel does, it keeps the types. *)
LEMMA KernelTypes ==
  ASSUME EngineTypeOK, Reduces \/ Refuses \/ RunsOut
  PROVE  /\ storage' \in [count : Nat, capacity : Nat]
         /\ stored' \subseteq CommRanks /\ recv' \subseteq CommRanks
         /\ failures' \in 0..MaxFailures
<1>1. failures \in Nat /\ failures <= MaxFailures /\ MaxFailures \in Nat
  BY ParametersAssumption DEF EngineTypeOK
<1>2. CASE Reduces
  <2>1. storage' = Fitted /\ stored' = Kept \cup {rank} /\ recv' = stored' /\ failures' = failures
    BY <1>2 DEF Reduces
  <2> QED
    BY <2>1, FittedFacts DEF EngineTypeOK
<1>3. CASE Refuses
  BY <1>3 DEF Refuses, comm, EngineTypeOK
<1>4. CASE RunsOut
  <2>1. failures' \in 0..MaxFailures
    BY <1>1, <1>4 DEF RunsOut
  <2> QED
    BY <1>4, <2>1, FittedFacts DEF RunsOut, EngineTypeOK
<1> QED
  BY <1>2, <1>3, <1>4

(* A reduction stores the rank's row beside all that were kept. *)
LEMMA ReducesFacts ==
  ASSUME EngineTypeOK, Reduces, UNCHANGED call
  PROVE  /\ Fits' /\ recv' = stored' /\ rank \in stored'
         /\ Fits => stored' = stored \cup {rank}
         /\ failures' = failures /\ ~Refused
<1>1. storage' = Fitted /\ stored' = Kept \cup {rank} /\ recv' = stored' /\ failures' = failures
  BY DEF Reduces
<1> QED
  BY <1>1, FittedFacts DEF Reduces, Fits

LEMMA SameCall ==
  ASSUME UNCHANGED call
  PROVE  /\ CommRanks' = CommRanks /\ (Refused' <=> Refused) /\ (NotSupported' <=> NotSupported)
  BY DEF CommRanks, Refused, NotSupported, PowerOfTwo

LEMMA FailureShows ==
  ASSUME EngineTypeOK, Refuses \/ RunsOut, UNCHANGED call PROVE ~Undisturbed'
<1>1. failures \in Nat
  BY ParametersAssumption DEF EngineTypeOK
<1>2. CASE Refuses
  BY <1>2, SameCall DEF Refuses, Undisturbed
<1>3. CASE RunsOut
  BY <1>1, <1>3 DEF RunsOut, Undisturbed
<1> QED
  BY <1>2, <1>3

-----------------------------------------------------------------------------
LEMMA EngineInitInv == EngineInit => EngineInv
<1> SUFFICES ASSUME EngineInit PROVE EngineInv
  OBVIOUS
<1>1. <<>> \in Seq(SUBSET CommRanks) /\ Len(<<>>) = 0
  BY EmptySeq
<1>2. 0 \in CommRanks /\ 0 \in Nat /\ 0 \in 0..MaxFailures
  BY CallFacts, ParametersAssumption DEF EngineInit
<1>3. EngineTypeOK
  BY <1>1, <1>2 DEF EngineInit, EngineTypeOK
<1>4. Passes /\ Healthy /\ Checked
  BY DEF EngineInit, Passes, Healthy, Checked
<1> QED
  BY <1>3, <1>4 DEF EngineInv

LEMMA CommInitInv == EngineInv /\ CommInit => EngineInv'
<1> SUFFICES ASSUME EngineInv, CommInit PROVE EngineInv'
  OBVIOUS
<1> USE DEF EngineInv
<1>1. /\ UNCHANGED <<call, rank, stored, recv, results, status, failures>>
      /\ pc' = "submit" /\ rank = 0 /\ stored = {}
  BY DEF CommInit, Passes
<1>2. storage' \in [count : Nat, capacity : Nat]
  BY CallFacts DEF CommInit, EngineTypeOK
<1>3. CommRanks' = CommRanks
  BY <1>1, SameCall
<1>4. EngineTypeOK'
  BY <1>1, <1>2, <1>3 DEF EngineTypeOK
<1>5. Passes'
  BY <1>1 DEF CommInit, Passes
<1>6. Healthy'
  <2>1. 0..(rank - 1) = {} /\ ~(rank > 0)
    BY <1>1
  <2> QED
    BY <1>1, <2>1 DEF Healthy
<1>7. Checked'
  BY <1>1 DEF Checked, CommInit, Passes
<1> QED
  BY <1>4, <1>5, <1>6, <1>7

LEMMA CommInitFailsInv == EngineInv /\ CommInitFails => EngineInv'
<1> SUFFICES ASSUME EngineInv, CommInitFails PROVE EngineInv'
  OBVIOUS
<1> USE DEF EngineInv
<1>1. /\ UNCHANGED <<call, rank, storage, stored, recv, results>>
      /\ pc' = "returned" /\ status' = "comm_init_failed"
      /\ failures' = failures + 1 /\ failures < MaxFailures
  BY DEF CommInitFails
<1>2. failures' \in 0..MaxFailures /\ failures' # 0
  BY <1>1, ParametersAssumption DEF EngineTypeOK
<1>3. CommRanks' = CommRanks
  BY <1>1, SameCall
<1>4. EngineTypeOK'
  BY <1>1, <1>2, <1>3 DEF EngineTypeOK
<1>5. Passes' /\ Healthy' /\ Checked'
  BY <1>1, <1>2 DEF Passes, Healthy, Undisturbed, Checked
<1> QED
  BY <1>4, <1>5

LEMMA SubmitInv == EngineInv /\ Submit => EngineInv'
<1> SUFFICES ASSUME EngineInv, Submit PROVE EngineInv'
  OBVIOUS
<1> USE DEF EngineInv
<1>1. /\ UNCHANGED <<call, results, status>> /\ results = <<>> /\ status = "none"
      /\ Reduces \/ Refuses \/ RunsOut
      /\ pc = "submit"
  BY DEF Submit, Passes
<1>2. /\ rank' \in CommRanks
      /\ ~Last(rank) => rank' = rank + 1 /\ pc' = "submit"
      /\ Last(rank) => rank' = 0 /\ pc' = "retrieve"
      /\ pc' \in {"submit", "retrieve"}
  BY ServedFacts, CallFacts DEF Submit, EngineTypeOK
<1>3. CommRanks' = CommRanks
  BY <1>1, SameCall
<1>4. EngineTypeOK'
  <2>1. pc' = "retrieve" => Len(results') = rank'
    BY <1>1, <1>2, EmptySeq
  <2> QED
    BY <1>1, <1>2, <1>3, <2>1, KernelTypes DEF EngineTypeOK
<1>5. Passes'
  BY <1>1, <1>2 DEF Passes
<1>6. Healthy'
  <2> SUFFICES ASSUME Undisturbed'
               PROVE  /\ pc' = "submit" => stored' = 0..(rank' - 1) /\ Fits'
                      /\ pc' = "retrieve" =>
                           stored' = CommRanks /\ Fits' /\ results' = [i \in 1..rank' |-> CommRanks]
    BY <1>2, <1>3 DEF Healthy
  <2>1. Reduces
    BY <1>1, FailureShows
  <2>2. failures = 0 /\ ~Refused /\ Fits' /\ (Fits => stored' = stored \cup {rank})
    BY <1>1, <2>1, ReducesFacts DEF Undisturbed
  <2>3. stored = 0..(rank - 1) /\ (rank > 0 => Fits)
    BY <1>1, <2>2 DEF Healthy, Undisturbed
  <2>4. stored' = 0..rank
    <3>1. CASE rank = 0
      <4>1. stored = {}
        BY <2>3, <3>1
      <4>2. stored' = {rank}
        BY <2>1, <4>1, FittedFacts DEF Reduces
      <4> QED
        BY <3>1, <4>2
    <3>2. CASE rank > 0
      <4>1. stored' = 0..(rank - 1) \cup {rank}
        BY <2>2, <2>3, <3>2
      <4> QED
        BY <4>1, ServedFacts
    <3> QED
      BY <3>1, <3>2, ServedFacts
  <2>5. CASE Last(rank)
    <3>1. 0..rank = CommRanks
      BY <2>5, ServedFacts, CallFacts DEF EngineTypeOK
    <3>2. results' = [i \in 1..rank' |-> CommRanks]
      BY <1>1, <1>2, <2>5
    <3> QED
      BY <1>2, <2>2, <2>4, <2>5, <3>1, <3>2
  <2>6. CASE ~Last(rank)
    <3>1. rank' - 1 = rank
      BY <1>2, <2>6, ServedFacts
    <3> QED
      BY <1>2, <2>2, <2>4, <2>6, <3>1
  <2> QED
    BY <2>5, <2>6
<1>7. Checked'
  <2>1. pc' = "retrieve" => rank' = 0
    BY <1>2
  <2> QED
    BY <1>1, <2>1 DEF Checked, Covers
<1> QED
  BY <1>4, <1>5, <1>6, <1>7

-----------------------------------------------------------------------------
(* One more result: those before it stay, and it is what the buffer holds. *)
LEMMA ResultAdded ==
  ASSUME EngineTypeOK, pc = "retrieve", recv' \subseteq CommRanks, results' = Append(results, recv')
  PROVE  /\ results' \in Seq(SUBSET CommRanks) /\ Len(results') = rank + 1
         /\ \A i \in 1..rank : results'[i] = results[i]
         /\ results'[rank + 1] = recv'
         /\ results' = [i \in 1..(rank + 1) |-> results'[i]]
<1>1. results \in Seq(SUBSET CommRanks) /\ Len(results) = rank /\ recv' \in SUBSET CommRanks
  BY DEF EngineTypeOK
<1>2. /\ results' \in Seq(SUBSET CommRanks) /\ Len(results') = rank + 1
      /\ \A i \in 1..rank : results'[i] = results[i]
      /\ results'[rank + 1] = recv'
  BY <1>1, AppendProperties
<1>3. results' = [i \in 1..(rank + 1) |-> results'[i]]
  BY <1>2, LenProperties
<1> QED
  BY <1>2, <1>3

LEMMA RetrieveInv == EngineInv /\ Retrieve => EngineInv'
<1> SUFFICES ASSUME EngineInv, Retrieve PROVE EngineInv'
  OBVIOUS
<1> USE DEF EngineInv
<1>1. /\ UNCHANGED call /\ pc = "retrieve" /\ status = "none"
      /\ Reduces \/ (~ChecksReturnCode /\ (Refuses \/ RunsOut))
      /\ results' = Append(results, recv')
  BY DEF Retrieve, Passes
<1>2. /\ rank' \in CommRanks
      /\ ~Last(rank) => rank' = rank + 1 /\ pc' = "retrieve" /\ status' = "none"
      /\ Last(rank) => rank' = 0 /\ pc' = "destroy" /\ status' = "success"
      /\ pc' \in {"retrieve", "destroy"}
  BY <1>1, ServedFacts, CallFacts DEF Retrieve, EngineTypeOK
<1>3. CommRanks' = CommRanks
  BY <1>1, SameCall
<1>4. /\ storage' \in [count : Nat, capacity : Nat]
      /\ stored' \subseteq CommRanks /\ recv' \subseteq CommRanks /\ failures' \in 0..MaxFailures
  BY <1>1, KernelTypes
<1>5. /\ results' \in Seq(SUBSET CommRanks) /\ Len(results') = rank + 1
      /\ \A i \in 1..rank : results'[i] = results[i]
      /\ results'[rank + 1] = recv'
      /\ results' = [i \in 1..(rank + 1) |-> results'[i]]
  BY <1>1, <1>4, ResultAdded
<1>6. EngineTypeOK'
  BY <1>1, <1>2, <1>3, <1>4, <1>5 DEF EngineTypeOK
<1>7. Passes'
  BY <1>1, <1>2, <1>5, ServedFacts DEF Passes
<1>8. Healthy'
  <2> SUFFICES ASSUME Undisturbed'
               PROVE  /\ pc' = "retrieve" =>
                           stored' = CommRanks /\ Fits' /\ results' = [i \in 1..rank' |-> CommRanks]
                      /\ pc' = "destroy" =>
                           status' = "success" /\ results' = [i \in 1..call.ranks |-> CommRanks]
    BY <1>1, <1>2, <1>3 DEF Healthy
  <2>1. Reduces
    BY <1>1, FailureShows
  <2>2. /\ failures = 0 /\ ~Refused /\ Fits' /\ (Fits => stored' = stored \cup {rank})
        /\ recv' = stored'
    BY <1>1, <2>1, ReducesFacts DEF Undisturbed
  <2>3. stored = CommRanks /\ Fits /\ results = [i \in 1..rank |-> CommRanks]
    BY <1>1, <2>2 DEF Healthy, Undisturbed
  <2>4. stored' = CommRanks /\ recv' = CommRanks
    BY <2>2, <2>3 DEF EngineTypeOK
  <2>5. \A i \in 1..(rank + 1) : results'[i] = CommRanks
    <3>1. ASSUME NEW i \in 1..rank PROVE results'[i] = CommRanks
      BY <1>5, <2>3
    <3> QED
      BY <1>5, <2>4, <3>1, ServedFacts
  <2>6. results' = [i \in 1..(rank + 1) |-> CommRanks]
    BY <1>5, <2>5
  <2> QED
    BY <1>2, <2>2, <2>4, <2>6, ServedFacts
<1>9. Checked'
  <2> SUFFICES ASSUME call.method = "execute_allreduce_data"
               PROVE  /\ Fits' /\ 0..rank \subseteq stored'
                      /\ \A i \in 1..(rank + 1) : 0..(i - 1) \subseteq results'[i]
    <3>1. CASE Last(rank)
      BY <1>1, <1>2, <3>1, ServedFacts DEF Checked, Covers
    <3>2. CASE ~Last(rank)
      <4>1. /\ rank' = rank + 1 /\ rank' - 1 = rank
            /\ pc' = "retrieve" /\ status' # "success" /\ call' = call
        BY <1>1, <1>2, <3>2, ServedFacts
      <4>2. Fits' /\ 0..rank \subseteq stored' =>
              (rank' > 0 => Fits' /\ 0..(rank' - 1) \subseteq stored')
        BY <4>1
      <4>3. (\A i \in 1..(rank + 1) : 0..(i - 1) \subseteq results'[i]) => Covers(rank)'
        BY <4>1 DEF Covers
      <4> QED
        BY <4>1, <4>2, <4>3 DEF Checked
    <3> QED
      BY <3>1, <3>2
  <2>1. Reduces
    BY <1>1 DEF ChecksReturnCode
  <2>2. /\ Fits' /\ recv' = stored' /\ rank \in stored'
        /\ (Fits => stored' = stored \cup {rank})
    BY <1>1, <2>1, ReducesFacts
  <2>3. (rank > 0 => Fits /\ 0..(rank - 1) \subseteq stored) /\ Covers(rank)
    BY <1>1 DEF Checked
  <2>4. 0..rank \subseteq stored'
    <3>1. CASE rank = 0
      BY <2>2, <3>1
    <3>2. CASE rank > 0
      BY <2>2, <2>3, <3>2, ServedFacts
    <3> QED
      BY <3>1, <3>2, ServedFacts
  <2>5. ASSUME NEW i \in 1..(rank + 1) PROVE 0..(i - 1) \subseteq results'[i]
    <3>1. CASE i \in 1..rank
      BY <1>5, <2>3, <3>1 DEF Covers
    <3>2. CASE i = rank + 1
      <4>1. i - 1 = rank
        BY <3>2, ServedFacts
      <4> QED
        BY <1>5, <2>2, <2>4, <3>2, <4>1
    <3> QED
      BY <3>1, <3>2, ServedFacts
  <2> QED
    BY <2>2, <2>4, <2>5
<1> QED
  BY <1>6, <1>7, <1>8, <1>9

LEMMA RetrieveFailsInv == EngineInv /\ RetrieveFails => EngineInv'
<1> SUFFICES ASSUME EngineInv, RetrieveFails PROVE EngineInv'
  OBVIOUS
<1> USE DEF EngineInv
<1>1. /\ UNCHANGED <<call, rank>> /\ pc' = "destroy" /\ results' = <<>>
      /\ status' \in {"not_supported", "error"}
      /\ Refuses \/ RunsOut
  BY DEF RetrieveFails
<1>2. CommRanks' = CommRanks /\ <<>> \in Seq(SUBSET CommRanks)
  BY <1>1, SameCall, EmptySeq
<1>3. EngineTypeOK'
  BY <1>1, <1>2, KernelTypes DEF EngineTypeOK
<1>4. Passes' /\ Checked'
  BY <1>1 DEF Passes, Checked
<1>5. Healthy'
  BY <1>1, FailureShows DEF Healthy
<1> QED
  BY <1>3, <1>4, <1>5

LEMMA CommDestroyInv == EngineInv /\ CommDestroy => EngineInv'
<1> SUFFICES ASSUME EngineInv, CommDestroy PROVE EngineInv'
  OBVIOUS
<1> USE DEF EngineInv
<1>1. /\ UNCHANGED <<call, rank, recv, results, status, failures>>
      /\ pc = "destroy" /\ pc' = "returned" /\ stored' = {}
      /\ storage' \in [count : Nat, capacity : Nat]
  BY DEF CommDestroy
<1>2. CommRanks' = CommRanks /\ (Refused' <=> Refused)
  BY <1>1, SameCall
<1>3. EngineTypeOK'
  BY <1>1, <1>2 DEF EngineTypeOK
<1>4. Passes' /\ Healthy' /\ Checked'
  BY <1>1, <1>2 DEF Passes, Healthy, Undisturbed, Checked, Covers
<1> QED
  BY <1>3, <1>4

LEMMA EngineStutterInv == EngineInv /\ UNCHANGED engineVars => EngineInv'
<1> SUFFICES ASSUME EngineInv, UNCHANGED engineVars PROVE EngineInv'
  OBVIOUS
<1>1. /\ UNCHANGED <<call, pc, rank, storage, stored, recv, results, status, failures>>
      /\ CommRanks' = CommRanks /\ (Refused' <=> Refused)
  BY SameCall DEF engineVars, comm
<1> QED
  BY <1>1 DEF EngineInv, EngineTypeOK, Passes, Healthy, Undisturbed, Fits, Checked, Covers

LEMMA EngineNextInv == EngineInv /\ [EngineNext]_engineVars => EngineInv'
  BY CommInitInv, CommInitFailsInv, SubmitInv, RetrieveInv, RetrieveFailsInv,
     CommDestroyInv, EngineStutterInv DEF EngineNext

(* The inductive invariant holds in every behaviour. *)
THEOREM EngineInvariance == EngineSpec => []EngineInv
  BY EngineInitInv, EngineNextInv, PTL DEF EngineSpec

(* The engine and the communicator keep their types: every buffer only ever *)
(* holds inputs of ranks that exist, and each rank served has one result.   *)
THEOREM EngineTypeCorrectness == EngineSpec => []EngineTypeOK
<1>1. EngineInv => EngineTypeOK
  BY DEF EngineInv
<1> QED
  BY <1>1, EngineInvariance, PTL

(* While memory lasts, a supported AllReduce gives every rank the reduction *)
(* of all the inputs, for any number of ranks and elements.                 *)
THEOREM ReducesWhenHealthy == EngineSpec => []ReducedWhenHealthy
<1>1. EngineInv => ReducedWhenHealthy
  BY DEF EngineInv, Healthy, Undisturbed, ReducedWhenHealthy
<1> QED
  BY <1>1, EngineInvariance, PTL

(* execute_allreduce_data reports success only with results that hold the    *)
(* inputs of the rank and of every rank before it, whichever calls failed.   *)
THEOREM SuccessIsCovered == EngineSpec => []SuccessCoversPredecessors
<1>1. EngineInv => SuccessCoversPredecessors
  BY DEF EngineInv, Checked, Covers, SuccessCoversPredecessors
<1> QED
  BY <1>1, EngineInvariance, PTL

-----------------------------------------------------------------------------
(***************************************************************************)
(* The schedules.                                                          *)
(***************************************************************************)

(* The job is one that a generator accepts. *)
Generated == job \in Jobs /\ order \in Orders

(* The phase under way and how far its transfers are: unsent, under way or  *)
(* over, each once.                                                         *)
Open == phase < PhaseCount
Now == IF Open THEN Phase(phase) ELSE {}
Pending(t) == t \in unsent \/ \E m \in inFlight : m.transfer = t
Book ==
  /\ unsent \subseteq Now
  /\ \A m \in inFlight : m.transfer \in Now /\ m.transfer \notin unsent
  /\ \A m, l \in inFlight : m.transfer = l.transfer => m = l

(* What a rank has at least after i phases, of each algorithm but Ring. *)
ButterflyReached(q, r, i) == q \div Bit[i] = r \div Bit[i]
NhrReached(q, r, i) ==
  \E j, k \in Ranks : q = order[j] /\ r = order[k] /\ ((k - j) % job.ranks) <= i
HierarchicalReached(q, r, i) ==
  \/ q = r
  \/ i \in 1..2 /\ Leader(q) = r
  \/ i = 2 /\ NextLeader(Leader(q)) = r
  \/ i = 3 /\ (Leader(q) = Leader(r) \/ NextLeader(Leader(q)) = Leader(r))
MeshReached(q, r, i) == q = r \/ (((r - q) % job.ranks) - 1) \div Fanout < i
Reached(r, i) ==
  {q \in Ranks :
    \/ job.algorithm = "Butterfly" /\ ButterflyReached(q, r, i)
    \/ job.algorithm = "NHR" /\ NhrReached(q, r, i)
    \/ job.algorithm = "Hierarchical" /\ HierarchicalReached(q, r, i)
    \/ job.algorithm = "Mesh" /\ MeshReached(q, r, i)}

(* Every rank holds what it must have by now, a message what its sender had *)
(* to, and the receiver of a transfer that is over what that one brought.   *)
Base(r) == Reached(r, phase)
Holds(content, r) == \A q \in Base(r) : content[q] > 0
Covered ==
  job.algorithm # "Ring" =>
    /\ \A r \in Ranks : Holds(held[r][0], r)
    /\ \A m \in inFlight : Holds(m.content, m.transfer.source)
    /\ \A t \in Now : Pending(t) \/ Holds(held[t.destination][0], t.source)

(* Hierarchical: until its leader's copy comes, a rank that leads no group  *)
(* has nothing that its leader has not.                                     *)
MembersLag ==
  job.algorithm = "Hierarchical" =>
    /\ phase <= 1 => \A r \in Members, q \in Ranks : held[r][0][q] > 0 => q = r
    /\ phase = 2 =>
         /\ \A r \in Members, q \in Ranks : held[r][0][q] > 0 => held[Leader(r)][0][q] > 0
         /\ \A m \in inFlight : m.content = held[m.transfer.source][0]

(* Ring: how far a rank is behind a chunk's own when reducing and after it   *)
(* when gathering; what a chunk holds of the ranks up to r, and when whole.  *)
Behind(r, c) == (r - c - 1) % job.ranks
After(r, c) == (r - c) % job.ranks
UpTo(r, c) == [q \in Ranks |-> IF Behind(q, c) <= Behind(r, c) THEN 1 ELSE 0]
Whole(c) == [q \in Ranks |-> IF job.primitive = "AllGather" /\ q # c THEN 0 ELSE 1]
(* No transfer of the phase to this chunk is still to come. *)
Came(r, c) == \A t \in Now : t.destination = r /\ t.chunk = c => ~Pending(t)
(* The exact content of every chunk, its turn come or not. *)
Reducing ==
  phase < ReducePhases =>
    \A r \in Ranks, c \in Ranks :
      held[r][c] =
        IF \/ Behind(r, c) <= phase
           \/ Behind(r, c) = phase + 1 /\ Came(r, c)
        THEN UpTo(r, c) ELSE Own(r)
Gathering ==
  phase >= ReducePhases =>
    \A r \in Ranks, c \in Ranks :
      IF \/ After(r, c) <= phase - ReducePhases
         \/ Open /\ After(r, c) = phase + 1 - ReducePhases /\ Came(r, c)
      THEN held[r][c] = Whole(c)
      ELSE job.primitive = "AllGather" => held[r][c] = Nothing
RingInv ==
  job.algorithm = "Ring" =>
    /\ \A m \in inFlight : m.content = held[m.transfer.source][m.transfer.chunk]
    /\ Reducing /\ Gathering

IInv == TypeOK /\ Generated /\ Book /\ Covered /\ MembersLag /\ RingInv

-----------------------------------------------------------------------------
LEMMA LeastElement ==
  ASSUME NEW T, T \subseteq Nat, T # {}
  PROVE  \E m \in T : \A k \in T : m <= k
<1> DEFINE R == OpToRel(<, Nat)
<1>1. IsWellFoundedOn(R, Nat)
  BY NatLessThanWellFounded
<1>2. \A x, y \in Nat : x < y => <<x, y>> \in R
  BY DEF OpToRel
<1> HIDE DEF R
<1>3. PICK m \in T : \A y \in T : ~(<<y, m>> \in R)
  BY <1>1, WFMin
<1>4. \A k \in T : k \in Nat /\ ~(k < m) /\ m \in Nat
  BY <1>2, <1>3
<1> QED
  BY <1>4

LEMMA Induction ==
  ASSUME NEW n \in Nat, NEW T, 0 \in T, \A k \in 0..(n - 1) : k \in T => k + 1 \in T
  PROVE  \A k \in 0..n : k \in T
<1> DEFINE F == {k \in 0..n : k \notin T}
<1> SUFFICES ASSUME F # {} PROVE FALSE
  OBVIOUS
<1>1. F \subseteq Nat
  OBVIOUS
<1>2. PICK m \in F : \A k \in F : m <= k
  BY <1>1, LeastElement
<1>3. m # 0 /\ m - 1 \in 0..(n - 1)
  BY <1>2
<1>4. m - 1 \in T
  BY <1>2, <1>3
<1> QED
  BY <1>2, <1>3, <1>4


(* The first n + 1 powers. *)
Powers(f, n) == f = [k \in 0..n |-> IF k = 0 THEN 1 ELSE 2 * f[k - 1]]

LEMMA PowerFacts ==
  ASSUME NEW n \in Nat, NEW f, Powers(f, n)
  PROVE  f[0] = 1 /\ \A k \in 0..(n - 1) : f[k + 1] = 2 * f[k]
<1>1. \A k \in 0..n : f[k] = IF k = 0 THEN 1 ELSE 2 * f[k - 1]
  BY DEF Powers
<1>2. ASSUME NEW k \in 0..(n - 1) PROVE f[k + 1] = 2 * f[k]
  <2>1. k + 1 \in 0..n /\ k + 1 # 0 /\ (k + 1) - 1 = k
    OBVIOUS
  <2> QED
    BY <1>1, <2>1
<1> QED
  BY <1>1, <1>2

LEMMA PowersExtend ==
  ASSUME NEW n \in Nat, NEW f, Powers(f, n) PROVE \E g : Powers(g, n + 1)
<1> DEFINE g == [k \in 0..(n + 1) |-> IF k = n + 1 THEN 2 * f[n] ELSE f[k]]
<1>1. /\ \A k \in 0..(n + 1) : g[k] = IF k = n + 1 THEN 2 * f[n] ELSE f[k]
      /\ g = [k \in 0..(n + 1) |-> g[k]]
  OBVIOUS
<1> HIDE DEF g
<1>2. f[0] = 1 /\ \A k \in 0..(n - 1) : f[k + 1] = 2 * f[k]
  BY PowerFacts
<1>3. \A k \in 0..(n + 1) : g[k] = IF k = 0 THEN 1 ELSE 2 * g[k - 1]
  <2> TAKE k \in 0..(n + 1)
  <2>1. CASE k = 0
    <3>1. k # n + 1
      BY <2>1
    <3> QED
      BY <1>1, <1>2, <2>1, <3>1
  <2>2. CASE k \in 1..n
    <3>1. /\ k - 1 \in 0..(n + 1) /\ k - 1 # n + 1 /\ k # n + 1 /\ k # 0
          /\ k - 1 \in 0..(n - 1) /\ (k - 1) + 1 = k
      BY <2>2
    <3>2. g[k] = f[k] /\ g[k - 1] = f[k - 1]
      BY <1>1, <3>1
    <3>3. f[(k - 1) + 1] = 2 * f[k - 1]
      BY <1>2, <3>1
    <3> QED
      BY <3>1, <3>2, <3>3
  <2>3. CASE k = n + 1
    <3>1. k # 0 /\ k - 1 = n /\ n \in 0..(n + 1) /\ n # n + 1
      BY <2>3
    <3> QED
      BY <1>1, <2>3, <3>1
  <2> QED
    BY <2>1, <2>2, <2>3
<1>4. g = [k \in 0..(n + 1) |-> IF k = 0 THEN 1 ELSE 2 * g[k - 1]]
  BY <1>1, <1>3
<1> QED
  BY <1>4 DEF Powers

LEMMA PowersExist == ASSUME NEW n \in Nat PROVE \E f : Powers(f, n)
<1> DEFINE T == {m \in Nat : \E f : Powers(f, m)}
<1>1. 0 \in T
  <2> DEFINE f == [k \in 0..0 |-> 1]
  <2>1. f = [k \in 0..0 |-> IF k = 0 THEN 1 ELSE 2 * f[k - 1]]
    OBVIOUS
  <2> HIDE DEF f
  <2> QED
    BY <2>1 DEF Powers
<1>2. \A k \in 0..(n - 1) : k \in T => k + 1 \in T
  BY PowersExtend
<1> HIDE DEF T
<1>3. n \in T
  BY <1>1, <1>2, Induction
<1> QED
  BY <1>3 DEF T

LEMMA PowersAgree ==
  ASSUME NEW n \in Nat, NEW m \in Nat, n <= m,
         NEW f, NEW g, Powers(f, n), Powers(g, m)
  PROVE  \A k \in 0..n : f[k] = g[k]
<1> DEFINE T == {k \in 0..n : f[k] = g[k]}
<1>1. /\ f[0] = 1 /\ \A k \in 0..(n - 1) : f[k + 1] = 2 * f[k]
      /\ g[0] = 1 /\ \A k \in 0..(m - 1) : g[k + 1] = 2 * g[k]
  BY PowerFacts
<1>2. 0 \in T /\ \A k \in 0..(n - 1) : k \in T => k + 1 \in T
  BY <1>1
<1> HIDE DEF T
<1>3. \A k \in 0..n : k \in T
  BY <1>2, Induction
<1> QED
  BY <1>3 DEF T

LEMMA BitDefined == Bit = [k \in Nat |-> IF k = 0 THEN 1 ELSE 2 * Bit[k - 1]]
<1> DEFINE P(n) == CHOOSE f : Powers(f, n)
           h == [k \in Nat |-> P(k)[k]]
<1>1. ASSUME NEW n \in Nat PROVE Powers(P(n), n)
  BY PowersExist
<1>2. h = [k \in Nat |-> h[k]] /\ \A k \in Nat : h[k] = P(k)[k]
  OBVIOUS
<1> HIDE DEF P, h
<1>3. ASSUME NEW k \in Nat PROVE h[k] = IF k = 0 THEN 1 ELSE 2 * h[k - 1]
  <2>1. Powers(P(k), k)
    BY <1>1
  <2>2. CASE k = 0
    BY <1>2, <2>1, <2>2, PowerFacts
  <2>3. CASE k # 0
    <3>1. k - 1 \in Nat /\ k - 1 <= k /\ k - 1 \in 0..(k - 1) /\ (k - 1) + 1 = k
      BY <2>3
    <3>2. Powers(P(k - 1), k - 1)
      BY <1>1, <3>1
    <3>3. P(k - 1)[k - 1] = P(k)[k - 1]
      BY <2>1, <3>1, <3>2, PowersAgree
    <3>4. P(k)[(k - 1) + 1] = 2 * P(k)[k - 1]
      BY <2>1, <3>1, PowerFacts
    <3> QED
      BY <1>2, <2>3, <3>1, <3>3, <3>4
  <2> QED
    BY <2>2, <2>3
<1>4. h = [k \in Nat |-> IF k = 0 THEN 1 ELSE 2 * h[k - 1]]
  BY <1>2, <1>3
<1> QED
  BY <1>4 DEF Bit

LEMMA BitFacts ==
  /\ Bit[0] = 1
  /\ \A k \in Nat : Bit[k] \in Nat \ {0} /\ Bit[k + 1] = 2 * Bit[k]
<1>1. \A k \in Nat : Bit[k] = IF k = 0 THEN 1 ELSE 2 * Bit[k - 1]
  BY BitDefined
<1>2. \A k \in Nat : Bit[k + 1] = 2 * Bit[k]
  <2> TAKE k \in Nat
  <2>1. k + 1 \in Nat /\ k + 1 # 0 /\ (k + 1) - 1 = k
    OBVIOUS
  <2> QED
    BY <1>1, <2>1
<1>3. ASSUME NEW n \in Nat PROVE Bit[n] \in Nat \ {0}
  <2> DEFINE T == {k \in Nat : Bit[k] \in Nat \ {0}}
  <2>1. 0 \in T /\ \A k \in 0..(n - 1) : k \in T => k + 1 \in T
    BY <1>1, <1>2
  <2> HIDE DEF T
  <2>2. n \in T
    BY <2>1, Induction
  <2> QED
    BY <2>2 DEF T
<1> QED
  BY <1>1, <1>2, <1>3

LEMMA BitDivides ==
  ASSUME NEW i \in Nat, NEW k \in Nat, i < k
  PROVE  \E m \in Nat : Bit[k] = Bit[i] * (2 * m)
<1> DEFINE T == {d \in Nat : \E m \in Nat : Bit[i + 1 + d] = Bit[i] * (2 * m)}
<1>1. 0 \in T
  <2>1. Bit[i + 1 + 0] = Bit[i] * (2 * 1)
    BY BitFacts
  <2> QED
    BY <2>1
<1>2. ASSUME NEW d \in Nat, d \in T PROVE d + 1 \in T
  <2>1. PICK m \in Nat : Bit[i + 1 + d] = Bit[i] * (2 * m)
    BY <1>2
  <2>2. Bit[i + 1 + (d + 1)] = 2 * Bit[i + 1 + d]
    <3>1. i + 1 + d \in Nat /\ i + 1 + (d + 1) = (i + 1 + d) + 1
      OBVIOUS
    <3> QED
      BY <3>1, BitFacts
  <2>3. Bit[i] \in Nat
    BY BitFacts
  <2>4. 2 * (Bit[i] * (2 * m)) = Bit[i] * (2 * (2 * m)) /\ 2 * m \in Nat
    BY <2>3
  <2> QED
    BY <2>1, <2>2, <2>4
<1>3. k - i - 1 \in Nat /\ i + 1 + (k - i - 1) = k
  OBVIOUS
<1> HIDE DEF T
<1>4. k - i - 1 \in T
  BY <1>1, <1>2, <1>3, Induction
<1> QED
  BY <1>3, <1>4 DEF T

-----------------------------------------------------------------------------
(***************************************************************************)
(* The jobs and the sizes of their phases.                                 *)
(***************************************************************************)

LEMMA JobFacts ==
  ASSUME Generated
  PROVE  /\ job.ranks \in Nat /\ job.ranks >= 2
         /\ job.algorithm \in {"Ring", "Butterfly", "NHR", "Hierarchical", "Mesh"}
         /\ job.primitive \in {"AllReduce", "AllGather", "ReduceScatter"}
         /\ job.algorithm # "Ring" => job.primitive \in {"AllReduce", "ReduceScatter"}
         /\ job.algorithm \in {"Butterfly", "NHR", "Hierarchical"} =>
              job.primitive = "AllReduce"
         /\ job.algorithm = "Butterfly" => \E k \in 0..job.ranks : job.ranks = Bit[k]
         /\ job.algorithm = "Hierarchical" =>
              job.ranks \in HierarchicalSizes /\ job.ranks > GroupSize
         /\ GroupSize \in Nat \ {0} /\ Fanout \in Nat \ {0}
  BY SizesAssumption DEF Generated, Jobs

LEMMA RankFacts ==
  ASSUME Generated
  PROVE  /\ 0 \in Ranks /\ Ranks \subseteq Nat
         /\ \A r \in Ranks : r < job.ranks
         /\ \A r \in Nat : r < job.ranks => r \in Ranks
         /\ job.algorithm # "Ring" => Chunks = {0}
         /\ job.algorithm = "Ring" => Chunks = Ranks
         /\ 0 \in Chunks
  BY JobFacts DEF Ranks, Chunks

LEMMA CountFacts ==
  ASSUME Generated
  PROVE  /\ PhaseCount \in Nat \ {0}
         /\ ReducePhases \in Nat /\ GatherPhases \in Nat
         /\ job.algorithm = "Ring" => PhaseCount = ReducePhases + GatherPhases
         /\ job.algorithm = "Butterfly" => Bit[PhaseCount] = job.ranks
         /\ job.algorithm = "NHR" => PhaseCount = 2 * (job.ranks - 1)
         /\ job.algorithm = "Hierarchical" => PhaseCount = 3
         /\ job.algorithm = "Mesh" => PhaseCount = (job.ranks - 2) \div Fanout + 1
<1>1. ReducePhases \in Nat /\ GatherPhases \in Nat /\ ReducePhases + GatherPhases # 0
  BY JobFacts DEF ReducePhases, GatherPhases, Turn
<1>2. CASE job.algorithm = "Ring"
  BY <1>1, <1>2 DEF PhaseCount
<1>3. CASE job.algorithm = "Butterfly"
  <2>1. PICK k \in 0..job.ranks : job.ranks = Bit[k]
    BY <1>3, JobFacts
  <2>2. Log2(job.ranks) \in 0..job.ranks /\ Bit[Log2(job.ranks)] = job.ranks
    BY <2>1 DEF Log2
  <2>3. Log2(job.ranks) # 0
    BY <2>2, JobFacts, BitFacts
  <2> QED
    BY <1>1, <1>3, <2>2, <2>3, JobFacts DEF PhaseCount
<1>4. CASE job.algorithm = "NHR"
  BY <1>1, <1>4, JobFacts DEF PhaseCount
<1>5. CASE job.algorithm = "Hierarchical"
  BY <1>1, <1>5 DEF PhaseCount
<1>6. CASE job.algorithm = "Mesh"
  <2>1. (job.ranks - 2) \div Fanout \in Nat
    BY JobFacts
  <2> QED
    BY <1>1, <1>6, <2>1 DEF PhaseCount
<1> QED
  BY <1>2, <1>3, <1>4, <1>5, <1>6, JobFacts

LEMMA PhaseFacts ==
  /\ job.algorithm = "Ring" => \A i : Phase(i) = RingPhase(i)
  /\ job.algorithm = "Butterfly" => \A i : Phase(i) = ButterflyPhase(i)
  /\ job.algorithm = "NHR" => \A i : Phase(i) = NhrPhase(i)
  /\ job.algorithm = "Hierarchical" => \A i : Phase(i) = HierarchicalPhase(i)
  /\ job.algorithm = "Mesh" => \A i : Phase(i) = MeshPhase(i)
  BY DEF Phase

LEMMA TransferFacts ==
  ASSUME NEW s, NEW d, NEW c, NEW op
  PROVE  /\ Transfer(s, d, c, op).source = s /\ Transfer(s, d, c, op).destination = d
         /\ Transfer(s, d, c, op).chunk = c /\ Transfer(s, d, c, op).op = op
  BY DEF Transfer

(* What a phase must be for the execution to go well: the transfers are    *)
(* between different ranks, ...                                            *)
Proper(i) == \A t \in Phase(i) : t \in Transfers /\ t.source # t.destination
(* ... they bring what the next phase builds on, ... *)
Brings(i) ==
  \A r \in Ranks, q \in Ranks :
    q \in Reached(r, i + 1) =>
      q \in Reached(r, i) \/ \E t \in Phase(i) : t.destination = r /\ q \in Reached(t.source, i)
(* ... and no copy destroys what another transfer brings. *)
Keeps(i) ==
  \A t \in Phase(i) : t.op = "COPY" =>
    /\ Reached(t.destination, i) \subseteq Reached(t.source, i)
    /\ \A u \in Phase(i) : u.destination = t.destination =>
         Reached(u.source, i) \subseteq Reached(t.source, i)

-----------------------------------------------------------------------------
(***************************************************************************)
(* Butterfly.                                                              *)
(***************************************************************************)
LEMMA PartnerFacts ==
  ASSUME Generated, job.algorithm = "Butterfly",
         NEW i \in 0..(PhaseCount - 1), NEW r \in Ranks
  PROVE  /\ Partner(r, i) \in Ranks /\ Partner(r, i) # r
         /\ Partner(Partner(r, i), i) = r
         /\ \A q \in Ranks : q \div Bit[i + 1] = r \div Bit[i + 1] =>
              q \div Bit[i] = r \div Bit[i] \/ q \div Bit[i] = Partner(r, i) \div Bit[i]
<1>1. /\ i \in Nat /\ PhaseCount \in Nat /\ i < PhaseCount
      /\ r \in Nat /\ r < job.ranks /\ job.ranks \in Nat
  BY CountFacts, RankFacts, JobFacts
<1>2. PICK p \in Nat \ {0} : p = Bit[i] /\ Bit[i + 1] = 2 * p
  BY <1>1, BitFacts
<1>3. PICK m \in Nat : job.ranks = p * (2 * m)
  BY <1>1, <1>2, BitDivides, CountFacts
<1>4. PICK b \in Nat, s \in 0..(p - 1) : r = p * b + s /\ r \div p = b
  <2>1. r \div p \in Nat /\ r % p \in 0..(p - 1) /\ r = p * (r \div p) + (r % p)
    BY <1>1
  <2> QED
    BY <2>1
<1>5. b < 2 * m
  <2>1. p * b + s < p * (2 * m) /\ 2 * m \in Nat
    BY <1>1, <1>3, <1>4
  <2> QED
    BY <2>1
<1>6. ASSUME NEW q \in Nat, q \div (2 * p) = r \div (2 * p)
      PROVE  (q \div p) \div 2 = b \div 2 /\ q \div p \in Nat
  <2>1. q \div (2 * p) = (q \div p) \div 2 /\ r \div (2 * p) = (r \div p) \div 2
        /\ q \div p \in Nat
    BY <1>1
  <2> QED
    BY <1>4, <1>6, <2>1
<1>7. CASE b % 2 = 0
  <2>1. Partner(r, i) = r + p
    BY <1>2, <1>4, <1>7 DEF Partner
  <2>2. (r + p) \div p = b + 1
    BY <1>1, <1>4
  <2>3. r + p < job.ranks
    <3>1. b + 2 <= 2 * m
      BY <1>5, <1>7
    <3>2. p * b + 2 * p <= p * (2 * m)
      BY <3>1
    <3> QED
      BY <1>3, <1>4, <3>2
  <2>4. (b + 1) % 2 = 1 /\ (b + 1) \div 2 = b \div 2
    BY <1>7
  <2>5. Partner(r + p, i) = r
    <3>1. (b + 1) % 2 # 0
      BY <2>4
    <3>2. ((r + p) \div Bit[i]) % 2 # 0
      BY <1>2, <2>2, <3>1
    <3>3. Partner(r + p, i) = (r + p) - p
      BY <1>2, <3>2 DEF Partner
    <3> QED
      BY <1>1, <3>3
  <2>6. ASSUME NEW q \in Ranks, q \div Bit[i + 1] = r \div Bit[i + 1]
        PROVE  q \div p = b \/ q \div p = b + 1
    <3>1. (q \div p) \div 2 = b \div 2 /\ q \div p \in Nat
      BY <1>2, <1>6, <2>6, RankFacts
    <3> QED
      BY <1>7, <3>1
  <2> QED
    BY <1>1, <1>2, <1>4, <2>1, <2>2, <2>3, <2>5, <2>6, RankFacts
<1>8. CASE b % 2 = 1
  <2>1. Partner(r, i) = r - p
    <3>1. b % 2 # 0
      BY <1>8
    <3>2. (r \div Bit[i]) % 2 # 0
      BY <1>2, <1>4, <3>1
    <3> QED
      BY <1>2, <3>2 DEF Partner
  <2>2. r - p \in Nat /\ (r - p) \div p = b - 1
    <3>1. (r \div p) % 2 = 1
      BY <1>4, <1>8
    <3>2. r >= p /\ (r - p) \div p = (r \div p) - 1
      BY <1>1, <3>1
    <3> QED
      BY <1>1, <1>4, <3>2
  <2>3. (b - 1) % 2 = 0 /\ (b - 1) \div 2 = b \div 2
    BY <1>8
  <2>4. Partner(r - p, i) = (r - p) + p
    <3>1. ((r - p) \div Bit[i]) % 2 = 0
      BY <1>2, <2>2, <2>3
    <3> QED
      BY <1>2, <3>1 DEF Partner
  <2>5. ASSUME NEW q \in Ranks, q \div Bit[i + 1] = r \div Bit[i + 1]
        PROVE  q \div p = b \/ q \div p = b - 1
    <3>1. (q \div p) \div 2 = b \div 2 /\ q \div p \in Nat
      BY <1>2, <1>6, <2>5, RankFacts
    <3> QED
      BY <1>8, <3>1
  <2>6. r - p < job.ranks /\ r - p # r /\ (r - p) + p = r
    BY <1>1, <2>2
  <2> QED
    BY <1>1, <1>2, <1>4, <2>1, <2>2, <2>4, <2>5, <2>6, RankFacts
<1> QED
  BY <1>7, <1>8
LEMMA ButterflyPhases ==
  ASSUME Generated, job.algorithm = "Butterfly", NEW i \in 0..(PhaseCount - 1)
  PROVE  Proper(i) /\ Brings(i) /\ Keeps(i)
<1> DEFINE T(r) == Transfer(r, Partner(r, i), 0, "REDUCE")
<1>1. Phase(i) = {T(r) : r \in Ranks}
  BY PhaseFacts DEF ButterflyPhase
<1>2. ASSUME NEW r \in Ranks
      PROVE  /\ T(r) \in Transfers /\ T(r).source # T(r).destination
             /\ T(r).source = r /\ T(r).destination = Partner(r, i) /\ T(r).op = "REDUCE"
  BY PartnerFacts, RankFacts DEF Transfer, Transfers
<1> HIDE DEF T
<1>3. Proper(i)
  BY <1>1, <1>2 DEF Proper
<1>4. Keeps(i)
  BY <1>1, <1>2 DEF Keeps
<1>5. ASSUME NEW r \in Ranks, NEW q \in Ranks, q \in Reached(r, i + 1)
      PROVE  \/ q \in Reached(r, i)
             \/ \E t \in Phase(i) : t.destination = r /\ q \in Reached(t.source, i)
  <2>1. q \div Bit[i + 1] = r \div Bit[i + 1]
    BY <1>5 DEF Reached, ButterflyReached
  <2>2. /\ Partner(r, i) \in Ranks /\ Partner(Partner(r, i), i) = r
        /\ q \div Bit[i] = r \div Bit[i] \/ q \div Bit[i] = Partner(r, i) \div Bit[i]
    BY <2>1, PartnerFacts
  <2>3. q \in Reached(r, i) \/ q \in Reached(Partner(r, i), i)
    BY <2>2 DEF Reached, ButterflyReached
  <2>4. T(Partner(r, i)) \in Phase(i) /\ T(Partner(r, i)).destination = r
        /\ T(Partner(r, i)).source = Partner(r, i)
    BY <1>1, <1>2, <2>2
  <2> QED
    BY <2>3, <2>4
<1> QED
  BY <1>3, <1>4, <1>5 DEF Brings

-----------------------------------------------------------------------------
(***************************************************************************)
(* NHR.                                                                    *)
(***************************************************************************)
LEMMA OrderFacts ==
  ASSUME Generated, job.algorithm = "NHR"
  PROVE  /\ order \in [Ranks -> Ranks]
         /\ \A j, k \in Ranks : order[j] = order[k] => j = k
         /\ \A r \in Ranks : \E k \in Ranks : order[k] = r
<1>1. /\ order \in [Ranks -> Ranks]
      /\ \A j, k \in Ranks : order[j] = order[k] => j = k
  BY DEF Generated, Orders
<1>2. order \in Injection(Ranks, Ranks)
  BY <1>1 DEF Injection, IsInjective
<1>3. IsFiniteSet(Ranks)
  <2>1. 0 \in Int /\ job.ranks - 1 \in Int
    BY JobFacts
  <2> QED
    BY <2>1, FS_Interval DEF Ranks
<1>4. order \in Surjection(Ranks, Ranks)
  BY <1>2, <1>3, FS_Injection
<1> QED
  BY <1>1, <1>4 DEF Surjection

(* Going round a ring of n ranks. *)
LEMMA NextRank ==
  ASSUME NEW n \in Nat, n >= 2, NEW k \in 0..(n - 1)
  PROVE  /\ (k + 1) % n \in 0..(n - 1) /\ (k + 1) % n # k
         /\ (k + 1) % n = IF k = n - 1 THEN 0 ELSE k + 1
  OBVIOUS

LEMMA PreviousRank ==
  ASSUME NEW n \in Nat, n >= 2, NEW k \in 0..(n - 1)
  PROVE  \E l \in 0..(n - 1) : (l + 1) % n = k /\ (l = IF k = 0 THEN n - 1 ELSE k - 1)
<1> DEFINE l == IF k = 0 THEN n - 1 ELSE k - 1
<1>1. l \in 0..(n - 1) /\ (l + 1) % n = k
  OBVIOUS
<1> QED
  BY <1>1

LEMMA Distance ==
  ASSUME NEW n \in Nat, n >= 2, NEW k \in 0..(n - 1), NEW j \in 0..(n - 1)
  PROVE  (k - j) % n \in 0..(n - 1) /\ ((k - j) % n = IF k >= j THEN k - j ELSE k - j + n)
  OBVIOUS

LEMMA NhrFull ==
  ASSUME Generated, job.algorithm = "NHR",
         NEW i \in Nat, i >= job.ranks - 1, NEW r \in Ranks
  PROVE  Reached(r, i) = Ranks
<1>1. PICK k \in Ranks : order[k] = r
  BY OrderFacts
<1>2. ASSUME NEW q \in Ranks PROVE q \in Reached(r, i)
  <2>1. PICK j \in Ranks : order[j] = q
    BY OrderFacts
  <2>2. (k - j) % job.ranks <= i
    <3>1. (k - j) % job.ranks \in 0..(job.ranks - 1)
      BY JobFacts, Distance DEF Ranks
    <3> QED
      BY <3>1, JobFacts
  <2> QED
    BY <1>1, <2>1, <2>2 DEF Reached, NhrReached
<1> QED
  BY <1>2 DEF Reached

LEMMA NhrPhases ==
  ASSUME Generated, job.algorithm = "NHR", NEW i \in 0..(PhaseCount - 1)
  PROVE  Proper(i) /\ Brings(i) /\ Keeps(i)
<1> DEFINE n == job.ranks
           op == IF i < n - 1 THEN "REDUCE" ELSE "COPY"
           T(k) == Transfer(order[k], order[(k + 1) % n], 0, op)
<1>1. Phase(i) = {T(k) : k \in Ranks}
  BY PhaseFacts DEF NhrPhase
<1>2. /\ n \in Nat /\ n >= 2 /\ Ranks = 0..(n - 1)
      /\ i \in Nat /\ op \in {"REDUCE", "COPY"} /\ (op = "COPY" => i >= n - 1)
  BY JobFacts, CountFacts DEF Ranks
<1>3. ASSUME NEW k \in Ranks
      PROVE  /\ T(k) \in Transfers /\ T(k).source # T(k).destination
             /\ T(k).source = order[k] /\ T(k).destination = order[(k + 1) % n]
             /\ T(k).op = op
  <2>1. (k + 1) % n \in Ranks /\ (k + 1) % n # k
    BY <1>2, NextRank
  <2>2. order[k] \in Ranks /\ order[(k + 1) % n] \in Ranks /\ order[k] # order[(k + 1) % n]
    BY <2>1, OrderFacts
  <2>3. 0 \in Chunks
    BY RankFacts
  <2> QED
    BY <1>2, <2>2, <2>3 DEF Transfer, Transfers
<1> HIDE DEF T, op, n
<1>4. Proper(i)
  BY <1>1, <1>3 DEF Proper
<1>5. ASSUME NEW r \in Ranks, op = "COPY" PROVE Reached(r, i) = Ranks
  BY <1>2, <1>5, NhrFull DEF n
<1>6. Keeps(i)
  <2> SUFFICES ASSUME NEW t \in Phase(i), t.op = "COPY" PROVE Reached(t.source, i) = Ranks
    BY DEF Keeps, Reached
  <2>1. PICK k \in Ranks : t = T(k)
    BY <1>1
  <2>2. op = "COPY" /\ t.source \in Ranks
    BY <2>1, <1>3 DEF Transfers
  <2> QED
    BY <1>5, <2>2
<1>7. ASSUME NEW r \in Ranks, NEW q \in Ranks, q \in Reached(r, i + 1), q \notin Reached(r, i)
      PROVE  \E t \in Phase(i) : t.destination = r /\ q \in Reached(t.source, i)
  <2>1. PICK j \in Ranks, k \in Ranks : q = order[j] /\ r = order[k] /\ (k - j) % n <= i + 1
    BY <1>7 DEF Reached, NhrReached, n
  <2>2. ~((k - j) % n <= i)
    BY <1>7, <2>1 DEF Reached, NhrReached, n
  <2>3. (k - j) % n = i + 1
    BY <1>2, <2>1, <2>2, Distance
  <2>4. PICK l \in Ranks : (l + 1) % n = k /\ l = IF k = 0 THEN n - 1 ELSE k - 1
    BY <1>2, PreviousRank
  <2>5. (l - j) % n = i /\ (l - j) % n <= i
    <3>1. j \in 0..(n - 1) /\ k \in 0..(n - 1) /\ l \in 0..(n - 1)
      BY <1>2
    <3>2. (k - j) % n = IF k >= j THEN k - j ELSE k - j + n
      BY <1>2, <3>1, Distance
    <3>3. (l - j) % n = IF l >= j THEN l - j ELSE l - j + n
      BY <1>2, <3>1, Distance
    <3> QED
      BY <1>2, <2>3, <2>4, <3>1, <3>2, <3>3
  <2>6. order[l] \in Ranks /\ q \in Reached(order[l], i)
    BY <1>2, <2>1, <2>5, OrderFacts DEF Reached, NhrReached, n
  <2>7. T(l) \in Phase(i) /\ T(l).destination = r /\ T(l).source = order[l]
    BY <1>1, <1>3, <2>1, <2>4
  <2> QED
    BY <2>6, <2>7
<1> QED
  BY <1>4, <1>6, <1>7 DEF Brings

-----------------------------------------------------------------------------
(***************************************************************************)
(* Hierarchical.                                                           *)
(***************************************************************************)
LEMMA NextMultiple ==
  ASSUME NEW g \in Nat \ {0}, NEW l \in Nat, l % g = 0
  PROVE  (l + g) % g = 0
<1>1. PICK q \in Nat : l = g * q
  <2>1. l \div g \in Nat /\ l = g * (l \div g) + (l % g)
    OBVIOUS
  <2> QED
    BY <2>1
<1>2. l + g = g * (q + 1) /\ q + 1 \in Nat
  BY <1>1
<1>3. (g * (q + 1)) % g = 0
  BY <1>2
<1> QED
  BY <1>2, <1>3

LEMMA LeaderFacts ==
  ASSUME Generated, job.algorithm = "Hierarchical", NEW r \in Ranks
  PROVE  /\ Leader(r) \in Ranks /\ Leader(r) \in Leaders
         /\ Leader(Leader(r)) = Leader(r) /\ Leader(r) % GroupSize = 0
<1>1. r \in Nat /\ r < job.ranks /\ GroupSize \in Nat \ {0} /\ job.ranks \in Nat
  BY RankFacts, JobFacts
<1>2. r - (r % GroupSize) \in 0..r
  <2>1. r % GroupSize \in 0..(GroupSize - 1) /\ r % GroupSize <= r
    BY <1>1
  <2> QED
    BY <1>1, <2>1
<1>3. (r - (r % GroupSize)) % GroupSize = 0
  <2>1. PICK q \in Nat, s \in 0..(GroupSize - 1) : r = GroupSize * q + s /\ r % GroupSize = s
    <3>1. /\ r \div GroupSize \in Nat /\ r % GroupSize \in 0..(GroupSize - 1)
          /\ r = GroupSize * (r \div GroupSize) + (r % GroupSize)
      BY <1>1
    <3> QED
      BY <3>1
  <2>2. r - (r % GroupSize) = GroupSize * q /\ GroupSize * q \in Nat
    BY <1>1, <2>1
  <2>3. (GroupSize * q) % GroupSize = 0
    BY <1>1
  <2> QED
    BY <2>2, <2>3
<1>4. Leader(r) \in 0..r /\ Leader(r) % GroupSize = 0
  BY <1>2, <1>3 DEF Leader
<1>5. Leader(r) \in Ranks
  BY <1>1, <1>4, RankFacts
<1>6. Leader(Leader(r)) = Leader(r)
  <2>1. Leader(Leader(r)) = Leader(r) - (Leader(r) % GroupSize)
    BY DEF Leader
  <2> QED
    BY <1>4, <2>1
<1> QED
  BY <1>4, <1>5, <1>6 DEF Leaders

LEMMA LeaderSets ==
  ASSUME Generated, job.algorithm = "Hierarchical"
  PROVE  /\ Leaders \subseteq Ranks /\ Members \subseteq Ranks
         /\ \A l \in Leaders : Leader(l) = l /\ l % GroupSize = 0
         /\ \A r \in Ranks : r \in Leaders <=> Leader(r) = r
         /\ \A r \in Members : Leader(r) # r /\ Leader(r) \in Leaders
<1>1. \A l \in Leaders : l \in Ranks /\ Leader(l) = l /\ l % GroupSize = 0
  BY LeaderFacts DEF Leaders
<1>2. \A r \in Ranks : r \in Leaders <=> Leader(r) = r
  BY <1>1, LeaderFacts
<1> QED
  BY <1>1, <1>2, LeaderFacts DEF Members

LEMMA NextLeaderFacts ==
  ASSUME Generated, job.algorithm = "Hierarchical", NEW l \in Leaders
  PROVE  NextLeader(l) \in Leaders /\ NextLeader(l) # l
<1>1. /\ l \in Nat /\ l < job.ranks /\ GroupSize \in Nat \ {0} /\ job.ranks \in Nat
      /\ job.ranks > GroupSize /\ l % GroupSize = 0 /\ 0 \in Ranks
  BY RankFacts, JobFacts, LeaderSets
<1>2. CASE l + GroupSize < job.ranks
  <2>1. NextLeader(l) = l + GroupSize /\ l + GroupSize \in Ranks
    BY <1>1, <1>2, RankFacts DEF NextLeader
  <2>2. (l + GroupSize) % GroupSize = 0
    BY <1>1, NextMultiple
  <2>3. Leader(l + GroupSize) = l + GroupSize
    BY <1>1, <2>2 DEF Leader
  <2> QED
    BY <1>1, <2>1, <2>3, LeaderSets
<1>3. CASE ~(l + GroupSize < job.ranks)
  <2>1. NextLeader(l) = 0 /\ l # 0
    BY <1>1, <1>3 DEF NextLeader
  <2>2. 0 % GroupSize = 0
    BY <1>1
  <2>3. Leader(0) = 0
    BY <2>2 DEF Leader
  <2> QED
    BY <1>1, <2>1, <2>3, LeaderSets
<1> QED
  BY <1>2, <1>3
LEMMA HierarchicalPhases ==
  ASSUME Generated, job.algorithm = "Hierarchical", NEW i \in 0..(PhaseCount - 1)
  PROVE  Proper(i) /\ Brings(i) /\ Keeps(i)
<1>1. i = 0 \/ i = 1 \/ i = 2
  BY CountFacts
<1>2. 0 \in Chunks
  BY RankFacts
<1>3. ASSUME NEW s \in Ranks, NEW d \in Ranks, s # d, NEW op \in {"REDUCE", "COPY"}
      PROVE  /\ Transfer(s, d, 0, op) \in Transfers
             /\ Transfer(s, d, 0, op).source # Transfer(s, d, 0, op).destination
  BY <1>2, <1>3 DEF Transfer, Transfers
<1>4. CASE i = 0
  <2> DEFINE T(r) == Transfer(r, Leader(r), 0, "REDUCE")
  <2>1. Phase(i) = {T(r) : r \in Members}
    BY <1>4, PhaseFacts DEF HierarchicalPhase
  <2>2. ASSUME NEW r \in Members
        PROVE  /\ T(r) \in Transfers /\ T(r).source # T(r).destination
               /\ T(r).source = r /\ T(r).destination = Leader(r) /\ T(r).op = "REDUCE"
    BY <1>3, LeaderSets, TransferFacts
  <2> HIDE DEF T
  <2>3. Proper(i) /\ Keeps(i)
    BY <2>1, <2>2 DEF Proper, Keeps
  <2>4. ASSUME NEW r \in Ranks, NEW q \in Ranks, q \in Reached(r, i + 1), q \notin Reached(r, i)
        PROVE  \E t \in Phase(i) : t.destination = r /\ q \in Reached(t.source, i)
    <3>1. q # r /\ q \in Reached(q, i)
      BY <2>4 DEF Reached, HierarchicalReached
    <3>2. Leader(q) = r
      BY <1>4, <2>4, <3>1 DEF Reached, HierarchicalReached
    <3>3. q \in Members
      BY <3>1, <3>2, LeaderSets DEF Members
    <3> QED
      BY <2>1, <2>2, <3>1, <3>2, <3>3
  <2> QED
    BY <2>3, <2>4 DEF Brings
<1>5. CASE i = 1
  <2> DEFINE T(l) == Transfer(l, NextLeader(l), 0, "REDUCE")
  <2>1. Phase(i) = {T(l) : l \in Leaders}
    BY <1>5, PhaseFacts DEF HierarchicalPhase
  <2>2. ASSUME NEW l \in Leaders
        PROVE  /\ T(l) \in Transfers /\ T(l).source # T(l).destination
               /\ T(l).source = l /\ T(l).destination = NextLeader(l) /\ T(l).op = "REDUCE"
    BY <1>3, LeaderSets, NextLeaderFacts, TransferFacts
  <2> HIDE DEF T
  <2>3. Proper(i) /\ Keeps(i)
    BY <2>1, <2>2 DEF Proper, Keeps
  <2>4. ASSUME NEW r \in Ranks, NEW q \in Ranks, q \in Reached(r, i + 1), q \notin Reached(r, i)
        PROVE  \E t \in Phase(i) : t.destination = r /\ q \in Reached(t.source, i)
    <3>1. NextLeader(Leader(q)) = r
      BY <1>5, <2>4 DEF Reached, HierarchicalReached
    <3>2. Leader(q) \in Leaders /\ q \in Reached(Leader(q), i)
      BY <1>5, LeaderFacts DEF Reached, HierarchicalReached
    <3> QED
      BY <2>1, <2>2, <3>1, <3>2
  <2> QED
    BY <2>3, <2>4 DEF Brings
<1>6. CASE i = 2
  <2> DEFINE T(r) == Transfer(Leader(r), r, 0, "COPY")
  <2>1. Phase(i) = {T(r) : r \in Members}
    BY <1>6, PhaseFacts DEF HierarchicalPhase
  <2>2. ASSUME NEW r \in Members
        PROVE  /\ T(r) \in Transfers /\ T(r).source # T(r).destination
               /\ T(r).source = Leader(r) /\ T(r).destination = r
    BY <1>3, LeaderSets, TransferFacts
  <2> HIDE DEF T
  <2>3. Proper(i)
    BY <2>1, <2>2 DEF Proper
  <2>4. ASSUME NEW r \in Members PROVE Reached(r, i) \subseteq Reached(Leader(r), i)
    <3>1. ASSUME NEW q \in Ranks, q \in Reached(r, i) PROVE q = r
      <4>1. q = r \/ Leader(q) = r \/ NextLeader(Leader(q)) = r
        BY <1>6, <3>1 DEF Reached, HierarchicalReached
      <4>2. Leader(q) \in Leaders /\ NextLeader(Leader(q)) \in Leaders /\ r \notin Leaders
        BY LeaderFacts, NextLeaderFacts DEF Members
      <4> QED
        BY <4>1, <4>2
    <3>2. r \in Reached(Leader(r), i)
      BY <1>6, LeaderSets DEF Reached, HierarchicalReached
    <3> QED
      BY <3>1, <3>2 DEF Reached
  <2>5. Keeps(i)
    BY <2>1, <2>2, <2>4 DEF Keeps
  <2>6. ASSUME NEW r \in Ranks, NEW q \in Ranks, q \in Reached(r, i + 1), q \notin Reached(r, i)
        PROVE  \E t \in Phase(i) : t.destination = r /\ q \in Reached(t.source, i)
    <3>1. q # r /\ (Leader(q) = Leader(r) \/ NextLeader(Leader(q)) = Leader(r))
      BY <1>6, <2>6 DEF Reached, HierarchicalReached
    <3>2. q \in Reached(Leader(r), i)
      BY <1>6, <3>1 DEF Reached, HierarchicalReached
    <3>3. r \in Members
      BY <2>6, <3>2, LeaderSets DEF Members
    <3> QED
      BY <2>1, <2>2, <3>2, <3>3
  <2> QED
    BY <2>3, <2>5, <2>6 DEF Brings
<1> QED
  BY <1>1, <1>4, <1>5, <1>6

-----------------------------------------------------------------------------
(***************************************************************************)
(* Mesh.                                                                   *)
(***************************************************************************)
LEMMA Offset ==
  ASSUME NEW n \in Nat, n >= 2, NEW s \in 0..(n - 1), NEW d \in 0..(n - 1)
  PROVE  /\ (s - d) % n \in 0..(n - 1)
         /\ s # d => (s - d) % n \in 1..(n - 1)
         /\ (d + ((s - d) % n)) % n = s
  OBVIOUS

LEMMA OffsetBack ==
  ASSUME NEW n \in Nat, n >= 2, NEW s \in 0..(n - 1), NEW k \in 1..(n - 1)
  PROVE  /\ (s + k) % n \in 0..(n - 1) /\ (s + k) % n # s
         /\ (s + k) % n = IF s + k >= n THEN s + k - n ELSE s + k
  OBVIOUS

LEMMA MeshPhases ==
  ASSUME Generated, job.algorithm = "Mesh", NEW i \in 0..(PhaseCount - 1)
  PROVE  Proper(i) /\ Brings(i) /\ Keeps(i)
<1> DEFINE n == job.ranks
           K == {k \in 1..(n - 1) : (k - 1) \div Fanout = i}
           T(s, k) == Transfer(s, (s + k) % n, 0, "REDUCE")
<1>1. Phase(i) = {T(s, k) : s \in Ranks, k \in K}
  BY PhaseFacts DEF MeshPhase
<1>2. n \in Nat /\ n >= 2 /\ Ranks = 0..(n - 1) /\ Fanout \in Nat \ {0} /\ i \in Nat
  BY JobFacts, CountFacts DEF Ranks
<1>3. ASSUME NEW s \in Ranks, NEW k \in K
      PROVE  /\ T(s, k) \in Transfers /\ T(s, k).source # T(s, k).destination
             /\ T(s, k).source = s /\ T(s, k).destination = (s + k) % n
             /\ T(s, k).op = "REDUCE"
  <2>1. (s + k) % n \in Ranks /\ (s + k) % n # s
    BY <1>2, OffsetBack
  <2>2. 0 \in Chunks
    BY RankFacts
  <2> QED
    BY <2>1, <2>2 DEF Transfer, Transfers
<1> HIDE DEF T
<1>4. Proper(i) /\ Keeps(i)
  BY <1>1, <1>3 DEF Proper, Keeps
<1>5. ASSUME NEW r \in Ranks, NEW q \in Ranks, q \in Reached(r, i + 1), q \notin Reached(r, i)
      PROVE  \E t \in Phase(i) : t.destination = r /\ q \in Reached(t.source, i)
  <2> DEFINE k == (r - q) % n
  <2>1. q # r /\ (k - 1) \div Fanout < i + 1 /\ ~((k - 1) \div Fanout < i)
    BY <1>5 DEF Reached, MeshReached
  <2>2. k \in 1..(n - 1) /\ (q + k) % n = r
    BY <1>2, <2>1, Offset
  <2> HIDE DEF k
  <2>3. (k - 1) \div Fanout = i
    <3>1. k - 1 \in Nat /\ (k - 1) \div Fanout \in Int
      BY <1>2, <2>2
    <3> QED
      BY <1>2, <2>1, <3>1
  <2>4. k \in K /\ q \in Reached(q, i)
    BY <2>2, <2>3 DEF Reached, MeshReached
  <2>5. T(q, k) \in Phase(i) /\ T(q, k).destination = r /\ T(q, k).source = q
    BY <1>1, <1>3, <2>2, <2>4
  <2> QED
    BY <2>4, <2>5
<1> QED
  BY <1>4, <1>5 DEF Brings

-----------------------------------------------------------------------------
LEMMA SinglePhases ==
  ASSUME Generated, job.algorithm # "Ring", NEW i \in 0..(PhaseCount - 1)
  PROVE  Proper(i) /\ Brings(i) /\ Keeps(i)
  BY JobFacts, ButterflyPhases, NhrPhases, HierarchicalPhases, MeshPhases

LEMMA ReachedAtStart ==
  ASSUME Generated, NEW r \in Ranks PROVE Reached(r, 0) \subseteq {r}
<1> SUFFICES ASSUME NEW q \in Reached(r, 0) PROVE q = r
  OBVIOUS
<1>1. q \in Ranks /\ r \in Nat /\ q \in Nat /\ job.ranks \in Nat /\ job.ranks >= 2
      /\ Ranks = 0..(job.ranks - 1)
  BY RankFacts, JobFacts DEF Reached, Ranks
<1>2. CASE job.algorithm = "Butterfly"
  <2>1. q \div 1 = r \div 1
    BY <1>2, BitFacts DEF Reached, ButterflyReached
  <2> QED
    BY <1>1, <2>1
<1>3. CASE job.algorithm = "NHR"
  <2>1. PICK j \in Ranks, k \in Ranks : q = order[j] /\ r = order[k] /\ (k - j) % job.ranks <= 0
    BY <1>3 DEF Reached, NhrReached
  <2>2. k = j
    BY <1>1, <2>1, Distance
  <2> QED
    BY <2>1, <2>2
<1>4. CASE job.algorithm = "Hierarchical"
  BY <1>4 DEF Reached, HierarchicalReached
<1>5. CASE job.algorithm = "Mesh"
  <2> SUFFICES ASSUME q # r PROVE FALSE
    OBVIOUS
  <2>1. (((r - q) % job.ranks) - 1) \div Fanout < 0
    BY <1>5 DEF Reached, MeshReached
  <2>2. (r - q) % job.ranks \in 1..(job.ranks - 1)
    BY <1>1, Offset
  <2>3. (((r - q) % job.ranks) - 1) \div Fanout \in Nat
    BY <2>2, JobFacts
  <2> QED
    BY <2>1, <2>3
<1> QED
  BY <1>2, <1>3, <1>4, <1>5, JobFacts DEF Reached

(***************************************************************************)
(* After the last phase a rank has everything - but for Hierarchical with  *)
(* more than two groups, whose leaders exchange with one neighbour only.   *)
(***************************************************************************)
TwoGroups == job.algorithm = "Hierarchical" => job.ranks <= 2 * GroupSize

LEMMA LastTurn ==
  ASSUME NEW f \in Nat \ {0}, NEW n \in Nat, NEW k \in 1..(n - 1)
  PROVE  (k - 1) \div f < (n - 2) \div f + 1
<1>1. k - 1 \in Nat /\ n - 2 \in Nat /\ k - 1 <= n - 2
  OBVIOUS
<1>2. \A a, b \in Nat : a <= b => a \div f <= b \div f
  OBVIOUS
<1>3. (k - 1) \div f <= (n - 2) \div f /\ (n - 2) \div f \in Nat /\ (k - 1) \div f \in Nat
  BY <1>1, <1>2
<1> QED
  BY <1>3

LEMMA ReachedAtEnd ==
  ASSUME Generated, TwoGroups, job.algorithm # "Ring", NEW r \in Ranks
  PROVE  Reached(r, PhaseCount) = Ranks
<1> SUFFICES ASSUME NEW q \in Ranks PROVE q \in Reached(r, PhaseCount)
  BY DEF Reached
<1>1. /\ r \in Nat /\ q \in Nat /\ job.ranks \in Nat /\ job.ranks >= 2
      /\ Ranks = 0..(job.ranks - 1) /\ r < job.ranks /\ q < job.ranks
  BY RankFacts, JobFacts DEF Ranks
<1>2. CASE job.algorithm = "Butterfly"
  <2>1. q \div job.ranks = 0 /\ r \div job.ranks = 0
    BY <1>1
  <2> QED
    BY <1>2, <2>1, CountFacts DEF Reached, ButterflyReached
<1>3. CASE job.algorithm = "NHR"
  <2>1. PICK j \in Ranks, k \in Ranks : q = order[j] /\ r = order[k]
    BY <1>3, OrderFacts
  <2>2. (k - j) % job.ranks <= PhaseCount
    <3>1. (k - j) % job.ranks \in 0..(job.ranks - 1)
      BY <1>1, Distance
    <3> QED
      BY <1>1, <1>3, <3>1, CountFacts
  <2> QED
    BY <1>3, <2>1, <2>2 DEF Reached, NhrReached
<1>4. CASE job.algorithm = "Hierarchical"
  <2>1. /\ GroupSize \in Nat \ {0} /\ job.ranks > GroupSize /\ job.ranks <= 2 * GroupSize
        /\ PhaseCount = 3
    BY <1>4, JobFacts, CountFacts DEF TwoGroups
  <2>2. \A l \in Leaders : l = 0 \/ l = GroupSize
    <3> SUFFICES ASSUME NEW l \in Leaders PROVE l = 0 \/ l = GroupSize
      OBVIOUS
    <3>1. l \in Nat /\ l < job.ranks /\ l % GroupSize = 0
      BY <1>4, LeaderSets, RankFacts
    <3> QED
      BY <1>1, <2>1, <3>1
  <2>3. Leader(q) \in Leaders /\ Leader(r) \in Leaders
    BY <1>4, LeaderFacts
  <2>4. NextLeader(0) = GroupSize /\ NextLeader(GroupSize) = 0
    BY <1>1, <2>1 DEF NextLeader
  <2>5. Leader(q) = Leader(r) \/ NextLeader(Leader(q)) = Leader(r)
    BY <2>2, <2>3, <2>4
  <2> QED
    BY <1>4, <2>1, <2>5 DEF Reached, HierarchicalReached
<1>5. CASE job.algorithm = "Mesh"
  <2> DEFINE k == (r - q) % job.ranks
  <2>1. CASE q # r
    <3>1. k \in 1..(job.ranks - 1)
      BY <1>1, <2>1, Offset
    <3>2. (k - 1) \div Fanout < (job.ranks - 2) \div Fanout + 1
      BY <1>1, <3>1, JobFacts, LastTurn
    <3> QED
      BY <1>5, <3>2, CountFacts DEF Reached, MeshReached
  <2>2. CASE q = r
    BY <1>5, <2>2 DEF Reached, MeshReached
  <2> QED
    BY <2>1, <2>2
<1> QED
  BY <1>2, <1>3, <1>4, <1>5, JobFacts
-----------------------------------------------------------------------------
(***************************************************************************)
(* Ring.                                                                   *)
(***************************************************************************)
LEMMA BehindValue ==
  ASSUME NEW n \in Nat, n >= 2, NEW r \in 0..(n - 1), NEW c \in 0..(n - 1)
  PROVE  /\ (r - c - 1) % n \in 0..(n - 1)
         /\ (r - c - 1) % n = IF r > c THEN r - c - 1 ELSE r - c - 1 + n
  OBVIOUS

LEMMA BehindInjective ==
  ASSUME NEW n \in Nat, n >= 2, NEW r \in 0..(n - 1), NEW q \in 0..(n - 1),
         NEW c \in 0..(n - 1), (r - c - 1) % n = (q - c - 1) % n
  PROVE  r = q
<1>1. /\ (r - c - 1) % n = IF r > c THEN r - c - 1 ELSE r - c - 1 + n
      /\ (q - c - 1) % n = IF q > c THEN q - c - 1 ELSE q - c - 1 + n
  BY BehindValue
<1> QED
  BY <1>1

LEMMA NextInjective ==
  ASSUME NEW n \in Nat, n >= 2, NEW r \in 0..(n - 1), NEW s \in 0..(n - 1),
         (r + 1) % n = (s + 1) % n
  PROVE  r = s
<1>1. /\ (r + 1) % n = IF r = n - 1 THEN 0 ELSE r + 1
      /\ (s + 1) % n = IF s = n - 1 THEN 0 ELSE s + 1
  BY NextRank
<1> QED
  BY <1>1

LEMMA BehindFacts ==
  ASSUME Generated
  PROVE  /\ \A r, c \in Ranks : Behind(r, c) \in 0..(job.ranks - 1)
         /\ \A r, q, c \in Ranks : Behind(r, c) = Behind(q, c) => r = q
         /\ \A r, c \in Ranks : Behind(r, c) = job.ranks - 1 <=> r = c
<1>1. job.ranks \in Nat /\ job.ranks >= 2 /\ Ranks = 0..(job.ranks - 1)
  BY JobFacts DEF Ranks
<1>2. ASSUME NEW r \in Ranks, NEW c \in Ranks
      PROVE  /\ Behind(r, c) \in 0..(job.ranks - 1)
             /\ Behind(r, c) = IF r > c THEN r - c - 1 ELSE r - c - 1 + job.ranks
  BY <1>1, BehindValue DEF Behind
<1>3. ASSUME NEW r \in Ranks, NEW q \in Ranks, NEW c \in Ranks, Behind(r, c) = Behind(q, c)
      PROVE  r = q
  BY <1>1, <1>3, BehindInjective DEF Behind
<1>4. ASSUME NEW r \in Ranks, NEW c \in Ranks
      PROVE  Behind(r, c) = job.ranks - 1 <=> r = c
  <2>1. Behind(r, c) = IF r > c THEN r - c - 1 ELSE r - c - 1 + job.ranks
    BY <1>2
  <2> QED
    BY <1>1, <2>1
<1> QED
  BY <1>2, <1>3, <1>4

LEMMA AfterFacts ==
  ASSUME Generated
  PROVE  /\ \A r, c \in Ranks : After(r, c) \in 0..(job.ranks - 1)
         /\ \A r, c \in Ranks : After(r, c) = 0 <=> r = c
<1>1. job.ranks \in Nat /\ job.ranks >= 2 /\ Ranks = 0..(job.ranks - 1)
  BY JobFacts DEF Ranks
<1>2. ASSUME NEW r \in Ranks, NEW c \in Ranks
      PROVE  /\ After(r, c) \in 0..(job.ranks - 1)
             /\ After(r, c) = IF r >= c THEN r - c ELSE r - c + job.ranks
  BY <1>1, Distance DEF After
<1>3. ASSUME NEW r \in Ranks, NEW c \in Ranks PROVE After(r, c) = 0 <=> r = c
  <2>1. After(r, c) = IF r >= c THEN r - c ELSE r - c + job.ranks
    BY <1>2
  <2> QED
    BY <1>1, <2>1
<1> QED
  BY <1>2, <1>3

LEMMA RingCounts ==
  ASSUME Generated, job.algorithm = "Ring"
  PROVE  /\ ReducePhases \in {0, job.ranks - 1} /\ GatherPhases \in {0, job.ranks - 1}
         /\ ReducePhases = 0 <=> job.primitive = "AllGather"
         /\ GatherPhases = 0 <=> job.primitive = "ReduceScatter"
         /\ PhaseCount = ReducePhases + GatherPhases
  BY JobFacts, CountFacts DEF ReducePhases, GatherPhases, Turn

(* The chunk a rank sends is as far behind as the phase is old, and its     *)
(* neighbour is one further on.                                             *)
LEMMA ReduceChunkValue ==
  ASSUME NEW n \in Nat, n >= 2, NEW s \in 0..(n - 1), NEW i \in 0..(n - 2)
  PROVE  /\ (s - i - 1) % n \in 0..(n - 1)
         /\ (s - i - 1) % n = IF s > i THEN s - i - 1 ELSE s - i - 1 + n
  OBVIOUS

LEMMA GatherChunkValue ==
  ASSUME NEW n \in Nat, n >= 2, NEW s \in 0..(n - 1), NEW i \in 0..(n - 2)
  PROVE  /\ (s - i) % n \in 0..(n - 1)
         /\ (s - i) % n = IF s >= i THEN s - i ELSE s - i + n
  OBVIOUS

LEMMA ReduceStep ==
  ASSUME NEW n \in Nat, n >= 2, NEW s \in 0..(n - 1), NEW i \in 0..(n - 2),
         NEW c, c = (s - i - 1) % n, NEW d, d = (s + 1) % n
  PROVE  (s - c - 1) % n = i /\ (d - c - 1) % n = i + 1
<1>1. c \in 0..(n - 1) /\ c = IF s > i THEN s - i - 1 ELSE s - i - 1 + n
  BY ReduceChunkValue
<1>2. d \in 0..(n - 1) /\ d = IF s = n - 1 THEN 0 ELSE s + 1
  BY NextRank
<1>3. (s - c - 1) % n = IF s > c THEN s - c - 1 ELSE s - c - 1 + n
  BY <1>1, BehindValue
<1>4. (d - c - 1) % n = IF d > c THEN d - c - 1 ELSE d - c - 1 + n
  BY <1>1, <1>2, BehindValue
<1> QED
  BY <1>1, <1>2, <1>3, <1>4

LEMMA GatherStep ==
  ASSUME NEW n \in Nat, n >= 2, NEW s \in 0..(n - 1), NEW i \in 0..(n - 2),
         NEW c, c = (s - i) % n, NEW d, d = (s + 1) % n
  PROVE  (s - c) % n = i /\ (d - c) % n = i + 1
<1>1. c \in 0..(n - 1) /\ c = IF s >= i THEN s - i ELSE s - i + n
  BY GatherChunkValue
<1>2. d \in 0..(n - 1) /\ d = IF s = n - 1 THEN 0 ELSE s + 1
  BY NextRank
<1>3. (s - c) % n = IF s >= c THEN s - c ELSE s - c + n
  BY <1>1, Distance
<1>4. (d - c) % n = IF d >= c THEN d - c ELSE d - c + n
  BY <1>1, <1>2, Distance
<1> QED
  BY <1>1, <1>2, <1>3, <1>4

(* Whichever chunk is due at a rank, the rank before sends it. *)
LEMMA ReduceDue ==
  ASSUME NEW n \in Nat, n >= 2, NEW s \in 0..(n - 1), NEW c \in 0..(n - 1),
         NEW i \in 0..(n - 2), (((s + 1) % n) - c - 1) % n = i + 1
  PROVE  (s - i - 1) % n = c
<1>1. PICK d \in 0..(n - 1) : d = (s + 1) % n /\ d = IF s = n - 1 THEN 0 ELSE s + 1
  BY NextRank
<1>2. (d - c - 1) % n = IF d > c THEN d - c - 1 ELSE d - c - 1 + n
  BY BehindValue
<1>3. (s - i - 1) % n = IF s > i THEN s - i - 1 ELSE s - i - 1 + n
  BY ReduceChunkValue
<1> QED
  BY <1>1, <1>2, <1>3

LEMMA GatherDue ==
  ASSUME NEW n \in Nat, n >= 2, NEW s \in 0..(n - 1), NEW c \in 0..(n - 1),
         NEW i \in 0..(n - 2), (((s + 1) % n) - c) % n = i + 1
  PROVE  (s - i) % n = c
<1>1. PICK d \in 0..(n - 1) : d = (s + 1) % n /\ d = IF s = n - 1 THEN 0 ELSE s + 1
  BY NextRank
<1>2. (d - c) % n = IF d >= c THEN d - c ELSE d - c + n
  BY Distance
<1>3. (s - i) % n = IF s >= i THEN s - i ELSE s - i + n
  BY GatherChunkValue
<1> QED
  BY <1>1, <1>2, <1>3

LEMMA RingReducePhases ==
  ASSUME Generated, job.algorithm = "Ring", NEW i \in Nat, i < ReducePhases
  PROVE  /\ Proper(i)
         /\ \A t \in Phase(i) :
              /\ t.source \in Ranks /\ t.destination \in Ranks /\ t.chunk \in Ranks
              /\ t.op = "REDUCE"
              /\ Behind(t.source, t.chunk) = i /\ Behind(t.destination, t.chunk) = i + 1
         /\ \A t, u \in Phase(i) : t.destination = u.destination => t = u
         /\ \A r, c \in Ranks : Behind(r, c) = i + 1 =>
              \E t \in Phase(i) : t.destination = r /\ t.chunk = c
<1> DEFINE n == job.ranks
           T(s) == Transfer(s, Neighbour(s), ReduceChunk(s, i), "REDUCE")
<1>1. Phase(i) = {T(s) : s \in Ranks}
  BY PhaseFacts DEF RingPhase
<1>2. /\ n \in Nat /\ n >= 2 /\ Ranks = 0..(n - 1) /\ i \in 0..(n - 2) /\ Chunks = Ranks
  BY JobFacts, RingCounts, RankFacts DEF Ranks
<1>3. ASSUME NEW s \in Ranks
      PROVE  /\ T(s).source = s /\ T(s).destination = (s + 1) % n
             /\ T(s).chunk = (s - i - 1) % n /\ T(s).op = "REDUCE"
             /\ (s + 1) % n \in Ranks /\ (s + 1) % n # s /\ (s - i - 1) % n \in Ranks
             /\ T(s) \in Transfers
  <2>1. /\ T(s).source = s /\ T(s).destination = (s + 1) % n
        /\ T(s).chunk = (s - i - 1) % n /\ T(s).op = "REDUCE"
    BY DEF Transfer, Neighbour, ReduceChunk
  <2>2. (s + 1) % n \in Ranks /\ (s + 1) % n # s /\ (s - i - 1) % n \in Ranks
    BY <1>2, NextRank, ReduceChunkValue
  <2>3. T(s) \in Transfers
    BY <1>2, <2>2 DEF Transfer, Transfers, Neighbour, ReduceChunk
  <2> QED
    BY <2>1, <2>2, <2>3
<1> HIDE DEF T
<1>4. ASSUME NEW s \in Ranks
      PROVE  Behind(s, T(s).chunk) = i /\ Behind(T(s).destination, T(s).chunk) = i + 1
  <2> DEFINE c == T(s).chunk
             d == T(s).destination
  <2>1. c = (s - i - 1) % n /\ d = (s + 1) % n
    BY <1>3
  <2> HIDE DEF c, d
  <2>2. (s - c - 1) % n = i /\ (d - c - 1) % n = i + 1
    BY <1>2, <2>1, ReduceStep
  <2>3. Behind(s, c) = i /\ Behind(d, c) = i + 1
    BY <2>2 DEF Behind
  <2> QED
    BY <2>3 DEF c, d
<1>5. ASSUME NEW s \in Ranks, NEW r \in Ranks, T(s).destination = T(r).destination
      PROVE  s = r
  <2>1. (s + 1) % n = (r + 1) % n
    BY <1>3, <1>5
  <2> QED
    BY <1>2, <2>1, NextInjective
<1>6. ASSUME NEW r \in Ranks, NEW c \in Ranks, Behind(r, c) = i + 1
      PROVE  \E s \in Ranks : T(s).destination = r /\ T(s).chunk = c
  <2>1. r \in 0..(n - 1) /\ c \in 0..(n - 1) /\ (r - c - 1) % n = i + 1
    BY <1>2, <1>6 DEF Behind
  <2>2. PICK s \in 0..(n - 1) : (s + 1) % n = r
    BY <1>2, <2>1, PreviousRank
  <2>3. (s - i - 1) % n = c
    <3> HIDE DEF n
    <3>1. (((s + 1) % n) - c - 1) % n = i + 1
      BY <2>1, <2>2
    <3> QED
      BY <1>2, <2>1, <3>1, ReduceDue
  <2>4. s \in Ranks
    BY <1>2
  <2> QED
    BY <1>3, <2>2, <2>3, <2>4
<1>7. Proper(i)
  BY <1>1, <1>3 DEF Proper
<1>8. \A t, u \in Phase(i) : t.destination = u.destination => t = u
  BY <1>1, <1>5
<1>9. \A r, c \in Ranks : Behind(r, c) = i + 1 =>
        \E t \in Phase(i) : t.destination = r /\ t.chunk = c
  BY <1>1, <1>6
<1> QED
  BY <1>1, <1>3, <1>4, <1>7, <1>8, <1>9

LEMMA RingGatherPhases ==
  ASSUME Generated, job.algorithm = "Ring",
         NEW i \in Nat, i >= ReducePhases, i < PhaseCount
  PROVE  /\ Proper(i)
         /\ \A t \in Phase(i) :
              /\ t.source \in Ranks /\ t.destination \in Ranks /\ t.chunk \in Ranks
              /\ t.op = "COPY"
              /\ After(t.source, t.chunk) = i - ReducePhases
              /\ After(t.destination, t.chunk) = i + 1 - ReducePhases
         /\ \A t, u \in Phase(i) : t.destination = u.destination => t = u
         /\ \A r, c \in Ranks : After(r, c) = i + 1 - ReducePhases =>
              \E t \in Phase(i) : t.destination = r /\ t.chunk = c
<1> DEFINE n == job.ranks
           k == i - ReducePhases
           T(s) == Transfer(s, Neighbour(s), GatherChunk(s, k), GatherOperation)
<1>1. Phase(i) = {T(s) : s \in Ranks}
  <2>1. ~(i < ReducePhases)
    BY CountFacts
  <2> QED
    BY <2>1, PhaseFacts DEF RingPhase
<1>2. /\ n \in Nat /\ n >= 2 /\ Ranks = 0..(n - 1) /\ k \in 0..(n - 2) /\ Chunks = Ranks
      /\ k + 1 = i + 1 - ReducePhases
  BY JobFacts, RingCounts, RankFacts DEF Ranks
<1> HIDE DEF k
<1>3. ASSUME NEW s \in Ranks
      PROVE  /\ T(s).source = s /\ T(s).destination = (s + 1) % n
             /\ T(s).chunk = (s - k) % n /\ T(s).op = "COPY"
             /\ (s + 1) % n \in Ranks /\ (s + 1) % n # s /\ (s - k) % n \in Ranks
             /\ T(s) \in Transfers
  <2>1. /\ T(s).source = s /\ T(s).destination = (s + 1) % n
        /\ T(s).chunk = (s - k) % n /\ T(s).op = "COPY"
    BY DEF Transfer, Neighbour, GatherChunk, GatherOperation
  <2>2. (s + 1) % n \in Ranks /\ (s + 1) % n # s /\ (s - k) % n \in Ranks
    BY <1>2, NextRank, GatherChunkValue
  <2>3. T(s) \in Transfers
    BY <1>2, <2>2 DEF Transfer, Transfers, Neighbour, GatherChunk, GatherOperation
  <2> QED
    BY <2>1, <2>2, <2>3
<1> HIDE DEF T
<1>4. ASSUME NEW s \in Ranks
      PROVE  After(s, T(s).chunk) = k /\ After(T(s).destination, T(s).chunk) = k + 1
  <2> DEFINE c == T(s).chunk
             d == T(s).destination
  <2>1. c = (s - k) % n /\ d = (s + 1) % n
    BY <1>3
  <2> HIDE DEF c, d
  <2>2. (s - c) % n = k /\ (d - c) % n = k + 1
    BY <1>2, <2>1, GatherStep
  <2>3. After(s, c) = k /\ After(d, c) = k + 1
    BY <2>2 DEF After
  <2> QED
    BY <2>3 DEF c, d
<1>5. ASSUME NEW s \in Ranks, NEW r \in Ranks, T(s).destination = T(r).destination
      PROVE  s = r
  <2>1. (s + 1) % n = (r + 1) % n
    BY <1>3, <1>5
  <2> QED
    BY <1>2, <2>1, NextInjective
<1>6. ASSUME NEW r \in Ranks, NEW c \in Ranks, After(r, c) = k + 1
      PROVE  \E s \in Ranks : T(s).destination = r /\ T(s).chunk = c
  <2>1. r \in 0..(n - 1) /\ c \in 0..(n - 1) /\ (r - c) % n = k + 1
    BY <1>2, <1>6 DEF After
  <2>2. PICK s \in 0..(n - 1) : (s + 1) % n = r
    BY <1>2, <2>1, PreviousRank
  <2>3. (s - k) % n = c
    <3> HIDE DEF n
    <3>1. (((s + 1) % n) - c) % n = k + 1
      BY <2>1, <2>2
    <3> QED
      BY <1>2, <2>1, <3>1, GatherDue
  <2>4. s \in Ranks
    BY <1>2
  <2> QED
    BY <1>3, <2>2, <2>3, <2>4
<1>7. Proper(i)
  BY <1>1, <1>3 DEF Proper
<1>8. \A t, u \in Phase(i) : t.destination = u.destination => t = u
  BY <1>1, <1>5
<1>9. \A r, c \in Ranks : After(r, c) = k + 1 =>
        \E t \in Phase(i) : t.destination = r /\ t.chunk = c
  BY <1>1, <1>6
<1>10. \A t \in Phase(i) :
         /\ t.source \in Ranks /\ t.destination \in Ranks /\ t.chunk \in Ranks
         /\ t.op = "COPY"
         /\ After(t.source, t.chunk) = k /\ After(t.destination, t.chunk) = k + 1
  BY <1>1, <1>3, <1>4
<1>11. k = i - ReducePhases /\ k + 1 = i + 1 - ReducePhases
  BY <1>2 DEF k
<1> QED
  BY <1>7, <1>8, <1>9, <1>10, <1>11

LEMMA AllProper ==
  ASSUME Generated, NEW i \in Nat, i < PhaseCount PROVE Proper(i)
<1>1. CASE job.algorithm = "Ring"
  <2>1. i < ReducePhases \/ i >= ReducePhases
    BY CountFacts
  <2> QED
    BY <1>1, <2>1, RingReducePhases, RingGatherPhases
<1>2. CASE job.algorithm # "Ring"
  <2>1. i \in 0..(PhaseCount - 1)
    BY CountFacts
  <2> QED
    BY <1>2, <2>1, SinglePhases
<1> QED
  BY <1>1, <1>2
-----------------------------------------------------------------------------
(***************************************************************************)
(* What a step leaves alone.                                               *)
(***************************************************************************)
LEMMA SameJob ==
  ASSUME UNCHANGED <<job, order>>
  PROVE  /\ Ranks' = Ranks /\ Chunks' = Chunks /\ Transfers' = Transfers
         /\ Jobs' = Jobs /\ Orders' = Orders /\ Members' = Members
         /\ PhaseCount' = PhaseCount /\ ReducePhases' = ReducePhases
         /\ Contents' = Contents /\ Nothing' = Nothing
         /\ \A c : Whole(c)' = Whole(c)
         /\ \A r : Own(r)' = Own(r)
         /\ \A r, c : UpTo(r, c)' = UpTo(r, c)
<1>1. Ranks' = Ranks /\ Chunks' = Chunks
  BY DEF Ranks, Chunks
<1>2. Transfers' = Transfers /\ Orders' = Orders /\ Contents' = Contents
  BY <1>1 DEF Transfers, Orders, Contents
<1>3. Jobs' = Jobs
  BY DEF Jobs
<1>4. Members' = Members
  BY <1>1 DEF Members, Leaders, Leader
<1>5. ReducePhases' = ReducePhases /\ GatherPhases' = GatherPhases
  BY DEF ReducePhases, GatherPhases, Turn
<1>6. PhaseCount' = PhaseCount
  BY <1>5 DEF PhaseCount, Log2
<1>7. Nothing' = Nothing /\ \A c : Whole(c)' = Whole(c)
  BY <1>1 DEF Nothing, Whole
<1>8. \A r : Own(r)' = Own(r)
  BY <1>1 DEF Own
<1>9. \A r, c : UpTo(r, c)' = UpTo(r, c)
  BY <1>1 DEF UpTo, Behind
<1> QED
  BY <1>1, <1>2, <1>3, <1>4, <1>5, <1>6, <1>7, <1>8, <1>9

LEMMA SamePhase ==
  ASSUME UNCHANGED <<job, order, phase>>
  PROVE  Now' = Now /\ \A r : Base(r)' = Base(r)
<1>1. Ranks' = Ranks /\ PhaseCount' = PhaseCount /\ ReducePhases' = ReducePhases
  BY SameJob
<1>2. RingPhase(phase)' = RingPhase(phase)
  BY <1>1 DEF RingPhase, Neighbour, ReduceChunk, GatherChunk
<1>3. ButterflyPhase(phase)' = ButterflyPhase(phase) /\ NhrPhase(phase)' = NhrPhase(phase)
  BY <1>1 DEF ButterflyPhase, NhrPhase
<1>4. HierarchicalPhase(phase)' = HierarchicalPhase(phase)
  BY <1>1 DEF HierarchicalPhase, Members, Leaders, Leader, NextLeader
<1>5. MeshPhase(phase)' = MeshPhase(phase)
  BY <1>1 DEF MeshPhase
<1>6. Now' = Now
  BY <1>1, <1>2, <1>3, <1>4, <1>5 DEF Now, Open, Phase
<1>7. \A r : Base(r)' = Base(r)
  BY DEF Base, Reached, Ranks, ButterflyReached, NhrReached, HierarchicalReached,
     MeshReached, NextLeader, Leader
<1> QED
  BY <1>6, <1>7

LEMMA LaterPhase ==
  ASSUME UNCHANGED <<job, order>>, phase' = phase + 1
  PROVE  /\ Now' = IF phase + 1 < PhaseCount THEN Phase(phase + 1) ELSE {}
         /\ \A r : Base(r)' = Reached(r, phase + 1)
<1>1. Ranks' = Ranks /\ PhaseCount' = PhaseCount /\ ReducePhases' = ReducePhases
  BY SameJob
<1>2. RingPhase(phase)' = RingPhase(phase + 1)
  BY <1>1 DEF RingPhase, Neighbour, ReduceChunk, GatherChunk
<1>3. /\ ButterflyPhase(phase)' = ButterflyPhase(phase + 1)
      /\ NhrPhase(phase)' = NhrPhase(phase + 1)
  BY <1>1 DEF ButterflyPhase, NhrPhase
<1>4. HierarchicalPhase(phase)' = HierarchicalPhase(phase + 1)
  BY <1>1 DEF HierarchicalPhase, Members, Leaders, Leader, NextLeader
<1>5. MeshPhase(phase)' = MeshPhase(phase + 1)
  BY <1>1 DEF MeshPhase
<1>6. Now' = IF phase + 1 < PhaseCount THEN Phase(phase + 1) ELSE {}
  <2>1. Phase(phase)' = Phase(phase + 1)
    BY <1>1, <1>2, <1>3, <1>4, <1>5 DEF Phase
  <2> QED
    BY <1>1, <2>1 DEF Now, Open
<1>7. \A r : Base(r)' = Reached(r, phase + 1)
  BY DEF Base, Reached, Ranks, ButterflyReached, NhrReached, HierarchicalReached,
     MeshReached, NextLeader, Leader
<1> QED
  BY <1>6, <1>7

LEMMA NowFacts ==
  ASSUME TypeOK, Generated
  PROVE  /\ phase \in Nat /\ PhaseCount \in Nat \ {0} /\ phase <= PhaseCount
         /\ \A t \in Now : /\ t \in Transfers /\ t.source # t.destination
                           /\ t.source \in Ranks /\ t.destination \in Ranks
                           /\ t.chunk \in Chunks /\ t.op \in {"REDUCE", "COPY"}
                           /\ Open
         /\ Open => Now = Phase(phase)
<1>1. phase \in Nat /\ PhaseCount \in Nat \ {0} /\ phase <= PhaseCount
  BY CountFacts DEF TypeOK
<1>2. Open => Proper(phase)
  BY <1>1, AllProper DEF Open
<1>3. \A t \in Now : t \in Transfers /\ t.source # t.destination /\ Open
  BY <1>2 DEF Now, Proper
<1> QED
  BY <1>1, <1>3 DEF Transfers, Now

LEMMA SumFacts ==
  ASSUME NEW a \in Contents, NEW b \in Contents
  PROVE  /\ Sum(a, b) \in Contents
         /\ \A q \in Ranks : a[q] > 0 \/ b[q] > 0 => Sum(a, b)[q] > 0
  BY DEF Sum, Contents

-----------------------------------------------------------------------------
(***************************************************************************)
(* Init.                                                                   *)
(***************************************************************************)
LEMMA OrderType == ASSUME Generated PROVE order \in [Ranks -> Ranks]
  BY DEF Generated, Orders

LEMMA InitInv == Init => IInv
<1> SUFFICES ASSUME Init PROVE IInv
  OBVIOUS
<1>1. Generated /\ phase = 0 /\ inFlight = {} /\ unsent = Phase(0)
  BY DEF Init, Generated
<1>2. PhaseCount \in Nat \ {0} /\ 0 < PhaseCount /\ Proper(0) /\ Open /\ Now = Phase(0)
  BY <1>1, CountFacts, AllProper DEF Open, Now
<1>3. /\ \A r \in Ranks : Own(r) \in Contents /\ Own(r)[r] > 0
      /\ \A r, q \in Ranks : Own(r)[q] > 0 => q = r
      /\ Nothing \in Contents
  BY DEF Own, Nothing, Contents
<1>4. \A r \in Ranks, c \in Chunks :
        held[r][c] = IF job.primitive = "AllGather" /\ c # r THEN Nothing ELSE Own(r)
  BY DEF Init
<1>5. TypeOK
  <2>1. held \in [Ranks -> [Chunks -> Contents]]
    BY <1>3 DEF Init
  <2> QED
    BY <1>1, <1>2, <2>1, OrderType DEF TypeOK, Proper, Generated
<1>6. Book
  BY <1>1, <1>2 DEF Book
<1>7. Covered
  <2> SUFFICES ASSUME job.algorithm # "Ring" PROVE Covered
    BY DEF Covered
  <2>1. \A r \in Ranks : held[r][0] = Own(r)
    BY <1>1, <1>4, JobFacts, RankFacts
  <2>2. \A r \in Ranks : Holds(held[r][0], r)
    BY <1>1, <1>3, <2>1, ReachedAtStart DEF Holds, Base
  <2> QED
    BY <1>1, <1>2, <2>2 DEF Covered, Pending
<1>8. MembersLag
  <2> SUFFICES ASSUME job.algorithm = "Hierarchical" PROVE MembersLag
    BY DEF MembersLag
  <2>1. \A r \in Ranks : held[r][0] = Own(r)
    BY <1>1, <1>4, JobFacts, RankFacts
  <2> QED
    BY <1>1, <1>3, <2>1, LeaderSets DEF MembersLag
<1>9. RingInv
  <2> SUFFICES ASSUME job.algorithm = "Ring" PROVE RingInv
    BY DEF RingInv
  <2>0. Chunks = Ranks /\ ReducePhases \in Nat
    BY <1>1, RankFacts, CountFacts
  <2>1. CASE ReducePhases > 0
    <3>1. \A r, c \in Ranks : held[r][c] = Own(r)
      BY <1>1, <1>4, <2>0, <2>1, RingCounts
    <3>2. ASSUME NEW r \in Ranks, NEW c \in Ranks, Behind(r, c) <= 0
          PROVE  UpTo(r, c) = Own(r)
      <4>1. ASSUME NEW q \in Ranks PROVE Behind(q, c) <= Behind(r, c) <=> q = r
        BY <1>1, <3>2, BehindFacts
      <4> QED
        BY <4>1 DEF UpTo, Own
    <3>3. ASSUME NEW r \in Ranks, NEW c \in Ranks, Behind(r, c) = 0 + 1 PROVE ~Came(r, c)
      <4>1. PICK t \in Phase(0) : t.destination = r /\ t.chunk = c
        BY <1>1, <2>1, <3>3, RingReducePhases
      <4> QED
        BY <1>1, <1>2, <4>1 DEF Came, Pending
    <3>4. Reducing
      BY <1>1, <3>1, <3>2, <3>3 DEF Reducing
    <3> QED
      BY <1>1, <2>0, <2>1, <3>4 DEF RingInv, Gathering
  <2>2. CASE ReducePhases = 0
    <3>1. \A r, c \in Ranks : held[r][c] = IF c # r THEN Nothing ELSE Own(r)
      BY <1>1, <1>4, <2>0, <2>2, RingCounts
    <3>2. \A r \in Ranks : Whole(r) = Own(r)
      BY <1>1, <2>2, RingCounts DEF Whole, Own
    <3>3. ASSUME NEW r \in Ranks, NEW c \in Ranks, After(r, c) = 0 + 1 - ReducePhases
          PROVE  ~Came(r, c)
      <4>1. PICK t \in Phase(0) : t.destination = r /\ t.chunk = c
        BY <1>1, <1>2, <2>2, <3>3, RingGatherPhases
      <4> QED
        BY <1>1, <1>2, <4>1 DEF Came, Pending
    <3>4. \A r, c \in Ranks : After(r, c) <= 0 - ReducePhases <=> r = c
      BY <1>1, <2>2, AfterFacts
    <3>5. Gathering
      BY <1>1, <3>1, <3>2, <3>3, <3>4 DEF Gathering
    <3> QED
      BY <1>1, <2>2, <3>5 DEF RingInv, Reducing
  <2> QED
    BY <2>0, <2>1, <2>2
<1> QED
  BY <1>1, <1>5, <1>6, <1>7, <1>8, <1>9 DEF IInv
-----------------------------------------------------------------------------
(***************************************************************************)
(* Send.                                                                   *)
(***************************************************************************)
LEMMA SendFacts ==
  ASSUME IInv, NEW t \in unsent, Send(t)
  PROVE  /\ UNCHANGED <<job, order, phase, held>> /\ t \in Now /\ Open
         /\ Now' = Now /\ (\A r : Base(r)' = Base(r)) /\ Ranks' = Ranks
         /\ t.source \in Ranks /\ t.destination \in Ranks /\ t.chunk \in Chunks
         /\ unsent' = unsent \ {t}
         /\ inFlight' = inFlight \cup
              {[transfer |-> t, content |-> held[t.source][t.chunk]]}
         /\ \A u : Pending(u)' <=> Pending(u)
<1>1. UNCHANGED <<job, order, phase, held>> /\ t \in Now
  BY DEF Send, IInv, Book
<1>2. Now' = Now /\ (\A r : Base(r)' = Base(r)) /\ Ranks' = Ranks
  BY <1>1, SamePhase, SameJob
<1>3. t.source \in Ranks /\ t.destination \in Ranks /\ t.chunk \in Chunks /\ Open
  BY <1>1, NowFacts DEF IInv
<1>4. /\ unsent' = unsent \ {t}
      /\ inFlight' = inFlight \cup
              {[transfer |-> t, content |-> held[t.source][t.chunk]]}
  BY DEF Send
<1>5. ASSUME NEW u PROVE Pending(u)' <=> Pending(u)
  <2>1. CASE u = t
    <3>1. t \in unsent
      OBVIOUS
    <3>2. [transfer |-> t, content |-> held[t.source][t.chunk]].transfer = t
      OBVIOUS
    <3>3. \E m \in inFlight' : m.transfer = t
      BY <1>4, <3>2
    <3> QED
      BY <2>1, <3>1, <3>3 DEF Pending
  <2>2. CASE u # t
    BY <1>4, <2>2 DEF Pending
  <2> QED
    BY <2>1, <2>2
<1> QED
  BY <1>1, <1>2, <1>3, <1>4, <1>5

LEMMA SendInv == ASSUME IInv, NEW t \in unsent, Send(t) PROVE IInv'
<1> DEFINE m == [transfer |-> t, content |-> held[t.source][t.chunk]]
<1>1. /\ UNCHANGED <<job, order, phase, held>> /\ t \in Now
      /\ Now' = Now /\ (\A r : Base(r)' = Base(r)) /\ Ranks' = Ranks
      /\ t.source \in Ranks /\ t.chunk \in Chunks
      /\ unsent' = unsent \ {t} /\ inFlight' = inFlight \cup {m}
      /\ \A u : Pending(u)' <=> Pending(u)
  BY SendFacts
<1>2. m.transfer = t /\ m.content = held[t.source][t.chunk]
  OBVIOUS
<1>3. TypeOK' /\ Generated'
  <2>1. held[t.source][t.chunk] \in Contents
    BY <1>1 DEF IInv, TypeOK
  <2>2. m \in [transfer : Transfers, content : Contents]
    BY <1>1, <2>1, NowFacts DEF IInv
  <2> HIDE DEF m
  <2> QED
    BY <1>1, <2>2, SameJob DEF IInv, TypeOK, Generated
<1> HIDE DEF m
<1>4. Book'
  BY <1>1, <1>2 DEF IInv, Book
<1>5. Covered'
  <2> SUFFICES ASSUME job.algorithm # "Ring"
               PROVE  /\ \A r \in Ranks : Holds(held[r][0], r)'
                      /\ \A l \in inFlight' : Holds(l.content, l.transfer.source)'
                      /\ \A u \in Now : Pending(u)' \/ Holds(held[u.destination][0], u.source)'
    BY <1>1 DEF Covered
  <2>1. t.chunk = 0
    BY <1>1, RankFacts DEF IInv
  <2>2. /\ \A r \in Ranks : Holds(held[r][0], r)
        /\ \A l \in inFlight : Holds(l.content, l.transfer.source)
        /\ \A u \in Now : Pending(u) \/ Holds(held[u.destination][0], u.source)
    BY DEF IInv, Covered
  <2>3. Holds(m.content, m.transfer.source)
    BY <1>1, <1>2, <2>1, <2>2
  <2>4. \A l \in inFlight' : Holds(l.content, l.transfer.source)
    BY <1>1, <2>2, <2>3
  <2> QED
    BY <1>1, <2>2, <2>4 DEF Holds
<1>6. MembersLag'
  <2> SUFFICES ASSUME job.algorithm = "Hierarchical" PROVE MembersLag'
    BY <1>1 DEF MembersLag
  <2>1. t.chunk = 0
    BY <1>1, RankFacts DEF IInv
  <2>2. m.content = held[m.transfer.source][0]
    BY <1>2, <2>1
  <2>3. Members' = Members /\ \A r : Leader(r)' = Leader(r)
    BY <1>1, SameJob DEF Leader
  <2> QED
    BY <1>1, <2>2, <2>3 DEF IInv, MembersLag
<1>7. RingInv'
  <2> SUFFICES ASSUME job.algorithm = "Ring" PROVE RingInv'
    BY <1>1 DEF RingInv
  <2>1. \A r, c : Came(r, c)' <=> Came(r, c)
    BY <1>1 DEF Came
  <2>2. /\ ReducePhases' = ReducePhases /\ PhaseCount' = PhaseCount /\ Nothing' = Nothing
        /\ (\A c : Whole(c)' = Whole(c)) /\ (\A r : Own(r)' = Own(r))
        /\ \A r, c : UpTo(r, c)' = UpTo(r, c)
    BY <1>1, SameJob
  <2>3. Reducing'
    BY <1>1, <2>1, <2>2 DEF IInv, RingInv, Reducing, Behind
  <2>4. Gathering'
    BY <1>1, <2>1, <2>2 DEF IInv, RingInv, Gathering, After, Open
  <2>5. \A l \in inFlight' : l.content = held[l.transfer.source][l.transfer.chunk]
    BY <1>1, <1>2 DEF IInv, RingInv
  <2> QED
    BY <1>1, <2>3, <2>4, <2>5 DEF RingInv
<1> QED
  BY <1>3, <1>4, <1>5, <1>6, <1>7 DEF IInv

-----------------------------------------------------------------------------
(***************************************************************************)
(* Deliver.                                                                *)
(***************************************************************************)
Landed(m) ==
  IF m.transfer.op = "REDUCE"
  THEN Sum(held[m.transfer.destination][m.transfer.chunk], m.content) ELSE m.content

LEMMA DeliverFacts ==
  ASSUME IInv, NEW m \in inFlight, Deliver(m), NEW t, t = m.transfer
  PROVE  /\ UNCHANGED <<job, order, phase, unsent>> /\ inFlight' = inFlight \ {m}
         /\ t \in Now /\ Open /\ Now' = Now
         /\ (\A r : Base(r)' = Base(r)) /\ Ranks' = Ranks
         /\ t.source \in Ranks /\ t.destination \in Ranks /\ t.chunk \in Chunks
         /\ t.source # t.destination
         /\ m.content \in Contents /\ Landed(m) \in Contents
         /\ held' \in [Ranks -> [Chunks -> Contents]]
         /\ held'[t.destination][t.chunk] = Landed(m)
         /\ \A r \in Ranks, c \in Chunks :
              r # t.destination \/ c # t.chunk => held'[r][c] = held[r][c]
         /\ \A u : Pending(u)' <=> Pending(u) /\ u # t
<1>1. UNCHANGED <<job, order, phase, unsent>> /\ inFlight' = inFlight \ {m} /\ t \in Now
  BY DEF Deliver, IInv, Book
<1>2. Now' = Now /\ (\A r : Base(r)' = Base(r)) /\ Ranks' = Ranks
  BY <1>1, SamePhase, SameJob
<1>3. /\ t.source \in Ranks /\ t.destination \in Ranks /\ t.chunk \in Chunks /\ Open
      /\ t.source # t.destination
  BY <1>1, NowFacts DEF IInv
<1>4. held \in [Ranks -> [Chunks -> Contents]] /\ m.content \in Contents
  BY DEF IInv, TypeOK
<1>5. held' = [held EXCEPT ![t.destination][t.chunk] = Landed(m)]
  BY DEF Deliver, Landed
<1>6. Landed(m) \in Contents
  <2>1. held[t.destination][t.chunk] \in Contents
    BY <1>3, <1>4
  <2> QED
    BY <1>4, <2>1, SumFacts DEF Landed
<1> DEFINE x == Landed(m)
<1> HIDE DEF x
<1>7. x \in Contents /\ held' = [held EXCEPT ![t.destination][t.chunk] = x]
  BY <1>5, <1>6 DEF x
<1>8. /\ held' \in [Ranks -> [Chunks -> Contents]]
      /\ held'[t.destination][t.chunk] = x
      /\ \A r \in Ranks, c \in Chunks :
           r # t.destination \/ c # t.chunk => held'[r][c] = held[r][c]
  BY <1>3, <1>4, <1>7
<1>9. ASSUME NEW u PROVE Pending(u)' <=> Pending(u) /\ u # t
  <2>1. CASE u = t
    <3>1. u \notin unsent /\ \A l \in inFlight : l.transfer = u => l = m
      BY <2>1 DEF IInv, Book
    <3> QED
      BY <1>1, <2>1, <3>1 DEF Pending
  <2>2. CASE u # t
    BY <1>1, <2>2 DEF Pending
  <2> QED
    BY <2>1, <2>2
<1> QED
  BY <1>1, <1>2, <1>3, <1>4, <1>6, <1>8, <1>9 DEF x

LEMMA DeliverCovered ==
  ASSUME IInv, NEW m \in inFlight, Deliver(m), job.algorithm # "Ring" PROVE Covered'
<1> DEFINE t == m.transfer
<1>1. /\ UNCHANGED <<job, order, phase, unsent>> /\ inFlight' = inFlight \ {m}
      /\ t \in Now /\ Open /\ Now' = Now
      /\ (\A r : Base(r)' = Base(r)) /\ Ranks' = Ranks
      /\ t.source \in Ranks /\ t.destination \in Ranks /\ t.chunk \in Chunks
      /\ m.content \in Contents
      /\ held'[t.destination][t.chunk] = Landed(m)
      /\ \A r \in Ranks, c \in Chunks :
           r # t.destination \/ c # t.chunk => held'[r][c] = held[r][c]
      /\ \A u : Pending(u)' <=> Pending(u) /\ u # t
  BY DeliverFacts
<1> HIDE DEF t
<1>2. Chunks = {0} /\ t.chunk = 0
  BY <1>1, RankFacts DEF IInv
<1>3. /\ \A r \in Ranks : Holds(held[r][0], r)
      /\ \A l \in inFlight : Holds(l.content, l.transfer.source)
      /\ \A u \in Now : Pending(u) \/ Holds(held[u.destination][0], u.source)
  BY DEF IInv, Covered
<1>4. /\ phase \in 0..(PhaseCount - 1) /\ Now = Phase(phase)
      /\ \A u \in Now : u.source \in Ranks /\ u.destination \in Ranks
  BY <1>1, NowFacts DEF IInv, Open
<1>5. Keeps(phase)
  BY <1>4, SinglePhases DEF IInv
<1>6. Holds(m.content, t.source)
  BY <1>3 DEF t
<1>7. \A q \in Base(t.source) : Landed(m)[q] > 0
  <2>1. held[t.destination][0] \in Contents /\ \A q \in Base(t.source) : q \in Ranks
    BY <1>1, <1>2 DEF IInv, TypeOK, Base, Reached
  <2> QED
    BY <1>1, <1>2, <1>6, <2>1, SumFacts DEF Landed, Holds, t
(* What was there is still there: added to, or replaced by no less. *)
<1>8. ASSUME NEW r, Holds(held[t.destination][0], r),
             r = t.destination \/ \E u \in Now : u.destination = t.destination /\ r = u.source
      PROVE  \A q \in Base(r) : Landed(m)[q] > 0
  <2>1. CASE t.op = "COPY"
    <3>1. Base(r) \subseteq Base(t.source)
      BY <1>1, <1>4, <1>5, <1>8, <2>1 DEF Keeps, Base
    <3> QED
      BY <1>7, <3>1
  <2>2. CASE t.op # "COPY"
    <3>1. t.op = "REDUCE"
      BY <1>1, <2>2, NowFacts DEF IInv
    <3>2. held[t.destination][0] \in Contents /\ \A q \in Base(r) : q \in Ranks
      BY <1>1, <1>2 DEF IInv, TypeOK, Base, Reached
    <3> QED
      BY <1>1, <1>2, <1>8, <3>1, <3>2, SumFacts DEF Landed, Holds, t
  <2> QED
    BY <2>1, <2>2
<1>9. ASSUME NEW r \in Ranks PROVE \A q \in Base(r) : held'[r][0][q] > 0
  <2>1. CASE r = t.destination
    BY <1>1, <1>2, <1>3, <1>8, <2>1
  <2>2. CASE r # t.destination
    BY <1>1, <1>2, <1>3, <2>2 DEF Holds
  <2> QED
    BY <2>1, <2>2
<1>10. ASSUME NEW u \in Now, ~(Pending(u)')
       PROVE  \A q \in Base(u.source) : held'[u.destination][0][q] > 0
  <2>1. CASE u = t
    BY <1>1, <1>2, <1>7, <2>1
  <2>2. CASE u # t /\ u.destination = t.destination
    <3>1. Holds(held[t.destination][0], u.source)
      BY <1>1, <1>3, <1>10, <2>2
    <3> QED
      BY <1>1, <1>2, <1>8, <2>2, <3>1
  <2>3. CASE u # t /\ u.destination # t.destination
    <3>1. Holds(held[u.destination][0], u.source) /\ u.destination \in Ranks
      BY <1>1, <1>3, <1>4, <1>10, <2>3
    <3> QED
      BY <1>1, <1>2, <2>3, <3>1 DEF Holds
  <2> QED
    BY <2>1, <2>2, <2>3
<1>11. \A l \in inFlight' : Holds(l.content, l.transfer.source)
  BY <1>1, <1>3
<1> QED
  BY <1>1, <1>9, <1>10, <1>11 DEF Covered, Holds

LEMMA DeliverMembers ==
  ASSUME IInv, NEW m \in inFlight, Deliver(m), job.algorithm = "Hierarchical"
  PROVE  MembersLag'
<1> DEFINE t == m.transfer
<1>1. /\ UNCHANGED <<job, order, phase, unsent>> /\ inFlight' = inFlight \ {m}
      /\ t \in Now /\ Open /\ Ranks' = Ranks
      /\ t.source \in Ranks /\ t.destination \in Ranks /\ t.chunk \in Chunks
      /\ held'[t.destination][t.chunk] = Landed(m)
      /\ \A r \in Ranks, c \in Chunks :
           r # t.destination \/ c # t.chunk => held'[r][c] = held[r][c]
  BY DeliverFacts
<1> HIDE DEF t
<1>2. Chunks = {0} /\ t.chunk = 0 /\ Generated
  BY <1>1, RankFacts DEF IInv
<1>3. phase \in {0, 1, 2} /\ t \in HierarchicalPhase(phase)
  BY <1>1, <1>2, NowFacts, CountFacts, PhaseFacts DEF IInv, Open
<1>4. /\ Leaders \subseteq Ranks /\ Members \subseteq Ranks /\ Leaders \cap Members = {}
      /\ \A r \in Members : Leader(r) \in Leaders
  BY <1>2, LeaderSets DEF Members
<1>5. Members' = Members /\ \A r : Leader(r)' = Leader(r)
  BY <1>1, SameJob DEF Leader
<1>6. CASE phase <= 1
  <2>1. t.destination \in Leaders
    BY <1>2, <1>3, <1>4, <1>6, NextLeaderFacts DEF HierarchicalPhase, Transfer
  <2>2. \A r \in Members : held'[r][0] = held[r][0]
    BY <1>1, <1>2, <1>4, <2>1
  <2> QED
    BY <1>1, <1>3, <1>5, <1>6, <2>2 DEF IInv, MembersLag
<1>7. CASE phase = 2
  <2>1. t.destination \in Members /\ t.source = Leader(t.destination) /\ t.op = "COPY"
    BY <1>3, <1>7 DEF HierarchicalPhase, Transfer
  <2>2. m.content = held[t.source][0]
    BY <1>7 DEF IInv, MembersLag, t
  <2>3. held'[t.destination][0] = held[Leader(t.destination)][0]
    BY <1>1, <1>2, <2>1, <2>2 DEF Landed, t
  <2>4. \A l \in Leaders : held'[l][0] = held[l][0]
    BY <1>1, <1>2, <1>4, <2>1
  <2>5. ASSUME NEW r \in Members, NEW q \in Ranks, held'[r][0][q] > 0
        PROVE  held'[Leader(r)][0][q] > 0
    <3>1. CASE r = t.destination
      BY <1>4, <2>3, <2>4, <2>5, <3>1
    <3>2. CASE r # t.destination
      <4>1. held'[r][0] = held[r][0]
        BY <1>1, <1>2, <1>4, <3>2
      <4> QED
        BY <1>4, <1>7, <2>4, <2>5, <4>1 DEF IInv, MembersLag
    <3> QED
      BY <3>1, <3>2
  <2>6. ASSUME NEW l \in inFlight' PROVE l.content = held'[l.transfer.source][0]
    <3>1. l \in inFlight /\ l.content = held[l.transfer.source][0]
      BY <1>1, <1>7 DEF IInv, MembersLag
    <3>2. l.transfer \in HierarchicalPhase(2)
      BY <1>1, <1>2, <1>7, <3>1, NowFacts, PhaseFacts DEF IInv, Book
    <3>3. l.transfer.source \in Leaders
      BY <1>4, <3>2 DEF HierarchicalPhase, Transfer
    <3> QED
      BY <2>4, <3>1, <3>3
  <2> QED
    BY <1>1, <1>5, <1>7, <2>5, <2>6 DEF MembersLag
<1> QED
  BY <1>3, <1>6, <1>7

(* What has come and what has not, when t comes. *)
LEMMA CameWith ==
  ASSUME IInv, NEW m \in inFlight, Deliver(m), NEW t, t = m.transfer,
         \A u \in Now : u.destination = t.destination => u = t
  PROVE  /\ ~Came(t.destination, t.chunk) /\ Came(t.destination, t.chunk)'
         /\ \A r, c : r # t.destination \/ c # t.chunk => (Came(r, c)' <=> Came(r, c))
<1>1. /\ t \in Now /\ Now' = Now /\ \A u : Pending(u)' <=> Pending(u) /\ u # t
  BY DeliverFacts
<1>2. Pending(t)
  BY DEF Pending
<1>3. ~Came(t.destination, t.chunk)
  BY <1>1, <1>2 DEF Came
<1>4. Came(t.destination, t.chunk)'
  BY <1>1 DEF Came
<1>5. ASSUME NEW r, NEW c, r # t.destination \/ c # t.chunk
      PROVE  Came(r, c)' <=> Came(r, c)
  <2>1. \A u : u.destination = r /\ u.chunk = c => u # t
    BY <1>5
  <2> QED
    BY <1>1, <2>1 DEF Came
<1> QED
  BY <1>3, <1>4, <1>5

LEMMA UpToStep ==
  ASSUME Generated, NEW s \in Ranks, NEW d \in Ranks, NEW c \in Ranks,
         Behind(d, c) = Behind(s, c) + 1
  PROVE  Sum(Own(d), UpTo(s, c)) = UpTo(d, c)
<1>1. \A q \in Ranks : Behind(q, c) \in Nat /\ (Behind(q, c) = Behind(d, c) <=> q = d)
  BY BehindFacts
<1>2. ASSUME NEW q \in Ranks
      PROVE  Sum(Own(d), UpTo(s, c))[q] = UpTo(d, c)[q]
  <2>1. /\ Own(d)[q] = IF q = d THEN 1 ELSE 0
        /\ UpTo(s, c)[q] = IF Behind(q, c) <= Behind(s, c) THEN 1 ELSE 0
        /\ UpTo(d, c)[q] = IF Behind(q, c) <= Behind(d, c) THEN 1 ELSE 0
    BY DEF Own, UpTo
  <2>2. /\ Behind(q, c) \in Nat /\ Behind(s, c) \in Nat /\ Behind(d, c) \in Nat
        /\ Behind(q, c) = Behind(d, c) <=> q = d
    BY <1>1
  <2>3. CASE q = d
    <3>1. Own(d)[q] = 1 /\ UpTo(s, c)[q] = 0 /\ UpTo(d, c)[q] = 1
      BY <2>1, <2>2, <2>3
    <3> QED
      BY <3>1 DEF Sum
  <2>4. CASE q # d
    <3>1. Own(d)[q] = 0 /\ UpTo(s, c)[q] = UpTo(d, c)[q] /\ UpTo(d, c)[q] \in {0, 1}
      BY <2>1, <2>2, <2>4
    <3> QED
      BY <3>1 DEF Sum
  <2> QED
    BY <2>3, <2>4
<1> QED
  BY <1>2 DEF Sum, UpTo

LEMMA DeliverReduces ==
  ASSUME IInv, NEW m \in inFlight, Deliver(m), job.algorithm = "Ring",
         phase < ReducePhases
  PROVE  RingInv'
<1> DEFINE t == m.transfer
           d == t.destination
           s == t.source
           k == t.chunk
<1>1. /\ UNCHANGED <<job, order, phase, unsent>> /\ inFlight' = inFlight \ {m}
      /\ t \in Now /\ Open
      /\ held'[d][k] = Landed(m)
      /\ \A r \in Ranks, c \in Chunks : r # d \/ c # k => held'[r][c] = held[r][c]
  BY DeliverFacts
<1>2. Generated /\ Chunks = Ranks /\ phase \in Nat /\ Now = Phase(phase)
  BY <1>1, RankFacts, NowFacts DEF IInv
<1>3. /\ \A u \in Now :
           /\ u.source \in Ranks /\ u.destination \in Ranks /\ u.chunk \in Ranks
           /\ u.op = "REDUCE"
           /\ Behind(u.source, u.chunk) = phase /\ Behind(u.destination, u.chunk) = phase + 1
      /\ \A u, v \in Now : u.destination = v.destination => u = v
  BY <1>2, RingReducePhases
<1>4. /\ ~Came(d, k) /\ Came(d, k)'
      /\ \A r, c : r # d \/ c # k => (Came(r, c)' <=> Came(r, c))
  BY <1>1, <1>3, CameWith
<1>5. /\ \A l \in inFlight : l.content = held[l.transfer.source][l.transfer.chunk]
      /\ \A l \in inFlight : l.transfer \in Now
      /\ Reducing
  BY DEF IInv, RingInv, Book
<1>6. t.op = "REDUCE" /\ s \in Ranks /\ d \in Ranks /\ k \in Ranks
      /\ Behind(s, k) = phase /\ Behind(d, k) = phase + 1
      /\ m.content = held[s][k]
  BY <1>1, <1>3, <1>5
<1>7. Landed(m) = Sum(held[d][k], m.content)
  BY <1>6 DEF Landed
<1> HIDE DEF s, d, k
<1>8. held[s][k] = UpTo(s, k) /\ held[d][k] = Own(d)
  <2>1. Behind(s, k) <= phase /\ ~(Behind(d, k) <= phase)
    BY <1>2, <1>6
  <2> QED
    BY <1>4, <1>5, <1>6, <2>1 DEF Reducing
<1>9. held'[d][k] = UpTo(d, k)
  BY <1>1, <1>2, <1>6, <1>7, <1>8, UpToStep
<1>10. /\ ReducePhases' = ReducePhases /\ Ranks' = Ranks
       /\ (\A r : Own(r)' = Own(r)) /\ \A r, c : UpTo(r, c)' = UpTo(r, c)
  BY <1>1, SameJob
<1>11. Reducing'
  <2>1. ASSUME NEW r \in Ranks, NEW c \in Ranks
        PROVE  held'[r][c] = IF \/ Behind(r, c) <= phase
                                \/ Behind(r, c) = phase + 1 /\ Came(r, c)'
                             THEN UpTo(r, c) ELSE Own(r)
    <3>1. CASE r = d /\ c = k
      BY <1>4, <1>6, <1>9, <3>1
    <3>2. CASE r # d \/ c # k
      BY <1>1, <1>2, <1>4, <1>5, <3>2 DEF Reducing
    <3> QED
      BY <3>1, <3>2
  <2> QED
    BY <1>1, <1>10, <2>1 DEF Reducing, Behind
<1>12. Gathering'
  BY <1>1, <1>2, <1>10, CountFacts DEF Gathering
<1>13. ASSUME NEW l \in inFlight'
       PROVE  l.content = held'[l.transfer.source][l.transfer.chunk]
  <2>1. l \in inFlight /\ l.transfer \in Now
    BY <1>1, <1>5
  <2>2. l.transfer.source \in Ranks /\ l.transfer.chunk \in Ranks
        /\ Behind(l.transfer.source, l.transfer.chunk) = phase
    BY <1>3, <2>1
  <2>3. l.transfer.source # d \/ l.transfer.chunk # k
    BY <1>2, <1>6, <2>2
  <2> QED
    BY <1>1, <1>2, <1>5, <2>1, <2>2, <2>3
<1> QED
  BY <1>11, <1>12, <1>13 DEF RingInv

LEMMA DeliverGathers ==
  ASSUME IInv, NEW m \in inFlight, Deliver(m), job.algorithm = "Ring",
         phase >= ReducePhases
  PROVE  RingInv' /\ m.content = Whole(m.transfer.chunk)
<1> DEFINE t == m.transfer
           d == t.destination
           s == t.source
           k == t.chunk
<1>1. /\ UNCHANGED <<job, order, phase, unsent>> /\ inFlight' = inFlight \ {m}
      /\ t \in Now /\ Open
      /\ held'[d][k] = Landed(m)
      /\ \A r \in Ranks, c \in Chunks : r # d \/ c # k => held'[r][c] = held[r][c]
  BY DeliverFacts
<1>2. /\ Generated /\ Chunks = Ranks /\ phase \in Nat /\ Now = Phase(phase)
      /\ phase < PhaseCount /\ ReducePhases \in Nat
  BY <1>1, RankFacts, NowFacts, CountFacts DEF IInv, Open
<1>3. /\ \A u \in Now :
           /\ u.source \in Ranks /\ u.destination \in Ranks /\ u.chunk \in Ranks
           /\ u.op = "COPY"
           /\ After(u.source, u.chunk) = phase - ReducePhases
           /\ After(u.destination, u.chunk) = phase + 1 - ReducePhases
      /\ \A u, v \in Now : u.destination = v.destination => u = v
  BY <1>2, RingGatherPhases
<1>4. /\ ~Came(d, k) /\ Came(d, k)'
      /\ \A r, c : r # d \/ c # k => (Came(r, c)' <=> Came(r, c))
  BY <1>1, <1>3, CameWith
<1>5. /\ \A l \in inFlight : l.content = held[l.transfer.source][l.transfer.chunk]
      /\ \A l \in inFlight : l.transfer \in Now
      /\ Gathering
  BY DEF IInv, RingInv, Book
<1>6. t.op = "COPY" /\ s \in Ranks /\ d \in Ranks /\ k \in Ranks
      /\ After(s, k) = phase - ReducePhases /\ After(d, k) = phase + 1 - ReducePhases
      /\ m.content = held[s][k]
  BY <1>1, <1>3, <1>5
<1>7. Landed(m) = m.content
  BY <1>6 DEF Landed
<1> HIDE DEF s, d, k
<1>8. held[s][k] = Whole(k)
  <2>1. After(s, k) <= phase - ReducePhases
    BY <1>2, <1>6
  <2> QED
    BY <1>5, <1>6, <2>1 DEF Gathering
<1>9. held'[d][k] = Whole(k)
  BY <1>1, <1>6, <1>7, <1>8
<1>10. /\ ReducePhases' = ReducePhases /\ Ranks' = Ranks /\ Nothing' = Nothing
       /\ PhaseCount' = PhaseCount /\ \A c : Whole(c)' = Whole(c)
  BY <1>1, SameJob
<1>11. Gathering'
  <2>1. ASSUME NEW r \in Ranks, NEW c \in Ranks
        PROVE  IF \/ After(r, c) <= phase - ReducePhases
                  \/ Open /\ After(r, c) = phase + 1 - ReducePhases /\ Came(r, c)'
               THEN held'[r][c] = Whole(c)
               ELSE job.primitive = "AllGather" => held'[r][c] = Nothing
    <3>1. CASE r = d /\ c = k
      BY <1>1, <1>4, <1>6, <1>9, <3>1
    <3>2. CASE r # d \/ c # k
      BY <1>1, <1>2, <1>4, <1>5, <3>2 DEF Gathering
    <3> QED
      BY <3>1, <3>2
  <2> QED
    BY <1>1, <1>10, <2>1 DEF Gathering, After, Open
<1>12. Reducing'
  BY <1>1, <1>2, <1>10 DEF Reducing
<1>13. ASSUME NEW l \in inFlight'
       PROVE  l.content = held'[l.transfer.source][l.transfer.chunk]
  <2>1. l \in inFlight /\ l.transfer \in Now
    BY <1>1, <1>5
  <2>2. l.transfer.source \in Ranks /\ l.transfer.chunk \in Ranks
        /\ After(l.transfer.source, l.transfer.chunk) = phase - ReducePhases
    BY <1>3, <2>1
  <2>3. l.transfer.source # d \/ l.transfer.chunk # k
    BY <1>2, <1>6, <2>2
  <2> QED
    BY <1>1, <1>2, <1>5, <2>1, <2>2, <2>3
<1> QED
  BY <1>6, <1>8, <1>11, <1>12, <1>13 DEF RingInv, k

LEMMA DeliverInv == ASSUME IInv, NEW m \in inFlight, Deliver(m) PROVE IInv'
<1> DEFINE t == m.transfer
<1>1. /\ UNCHANGED <<job, order, phase, unsent>> /\ inFlight' = inFlight \ {m}
      /\ Now' = Now /\ Ranks' = Ranks
      /\ held' \in [Ranks -> [Chunks -> Contents]]
  BY DeliverFacts
<1>2. TypeOK' /\ Generated' /\ Book'
  BY <1>1, SameJob DEF IInv, TypeOK, Generated, Book
<1>3. Covered'
  <2>1. CASE job.algorithm = "Ring"
    BY <1>1, <2>1 DEF Covered
  <2> QED
    BY <2>1, DeliverCovered
<1>4. MembersLag'
  <2>1. CASE job.algorithm # "Hierarchical"
    BY <1>1, <2>1 DEF MembersLag
  <2> QED
    BY <2>1, DeliverMembers
<1>5. RingInv'
  <2>1. CASE job.algorithm # "Ring"
    BY <1>1, <2>1 DEF RingInv
  <2>2. phase \in Nat /\ ReducePhases \in Nat
    BY NowFacts, CountFacts DEF IInv
  <2> QED
    BY <2>1, <2>2, DeliverReduces, DeliverGathers
<1> QED
  BY <1>2, <1>3, <1>4, <1>5 DEF IInv

-----------------------------------------------------------------------------
(***************************************************************************)
(* NextPhase.                                                              *)
(***************************************************************************)
LEMMA NextPhaseFacts ==
  ASSUME IInv, NextPhase
  PROVE  /\ UNCHANGED <<job, order, inFlight, held>> /\ phase' = phase + 1
         /\ Generated /\ Ranks' = Ranks /\ phase \in Nat /\ PhaseCount \in Nat
         /\ phase < PhaseCount /\ phase \in 0..(PhaseCount - 1)
         /\ Open /\ Now = Phase(phase) /\ inFlight' = {}
         /\ \A t : ~Pending(t)
         /\ Now' = (IF phase + 1 < PhaseCount THEN Phase(phase + 1) ELSE {})
         /\ \A t \in Now' : Pending(t)'
         /\ (\A r : Base(r)' = Reached(r, phase + 1))
         /\ unsent' = Now'
<1>1. /\ UNCHANGED <<job, order, inFlight, held>> /\ phase' = phase + 1
      /\ phase < PhaseCount /\ unsent = {} /\ inFlight = {}
      /\ unsent' = IF phase + 1 < PhaseCount THEN Phase(phase + 1) ELSE {}
  BY DEF NextPhase
<1>2. /\ Generated /\ phase \in Nat /\ PhaseCount \in Nat /\ Open /\ Now = Phase(phase)
  BY <1>1, NowFacts DEF IInv, Open
<1>3. /\ Now' = (IF phase + 1 < PhaseCount THEN Phase(phase + 1) ELSE {})
      /\ \A r : Base(r)' = Reached(r, phase + 1)
  BY <1>1, LaterPhase
<1>4. Ranks' = Ranks
  BY <1>1, SameJob
<1>5. unsent' = Now'
  BY <1>1, <1>3
<1>6. (\A t : ~Pending(t)) /\ \A t \in Now' : Pending(t)'
  BY <1>1, <1>5 DEF Pending
<1> QED
  BY <1>1, <1>2, <1>3, <1>4, <1>5, <1>6

LEMMA NextPhaseCovered ==
  ASSUME IInv, NextPhase, job.algorithm # "Ring"
  PROVE  /\ Covered'
         /\ \A r \in Ranks : \A q \in Reached(r, phase + 1) : held[r][0][q] > 0
<1>1. /\ UNCHANGED <<job, order, inFlight, held>>
      /\ Generated /\ Ranks' = Ranks /\ phase \in 0..(PhaseCount - 1)
      /\ Now = Phase(phase) /\ inFlight' = {}
      /\ (\A t : ~Pending(t)) /\ (\A t \in Now' : Pending(t)')
      /\ \A r : Base(r)' = Reached(r, phase + 1)
  BY NextPhaseFacts
<1>2. /\ \A r \in Ranks : Holds(held[r][0], r)
      /\ \A t \in Now : Holds(held[t.destination][0], t.source)
  BY <1>1 DEF IInv, Covered
<1>3. Brings(phase)
  BY <1>1, SinglePhases
<1>4. ASSUME NEW r \in Ranks, NEW q \in Reached(r, phase + 1) PROVE held[r][0][q] > 0
  <2>1. CASE q \in Reached(r, phase)
    BY <1>2, <2>1 DEF Holds, Base
  <2>2. CASE q \notin Reached(r, phase)
    <3>1. PICK t \in Now : t.destination = r /\ q \in Reached(t.source, phase)
      <4>1. q \in Ranks
        BY DEF Reached
      <4> QED
        BY <1>1, <1>3, <2>2, <4>1 DEF Brings
    <3>2. Holds(held[r][0], t.source)
      BY <1>2, <3>1
    <3> QED
      BY <3>1, <3>2 DEF Holds, Base
  <2> QED
    BY <2>1, <2>2
<1>5. \A r \in Ranks : Holds(held[r][0], r)'
  BY <1>1, <1>4 DEF Holds
<1> QED
  BY <1>1, <1>4, <1>5 DEF Covered

LEMMA NextPhaseMembers ==
  ASSUME IInv, NextPhase, job.algorithm = "Hierarchical" PROVE MembersLag'
<1>1. /\ UNCHANGED <<job, order, inFlight, held>> /\ phase' = phase + 1
      /\ Generated /\ Ranks' = Ranks /\ phase \in Nat /\ inFlight' = {}
  BY NextPhaseFacts
<1>2. Members' = Members /\ \A r : Leader(r)' = Leader(r)
  BY <1>1, SameJob DEF Leader
<1>3. CASE phase = 1
  <2>1. ASSUME NEW r \in Members, NEW q \in Ranks, held[r][0][q] > 0
        PROVE  held[Leader(r)][0][q] > 0
    <3>1. q = r
      BY <1>3, <2>1 DEF IInv, MembersLag
    <3>2. Leader(r) \in Ranks /\ r \in Ranks
      BY <1>1, LeaderSets
    <3>3. r \in Reached(Leader(r), phase + 1)
      BY <1>3, <3>2 DEF Reached, HierarchicalReached
    <3> QED
      BY <3>1, <3>2, <3>3, NextPhaseCovered
  <2> QED
    BY <1>1, <1>2, <1>3, <2>1 DEF MembersLag
<1>4. CASE phase # 1
  BY <1>1, <1>2, <1>4 DEF IInv, MembersLag
<1> QED
  BY <1>3, <1>4

LEMMA NextPhaseRing ==
  ASSUME IInv, NextPhase, job.algorithm = "Ring" PROVE RingInv'
<1>1. /\ UNCHANGED <<job, order, inFlight, held>> /\ phase' = phase + 1
      /\ Generated /\ Ranks' = Ranks /\ phase \in Nat /\ PhaseCount \in Nat
      /\ phase < PhaseCount /\ Open /\ inFlight' = {}
      /\ (\A t : ~Pending(t)) /\ (\A t \in Now' : Pending(t)')
      /\ Now' = (IF phase + 1 < PhaseCount THEN Phase(phase + 1) ELSE {})
  BY NextPhaseFacts
<1>2. /\ ReducePhases \in {0, job.ranks - 1} /\ job.ranks \in Nat /\ job.ranks >= 2
      /\ ReducePhases = 0 <=> job.primitive = "AllGather"
      /\ ReducePhases \in Nat /\ ReducePhases <= PhaseCount
  BY <1>1, RingCounts, JobFacts, CountFacts
<1>3. /\ ReducePhases' = ReducePhases /\ PhaseCount' = PhaseCount /\ Nothing' = Nothing
      /\ (\A c : Whole(c)' = Whole(c)) /\ (\A r : Own(r)' = Own(r))
      /\ \A r, c : UpTo(r, c)' = UpTo(r, c)
  BY <1>1, SameJob
<1>4. /\ \A r, c \in Ranks : Behind(r, c) \in 0..(job.ranks - 1)
      /\ \A r, c \in Ranks : Behind(r, c) = job.ranks - 1 <=> r = c
      /\ \A r, c \in Ranks : After(r, c) \in 0..(job.ranks - 1)
      /\ \A r, c \in Ranks : After(r, c) = 0 <=> r = c
  BY <1>1, BehindFacts, AfterFacts
<1>5. Reducing /\ Gathering /\ \A r, c : Came(r, c)
  BY <1>1 DEF IInv, RingInv, Came
<1>6. phase + 1 <= ReducePhases =>
        \A r, c \in Ranks :
          held[r][c] = IF Behind(r, c) <= phase + 1 THEN UpTo(r, c) ELSE Own(r)
  <2> SUFFICES ASSUME phase < ReducePhases, NEW r \in Ranks, NEW c \in Ranks
               PROVE  held[r][c] = IF Behind(r, c) <= phase + 1 THEN UpTo(r, c) ELSE Own(r)
    BY <1>1, <1>2
  <2>1. Behind(r, c) <= phase + 1 <=> Behind(r, c) <= phase \/ Behind(r, c) = phase + 1
    BY <1>1, <1>4
  <2> QED
    BY <1>5, <2>1 DEF Reducing
<1>7. Reducing'
  <2>1. ASSUME phase + 1 < ReducePhases, NEW r \in Ranks, NEW c \in Ranks,
               Behind(r, c) = (phase + 1) + 1
        PROVE  ~(Came(r, c)')
    <3>1. phase + 1 \in Nat /\ phase + 1 < PhaseCount
      BY <1>1, <1>2, <2>1
    <3>2. PICK t \in Phase(phase + 1) : t.destination = r /\ t.chunk = c
      BY <1>1, <2>1, <3>1, RingReducePhases
    <3>3. t \in Now' /\ Pending(t)'
      BY <1>1, <3>1
    <3> QED
      BY <3>2, <3>3 DEF Came
  <2>2. ASSUME phase + 1 < ReducePhases, NEW r \in Ranks, NEW c \in Ranks
        PROVE  held[r][c] = IF \/ Behind(r, c) <= phase + 1
                               \/ Behind(r, c) = (phase + 1) + 1 /\ Came(r, c)'
                            THEN UpTo(r, c) ELSE Own(r)
    BY <1>1, <1>2, <1>6, <2>1, <2>2
  <2> QED
    BY <1>1, <1>3, <2>2 DEF Reducing, Behind
<1>8. phase + 1 >= ReducePhases =>
        \A r, c \in Ranks :
          IF After(r, c) <= (phase + 1) - ReducePhases THEN held[r][c] = Whole(c)
          ELSE job.primitive = "AllGather" => held[r][c] = Nothing
  <2>1. CASE phase >= ReducePhases
    <3> SUFFICES ASSUME NEW r \in Ranks, NEW c \in Ranks
                 PROVE  IF After(r, c) <= (phase + 1) - ReducePhases
                        THEN held[r][c] = Whole(c)
                        ELSE job.primitive = "AllGather" => held[r][c] = Nothing
      OBVIOUS
    <3>1. After(r, c) <= (phase + 1) - ReducePhases <=>
            \/ After(r, c) <= phase - ReducePhases
            \/ After(r, c) = phase + 1 - ReducePhases
      BY <1>1, <1>2, <1>4, <2>1
    <3> QED
      BY <1>1, <1>5, <2>1, <3>1 DEF Gathering
  <2>2. CASE phase + 1 = ReducePhases
    <3>1. ReducePhases = job.ranks - 1 /\ job.primitive # "AllGather"
      BY <1>1, <1>2, <2>2
    <3>2. ASSUME NEW r \in Ranks, NEW c \in Ranks, After(r, c) <= (phase + 1) - ReducePhases
          PROVE  held[r][c] = Whole(c)
      <4>1. r = c /\ Behind(c, c) = job.ranks - 1
        BY <1>1, <1>2, <1>4, <2>2, <3>2
      <4>2. held[r][c] = UpTo(c, c)
        BY <1>1, <1>2, <1>6, <2>2, <3>1, <4>1
      <4>3. \A q \in Ranks : Behind(q, c) <= Behind(c, c)
        BY <1>2, <1>4, <4>1
      <4>4. UpTo(c, c) = Whole(c)
        BY <3>1, <4>3 DEF UpTo, Whole
      <4> QED
        BY <4>2, <4>4
    <3> QED
      BY <3>1, <3>2
  <2> QED
    BY <1>1, <1>2, <2>1, <2>2
<1>9. Gathering'
  <2>1. ASSUME phase + 1 >= ReducePhases, phase + 1 < PhaseCount,
               NEW r \in Ranks, NEW c \in Ranks,
               After(r, c) = (phase + 1) + 1 - ReducePhases
        PROVE  ~(Came(r, c)')
    <3>1. phase + 1 \in Nat
      BY <1>1
    <3>2. PICK t \in Phase(phase + 1) : t.destination = r /\ t.chunk = c
      BY <1>1, <2>1, <3>1, RingGatherPhases
    <3>3. t \in Now' /\ Pending(t)'
      BY <1>1, <2>1
    <3> QED
      BY <3>2, <3>3 DEF Came
  <2>2. ASSUME phase + 1 >= ReducePhases, NEW r \in Ranks, NEW c \in Ranks
        PROVE  IF \/ After(r, c) <= (phase + 1) - ReducePhases
                  \/ /\ phase + 1 < PhaseCount
                     /\ After(r, c) = (phase + 1) + 1 - ReducePhases /\ Came(r, c)'
               THEN held[r][c] = Whole(c)
               ELSE job.primitive = "AllGather" => held[r][c] = Nothing
    BY <1>8, <2>1, <2>2
  <2> QED
    BY <1>1, <1>3, <2>2 DEF Gathering, After, Open
<1> QED
  BY <1>1, <1>7, <1>9 DEF RingInv

LEMMA NextPhaseInv == ASSUME IInv, NextPhase PROVE IInv'
<1>1. /\ UNCHANGED <<job, order, inFlight, held>> /\ phase' = phase + 1
      /\ Generated /\ Ranks' = Ranks /\ phase \in Nat /\ PhaseCount \in Nat
      /\ phase < PhaseCount /\ inFlight' = {} /\ unsent' = Now'
      /\ Now' = (IF phase + 1 < PhaseCount THEN Phase(phase + 1) ELSE {})
  BY NextPhaseFacts
<1>2. Generated' /\ Book'
  BY <1>1, SameJob DEF Generated, Book
<1>3. TypeOK'
  <2>1. \A t \in unsent' : t \in Transfers /\ t.source # t.destination
    <3>1. CASE phase + 1 < PhaseCount
      <4>1. phase + 1 \in Nat
        BY <1>1
      <4>2. Proper(phase + 1)
        BY <1>1, <3>1, <4>1, AllProper
      <4> QED
        BY <1>1, <3>1, <4>2 DEF Proper
    <3>2. CASE ~(phase + 1 < PhaseCount)
      BY <1>1, <3>2
    <3> QED
      BY <3>1, <3>2
  <2>2. phase + 1 \in 0..PhaseCount
    BY <1>1
  <2> QED
    BY <1>1, <2>1, <2>2, SameJob DEF IInv, TypeOK
<1>4. Covered'
  <2>1. CASE job.algorithm = "Ring"
    BY <1>1, <2>1 DEF Covered
  <2> QED
    BY <2>1, NextPhaseCovered
<1>5. MembersLag'
  <2>1. CASE job.algorithm # "Hierarchical"
    BY <1>1, <2>1 DEF MembersLag
  <2> QED
    BY <2>1, NextPhaseMembers
<1>6. RingInv'
  <2>1. CASE job.algorithm # "Ring"
    BY <1>1, <2>1 DEF RingInv
  <2> QED
    BY <2>1, NextPhaseRing
<1> QED
  BY <1>2, <1>3, <1>4, <1>5, <1>6 DEF IInv

-----------------------------------------------------------------------------
LEMMA StutterInv == ASSUME IInv, UNCHANGED vars PROVE IInv'
<1>1. /\ UNCHANGED <<job, order, phase, unsent, inFlight, held>>
      /\ Now' = Now /\ (\A r : Base(r)' = Base(r)) /\ Ranks' = Ranks
  BY SameJob, SamePhase DEF vars
<1>2. /\ Chunks' = Chunks /\ Transfers' = Transfers /\ Jobs' = Jobs /\ Orders' = Orders
      /\ Members' = Members /\ PhaseCount' = PhaseCount /\ ReducePhases' = ReducePhases
      /\ Contents' = Contents /\ Nothing' = Nothing
      /\ (\A c : Whole(c)' = Whole(c)) /\ (\A r : Own(r)' = Own(r))
      /\ \A r, c : UpTo(r, c)' = UpTo(r, c)
  BY <1>1, SameJob
<1>3. TypeOK' /\ Generated' /\ Book'
  BY <1>1, <1>2 DEF IInv, TypeOK, Generated, Book
<1>4. \A u : Pending(u)' <=> Pending(u)
  BY <1>1 DEF Pending
<1>5. Covered'
  BY <1>1, <1>4 DEF IInv, Covered, Holds
<1>6. MembersLag'
  BY <1>1, <1>2 DEF IInv, MembersLag, Leader
<1>7. RingInv'
  <2>1. \A r, c : Came(r, c)' <=> Came(r, c)
    BY <1>1, <1>4 DEF Came
  <2> QED
    BY <1>1, <1>2, <2>1 DEF IInv, RingInv, Reducing, Gathering, Behind, After, Open
<1> QED
  BY <1>3, <1>5, <1>6, <1>7 DEF IInv

(* The inductive invariant holds in every execution of a schedule. *)
THEOREM Invariance == Spec => []IInv
<1>1. Init => IInv
  BY InitInv
<1>2. IInv /\ [Next]_vars => IInv'
  BY SendInv, DeliverInv, NextPhaseInv, StutterInv DEF Next
<1> QED
  BY <1>1, <1>2, PTL DEF Spec

(* Every schedule's transfers are between two different ranks and within    *)
(* the job, and every chunk keeps a content (generate_* and the dependency  *)
(* between phases).                                                         *)
THEOREM TypeCorrectness == Spec => []TypeOK
<1>1. IInv => TypeOK
  BY DEF IInv
<1> QED
  BY <1>1, Invariance, PTL

(* What the chunks of a Ring schedule hold when its last phase is over. *)
LEMMA RingEnd ==
  ASSUME IInv, phase = PhaseCount, job.algorithm = "Ring",
         NEW r \in Ranks, NEW c \in Ranks, NEW p \in Promised(r, c)
  PROVE  /\ held[r][c] = Whole(c)
         /\ \A q \in Ranks : Whole(c)[q] = IF q \in Promised(r, c) THEN 1 ELSE 0
<1>1. /\ Generated /\ job.ranks \in Nat
      /\ job.primitive \in {"AllReduce", "AllGather", "ReduceScatter"}
  BY JobFacts DEF IInv
<1>2. /\ ReducePhases \in {0, job.ranks - 1} /\ GatherPhases \in {0, job.ranks - 1}
      /\ GatherPhases = 0 <=> job.primitive = "ReduceScatter"
      /\ PhaseCount = ReducePhases + GatherPhases
      /\ ReducePhases \in Nat /\ GatherPhases \in Nat
  BY <1>1, RingCounts, CountFacts
<1>3. /\ After(r, c) \in 0..(job.ranks - 1) /\ (After(r, c) = 0 <=> r = c)
  BY <1>1, AfterFacts
<1>4. job.primitive = "ReduceScatter" => r = c
  BY <1>1 DEF Promised
<1>5. After(r, c) <= phase - ReducePhases /\ phase >= ReducePhases
  BY <1>1, <1>2, <1>3, <1>4
<1>6. held[r][c] = Whole(c)
  BY <1>5 DEF IInv, RingInv, Gathering
<1>7. Promised(r, c) = IF job.primitive = "AllGather" THEN {c} ELSE Ranks
  BY <1>1, <1>4 DEF Promised
<1> QED
  BY <1>6, <1>7 DEF Whole

(* For every number of ranks, a Ring schedule leaves each contribution that *)
(* the primitive promises a rank in its chunk exactly once, however the     *)
(* transfers of a phase are interleaved (ring_schedule.py, generate_ring).  *)
THEOREM RingsAreExact == Spec => []RingExactlyOnce
<1>1. ASSUME IInv PROVE RingExactlyOnce
  <2> SUFFICES ASSUME phase = PhaseCount, job.algorithm = "Ring",
                      NEW r \in Ranks, NEW c \in Ranks, Promised(r, c) # {}
               PROVE  held[r][c] = [q \in Ranks |-> IF q \in Promised(r, c) THEN 1 ELSE 0]
    BY <1>1, RankFacts DEF RingExactlyOnce, IInv
  <2>1. PICK p \in Promised(r, c) : TRUE
    OBVIOUS
  <2>2. /\ held[r][c] = Whole(c)
        /\ \A q \in Ranks : Whole(c)[q] = IF q \in Promised(r, c) THEN 1 ELSE 0
    BY <1>1, <2>1, RingEnd
  <2>3. Whole(c) = [q \in Ranks |-> Whole(c)[q]]
    BY DEF Whole
  <2> QED
    BY <2>2, <2>3
<1> QED
  BY <1>1, Invariance, PTL

(* Every schedule leaves every rank with every contribution the primitive   *)
(* promises it - a Hierarchical one if it has at most two groups: for every *)
(* number of ranks, every order nhr_order may find and every interleaving   *)
(* of the transfers of a phase.                                             *)
THEOREM SchedulesComplete == Spec => [](TwoGroups => Complete)
<1>1. ASSUME IInv, TwoGroups PROVE Complete
  <2> SUFFICES ASSUME phase = PhaseCount, NEW r \in Ranks, NEW c \in Chunks,
                      NEW q \in Promised(r, c)
               PROVE  held[r][c][q] > 0
    BY DEF Complete
  <2>1. Generated
    BY <1>1 DEF IInv
  <2>2. CASE job.algorithm = "Ring"
    <3>1. c \in Ranks
      BY <2>1, <2>2, RankFacts
    <3>2. q \in Ranks
      BY <2>1, <3>1, JobFacts DEF Promised
    <3> QED
      BY <1>1, <2>2, <3>1, <3>2, RingEnd
  <2>3. CASE job.algorithm # "Ring"
    <3>1. c = 0
      BY <2>1, <2>3, RankFacts
    <3>2. q \in Ranks
      BY <2>1, <2>3, JobFacts DEF Promised
    <3>3. Base(r) = Ranks
      <4>1. Reached(r, PhaseCount) = Ranks
        BY <1>1, <2>1, <2>3, ReachedAtEnd
      <4> QED
        BY <4>1 DEF Base
    <3> QED
      BY <1>1, <2>3, <3>1, <3>2, <3>3 DEF IInv, Covered, Holds
  <2> QED
    BY <2>2, <2>3
<1> QED
  BY <1>1, Invariance, PTL

LEMMA DeliveryKeeps ==
  ASSUME IInv, NEW m \in inFlight, Deliver(m), NEW q \in Ranks,
         held[m.transfer.destination][m.transfer.chunk][q] > 0
  PROVE  Landed(m)[q] > 0
<1> DEFINE t == m.transfer
<1>1. /\ t \in Now /\ Open /\ m.content \in Contents
      /\ t.source \in Ranks /\ t.destination \in Ranks /\ t.chunk \in Chunks
  BY DeliverFacts
<1>2. /\ Generated /\ phase \in 0..(PhaseCount - 1) /\ Now = Phase(phase)
      /\ t.op \in {"REDUCE", "COPY"} /\ phase \in Nat
  BY <1>1, NowFacts DEF IInv, Open
<1> HIDE DEF t
<1>3. CASE t.op = "REDUCE"
  <2>1. held[t.destination][t.chunk] \in Contents
    BY <1>1 DEF IInv, TypeOK
  <2> QED
    BY <1>1, <1>3, <2>1, SumFacts DEF Landed, t
<1>4. CASE t.op = "COPY" /\ job.algorithm = "Ring"
  <2>1. phase >= ReducePhases
    BY <1>1, <1>2, <1>4, RingReducePhases, CountFacts
  <2>2. Landed(m) = Whole(t.chunk)
    BY <1>4, <2>1, DeliverGathers DEF Landed, t
  <2>3. CASE job.primitive # "AllGather"
    BY <2>2, <2>3 DEF Whole
  <2>4. CASE job.primitive = "AllGather"
    <3>1. t.destination \in Ranks /\ t.chunk \in Ranks
          /\ After(t.destination, t.chunk) = phase + 1 - ReducePhases
      <4>1. phase < PhaseCount /\ t \in Phase(phase)
        BY <1>1, <1>2 DEF Open
      <4> QED
        BY <1>2, <1>4, <2>1, <4>1, RingGatherPhases
    <3>2. ~Came(t.destination, t.chunk)
      <4>1. Pending(t)
        BY DEF Pending, t
      <4> QED
        BY <1>1, <4>1 DEF Came
    <3>3. held[t.destination][t.chunk] = Nothing
      <4>1. ~(After(t.destination, t.chunk) <= phase - ReducePhases)
        BY <1>2, <3>1, CountFacts
      <4> QED
        BY <1>4, <2>1, <2>4, <3>1, <3>2, <4>1 DEF IInv, RingInv, Gathering
    <3> QED
      BY <3>3 DEF Nothing, t
  <2> QED
    BY <2>3, <2>4
<1>5. CASE t.op = "COPY" /\ job.algorithm = "NHR"
  <2>1. phase >= job.ranks - 1
    BY <1>1, <1>2, <1>5, PhaseFacts, JobFacts DEF NhrPhase, Transfer
  <2>2. Base(t.source) = Ranks
    BY <1>1, <1>2, <1>5, <2>1, NhrFull DEF Base
  <2> QED
    BY <1>5, <2>2 DEF IInv, Covered, Holds, Landed, t
<1>6. CASE t.op = "COPY" /\ job.algorithm = "Hierarchical"
  <2>1. t.chunk = 0
    BY <1>1, <1>2, <1>6, RankFacts
  <2>2. phase \in {0, 1, 2} /\ t \in HierarchicalPhase(phase)
    BY <1>1, <1>2, <1>6, PhaseFacts, CountFacts
  <2>3. phase = 2 /\ t.destination \in Members /\ t.source = Leader(t.destination)
    BY <1>6, <2>2 DEF HierarchicalPhase, Transfer
  <2> QED
    BY <1>6, <2>1, <2>3 DEF IInv, MembersLag, Landed, t
<1>7. CASE t.op = "COPY" /\ job.algorithm \in {"Butterfly", "Mesh"}
  <2>1. t \in ButterflyPhase(phase) \/ t \in MeshPhase(phase)
    BY <1>1, <1>2, <1>7, PhaseFacts
  <2> QED
    BY <1>7, <2>1 DEF ButterflyPhase, MeshPhase, Transfer
<1> QED
  BY <1>2, <1>3, <1>4, <1>5, <1>6, <1>7, JobFacts

(* No step of any schedule loses a contribution a chunk had: REDUCE adds to *)
(* it, and COPY only overwrites a chunk whose contributions the sender has  *)
(* too, although the sender read them before the chunk is overwritten.      *)
THEOREM NothingIsLost == Spec => NothingLost
<1> DEFINE Stays == \A r \in Ranks, c \in Chunks, q \in Ranks :
                      held[r][c][q] > 0 => held'[r][c][q] > 0
<1>1. ASSUME IInv, NEW m \in inFlight, Deliver(m) PROVE Stays
  <2> SUFFICES ASSUME NEW r \in Ranks, NEW c \in Chunks, NEW q \in Ranks, held[r][c][q] > 0
               PROVE  held'[r][c][q] > 0
    OBVIOUS
  <2>1. /\ held'[m.transfer.destination][m.transfer.chunk] = Landed(m)
        /\ r # m.transfer.destination \/ c # m.transfer.chunk => held'[r][c] = held[r][c]
    BY <1>1, DeliverFacts
  <2>2. CASE r = m.transfer.destination /\ c = m.transfer.chunk
    BY <1>1, <2>1, <2>2, DeliveryKeeps
  <2> QED
    BY <2>1, <2>2
<1>2. IInv /\ [Next]_vars => [Stays]_vars
  BY <1>1 DEF Next, Send, NextPhase, vars
<1>3. Spec => [][Stays]_vars
  <2> HIDE DEF Stays
  <2> QED
    BY <1>2, Invariance, PTL DEF Spec
<1> QED
  BY <1>3 DEF NothingLost

=============================================================================
