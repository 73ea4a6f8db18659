-------------------------- MODULE TransportProofs ---------------------------
(***************************************************************************)
(* Theorems about the two parts of the transport.                          *)
(*                                                                         *)
(* FlowControl, for every value of its bounds: the self check never        *)
(* raises, the high watermark bounds the pipe, the tick budget suffices,   *)
(* and the pipe implements BoundedChannel.                                 *)
(*                                                                         *)
(* IntegrityTransport, for every set of configurations and every bound:    *)
(* type correctness, exact accounting of retransmission, verification      *)
(* before acceptance, and which transfers succeed.                         *)
(***************************************************************************)
EXTENDS FlowControl, IntegrityTransport, TLAPS

-----------------------------------------------------------------------------
(***************************************************************************)
(* Flow control.                                                           *)
(***************************************************************************)
LastCapacity == args.pattern[Len(args.pattern)]

(* The counts the argument is about.  They are named so that the arithmetic *)
(* steps need not look inside a sequence.                                  *)
Depth == Len(inflight)
Done == Len(completed)
Prologue == Len(args.pattern)

(* 1 while the pipe holds a chunk: the tick at hand will consume. *)
Ready == IF Depth = 0 THEN 0 ELSE 1

(* The pipe's counters agree with each other. *)
Conserved ==
  /\ credit + Depth = args.credit_window
  /\ Depth <= args.max_inflight
  /\ Done + Depth = produced

(* What the pause flag says about the pipe. *)
PauseInv ==
  /\ at = "produce" /\ paused => Depth > args.low
  /\ args.low < args.high =>
       /\ Depth <= args.high
       /\ Depth = args.high => paused

(* Two ticks suffice to complete a chunk once the pattern has ended. *)
ProgressInv ==
  LastCapacity > 0 =>
    /\ at = "loop" => Drained \/ tick <= Prologue + 2 * Done + Ready
    /\ at = "produce" =>
         tick <= Prologue + 2 * Done /\ (Depth = 0 => burst = 0)
    /\ at = "check" => Drained \/ tick + 1 <= Prologue + 2 * Done + Ready
    /\ at = "done" => Drained

(* A tick is only under way within the budget, and counts at most one block. *)
BudgetInv ==
  /\ at \in {"produce", "check"} => tick < TickBudget
  /\ blocked <= IF at = "check" THEN tick + 1 ELSE tick

FlowInv ==
  /\ FlowTypeOK /\ Conserved /\ PauseInv /\ ProgressInv /\ BudgetInv
  /\ NeverRaises

-----------------------------------------------------------------------------
(* What validation guarantees of the arguments. *)
ArgsOK ==
  /\ args.total \in Nat
  /\ args.credit_window \in Nat /\ args.max_inflight \in Nat
  /\ args.high \in Nat /\ args.low \in Nat
  /\ args.rate \in Nat /\ 1 <= args.rate
  /\ 1 <= args.max_inflight /\ args.max_inflight <= args.credit_window
  /\ args.low <= args.high /\ args.high <= args.max_inflight
  /\ Prologue \in Nat /\ Prologue >= 1
  /\ TickBudget \in Nat

LEMMA ArgsFacts == args \in Args => ArgsOK /\ args.pattern \in Seq(Nat)
<1> SUFFICES ASSUME args \in Args PROVE ArgsOK /\ args.pattern \in Seq(Nat)
  OBVIOUS
<1>1. /\ args.pattern \in Patterns
      /\ args.total \in 0..MaxTotal
      /\ args.credit_window \in 1..MaxWindow
      /\ args.max_inflight \in 1..MaxWindow
      /\ args.high \in 0..MaxWindow /\ args.low \in 0..MaxWindow
      /\ args.rate \in 1..MaxRate
      /\ ValidFlowConfig(args)
  BY DEF Args
<1>2. PICK n \in 1..MaxPattern : args.pattern \in [1..n -> 0..MaxCapacity]
  BY <1>1 DEF Patterns
<1>3. n \in Nat /\ n >= 1
  BY <1>2, BoundsAssumption
<1>4. args.pattern \in Seq(Nat) /\ Len(args.pattern) = n
  BY <1>2, <1>3, BoundsAssumption
<1>5. /\ args.total \in Nat
      /\ args.credit_window \in Nat /\ args.max_inflight \in Nat
      /\ args.high \in Nat /\ args.low \in Nat
      /\ args.rate \in Nat /\ 1 <= args.rate
  BY <1>1, BoundsAssumption
<1>6. Prologue \in Nat /\ Prologue >= 1
  BY <1>3, <1>4 DEF Prologue
<1>7. TickBudget \in Nat
  BY <1>5, <1>6 DEF TickBudget, Larger, Prologue
<1> QED
  BY <1>1, <1>4, <1>5, <1>6, <1>7 DEF ArgsOK, ValidFlowConfig

(* The counts are numbers, and the pipe is empty exactly when its depth is 0. *)
LEMMA CountFacts ==
  ASSUME FlowTypeOK
  PROVE  /\ ArgsOK
         /\ Depth \in Nat /\ Done \in Nat
         /\ (inflight = <<>>) <=> (Depth = 0)
         /\ tick \in Nat /\ burst \in Nat /\ produced \in Nat
         /\ blocked \in Nat /\ credit \in Int
<1>1. ArgsOK
  BY ArgsFacts DEF FlowTypeOK
<1>2. /\ Len(inflight) \in Nat /\ Len(completed) \in Nat
      /\ (inflight = <<>>) <=> (Len(inflight) = 0)
  BY DEF FlowTypeOK
<1>3. tick \in Nat /\ burst \in Nat /\ produced \in Nat /\ blocked \in Nat
  BY <1>1 DEF FlowTypeOK, ArgsOK
<1> QED
  BY <1>1, <1>2, <1>3 DEF Depth, Done, FlowTypeOK

(* After the pattern its last capacity holds. *)
LEMMA CapacityFacts ==
  ASSUME FlowTypeOK
  PROVE  Capacity \in Nat /\ (tick >= Prologue => Capacity = LastCapacity)
<1>1. ArgsOK /\ tick \in Nat /\ args.pattern \in Seq(Nat)
  BY CountFacts, ArgsFacts DEF FlowTypeOK
<1>2. /\ Smaller(tick + 1, Prologue) \in 1..Prologue
      /\ tick >= Prologue => Smaller(tick + 1, Prologue) = Prologue
  BY <1>1 DEF Smaller, ArgsOK
<1> QED
  BY <1>1, <1>2 DEF Capacity, LastCapacity, Prologue

LEMMA FlowInitInv == FlowInit => FlowInv
<1> SUFFICES ASSUME FlowInit PROVE FlowInv
  OBVIOUS
<1>1. ArgsOK
  BY ArgsFacts DEF FlowInit
<1>2. FlowTypeOK
  <2>1. inflight \in Seq(Nat) /\ completed \in Seq(Nat)
    BY DEF FlowInit
  <2>2. tick \in 0..TickBudget /\ blocked \in 0..TickBudget
    BY <1>1 DEF FlowInit, ArgsOK
  <2>3. burst \in 0..args.rate /\ produced \in 0..args.total /\ credit \in Int
    BY <1>1 DEF FlowInit, ArgsOK
  <2>4. args \in Args /\ paused \in BOOLEAN
        /\ at \in {"loop", "produce", "check", "done", "failed"}
    BY DEF FlowInit
  <2> QED
    BY <2>1, <2>2, <2>3, <2>4 DEF FlowTypeOK
<1>3. Depth = 0 /\ Done = 0
  BY DEF FlowInit, Depth, Done
<1>4. Conserved /\ PauseInv /\ NeverRaises
  BY <1>1, <1>3 DEF FlowInit, Conserved, PauseInv, NeverRaises, ArgsOK
<1>5. ProgressInv
  BY <1>1, <1>3 DEF FlowInit, ProgressInv, Ready, ArgsOK
<1>6. BudgetInv
  BY DEF FlowInit, BudgetInv
<1> QED
  BY <1>2, <1>4, <1>5, <1>6 DEF FlowInv

-----------------------------------------------------------------------------
(* Each action preserves the invariant. *)

LEMMA ConsumeInv == FlowInv /\ Consume => FlowInv'
<1> SUFFICES ASSUME FlowInv, Consume PROVE FlowInv'
  OBVIOUS
<1>1. FlowTypeOK /\ Conserved /\ PauseInv /\ ProgressInv /\ BudgetInv
  BY DEF FlowInv
<1>2. /\ ArgsOK /\ Depth \in Nat /\ Done \in Nat
      /\ tick \in Nat /\ produced \in Nat /\ credit \in Int
  BY <1>1, CountFacts
<1>3. Capacity \in Nat /\ (tick >= Prologue => Capacity = LastCapacity)
  BY <1>1, CapacityFacts
<1>4. PICK n \in Nat :
        /\ n <= Depth /\ (Capacity >= 1 /\ Depth >= 1 => n >= 1)
        /\ inflight' = SubSeq(inflight, n + 1, Len(inflight))
        /\ completed' = completed \o SubSeq(inflight, 1, n)
        /\ credit' = credit + n
        /\ paused' = (paused /\ ~(Depth - n <= args.low))
  <2>1. /\ Smaller(Capacity, Depth) \in Nat
        /\ Smaller(Capacity, Depth) <= Depth
        /\ Capacity >= 1 /\ Depth >= 1 => Smaller(Capacity, Depth) >= 1
    BY <1>2, <1>3 DEF Smaller
  <2> QED
    BY <2>1 DEF Consume, Oldest, Resumes, Depth
<1>5. /\ at = "loop" /\ at' = "produce" /\ burst' = 0
      /\ args' = args /\ tick' = tick /\ produced' = produced
      /\ blocked' = blocked
      /\ TickBudget' = TickBudget /\ Prologue' = Prologue
      /\ Unfinished
  BY DEF Consume, TickBudget, MayTick, Prologue
<1>6. /\ inflight' \in Seq(Nat) /\ Len(inflight') = Len(inflight) - n
      /\ completed' \in Seq(Nat) /\ Len(completed') = Len(completed) + n
  BY <1>1, <1>4 DEF FlowTypeOK, Depth
<1>7. Depth' = Depth - n /\ Done' = Done + n
  BY <1>6 DEF Depth, Done
<1>8. FlowTypeOK'
  <2>1. burst' \in 0..args'.rate
    BY <1>2, <1>5 DEF ArgsOK
  <2>2. credit' \in Int /\ paused' \in BOOLEAN
    BY <1>2, <1>4
  <2> QED
    BY <1>1, <1>5, <1>6, <2>1, <2>2 DEF FlowTypeOK
<1>9. Conserved'
  BY <1>1, <1>2, <1>4, <1>5, <1>7 DEF Conserved, ArgsOK
<1>10. PauseInv'
  <2>1. paused' <=> paused /\ ~(Depth - n <= args.low)
    BY <1>4
  <2>2. paused' => Depth - n > args.low
    BY <1>2, <1>4, <2>1 DEF ArgsOK
  <2>3. args.low < args.high =>
          Depth - n <= args.high /\ (Depth - n = args.high => paused')
    BY <1>1, <1>2, <1>4, <2>1 DEF PauseInv, ArgsOK
  <2> QED
    BY <1>5, <1>7, <2>2, <2>3 DEF PauseInv
<1>11. ProgressInv'
  <2>1. SUFFICES ASSUME LastCapacity > 0
        PROVE  tick <= Prologue + 2 * (Done + n)
    BY <1>5, <1>7 DEF ProgressInv, LastCapacity
  <2>2. ~Drained
    BY <1>1, <1>2, <1>5 DEF Unfinished, Drained, FlowTypeOK, ArgsOK
  <2>3. tick <= Prologue + 2 * Done + Ready
    BY <1>1, <1>5, <2>1, <2>2 DEF ProgressInv
  <2>4. CASE Depth = 0
    BY <1>2, <1>4, <2>3, <2>4 DEF Ready, ArgsOK
  <2>5. CASE Depth >= 1 /\ tick < Prologue
    BY <1>2, <1>4, <2>5 DEF ArgsOK
  <2>6. CASE Depth >= 1 /\ tick >= Prologue
    <3>1. n >= 1
      BY <1>3, <1>4, <2>1, <2>6
    <3> QED
      BY <1>2, <1>4, <2>3, <2>6, <3>1 DEF Ready, ArgsOK
  <2> QED
    BY <1>2, <2>4, <2>5, <2>6 DEF ArgsOK
<1>12. BudgetInv'
  <2>1. tick < TickBudget
    BY DEF Consume, MayTick
  <2> QED
    BY <1>1, <1>5, <2>1 DEF BudgetInv
<1> QED
  BY <1>5, <1>8, <1>9, <1>10, <1>11, <1>12 DEF FlowInv, NeverRaises

LEMMA ProduceChunkInv == FlowInv /\ ProduceChunk => FlowInv'
<1> SUFFICES ASSUME FlowInv, ProduceChunk PROVE FlowInv'
  OBVIOUS
<1>1. FlowTypeOK /\ Conserved /\ PauseInv /\ ProgressInv /\ BudgetInv
  BY DEF FlowInv
<1>2. /\ ArgsOK /\ Depth \in Nat /\ Done \in Nat /\ burst \in Nat
      /\ tick \in Nat /\ produced \in Nat /\ credit \in Int
  BY <1>1, CountFacts
<1>3. /\ at = "produce" /\ burst < args.rate /\ produced < args.total
      /\ credit' = credit - 1 /\ burst' = burst + 1
      /\ produced' = produced + 1
      /\ args' = args /\ tick' = tick /\ blocked' = blocked
      /\ completed' = completed /\ inflight' = Append(inflight, produced)
      /\ TickBudget' = TickBudget /\ Prologue' = Prologue
      /\ LastCapacity' = LastCapacity
  BY DEF ProduceChunk, TickBudget, Prologue, LastCapacity
<1>4. /\ ~paused /\ Depth < args.max_inflight
      /\ paused' <=> Depth + 1 >= args.high
      /\ at' \in {"produce", "check"} /\ (paused' => at' = "check")
  <2>1. ~paused /\ Depth < args.max_inflight
    BY <1>2 DEF ProduceChunk, Blocked, Depth, ArgsOK
  <2>2. paused' <=> Depth + 1 >= args.high
    BY DEF ProduceChunk, Depth
  <2>3. at' \in {"produce", "check"} /\ (paused' => at' = "check")
    BY DEF ProduceChunk
  <2> QED
    BY <2>1, <2>2, <2>3
<1>5. inflight' \in Seq(Nat) /\ Len(inflight') = Len(inflight) + 1
  BY <1>1, <1>2, <1>3 DEF FlowTypeOK
<1>6. Depth' = Depth + 1 /\ Done' = Done
  BY <1>3, <1>5 DEF Depth, Done
<1>7. FlowTypeOK'
  <2>1. burst' \in 0..args'.rate /\ produced' \in 0..args'.total
    BY <1>2, <1>3 DEF ArgsOK
  <2>2. credit' \in Int /\ paused' \in BOOLEAN
    BY <1>2, <1>3 DEF ProduceChunk
  <2> QED
    BY <1>1, <1>3, <1>4, <1>5, <2>1, <2>2 DEF FlowTypeOK
<1>8. Conserved'
  BY <1>1, <1>2, <1>3, <1>4, <1>6 DEF Conserved, ArgsOK
<1>9. PauseInv'
  <2>1. args.low < args.high =>
          Depth + 1 <= args.high /\ (Depth + 1 = args.high => paused')
    BY <1>1, <1>2, <1>4 DEF PauseInv, ArgsOK
  <2> QED
    BY <1>3, <1>4, <1>6, <2>1 DEF PauseInv
<1>10. ProgressInv'
  BY <1>1, <1>2, <1>3, <1>4, <1>6 DEF ProgressInv, Ready, ArgsOK
<1>11. BudgetInv'
  <2>1. blocked \in Nat
    BY <1>1, CountFacts
  <2> QED
    BY <1>1, <1>2, <1>3, <1>4, <2>1 DEF BudgetInv
<1> QED
  BY <1>4, <1>7, <1>8, <1>9, <1>10, <1>11 DEF FlowInv, NeverRaises

(* A blocked producer has chunks in the pipe to wait for. *)
LEMMA BlockedBacklog ==
  ASSUME FlowInv, at = "produce", Blocked
  PROVE  Depth >= 1
<1>1. FlowTypeOK /\ Conserved /\ PauseInv
  BY DEF FlowInv
<1>2. ArgsOK /\ Depth \in Nat /\ credit \in Int
  BY <1>1, CountFacts
<1>3. paused \/ credit = 0 \/ Depth >= args.max_inflight
  BY DEF Blocked, Depth
<1> QED
  BY <1>1, <1>2, <1>3 DEF Conserved, PauseInv, ArgsOK

LEMMA ProducerBlockedInv == FlowInv /\ ProducerBlocked => FlowInv'
<1> SUFFICES ASSUME FlowInv, ProducerBlocked PROVE FlowInv'
  OBVIOUS
<1>1. FlowTypeOK /\ Conserved /\ PauseInv /\ ProgressInv /\ BudgetInv
  BY DEF FlowInv
<1>2. /\ ArgsOK /\ Depth \in Nat /\ Done \in Nat /\ blocked \in Nat
      /\ tick \in Nat /\ produced \in Nat /\ credit \in Int
  BY <1>1, CountFacts
<1>3. /\ at = "produce" /\ at' = "check" /\ blocked' = blocked + 1
      /\ args' = args /\ tick' = tick /\ burst' = burst
      /\ paused' = paused /\ inflight' = inflight
      /\ completed' = completed /\ produced' = produced
      /\ credit' = credit
  BY DEF ProducerBlocked, pipe
<1>4. /\ Depth' = Depth /\ Done' = Done /\ TickBudget' = TickBudget
      /\ Prologue' = Prologue /\ LastCapacity' = LastCapacity
  BY <1>3 DEF Depth, Done, TickBudget, Prologue, LastCapacity
<1>5. Depth >= 1
  BY <1>3, BlockedBacklog DEF ProducerBlocked
<1>6. BudgetInv'
  BY <1>1, <1>2, <1>3, <1>4 DEF BudgetInv, ArgsOK
<1>7. FlowTypeOK'
  <2>1. blocked' \in 0..TickBudget'
    BY <1>1, <1>2, <1>3, <1>4 DEF BudgetInv, ArgsOK
  <2> QED
    BY <1>1, <1>3, <1>4, <2>1 DEF FlowTypeOK
<1>8. Conserved' /\ PauseInv'
  BY <1>1, <1>3, <1>4 DEF Conserved, PauseInv
<1>9. ProgressInv'
  BY <1>1, <1>2, <1>3, <1>4, <1>5 DEF ProgressInv, Ready, ArgsOK
<1> QED
  BY <1>3, <1>6, <1>7, <1>8, <1>9 DEF FlowInv, NeverRaises

LEMMA ProducerIdleInv == FlowInv /\ ProducerIdle => FlowInv'
<1> SUFFICES ASSUME FlowInv, ProducerIdle PROVE FlowInv'
  OBVIOUS
<1>1. FlowTypeOK /\ Conserved /\ PauseInv /\ ProgressInv /\ BudgetInv
  BY DEF FlowInv
<1>2. /\ ArgsOK /\ Depth \in Nat /\ Done \in Nat /\ blocked \in Nat
      /\ tick \in Nat /\ produced \in Nat /\ burst \in Nat
      /\ (inflight = <<>>) <=> (Depth = 0)
      /\ produced <= args.total
  BY <1>1, CountFacts DEF FlowTypeOK, ArgsOK
<1>3. /\ at = "produce" /\ at' = "check" /\ blocked' = blocked
      /\ args' = args /\ tick' = tick /\ burst' = burst
      /\ paused' = paused /\ inflight' = inflight
      /\ completed' = completed /\ produced' = produced
      /\ credit' = credit
      /\ burst = args.rate \/ produced >= args.total
  BY DEF ProducerIdle, pipe
<1>4. /\ Depth' = Depth /\ Done' = Done /\ TickBudget' = TickBudget
      /\ Prologue' = Prologue /\ LastCapacity' = LastCapacity
      /\ Drained' <=> Drained
  BY <1>3 DEF Depth, Done, TickBudget, Prologue, LastCapacity, Drained
<1>5. LastCapacity > 0 => Depth >= 1 \/ Drained
  BY <1>1, <1>2, <1>3 DEF ProgressInv, Drained, ArgsOK
<1>6. BudgetInv'
  BY <1>1, <1>2, <1>3, <1>4 DEF BudgetInv
<1>7. FlowTypeOK'
  BY <1>1, <1>3, <1>4 DEF FlowTypeOK
<1>8. Conserved' /\ PauseInv'
  BY <1>1, <1>3, <1>4 DEF Conserved, PauseInv
<1>9. ProgressInv'
  BY <1>1, <1>2, <1>3, <1>4, <1>5 DEF ProgressInv, Ready, ArgsOK
<1> QED
  BY <1>3, <1>6, <1>7, <1>8, <1>9 DEF FlowInv, NeverRaises

LEMMA EndTickInv == FlowInv /\ EndTick => FlowInv'
<1> SUFFICES ASSUME FlowInv, EndTick PROVE FlowInv'
  OBVIOUS
<1>1. FlowTypeOK /\ Conserved /\ PauseInv /\ ProgressInv /\ BudgetInv
  BY DEF FlowInv
<1>2. /\ ArgsOK /\ Depth \in Nat /\ Done \in Nat /\ blocked \in Nat
      /\ tick \in Nat /\ credit \in Int
  BY <1>1, CountFacts
<1>3. ~SelfCheckFails
  BY <1>1, <1>2 DEF SelfCheckFails, Conserved, ArgsOK, Depth
<1>4. /\ at = "check" /\ at' = "loop" /\ blocked' = blocked
      /\ args' = args /\ tick' = tick + 1 /\ burst' = burst
      /\ paused' = paused /\ inflight' = inflight
      /\ completed' = completed /\ produced' = produced
      /\ credit' = credit
  BY <1>3 DEF EndTick, pipe
<1>5. /\ Depth' = Depth /\ Done' = Done /\ TickBudget' = TickBudget
      /\ Prologue' = Prologue /\ LastCapacity' = LastCapacity
      /\ Drained' <=> Drained
  BY <1>4 DEF Depth, Done, TickBudget, Prologue, LastCapacity, Drained
<1>6. BudgetInv'
  BY <1>1, <1>2, <1>4, <1>5 DEF BudgetInv
<1>7. FlowTypeOK'
  <2>1. tick' \in 0..TickBudget'
    BY <1>1, <1>2, <1>4, <1>5 DEF BudgetInv, ArgsOK
  <2> QED
    BY <1>1, <1>4, <1>5, <2>1 DEF FlowTypeOK
<1>8. Conserved' /\ PauseInv'
  BY <1>1, <1>4, <1>5 DEF Conserved, PauseInv
<1>9. ProgressInv'
  BY <1>1, <1>2, <1>4, <1>5 DEF ProgressInv, Ready, ArgsOK
<1> QED
  BY <1>4, <1>6, <1>7, <1>8, <1>9 DEF FlowInv, NeverRaises

(* The tick budget cannot run out first: 2 * Done + 1 < 16 * total. *)
LEMMA FinishInv == FlowInv /\ Finish => FlowInv'
<1> SUFFICES ASSUME FlowInv, Finish PROVE FlowInv'
  OBVIOUS
<1>1. FlowTypeOK /\ Conserved /\ PauseInv /\ ProgressInv /\ BudgetInv
  BY DEF FlowInv
<1>2. /\ ArgsOK /\ Depth \in Nat /\ Done \in Nat /\ blocked \in Nat
      /\ tick \in Nat /\ produced \in Nat /\ produced <= args.total
      /\ (inflight = <<>>) <=> (Depth = 0)
  BY <1>1, CountFacts DEF FlowTypeOK, ArgsOK
<1>3. /\ at = "loop" /\ at' = "done" /\ blocked' = blocked
      /\ args' = args /\ tick' = tick /\ burst' = burst
      /\ paused' = paused /\ inflight' = inflight
      /\ completed' = completed /\ produced' = produced
      /\ credit' = credit
      /\ Unfinished => tick >= TickBudget
  BY <1>2 DEF Finish, MayTick, pipe, ArgsOK
<1>4. /\ Depth' = Depth /\ Done' = Done /\ TickBudget' = TickBudget
      /\ Prologue' = Prologue /\ LastCapacity' = LastCapacity
      /\ Drained' <=> Drained
  BY <1>3 DEF Depth, Done, TickBudget, Prologue, LastCapacity, Drained
<1>5. ASSUME LastCapacity > 0
      PROVE  Drained
  <2>1. SUFFICES ASSUME ~Drained PROVE FALSE
    OBVIOUS
  <2>2. tick <= Prologue + 2 * Done + 1
    BY <1>1, <1>2, <1>3, <1>5, <2>1 DEF ProgressInv, Ready, ArgsOK
  <2>3. Done + 1 <= args.total
    BY <1>1, <1>2, <2>1 DEF Conserved, Drained, ArgsOK
  <2>4. Unfinished
    BY <1>2, <2>1 DEF Unfinished, Drained, ArgsOK
  <2>5. TickBudget >= args.total * 16 + Prologue * 4
    BY <1>2 DEF TickBudget, Larger, Prologue, ArgsOK
  <2> QED
    BY <1>2, <1>3, <2>2, <2>3, <2>4, <2>5 DEF ArgsOK
<1>6. BudgetInv' /\ FlowTypeOK' /\ Conserved' /\ PauseInv'
  BY <1>1, <1>3, <1>4 DEF BudgetInv, FlowTypeOK, Conserved, PauseInv
<1>7. ProgressInv'
  BY <1>3, <1>4, <1>5 DEF ProgressInv
<1> QED
  BY <1>3, <1>6, <1>7 DEF FlowInv, NeverRaises

LEMMA FlowStutterInv == FlowInv /\ UNCHANGED flowVars => FlowInv'
<1> SUFFICES ASSUME FlowInv, UNCHANGED flowVars PROVE FlowInv'
  OBVIOUS
<1>1. /\ args' = args /\ at' = at /\ tick' = tick /\ burst' = burst
      /\ inflight' = inflight /\ completed' = completed
      /\ produced' = produced /\ credit' = credit /\ paused' = paused
      /\ blocked' = blocked
  BY DEF flowVars
<1>2. /\ Depth' = Depth /\ Done' = Done /\ TickBudget' = TickBudget
      /\ Prologue' = Prologue /\ LastCapacity' = LastCapacity
      /\ Drained' <=> Drained
  BY <1>1 DEF Depth, Done, TickBudget, Prologue, LastCapacity, Drained
<1>3. FlowTypeOK' /\ Conserved' /\ PauseInv' /\ BudgetInv' /\ NeverRaises'
  BY <1>1, <1>2 DEF FlowInv, FlowTypeOK, Conserved, PauseInv, BudgetInv, NeverRaises
<1>4. ProgressInv'
  BY <1>1, <1>2 DEF FlowInv, ProgressInv, Ready
<1> QED
  BY <1>3, <1>4 DEF FlowInv

LEMMA FlowNextInv == FlowInv /\ [FlowNext]_flowVars => FlowInv'
  BY ConsumeInv, ProduceChunkInv, ProducerBlockedInv, ProducerIdleInv,
     EndTickInv, FinishInv, FlowStutterInv DEF FlowNext

THEOREM FlowInvariance == FlowSpec => []FlowInv
  BY FlowInitInv, FlowNextInv, PTL DEF FlowSpec

-----------------------------------------------------------------------------
(* The loop of simulate_flow_control keeps every variable in its type and   *)
(* never runs past its tick budget.                                         *)
THEOREM FlowTypeCorrect == FlowSpec => []FlowTypeOK
  BY FlowInvariance, PTL DEF FlowInv

(* No valid configuration and capacity pattern makes the run-time self      *)
(* check raise RuntimeError: credits are conserved and the pipe bounded.    *)
THEOREM SelfCheckNeverRaises == FlowSpec => []NeverRaises
  BY FlowInvariance, PTL DEF FlowInv

(* With low_watermark < high_watermark the pipe never exceeds the high      *)
(* watermark.                                                               *)
THEOREM HighWatermark == FlowSpec => []HighWatermarkBounds
<1>1. FlowInv => HighWatermarkBounds
  BY DEF FlowInv, PauseInv, HighWatermarkBounds, Depth
<1> QED
  BY <1>1, FlowInvariance, PTL

(* A consumer whose last capacity is positive drains every chunk before the *)
(* tick budget 16 * total_chunks + 4 * len(pattern) ends the loop.          *)
THEOREM BudgetSuffices == FlowSpec => []DrainsWithinBudget
<1>1. FlowInv => DrainsWithinBudget
  <2> SUFFICES ASSUME FlowInv, at = "done", LastCapacity > 0
      PROVE  Drained /\ Done = args.total
    BY DEF DrainsWithinBudget, LastCapacity, Done
  <2>1. Drained
    BY DEF FlowInv, ProgressInv
  <2>2. /\ Depth \in Nat /\ Done \in Nat /\ ArgsOK
        /\ (inflight = <<>>) <=> (Depth = 0)
    BY CountFacts DEF FlowInv
  <2> QED
    BY <2>1, <2>2 DEF FlowInv, Conserved, Drained, ArgsOK
<1> QED
  BY <1>1, FlowInvariance, PTL

(* A producer is counted as blocked only while chunks are in the pipe.      *)
THEOREM BlockedProducerHasBacklog == FlowSpec => BlockedOnlyOnBacklog
<1>1. FlowInv /\ [FlowNext]_flowVars => [blocked' > blocked => inflight # <<>>]_flowVars
  <2> SUFFICES ASSUME FlowInv, FlowNext, blocked' > blocked
      PROVE  inflight # <<>>
    OBVIOUS
  <2>1. blocked \in Nat /\ (inflight = <<>> <=> Depth = 0)
    BY CountFacts DEF FlowInv
  <2>2. blocked' # blocked
    BY <2>1
  <2>3. ProducerBlocked
    BY <2>2 DEF FlowNext, Consume, ProduceChunk, ProducerIdle, EndTick, Finish
  <2>4. Depth >= 1
    BY <2>3, BlockedBacklog DEF ProducerBlocked
  <2> QED
    BY <2>1, <2>4
<1> QED
  BY <1>1, FlowInvariance, PTL DEF FlowSpec, BlockedOnlyOnBacklog

(* The pipe of simulate_flow_control implements the bounded FIFO channel:   *)
(* no chunk is lost, duplicated or overtaken.                               *)
THEOREM FlowImplementsChannel == FlowSpec => ImplementsChannel
<1>1. FlowInit => Channel!Init
  BY ArgsFacts DEF FlowInit, Channel!Init, ArgsOK
<1>2. FlowInv /\ [FlowNext]_flowVars => [Channel!Next]_Channel!chVars
  <2> SUFFICES ASSUME FlowInv, [FlowNext]_flowVars
      PROVE  [Channel!Next]_Channel!chVars
    OBVIOUS
  <2> USE DEF Channel!chVars
  <2>1. FlowTypeOK /\ ArgsOK /\ Depth \in Nat
    BY CountFacts DEF FlowInv
  <2>2. CASE Consume
    <3>1. Capacity \in Nat
      BY <2>1, CapacityFacts
    <3>2. PICK n \in 0..Depth :
            /\ inflight' = SubSeq(inflight, n + 1, Len(inflight))
            /\ completed' = completed \o SubSeq(inflight, 1, n)
            /\ args' = args /\ produced' = produced
      <4>1. Smaller(Capacity, Depth) \in 0..Depth
        BY <2>1, <3>1 DEF Smaller
      <4> QED
        BY <2>2, <4>1 DEF Consume, Oldest, Depth
    <3>3. CASE n = 0
      <4>1. inflight' = inflight /\ completed' = completed
        BY <2>1, <3>2, <3>3 DEF FlowTypeOK
      <4> QED
        BY <3>2, <4>1
    <3>4. CASE n \in 1..Len(inflight)
      BY <3>2, <3>4 DEF Channel!Next, Channel!Get
    <3> QED
      BY <2>1, <3>2, <3>3, <3>4 DEF Depth
  <2>3. CASE ProduceChunk
    <3>1. Depth < args.max_inflight
      BY <2>1, <2>3 DEF ProduceChunk, Blocked, Depth, ArgsOK
    <3> QED
      BY <2>3, <3>1 DEF ProduceChunk, Depth, Channel!Next, Channel!Put
  <2>4. CASE ProducerBlocked \/ ProducerIdle \/ EndTick \/ Finish
    BY <2>4 DEF ProducerBlocked, ProducerIdle, EndTick, Finish, pipe
  <2>5. CASE UNCHANGED flowVars
    BY <2>5 DEF flowVars
  <2> QED
    BY <2>2, <2>3, <2>4, <2>5 DEF FlowNext
<1> QED
  BY <1>1, <1>2, FlowInvariance, PTL DEF FlowSpec, ImplementsChannel, Channel!Spec

-----------------------------------------------------------------------------
(***************************************************************************)
(* Integrity transport.                                                    *)
(***************************************************************************)
(* What is known of the call at hand, in numbers. *)
CallInv ==
  /\ pc = "transfer" => offset < length \/ length = 0
  /\ pc = "attempt" =>
       /\ offset < length \/ length = 0
       /\ retransmitted = attempt * Current
  /\ pc = "returned" /\ result.code = "SUCCESS" => offset = length

IInv == TypeOK /\ CallInv

-----------------------------------------------------------------------------
LEMMA PolicyFacts ==
  ASSUME TypeOK
  PROVE  /\ policy.max_retries \in Nat /\ policy.until \in Nat
         /\ policy.timeout \in Nat /\ policy.backoff \in Nat
         /\ policy.fault \in Faults
<1>1. policy \in Config
  BY ConfigsAssumption DEF TypeOK, Config, DefaultConfig, Faults
<1> QED
  BY <1>1, ConfigsAssumption DEF Config

LEMMA SizeFacts ==
  ASSUME TypeOK
  PROVE  /\ length \in Nat /\ offset \in Nat /\ offset <= length
         /\ chunk_bytes \in Nat /\ chunk_bytes >= 1
         /\ Current \in Nat /\ offset + Current <= length
         /\ offset < length => Current >= 1
  BY ConfigsAssumption DEF TypeOK, Current

LEMMA SuccessType == Success \in Outcomes
  BY DEF Success, Outcome, Outcomes, Codes, Classes, Reasons

LEMMA ZeroStatsType == ZeroStats \in Stats
  BY DEF ZeroStats, Stats

(* A verdict is a success or a failure with another code; only an intact *)
(* copy succeeds.                                                        *)
LEMMA VerdictFacts ==
  ASSUME TypeOK
  PROVE  /\ Verdict \in Outcomes
         /\ Verdict # Success <=> Verdict.code # "SUCCESS"
         /\ Verdict = Success => Arrived = "intact"
<1>1. policy.fault \in SequenceFaults => policy.fault \in Reasons
  BY DEF Reasons
<1>2. \/ Verdict = Outcome("COMM_FAILURE", "TERMINAL", policy.fault)
      \/ Verdict = Outcome("COMM_FAILURE", "RETRYABLE", "TRANSIENT_TRANSFER_FAILURE")
      \/ Verdict = Outcome("TIMEOUT", "RETRYABLE", "LOGICAL_TIMEOUT")
      \/ Verdict = Outcome("CRC_MISMATCH", "RETRYABLE", "CRC_MISMATCH")
      \/ Verdict = Success /\ ~CrcDiffers
  BY DEF Verdict
<1>3. Arrived \in {"intact", "corrupt"}
  BY DEF Arrived
<1>4. Verdict \in Outcomes
  <2>1. /\ Outcome("COMM_FAILURE", "RETRYABLE", "TRANSIENT_TRANSFER_FAILURE")
             \in Outcomes
        /\ Outcome("TIMEOUT", "RETRYABLE", "LOGICAL_TIMEOUT") \in Outcomes
        /\ Outcome("CRC_MISMATCH", "RETRYABLE", "CRC_MISMATCH") \in Outcomes
    BY DEF Outcome, Outcomes, Codes, Classes, Reasons
  <2>2. CASE policy.fault \in SequenceFaults
    <3>1. Outcome("COMM_FAILURE", "TERMINAL", policy.fault) \in Outcomes
      BY <1>1, <2>2 DEF Outcome, Outcomes, Codes, Classes
    <3> QED
      BY <1>2, <2>1, <3>1, SuccessType
  <2>3. CASE policy.fault \notin SequenceFaults
    <3>1. \/ Verdict = Outcome("COMM_FAILURE", "RETRYABLE", "TRANSIENT_TRANSFER_FAILURE")
          \/ Verdict = Outcome("TIMEOUT", "RETRYABLE", "LOGICAL_TIMEOUT")
          \/ Verdict = Outcome("CRC_MISMATCH", "RETRYABLE", "CRC_MISMATCH")
          \/ Verdict = Success
      BY <2>3 DEF Verdict
    <3> QED
      BY <2>1, <3>1, SuccessType
  <2> QED
    BY <2>2, <2>3
<1>5. Verdict # Success <=> Verdict.code # "SUCCESS"
  BY <1>2 DEF Success, Outcome
<1>6. Verdict = Success => Arrived = "intact"
  BY <1>2, <1>3 DEF Success, Outcome, CrcDiffers
<1> QED
  BY <1>4, <1>5, <1>6

LEMMA InitInv == Init => IInv
<1> SUFFICES ASSUME Init PROVE IInv
  OBVIOUS
<1>1. Success \in Outcomes /\ ZeroStats \in Stats
  BY SuccessType, ZeroStatsType
<1>2. TypeOK
  BY <1>1, ConfigsAssumption DEF Init, TypeOK
<1>3. CallInv
  BY DEF Init, CallInv
<1> QED
  BY <1>2, <1>3 DEF IInv

-----------------------------------------------------------------------------
LEMMA ConfigureInv == IInv /\ Configure => IInv'
<1> SUFFICES ASSUME IInv, Configure PROVE IInv'
  OBVIOUS
<1>1. TypeOK'
  BY SuccessType, ConfigsAssumption DEF IInv, TypeOK, Configure
<1>2. CallInv'
  BY DEF CallInv, Configure
<1> QED
  BY <1>1, <1>2 DEF IInv

LEMMA RuntimeResetInv == IInv /\ RuntimeReset => IInv'
  BY ZeroStatsType DEF IInv, TypeOK, CallInv, RuntimeReset, Current, Between

LEMMA VerifyChunkedInv ==
  ASSUME IInv, NEW n \in 0..MaxLength, NEW chunk \in 1..MaxChunk,
         VerifyChunked(n, chunk)
  PROVE  IInv'
<1>1. n \in Nat /\ chunk \in Nat \ {0}
  BY ConfigsAssumption
<1>2. TypeOK'
  BY <1>1 DEF IInv, TypeOK, VerifyChunked
<1>3. CallInv'
  BY <1>1 DEF CallInv, VerifyChunked
<1> QED
  BY <1>2, <1>3 DEF IInv

LEMMA BeginTransferInv == IInv /\ BeginTransfer => IInv'
<1> SUFFICES ASSUME IInv, BeginTransfer PROVE IInv'
  OBVIOUS
<1>1. TypeOK /\ policy.max_retries \in Nat /\ Current \in Nat
  BY PolicyFacts, SizeFacts DEF IInv
<1>2. TypeOK'
  BY <1>1 DEF TypeOK, BeginTransfer
<1>3. Current' = Current
  BY DEF BeginTransfer, Current
<1>4. CallInv'
  BY <1>1, <1>3 DEF IInv, CallInv, BeginTransfer
<1> QED
  BY <1>2, <1>4 DEF IInv

LEMMA RefuseTransferInv == IInv /\ RefuseTransfer => IInv'
<1> SUFFICES ASSUME IInv, RefuseTransfer PROVE IInv'
  OBVIOUS
<1>1. /\ Refusal \in Outcomes
      /\ Refusal.code # "SUCCESS"
  BY DEF Refusal, Outcome, Outcomes, Codes, Classes, Reasons
<1>2. [stats EXCEPT !.transfers = @ + 1] \in Stats
  BY DEF IInv, TypeOK, Stats
<1>3. TypeOK'
  BY <1>1, <1>2 DEF IInv, TypeOK, RefuseTransfer
<1>4. CallInv'
  BY <1>1 DEF CallInv, RefuseTransfer
<1> QED
  BY <1>3, <1>4 DEF IInv

(* The statistics stay natural numbers whatever is recorded. *)
LEMMA RecordedType ==
  ASSUME TypeOK, NEW outcome, NEW attempts \in Nat, NEW met
  PROVE  Recorded(outcome, attempts, met) \in Stats
<1>1. /\ stats.transfers \in Nat /\ stats.verified \in Nat
      /\ stats.retries \in Nat /\ stats.crc \in Nat
      /\ stats.timeouts \in Nat /\ stats.sequence \in Nat
      /\ stats.retransmitted \in Nat
      /\ retransmitted \in Nat
  BY DEF TypeOK, Stats
<1>2. /\ Bump(outcome.code = "SUCCESS") \in Nat
      /\ Bump("CRC_MISMATCH" \in met) \in Nat
      /\ Bump("TIMEOUT" \in met) \in Nat
      /\ Bump(outcome.reason \in SequenceFaults) \in Nat
  BY DEF Bump
<1>3. RetryCount(attempts) \in Nat
  BY DEF RetryCount
<1>4. /\ stats.transfers + 1 \in Nat
      /\ stats.verified + Bump(outcome.code = "SUCCESS") \in Nat
      /\ stats.retries + RetryCount(attempts) \in Nat
      /\ stats.crc + Bump("CRC_MISMATCH" \in met) \in Nat
      /\ stats.timeouts + Bump("TIMEOUT" \in met) \in Nat
      /\ stats.sequence + Bump(outcome.reason \in SequenceFaults) \in Nat
      /\ stats.retransmitted + retransmitted \in Nat
  BY <1>1, <1>2, <1>3
<1> QED
  BY <1>4 DEF Recorded, Stats

LEMMA AcceptChunkInv == IInv /\ AcceptChunk => IInv'
<1> SUFFICES ASSUME IInv, AcceptChunk PROVE IInv'
  OBVIOUS
<1>1. /\ TypeOK /\ Arrived = "intact" /\ attempt \in Nat
      /\ length \in Nat /\ offset \in Nat /\ Current \in Nat
      /\ offset + Current <= length
  BY VerdictFacts, SizeFacts DEF IInv, TypeOK, AcceptChunk
<1>2. stats' \in Stats
  BY <1>1, RecordedType DEF AcceptChunk
<1>3. accepted' \in Seq({"intact", "corrupt"})
  BY <1>1 DEF TypeOK, AcceptChunk
<1>4. result' \in Outcomes
  BY SuccessType DEF AcceptChunk
<1>5. offset' \in 0..length'
  BY <1>1 DEF AcceptChunk
<1>6. /\ pc' \in {"transfer", "returned"}
      /\ pc' = "transfer" => offset' < length'
      /\ pc' = "returned" => offset' = length'
  BY <1>1 DEF AcceptChunk
<1>7. TypeOK'
  BY <1>1, <1>2, <1>3, <1>4, <1>5, <1>6 DEF TypeOK, AcceptChunk
<1>8. CallInv'
  BY <1>6 DEF CallInv
<1> QED
  BY <1>7, <1>8 DEF IInv

LEMMA RetryInv == IInv /\ Retry => IInv'
<1> SUFFICES ASSUME IInv, Retry PROVE IInv'
  OBVIOUS
<1>1. /\ TypeOK /\ attempt \in Nat /\ Current \in Nat /\ retransmitted \in Nat
      /\ policy.max_retries \in Nat /\ attempt < policy.max_retries
  BY PolicyFacts, SizeFacts DEF IInv, TypeOK, Retry, Retries
<1>2. Current' = Current /\ retransmitted' = retransmitted + Current
      /\ attempt' = attempt + 1
  BY DEF Retry, Current
<1>3. TypeOK'
  BY <1>1, <1>2 DEF TypeOK, Retry, Met
<1>4. retransmitted' = attempt' * Current'
  BY <1>1, <1>2 DEF IInv, CallInv, Retry
<1>5. CallInv'
  BY <1>4 DEF IInv, CallInv, Retry
<1> QED
  BY <1>3, <1>5 DEF IInv

LEMMA GiveUpInv == IInv /\ GiveUp => IInv'
<1> SUFFICES ASSUME IInv, GiveUp PROVE IInv'
  OBVIOUS
<1>1. /\ TypeOK /\ attempt + 1 \in Nat
      /\ Verdict \in Outcomes
      /\ Verdict.code # "SUCCESS"
  BY VerdictFacts DEF IInv, TypeOK, GiveUp
<1>2. stats' \in Stats
  BY <1>1, RecordedType DEF GiveUp
<1>3. /\ result' \in Outcomes
      /\ result'.code # "SUCCESS"
  BY <1>1 DEF GiveUp, Outcome, Outcomes, Classes, Reasons
<1>4. TypeOK'
  BY <1>1, <1>2, <1>3 DEF TypeOK, GiveUp, Met
<1>5. CallInv'
  BY <1>3 DEF CallInv, GiveUp
<1> QED
  BY <1>4, <1>5 DEF IInv

LEMMA StutterInv == IInv /\ UNCHANGED vars => IInv'
  BY DEF IInv, TypeOK, CallInv, vars, Current

LEMMA NextInv == IInv /\ [Next]_vars => IInv'
  BY ConfigureInv, RuntimeResetInv, VerifyChunkedInv, BeginTransferInv,
     RefuseTransferInv, AcceptChunkInv, RetryInv, GiveUpInv, StutterInv DEF Next

THEOREM Invariance == Spec => []IInv
  BY InitInv, NextInv, PTL DEF Spec

-----------------------------------------------------------------------------
(* The transport's variables keep their types, and no attempt is numbered   *)
(* beyond max_retries.                                                      *)
THEOREM TypeCorrect == Spec => []TypeOK
  BY Invariance, PTL DEF IInv

-----------------------------------------------------------------------------
(* Each transfer recorded adds one retry per attempt after the first, and    *)
(* for each of them the size of the chunk it sent again: whatever the fault, *)
(* the policy and the chunking, nothing is counted twice or lost.            *)
LEMMA RecordedAccounts ==
  ASSUME TypeOK, NEW outcome, NEW met,
         attempt <= policy.max_retries, retransmitted = attempt * Current,
         stats' = Recorded(outcome, attempt + 1, met)
  PROVE  /\ stats'.retransmitted - stats.retransmitted
              = (stats'.retries - stats.retries) * Current
         /\ stats'.retries - stats.retries <= policy.max_retries
<1>1. /\ stats.retries \in Nat /\ stats.retransmitted \in Nat
      /\ retransmitted \in Nat /\ attempt \in Nat
      /\ policy.max_retries \in Nat /\ Current \in Nat
  BY PolicyFacts, SizeFacts DEF TypeOK, Stats
<1>2. RetryCount(attempt + 1) = attempt
  BY <1>1 DEF RetryCount
<1>3. /\ stats'.retries = stats.retries + attempt
      /\ stats'.retransmitted = stats.retransmitted + retransmitted
  BY <1>2 DEF Recorded
<1>4. /\ stats'.retries - stats.retries = attempt
      /\ stats'.retransmitted - stats.retransmitted = retransmitted
  BY <1>1, <1>3
<1> QED
  BY <1>4

Accounted ==
  stats'.transfers > stats.transfers =>
    /\ stats'.retransmitted - stats.retransmitted
         = (stats'.retries - stats.retries) * Current
    /\ stats'.retries - stats.retries <= policy.max_retries

LEMMA AccountedStep == IInv /\ [Next]_vars => Accounted
<1> SUFFICES ASSUME IInv, [Next]_vars PROVE Accounted
  OBVIOUS
<1>0. /\ stats.transfers \in Nat /\ stats.retries \in Nat
      /\ stats.retransmitted \in Nat
      /\ policy.max_retries \in Nat /\ Current \in Nat
  BY PolicyFacts, SizeFacts DEF IInv, TypeOK, Stats
<1>1. CASE AcceptChunk \/ GiveUp
  <2>1. /\ TypeOK /\ attempt <= policy.max_retries
        /\ retransmitted = attempt * Current
    BY <1>1 DEF IInv, TypeOK, CallInv, AcceptChunk, GiveUp
  <2>2. \E outcome, met : stats' = Recorded(outcome, attempt + 1, met)
    BY <1>1 DEF AcceptChunk, GiveUp
  <2> QED
    BY <2>1, <2>2, RecordedAccounts DEF Accounted
<1>2. CASE RuntimeReset
  BY <1>0, <1>2 DEF RuntimeReset, ZeroStats, Accounted
<1>3. CASE RefuseTransfer
  <2>1. stats'.retries = stats.retries /\ stats'.retransmitted = stats.retransmitted
    BY <1>3 DEF RefuseTransfer, IInv, TypeOK, Stats
  <2>2. /\ stats'.retransmitted - stats.retransmitted = 0
        /\ stats'.retries - stats.retries = 0
    BY <1>0, <2>1
  <2>3. 0 * Current = 0 /\ 0 <= policy.max_retries
    BY <1>0
  <2> QED
    BY <2>2, <2>3 DEF Accounted
<1>4. CASE stats' = stats
  BY <1>0, <1>4 DEF Accounted
<1>5. stats' = stats \/ AcceptChunk \/ GiveUp \/ RuntimeReset \/ RefuseTransfer
  BY DEF Next, vars, Configure, VerifyChunked, BeginTransfer, Retry
<1> QED
  BY <1>1, <1>2, <1>3, <1>4, <1>5

THEOREM Accounting == Spec => RetransmissionAccounted
<1>1. IInv /\ [Next]_vars => [Accounted]_vars
  BY AccountedStep
<1> QED
  BY <1>1, Invariance, PTL DEF Spec, RetransmissionAccounted, Accounted

-----------------------------------------------------------------------------
(* What the abstract specification sees of each step. *)
LEMMA StatusFacts ==
  /\ pc \in {"transfer", "attempt"} => Status = "busy"
  /\ pc = "ready" => Status = "none"
  /\ pc = "returned" /\ result.code = "SUCCESS" => Status = "ok"
  /\ pc = "returned" /\ result.code # "SUCCESS" => Status = "failed"
  BY DEF Status

LEMMA NextStatusFacts ==
  /\ pc' \in {"transfer", "attempt"} => Status' = "busy"
  /\ pc' = "ready" => Status' = "none"
  /\ pc' = "returned" /\ result'.code = "SUCCESS" => Status' = "ok"
  /\ pc' = "returned" /\ result'.code # "SUCCESS" => Status' = "failed"
  BY DEF Status

LEMMA AcceptRefines == IInv /\ AcceptChunk => Verified!Next
<1> SUFFICES ASSUME IInv, AcceptChunk PROVE Verified!Next
  OBVIOUS
<1>1. /\ Arrived = "intact" /\ length \in Nat /\ offset \in Nat
      /\ Current \in Nat /\ offset + Current <= length
      /\ offset < length => Current >= 1
  BY VerdictFacts, SizeFacts DEF IInv, AcceptChunk
<1>2. offset < length \/ length = 0
  BY DEF IInv, CallInv, AcceptChunk
<1>3. /\ length' = length /\ offset' = offset + Current
      /\ accepted' = Append(accepted, "intact")
      /\ result'.code = "SUCCESS"
      /\ pc' = IF offset + Current < length THEN "transfer" ELSE "returned"
  BY <1>1 DEF AcceptChunk, Success, Outcome
<1>4. Current \in 0..length /\ (Current > 0 \/ length = 0) /\ offset' <= length
  BY <1>1, <1>2, <1>3
<1>5. Status' = IF offset' = length THEN "ok" ELSE "busy"
  <2>1. CASE offset + Current < length
    <3>1. pc' = "transfer" /\ offset' # length
      BY <1>1, <1>3, <2>1
    <3> QED
      BY <3>1, NextStatusFacts
  <2>2. CASE ~(offset + Current < length)
    <3>1. pc' = "returned" /\ offset' = length
      BY <1>1, <1>3, <2>2
    <3> QED
      BY <3>1, <1>3, NextStatusFacts
  <2> QED
    BY <2>1, <2>2
<1>6. Status = "busy"
  BY StatusFacts DEF AcceptChunk
<1>7. Verified!Accept(Current)
  BY <1>3, <1>4, <1>5, <1>6 DEF Verified!Accept
<1> QED
  BY <1>4, <1>7 DEF Verified!Next

LEMMA FailRefines == IInv /\ (RefuseTransfer \/ GiveUp) => Verified!Next
<1> SUFFICES ASSUME IInv, RefuseTransfer \/ GiveUp PROVE Verified!Next
  OBVIOUS
<1>1. pc' = "returned" /\ result'.code # "SUCCESS"
  <2>1. CASE RefuseTransfer
    BY <2>1 DEF RefuseTransfer, Refusal, Outcome
  <2>2. CASE GiveUp
    <3>1. Verdict.code # "SUCCESS"
      BY <2>2, VerdictFacts DEF IInv, GiveUp
    <3> QED
      BY <3>1, <2>2 DEF GiveUp, Outcome
  <2> QED
    BY <2>1, <2>2
<1>2. /\ Status = "busy" /\ Status' = "failed"
  BY <1>1, StatusFacts, NextStatusFacts DEF RefuseTransfer, GiveUp
<1>3. length' = length /\ offset' = offset /\ accepted' = accepted
  BY DEF RefuseTransfer, GiveUp
<1> QED
  BY <1>2, <1>3 DEF Verified!Next, Verified!Fail

LEMMA StutterRefines ==
  RuntimeReset \/ BeginTransfer \/ Retry \/ UNCHANGED vars
    => UNCHANGED Verified!vtVars
<1> SUFFICES ASSUME RuntimeReset \/ BeginTransfer \/ Retry \/ UNCHANGED vars
             PROVE  UNCHANGED Verified!vtVars
  OBVIOUS
<1>1. length' = length /\ offset' = offset /\ accepted' = accepted
  BY DEF RuntimeReset, BeginTransfer, Retry, vars
<1>2. Status' = Status
  BY DEF RuntimeReset, BeginTransfer, Retry, vars, Status
<1> QED
  BY <1>1, <1>2 DEF Verified!vtVars

LEMMA ConfigureRefines == Configure => Verified!Next
<1> SUFFICES ASSUME Configure PROVE Verified!Next
  OBVIOUS
<1>1. Status # "busy" /\ Status' = "none"
  BY NextStatusFacts DEF Configure, Between, Status
<1> QED
  BY <1>1 DEF Configure, Verified!Next, Verified!Forget

LEMMA VerifyRefines ==
  ASSUME NEW n \in 0..MaxLength, NEW chunk \in 1..MaxChunk,
         VerifyChunked(n, chunk)
  PROVE  Verified!Next
<1>1. Status # "busy" /\ Status' = "busy"
  BY NextStatusFacts DEF VerifyChunked, Between, Status
<1>2. length' \in Nat /\ offset' = 0 /\ accepted' = <<>>
  BY ConfigsAssumption DEF VerifyChunked
<1> QED
  BY <1>1, <1>2 DEF Verified!Next, Verified!Start

(* The transport implements verification before acceptance: for every        *)
(* payload size, chunking, policy and fault, only intact pieces are accepted, *)
(* in order, and success means that the whole payload was.                   *)
THEOREM TransportImplementsVerifiedTransfer == Spec => ImplementsVerifiedTransfer
<1>1. Init => Verified!Init
  BY StatusFacts DEF Init, Verified!Init
<1>2. IInv /\ [Next]_vars => [Verified!Next]_(Verified!vtVars)
  <2> SUFFICES ASSUME IInv, [Next]_vars
               PROVE  Verified!Next \/ UNCHANGED Verified!vtVars
    OBVIOUS
  <2> QED
    BY AcceptRefines, FailRefines, StutterRefines, ConfigureRefines,
       VerifyRefines DEF Next
<1> QED
  BY <1>1, <1>2, Invariance, PTL DEF Spec, ImplementsVerifiedTransfer, Verified!Spec

-----------------------------------------------------------------------------
(***************************************************************************)
(* Which transfers succeed.  Under TicksFit no tick wraps, so the verdict  *)
(* on an attempt is that of the configured fault while it applies, and     *)
(* success after; the rest is counting attempts.                           *)
(***************************************************************************)
Foreseeable ==
  pc = "attempt" =>
    /\ policy.timeout > 0 /\ policy.fault \notin RefusedFaults
    /\ TicksFit /\ attempt > 0 => policy.fault \in RetryableFaults

OutcomeInv == Foreseeable /\ OutcomeDetermined

LEMMA ScaledOrder ==
  ASSUME NEW a \in Nat, NEW b \in Nat, NEW c \in Nat, a <= b
  PROVE  a * c \in Nat /\ b * c \in Nat /\ a * c <= b * c
<1>1. b - a \in Nat /\ b * c = a * c + (b - a) * c
  OBVIOUS
<1>2. (b - a) * c \in Nat /\ a * c \in Nat /\ b * c \in Nat
  BY <1>1
<1> QED
  BY <1>1, <1>2

LEMMA NoWrap ==
  ASSUME NEW x \in Nat, NEW m \in Nat, x < m PROVE x % m = x
  OBVIOUS

(* An attempt completes in time unless the fault is a logical timeout. *)
LEMMA TicksInOrder ==
  ASSUME TypeOK, pc = "attempt", TicksFit, policy.timeout > 0
  PROVE  CompletionTick > DeadlineTick <=> Applies /\ policy.fault = "LOGICAL_TIMEOUT"
<1> DEFINE start == attempt * (1 + policy.backoff)
           longest == policy.max_retries * (1 + policy.backoff)
<1>1. /\ policy.max_retries \in Nat /\ policy.backoff \in Nat /\ policy.timeout \in Nat
      /\ attempt \in Nat /\ attempt <= policy.max_retries /\ 1 + policy.backoff \in Nat
      /\ TickModulus \in Nat
  BY PolicyFacts, ConfigsAssumption DEF TypeOK
<1>2. start \in Nat /\ longest \in Nat /\ start <= longest
  BY <1>1, ScaledOrder
<1>3. longest + policy.timeout + 1 < TickModulus
  BY DEF TicksFit
<1>4. StartTick = start % TickModulus
  BY DEF StartTick
<1> HIDE DEF start, longest
<1>5. /\ start < TickModulus /\ start + 1 \in Nat /\ start + 1 < TickModulus
      /\ start + policy.timeout \in Nat /\ start + policy.timeout < TickModulus
      /\ start + policy.timeout + 1 \in Nat /\ start + policy.timeout + 1 < TickModulus
  BY <1>1, <1>2, <1>3
<1>6. StartTick = start
  BY <1>1, <1>2, <1>4, <1>5, NoWrap
<1>7. DeadlineTick = start + policy.timeout
  BY <1>1, <1>5, <1>6, NoWrap DEF DeadlineTick
<1>8. CompletionTick =
        IF Applies /\ policy.fault = "LOGICAL_TIMEOUT"
        THEN start + policy.timeout + 1 ELSE start + 1
  BY <1>1, <1>5, <1>6, <1>7, NoWrap DEF CompletionTick
<1> QED
  BY <1>1, <1>2, <1>7, <1>8

(* The verdict on an attempt, from the fault alone. *)
LEMMA ForeseenVerdict ==
  ASSUME TypeOK, pc = "attempt", TicksFit, policy.timeout > 0,
         policy.fault \notin RefusedFaults
  PROVE  /\ ~Applies => Verdict = Success
         /\ Applies /\ policy.fault \in FlipFaults /\ Current = 0 => Verdict = Success
         /\ Applies /\ policy.fault \in SequenceFaults =>
              Verdict = Outcome("COMM_FAILURE", "TERMINAL", policy.fault)
         /\ Applies /\ policy.fault \in RetryableFaults /\ Verdict # Success =>
              /\ Verdict.class = "RETRYABLE"
              /\ Verdict.code = "TIMEOUT" <=> policy.fault = "LOGICAL_TIMEOUT"
              /\ policy.fault \in FlipFaults => Current > 0
         /\ Applies /\ policy.fault \in RetryableFaults /\ Verdict = Success =>
              policy.fault \in FlipFaults /\ Current = 0
         /\ Applies => policy.fault \in SequenceFaults \cup RetryableFaults
<1>1. CompletionTick > DeadlineTick <=> Applies /\ policy.fault = "LOGICAL_TIMEOUT"
  BY TicksInOrder
<1>2. policy.fault \in Faults /\ Current \in Nat
  BY PolicyFacts, SizeFacts
<1>3. CrcDiffers <=>
        Applies /\ (policy.fault = "CRC_TAMPER" \/ (policy.fault \in FlipFaults /\ Current > 0))
  BY DEF CrcDiffers, Arrived
<1>4. Applies => policy.fault \in SequenceFaults \cup RetryableFaults
  BY <1>2 DEF Applies, Faults
<1>5. CASE ~Applies
  BY <1>1, <1>3, <1>5 DEF Verdict
<1>6. CASE Applies /\ policy.fault \in SequenceFaults
  <2>1. policy.fault \notin RetryableFaults /\ policy.fault \notin FlipFaults
    BY <1>6 DEF SequenceFaults, RetryableFaults, FlipFaults
  <2>2. Verdict = Outcome("COMM_FAILURE", "TERMINAL", policy.fault)
    BY <1>6 DEF Verdict
  <2> QED
    BY <1>6, <2>1, <2>2
<1>7. CASE Applies /\ policy.fault \in RetryableFaults
  <2>1. policy.fault \notin SequenceFaults
    BY <1>7 DEF SequenceFaults, RetryableFaults, FlipFaults
  <2>2. CASE policy.fault = "TRANSIENT_TRANSFER"
    BY <1>7, <2>1, <2>2 DEF Verdict, Outcome, Success, FlipFaults
  <2>3. CASE policy.fault = "LOGICAL_TIMEOUT"
    BY <1>1, <1>7, <2>1, <2>3 DEF Verdict, Outcome, Success, FlipFaults
  <2>4. CASE policy.fault = "CRC_TAMPER"
    BY <1>1, <1>3, <1>7, <2>1, <2>4 DEF Verdict, Outcome, Success, FlipFaults
  <2>5. CASE policy.fault \in FlipFaults
    <3>1. policy.fault \notin {"TRANSIENT_TRANSFER", "LOGICAL_TIMEOUT", "CRC_TAMPER"}
      BY <2>5 DEF FlipFaults
    <3> QED
      BY <1>1, <1>2, <1>3, <1>7, <2>1, <2>5, <3>1 DEF Verdict, Outcome, Success
  <2> QED
    BY <1>7, <2>2, <2>3, <2>4, <2>5 DEF RetryableFaults
<1> QED
  BY <1>4, <1>5, <1>6, <1>7

(* An accepted attempt shows the fault to be one the retries outlast. *)
LEMMA AcceptedIsRecoverable ==
  ASSUME IInv, Foreseeable, TicksFit, AcceptChunk PROVE Recoverable
<1>1. /\ TypeOK /\ pc = "attempt" /\ policy.timeout > 0 /\ policy.fault \notin RefusedFaults
      /\ Verdict = Success /\ attempt \in Nat /\ attempt <= policy.max_retries
      /\ policy.max_retries \in Nat /\ policy.until \in Nat
  BY PolicyFacts DEF IInv, TypeOK, Foreseeable, AcceptChunk
<1>2. CASE Applies
  <2>1. policy.fault \notin SequenceFaults
    <3>1. Outcome("COMM_FAILURE", "TERMINAL", policy.fault) # Success
      BY DEF Outcome, Success
    <3> QED
      BY <1>1, <1>2, <3>1, ForeseenVerdict
  <2>2. policy.fault \in FlipFaults /\ Current = 0
    BY <1>1, <1>2, <2>1, ForeseenVerdict
  <2>3. length = 0
    BY <1>1, <2>2, SizeFacts DEF IInv, CallInv
  <2> QED
    BY <1>1, <2>2, <2>3 DEF Recoverable
<1>3. CASE ~Applies
  <2>1. policy.fault # "NONE" => policy.until < attempt
    BY <1>1, <1>3 DEF Applies
  <2>2. policy.fault # "NONE" => policy.fault \in RetryableFaults
    BY <1>1, <2>1 DEF Foreseeable
  <2> QED
    BY <1>1, <2>1, <2>2 DEF Recoverable
<1> QED
  BY <1>2, <1>3

LEMMA SameForecast ==
  ASSUME UNCHANGED policy, UNCHANGED length
  PROVE  (Recoverable' <=> Recoverable) /\ (TicksFit' <=> TicksFit)
  BY DEF Recoverable, TicksFit

LEMMA AcceptOutcome == IInv /\ OutcomeInv /\ AcceptChunk => OutcomeInv'
<1> SUFFICES ASSUME IInv, OutcomeInv, AcceptChunk PROVE OutcomeInv'
  OBVIOUS
<1>1. UNCHANGED policy /\ UNCHANGED length /\ result' = Success /\ pc' # "attempt"
  BY DEF AcceptChunk
<1>2. TicksFit' => Recoverable'
  BY <1>1, SameForecast, AcceptedIsRecoverable DEF OutcomeInv
<1>3. result'.code = "SUCCESS" /\ result'.reason # "RETRY_EXHAUSTED"
  BY <1>1 DEF Success, Outcome
<1> QED
  BY <1>1, <1>2, <1>3 DEF OutcomeInv, Foreseeable, OutcomeDetermined

LEMMA RetryOutcome == IInv /\ OutcomeInv /\ Retry => OutcomeInv'
<1> SUFFICES ASSUME IInv, OutcomeInv, Retry PROVE OutcomeInv'
  OBVIOUS
<1>1. UNCHANGED policy /\ UNCHANGED length /\ pc' = "attempt" /\ pc = "attempt"
  BY DEF Retry
<1>2. /\ TypeOK /\ policy.timeout > 0 /\ policy.fault \notin RefusedFaults
      /\ Verdict.class = "RETRYABLE"
  BY <1>1 DEF IInv, OutcomeInv, Foreseeable, Retry, Retries
<1>3. ASSUME TicksFit PROVE policy.fault \in RetryableFaults
  <2>1. Verdict # Success /\ Verdict # Outcome("COMM_FAILURE", "TERMINAL", policy.fault)
    BY <1>2 DEF Success, Outcome
  <2> QED
    BY <1>1, <1>2, <1>3, <2>1, ForeseenVerdict
<1>4. TicksFit' <=> TicksFit
  BY <1>1, SameForecast
<1> QED
  BY <1>1, <1>2, <1>3, <1>4 DEF OutcomeInv, Foreseeable, OutcomeDetermined

(* Giving up means a sequence fault, or a retryable one that outlasted every *)
(* attempt.                                                                  *)
LEMMA GiveUpOutcome == IInv /\ OutcomeInv /\ GiveUp => OutcomeInv'
<1> SUFFICES ASSUME IInv, OutcomeInv, GiveUp PROVE OutcomeInv'
  OBVIOUS
<1>1. /\ UNCHANGED policy /\ UNCHANGED length /\ UNCHANGED attempt
      /\ pc' = "returned" /\ pc = "attempt"
  BY DEF GiveUp
<1>2. /\ TypeOK /\ policy.timeout > 0 /\ policy.fault \notin RefusedFaults
      /\ Verdict # Success /\ Verdict.code # "SUCCESS" /\ attempt \in Nat
      /\ attempt <= policy.max_retries
      /\ policy.max_retries \in Nat /\ policy.until \in Nat
  BY <1>1, PolicyFacts, VerdictFacts DEF IInv, TypeOK, OutcomeInv, Foreseeable, GiveUp
<1>3. ASSUME TicksFit
      PROVE  /\ result'.code # "SUCCESS" /\ ~Recoverable
             /\ result'.reason = "RETRY_EXHAUSTED" <=> policy.fault \in RetryableFaults
             /\ result'.reason = "RETRY_EXHAUSTED" =>
                  /\ attempt = policy.max_retries
                  /\ (result'.code = "TIMEOUT") <=> (policy.fault = "LOGICAL_TIMEOUT")
  <2>1. Applies
    BY <1>1, <1>2, <1>3, ForeseenVerdict
  <2>2. CASE policy.fault \in SequenceFaults
    <3>1. Verdict = Outcome("COMM_FAILURE", "TERMINAL", policy.fault)
      BY <1>1, <1>2, <1>3, <2>1, <2>2, ForeseenVerdict
    <3>2. result' = Verdict
      BY <3>1 DEF GiveUp, Outcome
    <3>3. policy.fault \notin RetryableFaults \cup FlipFaults \cup {"NONE", "RETRY_EXHAUSTED"}
      BY <2>2 DEF SequenceFaults, RetryableFaults, FlipFaults
    <3> QED
      BY <3>1, <3>2, <3>3 DEF Recoverable, Outcome
  <2>3. CASE policy.fault \in RetryableFaults
    <3>1. /\ Verdict.class = "RETRYABLE"
          /\ Verdict.code = "TIMEOUT" <=> policy.fault = "LOGICAL_TIMEOUT"
          /\ policy.fault \in FlipFaults => Current > 0
      BY <1>1, <1>2, <1>3, <2>1, <2>3, ForeseenVerdict
    <3>2. attempt = policy.max_retries
      BY <1>2, <3>1 DEF GiveUp, Retries
    <3>3. result' = Outcome(Verdict.code, "TERMINAL", "RETRY_EXHAUSTED")
      BY <3>1 DEF GiveUp
    <3>4. policy.until >= policy.max_retries /\ policy.fault # "NONE"
      BY <1>2, <2>1, <3>2 DEF Applies
    <3>5. policy.fault \in FlipFaults => length # 0
      <4>1. length = 0 => Current = 0
        BY <1>2, SizeFacts
      <4> QED
        BY <3>1, <4>1
    <3>6. ~Recoverable
      BY <1>2, <3>4, <3>5 DEF Recoverable
    <3> QED
      BY <1>2, <2>3, <3>1, <3>2, <3>3, <3>6 DEF Outcome
  <2> QED
    BY <1>1, <1>2, <1>3, <2>1, <2>2, <2>3, ForeseenVerdict
<1>4. (Recoverable' <=> Recoverable) /\ (TicksFit' <=> TicksFit)
  BY <1>1, SameForecast
<1> QED
  BY <1>1, <1>2, <1>3, <1>4 DEF OutcomeInv, Foreseeable, OutcomeDetermined

LEMMA RefuseOutcome == IInv /\ OutcomeInv /\ RefuseTransfer => OutcomeInv'
<1> SUFFICES ASSUME IInv, RefuseTransfer PROVE OutcomeInv'
  OBVIOUS
<1>1. UNCHANGED policy /\ UNCHANGED length /\ pc' = "returned" /\ result' = Refusal
  BY DEF RefuseTransfer
<1>2. policy.timeout \in Nat
  BY PolicyFacts DEF IInv
<1>3. policy.timeout = 0 \/ policy.fault \in RefusedFaults
  BY DEF RefuseTransfer
<1>4. policy.fault \in RefusedFaults =>
        policy.fault \notin RetryableFaults \cup FlipFaults \cup {"NONE"}
  BY DEF RefusedFaults, RetryableFaults, FlipFaults
<1>5. ~Recoverable /\ ~(policy.timeout > 0 /\ policy.fault \in RetryableFaults)
  BY <1>2, <1>3, <1>4 DEF Recoverable
<1>6. result'.code # "SUCCESS" /\ result'.reason # "RETRY_EXHAUSTED"
  BY <1>1 DEF Refusal, Outcome
<1>7. (Recoverable' <=> Recoverable) /\ (TicksFit' <=> TicksFit)
  BY <1>1, SameForecast
<1> QED
  BY <1>1, <1>5, <1>6, <1>7 DEF OutcomeInv, Foreseeable, OutcomeDetermined

LEMMA OutcomeStep == IInv /\ OutcomeInv /\ [Next]_vars => OutcomeInv'
<1> SUFFICES ASSUME IInv, OutcomeInv, [Next]_vars PROVE OutcomeInv'
  OBVIOUS
<1>1. CASE Configure \/ \E n \in 0..MaxLength, chunk \in 1..MaxChunk : VerifyChunked(n, chunk)
  <2>1. pc' \in {"ready", "transfer"}
    BY <1>1 DEF Configure, VerifyChunked
  <2> QED
    BY <2>1 DEF OutcomeInv, Foreseeable, OutcomeDetermined
<1>2. CASE BeginTransfer
  <2>1. /\ pc' = "attempt" /\ attempt' = 0 /\ UNCHANGED policy
        /\ policy.timeout > 0 /\ policy.fault \notin RefusedFaults
    BY <1>2 DEF BeginTransfer
  <2> QED
    BY <2>1 DEF OutcomeInv, Foreseeable, OutcomeDetermined
<1>3. CASE RuntimeReset \/ UNCHANGED vars
  <2>1. UNCHANGED <<policy, pc, length, attempt, result>>
    BY <1>3 DEF RuntimeReset, vars
  <2> QED
    BY <2>1, SameForecast DEF OutcomeInv, Foreseeable, OutcomeDetermined, TicksFit
<1> QED
  BY <1>1, <1>2, <1>3, AcceptOutcome, RetryOutcome, GiveUpOutcome, RefuseOutcome DEF Next

(* For every configuration whose ticks fit the 64 bits: a transfer succeeds  *)
(* exactly when its fault clears within the allowed attempts, and reports    *)
(* exhaustion exactly when a retryable one does not, with the fault's code.  *)
THEOREM OutcomesDetermined == Spec => []OutcomeDetermined
<1>1. Init => OutcomeInv
  BY DEF Init, OutcomeInv, Foreseeable, OutcomeDetermined
<1>2. OutcomeInv => OutcomeDetermined
  BY DEF OutcomeInv
<1> QED
  BY <1>1, <1>2, OutcomeStep, Invariance, PTL DEF Spec
=============================================================================
