---------------------------- MODULE FlowControl -----------------------------
(***************************************************************************)
(* Credit-based flow control with high and low watermarks, translated from *)
(* feature_completion/flow_control.py.  A producer puts chunks 0, 1, ...   *)
(* into a bounded pipe, a consumer whose capacity varies from tick to tick *)
(* takes them out and returns one credit per chunk.  One turn of the       *)
(* while-loop of simulate_flow_control is one tick:                        *)
(*                                                                         *)
(*   "loop"     the loop condition is evaluated, then the consumer takes   *)
(*              what its capacity allows and may resume the producer       *)
(*   "produce"  one iteration of the producer's for-loop                   *)
(*   "check"    the run-time self check that ends the tick                 *)
(*   "done"     the loop has ended                                         *)
(*   "failed"   the self check raised RuntimeError                         *)
(*                                                                         *)
(* A chunk is its number; byte sizes are abstracted: MemoryBudget is       *)
(* memory_budget_bytes \div chunk_bytes, a number of chunks.               *)
(***************************************************************************)
EXTENDS Integers, Sequences

CONSTANTS
  MaxTotal,      \* largest total_chunks tried
  MaxWindow,     \* largest credit_window tried
  MaxRate,       \* largest producer_rate tried
  MaxCapacity,   \* largest consumer capacity tried
  MaxPattern,    \* longest consumer_capacity_pattern tried
  MemoryBudget   \* how many chunks fit in the memory budget

ASSUME BoundsAssumption ==
  /\ MaxTotal \in Nat /\ MaxWindow \in Nat /\ MaxRate \in Nat
  /\ MaxCapacity \in Nat /\ MaxPattern \in Nat /\ MemoryBudget \in Nat

VARIABLES
  args,       \* the arguments of the call; constant during the call
  at,         \* where the loop is
  tick,       \* number of completed ticks
  burst,      \* iterations the producer has done in this tick
  inflight,   \* chunks in the pipe, oldest first
  completed,  \* chunks consumed, in order
  produced,   \* number of chunks produced
  credit,     \* available_credit
  paused,     \* the producer is paused by the high watermark
  blocked     \* blocked_producer_events

pipe == <<inflight, completed, produced, credit>>
flowVars == <<args, at, tick, burst, inflight, completed, produced, credit,
              paused, blocked>>

-----------------------------------------------------------------------------
(* The arguments that pass the checks at the top of the call. *)

Patterns == UNION {[1..n -> 0..MaxCapacity] : n \in 1..MaxPattern}

ValidFlowConfig(c) ==
  /\ 1 <= c.max_inflight
  /\ c.max_inflight <= c.credit_window
  /\ c.low <= c.high
  /\ c.high <= c.max_inflight
  /\ c.max_inflight <= MemoryBudget

Args ==
  {c \in [total: 0..MaxTotal, pattern: Patterns, credit_window: 1..MaxWindow,
          max_inflight: 1..MaxWindow, high: 0..MaxWindow, low: 0..MaxWindow,
          rate: 1..MaxRate] : ValidFlowConfig(c)}

Smaller(a, b) == IF a <= b THEN a ELSE b
Larger(a, b) == IF a >= b THEN a ELSE b

(* The pattern's last capacity holds for every later tick. *)
Capacity == args.pattern[Smaller(tick + 1, Len(args.pattern))]

TickBudget == Larger(16, args.total * 16 + Len(args.pattern) * 4)

Unfinished == produced < args.total \/ inflight # <<>>

Drained == produced = args.total /\ inflight = <<>>

(* The condition of the while-loop.  Seeded fault: no tick budget. *)
MayTickForever == Unfinished
MayTick == Unfinished /\ tick < TickBudget

(* The n chunks the consumer takes.  Seeded fault: it takes the newest. *)
Newest(n) == SubSeq(inflight, Len(inflight) - n + 1, Len(inflight))
Oldest(n) == SubSeq(inflight, 1, n)

(* A paused producer resumes when only left chunks are in the pipe.  Seeded *)
(* faults: strictly below the low watermark; at the high watermark.         *)
ResumesBelowLow(left) == left < args.low
ResumesAtHigh(left) == left <= args.high
Resumes(left) == left <= args.low

(* The producer may not put another chunk in.  Seeded fault: nothing but *)
(* the watermark and the credits bounds the pipe.                        *)
BlockedWithoutBound == paused \/ credit = 0
Blocked == \/ paused
           \/ credit = 0
           \/ Len(inflight) >= args.max_inflight

-----------------------------------------------------------------------------
FlowInit ==
  /\ args \in Args
  /\ at = "loop"
  /\ tick = 0
  /\ burst = 0
  /\ inflight = <<>>
  /\ completed = <<>>
  /\ produced = 0
  /\ credit = args.credit_window
  /\ paused = FALSE
  /\ blocked = 0

(* The consumer takes a batch from the front; the producer resumes once the *)
(* pipe has drained to the low watermark.                                   *)
Consume ==
  /\ at = "loop"
  /\ MayTick
  /\ LET n == Smaller(Capacity, Len(inflight)) IN
       /\ inflight' = SubSeq(inflight, n + 1, Len(inflight))
       /\ completed' = completed \o Oldest(n)
       /\ credit' = credit + n
       /\ paused' = (paused /\ ~Resumes(Len(inflight) - n))
  /\ burst' = 0
  /\ at' = "produce"
  /\ UNCHANGED <<args, tick, produced, blocked>>

ProduceChunk ==
  /\ at = "produce"
  /\ burst < args.rate
  /\ produced < args.total
  /\ ~Blocked
  /\ inflight' = Append(inflight, produced)
  /\ produced' = produced + 1
  /\ credit' = credit - 1
  /\ paused' = (Len(inflight) + 1 >= args.high)
  /\ burst' = burst + 1
  /\ at' = IF paused' THEN "check" ELSE "produce"
  /\ UNCHANGED <<args, tick, completed, blocked>>

ProducerBlocked ==
  /\ at = "produce"
  /\ burst < args.rate
  /\ produced < args.total
  /\ Blocked
  /\ blocked' = blocked + 1
  /\ at' = "check"
  /\ UNCHANGED <<args, tick, burst, pipe, paused>>

ProducerIdle ==
  /\ at = "produce"
  /\ burst = args.rate \/ produced >= args.total
  /\ at' = "check"
  /\ UNCHANGED <<args, tick, burst, pipe, paused, blocked>>

(* The condition under which the code raises RuntimeError. *)
SelfCheckFails ==
  \/ credit < 0
  \/ Len(inflight) > args.max_inflight
  \/ credit + Len(inflight) # args.credit_window

EndTick ==
  /\ at = "check"
  /\ at' = IF SelfCheckFails THEN "failed" ELSE "loop"
  /\ tick' = IF SelfCheckFails THEN tick ELSE tick + 1
  /\ UNCHANGED <<args, burst, pipe, paused, blocked>>

Finish ==
  /\ at = "loop"
  /\ ~MayTick
  /\ at' = "done"
  /\ UNCHANGED <<args, tick, burst, pipe, paused, blocked>>

FlowNext ==
  \/ Consume
  \/ ProduceChunk
  \/ ProducerBlocked
  \/ ProducerIdle
  \/ EndTick
  \/ Finish

FlowSpec == FlowInit /\ [][FlowNext]_flowVars

-----------------------------------------------------------------------------
(* Every variable keeps its type, and the loop never overruns the tick      *)
(* budget of simulate_flow_control.                                         *)
FlowTypeOK ==
  /\ args \in Args
  /\ at \in {"loop", "produce", "check", "done", "failed"}
  /\ tick \in 0..TickBudget
  /\ burst \in 0..args.rate
  /\ inflight \in Seq(Nat)
  /\ completed \in Seq(Nat)
  /\ produced \in 0..args.total
  /\ credit \in Int
  /\ paused \in BOOLEAN
  /\ blocked \in 0..TickBudget

(* The self check at the end of a tick never raises: credits are conserved, *)
(* never negative, and the pipe never exceeds max_inflight_chunks (hence    *)
(* the memory budget), whatever the capacities and watermarks.              *)
NeverRaises == at # "failed"

(* With distinct watermarks the high watermark alone bounds the pipe: a     *)
(* producer paused at the high watermark cannot be resumed early.  (With    *)
(* low = high only max_inflight_chunks bounds it.)                          *)
HighWatermarkBounds == args.low < args.high => Len(inflight) <= args.high

(* The tick budget is never what ends the loop when the consumer's last     *)
(* capacity is positive: the call then reports drained, with every chunk.   *)
DrainsWithinBudget ==
  at = "done" /\ args.pattern[Len(args.pattern)] > 0 =>
    Drained /\ Len(completed) = args.total

(* The producer is only ever counted as blocked while chunks are in the     *)
(* pipe, so a blocked producer always waits for a consumer with work: there *)
(* is no state in which each waits for the other.                           *)
BlockedOnlyOnBacklog == [][blocked' > blocked => inflight # <<>>]_flowVars

(* The pipe is a lossless bounded FIFO channel: no chunk is lost,           *)
(* duplicated or overtaken between the producer and the completed list.     *)
Channel == INSTANCE BoundedChannel WITH
  capacity <- args.max_inflight, sent <- produced, buffer <- inflight,
  received <- completed

ImplementsChannel == Channel!Spec
=============================================================================
