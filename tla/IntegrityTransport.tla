------------------------- MODULE IntegrityTransport -------------------------
(***************************************************************************)
(* Chunked payload verification with CRC, logical timeout and bounded      *)
(* retry: hccl_integrity_verify_chunked and hccl_integrity_execute of      *)
(* hcccl/src/internal/integrity_transport.c, with the test configuration   *)
(* and the run-time statistics they share as globals.                      *)
(*                                                                         *)
(* A copy of a chunk is "intact" or "corrupt": CRC32 tells every single    *)
(* flipped bit or byte.  Logical ticks are unsigned 64-bit numbers in the  *)
(* code, numbers modulo TickModulus here.                                  *)
(***************************************************************************)
EXTENDS Integers, Sequences

CONSTANTS
  Configs,        \* the configurations test code installs
  MaxLength,      \* longest payload verified, in units of data
  MaxChunk,       \* largest chunk_bytes used, in the same units
  TickModulus,    \* 2^64 in the code
  MaxTransfers    \* bound: no call begins once this many are recorded

SequenceFaults == {"DUPLICATE_SEQUENCE", "MISSING_CHUNK", "REORDERED_SEQUENCE"}
FlipFaults == {"BIT_FLIP", "BYTE_FLIP"}
RetryableFaults ==
  FlipFaults \cup {"CRC_TAMPER", "LOGICAL_TIMEOUT", "TRANSIENT_TRANSFER"}
RefusedFaults == {"INVALID_INPUT", "NO_ALTERNATE_PATH"}
Faults == SequenceFaults \cup RetryableFaults \cup RefusedFaults \cup {"NONE"}

Config == [max_retries: Nat, timeout: 0..(TickModulus - 1),
           backoff: 0..(TickModulus - 1), fault: Faults, until: Nat]

ASSUME ConfigsAssumption ==
  /\ TickModulus \in Nat /\ TickModulus > 8
  /\ MaxLength \in Nat /\ MaxChunk \in Nat /\ MaxTransfers \in Nat
  /\ \A c \in Configs : c \in Config

DefaultConfig == [max_retries |-> 3, timeout |-> 8, backoff |-> 1,
                  fault |-> "NONE", until |-> 0]

VARIABLES
  policy,        \* the test configuration installed, or the default
  pc,            \* "ready" | "transfer" | "attempt" | "returned"
  length,        \* size of the payload being verified
  chunk_bytes,
  offset,        \* how much of it is verified
  attempt,       \* number of the current attempt
  ever,          \* the error codes this transfer has met and will report
  retransmitted, \* how much this transfer has sent again
  accepted,      \* the copies whose verification succeeded
  result,        \* what the last transfer returned
  stats          \* g_runtime_stats

vars == <<policy, pc, length, chunk_bytes, offset, attempt, ever,
          retransmitted, accepted, result, stats>>

Codes == {"SUCCESS", "INVALID_ARG", "TOPOLOGY", "COMM_FAILURE", "TIMEOUT",
          "CRC_MISMATCH"}
Classes == {"NONE", "RETRYABLE", "NON_RETRYABLE", "TERMINAL"}
Reasons == {"NONE", "CRC_MISMATCH", "LOGICAL_TIMEOUT", "INVALID_ARGUMENT",
            "TRANSIENT_TRANSFER_FAILURE", "RETRY_EXHAUSTED",
            "NO_ALTERNATE_PATH"} \cup SequenceFaults
Outcomes == [code: Codes, class: Classes, reason: Reasons]
Stats == [transfers: Nat, verified: Nat, retries: Nat, crc: Nat,
          timeouts: Nat, sequence: Nat, retransmitted: Nat]

Outcome(code, class, reason) == [code |-> code, class |-> class, reason |-> reason]
Success == Outcome("SUCCESS", "NONE", "NONE")

ZeroStats == [transfers |-> 0, verified |-> 0, retries |-> 0, crc |-> 0,
              timeouts |-> 0, sequence |-> 0, retransmitted |-> 0]

Current == IF length - offset < chunk_bytes THEN length - offset ELSE chunk_bytes

-----------------------------------------------------------------------------
(* One attempt. *)

(* Seeded fault: the attempt numbered fault_until_attempt is healthy. *)
AppliesBefore == policy.fault # "NONE" /\ attempt < policy.until
Applies == policy.fault # "NONE" /\ attempt <= policy.until

StartTick == (attempt * (1 + policy.backoff)) % TickModulus
DeadlineTick == (StartTick + policy.timeout) % TickModulus
CompletionTick ==
  IF Applies /\ policy.fault = "LOGICAL_TIMEOUT"
  THEN (DeadlineTick + 1) % TickModulus
  ELSE (StartTick + 1) % TickModulus

(* What the copy left in the destination. *)
Arrived ==
  IF Applies /\ policy.fault \in FlipFaults /\ Current > 0
  THEN "corrupt" ELSE "intact"

(* Seeded fault: the payload's own checksum is not computed. *)
ExpectedTampered == Applies /\ policy.fault = "CRC_TAMPER"
CrcDiffers == (Applies /\ policy.fault = "CRC_TAMPER") \/ Arrived = "corrupt"

Verdict ==
  IF Applies /\ policy.fault \in SequenceFaults
    THEN Outcome("COMM_FAILURE", "TERMINAL", policy.fault)
  ELSE IF Applies /\ policy.fault = "TRANSIENT_TRANSFER"
    THEN Outcome("COMM_FAILURE", "RETRYABLE", "TRANSIENT_TRANSFER_FAILURE")
  ELSE IF CompletionTick > DeadlineTick
    THEN Outcome("TIMEOUT", "RETRYABLE", "LOGICAL_TIMEOUT")
  ELSE IF CrcDiffers
    THEN Outcome("CRC_MISMATCH", "RETRYABLE", "CRC_MISMATCH")
  ELSE Success

Met == ever \cup ({Verdict.code} \cap {"CRC_MISMATCH", "TIMEOUT"})

(* Seeded fault: one attempt too many. *)
RetriesOnceMore == Verdict.class = "RETRYABLE" /\ attempt <= policy.max_retries
Retries == Verdict.class = "RETRYABLE" /\ attempt < policy.max_retries

(* record_runtime: the statistics after a transfer with these results.     *)
(* Seeded fault: the first attempt is counted as a retry.                  *)
Bump(condition) == IF condition THEN 1 ELSE 0

RetryCountOffByOne(attempts) == attempts
RetryCount(attempts) == IF attempts > 0 THEN attempts - 1 ELSE 0

Recorded(outcome, attempts, met) ==
  [transfers |-> stats.transfers + 1,
   verified |-> stats.verified + Bump(outcome.code = "SUCCESS"),
   retries |-> stats.retries + RetryCount(attempts),
   crc |-> stats.crc + Bump("CRC_MISMATCH" \in met),
   timeouts |-> stats.timeouts + Bump("TIMEOUT" \in met),
   sequence |-> stats.sequence + Bump(outcome.reason \in SequenceFaults),
   retransmitted |-> stats.retransmitted + retransmitted]

-----------------------------------------------------------------------------
Init ==
  /\ policy = DefaultConfig
  /\ pc = "ready"
  /\ length = 0 /\ chunk_bytes = 1 /\ offset = 0
  /\ attempt = 0 /\ ever = {} /\ retransmitted = 0
  /\ accepted = <<>>
  /\ result = Success
  /\ stats = ZeroStats

Between == pc \in {"ready", "returned"}

(* hccl_integrity_test_configure and hccl_integrity_test_clear.  What the *)
(* previous call returned is of no further interest.                      *)
Configure ==
  /\ Between
  /\ policy' \in Configs \cup {DefaultConfig}
  /\ pc' = "ready"
  /\ length' = 0 /\ chunk_bytes' = 1 /\ offset' = 0
  /\ attempt' = 0 /\ ever' = {} /\ retransmitted' = 0
  /\ accepted' = <<>>
  /\ result' = Success
  /\ UNCHANGED stats

RuntimeReset ==
  /\ Between
  /\ stats' = ZeroStats
  /\ UNCHANGED <<policy, pc, length, chunk_bytes, offset, attempt, ever,
                 retransmitted, accepted, result>>

VerifyChunked(n, chunk) ==
  /\ Between
  /\ stats.transfers < MaxTransfers
  /\ pc' = "transfer"
  /\ length' = n
  /\ chunk_bytes' = chunk
  /\ offset' = 0
  /\ attempt' = 0 /\ ever' = {} /\ retransmitted' = 0
  /\ accepted' = <<>>
  /\ UNCHANGED <<policy, result, stats>>

(* hccl_integrity_execute begins: arguments and configuration are checked. *)
Refusal ==
  IF policy.timeout = 0 \/ policy.fault = "INVALID_INPUT"
  THEN Outcome("INVALID_ARG", "NON_RETRYABLE", "INVALID_ARGUMENT")
  ELSE Outcome("TOPOLOGY", "TERMINAL", "NO_ALTERNATE_PATH")

BeginTransfer ==
  /\ pc = "transfer"
  /\ policy.timeout > 0
  /\ policy.fault \notin RefusedFaults
  /\ pc' = "attempt"
  /\ attempt' = 0 /\ ever' = {} /\ retransmitted' = 0
  /\ UNCHANGED <<policy, length, chunk_bytes, offset, accepted, result, stats>>

RefuseTransfer ==
  /\ pc = "transfer"
  /\ policy.timeout = 0 \/ policy.fault \in RefusedFaults
  /\ result' = Refusal
  /\ retransmitted' = 0
  /\ stats' = [stats EXCEPT !.transfers = @ + 1]
  /\ pc' = "returned"
  /\ UNCHANGED <<policy, length, chunk_bytes, offset, attempt, ever, accepted>>

(* The copy is accepted; the call goes on to the next chunk, if any. *)
AcceptChunk ==
  /\ pc = "attempt"
  /\ Verdict = Success
  /\ result' = Success
  /\ stats' = Recorded(Success, attempt + 1, ever)
  /\ accepted' = Append(accepted, Arrived)
  /\ offset' = offset + Current
  /\ pc' = IF offset + Current < length THEN "transfer" ELSE "returned"
  /\ UNCHANGED <<policy, length, chunk_bytes, attempt, ever, retransmitted>>

Retry ==
  /\ pc = "attempt"
  /\ Retries
  /\ attempt' = attempt + 1
  /\ ever' = Met
  /\ retransmitted' = retransmitted + Current
  /\ UNCHANGED <<policy, pc, length, chunk_bytes, offset, accepted, result, stats>>

(* A terminal failure, or a retryable one with no attempt left. *)
GiveUp ==
  /\ pc = "attempt"
  /\ Verdict # Success
  /\ ~Retries
  /\ result' = IF Verdict.class = "RETRYABLE"
               THEN Outcome(Verdict.code, "TERMINAL", "RETRY_EXHAUSTED")
               ELSE Verdict
  /\ stats' = Recorded(Verdict, attempt + 1, Met)
  /\ ever' = Met
  /\ pc' = "returned"
  /\ UNCHANGED <<policy, length, chunk_bytes, offset, attempt, retransmitted,
                 accepted>>

Next ==
  \/ Configure
  \/ RuntimeReset
  \/ \E n \in 0..MaxLength, chunk \in 1..MaxChunk : VerifyChunked(n, chunk)
  \/ BeginTransfer
  \/ RefuseTransfer
  \/ AcceptChunk
  \/ Retry
  \/ GiveUp

Spec == Init /\ [][Next]_vars

-----------------------------------------------------------------------------
(* Types; the attempt number never exceeds max_retries and the verified     *)
(* part never exceeds the payload.                                          *)
TypeOK ==
  /\ policy \in Configs \cup {DefaultConfig}
  /\ pc \in {"ready", "transfer", "attempt", "returned"}
  /\ length \in 0..MaxLength /\ chunk_bytes \in Nat \ {0}
  /\ offset \in 0..length
  /\ attempt \in Nat /\ (pc = "attempt" => attempt <= policy.max_retries)
  /\ ever \subseteq {"CRC_MISMATCH", "TIMEOUT"}
  /\ retransmitted \in Nat
  /\ accepted \in Seq({"intact", "corrupt"})
  /\ result \in Outcomes
  /\ stats \in Stats

(* No tick of any attempt reaches the end of the 64-bit tick range. *)
TicksFit ==
  policy.max_retries * (1 + policy.backoff) + policy.timeout + 1 < TickModulus

(* The configuration's fault lets a transfer of the payload succeed. *)
Recoverable ==
  /\ policy.timeout > 0
  /\ \/ policy.fault = "NONE"
     \/ policy.fault \in FlipFaults /\ length = 0
     \/ policy.fault \in RetryableFaults /\ policy.until < policy.max_retries

(* Verification succeeds exactly when the fault clears within the allowed   *)
(* attempts, and a persistent retryable fault is reported as exhaustion     *)
(* with the fault's own error code, never as another failure.               *)
OutcomeDetermined ==
  pc = "returned" /\ TicksFit =>
    /\ (result.code = "SUCCESS") <=> Recoverable
    /\ (result.reason = "RETRY_EXHAUSTED") <=>
         /\ policy.timeout > 0
         /\ policy.fault \in RetryableFaults
         /\ ~Recoverable
    /\ result.reason = "RETRY_EXHAUSTED" =>
         /\ attempt = policy.max_retries
         /\ (result.code = "TIMEOUT") <=> (policy.fault = "LOGICAL_TIMEOUT")

(* Statistics account for retransmission exactly: each recorded transfer    *)
(* adds its retries, each of which sent the chunk once more.                *)
RetransmissionAccounted ==
  [][stats'.transfers > stats.transfers =>
       /\ stats'.retransmitted - stats.retransmitted
            = (stats'.retries - stats.retries) * Current
       /\ stats'.retries - stats.retries <= policy.max_retries]_vars

(* Verification before acceptance: a call accepts only intact pieces, in    *)
(* order, and succeeds exactly when it has accepted the whole payload.      *)
Status ==
  IF pc \in {"transfer", "attempt"} THEN "busy"
  ELSE IF pc = "ready" THEN "none"
  ELSE IF result.code = "SUCCESS" THEN "ok" ELSE "failed"

Verified == INSTANCE VerifiedTransfer WITH
  status <- Status, total <- length, done <- offset, copies <- accepted

ImplementsVerifiedTransfer == Verified!Spec
=============================================================================
