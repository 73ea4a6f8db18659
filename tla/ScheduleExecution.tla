-------------------------- MODULE ScheduleExecution --------------------------
(***************************************************************************)
(* The collective schedules that algorithm/ring_schedule.py and            *)
(* algorithm/topology_schedules.py generate, executed by the ranks.        *)
(*                                                                         *)
(* A schedule is a sequence of phases, each depending on the one before    *)
(* it; the transfers of a phase have no order.  A transfer reads the       *)
(* sender's chunk at some moment of the phase and is delivered at another; *)
(* REDUCE adds it to the receiver's chunk, COPY replaces it.               *)
(*                                                                         *)
(* A chunk's content is how often each rank's contribution is in it: 0, 1, *)
(* or 2 for "more than once".  Ring cuts a message into one chunk per      *)
(* rank; the other algorithms treat all chunks alike, and one is kept.     *)
(***************************************************************************)
EXTENDS Integers, FiniteSets

CONSTANTS
  RingSizes, ButterflySizes, NhrSizes, HierarchicalSizes, MeshSizes,
  GroupSize,    \* ranks per group, 8 in the code
  Fanout        \* transfers a rank sends per Mesh phase on a full mesh, 4

(* 1 << k *)
Bit[k \in Nat] == IF k = 0 THEN 1 ELSE 2 * Bit[k - 1]

ASSUME SizesAssumption ==
  /\ \A n \in RingSizes \cup ButterflySizes \cup NhrSizes
              \cup HierarchicalSizes \cup MeshSizes : n \in Nat /\ n >= 2
  /\ \A n \in ButterflySizes : \E k \in 0..n : n = Bit[k]
  /\ GroupSize \in Nat \ {0} /\ Fanout \in Nat \ {0}
  /\ \A n \in HierarchicalSizes : n > GroupSize

VARIABLES
  job,       \* algorithm, primitive and number of ranks
  order,     \* the order of the ranks that nhr_order found
  phase,     \* index of the current phase
  unsent, inFlight, \* transfers of the phase
  held       \* what each rank holds of each chunk

vars == <<job, order, phase, unsent, inFlight, held>>

(* SUPPORT_MATRIX, but for Butterfly AllGather. *)
Jobs ==
  [algorithm: {"Ring"}, primitive: {"AllReduce", "AllGather", "ReduceScatter"},
   ranks: RingSizes]
    \cup [algorithm: {"Butterfly"}, primitive: {"AllReduce"}, ranks: ButterflySizes]
    \cup [algorithm: {"NHR"}, primitive: {"AllReduce"}, ranks: NhrSizes]
    \cup [algorithm: {"Hierarchical"}, primitive: {"AllReduce"},
          ranks: HierarchicalSizes]
    \cup [algorithm: {"Mesh"}, primitive: {"AllReduce", "ReduceScatter"},
          ranks: MeshSizes]

Ranks == 0..(job.ranks - 1)
Chunks == IF job.algorithm = "Ring" THEN Ranks ELSE {0}

Transfer(s, d, c, op) == [source |-> s, destination |-> d, chunk |-> c, op |-> op]

-----------------------------------------------------------------------------
(* Ring.  Seeded faults: no neighbour; a chunk index off by one in either *)
(* half; the second half adds instead of copying.                         *)
Itself(r) == (r + job.ranks) % job.ranks
Neighbour(r) == (r + 1) % job.ranks

Turn == job.ranks - 1

LateReduceChunk(s, step) == (s - step) % job.ranks
ReduceChunk(s, step) == (s - step - 1) % job.ranks

EarlyGatherChunk(s, step) == (s - step - 1) % job.ranks
GatherChunk(s, step) == (s - step) % job.ranks

GatherAdds == "REDUCE"
GatherOperation == "COPY"

ReducePhases == IF job.primitive = "AllGather" THEN 0 ELSE Turn
GatherPhases == IF job.primitive = "ReduceScatter" THEN 0 ELSE Turn

RingPhase(i) ==
  IF i < ReducePhases
  THEN {Transfer(s, Neighbour(s), ReduceChunk(s, i), "REDUCE") : s \in Ranks}
  ELSE {Transfer(s, Neighbour(s), GatherChunk(s, i - ReducePhases),
                 GatherOperation) :
          s \in Ranks}

(* Butterfly: the partner is rank XOR (1 << step). *)
Partner(r, step) ==
  IF (r \div Bit[step]) % 2 = 0 THEN r + Bit[step] ELSE r - Bit[step]

ButterflyPhase(i) == {Transfer(s, Partner(s, i), 0, "REDUCE") : s \in Ranks}
Log2(n) == CHOOSE k \in 0..n : Bit[k] = n

(* NHR: a full turn of REDUCE and one of COPY round the ring that nhr_order *)
(* found; which ring depends on link costs, so any that starts at rank 0.   *)
Orders ==
  IF job.algorithm = "NHR"
  THEN {o \in [Ranks -> Ranks] :
          o[0] = 0 /\ \A i, j \in Ranks : o[i] = o[j] => i = j}
  ELSE {[i \in Ranks |-> i]}

NhrPhase(i) ==
  {Transfer(order[k], order[(k + 1) % job.ranks], 0,
            IF i < job.ranks - 1 THEN "REDUCE" ELSE "COPY") : k \in Ranks}

(* Hierarchical: reduce to the leaders of the groups, one hop round the *)
(* leaders, distribute from the leaders.                                *)
Leader(r) == r - (r % GroupSize)
Leaders == {Leader(r) : r \in Ranks}
Members == Ranks \ Leaders
NextLeader(l) == IF l + GroupSize < job.ranks THEN l + GroupSize ELSE 0

HierarchicalPhase(i) ==
  CASE i = 0 -> {Transfer(r, Leader(r), 0, "REDUCE") : r \in Members}
    [] i = 1 -> {Transfer(l, NextLeader(l), 0, "REDUCE") : l \in Leaders}
    [] i = 2 -> {Transfer(Leader(r), r, 0, "COPY") : r \in Members}

(* Mesh on a full mesh: every rank sends to every other, the nearest first, *)
(* at most Fanout per phase; direct links never conflict.                   *)
MeshPhase(i) ==
  {Transfer(s, (s + offset) % job.ranks, 0, "REDUCE") :
     s \in Ranks,
     offset \in {k \in 1..(job.ranks - 1) : (k - 1) \div Fanout = i}}

Phase(i) ==
  CASE job.algorithm = "Ring" -> RingPhase(i)
    [] job.algorithm = "Butterfly" -> ButterflyPhase(i)
    [] job.algorithm = "NHR" -> NhrPhase(i)
    [] job.algorithm = "Hierarchical" -> HierarchicalPhase(i)
    [] job.algorithm = "Mesh" -> MeshPhase(i)

PhaseCount ==
  CASE job.algorithm = "Ring" -> ReducePhases + GatherPhases
    [] job.algorithm = "Butterfly" -> Log2(job.ranks)
    [] job.algorithm = "NHR" -> 2 * (job.ranks - 1)
    [] job.algorithm = "Hierarchical" -> 3
    [] job.algorithm = "Mesh" -> (job.ranks - 2) \div Fanout + 1

-----------------------------------------------------------------------------
(* Execution. *)

Nothing == [q \in Ranks |-> 0]
Own(r) == [q \in Ranks |-> IF q = r THEN 1 ELSE 0]
Sum(a, b) == [q \in Ranks |-> IF a[q] + b[q] > 1 THEN 2 ELSE a[q] + b[q]]

Init ==
  /\ job \in Jobs
  /\ order \in Orders
  /\ phase = 0
  /\ unsent = Phase(0)
  /\ inFlight = {}
  /\ held = [r \in Ranks |-> [c \in Chunks |->
               IF job.primitive = "AllGather" /\ c # r THEN Nothing ELSE Own(r)]]

Send(t) ==
  /\ t \in unsent
  /\ unsent' = unsent \ {t}
  /\ inFlight' = inFlight \cup
       {[transfer |-> t, content |-> held[t.source][t.chunk]]}
  /\ UNCHANGED <<job, order, phase, held>>

Deliver(m) ==
  /\ m \in inFlight
  /\ inFlight' = inFlight \ {m}
  /\ LET t == m.transfer IN
       held' = [held EXCEPT ![t.destination][t.chunk] =
                  IF t.op = "REDUCE" THEN Sum(@, m.content) ELSE m.content]
  /\ UNCHANGED <<job, order, phase, unsent>>

NextPhase ==
  /\ phase < PhaseCount
  /\ unsent = {} /\ inFlight = {}
  /\ phase' = phase + 1
  /\ unsent' = IF phase + 1 < PhaseCount THEN Phase(phase + 1) ELSE {}
  /\ UNCHANGED <<job, order, inFlight, held>>

Next ==
  \/ \E t \in unsent : Send(t)
  \/ \E m \in inFlight : Deliver(m)
  \/ NextPhase

Spec == Init /\ [][Next]_vars

-----------------------------------------------------------------------------
Transfers == [source: Ranks, destination: Ranks, chunk: Chunks,
              op: {"REDUCE", "COPY"}]
Contents == [Ranks -> 0..2]

(* Types; as validate_schedule demands, no rank transfers to itself. *)
TypeOK ==
  /\ job \in Jobs /\ order \in [Ranks -> Ranks]
  /\ phase \in 0..PhaseCount
  /\ unsent \subseteq Transfers
  /\ inFlight \subseteq [transfer: Transfers, content: Contents]
  /\ held \in [Ranks -> [Chunks -> Contents]]
  /\ \A t \in unsent : t.source # t.destination

(* Which contributions the primitive promises rank r in chunk c. *)
Promised(r, c) ==
  CASE job.primitive = "AllReduce" -> Ranks
    [] job.primitive = "AllGather" -> {c}
    [] job.primitive = "ReduceScatter" ->
         IF job.algorithm = "Mesh" \/ c = r THEN Ranks ELSE {}

(* When the last phase is over every rank holds every contribution the      *)
(* primitive promises it, in whatever order the transfers of each phase     *)
(* were sent and delivered.                                                 *)
Complete ==
  phase = PhaseCount =>
    \A r \in Ranks, c \in Chunks : \A q \in Promised(r, c) : held[r][c][q] > 0

(* A Ring schedule leaves each promised contribution in its chunk exactly   *)
(* once: sums and products are right, not only maxima and minima, with no   *)
(* synchronisation but the dependency between phases.                       *)
RingExactlyOnce ==
  phase = PhaseCount /\ job.algorithm = "Ring" =>
    \A r \in Ranks, c \in Chunks :
      Promised(r, c) # {} =>
        held[r][c] = [q \in Ranks |-> IF q \in Promised(r, c) THEN 1 ELSE 0]

(* No COPY ever replaces a chunk by one that lacks a contribution it had. *)
NothingLost ==
  [][\A r \in Ranks, c \in Chunks, q \in Ranks :
       held[r][c][q] > 0 => held'[r][c][q] > 0]_vars
=============================================================================
