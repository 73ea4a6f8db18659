----------------------------- MODULE Replanning -----------------------------
(***************************************************************************)
(* Replanning a collective after a topology event                          *)
(*   algorithm/topology_model.py      topologies, hashes, cached routes    *)
(*   algorithm/topology_schedules.py  what each algorithm needs            *)
(*   algorithm/schedule_selector.py   candidates with routes, one selected *)
(*   algorithm/replanner.py           events, replan                       *)
(* The caches of links and routes belong to the process and are keyed by   *)
(* the topology's hash, a field of the topology that has to be kept right. *)
(*                                                                         *)
(* Bandwidths and latencies decide which candidate is cheapest and which   *)
(* order NHR takes: any.  A link is a pair of ranks.  The caches are       *)
(* filled for a whole hash at once, with the links a topology of that hash *)
(* had then.  The simulated run that gates a new schedule may go wrong.    *)
(***************************************************************************)
EXTENDS Naturals, FiniteSets, Sequences

CONSTANTS
    MaxRanks,     \* 1024 in the code
    GroupSize,    \* 8 in the code
    MaxRing,      \* 64 in the code: Ring takes no more ranks
    MaxEvents     \* events and topologies built anew

ASSUME ReplanningAssumption ==
    /\ MaxRanks \in Nat \ {0, 1} /\ MaxEvents \in Nat
    /\ GroupSize \in Nat \ {0} /\ MaxRing \in 2..MaxRanks

VARIABLES
    topology,
    primitive, budget,  \* of the collective, the same for the whole run
    schedule,           \* the one in force
    status,             \* final_status of the last replanning
    cache,              \* hash |-> the links its routes are made of
    events

vars == <<topology, primitive, budget, schedule, status, cache, events>>

Variants == {"full_mesh", "ring", "fat_tree"}
Primitives == {"AllReduce", "AllGather", "ReduceScatter"}
(* Ring cuts a message into one chunk per rank.  A large message makes it  *)
(* refuse; a tight budget, under Ring's fixed 64 MiB, it does not know of; *)
(* a scarce one has room for its chunks but for none of the other sizes.   *)
Budgets == {"ample", "tight", "scarce", "large message"}
Status == {"none", "REPLANNED", "REPLAN_VALIDATION_FAILED", "EXPECTED_NO_PATH_FAILURE", "raised"}
NoSchedule == [algorithm |-> "none", ranks |-> 0, transfers |-> {}]

-----------------------------------------------------------------------------
(* Topologies. *)
RanksOf(n) == 0..(n - 1)
Group(r) == r \div GroupSize
Leader(r) == r % GroupSize = 0
Links(variant, n) ==
    {l \in RanksOf(n) \X RanksOf(n) :
        /\ l[1] # l[2]
        /\ CASE variant = "full_mesh" -> TRUE
             [] variant = "ring" -> l[2] = (l[1] + 1) % n \/ l[1] = (l[2] + 1) % n
             [] variant = "fat_tree" -> Group(l[1]) = Group(l[2]) \/ (Leader(l[1]) /\ Leader(l[2]))}

(* All of a topology but its hash, and so what the hash stands for.        *)
Contents(t) == [t EXCEPT !.hash = <<>>]
Unhashed(t) == t                                       \* mutant: the hash stays
Rehashed(t) == [t EXCEPT !.hash = <<Contents(t)>>]
Built(variant, n, change) ==
    LET t == [variant |-> variant, ranks |-> n, down |-> {}, worn |-> {}, degraded |-> {},
              reconfigured |-> change, hash |-> <<>>]
    IN  [t EXCEPT !.hash = <<t>>]
LinksOf(t) == Links(t.variant, t.ranks)
Healthy(t) == LinksOf(t) \ t.down

-----------------------------------------------------------------------------
(* Routes.  The search goes over the cached links, from the source on.     *)
Consulted(t) == IF t.hash \in DOMAIN cache THEN cache[t.hash] ELSE Healthy(t)
Remembered(t) == [h \in DOMAIN cache \cup {t.hash} |-> IF h \in DOMAIN cache THEN cache[h] ELSE Healthy(t)]
DirectRoutes(t) == Consulted(t)                         \* mutant: no way round
Grown(links, reached) == reached \cup {l[2] : l \in {x \in links : x[1] \in reached}}
Explored(links, source, n) ==
    LET reached[k \in 0..n] == IF k = 0 THEN {source} ELSE Grown(links, reached[k - 1])
    IN  reached[n]
Routes(t) ==
    LET links == Consulted(t)
    IN  {p \in RanksOf(t.ranks) \X RanksOf(t.ranks) : p[2] \in Explored(links, p[1], t.ranks)}

-----------------------------------------------------------------------------
(***************************************************************************)
(* What each algorithm transfers, and when its generator refuses.  All but *)
(* Hierarchical ask for routes, that one for links.                        *)
(***************************************************************************)
Supports ==
    [Ring |-> Primitives, Butterfly |-> {"AllReduce", "AllGather"},
     Mesh |-> {"AllReduce", "ReduceScatter"}, NHR |-> {"AllReduce"}, Hierarchical |-> {"AllReduce"}]
Algorithms == DOMAIN Supports
Ring(n) == {<<r, (r + 1) % n>> : r \in RanksOf(n)}
Mesh(n) == {p \in RanksOf(n) \X RanksOf(n) : p[1] # p[2]}
PowerOfTwo(n) == \E k \in 0..n : n = 2^k
Butterfly(n) ==
    {p \in Mesh(n) : \E k \in {i \in 0..n : 2^i < n} :
        p[2] = IF (p[1] \div 2^k) % 2 = 0 THEN p[1] + 2^k ELSE p[1] - 2^k}
Orders(n) == {f \in [1..n -> RanksOf(n)] : f[1] = 0 /\ \A i, j \in 1..n : f[i] = f[j] => i = j}
Cycles == [n \in 2..MaxRanks |-> {{<<f[i], f[(i % n) + 1]>> : i \in 1..n} : f \in Orders(n)}]
Leaders(n) == {r \in RanksOf(n) : Leader(r)}
NextLeader(r, n) == IF r + GroupSize < n THEN r + GroupSize ELSE 0
Hierarchy(n) ==
    {p \in Mesh(n) : \/ Group(p[1]) = Group(p[2]) /\ (Leader(p[1]) \/ Leader(p[2]))
                     \/ Leader(p[1]) /\ p[2] = NextLeader(p[1], n)}

ChunkFits == budget # "scarce"
Transfers(n, algorithm, routes, links) ==        \* the sets it may use, none if it refuses
    CASE algorithm = "Ring" ->
           {x \in {Ring(n)} : n <= MaxRing /\ budget # "large message" /\ x \subseteq routes}
      [] algorithm = "Butterfly" -> {x \in {Butterfly(n)} : ChunkFits /\ PowerOfTwo(n) /\ x \subseteq routes}
      [] algorithm = "Mesh" -> {x \in {Mesh(n)} : ChunkFits /\ x \subseteq routes}
      [] algorithm = "NHR" -> {x \in Cycles[n] : ChunkFits /\ x \subseteq routes}
      [] algorithm = "Hierarchical" ->
           {x \in {Hierarchy(n)} : ChunkFits /\ Cardinality(Leaders(n)) >= 2 /\ x \subseteq links}
Candidates(t) ==
    LET routes == Routes(t)
        links == Consulted(t)
    IN  UNION {{[algorithm |-> a, ranks |-> t.ranks, transfers |-> x] : x \in Transfers(t.ranks, a, routes, links)} :
                  a \in {b \in Algorithms : primitive \in Supports[b]}}
(* attach_memory_report validates against the caller's budget and raises.  *)
OverBudget(s) == s.algorithm = "Ring" /\ budget = "tight"

-----------------------------------------------------------------------------
Init ==
    /\ \E variant \in Variants, n \in 2..MaxRanks : topology = Built(variant, n, "none")
    /\ primitive \in Primitives /\ budget \in Budgets
    /\ schedule = NoSchedule /\ status = "none" /\ cache = <<>> /\ events = 0

Event == events < MaxEvents /\ events' = events + 1
Build ==
    /\ Event
    /\ \E variant \in Variants, n \in 2..MaxRanks : topology' = Built(variant, n, "none")
    /\ schedule' = NoSchedule /\ status' = "none"
    /\ UNCHANGED <<primitive, budget, cache>>

Select ==
    /\ schedule = NoSchedule /\ status = "none"
    /\ LET candidates == Candidates(topology)
       IN  schedule' \in IF candidates = {} THEN {NoSchedule} ELSE candidates
    /\ cache' = Remembered(topology)
    /\ UNCHANGED <<topology, primitive, budget, status, events>>

(* apply_topology_event: a changed copy.  A rank that goes or comes gets   *)
(* a topology built from the variant, without the state of its links.      *)
RankEvents(t) ==
    {Rehashed(Built(t.variant, n, IF n < t.ranks THEN "RANK_REMOVED" ELSE "RANK_RECOVERED")) :
        n \in {t.ranks - 1, t.ranks + 1} \cap 2..MaxRanks}
LinkEvents(t) ==
    UNION {{[t EXCEPT !.worn = @ \cup {l}, !.degraded = @ \cup {l}],      \* LINK_DEGRADED
            [t EXCEPT !.down = @ \cup {l}],                               \* LINK_DOWN
            [t EXCEPT !.down = @ \ {l}, !.degraded = @ \ {l}]} :          \* LINK_RECOVERED
              l \in LinksOf(t)}
NoAlternatePath(t) ==
    {[t EXCEPT !.down = @ \cup {l \in LinksOf(t) : r \in {l[1], l[2]}}] : r \in RanksOf(t.ranks)}
Updated(t) == RankEvents(t) \cup {Rehashed(u) : u \in LinkEvents(t) \cup NoAlternatePath(t)}

Replan ==
    /\ schedule # NoSchedule /\ Event
    /\ \E updated \in Updated(topology) :
          /\ cache' = Remembered(updated)
          /\ LET candidates == Candidates(updated) IN
             \/ /\ candidates = {}
                /\ topology' = updated /\ schedule' = NoSchedule /\ status' = "EXPECTED_NO_PATH_FAILURE"
             \/ \E s \in candidates :
                   \/ OverBudget(s) /\ status' = "raised" /\ UNCHANGED <<topology, schedule>>
                   \/ /\ ~OverBudget(s) /\ topology' = updated /\ schedule' = s
                      /\ status' \in {"REPLANNED", "REPLAN_VALIDATION_FAILED"}
    /\ UNCHANGED <<primitive, budget>>

Next == Build \/ Select \/ Replan
Spec == Init /\ [][Next]_vars

-----------------------------------------------------------------------------
(***************************************************************************)
(* Properties.                                                             *)
(***************************************************************************)

(* Every variable keeps its type; the topology in use carries the hash of  *)
(* what it is, and no schedule was made for another number of ranks.       *)
TypeOK ==
    /\ topology.variant \in Variants /\ topology.ranks \in 2..MaxRanks
    /\ \A x \in {"down", "worn", "degraded"} : topology[x] \subseteq LinksOf(topology)
    /\ topology.hash = <<Contents(topology)>>
    /\ primitive \in Primitives /\ budget \in Budgets /\ status \in Status
    /\ schedule = NoSchedule \/
         (/\ schedule.algorithm \in Algorithms /\ primitive \in Supports[schedule.algorithm]
          /\ schedule.ranks = topology.ranks
          /\ schedule.transfers \in (SUBSET Mesh(topology.ranks)) \ {{}})
    /\ \A h \in DOMAIN cache : cache[h] \subseteq LinksOf(h[1])
    /\ events \in 0..MaxEvents

(* Reachable as cuts have it: every set of ranks with the source in it and *)
(* the destination not is left by a healthy link.                          *)
Reachable(t, s, d) ==
    \A S \in SUBSET RanksOf(t.ranks) :
        s \in S /\ d \notin S => \E l \in Healthy(t) : l[1] \in S /\ l[2] \notin S
Connected(t) == \A p \in Mesh(t.ranks) : Reachable(t, p[1], p[2])

(* replan, "regenerate, validate, correctness-gate, and select": what is   *)
(* REPLANNED can be carried out.  Over all the events the process has seen,*)
(* no transfer relies on a route that was cached before a link went down.  *)
ReplannedIsRoutable ==
    status = "REPLANNED" => \A p \in schedule.transfers : Reachable(topology, p[1], p[2])

(* EXPECTED_NO_PATH_FAILURE means what it says: a collective that some     *)
(* algorithm takes at this size and budget fails only when the ranks can   *)
(* no longer all reach each other, whichever links failed and recovered.   *)
Served ==
    \/ topology.ranks <= MaxRing /\ budget # "large message"
    \/ ChunkFits /\ (primitive # "AllGather" \/ PowerOfTwo(topology.ranks))
NoPathMeansNoPath ==
    status = "EXPECTED_NO_PATH_FAILURE" /\ Served => ~Connected(topology)
=============================================================================
