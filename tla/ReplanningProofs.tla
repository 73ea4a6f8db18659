-------------------------- MODULE ReplanningProofs --------------------------
(***************************************************************************)
(* Theorems about Replanning, for any number of ranks, any size of group   *)
(* and any number of events: what a replanning promises is what the links  *)
(* of the topology allow, whatever the caches have seen.                   *)
(*                                                                         *)
(* Each fact about the route search is an induction on the number of its   *)
(* rounds.  An induction is done upon the set of the numbers a fact holds  *)
(* of (Induction), which needs no operator for a parameter.                *)
(***************************************************************************)
EXTENDS Replanning, FiniteSetTheorems, WellFoundedInduction, TLAPS

-----------------------------------------------------------------------------
LEMMA LeastElement ==
  ASSUME NEW T, T \subseteq Nat, T # {}
  PROVE  \E m \in T : \A k \in T : m <= k
<1> DEFINE R == OpToRel(<, Nat)
<1>1. IsWellFoundedOn(R, Nat)
  BY NatLessThanWellFounded
<1>2. \A x, y \in Nat : x < y => <<x, y>> \in R
  BY DEF OpToRel
<1> HIDE DEF R
<1>3. PICK m \in T : \A y \in T : ~(<<y, m>> \in R)
  BY <1>1, WFMin
<1>4. \A k \in T : k \in Nat /\ ~(k < m) /\ m \in Nat
  BY <1>2, <1>3
<1> QED
  BY <1>4

LEMMA Induction ==
  ASSUME NEW n \in Nat, NEW T, 0 \in T, \A k \in 0..(n - 1) : k \in T => k + 1 \in T
  PROVE  \A k \in 0..n : k \in T
<1> DEFINE F == {k \in 0..n : k \notin T}
<1> SUFFICES ASSUME F # {} PROVE FALSE
  OBVIOUS
<1>1. F \subseteq Nat
  OBVIOUS
<1>2. PICK m \in F : \A k \in F : m <= k
  BY <1>1, LeastElement
<1>3. m # 0 /\ m - 1 \in 0..(n - 1)
  BY <1>2
<1>4. m - 1 \in T
  BY <1>2, <1>3
<1> QED
  BY <1>2, <1>3, <1>4

-----------------------------------------------------------------------------
(***************************************************************************)
(* The route search.  Rounds(f, links, source, n) says that f[k] is what    *)
(* k rounds of the search have reached.                                    *)
(***************************************************************************)
Rounds(f, links, source, n) ==
  f = [k \in 0..n |-> IF k = 0 THEN {source} ELSE Grown(links, f[k - 1])]

LEMMA RoundFacts ==
  ASSUME NEW links, NEW source, NEW n \in Nat, NEW f, Rounds(f, links, source, n)
  PROVE  /\ f[0] = {source}
         /\ \A k \in 0..(n - 1) : f[k + 1] = Grown(links, f[k])
<1>1. \A k \in 0..n : f[k] = IF k = 0 THEN {source} ELSE Grown(links, f[k - 1])
  BY DEF Rounds
<1>2. ASSUME NEW k \in 0..(n - 1) PROVE f[k + 1] = Grown(links, f[k])
  <2>1. k + 1 \in 0..n /\ k + 1 # 0 /\ (k + 1) - 1 = k
    OBVIOUS
  <2> QED
    BY <1>1, <2>1
<1> QED
  BY <1>1, <1>2

LEMMA SearchExists ==
  ASSUME NEW links, NEW source, NEW n \in Nat
  PROVE  \E f : Rounds(f, links, source, n)
<1> DEFINE T == {m \in Nat : \E f : Rounds(f, links, source, m)}
<1>1. 0 \in T
  <2> DEFINE f == [k \in 0..0 |-> {source}]
  <2>1. f = [k \in 0..0 |-> IF k = 0 THEN {source} ELSE Grown(links, f[k - 1])]
    OBVIOUS
  <2> HIDE DEF f
  <2> QED
    BY <2>1 DEF Rounds
<1>2. ASSUME NEW m \in Nat, m \in T PROVE m + 1 \in T
  <2>1. PICK f : Rounds(f, links, source, m)
    BY <1>2
  <2>5. f[0] = {source} /\ \A k \in 0..(m - 1) : f[k + 1] = Grown(links, f[k])
    BY <2>1, RoundFacts
  <2> DEFINE g == [k \in 0..(m + 1) |-> IF k = m + 1 THEN Grown(links, f[m]) ELSE f[k]]
  <2>2. /\ \A k \in 0..(m + 1) : g[k] = IF k = m + 1 THEN Grown(links, f[m]) ELSE f[k]
        /\ g = [k \in 0..(m + 1) |-> g[k]]
    OBVIOUS
  <2> HIDE DEF g
  <2>3. \A k \in 0..(m + 1) : g[k] = IF k = 0 THEN {source} ELSE Grown(links, g[k - 1])
    <3> TAKE k \in 0..(m + 1)
    <3>1. CASE k = 0
      <4>1. k \in 0..(m + 1) /\ k # m + 1
        BY <3>1
      <4>2. g[k] = f[k] /\ f[0] = {source}
        BY <4>1, <2>2, <2>5
      <4> QED
        BY <3>1, <4>2
    <3>2. CASE k \in 1..m
      <4>1. /\ k - 1 \in 0..(m + 1) /\ k - 1 # m + 1 /\ k # m + 1 /\ k \in 0..(m + 1)
            /\ k - 1 \in 0..(m - 1) /\ k # 0 /\ (k - 1) + 1 = k
        BY <3>2
      <4>2. g[k] = f[k] /\ g[k - 1] = f[k - 1]
        BY <4>1, <2>2
      <4>3. f[k] = Grown(links, f[k - 1])
        <5>1. f[(k - 1) + 1] = Grown(links, f[k - 1])
          BY <4>1, <2>5
        <5> QED
          BY <4>1, <5>1
      <4> QED
        BY <4>1, <4>2, <4>3
    <3>3. CASE k = m + 1
      <4>1. k # 0 /\ k - 1 = m /\ m \in 0..(m + 1) /\ m # m + 1
        BY <3>3
      <4> QED
        BY <3>3, <4>1, <2>2
    <3> QED
      BY <3>1, <3>2, <3>3
  <2>4. g = [k \in 0..(m + 1) |-> IF k = 0 THEN {source} ELSE Grown(links, g[k - 1])]
    BY <2>2, <2>3
  <2> QED
    BY <2>4 DEF Rounds
<1>3. \A k \in 0..n : k \in T
  <2> HIDE DEF T
  <2> QED
    BY <1>1, <1>2, Induction
<1> QED
  BY <1>3

FoundBy(f, links, source, n) ==
  /\ f[0] = {source}
  /\ \A k \in 0..(n - 1) : f[k + 1] = Grown(links, f[k])
  /\ Explored(links, source, n) = f[n]

LEMMA ExploredIsLastRound ==
  ASSUME NEW links, NEW source, NEW n \in Nat
  PROVE  \E f : FoundBy(f, links, source, n)
<1> DEFINE f == CHOOSE g : g = [k \in 0..n |-> IF k = 0 THEN {source} ELSE Grown(links, g[k - 1])]
<1>1. \E g : g = [k \in 0..n |-> IF k = 0 THEN {source} ELSE Grown(links, g[k - 1])]
  <2>1. PICK g : Rounds(g, links, source, n)
    BY SearchExists
  <2>2. g = [k \in 0..n |-> IF k = 0 THEN {source} ELSE Grown(links, g[k - 1])]
    BY <2>1 DEF Rounds
  <2> QED
    BY <2>2
<1>2. f = [k \in 0..n |-> IF k = 0 THEN {source} ELSE Grown(links, f[k - 1])]
  BY <1>1
<1>3. Explored(links, source, n) = f[n]
  BY DEF Explored
<1> HIDE DEF f
<1>4. Rounds(f, links, source, n)
  BY <1>2 DEF Rounds
<1>5. f[0] = {source} /\ \A k \in 0..(n - 1) : f[k + 1] = Grown(links, f[k])
  BY <1>4, RoundFacts
<1> QED
  BY <1>3, <1>5 DEF FoundBy

Closed(links, S) == \A l \in links : l[1] \in S => l[2] \in S

LEMMA GrownFacts ==
  ASSUME NEW links, NEW reached
  PROVE  /\ reached \subseteq Grown(links, reached)
         /\ Grown(links, reached) = reached => Closed(links, reached)
         /\ \A S : reached \subseteq S /\ Closed(links, S) => Grown(links, reached) \subseteq S
  BY DEF Grown, Closed

(* The search stays within whatever no link leaves. *)
LEMMA ExploredWithin ==
  ASSUME NEW links, NEW source, NEW n \in Nat, NEW S, source \in S, Closed(links, S)
  PROVE  Explored(links, source, n) \subseteq S
<1>1. PICK f : FoundBy(f, links, source, n)
  BY ExploredIsLastRound
<1>2. /\ f[0] = {source} /\ \A k \in 0..(n - 1) : f[k + 1] = Grown(links, f[k])
      /\ Explored(links, source, n) = f[n]
  BY <1>1 DEF FoundBy
<1> DEFINE T == {k \in Nat : f[k] \subseteq S}
<1>3. 0 \in T
  BY <1>2
<1>4. \A k \in 0..(n - 1) : k \in T => k + 1 \in T
  <2> SUFFICES ASSUME NEW k \in 0..(n - 1), f[k] \subseteq S
               PROVE  f[k + 1] \subseteq S
    OBVIOUS
  <2>1. Grown(links, f[k]) \subseteq S
    BY GrownFacts
  <2> QED
    BY <1>2, <2>1
<1>5. n \in T
  <2>1. n \in 0..n
    OBVIOUS
  <2> HIDE DEF T
  <2> QED
    BY <1>3, <1>4, <2>1, Induction
<1> QED
  BY <1>2, <1>5

(* As many rounds as there are ranks reach all that can be reached: every   *)
(* round but the last ones finds a rank more.                              *)
LEMMA ExploredIsClosed ==
  ASSUME NEW n \in Nat, NEW source \in RanksOf(n),
         NEW links, links \subseteq RanksOf(n) \X RanksOf(n)
  PROVE  /\ source \in Explored(links, source, n)
         /\ Explored(links, source, n) \subseteq RanksOf(n)
         /\ Closed(links, Explored(links, source, n))
<1>1. PICK f : FoundBy(f, links, source, n)
  BY ExploredIsLastRound
<1>2. /\ f[0] = {source} /\ \A k \in 0..(n - 1) : f[k + 1] = Grown(links, f[k])
      /\ Explored(links, source, n) = f[n]
  BY <1>1 DEF FoundBy
<1>3. IsFiniteSet(RanksOf(n)) /\ Cardinality(RanksOf(n)) = n
  BY FS_Interval DEF RanksOf
<1> DEFINE Good(k) == /\ source \in f[k] /\ f[k] \subseteq RanksOf(n)
                      /\ Grown(links, f[k]) = f[k] \/ Cardinality(f[k]) >= k + 1
           T == {k \in Nat : Good(k)}
<1>4. 0 \in T
  <2>1. Cardinality({source}) = 1
    BY FS_Singleton
  <2> QED
    BY <1>2, <2>1
<1>5. \A k \in 0..(n - 1) : k \in T => k + 1 \in T
  <2> SUFFICES ASSUME NEW k \in 0..(n - 1), Good(k) PROVE Good(k + 1)
    OBVIOUS
  <2>1. f[k + 1] = Grown(links, f[k])
    BY <1>2
  <2>2. f[k] \subseteq f[k + 1] /\ f[k + 1] \subseteq RanksOf(n)
    BY <2>1 DEF Grown
  <2>3. CASE f[k + 1] = f[k]
    BY <2>1, <2>2, <2>3
  <2>4. CASE f[k + 1] # f[k]
    <3>1. Cardinality(f[k]) >= k + 1
      BY <2>1, <2>4
    <3>2. IsFiniteSet(f[k + 1])
      BY <1>3, <2>2, FS_Subset
    <3>3. IsFiniteSet(f[k]) /\ Cardinality(f[k]) <= Cardinality(f[k + 1])
          /\ Cardinality(f[k]) # Cardinality(f[k + 1])
      BY <2>2, <2>4, <3>2, FS_Subset
    <3>4. Cardinality(f[k]) \in Nat /\ Cardinality(f[k + 1]) \in Nat
      BY <3>2, <3>3, FS_CardinalityType
    <3>5. Cardinality(f[k + 1]) >= (k + 1) + 1
      BY <3>1, <3>3, <3>4
    <3> QED
      BY <2>2, <3>5
  <2> QED
    BY <2>3, <2>4
<1>6. Good(n)
  <2>1. n \in 0..n
    OBVIOUS
  <2> HIDE DEF Good
  <2>2. n \in T
    <3> HIDE DEF T
    <3> QED
      BY <1>4, <1>5, <2>1, Induction
  <2> QED
    BY <2>2
<1>7. Grown(links, f[n]) = f[n]
  <2>1. Cardinality(f[n]) <= n /\ Cardinality(f[n]) \in Nat
    BY <1>3, <1>6, FS_Subset, FS_CardinalityType
  <2> QED
    BY <1>6, <2>1
<1> QED
  BY <1>2, <1>6, <1>7, GrownFacts

-----------------------------------------------------------------------------
(***************************************************************************)
(* Topologies and the caches.  A hash stands for the contents it was made  *)
(* of, so what is cached under it is what a search would find.             *)
(***************************************************************************)
WellFormed(t) ==
  /\ t = [variant |-> t.variant, ranks |-> t.ranks, down |-> t.down, worn |-> t.worn,
          degraded |-> t.degraded, reconfigured |-> t.reconfigured, hash |-> t.hash]
  /\ t.variant \in Variants /\ t.ranks \in 2..MaxRanks
  /\ t.down \subseteq LinksOf(t) /\ t.worn \subseteq LinksOf(t) /\ t.degraded \subseteq LinksOf(t)
Topology(t) == WellFormed(t) /\ t.hash = <<Contents(t)>>

CacheInv == \A h \in DOMAIN cache : cache[h] = Healthy(h[1])

LEMMA RanksAreNaturals ==
  /\ MaxRanks \in Nat /\ GroupSize \in Nat /\ GroupSize > 0 /\ MaxEvents \in Nat
  /\ 2..MaxRanks \subseteq Nat /\ 2 \in 2..MaxRanks
  BY ReplanningAssumption

LEMMA LinkFacts ==
  ASSUME NEW variant, NEW n
  PROVE  Links(variant, n) \subseteq Mesh(n) /\ Mesh(n) \subseteq RanksOf(n) \X RanksOf(n)
  BY DEF Links, Mesh

LEMMA ContentsFacts ==
  ASSUME NEW t, WellFormed(t)
  PROVE  /\ LinksOf(Contents(t)) = LinksOf(t) /\ Healthy(Contents(t)) = Healthy(t)
         /\ Healthy(t) \subseteq LinksOf(t) /\ LinksOf(t) \subseteq Mesh(t.ranks)
<1>1. Contents(t).variant = t.variant /\ Contents(t).ranks = t.ranks /\ Contents(t).down = t.down
  BY DEF WellFormed, Contents
<1> QED
  BY <1>1, LinkFacts DEF LinksOf, Healthy

LEMMA RehashedFacts ==
  ASSUME NEW t, WellFormed(t) PROVE Topology(Rehashed(t))
<1>1. Rehashed(t) = [variant |-> t.variant, ranks |-> t.ranks, down |-> t.down, worn |-> t.worn,
          degraded |-> t.degraded, reconfigured |-> t.reconfigured, hash |-> <<Contents(t)>>]
  BY DEF WellFormed, Rehashed
<1>2. Contents(Rehashed(t)) = Contents(t)
  BY <1>1 DEF WellFormed, Contents
<1>3. LinksOf(Rehashed(t)) = LinksOf(t)
  BY <1>1 DEF LinksOf
<1> QED
  BY <1>1, <1>2, <1>3 DEF WellFormed, Topology

LEMMA BuiltFacts ==
  ASSUME NEW variant \in Variants, NEW n \in 2..MaxRanks, NEW change
  PROVE  Topology(Built(variant, n, change))
<1> DEFINE t == [variant |-> variant, ranks |-> n, down |-> {}, worn |-> {}, degraded |-> {},
                 reconfigured |-> change, hash |-> <<>>]
<1>1. WellFormed(t) /\ Contents(t) = t
  <2>1. /\ t.hash = <<>> /\ t.variant = variant /\ t.ranks = n /\ t.down = {} /\ t.worn = {} /\ t.degraded = {}
        /\ t = [variant |-> t.variant, ranks |-> t.ranks, down |-> t.down, worn |-> t.worn,
                degraded |-> t.degraded, reconfigured |-> t.reconfigured, hash |-> t.hash]
    OBVIOUS
  <2> HIDE DEF t
  <2>2. WellFormed(t)
    BY <2>1 DEF WellFormed
  <2>3. [t EXCEPT !.hash = <<>>] = t
    BY <2>1
  <2> QED
    BY <2>2, <2>3 DEF Contents
<1>2. Built(variant, n, change) = [t EXCEPT !.hash = <<t>>]
  BY DEF Built
<1> HIDE DEF t
<1>3. Rehashed(t) = [t EXCEPT !.hash = <<t>>]
  BY <1>1 DEF Rehashed
<1> QED
  BY <1>1, <1>2, <1>3, RehashedFacts

LEMMA UpdatedFacts ==
  ASSUME NEW t, Topology(t), NEW u \in Updated(t) PROVE Topology(u)
<1>1. CASE u \in RankEvents(t)
  <2>1. PICK n \in 2..MaxRanks :
           u = Rehashed(Built(t.variant, n, IF n < t.ranks THEN "RANK_REMOVED" ELSE "RANK_RECOVERED"))
    BY <1>1 DEF RankEvents
  <2>2. t.variant \in Variants
    BY DEF Topology, WellFormed
  <2> QED
    BY <2>1, <2>2, BuiltFacts, RehashedFacts DEF Topology
<1>2. CASE u \in {Rehashed(v) : v \in LinkEvents(t)}
  <2>1. PICK v \in LinkEvents(t) : u = Rehashed(v)
    BY <1>2
  <2>2. PICK l \in LinksOf(t) :
           \/ v = [t EXCEPT !.worn = @ \cup {l}, !.degraded = @ \cup {l}]
           \/ v = [t EXCEPT !.down = @ \cup {l}]
           \/ v = [t EXCEPT !.down = @ \ {l}, !.degraded = @ \ {l}]
    BY <2>1 DEF LinkEvents
  <2>3. WellFormed(v)
    BY <2>2 DEF Topology, WellFormed, LinksOf
  <2> QED
    BY <2>1, <2>3, RehashedFacts
<1>3. CASE u \in {Rehashed(v) : v \in NoAlternatePath(t)}
  <2>1. PICK v \in NoAlternatePath(t) : u = Rehashed(v)
    BY <1>3
  <2>2. PICK r \in RanksOf(t.ranks) :
           v = [t EXCEPT !.down = @ \cup {l \in LinksOf(t) : r \in {l[1], l[2]}}]
    BY <2>1 DEF NoAlternatePath
  <2>3. WellFormed(v)
    BY <2>2 DEF Topology, WellFormed, LinksOf
  <2> QED
    BY <2>1, <2>3, RehashedFacts
<1> QED
  BY <1>1, <1>2, <1>3 DEF Updated

LEMMA ConsultedFacts ==
  ASSUME CacheInv, NEW t, Topology(t) PROVE Consulted(t) = Healthy(t)
<1>1. t.hash = <<Contents(t)>> /\ t.hash[1] = Contents(t)
  BY DEF Topology
<1> QED
  BY <1>1, ContentsFacts DEF CacheInv, Consulted, Topology

LEMMA RememberedFacts ==
  ASSUME CacheInv, NEW t, Topology(t), cache' = Remembered(t) PROVE CacheInv'
<1>1. t.hash[1] = Contents(t) /\ Healthy(t.hash[1]) = Healthy(t)
  BY ContentsFacts DEF Topology
<1>2. ASSUME NEW h \in DOMAIN cache' PROVE cache'[h] = Healthy(h[1])
  BY <1>1, <1>2 DEF CacheInv, Remembered
<1> QED
  BY <1>2 DEF CacheInv, Healthy, LinksOf

-----------------------------------------------------------------------------
(***************************************************************************)
(* Routes are found exactly where the healthy links allow.                 *)
(***************************************************************************)
LEMMA RoutesAreReachable ==
  ASSUME CacheInv, NEW t, Topology(t), NEW s \in RanksOf(t.ranks), NEW d \in RanksOf(t.ranks)
  PROVE  <<s, d>> \in Routes(t) <=> Reachable(t, s, d)
<1> DEFINE found == Explored(Healthy(t), s, t.ranks)
<1>1. /\ t.ranks \in Nat
      /\ Healthy(t) \subseteq RanksOf(t.ranks) \X RanksOf(t.ranks)
  BY RanksAreNaturals, ContentsFacts, LinkFacts DEF Topology, WellFormed
<1>2. <<s, d>> \in Routes(t) <=> d \in found
  BY ConsultedFacts DEF Routes
<1>3. s \in found /\ found \subseteq RanksOf(t.ranks) /\ Closed(Healthy(t), found)
  BY <1>1, ExploredIsClosed
<1>4. ASSUME NEW S \in SUBSET RanksOf(t.ranks), s \in S, d \notin S, d \in found
      PROVE  \E l \in Healthy(t) : l[1] \in S /\ l[2] \notin S
  <2> SUFFICES ASSUME Closed(Healthy(t), S) PROVE FALSE
    BY DEF Closed
  <2> HIDE DEF found
  <2>1. found \subseteq S
    BY <1>1, <1>4, ExploredWithin DEF found
  <2> QED
    BY <1>4, <2>1
<1>5. ASSUME Reachable(t, s, d), d \notin found PROVE FALSE
  <2>1. \E l \in Healthy(t) : l[1] \in found /\ l[2] \notin found
    BY <1>3, <1>5 DEF Reachable
  <2> QED
    BY <1>3, <2>1 DEF Closed
<1> HIDE DEF found
<1> QED
  BY <1>2, <1>4, <1>5 DEF Reachable

LEMMA LinksAreReachable ==
  ASSUME NEW t, NEW l \in Healthy(t) PROVE Reachable(t, l[1], l[2])
  BY DEF Reachable

-----------------------------------------------------------------------------
(***************************************************************************)
(* What the algorithms transfer: between different ranks, and something.   *)
(***************************************************************************)
LEMMA NextRank ==
  ASSUME NEW n \in Nat, n >= 2, NEW r \in 0..(n - 1)
  PROVE  (r + 1) % n \in 0..(n - 1) /\ (r + 1) % n # r
<1>1. CASE r = n - 1
  BY <1>1
<1>2. CASE r # n - 1
  BY <1>2
<1> QED
  BY <1>1, <1>2

LEMMA RingFacts ==
  ASSUME NEW n \in Nat, n >= 2 PROVE Ring(n) \subseteq Mesh(n) /\ Ring(n) # {}
<1>1. ASSUME NEW r \in RanksOf(n) PROVE <<r, (r + 1) % n>> \in Mesh(n)
  BY NextRank DEF RanksOf, Mesh
<1>2. 0 \in RanksOf(n)
  BY DEF RanksOf
<1> QED
  BY <1>1, <1>2 DEF Ring

LEMMA MeshFacts ==
  ASSUME NEW n \in Nat, n >= 2 PROVE <<0, 1>> \in Mesh(n)
  BY DEF Mesh, RanksOf

LEMMA ButterflyFacts ==
  ASSUME NEW n \in Nat, n >= 2 PROVE Butterfly(n) \subseteq Mesh(n) /\ Butterfly(n) # {}
<1>1. 2^0 = 1 /\ 0 \in {i \in 0..n : 2^i < n}
  OBVIOUS
<1>2. 1 = IF (0 \div 2^0) % 2 = 0 THEN 0 + 2^0 ELSE 0 - 2^0
  BY <1>1
<1>3. \E k \in {i \in 0..n : 2^i < n} :
         <<0, 1>>[2] = IF (<<0, 1>>[1] \div 2^k) % 2 = 0 THEN <<0, 1>>[1] + 2^k ELSE <<0, 1>>[1] - 2^k
  BY <1>1, <1>2
<1>4. <<0, 1>> \in Butterfly(n)
  BY <1>3, MeshFacts DEF Butterfly
<1> QED
  BY <1>4 DEF Butterfly

LEMMA CycleFacts ==
  ASSUME NEW n \in 2..MaxRanks, NEW x \in Cycles[n] PROVE x \subseteq Mesh(n) /\ x # {}
<1>1. n \in Nat /\ n >= 2
  BY RanksAreNaturals
<1>2. PICK f \in Orders(n) : x = {<<f[i], f[(i % n) + 1]>> : i \in 1..n}
  BY DEF Cycles
<1>3. ASSUME NEW i \in 1..n PROVE (i % n) + 1 \in 1..n /\ (i % n) + 1 # i
  <2>1. CASE i = n
    BY <1>1, <2>1
  <2>2. CASE i # n
    BY <1>1, <2>2
  <2> QED
    BY <2>1, <2>2
<1>4. f \in [1..n -> RanksOf(n)] /\ \A i, j \in 1..n : f[i] = f[j] => i = j
  BY DEF Orders
<1>5. ASSUME NEW i \in 1..n PROVE <<f[i], f[(i % n) + 1]>> \in Mesh(n)
  BY <1>3, <1>4 DEF Mesh
<1>6. 1 \in 1..n
  BY <1>1
<1> QED
  BY <1>2, <1>5, <1>6

LEMMA HierarchyFacts ==
  ASSUME NEW n \in Nat, n >= 2, Cardinality(Leaders(n)) >= 2
  PROVE  Hierarchy(n) \subseteq Mesh(n) /\ Hierarchy(n) # {}
<1>1. PICK r \in Leaders(n) : r # 0
  <2>1. Cardinality({0}) = 1 /\ Cardinality({}) = 0 /\ IsFiniteSet({0})
    BY FS_Singleton, FS_EmptySet
  <2> SUFFICES ASSUME Leaders(n) \subseteq {0} PROVE FALSE
    OBVIOUS
  <2>2. Cardinality(Leaders(n)) <= 1
    BY <2>1, FS_Subset
  <2>3. Cardinality(Leaders(n)) \in Nat
    BY <2>1, FS_Subset, FS_CardinalityType
  <2> QED
    BY <2>2, <2>3
<1>2. GroupSize \in Nat /\ GroupSize > 0
  BY RanksAreNaturals
<1>3. r \in 0..(n - 1) /\ r % GroupSize = 0
  BY DEF Leaders, Leader, RanksOf
<1>4. ~(r < GroupSize)
  <2> SUFFICES ASSUME r < GroupSize PROVE FALSE
    OBVIOUS
  <2>1. r % GroupSize = r
    BY <1>2, <1>3
  <2> QED
    BY <1>1, <1>3, <2>1
<1>5. GroupSize \in RanksOf(n) /\ GroupSize # 0
  BY <1>2, <1>3, <1>4 DEF RanksOf
<1>6. 0 \in RanksOf(n) /\ 0 % GroupSize = 0 /\ NextLeader(0, n) = GroupSize
  BY <1>2, <1>5 DEF RanksOf, NextLeader
<1>7. <<0, GroupSize>> \in Hierarchy(n)
  BY <1>5, <1>6 DEF Hierarchy, Mesh, Leader
<1> QED
  BY <1>7 DEF Hierarchy

-----------------------------------------------------------------------------
(***************************************************************************)
(* Candidates.                                                             *)
(***************************************************************************)
LEMMA AlgorithmNames ==
  /\ Algorithms = {"Ring", "Butterfly", "Mesh", "NHR", "Hierarchical"}
  /\ Supports["Ring"] = Primitives /\ "AllGather" \in Supports["Butterfly"]
  /\ {"AllReduce", "ReduceScatter"} \subseteq Supports["Mesh"]
  BY DEF Algorithms, Supports

LEMMA TransferFacts ==
  ASSUME NEW n \in 2..MaxRanks, NEW a \in Algorithms, NEW routes, NEW links,
         NEW x \in Transfers(n, a, routes, links)
  PROVE  /\ x \subseteq Mesh(n) /\ x # {}
         /\ x \subseteq routes \/ x \subseteq links
<1>1. n \in Nat /\ n >= 2
  BY RanksAreNaturals
<1>2. CASE a = "Ring"
  BY <1>1, <1>2, RingFacts DEF Transfers
<1>3. CASE a = "Butterfly"
  BY <1>1, <1>3, ButterflyFacts DEF Transfers
<1>4. CASE a = "Mesh"
  <2>1. x = Mesh(n) /\ x \subseteq routes
    BY <1>4 DEF Transfers
  <2> QED
    BY <1>1, <2>1, MeshFacts
<1>5. CASE a = "NHR"
  BY <1>5, CycleFacts DEF Transfers
<1>6. CASE a = "Hierarchical"
  BY <1>1, <1>6, HierarchyFacts DEF Transfers
<1> QED
  BY <1>2, <1>3, <1>4, <1>5, <1>6, AlgorithmNames

Offers(t, a) ==
  {[algorithm |-> a, ranks |-> t.ranks, transfers |-> x] :
      x \in Transfers(t.ranks, a, Routes(t), Consulted(t))}

LEMMA CandidatesAreOffers ==
  ASSUME NEW t, NEW s
  PROVE  s \in Candidates(t) <=>
           \E a \in Algorithms : primitive \in Supports[a] /\ s \in Offers(t, a)
<1>1. Candidates(t) = UNION {Offers(t, a) : a \in {b \in Algorithms : primitive \in Supports[b]}}
  BY DEF Candidates, Offers
<1> QED
  BY <1>1

(* A schedule that fits a topology has the ranks for it and routes. *)
Fits(s, t) ==
  /\ s.algorithm \in Algorithms /\ primitive \in Supports[s.algorithm]
  /\ s.ranks = t.ranks /\ s.transfers \in (SUBSET Mesh(t.ranks)) \ {{}}
  /\ \A p \in s.transfers : Reachable(t, p[1], p[2])

LEMMA CandidatesFit ==
  ASSUME CacheInv, NEW t, Topology(t), NEW s \in Candidates(t) PROVE Fits(s, t)
<1>1. PICK a \in Algorithms : primitive \in Supports[a] /\ s \in Offers(t, a)
  BY CandidatesAreOffers
<1>2. PICK x \in Transfers(t.ranks, a, Routes(t), Consulted(t)) :
         s = [algorithm |-> a, ranks |-> t.ranks, transfers |-> x]
  BY <1>1 DEF Offers
<1>3. s.algorithm = a /\ s.ranks = t.ranks /\ s.transfers = x
  BY <1>2, Zenon
<1>4. t.ranks \in 2..MaxRanks
  BY DEF Topology, WellFormed
<1>5. x \subseteq Mesh(t.ranks) /\ x # {} /\ (x \subseteq Routes(t) \/ x \subseteq Consulted(t))
  BY <1>4, TransferFacts
<1>6. ASSUME NEW p \in x PROVE Reachable(t, p[1], p[2])
  <2>1. p = <<p[1], p[2]>> /\ p[1] \in RanksOf(t.ranks) /\ p[2] \in RanksOf(t.ranks)
    BY <1>5 DEF Mesh
  <2>2. CASE p \in Routes(t)
    BY <2>1, <2>2, RoutesAreReachable
  <2>3. CASE p \in Consulted(t)
    BY <2>3, ConsultedFacts, LinksAreReachable
  <2> QED
    BY <1>5, <2>2, <2>3
<1>7. s.transfers \in (SUBSET Mesh(t.ranks)) \ {{}}
  BY <1>3, <1>5
<1>8. \A p \in s.transfers : Reachable(t, p[1], p[2])
  BY <1>3, <1>6
<1> QED
  BY <1>1, <1>3, <1>7, <1>8 DEF Fits

(* An algorithm that takes the size and the budget is a candidate when all *)
(* ranks reach each other.                                                 *)
ServedAt(t) ==
  \/ t.ranks <= MaxRing /\ budget # "large message"
  \/ ChunkFits /\ (primitive # "AllGather" \/ PowerOfTwo(t.ranks))

LEMMA ServedHasCandidates ==
  ASSUME CacheInv, NEW t, Topology(t), primitive \in Primitives, ServedAt(t), Connected(t)
  PROVE  Candidates(t) # {}
<1>1. t.ranks \in 2..MaxRanks /\ t.ranks \in Nat /\ t.ranks >= 2
  BY RanksAreNaturals DEF Topology, WellFormed
<1>2. Mesh(t.ranks) \subseteq Routes(t)
  <2> SUFFICES ASSUME NEW p \in Mesh(t.ranks) PROVE p \in Routes(t)
    OBVIOUS
  <2>1. p = <<p[1], p[2]>> /\ p[1] \in RanksOf(t.ranks) /\ p[2] \in RanksOf(t.ranks)
    BY DEF Mesh
  <2>2. Reachable(t, p[1], p[2])
    BY DEF Connected
  <2> QED
    BY <2>1, <2>2, RoutesAreReachable
<1>3. ASSUME NEW a \in Algorithms, primitive \in Supports[a],
             Transfers(t.ranks, a, Routes(t), Consulted(t)) # {}
      PROVE  Candidates(t) # {}
  <2>1. PICK x \in Transfers(t.ranks, a, Routes(t), Consulted(t)) : TRUE
    BY <1>3
  <2>2. [algorithm |-> a, ranks |-> t.ranks, transfers |-> x] \in Offers(t, a)
    BY DEF Offers
  <2> QED
    BY <1>3, <2>2, CandidatesAreOffers
<1>4. CASE t.ranks <= MaxRing /\ budget # "large message"
  <2>1. Ring(t.ranks) \in Transfers(t.ranks, "Ring", Routes(t), Consulted(t))
    BY <1>1, <1>2, <1>4, RingFacts DEF Transfers
  <2> QED
    BY <1>3, <2>1, AlgorithmNames
<1>5. CASE ChunkFits /\ primitive # "AllGather"
  <2>1. Mesh(t.ranks) \in Transfers(t.ranks, "Mesh", Routes(t), Consulted(t))
    BY <1>2, <1>5 DEF Transfers
  <2> QED
    BY <1>3, <1>5, <2>1, AlgorithmNames DEF Primitives
<1>6. CASE ChunkFits /\ primitive = "AllGather" /\ PowerOfTwo(t.ranks)
  <2>1. Butterfly(t.ranks) \in Transfers(t.ranks, "Butterfly", Routes(t), Consulted(t))
    BY <1>1, <1>2, <1>6, ButterflyFacts DEF Transfers
  <2> QED
    BY <1>3, <1>6, <2>1, AlgorithmNames
<1> QED
  BY <1>4, <1>5, <1>6 DEF ServedAt

-----------------------------------------------------------------------------
(***************************************************************************)
(* The inductive invariant.  The property about the schedule in force is   *)
(* about every status: a replanning that raises keeps the old schedule.    *)
(***************************************************************************)
Types ==
  /\ Topology(topology) /\ primitive \in Primitives /\ budget \in Budgets /\ status \in Status
  /\ events \in 0..MaxEvents
ScheduleInv == schedule = NoSchedule \/ Fits(schedule, topology)
NoPathInv ==
  status = "EXPECTED_NO_PATH_FAILURE" =>
     schedule = NoSchedule /\ (ServedAt(topology) => ~Connected(topology))

IInv == Types /\ CacheInv /\ ScheduleInv /\ NoPathInv

LEMMA InitInv == Init => IInv
<1> SUFFICES ASSUME Init PROVE IInv
  OBVIOUS
<1>1. /\ primitive \in Primitives /\ budget \in Budgets /\ status = "none"
      /\ schedule = NoSchedule /\ cache = <<>> /\ events = 0
  BY DEF Init
<1>2. Topology(topology)
  BY BuiltFacts DEF Init
<1>3. CacheInv
  BY <1>1 DEF CacheInv
<1> QED
  BY <1>1, <1>2, <1>3, RanksAreNaturals DEF IInv, Types, ScheduleInv, NoPathInv, Status

LEMMA EventFacts ==
  ASSUME IInv, Event PROVE events' \in 0..MaxEvents
  BY RanksAreNaturals DEF IInv, Types, Event

LEMMA BuildInv == IInv /\ Build => IInv'
<1> SUFFICES ASSUME IInv, Build PROVE IInv'
  OBVIOUS
<1>1. /\ Event /\ schedule' = NoSchedule /\ status' = "none"
      /\ UNCHANGED <<primitive, budget, cache>>
  BY DEF Build
<1>2. PICK variant \in Variants, n \in 2..MaxRanks : topology' = Built(variant, n, "none")
  BY DEF Build
<1>3. Topology(Built(variant, n, "none"))
  BY BuiltFacts
<1>4. Topology(topology)'
  BY <1>2, <1>3 DEF Topology, WellFormed, LinksOf, Contents
<1>5. CacheInv'
  BY <1>1 DEF IInv, CacheInv, Healthy, LinksOf
<1> QED
  BY <1>1, <1>4, <1>5, EventFacts DEF IInv, Types, ScheduleInv, NoPathInv, Status

LEMMA SelectInv == IInv /\ Select => IInv'
<1> SUFFICES ASSUME IInv, Select PROVE IInv'
  OBVIOUS
<1>1. /\ status = "none" /\ cache' = Remembered(topology)
      /\ UNCHANGED <<topology, primitive, budget, status, events>>
      /\ schedule' = NoSchedule \/ schedule' \in Candidates(topology)
  BY DEF Select
<1>2. CacheInv /\ Topology(topology)
  BY DEF IInv, Types
<1>3. CacheInv'
  BY <1>1, <1>2, RememberedFacts
<1>4. schedule' = NoSchedule \/ Fits(schedule', topology)
  BY <1>1, <1>2, CandidatesFit
<1>5. ScheduleInv'
  BY <1>1, <1>4 DEF ScheduleInv, Fits, Reachable, Healthy, LinksOf
<1> QED
  BY <1>1, <1>3, <1>5 DEF IInv, Types, NoPathInv, Topology, WellFormed, LinksOf, Contents

LEMMA ReplanInv == IInv /\ Replan => IInv'
<1> SUFFICES ASSUME IInv, Replan PROVE IInv'
  OBVIOUS
<1>1. Event /\ UNCHANGED <<primitive, budget>> /\ schedule # NoSchedule
  BY DEF Replan
<1>2. PICK updated \in Updated(topology) :
        /\ cache' = Remembered(updated)
        /\ \/ /\ Candidates(updated) = {} /\ topology' = updated /\ schedule' = NoSchedule
              /\ status' = "EXPECTED_NO_PATH_FAILURE"
           \/ status' = "raised" /\ UNCHANGED <<topology, schedule>>
           \/ /\ schedule' \in Candidates(updated) /\ topology' = updated
              /\ status' \in {"REPLANNED", "REPLAN_VALIDATION_FAILED"}
  BY DEF Replan
<1>3. CacheInv /\ Topology(topology) /\ Topology(updated) /\ primitive \in Primitives
  BY UpdatedFacts DEF IInv, Types
<1>4. CacheInv'
  BY <1>2, <1>3, RememberedFacts
<1>5. Types'
  <2>1. topology' \in {topology, updated}
    BY <1>2
  <2>2. Topology(topology)'
    BY <1>3, <2>1 DEF Topology, WellFormed, LinksOf, Contents
  <2>3. status' \in Status
    BY <1>2 DEF Status
  <2> QED
    BY <1>1, <2>2, <2>3, EventFacts DEF IInv, Types
<1>6. ScheduleInv'
  <2>1. \/ schedule' = NoSchedule
        \/ schedule' = schedule /\ topology' = topology /\ Fits(schedule, topology)
        \/ topology' = updated /\ Fits(schedule', updated)
    BY <1>1, <1>2, <1>3, CandidatesFit DEF IInv, ScheduleInv
  <2> QED
    BY <1>1, <2>1 DEF ScheduleInv, Fits, Reachable, Healthy, LinksOf
<1>7. NoPathInv'
  <2> SUFFICES ASSUME status' = "EXPECTED_NO_PATH_FAILURE" PROVE NoPathInv'
    BY DEF NoPathInv
  <2>1. Candidates(updated) = {} /\ topology' = updated /\ schedule' = NoSchedule
    BY <1>2
  <2>2. ServedAt(updated) => ~Connected(updated)
    BY <1>3, <2>1, ServedHasCandidates
  <2> QED
    BY <1>1, <2>1, <2>2
    DEF NoPathInv, ServedAt, ChunkFits, Connected, Reachable, Healthy, LinksOf
<1> QED
  BY <1>4, <1>5, <1>6, <1>7 DEF IInv

LEMMA StutterInv == IInv /\ UNCHANGED vars => IInv'
<1> SUFFICES ASSUME IInv, UNCHANGED vars PROVE IInv'
  OBVIOUS
<1>1. UNCHANGED <<topology, primitive, budget, schedule, status, cache, events>>
  BY DEF vars
<1>2. Types' /\ CacheInv'
  BY <1>1 DEF IInv, Types, CacheInv, Topology, WellFormed, LinksOf, Contents, Healthy
<1>3. ScheduleInv' /\ NoPathInv'
  BY <1>1 DEF IInv, ScheduleInv, NoPathInv, Fits, ServedAt, ChunkFits, Connected, Reachable,
     Healthy, LinksOf
<1> QED
  BY <1>2, <1>3 DEF IInv

-----------------------------------------------------------------------------
(***************************************************************************)
(* The theorems.                                                           *)
(***************************************************************************)

(* Whatever events come, the inductive invariant holds. *)
THEOREM Invariance == Spec => []IInv
<1>1. Init => IInv
  BY InitInv
<1>2. IInv /\ [Next]_vars => IInv'
  BY BuildInv, SelectInv, ReplanInv, StutterInv DEF Next
<1> QED
  BY <1>1, <1>2, PTL DEF Spec

(* topology_model.py and replanner.py: the topology in use carries the hash *)
(* of what it is, no schedule was made for another number of ranks, every   *)
(* schedule transfers something, and between different ranks.               *)
THEOREM TypeCorrectness == Spec => []TypeOK
<1>1. IInv => TypeOK
  <2> SUFFICES ASSUME IInv PROVE TypeOK
    OBVIOUS
  <2>1. /\ topology.variant \in Variants /\ topology.ranks \in 2..MaxRanks
        /\ \A x \in {"down", "worn", "degraded"} : topology[x] \subseteq LinksOf(topology)
        /\ topology.hash = <<Contents(topology)>>
    BY DEF IInv, Types, Topology, WellFormed
  <2>2. \A h \in DOMAIN cache : cache[h] \subseteq LinksOf(h[1])
    BY DEF IInv, CacheInv, Healthy
  <2>3. \/ schedule = NoSchedule
        \/ /\ schedule.algorithm \in Algorithms /\ primitive \in Supports[schedule.algorithm]
           /\ schedule.ranks = topology.ranks
           /\ schedule.transfers \in (SUBSET Mesh(topology.ranks)) \ {{}}
    BY DEF IInv, ScheduleInv, Fits
  <2> QED
    BY <2>1, <2>2, <2>3 DEF TypeOK, IInv, Types
<1> QED
  BY <1>1, Invariance, PTL

(* replan: a schedule that passed has a route of healthy links for every   *)
(* transfer, although links and routes come from caches that outlive the   *)
(* topologies they were filled for.                                        *)
THEOREM ReplansAreRoutable == Spec => []ReplannedIsRoutable
<1>1. IInv => ReplannedIsRoutable
  BY DEF IInv, ScheduleInv, Fits, ReplannedIsRoutable, NoSchedule
<1> QED
  BY <1>1, Invariance, PTL

(* replan: EXPECTED_NO_PATH_FAILURE of a collective that some algorithm    *)
(* takes is only reported when some ranks cannot reach each other.         *)
THEOREM NoPathIsDisconnection == Spec => []NoPathMeansNoPath
<1>1. IInv => NoPathMeansNoPath
  BY DEF IInv, NoPathInv, NoPathMeansNoPath, Served, ServedAt
<1> QED
  BY <1>1, Invariance, PTL
=============================================================================
