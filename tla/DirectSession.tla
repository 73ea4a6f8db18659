---------------------------- MODULE DirectSession ----------------------------
(***************************************************************************)
(* The host-only session of the direct adapter,                            *)
(* hcccl/direct/src/hccl_direct_adapter.cpp.                               *)
(*                                                                         *)
(* A session belongs to the thread that created it.  It takes resources    *)
(* one by one, gives them back in reverse, and counts its runtime lease in *)
(* a global of the process; destroying it enters its address in a table of *)
(* retired sessions and frees it.  The counter and the table are plain     *)
(* variables, so that their updates are a read followed by a write, and    *)
(* steps of other threads may come between.  Everything else a call does   *)
(* touches its own session only.                                           *)
(*                                                                         *)
(* Calls that are refused, queries and the execution guard change nothing  *)
(* and are left out.  The allocator may give an address out again.         *)
(***************************************************************************)
EXTENDS Integers, Sequences, FiniteSets

CONSTANTS
  Threads,       \* threads of the process
  Addresses,     \* addresses of sessions
  NoAddress,     \* a null entry of the table
  RetiredSlots,  \* entries of g_retired_sessions, 64 in the code
  LeaseModulus,  \* values of g_runtime_leases, 2^32 in the code
  Failures       \* bound: the failure points tried

(* What run_model takes, in order; the last two are steps, not resources. *)
Acquisitions ==
  <<"runtime_lease", "device", "context", "stream", "comm",
    "send_buffer", "recv_buffer", "submit", "synchronize">>

StateAfter ==
  <<"runtime_ready", "device_ready", "context_ready", "stream_ready",
    "comm_ready", "buffers_ready", "buffers_ready", "collective_submitted",
    "synchronized">>

CleanupOrder ==
  <<"recv_buffer", "send_buffer", "comm", "stream", "context", "device",
    "runtime_lease">>

Resources == {CleanupOrder[i] : i \in DOMAIN CleanupOrder}

NoFailure == [phase |-> "none", at |-> "none"]

FailurePoints ==
  {NoFailure}
    \cup [phase : {"acquire"}, at : {Acquisitions[i] : i \in DOMAIN Acquisitions}]
    \cup [phase : {"cleanup"}, at : Resources]

ASSUME ParametersAssumption ==
  /\ NoAddress \notin Addresses
  /\ RetiredSlots \in Nat \ {0} /\ LeaseModulus \in Nat \ {0}
  /\ Failures \subseteq FailurePoints

VARIABLES
  heap,     \* the session at each address
  leases,   \* g_runtime_leases
  retired,  \* g_retired_sessions
  call,     \* what each thread is doing
  users     \* history: the threads that created a session

vars == <<heap, leases, retired, call, users>>

Idle == [pc |-> "idle", session |-> NoAddress, failure |-> NoFailure,
         op |-> "none", step |-> 0, read |-> 0]

Inside(pc, a, op, failure, read) ==
  [pc |-> pc, session |-> a, failure |-> failure, op |-> op, step |-> 1, read |-> read]

(* acquired is history: the resources taken, in the order taken. *)
Session(state, owner) ==
  [state |-> state, owner |-> owner, model_only |-> FALSE, owns |-> {},
   acquired |-> <<>>, cleanup |-> <<>>, cleanup_errors |-> 0,
   first_error |-> "success"]

Gone == {"unallocated", "freed"}
Live == {a \in Addresses : heap[a].state \notin Gone}
Retired == {retired[i] : i \in DOMAIN retired} \ {NoAddress}

WithoutWrap(n) == n   \* seeded fault: a counter that may become negative
Wrapped(n) == n % LeaseModulus

Init ==
  /\ heap = [a \in Addresses |-> Session("unallocated", "none")]
  /\ leases = 0
  /\ retired = [i \in 1..RetiredSlots |-> NoAddress]
  /\ call = [t \in Threads |-> Idle]
  /\ users = {}

-----------------------------------------------------------------------------
(* Calls. *)

(* seeded fault: the owner is not checked *)
CallsAnyThread(t, a) == call[t] = Idle /\ a \in Live \ Retired

(* The guard of every call: the address is not retired, the session is the *)
(* thread's own.                                                           *)
Calls(t, a) ==
  /\ call[t] = Idle
  /\ a \in Live \ Retired
  /\ heap[a].owner = t

NotForgotten(a) == retired   \* seeded fault: the address stays retired
Forgotten(a) == [i \in DOMAIN retired |-> IF retired[i] = a THEN NoAddress ELSE retired[i]]

Create(t, a) ==
  /\ call[t] = Idle
  /\ a \notin Live
  /\ heap' = [heap EXCEPT ![a] = Session("created", t)]
  /\ retired' = Forgotten(a)
  /\ users' = users \cup {t}
  /\ UNCHANGED <<leases, call>>

Configure(t, a) ==
  /\ Calls(t, a)
  /\ heap[a].state = "created"
  /\ \E model_only \in BOOLEAN :
       heap' = [heap EXCEPT ![a].state = "configured", ![a].model_only = model_only]
  /\ UNCHANGED <<leases, retired, call, users>>

Preflight(t, a) ==
  /\ Calls(t, a)
  /\ heap[a].state = "configured"
  /\ \E state \in {"preflight_checked", "no_device_expected"} :
       heap' = [heap EXCEPT ![a].state = state]
  /\ UNCHANGED <<leases, retired, call, users>>

Runnable(a) == heap[a].state = "no_device_expected" /\ heap[a].model_only

(* The lease is the session's, and the counter is read. *)
TakesLease(session) ==
  [session EXCEPT !.owns = @ \cup {"runtime_lease"},
                  !.acquired = Append(@, "runtime_lease")]

ModelAcquireLease(t, a) ==
  /\ Calls(t, a)
  /\ Runnable(a)
  /\ heap' = [heap EXCEPT ![a] = TakesLease(@)]
  /\ call' = [call EXCEPT ![t] =
       Inside("lease_taken", a, "model_acquire_lease", NoFailure, leases)]
  /\ UNCHANGED <<leases, retired, users>>

RunModel(t, a) ==
  /\ Calls(t, a)
  /\ Runnable(a)
  /\ heap' = [heap EXCEPT ![a].cleanup = <<>>, ![a].cleanup_errors = 0,
                          ![a].first_error = "success"]
  /\ \E failure \in Failures :
       call' = [call EXCEPT ![t] =
         Inside("acquire", a, "run_model", failure, 0)]
  /\ UNCHANGED <<leases, retired, users>>

ModelCleanup(t, a) ==
  /\ Calls(t, a)
  /\ heap[a].state = "runtime_ready"
  /\ heap' = [heap EXCEPT ![a].state = "cleaning"]
  /\ \E failure \in Failures :
       call' = [call EXCEPT ![t] =
         Inside("cleanup", a, "model_cleanup", failure, 0)]
  /\ UNCHANGED <<leases, retired, users>>

Destroy(t, a) ==
  /\ Calls(t, a)
  /\ heap' = [heap EXCEPT ![a].state = IF heap[a].owns = {} THEN @ ELSE "cleaning"]
  /\ call' = [call EXCEPT ![t] =
       Inside("cleanup", a, "destroy", NoFailure, 0)]
  /\ UNCHANGED <<leases, retired, users>>

-----------------------------------------------------------------------------
(* The steps of a call. *)
At(t, pc) == call[t].pc = pc
This(t) == call[t].session   \* the session the call is about

FailsHere(t) ==
  call[t].failure = [phase |-> "acquire", at |-> Acquisitions[call[t].step]]

(* run_model takes the next resource, or takes its next step. *)
Acquire(t) ==
  LET a == This(t) i == call[t].step
      reached == [heap[a] EXCEPT !.state = StateAfter[i]]
  IN /\ At(t, "acquire")
     /\ i <= Len(Acquisitions) /\ ~FailsHere(t)
     /\ \/ /\ i = 1
           /\ heap' = [heap EXCEPT ![a] = TakesLease(reached)]
           /\ call' = [call EXCEPT ![t].pc = "lease_taken", ![t].read = leases]
        \/ /\ i > 1
           /\ heap' = [heap EXCEPT ![a] =
                IF Acquisitions[i] \in Resources
                  THEN [reached EXCEPT !.owns = @ \cup {Acquisitions[i]},
                                       !.acquired = Append(@, Acquisitions[i])]
                  ELSE reached]
           /\ call' = [call EXCEPT ![t].step = i + 1]
     /\ UNCHANGED <<leases, retired, users>>

AcquireFails(t) ==
  /\ At(t, "acquire")
  /\ call[t].step <= Len(Acquisitions) /\ FailsHere(t)
  /\ heap' = [heap EXCEPT ![This(t)].state = "cleaning",
                          ![This(t)].first_error = "injected_failure"]
  /\ call' = [call EXCEPT ![t].pc = "cleanup"]
  /\ UNCHANGED <<leases, retired, users>>

(* All is taken: run_model gives everything back. *)
Finish(t) ==
  /\ At(t, "acquire")
  /\ call[t].step > Len(Acquisitions)
  /\ heap' = [heap EXCEPT ![This(t)].state = "cleaning"]
  /\ call' = [call EXCEPT ![t].pc = "cleanup"]
  /\ UNCHANGED <<leases, retired, users>>

(* The second half of ++g_runtime_leases. *)
CountTaken(t) ==
  /\ At(t, "lease_taken")
  /\ leases' = Wrapped(call[t].read + 1)
  /\ IF call[t].op = "run_model"
       THEN /\ call' = [call EXCEPT ![t].pc = "acquire", ![t].step = 2, ![t].read = 0]
            /\ UNCHANGED heap
       ELSE /\ call' = [call EXCEPT ![t] = Idle]
            /\ heap' = [heap EXCEPT ![This(t)].state = "runtime_ready"]
  /\ UNCHANGED <<retired, users>>

(* seeded fault: the other way round *)
LastOwned(a, i) ==
  /\ CleanupOrder[i] \in heap[a].owns
  /\ \A j \in (i + 1)..Len(CleanupOrder) : CleanupOrder[j] \notin heap[a].owns

(* Place i is the first of the order that the session still owns. *)
NextOwned(a, i) ==
  /\ CleanupOrder[i] \in heap[a].owns
  /\ \A j \in 1..(i - 1) : CleanupOrder[j] \notin heap[a].owns

CountsBackTwice(r) == r \in {"device", "runtime_lease"}   \* seeded fault: i < 5
CountsBack(r) == r = "runtime_lease"

(* cleanup gives one resource back; the lease is the last, and the counter *)
(* is read.                                                                *)
GiveBack(t) ==
  /\ At(t, "cleanup")
  /\ \E i \in DOMAIN CleanupOrder :
       LET a == This(t) r == CleanupOrder[i] IN
       /\ NextOwned(a, i)
       /\ heap' = [heap EXCEPT
            ![a].owns = @ \ {r},
            ![a].cleanup = Append(@, r),
            ![a].cleanup_errors =
              IF call[t].failure = [phase |-> "cleanup", at |-> r] THEN @ + 1 ELSE @]
       /\ call' = IF CountsBack(r)
                    THEN [call EXCEPT ![t].pc = "lease_dropped", ![t].read = leases]
                    ELSE call
  /\ UNCHANGED <<leases, retired, users>>

(* The second half of --g_runtime_leases. *)
CountDropped(t) ==
  /\ At(t, "lease_dropped")
  /\ leases' = Wrapped(call[t].read - 1)
  /\ call' = [call EXCEPT ![t].pc = "cleanup", ![t].read = 0]
  /\ UNCHANGED <<heap, retired, users>>

StateCleaned(t) ==
  IF call[t].op = "destroy" THEN "destroyed"
    ELSE IF heap[This(t)].first_error = "injected_failure" THEN "failed"
    ELSE "completed"

Cleaned(t) ==
  /\ At(t, "cleanup")
  /\ heap[This(t)].owns = {}
  /\ heap' = [heap EXCEPT ![This(t)].state = StateCleaned(t)]
  /\ call' = IF call[t].op = "destroy" THEN [call EXCEPT ![t].pc = "remember"]
                                       ELSE [call EXCEPT ![t] = Idle]
  /\ UNCHANGED <<leases, retired, users>>

(* The entry remember_retired chooses: the first empty one, or the first. *)
FreeEntry(i) ==
  \/ /\ retired[i] = NoAddress
     /\ \A j \in 1..(i - 1) : retired[j] # NoAddress
  \/ /\ i = 1
     /\ \A j \in DOMAIN retired : retired[j] # NoAddress

Remember(t) ==
  /\ At(t, "remember")
  /\ \E i \in DOMAIN retired :
       /\ FreeEntry(i)
       /\ call' = [call EXCEPT ![t].pc = "delete", ![t].read = i]
  /\ UNCHANGED <<heap, leases, retired, users>>

(* The entry is written and the session freed.  Its destructor would give  *)
(* back a lease, but cleanup has left none.                                *)
Delete(t) ==
  /\ At(t, "delete")
  /\ retired' = [retired EXCEPT ![call[t].read] = This(t)]
  /\ heap' = [heap EXCEPT ![This(t)] = Session("freed", "none")]
  /\ call' = [call EXCEPT ![t] = Idle]
  /\ UNCHANGED <<leases, users>>

CallStep(t) ==
  \E a \in Addresses :
    \/ Create(t, a) \/ Configure(t, a) \/ Preflight(t, a)
    \/ ModelAcquireLease(t, a) \/ RunModel(t, a)
    \/ ModelCleanup(t, a) \/ Destroy(t, a)

InnerStep(t) ==
  \/ Acquire(t) \/ AcquireFails(t) \/ Finish(t) \/ CountTaken(t)
  \/ GiveBack(t) \/ CountDropped(t) \/ Cleaned(t)
  \/ Remember(t) \/ Delete(t)

Next == \E t \in Threads : CallStep(t) \/ InnerStep(t)

Spec == Init /\ [][Next]_vars

-----------------------------------------------------------------------------
(* Properties. *)

States ==
  {StateAfter[i] : i \in DOMAIN StateAfter}
    \cup {"created", "configured", "preflight_checked", "no_device_expected",
          "cleaning", "completed", "failed", "destroyed"}

SessionType ==
  [state : States \cup Gone, owner : Threads \cup {"none"}, model_only : BOOLEAN,
   owns : SUBSET Resources, acquired : Seq(Resources), cleanup : Seq(Resources),
   cleanup_errors : Nat, first_error : {"success", "injected_failure"}]

Places ==
  {"idle", "acquire", "lease_taken", "cleanup", "lease_dropped", "remember", "delete"}

CallType ==
  [pc : Places, session : Addresses \cup {NoAddress}, failure : FailurePoints,
   op : {"none", "model_acquire_lease", "run_model", "model_cleanup", "destroy"},
   step : 0..10, read : Nat]

(* Every variable has its type; in particular the counter stays within its *)
(* width, whatever updates are lost.                                       *)
TypeOK ==
  /\ heap \in [Addresses -> SessionType]
  /\ leases \in 0..(LeaseModulus - 1)
  /\ retired \in [1..RetiredSlots -> Addresses \cup {NoAddress}]
  /\ call \in [Threads -> CallType]
  /\ users \subseteq Threads

Holders == {a \in Addresses : "runtime_lease" \in heap[a].owns}
CountSettled == \A t \in Threads : call[t].pc \notin {"lease_taken", "lease_dropped"}

(* g_runtime_leases is the number of sessions that hold a lease, however   *)
(* many threads use the adapter: the lease is counted for the process.     *)
LeasesCounted == CountSettled => leases = Cardinality(Holders)

(* The same as long as one thread has created all the sessions: a session  *)
(* that fails, completes or is destroyed gives back its own lease, once,   *)
(* and no other session's.                                                 *)
LeasesCountedByOneThread == Cardinality(users) <= 1 => LeasesCounted

(* As long as one thread has created all the sessions and the table has    *)
(* room, retired() refuses exactly the addresses of freed sessions: every  *)
(* later call on one is refused, and no call on a new session that the     *)
(* allocator placed at such an address is.                                 *)
RetiredExactlyFreed ==
  Cardinality(users) <= 1 /\ Cardinality(Addresses) <= RetiredSlots =>
    Retired = {a \in Addresses : heap[a].state = "freed"}

Reversed(s) == [i \in DOMAIN s |-> s[Len(s) + 1 - i]]

(* A session that is completed, failed or destroyed, by whatever calls and *)
(* at whatever failure point, owns nothing and has given back what it took *)
(* and only that, each thing once, in reverse; the trace therefore never   *)
(* exceeds the array of 7 entries it is kept in.                           *)
CleanupReverses ==
  \A a \in Addresses :
    heap[a].state \in {"completed", "failed", "destroyed"} =>
      /\ heap[a].owns = {}
      /\ heap[a].cleanup = Reversed(heap[a].acquired)

(* While a thread is inside a call, the session it works on stays alive    *)
(* and its own, and no other thread is inside a call on it.                *)
SessionOutlivesCall ==
  \A t \in Threads :
    call[t] # Idle =>
      /\ This(t) \in Live /\ heap[This(t)].owner = t
      /\ \A u \in Threads \ {t} : This(u) # This(t)
=============================================================================
