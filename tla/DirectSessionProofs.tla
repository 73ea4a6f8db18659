------------------------- MODULE DirectSessionProofs -------------------------
(***************************************************************************)
(* Theorems about DirectSession, for any number of threads and sessions,   *)
(* any table size, any width of the counter and all failure points.  Three *)
(* invariants, each built on the one before: types and the ownership of a  *)
(* session by the call that works on it; what each session has acquired    *)
(* and given back; and the lease count of the process.                     *)
(***************************************************************************)
EXTENDS DirectSession, FiniteSetTheorems, TLAPS

(***************************************************************************)
(* Types and ownership.                                                    *)
(***************************************************************************)
(* A thread at rest is Idle; a thread in a call works on a session that is *)
(* alive and its own.                                                      *)
OwnCall(t) ==
  IF call[t].pc = "idle" THEN call[t] = Idle
    ELSE This(t) \in Addresses /\ heap[This(t)].state \notin Gone /\ heap[This(t)].owner = t

CallInv == \A t \in Threads : OwnCall(t)

IInv == TypeOK /\ CallInv

-----------------------------------------------------------------------------
LEMMA IdleType == Idle \in CallType /\ Idle.pc = "idle" /\ Idle.session = NoAddress
BY DEF Idle, CallType, Places, FailurePoints, NoFailure

Ops == {"none", "model_acquire_lease", "run_model", "model_cleanup", "destroy"}

LEMMA InsideType ==
  ASSUME NEW pc \in Places, NEW a \in Addresses, NEW op \in Ops,
         NEW failure \in FailurePoints, NEW read \in Nat
  PROVE  /\ Inside(pc, a, op, failure, read) \in CallType
         /\ Inside(pc, a, op, failure, read).pc = pc
         /\ Inside(pc, a, op, failure, read).session = a
BY DEF Inside, CallType, Ops

LEMMA CountersNat == TypeOK => leases \in Nat
BY ParametersAssumption DEF TypeOK

LEMMA FailureFacts == NoFailure \in FailurePoints /\ Failures \subseteq FailurePoints
BY ParametersAssumption DEF FailurePoints

LEMMA SequenceFacts ==
  /\ DOMAIN Acquisitions = 1..9 /\ Len(Acquisitions) = 9
  /\ DOMAIN StateAfter = 1..9
  /\ DOMAIN CleanupOrder = 1..7 /\ Len(CleanupOrder) = 7
  /\ \A i \in 1..9 : StateAfter[i] \in States
  /\ \A i \in 1..7 : CleanupOrder[i] \in Resources
  /\ "runtime_lease" \in Resources
BY DEF Acquisitions, StateAfter, CleanupOrder, States, Resources

LEMMA StateFacts ==
  /\ {"created", "configured", "preflight_checked", "no_device_expected",
      "cleaning", "completed", "failed", "destroyed", "runtime_ready"} \subseteq States
  /\ States \cap Gone = {}
BY DEF States, Gone, StateAfter

LEMMA SessionTypes ==
  ASSUME NEW state \in States \cup Gone, NEW owner \in Threads \cup {"none"}
  PROVE  /\ Session(state, owner) \in SessionType
         /\ Session(state, owner).state = state
         /\ Session(state, owner).owner = owner
BY DEF Session, SessionType

LEMMA TakesLeaseType ==
  ASSUME NEW session \in SessionType
  PROVE  /\ TakesLease(session) \in SessionType
         /\ TakesLease(session).state = session.state
         /\ TakesLease(session).owner = session.owner
<1>1. Append(session.acquired, "runtime_lease") \in Seq(Resources)
  BY SequenceFacts DEF SessionType
<1> QED
  BY <1>1, SequenceFacts DEF SessionType, TakesLease

LEMMA InitInv == Init => IInv
<1> SUFFICES ASSUME Init PROVE IInv
  OBVIOUS
<1>1. heap \in [Addresses -> SessionType]
  BY SessionTypes DEF Init, Gone
<1>2. leases \in 0..(LeaseModulus - 1)
  BY ParametersAssumption DEF Init
<1>3. call \in [Threads -> CallType]
  BY IdleType DEF Init
<1>4. retired \in [1..RetiredSlots -> Addresses \cup {NoAddress}] /\ users \subseteq Threads
  BY DEF Init
<1>5. CallInv
  BY IdleType DEF Init, CallInv, OwnCall
<1> QED
  BY <1>1, <1>2, <1>3, <1>4, <1>5 DEF IInv, TypeOK

(* A step of thread t that touches one session, its own or a dead one,     *)
(* disturbs no other thread's call.                                        *)
LEMMA Frame ==
  ASSUME CallInv,
         NEW t \in Threads, NEW a \in Addresses,
         heap[a].state \notin Gone => heap[a].owner = t,
         \A b \in Addresses \ {a} : heap'[b] = heap[b],
         \A u \in Threads \ {t} : call'[u] = call[u],
         OwnCall(t)'
  PROVE  CallInv'
<1> SUFFICES ASSUME NEW u \in Threads \ {t} PROVE OwnCall(u)'
  BY DEF CallInv
<1>1. OwnCall(u) /\ call'[u] = call[u]
  BY DEF CallInv
<1>2. CASE call[u].pc = "idle"
  BY <1>1, <1>2 DEF OwnCall
<1>3. CASE call[u].pc # "idle"
  <2>1. call[u].session \in Addresses /\ call[u].session # a
    BY <1>1, <1>3 DEF OwnCall, This
  <2> QED
    BY <1>1, <1>3, <2>1 DEF OwnCall, This
<1> QED
  BY <1>2, <1>3

(* What a call's guard and a step inside a call say of the session.        *)
LEMMA CallsFacts ==
  ASSUME IInv, NEW t \in Threads, NEW a \in Addresses, Calls(t, a)
  PROVE  /\ call[t] = Idle
         /\ heap[a] \in SessionType /\ heap[a].state \notin Gone /\ heap[a].owner = t
BY DEF Calls, Live, IInv, TypeOK

LEMMA InsideFacts ==
  ASSUME IInv, NEW t \in Threads, NEW pc \in Places, pc # "idle", At(t, pc)
  PROVE  /\ call[t] \in CallType /\ This(t) \in Addresses /\ call[t].session = This(t)
         /\ call[t].pc = pc
         /\ heap[This(t)] \in SessionType
         /\ heap[This(t)].state \notin Gone /\ heap[This(t)].owner = t
BY DEF At, OwnCall, CallInv, IInv, TypeOK, This

-----------------------------------------------------------------------------
(* Calls. *)

LEMMA CreateInv ==
  ASSUME IInv, NEW t \in Threads, NEW a \in Addresses, Create(t, a) PROVE IInv'
<1> USE DEF IInv
<1>1. Session("created", t) \in SessionType /\ Session("created", t).owner = t
  BY StateFacts, SessionTypes
<1>2. TypeOK'
  BY <1>1 DEF TypeOK, Create, Forgotten
<1>3. call[t] = Idle /\ call' = call /\ heap[a].state \in Gone
  BY DEF Create, Live
<1>4. OwnCall(t)'
  BY <1>3, IdleType DEF OwnCall
<1>5. \A b \in Addresses \ {a} : heap'[b] = heap[b]
  BY DEF Create, TypeOK
<1>6. CallInv'
  BY <1>3, <1>4, <1>5, Frame
<1> QED
  BY <1>2, <1>6

(* Calls that only change the state of their session. *)
LEMMA ConfigureInv ==
  ASSUME IInv, NEW t \in Threads, NEW a \in Addresses, Configure(t, a) PROVE IInv'
<1> USE DEF IInv
<1>1. /\ call[t] = Idle /\ heap[a] \in SessionType
      /\ heap[a].state \notin Gone /\ heap[a].owner = t
  BY CallsFacts DEF Configure
<1>2. PICK m \in BOOLEAN :
        heap' = [heap EXCEPT ![a].state = "configured", ![a].model_only = m]
  BY DEF Configure
<1>3. heap' \in [Addresses -> SessionType]
  BY <1>1, <1>2, StateFacts DEF TypeOK, SessionType
<1>4. TypeOK'
  BY <1>3 DEF TypeOK, Configure
<1>5. call' = call /\ OwnCall(t)'
  BY <1>1, IdleType DEF Configure, OwnCall
<1>6. \A b \in Addresses \ {a} : heap'[b] = heap[b]
  BY <1>2 DEF TypeOK
<1>7. CallInv'
  BY <1>1, <1>5, <1>6, Frame
<1> QED
  BY <1>4, <1>7

LEMMA PreflightInv ==
  ASSUME IInv, NEW t \in Threads, NEW a \in Addresses, Preflight(t, a) PROVE IInv'
<1> USE DEF IInv
<1>1. /\ call[t] = Idle /\ heap[a] \in SessionType
      /\ heap[a].state \notin Gone /\ heap[a].owner = t
  BY CallsFacts DEF Preflight
<1>2. PICK state \in {"preflight_checked", "no_device_expected"} :
        heap' = [heap EXCEPT ![a].state = state]
  BY DEF Preflight
<1>3. heap' \in [Addresses -> SessionType]
  BY <1>1, <1>2, StateFacts DEF TypeOK, SessionType
<1>4. TypeOK'
  BY <1>3 DEF TypeOK, Preflight
<1>5. call' = call /\ OwnCall(t)'
  BY <1>1, IdleType DEF Preflight, OwnCall
<1>6. \A b \in Addresses \ {a} : heap'[b] = heap[b]
  BY <1>2 DEF TypeOK
<1>7. CallInv'
  BY <1>1, <1>5, <1>6, Frame
<1> QED
  BY <1>4, <1>7

LEMMA ModelAcquireLeaseInv ==
  ASSUME IInv, NEW t \in Threads, NEW a \in Addresses, ModelAcquireLease(t, a) PROVE IInv'
<1> USE DEF IInv
<1>1. /\ call[t] = Idle /\ heap[a] \in SessionType
      /\ heap[a].state \notin Gone /\ heap[a].owner = t
  BY CallsFacts DEF ModelAcquireLease
<1>2. PICK new : /\ call' = [call EXCEPT ![t] = new]
                  /\ new \in CallType
                  /\ new.pc # "idle" /\ new.session = a
  <2>1. call' = [call EXCEPT ![t] =
            Inside("lease_taken", a, "model_acquire_lease", NoFailure, leases)]
    BY DEF ModelAcquireLease
  <2>2. "lease_taken" \in Places /\ "model_acquire_lease" \in Ops
    BY DEF Places, Ops
  <2>3. /\ Inside("lease_taken", a, "model_acquire_lease", NoFailure, leases) \in CallType
        /\ Inside("lease_taken", a, "model_acquire_lease", NoFailure, leases).pc = "lease_taken"
        /\ Inside("lease_taken", a, "model_acquire_lease", NoFailure, leases).session = a
    BY <2>1, <2>2, FailureFacts, CountersNat, InsideType
  <2> QED
    BY <2>1, <2>3
<1>3. heap' = [heap EXCEPT ![a] = TakesLease(@)]
  BY DEF ModelAcquireLease
<1>4. heap'[a] \in SessionType /\ heap'[a].state \notin Gone /\ heap'[a].owner = t
  BY <1>1, <1>3, TakesLeaseType DEF TypeOK
<1>5. heap' \in [Addresses -> SessionType] /\ call' \in [Threads -> CallType]
  BY <1>2, <1>3, <1>4 DEF TypeOK
<1>6. TypeOK'
  BY <1>5 DEF TypeOK, ModelAcquireLease
<1>7. OwnCall(t)'
  BY <1>2, <1>4 DEF OwnCall, This, TypeOK
<1>8. /\ \A b \in Addresses \ {a} : heap'[b] = heap[b]
      /\ \A u \in Threads \ {t} : call'[u] = call[u]
  BY <1>2, <1>3 DEF TypeOK
<1>9. CallInv'
  BY <1>1, <1>7, <1>8, Frame
<1> QED
  BY <1>6, <1>9

LEMMA RunModelInv ==
  ASSUME IInv, NEW t \in Threads, NEW a \in Addresses, RunModel(t, a) PROVE IInv'
<1> USE DEF IInv
<1>1. /\ call[t] = Idle /\ heap[a] \in SessionType
      /\ heap[a].state \notin Gone /\ heap[a].owner = t
  BY CallsFacts DEF RunModel
<1>2. PICK new : /\ call' = [call EXCEPT ![t] = new]
                  /\ new \in CallType
                  /\ new.pc # "idle" /\ new.session = a
  <2>1. PICK failure \in Failures : call' = [call EXCEPT ![t] =
            Inside("acquire", a, "run_model", failure, 0)]
    BY DEF RunModel
  <2>2. "acquire" \in Places /\ "run_model" \in Ops
    BY DEF Places, Ops
  <2>3. /\ Inside("acquire", a, "run_model", failure, 0) \in CallType
        /\ Inside("acquire", a, "run_model", failure, 0).pc = "acquire"
        /\ Inside("acquire", a, "run_model", failure, 0).session = a
    BY <2>1, <2>2, FailureFacts, CountersNat, InsideType
  <2> QED
    BY <2>1, <2>3
<1>3. heap' = [heap EXCEPT ![a].cleanup = <<>>, ![a].cleanup_errors = 0,
                                ![a].first_error = "success"]
  BY DEF RunModel
<1>4. heap'[a] \in SessionType /\ heap'[a].state \notin Gone /\ heap'[a].owner = t
  <2>1. <<>> \in Seq(Resources)
    OBVIOUS
  <2> QED
    BY <1>1, <1>3, <2>1 DEF TypeOK, SessionType
<1>5. heap' \in [Addresses -> SessionType] /\ call' \in [Threads -> CallType]
  BY <1>2, <1>3, <1>4 DEF TypeOK
<1>6. TypeOK'
  BY <1>5 DEF TypeOK, RunModel
<1>7. OwnCall(t)'
  BY <1>2, <1>4 DEF OwnCall, This, TypeOK
<1>8. /\ \A b \in Addresses \ {a} : heap'[b] = heap[b]
      /\ \A u \in Threads \ {t} : call'[u] = call[u]
  BY <1>2, <1>3 DEF TypeOK
<1>9. CallInv'
  BY <1>1, <1>7, <1>8, Frame
<1> QED
  BY <1>6, <1>9

LEMMA ModelCleanupInv ==
  ASSUME IInv, NEW t \in Threads, NEW a \in Addresses, ModelCleanup(t, a) PROVE IInv'
<1> USE DEF IInv
<1>1. /\ call[t] = Idle /\ heap[a] \in SessionType
      /\ heap[a].state \notin Gone /\ heap[a].owner = t
  BY CallsFacts DEF ModelCleanup
<1>2. PICK new : /\ call' = [call EXCEPT ![t] = new]
                  /\ new \in CallType
                  /\ new.pc # "idle" /\ new.session = a
  <2>1. PICK failure \in Failures : call' = [call EXCEPT ![t] =
            Inside("cleanup", a, "model_cleanup", failure, 0)]
    BY DEF ModelCleanup
  <2>2. "cleanup" \in Places /\ "model_cleanup" \in Ops
    BY DEF Places, Ops
  <2>3. /\ Inside("cleanup", a, "model_cleanup", failure, 0) \in CallType
        /\ Inside("cleanup", a, "model_cleanup", failure, 0).pc = "cleanup"
        /\ Inside("cleanup", a, "model_cleanup", failure, 0).session = a
    BY <2>1, <2>2, FailureFacts, CountersNat, InsideType
  <2> QED
    BY <2>1, <2>3
<1>3. heap' = [heap EXCEPT ![a].state = "cleaning"]
  BY DEF ModelCleanup
<1>4. heap'[a] \in SessionType /\ heap'[a].state \notin Gone /\ heap'[a].owner = t
  BY <1>1, <1>3, StateFacts, SequenceFacts DEF TypeOK, SessionType
<1>5. heap' \in [Addresses -> SessionType] /\ call' \in [Threads -> CallType]
  BY <1>2, <1>3, <1>4 DEF TypeOK
<1>6. TypeOK'
  BY <1>5 DEF TypeOK, ModelCleanup
<1>7. OwnCall(t)'
  BY <1>2, <1>4 DEF OwnCall, This, TypeOK
<1>8. /\ \A b \in Addresses \ {a} : heap'[b] = heap[b]
      /\ \A u \in Threads \ {t} : call'[u] = call[u]
  BY <1>2, <1>3 DEF TypeOK
<1>9. CallInv'
  BY <1>1, <1>7, <1>8, Frame
<1> QED
  BY <1>6, <1>9

LEMMA DestroyInv ==
  ASSUME IInv, NEW t \in Threads, NEW a \in Addresses, Destroy(t, a) PROVE IInv'
<1> USE DEF IInv
<1>1. /\ call[t] = Idle /\ heap[a] \in SessionType
      /\ heap[a].state \notin Gone /\ heap[a].owner = t
  BY CallsFacts DEF Destroy
<1>2. PICK new : /\ call' = [call EXCEPT ![t] = new]
                  /\ new \in CallType
                  /\ new.pc # "idle" /\ new.session = a
  <2>1. call' = [call EXCEPT ![t] =
            Inside("cleanup", a, "destroy", NoFailure, 0)]
    BY DEF Destroy
  <2>2. "cleanup" \in Places /\ "destroy" \in Ops
    BY DEF Places, Ops
  <2>3. /\ Inside("cleanup", a, "destroy", NoFailure, 0) \in CallType
        /\ Inside("cleanup", a, "destroy", NoFailure, 0).pc = "cleanup"
        /\ Inside("cleanup", a, "destroy", NoFailure, 0).session = a
    BY <2>1, <2>2, FailureFacts, CountersNat, InsideType
  <2> QED
    BY <2>1, <2>3
<1>3. heap' = [heap EXCEPT ![a].state = IF heap[a].owns = {} THEN @ ELSE "cleaning"]
  BY DEF Destroy
<1>4. heap'[a] \in SessionType /\ heap'[a].state \notin Gone /\ heap'[a].owner = t
  BY <1>1, <1>3, StateFacts, SequenceFacts DEF TypeOK, SessionType
<1>5. heap' \in [Addresses -> SessionType] /\ call' \in [Threads -> CallType]
  BY <1>2, <1>3, <1>4 DEF TypeOK
<1>6. TypeOK'
  BY <1>5 DEF TypeOK, Destroy
<1>7. OwnCall(t)'
  BY <1>2, <1>4 DEF OwnCall, This, TypeOK
<1>8. /\ \A b \in Addresses \ {a} : heap'[b] = heap[b]
      /\ \A u \in Threads \ {t} : call'[u] = call[u]
  BY <1>2, <1>3 DEF TypeOK
<1>9. CallInv'
  BY <1>1, <1>7, <1>8, Frame
<1> QED
  BY <1>6, <1>9

-----------------------------------------------------------------------------
(* Steps inside a call.  Every one of them keeps the session alive and     *)
(* owned but Delete, which ends the call.                                  *)

LEMMA InnerFrame ==
  ASSUME IInv, NEW t \in Threads, NEW pc \in Places, pc # "idle", At(t, pc),
         NEW session, heap' = [heap EXCEPT ![This(t)] = session],
         session \in SessionType, session.state \notin Gone, session.owner = t,
         NEW new, call' = [call EXCEPT ![t] = new],
         new \in CallType,
         new = Idle \/ (new.pc # "idle" /\ new.session = This(t)),
         leases' \in 0..(LeaseModulus - 1),
         UNCHANGED <<retired, users>>
  PROVE  IInv'
<1> USE DEF IInv
<1> DEFINE a == This(t)
<1>1. a \in Addresses /\ heap[a].owner = t
  BY InsideFacts
<1>2. heap' \in [Addresses -> SessionType] /\ call' \in [Threads -> CallType]
  BY <1>1 DEF TypeOK
<1>3. TypeOK'
  BY <1>2 DEF TypeOK
<1>4. call'[t] = new /\ heap'[a] = session
  BY <1>1 DEF TypeOK
<1>5. OwnCall(t)'
  <2>1. CASE new = Idle
    BY <1>4, <2>1, IdleType DEF OwnCall
  <2>2. CASE new.pc # "idle" /\ new.session = a
    <3>1. call'[t].session = a
      BY <1>4, <2>2
    <3> QED
      BY <1>1, <1>4, <2>2, <3>1 DEF OwnCall, This
  <2> QED
    BY <2>1, <2>2
<1>6. /\ \A b \in Addresses \ {a} : heap'[b] = heap[b]
      /\ \A u \in Threads \ {t} : call'[u] = call[u]
  BY DEF TypeOK
<1>7. CallInv'
  BY <1>1, <1>5, <1>6, Frame
<1> QED
  BY <1>3, <1>7

LEMMA AcquireInv == ASSUME IInv, NEW t \in Threads, Acquire(t) PROVE IInv'
<1> DEFINE a == This(t)
           i == call[t].step
           reached == [heap[a] EXCEPT !.state = StateAfter[i]]
<1>0. /\ TypeOK /\ At(t, "acquire") /\ "acquire" \in Places /\ "lease_taken" \in Places
      /\ UNCHANGED <<leases, retired, users>>
  BY DEF IInv, Acquire, Places
<1>1. /\ call[t] \in CallType /\ a \in Addresses /\ call[t].session = a
      /\ heap[a] \in SessionType /\ heap[a].owner = t /\ call[t].pc = "acquire"
  BY <1>0, InsideFacts
<1>2. i \in 1..9
  <2>1. i \in 0..10 /\ i <= 9 /\ (i = 1 \/ i > 1)
    BY <1>1, SequenceFacts DEF Acquire, CallType
  <2> QED
    BY <2>1
<1>3. reached \in SessionType /\ reached.state \notin Gone /\ reached.owner = t
  BY <1>1, <1>2, SequenceFacts, StateFacts DEF SessionType
<1>4. CASE i = 1
  <2>1. /\ heap' = [heap EXCEPT ![a] = TakesLease(reached)]
        /\ call' = [call EXCEPT ![t] = [@ EXCEPT !.pc = "lease_taken", !.read = leases]]
    <3>1. /\ heap' = [heap EXCEPT ![a] = TakesLease(reached)]
          /\ call' = [call EXCEPT ![t].pc = "lease_taken", ![t].read = leases]
      BY <1>4 DEF Acquire
    <3>2. call \in [Threads -> CallType]
      BY <1>0 DEF TypeOK
    <3> QED
      BY <3>1, <3>2 DEF CallType
  <2>2. /\ TakesLease(reached) \in SessionType /\ TakesLease(reached).owner = t
        /\ TakesLease(reached).state \notin Gone
    BY <1>3, TakesLeaseType
  <2>3. DEFINE new == [call[t] EXCEPT !.pc = "lease_taken", !.read = leases]
  <2>4. new \in CallType /\ new.pc = "lease_taken" /\ new.session = a
    BY <1>0, <1>1, CountersNat DEF CallType
  <2> QED
    BY <1>0, <2>1, <2>2, <2>4, InnerFrame DEF TypeOK
<1>5. CASE i > 1
  <2> DEFINE session ==
        IF Acquisitions[i] \in Resources
          THEN [reached EXCEPT !.owns = @ \cup {Acquisitions[i]},
                               !.acquired = Append(@, Acquisitions[i])]
          ELSE reached
      new == [call[t] EXCEPT !.step = i + 1]
  <2>1. heap' = [heap EXCEPT ![a] = session] /\ call' = [call EXCEPT ![t] = new]
    BY <1>5 DEF Acquire, TypeOK
  <2>2. Acquisitions[i] \in Resources =>
          Append(reached.acquired, Acquisitions[i]) \in Seq(Resources)
    BY <1>3 DEF SessionType
  <2>3. session \in SessionType /\ session.state \notin Gone /\ session.owner = t
    BY <1>3, <2>2 DEF SessionType
  <2>4. new \in CallType /\ new.pc = "acquire" /\ new.session = a
    BY <1>1, <1>2 DEF CallType
  <2> QED
    BY <1>0, <2>1, <2>3, <2>4, InnerFrame DEF TypeOK
<1> QED
  BY <1>2, <1>4, <1>5

LEMMA AcquireFailsInv == ASSUME IInv, NEW t \in Threads, AcquireFails(t) PROVE IInv'
<1> DEFINE a == This(t)
           session == [heap[a] EXCEPT !.state = "cleaning", !.first_error = "injected_failure"]
           new == [call[t] EXCEPT !.pc = "cleanup"]
<1>0. /\ TypeOK /\ At(t, "acquire") /\ "acquire" \in Places /\ UNCHANGED <<leases, retired, users>>
  BY DEF IInv, AcquireFails, Places
<1>1. /\ call[t] \in CallType /\ a \in Addresses /\ call[t].session = a
      /\ heap[a] \in SessionType /\ heap[a].state \notin Gone
      /\ heap[a].owner = t /\ call[t].pc = "acquire"
  BY <1>0, InsideFacts
<1>2. heap' = [heap EXCEPT ![a] = session] /\ call' = [call EXCEPT ![t] = new]
  BY <1>0, <1>1 DEF AcquireFails, TypeOK, CallType, SessionType
<1>3. session \in SessionType /\ session.state \notin Gone /\ session.owner = t
  BY <1>1, StateFacts DEF SessionType
<1>4. new \in CallType /\ (new = Idle \/ (new.pc # "idle" /\ new.session = a))
  BY <1>0, <1>1, CountersNat, IdleType DEF CallType, Places
<1> QED
  BY <1>0, <1>2, <1>3, <1>4, InnerFrame DEF TypeOK

LEMMA FinishInv == ASSUME IInv, NEW t \in Threads, Finish(t) PROVE IInv'
<1> DEFINE a == This(t)
           session == [heap[a] EXCEPT !.state = "cleaning"]
           new == [call[t] EXCEPT !.pc = "cleanup"]
<1>0. /\ TypeOK /\ At(t, "acquire") /\ "acquire" \in Places /\ UNCHANGED <<leases, retired, users>>
  BY DEF IInv, Finish, Places
<1>1. /\ call[t] \in CallType /\ a \in Addresses /\ call[t].session = a
      /\ heap[a] \in SessionType /\ heap[a].state \notin Gone
      /\ heap[a].owner = t /\ call[t].pc = "acquire"
  BY <1>0, InsideFacts
<1>2. heap' = [heap EXCEPT ![a] = session] /\ call' = [call EXCEPT ![t] = new]
  BY <1>0, <1>1 DEF Finish, TypeOK, CallType, SessionType
<1>3. session \in SessionType /\ session.state \notin Gone /\ session.owner = t
  BY <1>1, StateFacts DEF SessionType
<1>4. new \in CallType /\ (new = Idle \/ (new.pc # "idle" /\ new.session = a))
  BY <1>0, <1>1, CountersNat, IdleType DEF CallType, Places
<1> QED
  BY <1>0, <1>2, <1>3, <1>4, InnerFrame DEF TypeOK

LEMMA CleanedInv == ASSUME IInv, NEW t \in Threads, Cleaned(t) PROVE IInv'
<1> DEFINE a == This(t)
           session == [heap[a] EXCEPT !.state = StateCleaned(t)]
           new == IF call[t].op = "destroy" THEN [call[t] EXCEPT !.pc = "remember"] ELSE Idle
<1>0. /\ TypeOK /\ At(t, "cleanup") /\ "cleanup" \in Places /\ UNCHANGED <<leases, retired, users>>
  BY DEF IInv, Cleaned, Places
<1>1. /\ call[t] \in CallType /\ a \in Addresses /\ call[t].session = a
      /\ heap[a] \in SessionType /\ heap[a].state \notin Gone
      /\ heap[a].owner = t /\ call[t].pc = "cleanup"
  BY <1>0, InsideFacts
<1>2. heap' = [heap EXCEPT ![a] = session] /\ call' = [call EXCEPT ![t] = new]
  BY <1>0, <1>1 DEF Cleaned, TypeOK, CallType, SessionType
<1>3. session \in SessionType /\ session.state \notin Gone /\ session.owner = t
  BY <1>1, StateFacts DEF SessionType, StateCleaned
<1>4. new \in CallType /\ (new = Idle \/ (new.pc # "idle" /\ new.session = a))
  <2>1. /\ [call[t] EXCEPT !.pc = "remember"] \in CallType
        /\ [call[t] EXCEPT !.pc = "remember"].pc = "remember"
        /\ [call[t] EXCEPT !.pc = "remember"].session = a
    BY <1>1 DEF CallType, Places
  <2>2. CASE call[t].op = "destroy"
    <3>1. new = [call[t] EXCEPT !.pc = "remember"]
      BY <2>2
    <3> QED
      BY <2>1, <3>1
  <2>3. CASE call[t].op # "destroy"
    <3>1. new = Idle
      BY <2>3
    <3> HIDE DEF new
    <3> QED
      BY <3>1, IdleType
  <2> QED
    BY <2>2, <2>3
<1> QED
  BY <1>0, <1>2, <1>3, <1>4, InnerFrame DEF TypeOK

LEMMA WrappedType == \A n \in Int : Wrapped(n) \in 0..(LeaseModulus - 1)
BY ParametersAssumption DEF Wrapped

LEMMA CountTakenInv == ASSUME IInv, NEW t \in Threads, CountTaken(t) PROVE IInv'
<1> DEFINE a == This(t)
           taken == [call[t] EXCEPT !.pc = "acquire", !.step = 2, !.read = 0]
           ready == [heap[a] EXCEPT !.state = "runtime_ready"]
<1>0. /\ TypeOK /\ At(t, "lease_taken") /\ "lease_taken" \in Places
      /\ UNCHANGED <<retired, users>>
  BY DEF IInv, CountTaken, Places
<1>1. /\ call[t] \in CallType /\ a \in Addresses /\ call[t].session = a
      /\ heap[a] \in SessionType /\ heap[a].state \notin Gone
      /\ heap[a].owner = t /\ call[t].pc = "lease_taken"
  BY <1>0, InsideFacts
<1>2. leases' \in 0..(LeaseModulus - 1)
  <2>1. call[t].read + 1 \in Int
    BY <1>1 DEF CallType
  <2> QED
    BY <2>1, WrappedType DEF CountTaken
<1>3. CASE call[t].op = "run_model"
  <2>1. heap' = [heap EXCEPT ![a] = heap[a]] /\ call' = [call EXCEPT ![t] = taken]
    BY <1>0, <1>1, <1>3 DEF CountTaken, TypeOK, CallType
  <2>2. taken \in CallType
    <3>1. "acquire" \in Places /\ 2 \in 0..10 /\ 0 \in Nat
      BY DEF Places
    <3> QED
      BY <1>1, <3>1 DEF CallType
  <2>3. taken.pc = "acquire" /\ taken.session = a
    BY <1>1 DEF CallType
  <2> HIDE DEF taken
  <2> QED
    BY <1>0, <1>1, <1>2, <2>1, <2>2, <2>3, InnerFrame
<1>4. CASE call[t].op # "run_model"
  <2>1. heap' = [heap EXCEPT ![a] = ready] /\ call' = [call EXCEPT ![t] = Idle]
    BY <1>0, <1>1, <1>4 DEF CountTaken, TypeOK, SessionType
  <2>2. ready \in SessionType /\ ready.state \notin Gone /\ ready.owner = t
    BY <1>1, StateFacts DEF SessionType
  <2>3. "lease_taken" # "idle" /\ Idle \in CallType
    BY IdleType
  <2>4. heap' = [heap EXCEPT ![This(t)] = ready]
    BY <2>1
  <2> HIDE DEF ready, a
  <2> QED
    BY <1>0, <1>2, <2>1, <2>2, <2>3, <2>4, InnerFrame
<1> QED
  BY <1>3, <1>4

LEMMA GiveBackInv == ASSUME IInv, NEW t \in Threads, GiveBack(t) PROVE IInv'
<1> DEFINE a == This(t)
<1>0. /\ TypeOK /\ At(t, "cleanup") /\ "cleanup" \in Places
      /\ UNCHANGED <<leases, retired, users>>
  BY DEF IInv, GiveBack, Places
<1>1. /\ call[t] \in CallType /\ a \in Addresses /\ call[t].session = a
      /\ heap[a] \in SessionType /\ heap[a].state \notin Gone
      /\ heap[a].owner = t /\ call[t].pc = "cleanup"
  BY <1>0, InsideFacts
<1> DEFINE errors(r) ==
             IF call[t].failure = [phase |-> "cleanup", at |-> r]
               THEN heap[a].cleanup_errors + 1 ELSE heap[a].cleanup_errors
           session(r) ==
             [heap[a] EXCEPT !.owns = @ \ {r}, !.cleanup = Append(@, r),
                             !.cleanup_errors = errors(r)]
           dropped == [call[t] EXCEPT !.pc = "lease_dropped", !.read = leases]
<1>2. PICK r \in Resources :
        /\ heap' = [heap EXCEPT ![a] = session(r)]
        /\ call' = [call EXCEPT ![t] = dropped] \/ call' = [call EXCEPT ![t] = call[t]]
  <2>1. PICK i \in 1..7 :
          /\ heap' = [heap EXCEPT
               ![a].owns = @ \ {CleanupOrder[i]},
               ![a].cleanup = Append(@, CleanupOrder[i]),
               ![a].cleanup_errors =
                 IF call[t].failure = [phase |-> "cleanup", at |-> CleanupOrder[i]]
                   THEN @ + 1 ELSE @]
          /\ call' = IF CountsBack(CleanupOrder[i])
                       THEN [call EXCEPT ![t].pc = "lease_dropped", ![t].read = leases]
                       ELSE call
    BY SequenceFacts DEF GiveBack
  <2>2. CleanupOrder[i] \in Resources
    BY SequenceFacts
  <2>3. heap' = [heap EXCEPT ![a] = session(CleanupOrder[i])]
    BY <1>0, <1>1, <2>1 DEF TypeOK, SessionType
  <2>4. \/ call' = [call EXCEPT ![t] = dropped]
        \/ call' = [call EXCEPT ![t] = call[t]]
    BY <1>0, <1>1, <2>1 DEF TypeOK, CallType
  <2> QED
    BY <2>2, <2>3, <2>4
<1>3. session(r) \in SessionType /\ session(r).state \notin Gone /\ session(r).owner = t
  <2>1. Append(heap[a].cleanup, r) \in Seq(Resources)
    BY <1>1 DEF SessionType
  <2>2. errors(r) \in Nat
    BY <1>1 DEF SessionType
  <2>3. heap[a].owns \ {r} \in SUBSET Resources
    BY <1>1 DEF SessionType
  <2> HIDE DEF errors
  <2> QED
    BY <1>1, <2>1, <2>2, <2>3 DEF SessionType
<1>4. dropped \in CallType /\ dropped.pc = "lease_dropped" /\ dropped.session = a
  BY <1>0, <1>1, CountersNat DEF CallType, Places
<1> HIDE DEF session, dropped, a
<1>5. CASE call' = [call EXCEPT ![t] = dropped]
  BY <1>0, <1>2, <1>3, <1>4, <1>5, InnerFrame DEF TypeOK, a
<1>6. CASE call' = [call EXCEPT ![t] = call[t]]
  BY <1>0, <1>1, <1>2, <1>3, <1>6, InnerFrame DEF TypeOK, a
<1> QED
  BY <1>2, <1>5, <1>6

LEMMA CountDroppedInv == ASSUME IInv, NEW t \in Threads, CountDropped(t) PROVE IInv'
<1> DEFINE a == This(t)
           new == [call[t] EXCEPT !.pc = "cleanup", !.read = 0]
<1>0. /\ TypeOK /\ At(t, "lease_dropped") /\ "lease_dropped" \in Places
      /\ UNCHANGED <<heap, retired, users>>
  BY DEF IInv, CountDropped, Places
<1>1. /\ call[t] \in CallType /\ a \in Addresses /\ call[t].session = a
      /\ heap[a] \in SessionType /\ heap[a].state \notin Gone
      /\ heap[a].owner = t /\ call[t].pc = "lease_dropped"
  BY <1>0, InsideFacts
<1>2. leases' \in 0..(LeaseModulus - 1)
  <2>1. call[t].read - 1 \in Int
    BY <1>1 DEF CallType
  <2> QED
    BY <2>1, WrappedType DEF CountDropped
<1>3. heap' = [heap EXCEPT ![a] = heap[a]] /\ call' = [call EXCEPT ![t] = new]
  BY <1>0, <1>1 DEF CountDropped, TypeOK, CallType
<1>4. new \in CallType /\ new.pc = "cleanup" /\ new.session = a
  BY <1>1 DEF CallType, Places
<1> QED
  BY <1>0, <1>1, <1>2, <1>3, <1>4, InnerFrame

LEMMA RememberInv == ASSUME IInv, NEW t \in Threads, Remember(t) PROVE IInv'
<1> DEFINE a == This(t)
           new(i) == [call[t] EXCEPT !.pc = "delete", !.read = i]
<1>0. /\ TypeOK /\ At(t, "remember") /\ "remember" \in Places
      /\ UNCHANGED <<heap, leases, retired, users>>
  BY DEF IInv, Remember, Places
<1>1. /\ call[t] \in CallType /\ a \in Addresses /\ call[t].session = a
      /\ heap[a] \in SessionType /\ heap[a].state \notin Gone
      /\ heap[a].owner = t /\ call[t].pc = "remember"
  BY <1>0, InsideFacts
<1>2. PICK i \in Nat : call' = [call EXCEPT ![t] = new(i)]
  <2>1. PICK i \in DOMAIN retired :
          call' = [call EXCEPT ![t].pc = "delete", ![t].read = i]
    BY DEF Remember
  <2>2. i \in Nat
    BY <1>0, <2>1, ParametersAssumption DEF TypeOK
  <2>3. call' = [call EXCEPT ![t] = new(i)]
    BY <1>0, <1>1, <2>1 DEF TypeOK, CallType
  <2> QED
    BY <2>2, <2>3
<1>3. heap' = [heap EXCEPT ![a] = heap[a]]
  BY <1>0, <1>1 DEF TypeOK
<1>4. new(i) \in CallType /\ new(i).pc = "delete" /\ new(i).session = a
  BY <1>1, <1>2 DEF CallType, Places
<1> QED
  BY <1>0, <1>1, <1>2, <1>3, <1>4, InnerFrame DEF TypeOK

LEMMA DeleteInv == ASSUME IInv, NEW t \in Threads, Delete(t) PROVE IInv'
<1> DEFINE a == This(t)
<1>0. TypeOK /\ CallInv /\ At(t, "delete") /\ "delete" \in Places
  BY DEF IInv, Delete, Places
<1>1. a \in Addresses /\ heap[a].owner = t
  BY <1>0, InsideFacts
<1>2. Session("freed", "none") \in SessionType
  BY SessionTypes DEF Gone
<1>3. retired' \in [1..RetiredSlots -> Addresses \cup {NoAddress}]
  BY <1>0, <1>1 DEF Delete, TypeOK
<1>4. TypeOK'
  BY <1>0, <1>1, <1>2, <1>3, IdleType DEF Delete, TypeOK
<1>5. OwnCall(t)'
  BY <1>0, IdleType DEF Delete, OwnCall, TypeOK
<1>6. /\ \A b \in Addresses \ {a} : heap'[b] = heap[b]
      /\ \A u \in Threads \ {t} : call'[u] = call[u]
  BY <1>0 DEF Delete, TypeOK
<1>7. CallInv'
  BY <1>0, <1>1, <1>5, <1>6, Frame
<1> QED
  BY <1>4, <1>7 DEF IInv

LEMMA StutterInv == IInv /\ UNCHANGED vars => IInv'
BY DEF IInv, TypeOK, CallInv, OwnCall, This, vars

LEMMA NextInv == IInv /\ [Next]_vars => IInv'
<1> SUFFICES ASSUME IInv, Next PROVE IInv'
  BY StutterInv
<1>1. ASSUME NEW t \in Threads, CallStep(t) PROVE IInv'
  BY <1>1, CreateInv, ConfigureInv, PreflightInv, ModelAcquireLeaseInv,
     RunModelInv, ModelCleanupInv, DestroyInv DEF CallStep
<1>2. ASSUME NEW t \in Threads, InnerStep(t) PROVE IInv'
  BY <1>2, AcquireInv, AcquireFailsInv, FinishInv, CountTakenInv, GiveBackInv,
     CountDroppedInv, CleanedInv, RememberInv, DeleteInv DEF InnerStep
<1> QED
  BY <1>1, <1>2 DEF Next

THEOREM Invariance == Spec => []IInv
BY InitInv, NextInv, PTL DEF Spec

(* Every variable keeps its type; in particular the lease count stays      *)
(* within its width although concurrent updates may be lost.               *)
THEOREM TypeCorrect == Spec => []TypeOK
<1>1. IInv => TypeOK
  BY DEF IInv
<1> QED
  BY <1>1, Invariance, PTL

(* The owner check of every call is enough for no thread to free a session *)
(* or to enter it while another thread is inside a call on it.             *)
THEOREM NoSessionLostUnderCall == Spec => []SessionOutlivesCall
<1>1. IInv => SessionOutlivesCall
  <2> SUFFICES ASSUME IInv, NEW t \in Threads, call[t] # Idle
               PROVE  /\ This(t) \in Live /\ heap[This(t)].owner = t
                      /\ \A u \in Threads \ {t} : This(u) # This(t)
    BY DEF SessionOutlivesCall
  <2>1. This(t) \in Live /\ heap[This(t)].owner = t
    BY DEF IInv, CallInv, OwnCall, Live
  <2>2. ASSUME NEW u \in Threads \ {t} PROVE This(u) # This(t)
    <3>1. CASE call[u] = Idle
      BY <2>1, <3>1, IdleType, ParametersAssumption DEF Live, This
    <3>2. CASE call[u] # Idle
      BY <2>1, <3>2 DEF IInv, CallInv, OwnCall
    <3> QED
      BY <3>1, <3>2
  <2> QED
    BY <2>1, <2>2
<1> QED
  BY <1>1, Invariance, PTL

-----------------------------------------------------------------------------
(***************************************************************************)
(* A session gives back what it took, each thing once, in reverse: the     *)
(* invariant CleanupReverses of DirectSession, for any number of threads   *)
(* and sessions and for every failure point.                               *)
(*                                                                         *)
(* The trace of a session is described by two numbers: n resources taken,  *)
(* of which the last k have been given back.                               *)
(***************************************************************************)

Taken(n) == [i \in 1..n |-> Acquisitions[i]]
Given(n, k) == [i \in 1..k |-> Acquisitions[n + 1 - i]]
Held(n) == {Acquisitions[i] : i \in 1..n}

Stage(session, n, k) ==
  /\ session.acquired = Taken(n)
  /\ session.cleanup = Given(n, k)
  /\ session.owns = Held(n - k)

Early == {"created", "configured", "preflight_checked", "no_device_expected"}
Final == {"completed", "failed", "destroyed"}

TakingLease(a) == \E t \in Threads : call[t].pc = "lease_taken" /\ This(t) = a

(* Only a final session has given everything back for good, and an early   *)
(* one holds nothing yet unless it is just taking the lease.               *)
SessionInv(a) ==
  \E n \in 0..7 : \E k \in 0..n :
    /\ Stage(heap[a], n, k)
    /\ heap[a].state \in Final => k = n
    /\ heap[a].state \in Early => n = 0 \/ TakingLease(a)

(* How far the acquisition has come. *)
Reached(step) == IF step <= 7 THEN step - 1 ELSE 7

CallStage(t) ==
  /\ call[t].pc = "acquire" =>
       /\ call[t].step \in 1..10
       /\ Stage(heap[This(t)], Reached(call[t].step), 0)
       /\ heap[This(t)].state \notin Final
       /\ heap[This(t)].state \in Early => call[t].step = 1
  /\ call[t].pc = "lease_taken" =>
       /\ Stage(heap[This(t)], 1, 0)
       /\ heap[This(t)].state \notin Final
       /\ call[t].op = "run_model" => heap[This(t)].state \notin Early

CleanInv ==
  /\ \A a \in Addresses : SessionInv(a)
  /\ \A t \in Threads : CallStage(t)

-----------------------------------------------------------------------------
(* The sequences. *)

LEMMA OrderFacts ==
  /\ \A i \in 1..7 : Acquisitions[i] \in Resources /\ CleanupOrder[i] = Acquisitions[8 - i]
  /\ \A i, j \in 1..7 : Acquisitions[i] = Acquisitions[j] => i = j
  /\ Acquisitions[1] = "runtime_lease"
  /\ Acquisitions[8] \notin Resources /\ Acquisitions[9] \notin Resources
<1>1. \A i \in 1..7 : i = 1 \/ i = 2 \/ i = 3 \/ i = 4 \/ i = 5 \/ i = 6 \/ i = 7
  OBVIOUS
<1>2. Resources = {"recv_buffer", "send_buffer", "comm", "stream", "context",
                   "device", "runtime_lease"}
  BY SequenceFacts, <1>1 DEF Resources, CleanupOrder
<1>3. \A i \in 1..7 : Acquisitions[i] \in Resources /\ CleanupOrder[i] = Acquisitions[8 - i]
  BY <1>1, <1>2 DEF Acquisitions, CleanupOrder
<1>4. \A i, j \in 1..7 : Acquisitions[i] = Acquisitions[j] => i = j
  BY <1>1 DEF Acquisitions
<1>5. /\ Acquisitions[1] = "runtime_lease"
      /\ Acquisitions[8] \notin Resources /\ Acquisitions[9] \notin Resources
  BY <1>2 DEF Acquisitions
<1> QED
  BY <1>3, <1>4, <1>5

LEMMA EmptyStage ==
  /\ Taken(0) = <<>> /\ Held(0) = {}
  /\ \A n \in 0..7 : Given(n, 0) = <<>>
BY DEF Taken, Given, Held

LEMMA TakenGrows ==
  ASSUME NEW n \in 0..6
  PROVE  /\ Append(Taken(n), Acquisitions[n + 1]) = Taken(n + 1)
         /\ Held(n) \cup {Acquisitions[n + 1]} = Held(n + 1)
<1>1. Append(Taken(n), Acquisitions[n + 1]) = Taken(n + 1)
  BY DEF Taken
<1>2. Held(n) \cup {Acquisitions[n + 1]} = Held(n + 1)
  BY DEF Held
<1> QED
  BY <1>1, <1>2

LEMMA GivenGrows ==
  ASSUME NEW n \in 1..7, NEW k \in 0..(n - 1)
  PROVE  /\ Append(Given(n, k), Acquisitions[n - k]) = Given(n, k + 1)
         /\ Held(n - k) \ {Acquisitions[n - k]} = Held(n - (k + 1))
<1>1. Append(Given(n, k), Acquisitions[n - k]) = Given(n, k + 1)
  BY DEF Given
<1>2. Held(n - k) \ {Acquisitions[n - k]} = Held(n - (k + 1))
  BY OrderFacts DEF Held
<1> QED
  BY <1>1, <1>2

LEMMA HeldFacts ==
  ASSUME NEW m \in 0..7
  PROVE  /\ Held(m) = {} => m = 0
         /\ \A i \in 1..7 :
              CleanupOrder[i] \in Held(m) /\ (\A j \in 1..(i - 1) : CleanupOrder[j] \notin Held(m))
                => m >= 1 /\ CleanupOrder[i] = Acquisitions[m]
<1>1. Held(m) = {} => m = 0
  <2>1. m >= 1 => Acquisitions[1] \in Held(m)
    BY DEF Held
  <2> QED
    BY <2>1
<1>2. ASSUME NEW i \in 1..7, CleanupOrder[i] \in Held(m),
             \A j \in 1..(i - 1) : CleanupOrder[j] \notin Held(m)
      PROVE  m >= 1 /\ CleanupOrder[i] = Acquisitions[m]
  <2>1. PICK p \in 1..m : CleanupOrder[i] = Acquisitions[p]
    BY <1>2 DEF Held
  <2>2. p = 8 - i
    BY <2>1, OrderFacts
  <2>3. CASE p < m
    <3>1. 8 - m \in 1..(i - 1) /\ CleanupOrder[8 - m] = Acquisitions[m]
      BY <2>2, <2>3, OrderFacts
    <3>2. Acquisitions[m] \in Held(m)
      BY <2>1 DEF Held
    <3> QED
      BY <1>2, <3>1, <3>2
  <2> QED
    BY <2>1, <2>3
<1> QED
  BY <1>1, <1>2

LEMMA ReversedTaken == \A n \in 0..7 : Reversed(Taken(n)) = Given(n, n)
<1> TAKE n \in 0..7
<1>1. DOMAIN Taken(n) = 1..n /\ Len(Taken(n)) = n
  BY DEF Taken
<1>2. \A i \in 1..n : Taken(n)[n + 1 - i] = Acquisitions[n + 1 - i]
  BY DEF Taken
<1> QED
  BY <1>1, <1>2 DEF Reversed, Given

-----------------------------------------------------------------------------
(* The invariant. *)

(* A thread at rest is in no session's way; one in a call is alone there.  *)
LEMMA Alone ==
  ASSUME IInv, NEW t \in Threads, NEW a \in Addresses,
         heap[a].state \notin Gone => heap[a].owner = t,
         NEW u \in Threads \ {t}
  PROVE  call[u].pc # "idle" => This(u) # a /\ This(u) \in Addresses
BY DEF IInv, CallInv, OwnCall

LEMMA CleanInit == Init => CleanInv
<1> SUFFICES ASSUME Init PROVE CleanInv
  OBVIOUS
<1>1. ASSUME NEW a \in Addresses PROVE SessionInv(a)
  <2>1. Stage(heap[a], 0, 0) /\ heap[a].state = "unallocated"
    <3>1. heap[a] = Session("unallocated", "none")
      BY DEF Init
    <3> QED
      BY <3>1, EmptyStage DEF Session, Stage
  <2>2. "unallocated" \notin Early \cup Final
    BY DEF Early, Final
  <2> QED
    BY <2>1, <2>2 DEF SessionInv
<1>2. ASSUME NEW t \in Threads PROVE CallStage(t)
  BY IdleType DEF Init, CallStage
<1> QED
  BY <1>1, <1>2 DEF CleanInv

(* A step of thread t on the session at a leaves the others as they were.  *)
LEMMA CleanFrame ==
  ASSUME IInv, CleanInv, NEW t \in Threads, NEW a \in Addresses,
         heap[a].state \notin Gone => heap[a].owner = t,
         call[t].pc = "idle" \/ This(t) = a,
         \A b \in Addresses \ {a} : heap'[b] = heap[b],
         \A u \in Threads \ {t} : call'[u] = call[u],
         SessionInv(a)', CallStage(t)'
  PROVE  CleanInv'
<1>1. ASSUME NEW b \in Addresses \ {a} PROVE SessionInv(b)'
  <2>1. PICK n \in 0..7 : \E k \in 0..n :
          /\ Stage(heap[b], n, k)
          /\ heap[b].state \in Final => k = n
          /\ heap[b].state \in Early => n = 0 \/ TakingLease(b)
    BY DEF CleanInv, SessionInv
  <2>2. TakingLease(b) => TakingLease(b)'
    BY DEF TakingLease, This
  <2>3. heap'[b] = heap[b]
    OBVIOUS
  <2> QED
    BY <2>1, <2>2, <2>3 DEF SessionInv
<1>2. ASSUME NEW u \in Threads \ {t} PROVE CallStage(u)'
  <2>1. CallStage(u) /\ call'[u] = call[u] /\ This(u)' = This(u)
    BY DEF CleanInv, This
  <2>2. call[u].pc # "idle" => heap'[This(u)] = heap[This(u)]
    BY Alone
  <2> QED
    BY <2>1, <2>2 DEF CallStage
<1> QED
  BY <1>1, <1>2 DEF CleanInv

(* What the invariant says of the session a call may begin on. *)
LEMMA EarlyFacts ==
  ASSUME IInv, CleanInv, NEW t \in Threads, NEW a \in Addresses, Calls(t, a)
  PROVE  /\ call[t] = Idle /\ call[t].pc = "idle" /\ ~ TakingLease(a)
         /\ heap[a] \in SessionType /\ heap[a].owner = t
         /\ heap[a].state \in Early => Stage(heap[a], 0, 0)
<1>1. /\ call[t] = Idle /\ call[t].pc = "idle"
      /\ heap[a] \in SessionType /\ heap[a].owner = t
  BY CallsFacts, IdleType
<1>2. ~ TakingLease(a)
  BY <1>1, Alone DEF TakingLease
<1> QED
  BY <1>1, <1>2 DEF CleanInv, SessionInv

LEMMA CreateClean ==
  ASSUME IInv, CleanInv, NEW t \in Threads, NEW a \in Addresses, Create(t, a)
  PROVE  CleanInv'
<1>1. call[t] = Idle /\ call' = call /\ heap[a].state \in Gone
  BY DEF Create, Live
<1>2. heap'[a] = Session("created", t) /\ \A b \in Addresses \ {a} : heap'[b] = heap[b]
  BY DEF Create, IInv, TypeOK
<1>3. SessionInv(a)'
  <2>1. Stage(heap'[a], 0, 0) /\ heap'[a].state = "created"
    BY <1>2, EmptyStage DEF Session, Stage
  <2>2. "created" \notin Final
    BY DEF Final
  <2> QED
    BY <2>1, <2>2 DEF SessionInv
<1>4. CallStage(t)'
  BY <1>1, IdleType DEF CallStage
<1> QED
  BY <1>1, <1>2, <1>3, <1>4, IdleType, CleanFrame

(* A call begins or a step is made that gives nothing and takes nothing.   *)
LEMMA KeepsStage ==
  ASSUME CleanInv, NEW a \in Addresses,
         heap'[a].acquired = heap[a].acquired,
         heap'[a].cleanup = heap[a].cleanup,
         heap'[a].owns = heap[a].owns,
         \/ heap'[a].state = "cleaning"
         \/ /\ heap'[a].state = heap[a].state
            /\ TakingLease(a) => TakingLease(a)'
         \/ /\ heap[a].state \in Early /\ heap'[a].state \in Early
            /\ ~ TakingLease(a)
  PROVE  SessionInv(a)'
<1>0. PICK n \in 0..7 : \E k \in 0..n :
        /\ Stage(heap[a], n, k)
        /\ heap[a].state \in Final => k = n
        /\ heap[a].state \in Early => n = 0 \/ TakingLease(a)
  BY DEF CleanInv, SessionInv
<1>1. PICK k \in 0..n :
        /\ Stage(heap[a], n, k)
        /\ heap[a].state \in Final => k = n
        /\ heap[a].state \in Early => n = 0 \/ TakingLease(a)
  BY <1>0
<1>2. Stage(heap'[a], n, k)
  BY <1>1 DEF Stage
<1>3. "cleaning" \notin Early \cup Final /\ Early \cap Final = {}
  BY DEF Early, Final
<1>4. heap'[a].state \in Final => k = n
  BY <1>1, <1>3
<1>5. heap'[a].state \in Early => n = 0 \/ TakingLease(a)'
  BY <1>1, <1>3
<1> QED
  BY <1>2, <1>4, <1>5 DEF SessionInv

LEMMA ConfigureClean ==
  ASSUME IInv, CleanInv, NEW t \in Threads, NEW a \in Addresses,
         Configure(t, a) \/ Preflight(t, a)
  PROVE  CleanInv'
<1>1. /\ call[t].pc = "idle" /\ ~ TakingLease(a)
      /\ heap[a] \in SessionType /\ heap[a].owner = t /\ call' = call
  BY EarlyFacts DEF Configure, Preflight
<1>2. /\ heap'[a].acquired = heap[a].acquired /\ heap'[a].cleanup = heap[a].cleanup
      /\ heap'[a].owns = heap[a].owns
      /\ heap[a].state \in Early /\ heap'[a].state \in Early
      /\ \A b \in Addresses \ {a} : heap'[b] = heap[b]
  BY <1>1 DEF Configure, Preflight, Early, SessionType, IInv, TypeOK
<1>3. SessionInv(a)'
  BY <1>1, <1>2, KeepsStage
<1>4. CallStage(t)'
  BY <1>1 DEF CallStage
<1> QED
  BY <1>1, <1>2, <1>3, <1>4, CleanFrame

LEMMA TakesFirst ==
  ASSUME NEW session \in SessionType, Stage(session, 0, 0)
  PROVE  Stage(TakesLease(session), 1, 0)
<1>1. Append(Taken(0), "runtime_lease") = Taken(1) /\ Held(0) \cup {"runtime_lease"} = Held(1)
  BY TakenGrows, OrderFacts
<1>2. Given(0, 0) = Given(1, 0)
  BY EmptyStage
<1>3. /\ TakesLease(session).owns = session.owns \cup {"runtime_lease"}
      /\ TakesLease(session).acquired = Append(session.acquired, "runtime_lease")
      /\ TakesLease(session).cleanup = session.cleanup
  BY DEF TakesLease, SessionType
<1> QED
  BY <1>1, <1>2, <1>3 DEF Stage

LEMMA ModelAcquireLeaseClean ==
  ASSUME IInv, CleanInv, NEW t \in Threads, NEW a \in Addresses, ModelAcquireLease(t, a)
  PROVE  CleanInv'
<1>1. Calls(t, a) /\ heap[a].state = "no_device_expected"
  BY DEF ModelAcquireLease, Runnable
<1>2. "no_device_expected" \in Early /\ "no_device_expected" \notin Final
  BY DEF Early, Final
<1>3. /\ call[t].pc = "idle" /\ heap[a] \in SessionType
      /\ heap[a].owner = t /\ Stage(heap[a], 0, 0)
  BY <1>1, <1>2, EarlyFacts
<1>4. /\ heap' = [heap EXCEPT ![a] = TakesLease(heap[a])]
      /\ call' = [call EXCEPT ![t] =
           Inside("lease_taken", a, "model_acquire_lease", NoFailure, leases)]
  BY DEF ModelAcquireLease
<1>5. heap'[a] = TakesLease(heap[a]) /\ \A b \in Addresses \ {a} : heap'[b] = heap[b]
  BY <1>4 DEF IInv, TypeOK
<1>6. /\ call'[t].pc = "lease_taken" /\ call'[t].session = a
      /\ call'[t].op = "model_acquire_lease"
      /\ \A u \in Threads \ {t} : call'[u] = call[u]
  BY <1>4 DEF IInv, TypeOK, Inside
<1>7. Stage(heap'[a], 1, 0) /\ heap'[a].state = "no_device_expected"
  BY <1>1, <1>3, <1>5, TakesFirst, TakesLeaseType
<1>8. SessionInv(a)'
  BY <1>2, <1>6, <1>7 DEF SessionInv, TakingLease, This
<1>9. CallStage(t)'
  BY <1>2, <1>6, <1>7 DEF CallStage, This
<1> QED
  BY <1>3, <1>5, <1>6, <1>8, <1>9, CleanFrame

LEMMA RunModelClean ==
  ASSUME IInv, CleanInv, NEW t \in Threads, NEW a \in Addresses, RunModel(t, a)
  PROVE  CleanInv'
<1>1. Calls(t, a) /\ heap[a].state = "no_device_expected"
  BY DEF RunModel, Runnable
<1>2. "no_device_expected" \in Early /\ "no_device_expected" \notin Final
  BY DEF Early, Final
<1>3. /\ call[t].pc = "idle" /\ heap[a] \in SessionType
      /\ heap[a].owner = t /\ Stage(heap[a], 0, 0)
  BY <1>1, <1>2, EarlyFacts
<1>4. heap' = [heap EXCEPT ![a].cleanup = <<>>, ![a].cleanup_errors = 0,
                           ![a].first_error = "success"]
  BY DEF RunModel
<1>5. /\ heap'[a].acquired = heap[a].acquired /\ heap'[a].owns = heap[a].owns
      /\ heap'[a].cleanup = <<>> /\ heap'[a].state = heap[a].state
      /\ \A b \in Addresses \ {a} : heap'[b] = heap[b]
  BY <1>3, <1>4 DEF IInv, TypeOK, SessionType
<1>6. /\ call'[t].pc = "acquire" /\ call'[t].session = a /\ call'[t].step = 1
      /\ \A u \in Threads \ {t} : call'[u] = call[u]
  BY DEF RunModel, IInv, TypeOK, Inside
<1>7. Stage(heap'[a], 0, 0)
  BY <1>3, <1>5, EmptyStage DEF Stage
<1>8. SessionInv(a)'
  BY <1>1, <1>2, <1>5, <1>7 DEF SessionInv
<1>9. CallStage(t)'
  BY <1>1, <1>2, <1>5, <1>6, <1>7 DEF CallStage, This, Reached
<1> QED
  BY <1>3, <1>5, <1>6, <1>8, <1>9, CleanFrame

(* Destroying a session and cleaning it up begin alike. *)
LEMMA CleanupBegins ==
  ASSUME IInv, CleanInv, NEW t \in Threads, NEW a \in Addresses,
         ModelCleanup(t, a) \/ Destroy(t, a)
  PROVE  CleanInv'
<1>1. /\ call[t].pc = "idle" /\ ~ TakingLease(a)
      /\ heap[a] \in SessionType /\ heap[a].owner = t
  BY EarlyFacts DEF ModelCleanup, Destroy
<1>2. /\ heap'[a].acquired = heap[a].acquired /\ heap'[a].cleanup = heap[a].cleanup
      /\ heap'[a].owns = heap[a].owns
      /\ heap'[a].state = heap[a].state \/ heap'[a].state = "cleaning"
      /\ \A b \in Addresses \ {a} : heap'[b] = heap[b]
  BY <1>1 DEF ModelCleanup, Destroy, SessionType, IInv, TypeOK
<1>3. call'[t].pc = "cleanup" /\ \A u \in Threads \ {t} : call'[u] = call[u]
  BY DEF ModelCleanup, Destroy, IInv, TypeOK, Inside
<1>4. SessionInv(a)'
  BY <1>1, <1>2, KeepsStage
<1>5. CallStage(t)'
  BY <1>3 DEF CallStage
<1> QED
  BY <1>1, <1>2, <1>3, <1>4, <1>5, CleanFrame

(* Acquisition. *)
LEMMA AcquireClean ==
  ASSUME IInv, CleanInv, NEW t \in Threads, Acquire(t) PROVE CleanInv'
<1>1. At(t, "acquire") /\ "acquire" \in Places
  BY DEF Acquire, Places
<1>0. PICK a \in Addresses : This(t) = a
  BY <1>1, InsideFacts
<1> USE <1>0
<1> DEFINE i == call[t].step
           reached == [heap[a] EXCEPT !.state = StateAfter[i]]
<1>2. /\ a \in Addresses /\ heap[a] \in SessionType
      /\ heap[a].owner = t /\ call[t].pc = "acquire" /\ call[t].session = a
      /\ call[t] \in CallType
  BY <1>1, InsideFacts
<1>3. /\ i \in 1..10 /\ Stage(heap[a], Reached(i), 0)
  BY <1>2 DEF CleanInv, CallStage
<1>4. i \in 1..9
  <2>1. i <= 9
    BY SequenceFacts DEF Acquire
  <2> QED
    BY <1>3, <2>1
<1>5. StateAfter[i] \notin Early /\ StateAfter[i] \notin Final
  <2>1. i = 1 \/ i = 2 \/ i = 3 \/ i = 4 \/ i = 5 \/ i = 6 \/ i = 7 \/ i = 8 \/ i = 9
    BY <1>4
  <2> QED
    BY <2>1 DEF StateAfter, Early, Final
<1>6. /\ reached \in SessionType /\ reached.state = StateAfter[i]
      /\ reached.owns = heap[a].owns /\ reached.acquired = heap[a].acquired
      /\ reached.cleanup = heap[a].cleanup /\ Stage(reached, Reached(i), 0)
  <2>1. reached \in SessionType
    BY <1>2, <1>4, SequenceFacts DEF SessionType
  <2>2. /\ reached.state = StateAfter[i]
        /\ reached.owns = heap[a].owns /\ reached.acquired = heap[a].acquired
        /\ reached.cleanup = heap[a].cleanup
    BY <1>2 DEF SessionType
  <2> QED
    BY <1>3, <2>1, <2>2 DEF Stage
<1>7. /\ \A b \in Addresses \ {a} : heap'[b] = heap[b]
      /\ \A u \in Threads \ {t} : call'[u] = call[u]
  BY DEF Acquire, IInv, TypeOK
<1> HIDE DEF reached
<1>8. CASE i = 1
  <2>1. Stage(reached, 0, 0)
    BY <1>6, <1>8 DEF Reached
  <2>2. heap'[a] = TakesLease(reached)
    BY <1>2, <1>8 DEF Acquire, IInv, TypeOK, reached
  <2>3. Stage(heap'[a], 1, 0) /\ heap'[a].state = StateAfter[i]
    BY <1>6, <2>1, <2>2, TakesFirst, TakesLeaseType
  <2>4. call'[t].pc = "lease_taken" /\ call'[t].session = a
    BY <1>2, <1>8 DEF Acquire, IInv, TypeOK, CallType
  <2>5. SessionInv(a)'
    BY <1>5, <2>3 DEF SessionInv
  <2>6. CallStage(t)'
    BY <1>5, <2>3, <2>4 DEF CallStage, This
  <2> QED
    BY <1>2, <1>7, <2>5, <2>6, CleanFrame
<1>9. CASE i > 1
  <2>1. heap'[a] = IF Acquisitions[i] \in Resources
                     THEN [reached EXCEPT !.owns = @ \cup {Acquisitions[i]},
                                          !.acquired = Append(@, Acquisitions[i])]
                     ELSE reached
    BY <1>2, <1>9 DEF Acquire, IInv, TypeOK, reached
  <2>2. call'[t].pc = "acquire" /\ call'[t].session = a /\ call'[t].step = i + 1
    BY <1>2, <1>9 DEF Acquire, IInv, TypeOK, CallType
  <2>3. Stage(heap'[a], Reached(i + 1), 0) /\ heap'[a].state = StateAfter[i]
    <3>1. CASE i <= 7
      <4>1. Acquisitions[i] \in Resources /\ i - 1 \in 0..6 /\ i - 1 + 1 = i
        BY <1>4, <3>1, OrderFacts
      <4>2. /\ Append(Taken(i - 1), Acquisitions[i]) = Taken(i)
            /\ Held(i - 1) \cup {Acquisitions[i]} = Held(i)
        BY <4>1, TakenGrows
      <4>3. /\ heap'[a].owns = reached.owns \cup {Acquisitions[i]}
            /\ heap'[a].acquired = Append(reached.acquired, Acquisitions[i])
            /\ heap'[a].cleanup = reached.cleanup /\ heap'[a].state = reached.state
        BY <1>6, <2>1, <4>1 DEF SessionType
      <4>4. Reached(i) = i - 1 /\ Reached(i + 1) = i
        BY <1>4, <3>1 DEF Reached
      <4>5. Given(i - 1, 0) = Given(i, 0) /\ i - 1 - 0 = i - 1 /\ i - 0 = i
        BY <1>4, <3>1, EmptyStage
      <4> QED
        BY <1>6, <4>2, <4>3, <4>4, <4>5 DEF Stage
    <3>2. CASE i > 7
      <4>1. i = 8 \/ i = 9
        BY <1>4, <3>2
      <4>2. heap'[a] = reached
        BY <2>1, <4>1, OrderFacts
      <4>3. Reached(i) = 7 /\ Reached(i + 1) = 7
        BY <4>1 DEF Reached
      <4> QED
        BY <1>6, <4>2, <4>3
    <3> QED
      BY <1>4, <3>1, <3>2
  <2>4. Reached(i + 1) \in 0..7 /\ i + 1 \in 1..10
    BY <1>4 DEF Reached
  <2>5. SessionInv(a)'
    BY <1>5, <2>3, <2>4 DEF SessionInv
  <2>6. CallStage(t)'
    BY <1>5, <2>2, <2>3, <2>4 DEF CallStage, This
  <2> QED
    BY <1>2, <1>7, <2>5, <2>6, CleanFrame
<1> QED
  BY <1>4, <1>8, <1>9

(* Steps that leave resources and traces alone. *)
LEMMA NeutralClean ==
  ASSUME IInv, CleanInv, NEW t \in Threads,
         AcquireFails(t) \/ Finish(t) \/ CountDropped(t) \/ Remember(t)
  PROVE  CleanInv'
<1>1. PICK pc \in {"acquire", "lease_dropped", "remember"} : At(t, pc)
  BY DEF AcquireFails, Finish, CountDropped, Remember
<1>0. PICK a \in Addresses : This(t) = a
  BY <1>1, InsideFacts DEF Places
<1> USE <1>0
<1>2. /\ a \in Addresses /\ heap[a] \in SessionType /\ heap[a].owner = t
      /\ call[t] \in CallType /\ call[t].session = a
  BY <1>1, InsideFacts DEF Places
<1>3. /\ heap'[a].acquired = heap[a].acquired /\ heap'[a].cleanup = heap[a].cleanup
      /\ heap'[a].owns = heap[a].owns
      /\ heap'[a].state = heap[a].state \/ heap'[a].state = "cleaning"
      /\ \A b \in Addresses \ {a} : heap'[b] = heap[b]
  BY <1>2 DEF AcquireFails, Finish, CountDropped, Remember, SessionType, IInv, TypeOK
<1>4. /\ call'[t].pc \in {"cleanup", "delete"} /\ call[t].pc # "lease_taken"
      /\ \A u \in Threads \ {t} : call'[u] = call[u]
  BY <1>1, <1>2 DEF AcquireFails, Finish, CountDropped, Remember, CallType, IInv, TypeOK, At
<1>5. TakingLease(a) => TakingLease(a)'
  BY <1>4 DEF TakingLease, This
<1>6. SessionInv(a)'
  BY <1>2, <1>3, <1>5, KeepsStage
<1>7. CallStage(t)'
  BY <1>4 DEF CallStage
<1> QED
  BY <1>2, <1>3, <1>4, <1>6, <1>7, CleanFrame

LEMMA CountTakenClean ==
  ASSUME IInv, CleanInv, NEW t \in Threads, CountTaken(t) PROVE CleanInv'
<1>1. At(t, "lease_taken") /\ "lease_taken" \in Places
  BY DEF CountTaken, Places
<1>0. PICK a \in Addresses : This(t) = a
  BY <1>1, InsideFacts
<1> USE <1>0
<1>2. /\ a \in Addresses /\ heap[a] \in SessionType /\ heap[a].owner = t
      /\ call[t] \in CallType /\ call[t].session = a /\ call[t].pc = "lease_taken"
  BY <1>1, InsideFacts
<1>3. /\ Stage(heap[a], 1, 0) /\ heap[a].state \notin Final
      /\ call[t].op = "run_model" => heap[a].state \notin Early
  BY <1>2 DEF CleanInv, CallStage
<1>4. /\ heap'[a].acquired = heap[a].acquired /\ heap'[a].cleanup = heap[a].cleanup
      /\ heap'[a].owns = heap[a].owns
      /\ \A b \in Addresses \ {a} : heap'[b] = heap[b]
      /\ \A u \in Threads \ {t} : call'[u] = call[u]
  BY <1>2 DEF CountTaken, SessionType, IInv, TypeOK
<1>5. Stage(heap'[a], 1, 0)
  BY <1>3, <1>4 DEF Stage
<1>6. "runtime_ready" \notin Early \cup Final
  BY DEF Early, Final
<1>7. CASE call[t].op = "run_model"
  <2>1. heap'[a] = heap[a]
    BY <1>7 DEF CountTaken
  <2>2. call'[t].pc = "acquire" /\ call'[t].session = a /\ call'[t].step = 2
    BY <1>2, <1>7 DEF CountTaken, CallType, IInv, TypeOK
  <2>3. SessionInv(a)'
    BY <1>3, <1>5, <1>7, <2>1 DEF SessionInv
  <2>4. CallStage(t)'
    BY <1>3, <1>5, <1>7, <2>1, <2>2 DEF CallStage, This, Reached
  <2> QED
    BY <1>2, <1>4, <2>3, <2>4, CleanFrame
<1>8. CASE call[t].op # "run_model"
  <2>1. heap'[a].state = "runtime_ready"
    BY <1>2, <1>8 DEF CountTaken, SessionType, IInv, TypeOK
  <2>2. call'[t].pc = "idle"
    BY <1>2, <1>8, IdleType DEF CountTaken, IInv, TypeOK
  <2>3. SessionInv(a)'
    BY <1>5, <1>6, <2>1 DEF SessionInv
  <2>4. CallStage(t)'
    BY <2>2 DEF CallStage
  <2> QED
    BY <1>2, <1>4, <2>3, <2>4, CleanFrame
<1> QED
  BY <1>7, <1>8

(* Cleanup: what is given back next is the last thing still held. *)
LEMMA GiveBackClean ==
  ASSUME IInv, CleanInv, NEW t \in Threads, GiveBack(t) PROVE CleanInv'
<1>1. At(t, "cleanup") /\ "cleanup" \in Places
  BY DEF GiveBack, Places
<1>0. PICK a \in Addresses : This(t) = a
  BY <1>1, InsideFacts
<1> USE <1>0
<1>2. /\ heap[a] \in SessionType /\ heap[a].owner = t
      /\ call[t] \in CallType /\ call[t].pc = "cleanup"
  BY <1>1, InsideFacts
<1>3. PICK i \in 1..7 :
        /\ NextOwned(a, i)
        /\ heap'[a].owns = heap[a].owns \ {CleanupOrder[i]}
        /\ heap'[a].cleanup = Append(heap[a].cleanup, CleanupOrder[i])
        /\ heap'[a].acquired = heap[a].acquired /\ heap'[a].state = heap[a].state
  BY <1>2, SequenceFacts DEF GiveBack, SessionType, IInv, TypeOK
<1>4. /\ call'[t].pc \in {"cleanup", "lease_dropped"}
      /\ \A b \in Addresses \ {a} : heap'[b] = heap[b]
      /\ \A u \in Threads \ {t} : call'[u] = call[u]
  BY <1>2 DEF GiveBack, CallType, IInv, TypeOK
<1>5. PICK n \in 0..7 : \E k \in 0..n :
        /\ Stage(heap[a], n, k)
        /\ heap[a].state \in Final => k = n
        /\ heap[a].state \in Early => n = 0 \/ TakingLease(a)
  BY DEF CleanInv, SessionInv
<1>6. PICK k \in 0..n :
        /\ Stage(heap[a], n, k)
        /\ heap[a].state \in Final => k = n
        /\ heap[a].state \in Early => n = 0 \/ TakingLease(a)
  BY <1>5
<1>7. n - k >= 1 /\ CleanupOrder[i] = Acquisitions[n - k]
  <2>1. n - k \in 0..7 /\ heap[a].owns = Held(n - k)
    BY <1>6 DEF Stage
  <2>2. /\ CleanupOrder[i] \in Held(n - k)
        /\ \A j \in 1..(i - 1) : CleanupOrder[j] \notin Held(n - k)
    BY <1>3, <2>1 DEF NextOwned
  <2> QED
    BY <2>1, <2>2, HeldFacts
<1>8. n \in 1..7 /\ k \in 0..(n - 1) /\ k + 1 \in 0..n /\ k # n
  BY <1>7
<1>9. Stage(heap'[a], n, k + 1)
  <2>1. /\ Append(Given(n, k), Acquisitions[n - k]) = Given(n, k + 1)
        /\ Held(n - k) \ {Acquisitions[n - k]} = Held(n - (k + 1))
    BY <1>8, GivenGrows
  <2> QED
    BY <1>3, <1>6, <1>7, <2>1 DEF Stage
<1>10. TakingLease(a) => TakingLease(a)'
  BY <1>2, <1>4 DEF TakingLease, This
<1>11. SessionInv(a)'
  BY <1>3, <1>6, <1>8, <1>9, <1>10 DEF SessionInv
<1>12. CallStage(t)'
  BY <1>4 DEF CallStage
<1> QED
  BY <1>2, <1>4, <1>11, <1>12, CleanFrame

LEMMA CleanedClean ==
  ASSUME IInv, CleanInv, NEW t \in Threads, Cleaned(t) PROVE CleanInv'
<1>1. At(t, "cleanup") /\ "cleanup" \in Places
  BY DEF Cleaned, Places
<1>0. PICK a \in Addresses : This(t) = a
  BY <1>1, InsideFacts
<1> USE <1>0
<1>2. /\ heap[a] \in SessionType /\ heap[a].owner = t /\ heap[a].owns = {}
      /\ call[t] \in CallType /\ call[t].pc = "cleanup"
  BY <1>1, InsideFacts DEF Cleaned
<1>3. /\ heap'[a].acquired = heap[a].acquired /\ heap'[a].cleanup = heap[a].cleanup
      /\ heap'[a].owns = heap[a].owns /\ heap'[a].state \in Final
      /\ \A b \in Addresses \ {a} : heap'[b] = heap[b]
  BY <1>2 DEF Cleaned, StateCleaned, Final, SessionType, IInv, TypeOK
<1>4. /\ call'[t].pc \in {"remember", "idle"}
      /\ \A u \in Threads \ {t} : call'[u] = call[u]
  BY <1>2, IdleType DEF Cleaned, CallType, IInv, TypeOK
<1>5. PICK n \in 0..7 : \E k \in 0..n : Stage(heap[a], n, k)
  BY DEF CleanInv, SessionInv
<1>6. PICK k \in 0..n : Stage(heap[a], n, k)
  BY <1>5
<1>7. k = n
  <2>1. n - k \in 0..7 /\ Held(n - k) = {}
    BY <1>2, <1>6 DEF Stage
  <2>2. n - k = 0
    BY <2>1, HeldFacts
  <2> QED
    BY <2>2
<1>8. Stage(heap'[a], n, k)
  BY <1>3, <1>6 DEF Stage
<1>9. Early \cap Final = {}
  BY DEF Early, Final
<1>10. SessionInv(a)'
  BY <1>3, <1>7, <1>8, <1>9 DEF SessionInv
<1>11. CallStage(t)'
  BY <1>4 DEF CallStage
<1> QED
  BY <1>2, <1>3, <1>4, <1>10, <1>11, CleanFrame

LEMMA DeleteClean ==
  ASSUME IInv, CleanInv, NEW t \in Threads, Delete(t) PROVE CleanInv'
<1>1. At(t, "delete") /\ "delete" \in Places
  BY DEF Delete, Places
<1>0. PICK a \in Addresses : This(t) = a
  BY <1>1, InsideFacts
<1> USE <1>0
<1>2. heap[a].owner = t
  BY <1>1, InsideFacts
<1>3. /\ heap'[a] = Session("freed", "none") /\ call'[t].pc = "idle"
      /\ \A b \in Addresses \ {a} : heap'[b] = heap[b]
      /\ \A u \in Threads \ {t} : call'[u] = call[u]
  BY IdleType DEF Delete, IInv, TypeOK
<1>4. Stage(heap'[a], 0, 0) /\ heap'[a].state = "freed"
  BY <1>3, EmptyStage DEF Session, Stage
<1>5. "freed" \notin Early \cup Final
  BY DEF Early, Final
<1>6. SessionInv(a)'
  BY <1>4, <1>5 DEF SessionInv
<1>7. CallStage(t)'
  BY <1>3 DEF CallStage
<1> QED
  BY <1>2, <1>3, <1>6, <1>7, CleanFrame

LEMMA CleanStutter == CleanInv /\ UNCHANGED vars => CleanInv'
BY DEF CleanInv, SessionInv, CallStage, TakingLease, This, vars

LEMMA CleanNext == IInv /\ CleanInv /\ [Next]_vars => CleanInv'
<1> SUFFICES ASSUME IInv, CleanInv, Next PROVE CleanInv'
  BY CleanStutter
<1>1. ASSUME NEW t \in Threads, CallStep(t) PROVE CleanInv'
  BY <1>1, CreateClean, ConfigureClean, ModelAcquireLeaseClean, RunModelClean,
     CleanupBegins DEF CallStep
<1>2. ASSUME NEW t \in Threads, InnerStep(t) PROVE CleanInv'
  BY <1>2, AcquireClean, NeutralClean, CountTakenClean, GiveBackClean,
     CleanedClean, DeleteClean DEF InnerStep
<1> QED
  BY <1>1, <1>2 DEF Next

(* A session that is completed, failed or destroyed owns nothing and gave  *)
(* back exactly what run_model and model_acquire_lease took, in reverse,   *)
(* wherever the injected failure struck and whatever other threads did.    *)
THEOREM ReverseCleanup == Spec => []CleanupReverses
<1>1. CleanInv => CleanupReverses
  <2> SUFFICES ASSUME CleanInv, NEW a \in Addresses, heap[a].state \in Final
               PROVE  heap[a].owns = {} /\ heap[a].cleanup = Reversed(heap[a].acquired)
    BY DEF CleanupReverses, Final
  <2>1. PICK n \in 0..7 : Stage(heap[a], n, n)
    BY DEF CleanInv, SessionInv
  <2>2. n - n = 0
    OBVIOUS
  <2> QED
    BY <2>1, <2>2, EmptyStage, ReversedTaken DEF Stage
<1> QED
  BY <1>1, Invariance, CleanInit, CleanNext, PTL DEF Spec

-----------------------------------------------------------------------------
(***************************************************************************)
(* As long as one thread creates the sessions, the lease count of the      *)
(* process is the number of sessions that hold a lease, for any number of  *)
(* sessions that the counter can count.                                    *)
(***************************************************************************)

(* What the counter can count: 2^32 - 1 sessions at once. *)
CountableSessions == IsFiniteSet(Addresses) /\ Cardinality(Addresses) < LeaseModulus

DroppingLease(a) == \E t \in Threads : call[t].pc = "lease_dropped" /\ This(t) = a

(* Whether the counter includes the session at a: from the end of          *)
(* ++g_runtime_leases to the end of --g_runtime_leases.                    *)
CountedAt(a) ==
  \/ "runtime_lease" \in heap[a].owns /\ ~ TakingLease(a)
  \/ DroppingLease(a)

Counted == {a \in Addresses : CountedAt(a)}

SessionLease(a) ==
  IF heap[a].state \in Gone THEN heap[a].owns = {} ELSE heap[a].owner \in users

CallLease(t) ==
  /\ call[t].pc = "lease_dropped" => "runtime_lease" \notin heap[This(t)].owns
  /\ call[t].pc \in {"remember", "delete"} => heap[This(t)].owns = {}

ReadCurrent(t) == call[t].pc \in {"lease_taken", "lease_dropped"} => call[t].read = leases

LeaseInv ==
  /\ IsFiniteSet(users)
  /\ \A a \in Addresses : SessionLease(a)
  /\ \A t \in Threads : CallLease(t)
  /\ Cardinality(users) <= 1 =>
       leases = Cardinality(Counted) /\ \A t \in Threads : ReadCurrent(t)

-----------------------------------------------------------------------------
LEMMA LeaseInit == Init => LeaseInv
<1> SUFFICES ASSUME Init PROVE LeaseInv
  OBVIOUS
<1>1. ASSUME NEW a \in Addresses PROVE SessionLease(a) /\ heap[a].owns = {}
  <2>1. heap[a] = Session("unallocated", "none")
    BY DEF Init
  <2> QED
    BY <2>1 DEF Session, SessionLease, Gone
<1>2. \A t \in Threads : call[t].pc = "idle"
  BY IdleType DEF Init
<1>3. Counted = {}
  BY <1>1, <1>2 DEF Counted, CountedAt, DroppingLease
<1>4. IsFiniteSet(users) /\ leases = Cardinality(Counted)
  BY <1>3, FS_EmptySet DEF Init
<1>5. \A t \in Threads : CallLease(t) /\ ReadCurrent(t)
  BY <1>2 DEF CallLease, ReadCurrent
<1> QED
  BY <1>1, <1>4, <1>5 DEF LeaseInv

LEMMA AtMostOne ==
  ASSUME NEW S, IsFiniteSet(S), Cardinality(S) <= 1, NEW t \in S, NEW u \in S PROVE t = u
<1>1. Cardinality(S) \in Nat /\ Cardinality(S) # 0
  BY FS_CardinalityType, FS_EmptySet
<1>2. Cardinality(S) = 1
  BY <1>1
<1> QED
  BY <1>2, FS_Singleton

(* The session of one's own is taking or dropping a lease only by oneself. *)
LEMMA OwnCounted ==
  ASSUME IInv, NEW t \in Threads, NEW a \in Addresses,
         heap[a].state \notin Gone => heap[a].owner = t
  PROVE  /\ TakingLease(a) <=> (call[t].pc = "lease_taken" /\ This(t) = a)
         /\ DroppingLease(a) <=> (call[t].pc = "lease_dropped" /\ This(t) = a)
BY Alone DEF TakingLease, DroppingLease

(* A step of thread t on the session at a: what the others count stays.    *)
LEMMA CountedFrame ==
  ASSUME IInv, NEW t \in Threads, NEW a \in Addresses,
         heap[a].state \notin Gone => heap[a].owner = t,
         call[t].pc = "idle" \/ This(t) = a,
         \A b \in Addresses \ {a} : heap'[b] = heap[b],
         \A u \in Threads \ {t} : call'[u] = call[u],
         call'[t].pc = "idle" \/ call'[t].session = a
  PROVE  /\ \A b \in Addresses \ {a} : CountedAt(b)' <=> CountedAt(b)
         /\ TakingLease(a)' <=> (call'[t].pc = "lease_taken" /\ call'[t].session = a)
         /\ DroppingLease(a)' <=> (call'[t].pc = "lease_dropped" /\ call'[t].session = a)
<1>1. ASSUME NEW b \in Addresses \ {a}
      PROVE  /\ TakingLease(b)' <=> TakingLease(b)
             /\ DroppingLease(b)' <=> DroppingLease(b)
  BY DEF TakingLease, DroppingLease, This
<1>2. \A b \in Addresses \ {a} : CountedAt(b)' <=> CountedAt(b)
  BY <1>1 DEF CountedAt
<1>3. \A u \in Threads \ {t} : call'[u].pc # "idle" => call'[u].session # a
  BY Alone DEF This
<1>4. /\ TakingLease(a)' <=> (call'[t].pc = "lease_taken" /\ call'[t].session = a)
      /\ DroppingLease(a)' <=> (call'[t].pc = "lease_dropped" /\ call'[t].session = a)
  BY <1>3 DEF TakingLease, DroppingLease, This
<1> QED
  BY <1>2, <1>4

(* Such a step, if it leaves the counter alone. *)
LEMMA LeaseFrame ==
  ASSUME IInv, LeaseInv, NEW t \in Threads, NEW a \in Addresses,
         heap[a].state \notin Gone => heap[a].owner = t,
         call[t].pc = "idle" \/ This(t) = a,
         \A b \in Addresses \ {a} : heap'[b] = heap[b],
         \A u \in Threads \ {t} : call'[u] = call[u],
         call'[t].pc = "idle" \/ call'[t].session = a,
         leases' = leases, users' = users \/ users' = users \cup {t},
         CountedAt(a)' <=> CountedAt(a),
         SessionLease(a)', CallLease(t)', ReadCurrent(t)'
  PROVE  LeaseInv'
<1>1. Counted' = Counted
  BY CountedFrame DEF Counted
<1>2. IsFiniteSet(users') /\ (Cardinality(users') <= 1 => Cardinality(users) <= 1)
  <2>1. IsFiniteSet(users) /\ Cardinality(users) \in Nat
    BY FS_CardinalityType DEF LeaseInv
  <2>2. CASE users' = users
    BY <2>1, <2>2
  <2>3. CASE users' = users \cup {t}
    <3>1. /\ IsFiniteSet(users \cup {t})
          /\ Cardinality(users \cup {t}) =
               IF t \in users THEN Cardinality(users) ELSE Cardinality(users) + 1
      BY <2>1, FS_AddElement
    <3> QED
      BY <2>1, <2>3, <3>1
  <2> QED
    BY <2>2, <2>3
<1>3. \A b \in Addresses : SessionLease(b)'
  BY DEF LeaseInv, SessionLease
<1>4. ASSUME NEW u \in Threads \ {t} PROVE CallLease(u)'
  <2>1. CallLease(u) /\ call'[u] = call[u] /\ This(u)' = This(u)
    BY DEF LeaseInv, This
  <2>2. call[u].pc # "idle" => heap'[This(u)] = heap[This(u)]
    BY Alone
  <2> QED
    BY <2>1, <2>2 DEF CallLease
<1>5. ASSUME Cardinality(users) <= 1, NEW u \in Threads PROVE ReadCurrent(u)'
  BY <1>5 DEF LeaseInv, ReadCurrent
<1> QED
  BY <1>1, <1>2, <1>3, <1>4, <1>5 DEF LeaseInv

(* Such a step, inside a call and away from the counter, on a session that *)
(* keeps its lease if it has one.                                          *)
LEMMA QuietLease ==
  ASSUME IInv, LeaseInv, NEW t \in Threads, NEW a \in Addresses,
         heap[a].state \notin Gone, heap[a].owner = t,
         call[t].pc = "idle" \/ This(t) = a,
         call[t].pc \notin {"lease_taken", "lease_dropped"},
         \A b \in Addresses \ {a} : heap'[b] = heap[b],
         \A u \in Threads \ {t} : call'[u] = call[u],
         call'[t].pc = "idle" \/ call'[t].session = a,
         call'[t].pc \notin {"lease_taken", "lease_dropped"},
         heap'[a].state \notin Gone, heap'[a].owner = t,
         "runtime_lease" \in heap'[a].owns <=> "runtime_lease" \in heap[a].owns,
         call'[t].pc \in {"remember", "delete"} => heap'[a].owns = {},
         UNCHANGED <<leases, users>>
  PROVE  LeaseInv'
<1>1. CountedAt(a)' <=> CountedAt(a)
  BY OwnCounted, CountedFrame DEF CountedAt
<1>2. SessionLease(a)'
  BY DEF LeaseInv, SessionLease
<1>3. CallLease(t)' /\ ReadCurrent(t)'
  BY DEF CallLease, ReadCurrent, This
<1> QED
  BY <1>1, <1>2, <1>3, LeaseFrame

LEMMA CreateLease ==
  ASSUME IInv, LeaseInv, NEW t \in Threads, NEW a \in Addresses, Create(t, a)
  PROVE  LeaseInv'
<1>1. /\ call[t].pc = "idle" /\ call' = call /\ heap[a].state \in Gone
      /\ leases' = leases /\ users' = users \cup {t}
  BY IdleType DEF Create, Live
<1>2. /\ heap'[a] = Session("created", t) /\ heap'[a].owner = t /\ heap'[a].owns = {}
      /\ heap'[a].state = "created" /\ \A b \in Addresses \ {a} : heap'[b] = heap[b]
  BY DEF Create, IInv, TypeOK, Session
<1>3. heap[a].owns = {}
  BY <1>1 DEF LeaseInv, SessionLease
<1>4. CountedAt(a)' <=> CountedAt(a)
  BY <1>1, <1>2, <1>3, OwnCounted, CountedFrame DEF CountedAt
<1>5. SessionLease(a)' /\ CallLease(t)' /\ ReadCurrent(t)'
  BY <1>1, <1>2 DEF SessionLease, CallLease, ReadCurrent, Gone
<1> QED
  BY <1>1, <1>2, <1>4, <1>5, LeaseFrame

(* Calls that leave the resources alone. *)
LEMMA QuietCall ==
  ASSUME IInv, LeaseInv, NEW t \in Threads, NEW a \in Addresses,
         \/ Configure(t, a) \/ Preflight(t, a) \/ RunModel(t, a)
         \/ ModelCleanup(t, a) \/ Destroy(t, a)
  PROVE  LeaseInv'
<1>1. /\ call[t].pc = "idle" /\ heap[a] \in SessionType
      /\ heap[a].state \notin Gone /\ heap[a].owner = t
  BY CallsFacts, IdleType DEF Configure, Preflight, RunModel, ModelCleanup, Destroy
<1>2. /\ heap'[a].owns = heap[a].owns /\ heap'[a].owner = t
      /\ heap'[a].state \notin Gone
      /\ \A b \in Addresses \ {a} : heap'[b] = heap[b]
  BY <1>1 DEF Configure, Preflight, RunModel, ModelCleanup, Destroy, Gone,
     IInv, TypeOK, SessionType
<1>3. /\ call' = call \/ (call'[t].pc \in {"acquire", "cleanup"} /\ call'[t].session = a)
      /\ \A u \in Threads \ {t} : call'[u] = call[u]
      /\ UNCHANGED <<leases, users>>
  BY DEF Configure, Preflight, RunModel, ModelCleanup, Destroy, Inside, IInv, TypeOK
<1> QED
  BY <1>1, <1>2, <1>3, QuietLease

(* The lease is the session's, the counter does not include it yet. *)
LEMMA BeginsTaking ==
  ASSUME IInv, LeaseInv, NEW t \in Threads, NEW a \in Addresses,
         heap[a].state \notin Gone, heap[a].owner = t, heap[a].owns = {},
         call[t].pc = "idle" \/ This(t) = a,
         call[t].pc \notin {"lease_taken", "lease_dropped"},
         \A b \in Addresses \ {a} : heap'[b] = heap[b],
         \A u \in Threads \ {t} : call'[u] = call[u],
         call'[t].pc = "lease_taken", call'[t].session = a, call'[t].read = leases,
         heap'[a].state \notin Gone, heap'[a].owner = t,
         UNCHANGED <<leases, users>>
  PROVE  LeaseInv'
<1>1. CountedAt(a)' <=> CountedAt(a)
  BY OwnCounted, CountedFrame DEF CountedAt
<1>2. SessionLease(a)'
  BY DEF LeaseInv, SessionLease
<1>3. CallLease(t)' /\ ReadCurrent(t)'
  BY DEF CallLease, ReadCurrent
<1> QED
  BY <1>1, <1>2, <1>3, LeaseFrame

LEMMA ModelAcquireLeaseLease ==
  ASSUME IInv, CleanInv, LeaseInv, NEW t \in Threads, NEW a \in Addresses,
         ModelAcquireLease(t, a)
  PROVE  LeaseInv'
<1>1. Calls(t, a) /\ heap[a].state \in Early /\ heap[a].state \notin Gone
  BY DEF ModelAcquireLease, Runnable, Early, Gone
<1>2. /\ call[t].pc = "idle" /\ heap[a] \in SessionType /\ heap[a].owner = t
      /\ Stage(heap[a], 0, 0)
  BY <1>1, EarlyFacts
<1>3. heap[a].owns = {}
  BY <1>2, EmptyStage DEF Stage
<1>4. heap'[a] = TakesLease(heap[a]) /\ \A b \in Addresses \ {a} : heap'[b] = heap[b]
  BY DEF ModelAcquireLease, IInv, TypeOK
<1>5. heap'[a].state \notin Gone /\ heap'[a].owner = t
  BY <1>1, <1>2, <1>4, TakesLeaseType
<1>6. /\ call'[t].pc = "lease_taken" /\ call'[t].session = a /\ call'[t].read = leases
      /\ \A u \in Threads \ {t} : call'[u] = call[u]
      /\ UNCHANGED <<leases, users>>
  BY DEF ModelAcquireLease, Inside, IInv, TypeOK
<1> QED
  BY <1>1, <1>2, <1>3, <1>4, <1>5, <1>6, BeginsTaking

LEMMA AcquireLease ==
  ASSUME IInv, CleanInv, LeaseInv, NEW t \in Threads, Acquire(t) PROVE LeaseInv'
<1>1. At(t, "acquire") /\ "acquire" \in Places
  BY DEF Acquire, Places
<1>0. PICK a \in Addresses : This(t) = a
  BY <1>1, InsideFacts
<1> USE <1>0
<1> DEFINE i == call[t].step
           reached == [heap[a] EXCEPT !.state = StateAfter[i]]
<1>2. /\ heap[a] \in SessionType /\ heap[a].state \notin Gone
      /\ heap[a].owner = t /\ call[t].pc = "acquire" /\ call[t].session = a
      /\ call[t] \in CallType
  BY <1>1, InsideFacts
<1>3. i \in 1..9
  <2>1. i \in 1..10 /\ i <= 9
    BY <1>2, SequenceFacts DEF Acquire, CleanInv, CallStage
  <2> QED
    BY <2>1
<1>4. /\ reached \in SessionType /\ reached.state \notin Gone /\ reached.owner = t
      /\ reached.owns = heap[a].owns
  BY <1>2, <1>3, SequenceFacts, StateFacts DEF SessionType
<1>5. /\ \A b \in Addresses \ {a} : heap'[b] = heap[b]
      /\ \A u \in Threads \ {t} : call'[u] = call[u]
      /\ UNCHANGED <<leases, users>>
  BY DEF Acquire, IInv, TypeOK
<1> HIDE DEF reached
<1>6. CASE i = 1
  <2>1. Stage(heap[a], 0, 0)
    BY <1>2, <1>6 DEF CleanInv, CallStage, Reached
  <2>2. heap[a].owns = {}
    BY <2>1, EmptyStage DEF Stage
  <2>3. heap'[a] = TakesLease(reached)
    BY <1>2, <1>6 DEF Acquire, IInv, TypeOK, reached
  <2>4. heap'[a].state \notin Gone /\ heap'[a].owner = t
    BY <1>4, <2>3, TakesLeaseType
  <2>5. call'[t].pc = "lease_taken" /\ call'[t].session = a /\ call'[t].read = leases
    BY <1>2, <1>6 DEF Acquire, IInv, TypeOK, CallType
  <2> QED
    BY <1>2, <1>5, <2>2, <2>4, <2>5, BeginsTaking
<1>7. CASE i > 1
  <2>1. heap'[a] = IF Acquisitions[i] \in Resources
                     THEN [reached EXCEPT !.owns = @ \cup {Acquisitions[i]},
                                          !.acquired = Append(@, Acquisitions[i])]
                     ELSE reached
    BY <1>2, <1>7 DEF Acquire, IInv, TypeOK, reached
  <2>2. call'[t].pc = "acquire" /\ call'[t].session = a
    BY <1>2, <1>7 DEF Acquire, IInv, TypeOK, CallType
  <2>3. Acquisitions[i] # "runtime_lease"
    <3>1. i = 2 \/ i = 3 \/ i = 4 \/ i = 5 \/ i = 6 \/ i = 7 \/ i = 8 \/ i = 9
      BY <1>3, <1>7
    <3> QED
      BY <3>1 DEF Acquisitions
  <2>4. /\ heap'[a].state \notin Gone /\ heap'[a].owner = t
        /\ "runtime_lease" \in heap'[a].owns <=> "runtime_lease" \in heap[a].owns
    BY <1>4, <2>1, <2>3 DEF SessionType
  <2> QED
    BY <1>2, <1>5, <2>2, <2>4, QuietLease
<1> QED
  BY <1>3, <1>6, <1>7

(* Steps inside a call that leave the resources alone. *)
LEMMA QuietStep ==
  ASSUME IInv, LeaseInv, NEW t \in Threads,
         AcquireFails(t) \/ Finish(t) \/ Cleaned(t) \/ Remember(t)
  PROVE  LeaseInv'
<1>1. PICK pc \in {"acquire", "cleanup", "remember"} : At(t, pc)
  BY DEF AcquireFails, Finish, Cleaned, Remember
<1>0. PICK a \in Addresses : This(t) = a
  BY <1>1, InsideFacts DEF Places
<1> USE <1>0
<1>2. /\ heap[a] \in SessionType /\ heap[a].state \notin Gone /\ heap[a].owner = t
      /\ call[t] \in CallType /\ call[t].session = a /\ call[t].pc = pc
  BY <1>1, InsideFacts DEF Places
<1>3. /\ heap'[a].owns = heap[a].owns /\ heap'[a].owner = t
      /\ heap'[a].state \notin Gone
      /\ \A b \in Addresses \ {a} : heap'[b] = heap[b]
      /\ UNCHANGED <<leases, users>>
  BY <1>2 DEF AcquireFails, Finish, Cleaned, Remember, StateCleaned, Gone,
     IInv, TypeOK, SessionType
<1>4. /\ \A u \in Threads \ {t} : call'[u] = call[u]
      /\ call'[t].pc \in {"idle", "cleanup", "remember", "delete"}
      /\ call'[t].pc = "idle" \/ call'[t].session = a
  BY <1>2, IdleType DEF AcquireFails, Finish, Cleaned, Remember, CallType, IInv, TypeOK
<1>5. call'[t].pc \in {"remember", "delete"} => heap[a].owns = {}
  <2>1. CASE Cleaned(t)
    BY <2>1 DEF Cleaned
  <2>2. CASE Remember(t)
    BY <1>2, <2>2 DEF Remember, At, LeaseInv, CallLease
  <2>3. CASE AcquireFails(t) \/ Finish(t)
    BY <1>2, <2>3 DEF AcquireFails, Finish, CallType, IInv, TypeOK
  <2> QED
    BY <2>1, <2>2, <2>3
<1> QED
  BY <1>2, <1>3, <1>4, <1>5, QuietLease

(* The last thing given back is the lease, which the counter includes      *)
(* until it is written.                                                    *)
LEMMA GiveBackLease ==
  ASSUME IInv, LeaseInv, NEW t \in Threads, GiveBack(t) PROVE LeaseInv'
<1>1. At(t, "cleanup") /\ "cleanup" \in Places
  BY DEF GiveBack, Places
<1>0. PICK a \in Addresses : This(t) = a
  BY <1>1, InsideFacts
<1> USE <1>0
<1>2. /\ heap[a] \in SessionType /\ heap[a].state \notin Gone /\ heap[a].owner = t
      /\ call[t] \in CallType /\ call[t].session = a /\ call[t].pc = "cleanup"
  BY <1>1, InsideFacts
<1>3. PICK i \in DOMAIN CleanupOrder :
        /\ NextOwned(a, i)
        /\ heap'[a].owns = heap[a].owns \ {CleanupOrder[i]}
        /\ heap'[a].state = heap[a].state /\ heap'[a].owner = heap[a].owner
        /\ call' = IF CountsBack(CleanupOrder[i])
                     THEN [call EXCEPT ![t].pc = "lease_dropped", ![t].read = leases]
                     ELSE call
  BY <1>2 DEF GiveBack, SessionType, IInv, TypeOK
<1>4. /\ \A b \in Addresses \ {a} : heap'[b] = heap[b]
      /\ \A u \in Threads \ {t} : call'[u] = call[u]
      /\ UNCHANGED <<leases, users>>
  BY <1>2 DEF GiveBack, CallType, IInv, TypeOK
<1>5. CASE CleanupOrder[i] = "runtime_lease"
  <2>1. "runtime_lease" \in heap[a].owns /\ "runtime_lease" \notin heap'[a].owns
    BY <1>3, <1>5 DEF NextOwned
  <2>2. /\ call'[t].pc = "lease_dropped" /\ call'[t].session = a
        /\ call'[t].read = leases
    BY <1>2, <1>3, <1>5 DEF CountsBack, CallType, IInv, TypeOK
  <2>3. CountedAt(a) /\ CountedAt(a)'
    BY <1>2, <1>4, <2>1, <2>2, OwnCounted, CountedFrame DEF CountedAt
  <2>4. SessionLease(a)'
    BY <1>2, <1>3, <1>4 DEF LeaseInv, SessionLease
  <2>5. CallLease(t)' /\ ReadCurrent(t)'
    BY <1>4, <2>1, <2>2 DEF CallLease, ReadCurrent, This
  <2> QED
    BY <1>2, <1>4, <2>2, <2>3, <2>4, <2>5, LeaseFrame
<1>6. CASE CleanupOrder[i] # "runtime_lease"
  <2>1. /\ call' = call
        /\ "runtime_lease" \in heap'[a].owns <=> "runtime_lease" \in heap[a].owns
    BY <1>3, <1>6 DEF CountsBack
  <2> QED
    BY <1>2, <1>3, <1>4, <2>1, QuietLease
<1> QED
  BY <1>5, <1>6

LEMMA DeleteLease ==
  ASSUME IInv, LeaseInv, NEW t \in Threads, Delete(t) PROVE LeaseInv'
<1>1. At(t, "delete") /\ "delete" \in Places
  BY DEF Delete, Places
<1>0. PICK a \in Addresses : This(t) = a
  BY <1>1, InsideFacts
<1> USE <1>0
<1>2. /\ heap[a].owner = t /\ call[t].pc = "delete" /\ heap[a].owns = {}
  BY <1>1, InsideFacts DEF LeaseInv, CallLease
<1>3. /\ heap'[a] = Session("freed", "none") /\ call'[t].pc = "idle"
      /\ \A b \in Addresses \ {a} : heap'[b] = heap[b]
      /\ \A u \in Threads \ {t} : call'[u] = call[u]
      /\ UNCHANGED <<leases, users>>
  BY IdleType DEF Delete, IInv, TypeOK
<1>4. heap'[a].owns = {} /\ heap'[a].state \in Gone
  BY <1>3 DEF Session, Gone
<1>5. CountedAt(a)' <=> CountedAt(a)
  BY <1>2, <1>3, <1>4, OwnCounted, CountedFrame DEF CountedAt
<1>6. SessionLease(a)' /\ CallLease(t)' /\ ReadCurrent(t)'
  BY <1>3, <1>4 DEF SessionLease, CallLease, ReadCurrent
<1> QED
  BY <1>2, <1>3, <1>5, <1>6, LeaseFrame

-----------------------------------------------------------------------------
(* The counter is written. *)

LEMMA CountFacts ==
  ASSUME CountableSessions, TypeOK
  PROVE  /\ LeaseModulus \in Nat /\ leases \in Nat
         /\ \A S \in SUBSET Addresses :
              IsFiniteSet(S) /\ Cardinality(S) \in Nat /\ Cardinality(S) < LeaseModulus
         /\ \A n \in 0..(LeaseModulus - 1) : Wrapped(n) = n
<1>1. LeaseModulus \in Nat \ {0} /\ leases \in Nat
  BY ParametersAssumption, CountersNat
<1>2. ASSUME NEW S \in SUBSET Addresses
      PROVE  IsFiniteSet(S) /\ Cardinality(S) \in Nat /\ Cardinality(S) < LeaseModulus
  <2>1. IsFiniteSet(S) /\ Cardinality(S) <= Cardinality(Addresses)
    BY FS_Subset DEF CountableSessions
  <2>2. Cardinality(S) \in Nat /\ Cardinality(Addresses) \in Nat
    BY <2>1, FS_CardinalityType DEF CountableSessions
  <2> QED
    BY <1>1, <2>1, <2>2 DEF CountableSessions
<1>3. ASSUME NEW n \in 0..(LeaseModulus - 1) PROVE Wrapped(n) = n
  BY <1>1 DEF Wrapped
<1> QED
  BY <1>1, <1>2, <1>3

(* The thread that writes the counter is the only one that has read it.    *)
LEMMA WriteFrame ==
  ASSUME IInv, LeaseInv, NEW t \in Threads, NEW a \in Addresses,
         heap[a].state \notin Gone, heap[a].owner = t, This(t) = a, call[t].pc # "idle",
         \A b \in Addresses \ {a} : heap'[b] = heap[b],
         \A u \in Threads \ {t} : call'[u] = call[u],
         call'[t].pc \in {"idle", "acquire", "cleanup"},
         call'[t].pc = "idle" \/ call'[t].session = a,
         heap'[a].state \notin Gone, heap'[a].owner = t,
         users' = users,
         Cardinality(users) <= 1 => leases' = Cardinality(Counted')
  PROVE  LeaseInv'
<1>1. \A b \in Addresses : SessionLease(b)'
  BY DEF LeaseInv, SessionLease
<1>2. ASSUME NEW u \in Threads PROVE CallLease(u)'
  <2>1. CASE u = t
    BY <2>1 DEF CallLease
  <2>2. CASE u # t
    <3>1. CallLease(u) /\ call'[u] = call[u] /\ This(u)' = This(u)
      BY <2>2 DEF LeaseInv, This
    <3>2. call[u].pc # "idle" => heap'[This(u)] = heap[This(u)]
      BY <2>2, Alone
    <3> QED
      BY <3>1, <3>2 DEF CallLease
  <2> QED
    BY <2>1, <2>2
<1>3. ASSUME Cardinality(users) <= 1, NEW u \in Threads PROVE ReadCurrent(u)'
  <2>1. CASE u = t
    BY <2>1 DEF ReadCurrent
  <2>2. CASE u # t
    <3>1. call[u].pc = "idle" \/ u \in users
      BY DEF LeaseInv, SessionLease, IInv, CallInv, OwnCall
    <3>2. t \in users
      BY DEF LeaseInv, SessionLease
    <3>3. call[u].pc = "idle"
      BY <1>3, <2>2, <3>1, <3>2, AtMostOne DEF LeaseInv
    <3> QED
      BY <2>2, <3>3 DEF ReadCurrent
  <2> QED
    BY <2>1, <2>2
<1> QED
  BY <1>1, <1>2, <1>3 DEF LeaseInv

LEMMA CountTakenLease ==
  ASSUME CountableSessions, IInv, CleanInv, LeaseInv, NEW t \in Threads, CountTaken(t)
  PROVE  LeaseInv'
<1>1. At(t, "lease_taken") /\ "lease_taken" \in Places
  BY DEF CountTaken, Places
<1>0. PICK a \in Addresses : This(t) = a
  BY <1>1, InsideFacts
<1> USE <1>0
<1>2. /\ heap[a] \in SessionType /\ heap[a].state \notin Gone /\ heap[a].owner = t
      /\ call[t] \in CallType /\ call[t].session = a /\ call[t].pc = "lease_taken"
  BY <1>1, InsideFacts
<1>3. /\ heap'[a].owns = heap[a].owns /\ heap'[a].owner = t
      /\ heap'[a].state \notin Gone
      /\ \A b \in Addresses \ {a} : heap'[b] = heap[b]
      /\ \A u \in Threads \ {t} : call'[u] = call[u]
      /\ users' = users /\ leases' = Wrapped(call[t].read + 1)
  BY <1>2 DEF CountTaken, SessionType, Gone, IInv, TypeOK
<1>4. call'[t].pc \in {"idle", "acquire"} /\ (call'[t].pc = "idle" \/ call'[t].session = a)
  BY <1>2, IdleType DEF CountTaken, CallType, IInv, TypeOK
<1>5. "runtime_lease" \in heap[a].owns
  <2>1. Held(1) = {Acquisitions[1]}
    BY DEF Held
  <2> QED
    BY <1>2, <2>1, OrderFacts DEF CleanInv, CallStage, Stage
<1>6. ~ CountedAt(a) /\ CountedAt(a)'
  BY <1>2, <1>3, <1>4, <1>5, OwnCounted, CountedFrame DEF CountedAt
<1>7. Counted' = Counted \cup {a} /\ a \notin Counted
  BY <1>2, <1>3, <1>4, <1>6, CountedFrame DEF Counted
<1>8. ASSUME Cardinality(users) <= 1 PROVE leases' = Cardinality(Counted')
  <2>1. call[t].read = leases /\ leases = Cardinality(Counted)
    BY <1>2, <1>8 DEF LeaseInv, ReadCurrent
  <2>2. Counted \in SUBSET Addresses /\ Counted \cup {a} \in SUBSET Addresses
    BY DEF Counted
  <2>3. Cardinality(Counted \cup {a}) = Cardinality(Counted) + 1
    BY <1>7, <2>2, CountFacts, FS_AddElement DEF IInv
  <2>4. Wrapped(Cardinality(Counted) + 1) = Cardinality(Counted) + 1
    BY <2>2, <2>3, CountFacts DEF IInv
  <2> QED
    BY <1>3, <1>7, <2>1, <2>3, <2>4
<1> QED
  BY <1>2, <1>3, <1>4, <1>8, WriteFrame

LEMMA CountDroppedLease ==
  ASSUME CountableSessions, IInv, LeaseInv, NEW t \in Threads, CountDropped(t)
  PROVE  LeaseInv'
<1>1. At(t, "lease_dropped") /\ "lease_dropped" \in Places
  BY DEF CountDropped, Places
<1>0. PICK a \in Addresses : This(t) = a
  BY <1>1, InsideFacts
<1> USE <1>0
<1>2. /\ heap[a] \in SessionType /\ heap[a].state \notin Gone /\ heap[a].owner = t
      /\ call[t] \in CallType /\ call[t].session = a /\ call[t].pc = "lease_dropped"
  BY <1>1, InsideFacts
<1>3. /\ heap' = heap /\ \A u \in Threads \ {t} : call'[u] = call[u]
      /\ users' = users /\ leases' = Wrapped(call[t].read - 1)
      /\ call'[t].pc = "cleanup" /\ call'[t].session = a
  BY <1>2 DEF CountDropped, CallType, IInv, TypeOK
<1>4. "runtime_lease" \notin heap[a].owns
  BY <1>2 DEF LeaseInv, CallLease
<1>5. CountedAt(a) /\ ~ CountedAt(a)'
  BY <1>2, <1>3, <1>4, OwnCounted, CountedFrame DEF CountedAt
<1>6. Counted' = Counted \ {a} /\ a \in Counted
  BY <1>2, <1>3, <1>5, CountedFrame DEF Counted
<1>7. ASSUME Cardinality(users) <= 1 PROVE leases' = Cardinality(Counted')
  <2>1. call[t].read = leases /\ leases = Cardinality(Counted)
    BY <1>2, <1>7 DEF LeaseInv, ReadCurrent
  <2>2. Counted \in SUBSET Addresses /\ Counted \ {a} \in SUBSET Addresses
    BY DEF Counted
  <2>3. Cardinality(Counted \ {a}) = Cardinality(Counted) - 1
    BY <1>6, <2>2, CountFacts, FS_RemoveElement DEF IInv
  <2>4. Wrapped(Cardinality(Counted) - 1) = Cardinality(Counted) - 1
    BY <2>2, <2>3, CountFacts DEF IInv
  <2> QED
    BY <1>3, <1>6, <2>1, <2>3, <2>4
<1> QED
  BY <1>2, <1>3, <1>7, WriteFrame

-----------------------------------------------------------------------------
LEMMA LeaseStutter == LeaseInv /\ UNCHANGED vars => LeaseInv'
BY DEF LeaseInv, SessionLease, CallLease, ReadCurrent, Counted, CountedAt,
   TakingLease, DroppingLease, This, vars

LEMMA LeaseNext ==
  ASSUME CountableSessions
  PROVE  IInv /\ CleanInv /\ LeaseInv /\ [Next]_vars => LeaseInv'
<1> SUFFICES ASSUME IInv, CleanInv, LeaseInv, Next PROVE LeaseInv'
  BY LeaseStutter
<1>1. ASSUME NEW t \in Threads, CallStep(t) PROVE LeaseInv'
  BY <1>1, CreateLease, QuietCall, ModelAcquireLeaseLease DEF CallStep
<1>2. ASSUME NEW t \in Threads, InnerStep(t) PROVE LeaseInv'
  BY <1>2, AcquireLease, QuietStep, CountTakenLease, GiveBackLease,
     CountDroppedLease, DeleteLease DEF InnerStep
<1> QED
  BY <1>1, <1>2 DEF Next

(* As long as one thread has created all the sessions, g_runtime_leases is *)
(* the number of sessions that hold a lease whenever no call is half way   *)
(* through writing it: whatever fails, completes or is destroyed.          *)
THEOREM LeaseCountExact ==
  CountableSessions => (Spec => []LeasesCountedByOneThread)
<1> SUFFICES ASSUME CountableSessions PROVE Spec => []LeasesCountedByOneThread
  OBVIOUS
<1>1. LeaseInv => LeasesCountedByOneThread
  <2> SUFFICES ASSUME LeaseInv, Cardinality(users) <= 1, CountSettled
               PROVE  leases = Cardinality(Holders)
    BY DEF LeasesCountedByOneThread, LeasesCounted
  <2>1. Counted = Holders
    BY DEF Counted, CountedAt, Holders, TakingLease, DroppingLease, CountSettled
  <2> QED
    BY <2>1 DEF LeaseInv
<1> QED
  BY <1>1, Invariance, CleanInit, CleanNext, LeaseInit, LeaseNext, PTL DEF Spec
-----------------------------------------------------------------------------
(***************************************************************************)
(* As long as one thread creates the sessions and the table of retired     *)
(* sessions has room for every address, it holds the freed ones: whatever  *)
(* the allocator gives out again, and in whatever order.                   *)
(***************************************************************************)
Freed == {a \in Addresses : heap[a].state = "freed"}
EntriesDiffer ==
  \A i, j \in 1..RetiredSlots : retired[i] = retired[j] /\ retired[i] # NoAddress => i = j

(* The entry a thread has chosen is still the one to write. *)
ChoiceStands(t) ==
  call[t].pc = "delete" => call[t].read \in 1..RetiredSlots /\ FreeEntry(call[t].read)

TableInv ==
  /\ IsFiniteSet(users)
  /\ \A a \in Addresses : heap[a].state \notin Gone => heap[a].owner \in users
  /\ Cardinality(users) <= 1 =>
       Retired = Freed /\ EntriesDiffer /\ \A t \in Threads : ChoiceStands(t)

LEMMA TableInit == Init => TableInv
<1> SUFFICES ASSUME Init PROVE TableInv
  OBVIOUS
<1>1. ASSUME NEW a \in Addresses PROVE heap[a].state = "unallocated"
  <2>1. heap[a] = Session("unallocated", "none")
    BY DEF Init
  <2> QED
    BY <2>1 DEF Session
<1>2. \A t \in Threads : ChoiceStands(t)
  BY IdleType DEF Init, ChoiceStands
<1>3. retired = [i \in 1..RetiredSlots |-> NoAddress]
  BY DEF Init
<1>4. Retired = {} /\ Freed = {} /\ EntriesDiffer
  BY <1>1, <1>3 DEF Retired, Freed, EntriesDiffer
<1>5. IsFiniteSet(users)
  BY FS_EmptySet DEF Init
<1> QED
  BY <1>1, <1>2, <1>4, <1>5 DEF TableInv, Gone

(* A step of a thread on a living session that leaves it alive. *)
LEMMA TableFrame ==
  ASSUME IInv, TableInv, NEW t \in Threads, NEW a \in Addresses,
         heap[a].state \notin Gone, heap[a].owner = t,
         \A b \in Addresses \ {a} : heap'[b] = heap[b],
         heap'[a].state \notin Gone, heap'[a].owner = t,
         \A u \in Threads \ {t} : call'[u] = call[u],
         call'[t].pc = "delete" =>
           call'[t].read \in 1..RetiredSlots /\ FreeEntry(call'[t].read),
         UNCHANGED <<retired, users>>
  PROVE  TableInv'
<1>1. Freed' = Freed /\ Retired' = Retired
  BY DEF Freed, Retired, Gone
<1>2. \A b \in Addresses : heap'[b].state \notin Gone => heap'[b].owner \in users
  BY DEF TableInv
<1>3. EntriesDiffer => EntriesDiffer'
  BY DEF EntriesDiffer
<1>4. ASSUME NEW u \in Threads, ChoiceStands(u) PROVE ChoiceStands(u)'
  BY <1>4 DEF ChoiceStands, FreeEntry
<1> QED
  BY <1>1, <1>2, <1>3, <1>4 DEF TableInv

LEMMA TableCall ==
  ASSUME IInv, TableInv, NEW t \in Threads, NEW a \in Addresses,
         \/ Configure(t, a) \/ Preflight(t, a) \/ RunModel(t, a)
         \/ ModelCleanup(t, a) \/ Destroy(t, a) \/ ModelAcquireLease(t, a)
  PROVE  TableInv'
<1>1. /\ call[t].pc = "idle" /\ heap[a] \in SessionType
      /\ heap[a].state \notin Gone /\ heap[a].owner = t
  BY CallsFacts, IdleType DEF Configure, Preflight, RunModel, ModelCleanup, Destroy,
     ModelAcquireLease
<1>2. /\ heap'[a].owner = t /\ heap'[a].state \notin Gone
      /\ \A b \in Addresses \ {a} : heap'[b] = heap[b]
  <2>1. CASE ModelAcquireLease(t, a)
    BY <1>1, <2>1, TakesLeaseType DEF ModelAcquireLease, IInv, TypeOK
  <2> QED
    BY <1>1, <2>1 DEF Configure, Preflight, RunModel, ModelCleanup, Destroy, Gone,
       IInv, TypeOK, SessionType
<1>3. /\ call'[t].pc # "delete"
      /\ \A u \in Threads \ {t} : call'[u] = call[u]
      /\ UNCHANGED <<retired, users>>
  BY <1>1 DEF Configure, Preflight, RunModel, ModelCleanup, Destroy, ModelAcquireLease,
     Inside, IInv, TypeOK
<1> QED
  BY <1>1, <1>2, <1>3, TableFrame

(* Steps inside a call that leave the table alone. *)
LEMMA TableStep ==
  ASSUME IInv, TableInv, NEW t \in Threads,
         \/ Acquire(t) \/ AcquireFails(t) \/ Finish(t) \/ CountTaken(t)
         \/ GiveBack(t) \/ CountDropped(t) \/ Cleaned(t) \/ Remember(t)
  PROVE  TableInv'
<1>1. PICK pc \in {"acquire", "lease_taken", "cleanup", "lease_dropped", "remember"} : At(t, pc)
  BY DEF Acquire, AcquireFails, Finish, CountTaken, GiveBack, CountDropped, Cleaned, Remember
<1>0. PICK a \in Addresses : This(t) = a
  BY <1>1, InsideFacts DEF Places
<1> USE <1>0
<1>2. /\ heap[a] \in SessionType /\ heap[a].state \notin Gone /\ heap[a].owner = t
      /\ call[t] \in CallType /\ call[t].session = a /\ call[t].pc = pc
  BY <1>1, InsideFacts DEF Places
<1>3. /\ \A b \in Addresses \ {a} : heap'[b] = heap[b]
      /\ \A u \in Threads \ {t} : call'[u] = call[u]
      /\ UNCHANGED <<retired, users>>
  BY <1>2 DEF Acquire, AcquireFails, Finish, CountTaken, GiveBack, CountDropped, Cleaned,
     Remember, IInv, TypeOK
<1>4. heap'[a].owner = t /\ heap'[a].state \notin Gone
  <2>1. CASE Acquire(t)
    <3> DEFINE i == call[t].step
               reached == [heap[a] EXCEPT !.state = StateAfter[i]]
    <3>1. i \in 1..9
      <4>1. i \in 0..10 /\ i <= 9 /\ (i = 1 \/ i > 1)
        BY <1>2, <2>1, SequenceFacts DEF Acquire, CallType
      <4> QED
        BY <4>1
    <3>2. reached \in SessionType /\ reached.state \notin Gone /\ reached.owner = t
      BY <1>2, <3>1, SequenceFacts, StateFacts DEF SessionType
    <3>3. \/ heap'[a] = TakesLease(reached)
          \/ heap'[a] = reached
          \/ heap'[a] = [reached EXCEPT !.owns = @ \cup {Acquisitions[i]},
                                        !.acquired = Append(@, Acquisitions[i])]
      BY <1>2, <2>1 DEF Acquire, IInv, TypeOK
    <3> HIDE DEF reached
    <3> QED
      BY <3>2, <3>3, TakesLeaseType DEF SessionType
  <2>2. CASE AcquireFails(t) \/ Finish(t) \/ Cleaned(t) \/ Remember(t)
    BY <1>2, <2>2 DEF AcquireFails, Finish, Cleaned, Remember, StateCleaned, Gone,
       IInv, TypeOK, SessionType
  <2>3. CASE CountTaken(t) \/ CountDropped(t)
    BY <1>2, <2>3 DEF CountTaken, CountDropped, Gone, IInv, TypeOK, SessionType
  <2>4. CASE GiveBack(t)
    <3>1. PICK i \in DOMAIN CleanupOrder :
            heap' = [heap EXCEPT
              ![a].owns = @ \ {CleanupOrder[i]},
              ![a].cleanup = Append(@, CleanupOrder[i]),
              ![a].cleanup_errors =
                IF call[t].failure = [phase |-> "cleanup", at |-> CleanupOrder[i]]
                  THEN @ + 1 ELSE @]
      BY <2>4 DEF GiveBack
    <3>2. heap'[a].state = heap[a].state /\ heap'[a].owner = heap[a].owner
      BY <1>2, <3>1 DEF SessionType, IInv, TypeOK
    <3> QED
      BY <1>2, <3>2
  <2> QED
    BY <2>1, <2>2, <2>3, <2>4
<1>5. call'[t].pc = "delete" =>
        call'[t].read \in 1..RetiredSlots /\ FreeEntry(call'[t].read)
  <2>1. CASE Remember(t)
    BY <1>2, <2>1 DEF Remember, CallType, IInv, TypeOK
  <2>2. CASE Acquire(t) \/ AcquireFails(t) \/ Finish(t)
    BY <1>1, <1>2, <2>2 DEF Acquire, AcquireFails, Finish, CallType, IInv, TypeOK
  <2>3. CASE GiveBack(t)
    <3>1. PICK i \in DOMAIN CleanupOrder :
            call' = IF CountsBack(CleanupOrder[i])
                      THEN [call EXCEPT ![t].pc = "lease_dropped", ![t].read = leases]
                      ELSE call
      BY <2>3 DEF GiveBack
    <3>2. call'[t].pc = "lease_dropped" \/ call'[t].pc = pc
      BY <1>2, <3>1 DEF CallType, IInv, TypeOK
    <3> QED
      BY <3>2
  <2>4. CASE CountTaken(t) \/ CountDropped(t) \/ Cleaned(t)
    BY <1>2, <2>4, IdleType DEF CountTaken, CountDropped, Cleaned, CallType, IInv, TypeOK
  <2> QED
    BY <2>1, <2>2, <2>3, <2>4
<1> QED
  BY <1>2, <1>3, <1>4, <1>5, TableFrame

(* Only the thread that creates the sessions can be inside a call. *)
LEMMA OthersIdle ==
  ASSUME IInv, TableInv, NEW t \in users, Cardinality(users) <= 1, NEW u \in Threads \ {t}
  PROVE  call[u].pc = "idle"
<1>1. call[u].pc # "idle" => u \in users
  BY DEF TableInv, IInv, CallInv, OwnCall
<1> QED
  BY <1>1, AtMostOne DEF TableInv

LEMMA TableCreate ==
  ASSUME IInv, TableInv, NEW t \in Threads, NEW a \in Addresses, Create(t, a)
  PROVE  TableInv'
<1>1. /\ call[t].pc = "idle" /\ call' = call /\ heap[a].state \in Gone
      /\ users' = users \cup {t}
      /\ retired' = [i \in 1..RetiredSlots |->
                       IF retired[i] = a THEN NoAddress ELSE retired[i]]
  BY IdleType DEF Create, Live, Forgotten, IInv, TypeOK
<1>2. /\ heap'[a].owner = t /\ heap'[a].state = "created"
      /\ \A b \in Addresses \ {a} : heap'[b] = heap[b]
  BY DEF Create, IInv, TypeOK, Session
<1>3. IsFiniteSet(users') /\ (Cardinality(users') <= 1 => Cardinality(users) <= 1)
  <2>1. IsFiniteSet(users) /\ Cardinality(users) \in Nat
    BY FS_CardinalityType DEF TableInv
  <2>2. /\ IsFiniteSet(users \cup {t})
        /\ Cardinality(users \cup {t}) =
             IF t \in users THEN Cardinality(users) ELSE Cardinality(users) + 1
    BY <2>1, FS_AddElement
  <2> QED
    BY <1>1, <2>1, <2>2
<1>4. \A b \in Addresses : heap'[b].state \notin Gone => heap'[b].owner \in users'
  BY <1>1, <1>2 DEF TableInv
<1>5. ASSUME Cardinality(users') <= 1
      PROVE  Retired' = Freed' /\ EntriesDiffer' /\ \A u \in Threads : ChoiceStands(u)'
  <2>1. Retired = Freed /\ EntriesDiffer
    BY <1>3, <1>5 DEF TableInv
  <2>2. Freed' = Freed \ {a}
    BY <1>2 DEF Freed
  <2>3. Retired' = Retired \ {a}
    BY <1>1 DEF Retired, IInv, TypeOK
  <2>4. EntriesDiffer'
    BY <1>1, <2>1 DEF EntriesDiffer
  <2>5. ASSUME NEW u \in Threads PROVE call[u].pc # "delete"
    <3>1. CASE u = t
      BY <1>1, <3>1
    <3>2. CASE u # t
      <4>1. call[u].pc # "idle" => u \in users' /\ t \in users'
        BY <1>1 DEF TableInv, IInv, CallInv, OwnCall
      <4> QED
        BY <1>3, <1>5, <3>2, <4>1, AtMostOne
    <3> QED
      BY <3>1, <3>2
  <2> QED
    BY <1>1, <2>1, <2>2, <2>3, <2>4, <2>5 DEF ChoiceStands
<1> QED
  BY <1>3, <1>4, <1>5 DEF TableInv

(* With room for all the addresses, the entry chosen is an empty one. *)
LEMMA EntryIsEmpty ==
  ASSUME IsFiniteSet(Addresses), Cardinality(Addresses) <= RetiredSlots,
         IInv, TableInv, Cardinality(users) <= 1, NEW a \in Addresses \ Freed,
         NEW i \in 1..RetiredSlots, FreeEntry(i)
  PROVE  retired[i] = NoAddress
<1> SUFFICES ASSUME \A j \in 1..RetiredSlots : retired[j] # NoAddress PROVE FALSE
  BY DEF FreeEntry, IInv, TypeOK
<1>1. Retired = Freed /\ EntriesDiffer
  BY DEF TableInv
<1>2. retired \in [1..RetiredSlots -> Freed]
  BY <1>1 DEF Retired, IInv, TypeOK
<1>3. /\ IsFiniteSet(Freed) /\ Cardinality(Freed) < RetiredSlots
  <2>1. Freed \subseteq Addresses \ {a}
    BY DEF Freed
  <2>2. /\ IsFiniteSet(Addresses \ {a})
        /\ Cardinality(Addresses \ {a}) = Cardinality(Addresses) - 1
    BY FS_RemoveElement
  <2>3. /\ IsFiniteSet(Freed) /\ Cardinality(Freed) <= Cardinality(Addresses \ {a})
    BY <2>1, <2>2, FS_Subset
  <2>4. Cardinality(Freed) \in Nat /\ Cardinality(Addresses) \in Nat /\ RetiredSlots \in Nat
    BY <2>3, FS_CardinalityType, ParametersAssumption
  <2> QED
    BY <2>2, <2>3, <2>4
<1>4. IsFiniteSet(1..RetiredSlots) /\ Cardinality(1..RetiredSlots) = RetiredSlots
  <2>1. RetiredSlots \in Nat \ {0}
    BY ParametersAssumption
  <2>2. 1 \in Int /\ RetiredSlots \in Int /\ ~(1 > RetiredSlots) /\ RetiredSlots - 1 + 1 = RetiredSlots
    BY <2>1
  <2> QED
    BY <2>2, FS_Interval
<1>5. \E j, k \in 1..RetiredSlots : j # k /\ retired[j] = retired[k]
  <2> HIDE DEF Freed
  <2> QED
    BY <1>2, <1>3, <1>4, FS_PigeonHole
<1> QED
  BY <1>1, <1>5 DEF EntriesDiffer

LEMMA TableDelete ==
  ASSUME IsFiniteSet(Addresses), Cardinality(Addresses) <= RetiredSlots,
         IInv, TableInv, NEW t \in Threads, Delete(t)
  PROVE  TableInv'
<1>1. At(t, "delete") /\ "delete" \in Places
  BY DEF Delete, Places
<1>0. PICK a \in Addresses : This(t) = a
  BY <1>1, InsideFacts
<1> USE <1>0
<1> DEFINE i == call[t].read
<1>2. heap[a].owner = t /\ call[t].pc = "delete" /\ heap[a].state \notin Gone
  BY <1>1, InsideFacts
<1>3. /\ heap'[a].state = "freed" /\ call'[t].pc = "idle"
      /\ \A b \in Addresses \ {a} : heap'[b] = heap[b]
      /\ \A u \in Threads \ {t} : call'[u] = call[u]
      /\ users' = users /\ retired' = [retired EXCEPT ![i] = a]
  BY IdleType DEF Delete, Session, IInv, TypeOK
<1>4. \A b \in Addresses : heap'[b].state \notin Gone => heap'[b].owner \in users
  BY <1>3 DEF TableInv, Gone
<1>5. ASSUME Cardinality(users) <= 1
      PROVE  Retired' = Freed' /\ EntriesDiffer' /\ \A u \in Threads : ChoiceStands(u)'
  <2>1. Retired = Freed /\ EntriesDiffer /\ ChoiceStands(t)
    BY <1>5 DEF TableInv
  <2>2. i \in 1..RetiredSlots /\ FreeEntry(i) /\ a \notin Freed
    BY <1>2, <2>1 DEF ChoiceStands, Freed, Gone
  <2>3. retired[i] = NoAddress
    BY <1>5, <2>2, EntryIsEmpty
  <2>4. /\ retired'[i] = a /\ \A j \in (1..RetiredSlots) \ {i} : retired'[j] = retired[j]
        /\ DOMAIN retired = 1..RetiredSlots /\ DOMAIN retired' = 1..RetiredSlots
    BY <1>3, <2>2 DEF IInv, TypeOK
  <2>5. a # NoAddress
    BY ParametersAssumption
  <2>6. Retired' = Retired \cup {a}
    BY <2>2, <2>3, <2>4, <2>5 DEF Retired
  <2>7. Freed' = Freed \cup {a}
    BY <1>3 DEF Freed
  <2>8. EntriesDiffer'
    <3>1. \A j \in 1..RetiredSlots : retired[j] # a
      BY <2>1, <2>2, <2>4, <2>5 DEF Retired
    <3> QED
      BY <2>1, <2>2, <2>4, <3>1 DEF EntriesDiffer
  <2>9. ASSUME NEW u \in Threads PROVE call'[u].pc # "delete"
    <3>1. t \in users
      BY <1>2 DEF TableInv
    <3> QED
      BY <1>3, <1>5, <3>1, OthersIdle
  <2> QED
    BY <2>1, <2>6, <2>7, <2>8, <2>9 DEF ChoiceStands
<1>6. IsFiniteSet(users')
  BY <1>3 DEF TableInv
<1> QED
  BY <1>3, <1>4, <1>5, <1>6 DEF TableInv

LEMMA TableStutter == TableInv /\ UNCHANGED vars => TableInv'
BY DEF TableInv, Retired, Freed, EntriesDiffer, ChoiceStands, FreeEntry, vars

LEMMA TableNext ==
  ASSUME IsFiniteSet(Addresses), Cardinality(Addresses) <= RetiredSlots
  PROVE  IInv /\ TableInv /\ [Next]_vars => TableInv'
<1> SUFFICES ASSUME IInv, TableInv, Next PROVE TableInv'
  BY TableStutter
<1>1. ASSUME NEW t \in Threads, CallStep(t) PROVE TableInv'
  BY <1>1, TableCreate, TableCall DEF CallStep
<1>2. ASSUME NEW t \in Threads, InnerStep(t) PROVE TableInv'
  BY <1>2, TableStep, TableDelete DEF InnerStep
<1> QED
  BY <1>1, <1>2 DEF Next

(* As long as one thread has created all the sessions and the table has    *)
(* room, retired() refuses the addresses of freed sessions and no others.  *)
THEOREM RetiredIsExact == IsFiniteSet(Addresses) => (Spec => []RetiredExactlyFreed)
<1>1. CASE Cardinality(Addresses) <= RetiredSlots
  <2> SUFFICES ASSUME IsFiniteSet(Addresses) PROVE Spec => []RetiredExactlyFreed
    OBVIOUS
  <2>1. TableInv => RetiredExactlyFreed
    BY DEF TableInv, RetiredExactlyFreed, Freed
  <2>2. IInv /\ TableInv /\ [Next]_vars => TableInv'
    BY <1>1, TableNext
  <2> QED
    BY <2>1, <2>2, Invariance, TableInit, PTL DEF Spec
<1>2. CASE ~(Cardinality(Addresses) <= RetiredSlots)
  <2>1. RetiredExactlyFreed
    BY <1>2 DEF RetiredExactlyFreed
  <2> QED
    BY <2>1, PTL
<1> QED
  BY <1>1, <1>2
=============================================================================
