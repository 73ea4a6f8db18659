# Verification of hccl-agent in TLA+

hccl-agent is a set of tools around collective communication for Ascend
devices: a C library that executes the HCCL collectives on the CPU (`hcccl/`),
a Python plugin that drives it and the official HCCL-VM simulator (`plugin/`),
generators of collective schedules (`algorithm/`), feature models for
integrity and flow control (`feature_completion/`), failure simulation
(`simulator/`, `topology/`, `hardware/`), an agent that plans and reflects
(`agent/`), and a large number of audit and reporting tools (`tools/`).

This directory holds TLA+ specifications of the parts in which control matters
more than computation, the TLC configurations that check them on small
instances, and theorems about them that TLAPS proves for all instances.

## 1. Components

| component | state it keeps | operations | what is hard about it |
|---|---|---|---|
| flow control `feature_completion/flow_control.py` | credits, in-flight chunks, pause flag, ticks | one call that loops over ticks | three limits on one queue, hysteresis, a loop bounded by a budget |
| integrity transport `hcccl/src/internal/integrity_transport.c` | test configuration and statistics (process-wide), attempt state | execute, verify_chunked, configure, clear, reset | retries, logical timeouts, partial success, accounting over calls |
| official validation `plugin/hccl_vm_*.py`, `main.py`, `agent/final_audit.py` | child process, output buffer shared with a reader thread, deadline; the suite's outcomes and its evidence directory | verify-official: resolve, diagnose, run a session, archive, sum up; later the final audit | three concurrent actors, deadlines, escalation of signals, late output, an environment that changes between sessions, directories left half written |
| schedules `algorithm/ring_schedule.py`, `topology_schedules.py` | none; they produce phases of transfers | one generator per algorithm | index arithmetic, transfers of a phase in any order |
| AllReduce execution `plugin/execution_engine.py`, `hcccl/src/hccl_comm.c`, `hccl_algorithms.c` | the communicator: one row per rank, capacity, receive buffer | init, two passes over the ranks, destroy | ignored failures, storage replaced between calls |
| direct adapter `hcccl/direct/src/hccl_direct_adapter.cpp` | session states, leases, retired handles (process-wide) | create, configure, preflight, lease, run, cleanup, destroy | several threads, cleanup after partial acquisition |
| replanner and topology caches `algorithm/replanner.py`, `topology_model.py` | topology, caches keyed by hash | link and rank events, replan | stale caches, events that undo each other only in part |
| failure simulation `simulator/` | health of links and nodes | inject, check, reroute, retry | decisions on a health state that changes |
| dynamic topology `topology/dynamic_topology.py` | node count, version, events | apply one or many events | clamped counters |
| resource manager `hardware/resource_manager.py` | HBM and UB in use per node | allocate, release | release without ownership |
| sparse codec, schedule IR in C `hcccl/src/` | none | encode, decode, generate | bounds of encodings |
| agent `agent/`, `main.py` | experience log | plan, execute, reflect | little: a sequential pipeline |
| cost, calibration, knowledge | none | formulas in floating point | out of reach of model checking |
| submission tools `tools/submission_cli/` | build, install and staging directories, result files, evidence | quick, full, stage, evidence, clean-generated | commands that fail or are killed half way, and a working tree that moves on meanwhile |
| release tools `tools/release_cli.py`, `release_audit/` | candidate, archive, extraction, tracked metadata, evidence | build, extract, cold start, audit, freeze, synchronize | what one command verified may be replaced before the next uses it |
| delivery documents `tools/reporting/`, `agent_delivery/`, `visualization/`, `demo_delivery/` | documents that pin one another's digests, evidence frozen at four checkpoints | build, verify, stage, freeze, run the demo | documents derived at different revisions, merges between build and freeze |
| audits `tools/submission_audit/` | none | compare files | input and output |

How they interact. The engine loads the C library and calls it in sequence;
in the library, `hccl_sparse_prepared_init` (sparse_codec.c:288) passes every
rank's input through the integrity transport before an AllReduce, AllGather or
ReduceScatter kernel may read it. The
selector picks among the schedules, the replanner calls the selector after a
topology event. The agent calls the engine, the selector and the simulators.
The runner starts the official simulator as a child process and talks to it
through pipes. Threads appear only in the runner (one reader thread) and are
expected, though not started, by the direct adapter. The tools are processes
that run one after the other and meet in files: the release tools start from
the directory that the submission tools stage, the delivery tools from the
evidence that the checkpoint before has frozen, and the final audit from the
directory a validation suite has left.

`PROJECT.json` names for every component what is modelled, and under "hazards"
every place where something can go wrong that a test would hardly reach.
Where a hazard lists no property its note says why: a timeout near 2^64 that wraps
(`TicksFit` takes it out of `OutcomeDetermined`), leases counted by two threads at
once, a process name that `ps` cuts and a launch that raises are in the models, but
the code promises nothing about them that a property could state and that holds.

## 2. Modules

Each specification `X` has a module `MCX` with its TLC instance; proofs are in
`XProofs`, those of `FlowControl` and `IntegrityTransport` in `TransportProofs`,
those of `AllReduceExecution` and `ScheduleExecution` in `CollectiveProofs`.

### FlowControl, refining BoundedChannel

`simulate_flow_control`. `args` holds any argument that passes the checks
(`Args`, from `validate_flow_config`); `inflight`, `completed`, `produced`,
`credit`, `paused`, `blocked`, `tick` are the local variables of the same
meaning. The loop body is cut at the places where it branches: `Consume` (loop
condition, batch from the front, resume), one `ProduceChunk`, `ProducerBlocked`
or `ProducerIdle` per turn of the producer's for-loop, `EndTick` with the
run-time self check, `Finish`. `at = "failed"` is the `RuntimeError`. A chunk is
its number; the memory budget counts chunks.

`BoundedChannel` is what the component promises: a producer and a consumer
joined by a lossless FIFO channel of bounded capacity.

### IntegrityTransport, refining VerifiedTransfer

`hccl_integrity_verify_chunked` and `hccl_integrity_execute` with the globals
they use. One action per outcome of an attempt (`AcceptChunk`, `Retry`,
`GiveUp`) with `Verdict` the chain of branches between the copy and the end of
the loop body, and `Configure`, `RuntimeReset` between calls. A copy is
"intact" or "corrupt": CRC32 tells any single flipped bit or byte. Ticks are
taken modulo `TickModulus`, which is 2^64 in the code.

`VerifiedTransfer` is the promise "verification before acceptance": only intact
pieces are accepted, in order, and the call succeeds exactly when the whole
payload is.

### HcclVmContracts, InteractiveRunner, OfficialSuite

`python main.py verify-official`, in three layers.

`HcclVmContracts` has no state: the registry's contracts and which requests
resolve to one (`hccl_vm_registry.py`), and what `hccl_vm_checker.py` accepts of
a checker's output. An output is a set of operation blocks, each a summary with
the outcome of its stages, and a few facts about the whole log; finding them
with regular expressions is left out. `Comm` is the kernel's: a process name is
cut after fifteen characters.

`InteractiveRunner` is one session: the shell, the reader thread and the driver.
`ReadOutput`, `ExtendOutput` and `CloseReader` are the thread; every action that
changes `pc` is the driver and follows the statements of
`_execute_interactive_process`. The shell is external and may do anything a
shell can: run commands or not, fail them, leave early, orderly or not, close
its output before it is reapable, ignore SIGTERM, leave the test program behind
(`holder`), which holds the pipe open. Time is the flag `expired`, which may be
set at any moment; the 10 s and 5 s graces may end at any moment too. `Verify`
is the second half of `HcclVmRunner.verify`, the first half being the suite's.

`OfficialSuite` runs such sessions for the requests of a command (`G2E`, or a
single one). The environment belongs to others: each diagnosis finds one of
`Environments`, which answers as `_classify_report` and `diagnose_for` would
have it, and the suite goes on to `Launch`, `Blocked` or, where the code raises,
`Abort`. `Collect` and `Archive` end a session; `OpenFile` and `FinishFile` write
the suite's directory in the order of `archive_g2_e_suite_evidence`, so that
`Killed` may leave any part of it; `Audit` is the inventory of
`final_audit.py`, which reads that directory in a process of its own. Of an
outcome that passed, `sound` remembers whether its commands really all ran and
succeeded; nothing in the code reads it. The directories of single sessions are
written in one step, because nothing in these programs reads them again, and
what becomes of a shell whose agent is killed is left out.

### ScheduleExecution

The phases that the generators emit, as operators (`RingPhase`,
`ButterflyPhase`, `NhrPhase`, `HierarchicalPhase`, `MeshPhase`), and an
executor, which the repository does not contain and which is therefore as free
as the schedule allows: a phase begins when the one before it is over, and
within a phase each transfer reads its source and is delivered at its
destination at any two moments. A chunk's content counts each rank's
contribution up to two. The order `nhr_order` finds depends on link costs;
every order that starts at rank 0 is tried. In the code `groups` sorts group
names as strings, so leaders are in numeric order only up to ten groups; the
instances stay far below.

### AllReduceExecution

`execute_allreduce_data` and the variants behind `execute_algorithm`, over the
communicator and `run_allreduce_reference_kernel`. A reduction is the set of
ranks in it. Memory may run out at any call, before or after the storage is
replaced (`ensure_allreduce_storage`), at most `MaxFailures` times.

### DirectSession

The sessions of `hccl_direct_adapter.cpp`, used by several threads. `heap` is
the session at each address (`DirectSession`'s fields, and as history the
resources in the order taken), `leases` is `g_runtime_leases`, `retired` is
`g_retired_sessions`, `call` is where each thread is inside a call. A session
belongs to the thread that created it and is touched by no other (`owner`,
which every call checks), so a thread's work on its own session needs no
interleaving; what the threads share is the counter and the table, which are
plain variables. Their updates are therefore cut into a read and a write:
`ModelAcquireLease` or `Acquire` reads the counter and `CountTaken` writes it,
`GiveBack` and `CountDropped` likewise, `Remember` chooses an entry of the table
and `Delete` writes it. Any other interference a data race may produce is not
modelled. The remaining actions are the calls (`Create` with `forget_retired`,
`Configure`, `Preflight`, `RunModel`, `ModelCleanup`, `Destroy`) and the steps
of `run_model` (`Acquire`, `AcquireFails`, `Finish`) and `cleanup` (`Cleaned`).

Left out are the calls that are refused, the queries, the capacity arithmetic
and the hardware entry points, none of which changes a session of a host-only
build; and an old handle whose address has been given out again, which the code
cannot tell from the new one. The code injects a single failure per run, so a
failed acquisition and a failed cleanup never meet: that a cleanup error does
not replace the first error is not put to the test.

### Replanning

Topologies with their links, the hash stored in them and the caches of
`topology_model.py`, keyed by it for as long as the process lives. `Updated` is
`apply_topology_event`, `Candidates` the selector over the five algorithms, each
reduced to the pairs of ranks it needs a route (or, for Hierarchical, a link)
between and to the conditions under which its generator refuses. Costs decide
only which candidate is chosen and are any. A hash is the topology without its
hash field, so that it collides exactly when the code forgets to compute it
again. `raised` is the exception of `attach_memory_report`; callers then keep
the topology they had.

### StagedTree, SubmissionPipeline, ReleasePipeline

`StagedTree` is what both tools write and verify: a directory, its
`MANIFEST.json` and its `SHA256SUMS`. A digest is the content itself, and a
content is the revision it was read from.

`SubmissionPipeline` is `tools/submission_cli/core.py`. A command is the list of
its steps (`Plans`), read off its function; each step is an action on
directories with or without the marker file, on the result files and on the
evidence. Between any two steps the working tree may move to its next revision,
any step may fail or be the last (`Fail`), and a removal or the writing of
evidence may stop half way (`BreakCleaning`, `BreakSealing`). What can be wrong
with a revision is one of the checks it fails.

`ReleasePipeline` is `tools/release_cli.py` with the staging of the submission
as its first step: overlays, candidate, archive, clean extraction, cold starts,
audits, the frozen evidence and the metadata in `docs/submission/release`, which
the next candidate packs. Steps are cut as in the submission; a person may edit
the candidate or the older documents at any moment. `build_staging` is two
steps, the staging of the submission (`BuildStaging`) and what is laid over it
for the demo (`OverlayDemo`), so that a command cut short may leave the first
without the second.

### DeliveryChain

The documents of the checkpoints G3-C to G3-F and the evidence that freezes
them. A document is what it was derived from: `facts` for the numbers of the
experiments, `commit` for the merge base a report names, revisions for the source
files that an inventory or a registry pins. There is one source file of each
kind that the tools treat differently: `main.py`, which is a component of the
authority inventory; a loop of the agent, which is a component, a row of the
registries and a source of the innovation map; a skill, which may come and go and
has a row if it is there when the registries are built; and the library.

Validations compare only what the code compares. `RegistriesHold` looks at the
rows the registry has (`Rows`) and `AuthorityHolds` at the components: whether a
file is missing from the registry, and the inventory's list of all tracked files,
are not looked at again. `VisualAuthorityHolds` compares the number of rows with
the one G3-E's source names. Where the code checks identifiers and no digest
(`AgentDocsHold`, `NarrativeHolds`, `StoryboardHolds`, `PresentationHolds`), so
does the model. Merges, commits, edits and builds or freezes cut short happen in
any order.

## 3. Runs

| run | instance | shows |
|---|---|---|
| `flow_control` | all configurations with window <= 3, rate <= 2, patterns of up to 3 capacities in 0..2, up to 4 chunks | `NeverRaises`, `HighWatermarkBounds`, `DrainsWithinBudget`, `ImplementsChannel` |
| `integrity_transport` | all faults, 0..2 retries, fault lasting for 0..2 attempts, payload <= 3 in pieces of 1 or 2, two recorded transfers, one timeout that wraps the ticks | `OutcomeDetermined`, `RetransmissionAccounted`, `ImplementsVerifiedTransfer` |
| `official_suite` | the suite, or one of 48 requests; sessions of two marked commands; six environments; a checker that prints one block of any operation | `PassIsGenuine`, `AuditedIsGenuine`, `NoCommandAfterFailure`, `CommandEnds` |
| `schedule_execution` | Ring on 2..5 ranks, Butterfly on 2 and 4, NHR and Mesh on 2..4, Hierarchical with two groups of at most 2 | `Complete`, `RingExactlyOnce`, `NothingLost` |
| `allreduce_execution` | 1..5 ranks where the kernels support 4, 1 or 2 elements, up to three failures | `ReducedWhenHealthy`, `SuccessCoversPredecessors` |
| `direct_session` | two threads, three addresses used again and again, a table of three, a counter modulo 4, no failure or one when taking the lease, taking the send buffer or giving back the stream | `CleanupReverses`, `LeasesCountedByOneThread`, `RetiredExactlyFreed`, `SessionOutlivesCall` |
| `replanning` | 2..4 ranks in groups of two, three shapes, three primitives, four budgets, Ring up to 3 ranks, two events or rebuilds | `ReplannedIsRoutable`, `NoPathMeansNoPath` |
| `submission_pipeline` | two revisions with five histories, three commands, one removal or sealing cut short or one edit | `FullIsOneRevision`, `EvidenceBacked`, `LockedOutOnlyByBrokenRemoval` |
| `release_pipeline` | two revisions, four states of the release documents, one break or edit | `PublishedIsOneBuild`, `EvidenceBacked` |
| `delivery_chain` | two merges, one edit, commit or command cut short | `AgentEvidenceMatches`, `FiguresShowLedger`, `RebuildReproduces` |

Each of these runs also checks the type invariant of its module. Two more runs,
`schedule_three_groups` and `allreduce_fake_success`, each show a disagreement
between the code and what its documents say; they are described in section 5.

Why the bounds are enough. *Flow control*: a window of three credits has every
order of low, high, in-flight bound and window, with the first two equal or
not; three capacities give a consumer that stalls, surges and settles; more
chunks repeat the same states (and the theorems need no bound at all).
*Integrity*: two retries have a first, a middle and a last attempt; a payload
of three pieces likewise. *Suite*: of two commands one comes before and one
after any that fails; the suite itself has its real length of three; the
environments differ from the good one in one thing each - the version, the
commits, a missing test program, a probe cut short, no shell - and change
between sessions. *Schedules*: five ranks have chunk indices that wrap
round in every phase; two groups of two have a leader and a member on either
side. *AllReduce*: five ranks include every power of two up to four, a number
that is not one, and one above the limit. *Direct adapter*: the three failure
points are the first and a middle resource and one inside the cleanup; a session
can be under way, retired and new at the same time; the counter can count the
three sessions and still wraps when it goes below zero. Threads and addresses
are symmetric. *Replanning*: three ranks are no power of two and four are, four
exceed Ring's limit, two groups make Hierarchical possible, and two events suffice
for a link to fail and recover, or for two to fail. *Submission*: three commands
leave something behind, use it and seal it, with a revision that differs in
between. *Release*: four states of the release documents allow two candidates to
be published, an extraction and a synchronisation; no cold start is tried again
after one comparison has passed or after the clean extraction, which reads
nothing of them. *Delivery*: two merges put one on either side of a build, and one
touch is a skill that comes, goes or changes between two of them.

Fairness is assumed in `OfficialSuite` only, and only what the operating
system gives: the agent's process and the thread that drives a session run,
time passes (so the deadline does), and a process sent SIGKILL ends. Nothing is
assumed of the shell, its descendants or the reader thread: `CommandEnds` holds
with a shell that hangs for ever. The other specifications check safety only.
Deadlock is checked in `integrity_transport` and `direct_session`, whose callers
may always call again; the others model one call, a command that ends, or a user
who may stop.

For every property the project also keeps a mutant, an operator next to the one
it replaces ("Seeded fault" or "mutant" in the comments) that breaks exactly the
care the property is about.

## 4. Theorems

For the prover's needs a module of proofs may cover two components, so
`TransportProofs` extends both halves of the transport; the definitions of
`FlowControl` carry `Flow` in the names that the two would share. Every theorem
is about all values of the constants, within the assumptions named at the end of
this section.

### Transport

`TransportProofs`, on `FlowControl`: all its properties for every configuration,
pattern and number of chunks. The inductive invariant `FlowInv` adds to the
types:

- `Conserved`: credit and chunks in flight add up to the window, at most
  `max_inflight` are in flight, and every produced chunk is either in flight or
  completed;
- `PauseInv`: a paused producer has more than `low` chunks in the pipe after
  the consumer's turn, and when `low < high` a pipe at the high watermark is
  paused - without this flag's meaning the watermark bound is not inductive;
- `ProgressInv`: if the last capacity of the pattern is positive, the tick never
  exceeds the pattern's length plus two per completed chunk plus one while the
  pipe holds a chunk. This is the reason the tick budget is enough;
- `BudgetInv`: a tick is under way only within the budget, and adds at most one
  to the blocked ticks;
- `NeverRaises`: the self check never found a disagreement.

`FlowImplementsChannel` is the refinement of `BoundedChannel`.
`BlockedProducerHasBacklog` is proved and not run: a blocked producer always
leaves the consumer something to take.

On `IntegrityTransport`: the types, the accounting of retransmission, which
transfers succeed (`OutcomesDetermined`) and the refinement of `VerifiedTransfer`,
for every set of configurations. The invariant `CallInv` says that a call under
way has a piece left (or an empty payload), that what was retransmitted of the
current piece is the attempt number times its size, and that a success has
covered the whole payload. That an accepted copy is intact is not carried by the
invariant but shown at the step that accepts it: `VerdictFacts` proves that the
verdict succeeds only on an intact copy. For the outcome `Foreseeable` is added: a
call under way has a configuration that is not refused at once, and as long as
no tick wraps only a fault worth a retry brings it to a second attempt.

### Direct adapter

`DirectSessionProofs`, for any number of threads and sessions and all seventeen
choices of a failure point. `SessionOutlivesCall` rests on `OwnCall`: a thread
inside a call works on a live session of its own, and since a session has one
owner no two threads are inside calls on the same one. `CleanupReverses` rests on
`SessionInv`, which describes a session's whole history by two numbers, `n`
resources taken of which the last `k` were given back (`Stage`), and on
`CallStage`, which ties `n` to the step `run_model` has reached; that the next
thing cleanup gives back is the last one still held is a fact about the two
orders (`HeldFacts`). `LeasesCountedByOneThread` rests on `LeaseInv`: it counts
the sessions between the end of an increment and the end of a decrement
(`Counted`), says that what the one thread has read of the counter is still
current, and that a session about to be freed owns nothing. `RetiredIsExact`
rests on `TableInv`: no session is in two entries, and the entry a thread has
chosen is still free when it writes it. That it is also an empty one, and not
the first one overwritten, is a matter of counting (`EntryIsEmpty`).

### Collectives

`CollectiveProofs` is about two specifications. On `AllReduceExecution`:
`ReducesWhenHealthy` and `SuccessIsCovered`, for any number of ranks, any limit of
the kernels and any number of times memory runs out. `Healthy` follows the rows of
the communicator through both passes while nothing fails: before rank `r` submits,
exactly the rows below `r` are stored and the storage fits, so that a later call
does not clear them. `Checked` is what is left of that when submissions may fail
and only retrievals are checked: the rows of the ranks already retrieved, in a
storage that fits.

On `ScheduleExecution`, for any number of ranks, group size and fan-out, any ring
that `nhr_order` may find and any interleaving of a phase's transfers:
`SchedulesComplete`, `RingsAreExact` and the action property `NothingIsLost`. The
argument has two halves. The first is arithmetic, without state: what phase `i` of
each generator must be (`Proper`, `Brings`, `Keeps`). `Reached(r, i)` says whose
contributions rank `r` must have after `i` phases - for Butterfly the ranks that
agree with `r` above the lowest `i` bits, for NHR those at most `i` places before it
in the ring, for Mesh those near enough to have sent, for Hierarchical its group and
the group before. A phase brings what the next one needs, and its copies destroy
nothing that another transfer brings. `Bit` is a recursive function, so that `1 << k`
exists and doubles is proved (`BitDefined`) by induction upon sets of numbers.

The second half is the execution. `Book` says that a transfer of the phase is either
unsent, under way or over. `Covered` says that every rank, every message and every
receiver of a transfer that is over holds what `Reached` demands of it. It is enough
for `Complete`, since `Reached` is all ranks after the last phase; but only with
`TwoGroups`: the leaders of Hierarchical exchange with one neighbour, and with a
third group the claim is false (run `schedule_three_groups`). It is too weak for
`NothingLost`, which is about what a chunk has beyond that. `MembersLag` adds that in
Hierarchical no member is ahead of its leader when the leader's copy comes.

A lower bound says nothing of "exactly once". `RingInv` therefore gives the content
of the chunks of a Ring exactly: while it reduces, chunk `c` on rank `r` holds the
contributions of the ranks from `c`'s successor up to `r` if its turn has come, and
`r`'s own if not (`Reducing`); while it gathers it is whole if its turn has come
(`Gathering`). A message still has the content that its sender has, since a phase
never writes a chunk that it reads.

### Official validation

`OfficialSuiteProofs`: `PassesAreGenuine`, `CommandsStopAtFailure` and
`AuditsAreGenuine`, for any number of commands, any checker and any
environments. `SessionInv` relates the driver to a shell that it only knows
through a pipe: everything in the pipe, in the reader's hands or in the output
was printed by the shell (`HeardFrom`); the shell runs commands in order and at
most one is on its way to it (`Ordered`, `Waiting`); and how far the driver is
says how many commands have succeeded (`Progress`). `SuiteInv` adds that an
archived outcome is that of its request, and what the directory of a suite that
was killed while writing it can hold.

### Replanning

`ReplanningProofs`: `ReplansAreRoutable` and `NoPathIsDisconnection`, for any number
of ranks, groups and events. The heart of it is that the route search is right
(`RoutesAreReachable`): the sets it visits grow to the least one that is closed
under the links, so what it does not reach is not connected. Its rounds are
counted, and a fact of every round is shown by `Induction`, an induction upon the
set of numbers at which the fact holds. `CacheInv` says that the cache holds for
a hash what its own topology allows; without it a stale entry might answer for
another topology.

### Submission, release and delivery

`SubmissionPipelineProofs`: `FullRunsAreOneRevision`, `EvidenceIsBacked` and
`LockoutsComeFromRemovals`. A command is its list of steps, so the invariant
says where in its plan a command is (`Placed`) and what it has by then done:
what it has read lies between the revision it began at and the present one
(`ReadInv`), and if those two are the same that revision has passed the checks
behind it (`HealthInv`); what it has cleaned carries its marker (`MarkInv`).
Since the revision may change between any two steps, a full run that passed is
known to be one revision only through the comparisons it makes at the end.

`ReleasePipelineProofs`: `PublicationsAreOneBuild` and `EvidenceIsBacked`. `StageInv`
follows the tree under construction (`Staged`, `HalfBuilt`, `Built`), `RootInv` says that
manifests, unlike the payload, are never edited by hand, and that an archive
which verifies against its manifest is hence from one build.

`DeliveryChainProofs`: `AgentEvidenceIsMatched`, `FiguresAreOfTheLedger` and the
action property `RebuildsReproduce`. `CommitInv` and `ChainInv` order the
documents in time: a document names a commit that main has, and the evidence of
the agent is sealed upon evidence of the reports, which stays sealed. What
`AgentEvidenceIsMatched` says of the registries' rows follows at the freeze itself,
where every row agrees with the working tree (`Current`) and the tree with main
(`FeatureFreeze`); of files without a row nothing follows, and nothing is claimed.

### Assumptions

The constants' assumptions say that bounds are natural numbers and
configurations are configurations (`BoundsAssumption`, `ConfigsAssumption`,
`ParametersAssumption`, `StepsAssumption`, `EnvironmentsAssumption`,
`PipelineAssumption`, `ReleaseAssumption`, `DeliveryAssumption`,
`ReplanningAssumption`, `SizesAssumption`): the failure points are failure
points, a null entry of the table is not an address, a session has a command,
there are two ranks at least, a Butterfly's ranks are a power of two, a
Hierarchical job has more ranks than a group, and Ring's limit is a number of
ranks. Two theorems about the direct adapter
assume more: `LeasesCountedByOneThread` that there are fewer addresses than the
counter has values (`CountableSessions`), and `RetiredIsExact` that there are
finitely many.

### Only model-checked

The liveness property `CommandEnds`, which needs fairness and is out of the prover's
reach, and the two runs that end in a violation.

## 5. Where code and documents disagree

Two disagreements are runs that TLC finds violated:

1. `Complete` with three groups (run `schedule_three_groups`). The inter-leader
   phase of the Hierarchical AllReduce is one hop, enough for two groups only.
   The same property holds of every other schedule in `schedule_execution`.
2. `SuccessIsReduction` (run `allreduce_fake_success`). `execute_algorithm`
   ignores the kernels' return codes: a Butterfly over three ranks is refused
   by the kernel and reported as a success of zeros.

The rest was met while modelling. The models contain the behaviour, and no
property claims its opposite.

Official validation:

- A session counts as timed out if the process looks alive when the wait ends
  (`hccl_vm_runner.py:535`, `:561`). A shell whose output is closed but which is
  not reapable yet is reported as `ENV_BLOCKED_TIMEOUT` long before the deadline.
- The plan demands that `exit` be tried whatever happened
  (`docs/plans/g2-d-hccl-vm-backend.md:323`); when a prompt or marker is not seen
  the runner only closes the shell's input.
- `diagnose_for` (`hccl_vm_env.py:76`) says `OK` of a machine without bash or
  wsl.exe, since `diagnose` returned before anything was listed as missing; the
  session is launched and the launch raises. The plan wants such a machine
  blocked (`docs/plans/g2-d-hccl-vm-backend.md:564`).
- A probe that times out after some output raises `TypeError` on POSIX, where
  `TimeoutExpired` holds bytes, instead of reporting a blocked environment; the
  suite then leaves no summary, not even of the sessions it had run.
- `ps` shows fifteen characters of a name, so that a `reduce_scatter_test` left
  behind is never among the audit's `expected_names` (`hccl_vm_runner.py:456`).
  `PassIsGenuine` therefore speaks of the names the audit can see.
- Whether the source trees are dirty is recorded and never judged, and nothing
  diagnoses the environment again after a session.
- The final audit reads the suite's directory only, not the archives of the
  single sessions it refers to, and an empty `SHA256SUMS`, as left by an agent
  killed while writing it, verifies.

Direct adapter: the design asks for a lease model of the whole process
(`docs/plans/g2-f-direct-api-real-device-readiness.md:697`). The counter
(`hccl_direct_adapter.cpp:38`) is a plain integer while sessions are tied to
threads: two threads that take a lease at once may be counted once.
`LeasesCountedByOneThread` is what holds. The table of retired sessions has 64
entries and then overwrites its first.

Replanning:

- A rank event rebuilds the topology from its variant (`replanner.py:32`): links
  that were down are up again. `LINK_RECOVERED` (`:49`) does not undo the scaling
  of an earlier degradation.
- Ring is selected without a look at the caller's memory budget; the report
  attached afterwards raises (`:70`), though other candidates fit.
- AllGather of a large message on a number of ranks that is not a power of two is
  reported as `EXPECTED_NO_PATH_FAILURE` in a connected topology: Ring refuses the
  size and nothing else serves it. `Served` delimits the property.
- `run_chain` (`agent/g3_b2_optimization_loop.py:44`) goes on with the old schedule
  when replanning fails.

Submission and release:

- `stage` alone takes the plugin of `build-a` if there is one, whenever it was
  built; `evidence` accepts a `full.json` that a later full run, which failed, did
  not remove. `EvidenceBacked` says what holds nevertheless.
- After a rebuild the release evidence names the new candidate and quotes the
  extraction of an older one (`release_audit/finalize.py:338`), which
  `docs/plans/g3-competition-delivery-readiness.md:18299` excludes.
- `validate_archive` compares names only; contents are compared in the
  extraction. Building again at the same revision gives the candidate another
  identity, since it packs the metadata of the one before.
- A removal that broke off may have lost its marker first, and then nobody may
  clean the directory again (`LockedOutOnlyByBrokenRemoval`).

Delivery documents:

- A skill that is committed and merged after the registries were built is not in
  the G3-D evidence frozen later, although the plan wants the registry "complete
  and validated" (`docs/plans/g3-competition-delivery-readiness.md:12769`):
  `validate_registries` looks at the rows there are (`registry.py:253`), and the
  authority's inventory of tracked files is only counted (`authority.py:246`).
  `AgentEvidenceMatches` says what does hold: each row is the file main had.
- G3-E expects exactly 12 prompts, 31 skills, 2 traces and 56 relations
  (`visualization/authority.py:372`): it notices another number of rows, not
  another file behind one.
- A verification that fails raises and leaves the result files of the last one
  that passed, which the freeze reads (`reporting/final_evidence.py:96`).
- A merge between building the reports and freezing them makes every later
  verification fail: the commit they name is no longer the one asked for.
- G3-E and G3-F compare the older documents with origin/main only; the digests in
  the mapping, the numbers of the narrative and the figures of the storyboard are
  not compared again.
- G3-F accepts one transcript file as both of the two quick runs
  (`docs/plans/g3-competition-delivery-readiness.md:16574` asks for two).

## 6. Not modelled, and the plan

Next, in this order:

1. `Failover` with the health monitor, and `DynamicTopology` and
   `ResourceManager`: small state machines under event sequences, to be composed
   with the topology of `Replanning`.
2. AllGather, ReduceScatter and Broadcast in the communicator, beside the
   AllReduce.
3. In `DirectSession`, what is promised when more sessions are destroyed than
   the table has entries.

Not modelled so far, for want of state that outlives a call: the planner, its
memory and the improvement loops of the agent, the Python mirror of the integrity
transport, the schedule IR in C, the loading of configurations, and the audits
under `tools/submission_audit/`, which compare files and change none.

Left out for good: floating-point cost models, the wording and layout of
reports, quoting and encoding for WSL, the regular expressions that read a
checker's log, the sparse codec's byte layout, and CRC arithmetic.
