# GeneralSearchEngine: TLA+ specifications and proofs

GeneralSearchEngine is an embedded Java search engine with a durable
single-node mode, a replicated mode whose leader an operator configures (V5.0),
and a replicated mode on three fixed voters that elects its leader by itself
("automatic", V5.1, with replica reads in V5.2). Beside the engine the repository
keeps a large body of Python under `scripts/`: executable reference models,
independent readers of every file format, harnesses that kill, partition and
restart real processes and judge what they left, and the tools that spend money
on cloud machines and publish benchmark sets. This directory holds specifications
of both: the protocol and storage core of the engine, and the programs that
decide whether a run of it counts.

Paths: `replication/` stands for
`src/general-search-engine-replication/src/main/java/io/github/patricklfdm/generalsearch/replication/`,
`core/` for `src/src/main/java/io/github/patricklfdm/generalsearch/`, and
`v4/` ... `v52/`, `cloud/` for directories of `src/scripts/`.

| Module | What it models |
| --- | --- |
| `AutomaticAuthority`, `AutomaticAuthorityProofs`, `AutomaticRecoveryProofs` | the durable records of three voters and the exchanges that change them; inductive invariant and theorems of safety, and of recovery |
| `AutomaticProtocol`, `AutomaticProtocolProofs` | the transition kernel of one voter; inductive invariant and theorems |
| `ReferenceCluster`, `ReferenceLog`, `ConfiguredHistory`, `ReferenceProofs`, `ReferenceReads` | the executable reference models of V5.1 (with the abstract log it implements), V5.0 and V5.2, each with its inductive invariant and theorems |
| `DurableStore`, `DurableStoreProofs` | the single-node store, its copies, and the inspectors of what a stop left; inductive invariants and theorems of the log and of the crash harnesses |
| `BenchmarkEvidence`, `BenchmarkSet`, `BenchmarkPublication`, `BenchmarkProofs` | one benchmark run as evidence, the set driver, upload, registry, comparison, workflow; an inductive invariant and theorems for the driver and for publication |
| `CloudControl`, `CloudControlProofs`, `CloudAdmission`, `CloudAdmissionProofs` | ownership of paid resources (V5.2); from a pushed commit to an accepted set; each with its inductive invariant and theorems |
| `PublicQualification` | the V5.1 qualification controller, its workers and oracles over a cluster that may lie |
| `EvidenceBase`, `HarnessBase`, `HarnessMatrix` | the scripted harnesses: vocabulary, and the machine that runs a case, forges it and judges it |
| `PublicScenarios`, `PublicStress`, `PublicLimits`, `PublicFinal` | cases of the V5.1 public harnesses |
| `PublicReads`, `PublicReadLifecycle`, `PublicReadLimits` | cases of the V5.2 public read harnesses |
| `LaneMembers`, `LaneHarness`, `LaneSets` | cases of the V4.0 to V4.4 release lanes |
| `ConfiguredDisk`, `ConfiguredGroup`, `ConfiguredAdmission`, `ConfiguredQualification`, `ConfiguredPerformance`, `ConfiguredWorkload`, `ConfiguredRemote` | cases of the V5.0 harnesses, their independent readers, and the remote runner |
| `MC*.tla`, `*.cfg` | finite instances (`CloudControl.cfg` is one of `CloudControl` itself) |

Run `tlc -config X.cfg M` and `tlapm M.tla` (M one of the `*Proofs` modules) in this
directory. `PROJECT.json` maps each definition to its lines.

## 1. Inventory

### Automatic replication (`replication/Automatic*.java`)

| Part | State | Operations | Hard behaviour | What makes it correct |
| --- | --- | --- | --- | --- |
| `AutomaticStore` | promise log, acceptance log, proof log, base snapshot, frozen basis per requester, last selection, `failed` | `prepare`, `promise`, `select`, `installSelected`, `accept`, `prove`, `installProven`, `checkpoint`, `load` | the process stops between two forced writes; repeated and delayed requests; ambiguous I/O quarantines the store | proven prefixes agree and never shrink, acceptances are not forgotten, whatever is on disk can be reopened |
| `AutomaticRecovery` | none (pure) | `select` over two frozen bases | bases of different length with unresolved acceptances of different ballots | the selection extends whatever a quorum accepted |
| `AutomaticRecords` | none | canonical encoding, digests, per-record checks | bounded decoding | a digest identifies an ancestry |
| `AutomaticProtocol` | lifecycle state, fence, campaign, pending exchanges, one operation, one reconstruction, one publication, one continuation, timers | `start`, `tick`, `receive`, `reconstructed`, `published`, `submit`, `cancel`, `observePromise`, `rejoin`, `quiesce`, `close` | any order of answers, requests, callbacks, deadlines and reports; work that outlives its campaign | honest client outcomes, readiness only with current authority, nothing forgotten or replaced, progress |
| `AutomaticRejoin` | one running cycle, source leases, transfer, seed, what was cleaned | `tick`, `cycle`, `catchup`, `request`, `handleControlled` | runs on its own thread; checks and effects are separate control tasks | only current authority is acted on; an install never loses a proof or an acceptance |
| `AutomaticRecoveryFiles` | two generations, selector, floor, cleanup intents | `install`, `freeze`, `select`, `establishFloor`, `cleanup` | a stop between any two file operations | one complete source of every proven entry survives |
| `AutomaticRuntime` | input queue (32), completion mailbox (16), submission permit, cached view | `submit`, `capture`, `checkpoint`, `handle`, `loop`, `close` | four thread pools around one control thread; cached views; full queues | each request is completed once, a strong read sees the current leader |
| `AutomaticApplication`, `AutomaticApplicationWorker` | current and staged engine, one worker | `stage`, `reconstruct`, `publish`, `readCut` | a staged engine discarded before it is published | what is published is what was reconstructed |
| `AutomaticReadQueue` | waiting reads, one turn | admit, expire, capture | deadline against capture | a read returns a cut that satisfies its policy, or one error |
| `AutomaticBootstrap*`, `AutomaticAdmission` | plan, journal, seals | create three stores, resume, clean up | a stop in the middle of three directories | all voters or none are sealed |
| `AutomaticTransport`, `AutomaticWire` | connections | exchange | loss, delay, duplication | correlation only |

The control thread of `AutomaticRuntime` is the only caller of the kernel: it
takes completions, then one input, then calls `tick`, then drains the kernel's
actions (`flush`). Network and application work runs elsewhere and comes back as
completions. The kernel calls the store synchronously under its monitor. The
rejoin worker calls the kernel and the store through control tasks.

### The other parts

* Configured-leader replication (`ReplicaNode`, `ReplicaStore`, `ReplicaApplication`,
  `ReplicaGeneration`, `ReplicaTransfer`, `Admission*`): promise, entry, proof and
  publication with a leader that an operator names; durable generations,
  snapshot transfer, voter replacement.
* Durable single-node engine (`core/engine/Durable*`): write-ahead log with group
  commit, checkpoint, recovery, storage ownership, backup, restore, migration,
  persisted derived state. Hard: a stop at each forced write, publication order,
  a checkpoint concurrent with commits.
* In-memory engine (`core/engine/SnapshotSearchEngine`, `core/storage`,
  `core/index`, `core/query`): one writer publishes immutable snapshots; readers,
  cursors and index builds hold old ones.
* Annotation processor: outside the program's state.

### The programs under `scripts/`

| Part | State | Hard behaviour | What makes it correct |
| --- | --- | --- | --- |
| reference models (`v50/replicated_history_model.py`, `v51/model.py`, `v51/history.py`, `v52/model.py`) | voters, network, an event oracle | reordering, loss, duplication, lost disks | they implement one growing log; their oracles accept what they do |
| benchmark sets (`cloud/benchmark_v2.py`, `run-cloud-benchmark-set.sh`) | checkpoint, immutable attempt and replacement records, run directories | the driver or the run is killed between two files; damaged evidence | no result is run again or chosen; a published set is complete, qualified and audited |
| benchmark publication (`cloud/benchmark_v2.py`, `cloud/cloud_workflow_v2.py`) | objects, receipts, baseline registry | lost replies, foreign writers, two operators | receipts and baselines name the evidence they were made from |
| V5.2 cloud control (`v52/cloud_control.py`, `cloud_provider.py`, ...) | lease, spending ledger, intents, markers, evidence parts | owner, cleanup job and provider race; lost requests and replies | nothing paid escapes the lease; the lease comes back; only certified attempts pass |
| V5.2 admission (`v52/cloud_operator.py`, `cloud_prepared.py`, `cloud_ci.py`, ...) | builds, artifacts, plans, approvals, requests | the world moves between two observations; reruns carry old artifacts | money is spent as approved; an accepted set consists of originals |
| qualification (`v51/public_*`, `v52/public_read_*`) | traces, histories, archives of three voters | torn trace rows, kills at cuts, unanswered calls | a receipt says PASS exactly of an honest run |
| V5.0 harnesses and readers (`v50/*`) | files of three voters, wire traces, workload bundles | every crash cut of every journal | the readers accept what a stop leaves and refuse anything else |
| release lanes (`v4/` ... `v44/`) | members, sets, registries | members of other sources, forged measurements | a registered set is what its members measured |

The Python readers share no code with the engine: they are a second implementation
of its formats and of its protocol's rules. A validator that accepts too much
hides a fault of the engine, one that refuses too much hides it in noise. That is
what the evidence modules ask about.

## 2. Plan

Done: the authority and its proofs of safety and of recovery, the kernel and its proofs, the reference models
with their proofs and the refinement of V5.1 to `ReferenceLog`, the durable store and the
proofs of its log and of its crash harnesses, the benchmark and cloud tools with the
proofs of the set driver, of publication, of the control plane and of admission, the
qualification controllers, the lanes and the V5.0 harnesses.

Next, in this order:

1. The runtime around the kernel: input queue, mailbox of sixteen, submission
   permit, staged engine (`replication/AutomaticRuntime.java`,
   `AutomaticApplication.java`).
2. Recovery files of the automatic mode (`AutomaticRecoveryFiles.java`).
3. Bootstrap journals of the automatic mode, and the in-memory snapshot engine.

## 3. The automatic mode

### AutomaticAuthority

**State.** Per voter: `promise` (last row of `promises.gsr`), `basis` (the basis
frozen for it), `selected` (last recovery selection), `log` (proven prefix: base
snapshot plus proof log), `proofEpoch` (epoch of its last proof), `tail` (the
unresolved acceptance); volatile `campaign`; the set `msgs` of everything ever
sent; the history variable `votes`; volatile `quarantined` (`AutomaticStore.failed`). An entry carries its predecessor's digest,
so it is modelled as its ancestry: a sequence of cells. `Extends` is what
comparing digests at an index decides.

**Actions.** One for each handler of `AutomaticProtocol` that touches the store,
with the whole chain of store calls it makes: `BeginCampaign` (own promise and
basis, then PREPARE), `HandlePrepare`, `HandlePrepareAgain` (the PREPARE of the
promised ballot: the frozen basis is sent again), `HandlePromise` (select, adopt, INSTALL),
`HandleInstall`, `HandleInstalled`, `Submit`, `HandleAccept`, `HandleAccepted`
(own proof, then PROOF), `HandleProof`, `HandleProven`, `HandleProvenCarried`
(the fresh NO_OP after a carried entry), `OfferSnapshot`, `HandleSnapshot`,
`Abandon`; `Quarantine` (a check that fails inside `recoveryIo`) and `Restart`.

**Failures.** Messages stay in `msgs`: never handled is lost, handled later is
delayed or reordered, handled again is repeated. A PREPARE of the promised ballot
and a repeated INSTALL take the code's exact-retry paths; any other repeated
request finds its effect done and is a stuttering step. A voter that stops loses
`campaign` (`Abandon`) and keeps its files. Where one handler forces two records the
parameters `froze` and `adopted` let it stop in between: a promise without basis, a
selection without install. The first is the one state that a later message turns
into a quarantine: the retransmitted PREPARE asks `AutomaticStore.prepare` for a basis
that was never frozen, "frozen basis unavailable" is raised inside `recoveryIo`, and
the voter refuses everything until its process is started again (`Restart`), after
which the same PREPARE quarantines it again, until a higher ballot reaches it.
`docs/v5x/v5.1/PHASE_2_RECOVERY.md` describes it so.

**Left out.** Byte capacities (a refusal is a step not taken), the position of
the base snapshot inside the proven prefix, the application image, torn rows.
`MAX_ENTRIES` is the constant `MaxEntries`; `Epochs` bounds the campaigns for
TLC and is any set of numbers above 1 in the proofs.

**Runs.**

* `authority` (523 thousand states): three voters, epochs 2, 3 and 5 (two
  campaigns of the first voter, one of the second), two entries, two
  incarnations up to symmetry. Enough for a carried entry, a competing proposer,
  a restarted one, a late snapshot, and a repeated INSTALL after the log has
  moved. All invariants and action properties of the module but one.
* `duel` (650 thousand states): epochs 2, 3, 5 and 7 and one entry, restricted
  to behaviours in which nothing is proven (`Unproven`). An acceptance that
  replaces another value and is then frozen into a later basis needs four
  campaigns and no proof; the run asks whether `load()` still finds the
  selection that backs the replacement. In behaviours with a proof the slot is
  settled and `load()` does not ask.

Both say `CHECK_DEADLOCK FALSE`: when all epochs are used up the instance stops.

**Properties.** `Agreement`, `ProvenOnQuorum`, `LeaderComplete` are the promise
of the group. `OneBallotPerEpoch` is why the own promise is forced before
PREPARE. `OnlyUnfrozenQuarantine` says that of the checks that take a voter out of
service only the missing basis ever fails: every quarantined voter has promised a
ballot without a basis for it. `Reopens` and
`ReplacementBacked` say that `load()` and `checkRecovery()` accept the files
after a stop at any step. `BasisNeverResampled`: however often a PREPARE is repeated,
all answers of a voter at one ballot carry one basis, the one in its files, whatever
it accepted, proved or installed in between. `ProvenNeverRollsBack` and
`AcceptanceNeverForgotten` constrain every step.

### AutomaticAuthorityProofs

From the assumptions on the constants alone (three voters, distinct ranks,
epochs above 1, `None` not a voter), for unbounded epochs and entries:

| Theorem | States |
| --- | --- |
| `Inductive` | `Spec => []IInv` |
| `TypeCorrect` | `TypeOK` |
| `AgreementHolds` | `Agreement` |
| `LeaderIsComplete` | `LeaderComplete` |
| `EpochsAreUnique` | `OneBallotPerEpoch` |
| `ProofsAreReplicated` | `ProvenOnQuorum` |
| `ProofsAreKept` | `ProvenNeverRollsBack` |
| `AcceptancesAreKept` | `AcceptanceNeverForgotten` |

`Agreement` is not inductive: it says nothing of what was accepted and not yet
proven. `IInv` adds, over the history `votes`:

* `VotesInv`: each acceptance is *safe at* its epoch c, i.e. for every lower
  epoch some quorum has promised more and voted there only for ancestors of the
  entry; and the owner of the epoch cast the same vote (a proposer accepts
  before its peer).
* `ChainInv`: the votes of one epoch lie on one chain.
* `VoterInv`: a voter's prefix is chosen, and its prefix and its unresolved
  acceptance together *cover* every vote it ever cast; so does a frozen basis
  for the votes below its ballot. The third case of `Covers` is the one that the
  log needs beyond single-decree Paxos: a vote may be superseded by a later vote
  for an ancestor of the prefix.
* `CampaignInv`, `MsgInv`: a campaign is at its own promise and stands on a safe
  value; messages tell the truth about the files of their sender.
* `OneBallotPerEpoch`, `TypeOK`.

`SelectionSafe` is the heart: what `select` takes from two bases is safe at the
ballot. `Grows` collects what no step undoes (votes and messages stay, promises
rise), so each action's lemma shows only what it changes. `StepInv` collects
them and the theorems follow.

### AutomaticRecoveryProofs

From the same assumptions, for the same specification:

| Theorem | States |
| --- | --- |
| `RecoveryInductive` | `Spec => [](IInv /\ RInv /\ AnswerInv)` |
| `BasesAreFrozen` | `BasisNeverResampled` |
| `OnlyUnfrozenAreQuarantined` | `OnlyUnfrozenQuarantine` |
| `FilesReopen` | `Reopens` |
| `ReplacementsAreBacked` | `ReplacementBacked` |

`IInv` says which entries are safe and nothing of the order in which a ballot is
worked through, so it allows a state in which a peer is asked to accept before it
selected, or holds two INSTALLs of one ballot; there a check of the store would
fail. `RInv` adds:

* `OneInstall`: one INSTALL at most is sent for a ballot, because a campaign selects
  once and its epoch is never reused.
* `ExchangeInv`: what a message says of the files. A PROMISE or an INSTALL carries
  the basis of its voter, and the voter's log and acceptance are still those of the
  basis (`Untouched`) until the INSTALL takes effect; INSTALLED, ACCEPT, PROOF and
  SNAPSHOT mean that the quorum peer has made the selection (`Recovered`), and an
  ACCEPT obeys it and is at most one slot ahead of its voter.
* `PhaseInv`: what each stage of a campaign knows of its own files and of its peer's.
* `FilesInv`: a selection is not above the promise, its prefix is chosen, its carried
  entry was accepted by someone; a voter voted for no slot beyond its acceptance; an
  acceptance of an earlier ballot is in the slot that the selection decides about;
  a replacement is backed.
* `OriginInv`: the cells of every accepted entry are in the order of their ballots.

`AnswerInv` says what no file does: the promise of a voter that answered is at least
the ballot it answered, and two of its answers at one ballot are equal. With
`ExchangeInv` (an answer of the standing promise carries the frozen basis) this is
`BasisNeverResampled`; `HandlePrepareAgain` keeps it because it reads the file.

`Calm` is the part of a step that the messages already sent depend on: the files of
a follower change at an unchanged promise only once the INSTALL of that ballot was
sent. `RecoveryStep` reduces an action to its voter's files and phase and the one
message it sends; there is one lemma per action. `OnlyUnfrozenQuarantine` then goes message by
message (`PromiseFits`, `InstallFits`, `AcceptFits`, `ProofFits`, `SnapshotFits`).
TLC checked `RInv` on the instances of `authority` and `duel` before it was proved.
All properties of those two runs are now theorems.

### AutomaticProtocol

**State.** `kernel` is the monitor's fields as one record, with the store's
promise, proven index and quarantine; `rejoin` the cut and the promise the
maintenance worker holds between two control tasks; `starts` counts processes.
The monitor's private methods (`abandon`, `fail`, `send`, `exchangeFailed`,
`withImage`, `commit`, `adopt`, ...) are functions from a kernel to the next, so
that a chain of calls is one step as it is under the monitor. The continuation
given to `withImage` is one of five tasks with the ballot it captured.

**Abstraction.** A ballot is its epoch (`OneBallotPerEpoch`), a prefix its
length (`Agreement`), an exchange a count per peer and kind. Peers may answer
anything that the authority module allows at that point, refuse or stay silent.
A deadline may pass whenever the kernel looks at the clock. The application may
return an image, publish, or fail. A store call may fail, and then the store is
quarantined. Retransmissions change only the retry clock and are not modelled;
neither is the receipt of a heartbeat, which arms a timer that
`NothingForgotten` says is armed. Explicit reads are enabled, as `PublicAutomaticEngine` always does.
`localRecoveryThrough` only filters what `view()` shows. On a quarantined store
`view()` throws in the driver's next `flush`, which quiesces a kernel that has
not failed; `MaintenanceFails` and `ReportPromise` include that.
`Installed` waits for room for a carried entry and its NO_OP below `MaxIndex`.

**Runs.**

* `kernel` (163 thousand states): epochs to 5 (two campaigns of this voter with its
  peers' ballots between them), two entries, two requests, so that a second request
  meets one in flight, a restart. The safety properties, and `RequestsAnswered`,
  `CampaignsEnd`, `PreparesEnd` under two weak fairness conditions: a tick past a
  deadline eventually happens (the control loop polls for at most 20 ms and the clock
  does not stop), and a reconstruction eventually ends ("finite storage/callback
  execution", `docs/v5x/v5.1/PHASE_0_CONTRACT.md`). Nothing is assumed of peers, of
  publications or of election timers. That a leader is eventually elected is not
  claimed: the code promises it only without perpetual interference.
* `failure` (expected violation): see below.

They say `CHECK_DEADLOCK FALSE`: a closed voter, or one that has used up its
epochs and starts, stops.

**Properties.** `ChecksHold`: no order of events makes the kernel fail one of
its own checks (two exchanges per peer, phases of answers, publication range).
`ReadyIsCurrent`: readiness is current durable authority and, at rest, a
published prefix. `OutcomesHonest`, `AcknowledgedIsPublished`: clients get one
outcome and it is true. `NothingForgotten`: a timer is armed whenever no campaign
runs, and a PREPARE that was taken in is still being worked on, when
continuations and timers replace each other. `NothingGoesBack`: fence, promise,
proven and published indexes only grow, and an outstanding publication is not
replaced by another.

**Finding.** `docs/v5x/v5.1/PHASE_3_PROTOCOL.md` says "Failed application
reconstruction or ambiguous storage I/O prevents readiness." The first half does
not hold within one process. `AutomaticRejoin.catchup` reports a higher promise
in a control task of its own; if the kernel has failed meanwhile,
`observePromise` calls `abandon`, which sets UNAVAILABLE and arms the election
timer in any state. The run shows the revived voter campaign and become ready.
The second half holds, because the driver cannot look at a kernel on a
quarantined store without closing it.

**An observation without a claim to hold against it.** `observePromise` leaves
`preparing` set while it drops the PREPARE's continuation. Until a PREPARE above
the new fence arrives, the voter refuses those of the fence as
CAPACITY_EXCEEDED and does not campaign. `NothingForgotten` and `PreparesEnd` are
therefore stated for a PREPARE of the current fence.

### AutomaticProtocolProofs

From `LocalAssumption` (the voter's rank is 0, 1 or 2), `RequestsAssumption` (0 is not
a request) and `KernelBoundsAssumption` (the bounds are numbers), for every set of
requests and every bound on epochs, indexes and restarts:

| Theorem | States |
| --- | --- |
| `Inductive` | `Spec => []IInv` |
| `KernelChecksHold` | `ChecksHold` |
| `ReadyLeaderIsCurrent` | `ReadyIsCurrent` |
| `OutcomesStayHonest` | `OutcomesHonest` |
| `NothingIsForgotten` | `NothingForgotten` |
| `AcknowledgedWasPublished` | `AcknowledgedIsPublished` |
| `NothingEverGoesBack` | `NothingGoesBack` |

None of the five invariants is inductive alone: whether `send` finds room, or an answer
its phase, depends on everything the monitor still waits for. `Good(kernel)` ties the
fields together:

* `EpochInv`: promise <= fence <= highest epoch seen; a campaign is the voter's own, at
  the fence, exactly in CANDIDATE, RECOVERING and LEADER_READY; from RECOVERING on it
  is durably promised and has a quorum peer.
* `ExchangeInv`: per peer at most one exchange of a kind, each in its phase. Hence at
  most two in all, which is the capacity that `send` checks.
* `OperationInv`: the operation in flight is an activation or a request, by state, and
  its index is the proven one, or the next.
* `CallbackInv`: a reconstruction is outstanding only while the image is behind, a
  waiting continuation always has one, and what it was made for still holds (`Valid`);
  a publication under a campaign is the one of the proven operation.
* `OutcomeInv`: outcomes against what is issued and in flight.
* `PrepareInv`: a PREPARE of the fence is still the continuation. It is kept apart
  because `prepare` breaks it for the length of a call, until `withImage` sets the
  continuation; lemmas about methods in between assume `Base` only.

The proof follows the code: one lemma per private method (`AbandonGood`, `SendGood`,
`CommitGood`, `RunGood`, `WithImageGood`, ...), each for any value of the monitor, and
one per call (`StepTick`, `StepPromised`, ...) that composes them. Every call but one
`Advances` the monitor: it stays good, nothing goes back, no client is told a success,
an outstanding publication stays. The answer to a publication `Concludes` it, the only
place where SUCCESS is told. `NextSteps` collects the calls and the restart, and both
action properties follow from it as well as the invariant.

The invariant was checked with TLC on the instance of the run `kernel` before it was
proved. Model-checked only: `RequestsAnswered`, `CampaignsEnd`, `PreparesEnd` (liveness).

## 4. The reference models

`MCReference` explores three models side by side: a behaviour is about one of them
(`scene`) and the other two keep their initial state. The run is therefore the union
of three state spaces and not their product, here as in `MCEvidence` and
`MCBenchmark`.

* `ReferenceCluster` is `v51/model.py` driven as `explore.py` drives it, with the
  event oracle of `history.py` (`OracleAccepts`). `ImplementsLog` is a refinement:
  chosen values, answered slots, and the floor and pin of each read map to
  `ReferenceLog`, one growing log with reads no older than what was answered before
  they were sent. Bounds: ballots 2 and 3 (two voters that compete), two slots
  (an activation, then a command or a barrier), one read, three messages under way, four
  promises kept, one pin, and three campaigns and disturbances together (loss,
  duplication, restart with or without its disk).

  `ReferenceProofs` proves both properties for every choice of these bounds, of the
  commands and of the reads (`HistoriesAccepted`, `ClusterImplementsLog`); the only
  assumption on the constants besides their types is that no read has the identity
  that stands for "no read". `OracleAccepts` says that no judged event broke a rule,
  and nothing of what makes the next one hold; `ClusterInv` does (`ClusterInductive`):

  - *Proposals.* A ballot proposes one value for a slot, from the slot of its
    selection on, and the value is `Safe`: below the ballot no other was chosen there,
    nor can two voters still choose one.
  - *Votes and bases.* A vote is on disk until a higher one replaces it, never above
    the promise. A frozen basis, held by its campaign or still in a PROMISE, shows
    every vote its voter gave below the ballot above its prefix, or a higher one.
  - *Selections.* A selection is made by two voters with no lower vote above its slot.
  - *Chosen slots.* Two voters stay `Bound` to a chosen slot: their votes and every
    basis they freeze later show it or a later ballot of it. All proposals from the
    choosing ballot on are of the chosen value, and later selections start at or above it.
  - *Proofs and answers.* A voter that proved a slot `Retains` it: in its prefix, in
    every later basis, and below every later selection it is part of. Two voters
    retain every answered slot.
  - *Rounds, messages, reads.* What a round has counted, what each message says
    however late it arrives (a PROOF or PROVEN only of a chosen slot), and the read
    ledger: a barrier's slot is above every write answered when the read was sent,
    unless a member of its quorum will refuse it.

  The model keeps no record of past votes and receipts, so the invariant is stated
  over what the state still shows (`Proposed`, `Voted`, `ProvenBy`), and these may only
  shrink. `Frame` collects what a step may do to them: promises rise, new votes and
  proofs are of the promised ballot, disks and log grow, new bases are frozen in this
  step, and at most one proposal is new, by a further round or by a selection. Each
  action is shown to be a step of the frame, and `CoreStep` proves the safety part of
  the frame once. The refinement then needs the invariant in two places: a
  counted ACCEPTED appends exactly the next slot, and a completed read pins a slot
  above its floor. TLC found no violation of `ClusterInv` in the first 235,000 states
  of the run's cluster before it was proved.
* `ConfiguredHistory` is `v50/replicated_history_model.py` under
  `v50/model_network.py`: two epochs, two indexes, one incarnation, one operation.
  A prepared proof stays in `prepared` until it is forced, however late, on whichever
  voters; `truncate_uncommitted` looks at the proofs that are on disk only, so an entry
  may be truncated and replaced while a proof of it is still to be forced. `CommittedKept`
  says what remains true then: two voters hold every committed entry with its proof, and
  at most one voter (`Stray`) has forced a proof of anything else. That voter may have
  applied what was never committed; every other voter applied exactly the committed
  entries, and no recovery floor is beyond them. The stronger reading, that no voter
  ever does, is false of the model's own methods, which leave the order to their caller;
  in the repository only unit tests call them, each in one fixed order.

  `ReferenceProofs` proves `CommittedKept` for any number of epochs, indexes,
  incarnations and operations (`CommittedStays`). It is not inductive: it says nothing
  of the logs below a proof. `HistoryInv` adds that every log is one path without a gap
  (`LogOf`), that a durable proof is for the entry its voter holds, which no method
  replaces (`DurableOf`), and that a voter applied what is committed up to its position,
  unless it is stray (`AppliedOf`). The two keepers of the last committed entry hold its
  whole path, so they are not stray and one voter at most can be; a proof that is forced late makes no keeper one, because the
  method refuses a proof that is not for the entry in the log.
* `ReferenceReads` is `v52/model.py`: two requests, three policies, with the checks
  of its explorer as `ReadsSafe`. Epochs, positions and sequences are bounded by
  2, 2 and 1 (3, 3 and 2 in the code). `ReadsStaySafe` proves it for any bounds and any
  tuple of reads. `ReadsInv` adds what the checks of captured reads rest on: at most one
  position is accepted and not proven (so the sequences keep pace with the proofs), and
  while a strong read waits, its barrier was proven after its admission, in an epoch.

## 5. DurableStore

Write-ahead log generations, group commit, checkpoint, manifest replacement,
deletion of superseded files, the derived catalog of V4.3; backup, restore,
migration and cleanup as staged directories; and `storage_inspector.py`,
`backup_format.py`, `storage_format_v11.py`, `derived_format_v12.py` and the crash
inspectors as predicates on what is left. The harnesses halt or SIGKILL the
process, so the image after a crash is every write made so far; loss of unforced
pages is not modelled. A checkpoint's cut is two
steps, as `DurableWal.create` makes it: the file of the new generation under its final
name (`CreateGeneration`, `store.bare`), then its header (`HeadGeneration`); either may
fail, and a failed cut ends the writer. A publication goes on when the deletions after
it fail (`CleanupFails`). Closing a failed process leaves the files its death would, so
the two are one; the creation of a fresh store, before it can be opened for the first
time, is not modelled.

`DurablePrefix` compares the inspector with the engine's own
recovery in every state: the log generations hold one prefix with everything
acknowledged, and only the file of an unfinished cut can make a reader refuse the
store. `CasesPass` asks every verdict of the crash harnesses at
every barrier (none of which lies between the two steps of a cut). `CrashRecovers`,
that a killed or failed store is always read again, is what the documents say and fails
(run `cut`, section 9). Bounds: two mutations, groups of two, two checkpoints, one crash, one
injected I/O failure, format minors 1 and 2, one derived component (minor 0 differs
from 1 here only in the number its readers expect).

`DurableStoreProofs` proves `DurablePrefix` and `CasesPass` for any number of mutations,
group size, checkpoints, crashes, failures and components (`PrefixIsDurable`,
`EveryCasePasses`). The only assumption beyond the bounds being numbers is that `None` is
not one of the records that may stand in its place (a checkpoint, a refresh, a catalog, a
published bundle). `DurablePrefix` speaks of what the inspector reads and of what was acknowledged, and neither
says which files a later crash will find, so it is not inductive. `BareInv` says when
the file of a generation without a header may stand. `DurableInv` adds:

* `Chain`: the log generations on disk are consecutive, only the newest may have a torn
  tail, each begins where the one before ended, and together they hold every sequence
  from the first of the oldest. The inspector takes the highest sequence any file
  reaches, the engine counts what it can replay from the manifest's checkpoint on; on a
  chain the two agree.
* `Bound`: the manifest names a checkpoint that exists and a generation that begins just
  after it; with no manifest the first generation is still there. This is what deleting
  superseded files could break, and why the manifest is replaced before the deletion.
* `Written`: what the process knows of the newest generation, at each point of a group:
  acknowledged is at most written, written at most allocated, and what is left to write
  is the difference.
* `Publishing`: the checkpoint being published has its generation and, from its data
  file on, its file; the manifest names it exactly from its rename on, because the cut
  took a generation no earlier manifest can name.

The crash harnesses also judge the copies, the remnants and the derived image.
`CasesInv` adds to `DurableInv`:

* `CopiesInv`: a backup, restore or migration at a given step has staged exactly what the
  steps before it write (`StagedBefore`), has published nothing before its rename and a
  complete bundle of the right sequence after it, and still copies what it started from.
  The same holds of the copy that a death interrupted, as long as no other tool ran; this
  is what the verdict at each barrier is derived from. A backup exists only while its
  process runs and holds the pin of its checkpoint, so the deletions of a later checkpoint
  spare it. Whatever else is left has its marker until the cleanup removes it last.
* `StopInv`: a process that stopped and did not die had finished its group.
* `DerivedInv`: a catalog on disk is complete, a refresh is for the manifest's checkpoint,
  and a store that has finished opening without a failure has a current image.

## 6. Benchmark sets and cloud runs

* `BenchmarkSet` (run `benchmark`, with `BenchmarkPublication`): four plans, six to
  a dozen kinds of damaged evidence, five exit codes of the run, two attempts of a
  slot, two kills of the driver. `write` holds what a command that writes two files
  still has to write. `AuditComplete` and `NeverRerunsResult` say that no result can
  be chosen among several; `MembersQualified` what a published set is.
  `ReceiptsAuthentic`, `GreenIsRetained` and `VerdictsAgree` are about upload,
  workflow and comparison, with one fault of the object store.

  `BenchmarkProofs` proves `AuditComplete` (`EveryRunAudited`) and `NeverRerunsResult`
  (`ResultsAreFinal`) for any plans, kinds of damage, exits, attempts and kills of the
  driver; what is assumed is that `None` is not a plan. Nothing is assumed of how
  evidence is judged, beyond the six classifications there are. Neither property is
  inductive, for neither mentions the checkpoint. `SetInv` says what the files owe each
  other: a slot's verdict is in the record of its last attempt and all earlier attempts
  were set aside (`Backed`), every run belongs to an attempt the checkpoint counted
  before it started (`Counted`), and both hold of the checkpoint on disk *and* of the one
  a command is about to save, so a kill between the two writes leaves a checkpoint under
  which the attempt is still running, never one under which it may be repeated. Once a
  set is published the checkpoint is `Over`: nothing can begin, and the identity a set was
  published with stays the identity of the files. That a set has at most ten slots
  (`ValidSetPlan`) is used once, in the type of the slot table.
  `MembersQualified` depends on what the derivation computes over sequences and is
  model-checked only.

  The same module proves `ReceiptsAuthentic` (`ReceiptsStayAuthentic`), `GreenIsRetained`
  (`GreenWasRetained`) and `VerdictsAgree` (`VerdictsHaveConverses`) of
  `BenchmarkPublication`, for any evidence, requests, names, registrars and comparisons
  and without a bound on faults and writes that matters. `EvidenceAssumption` is what the
  layout of the results root and the schemas give: evidence has an identity of its own,
  ordered metrics have natural values and variations, operators compare evidence that
  exists, `None` is no exit code. `PublicationInv` says of each part what the next one
  relies on: every object in the bucket was stored in the version it has (`StoreInv`);
  each object of a set being uploaded is verified, in a version that was stored with the
  planned bytes, or still to be uploaded (`WorkInv`), so a receipt, which only an upload
  with nothing left can write, covers the set; the registry *and each registry that a
  registrar read earlier and is about to write* are bound to receipts (`RegistryInv`);
  and a job whose retention step succeeded with exit 0 has a receipt (`RetentionInv`), so
  that the final exit, which asks for the success of every step, cannot be 0 after the
  step was killed. `NamesImmutable` is not among the results: it fails (section 9).
  `VerdictsAgree` rests on `ContinuousSign`: an improvement has a benefit above 0 and a
  deterioration one below 0, and the benefit changes its sign with the exchange.
* `CloudControl` (run `control`): two attempts in turn, one run of the manual cleanup,
  one resource, one fault. A store generation is the set of processes that know it.
  Assumed of time: the exchange deadline (30 s) is below the lease with its grace (at
  least 90 s), and the ledger's charge and the gate's last look at the lease are one
  step. One runner and one cleanup at a time is what the workflows' concurrency groups
  give. Fairness is that of processes that run: each attempt's process and a cleanup
  that was dispatched go on, the provider's operations end, the clock moves. Nothing
  dispatches a cleanup: `v52-manual-cleanup.yml` has `workflow_dispatch` only and
  `test_cloud_cleanup_bundle.py` asserts that it has no schedule. That an operator does
  is therefore the hypothesis of the property, `OperatorDispatches` (the rule of
  `PHASE_6_CLOUD_SETUP.md`: "Preserve manual cleanup while any lease/resources may need
  reconciliation"). `LeaseReturns`: with such an operator the lease is again and again
  free, or stuck on an insert whose marker is retained and whose request never arrived,
  about which the code refuses to guess. Without one a lease whose runner stopped stays.
  0.7 million states.

  `CloudControlProofs` proves `NothingLeaks` (`NothingEverLeaks`) and `PassIsQualified`
  (`PassesAreQualified`) for any number of attempts, cleanups, rows, evidence parts and
  faults, from `ControlAssumption` (the sizes are numbers, at least one row,
  cleanups are not attempts) and `NoneAssumption` (`None` is neither a lease nor a
  ledger status). `NothingLeaks` alone
  is not inductive: a runner stalled just before its POST could send after its lease was
  released. `IInv` adds the fence. A runner at "send" has its marker retained and no
  proof that the row was never submitted (`InsertOf`), a proof is written only behind
  the fence, for a row that was not sent (`RowOf`), a cleaner counts a row as resolved
  only by a receipt or a proof and releases only when all are (`WorkOf`), and behind the
  fence the stored lease keeps phase and intents (`MineOf`). `PassOf` chains certificate,
  cleanup, completion, ledger and seal. A put of the lease can only do what `LeaseMove`
  says, which is what the wire policy admits.
* `CloudAdmission` (run `admission`): two commits, two members, two operator jobs,
  two tries of a build, nine workflow runs and one fault. It starts after the first
  member's original ran. Pushes are bounded by `Sources`, everything else that
  disturbs a job by `MaxFaults`.

  `CloudAdmissionProofs` proves `ApprovedSpend` (`SpendIsApproved`) and
  `AcceptedOriginals` (`OriginalsAccepted`) for any commits, members, histories, runs,
  jobs, tries and disturbances, from `AdmissionAssumption` (the sizes are numbers, the
  first commit exists, `None` is not a ledger status). `AdmissionInv` adds why a charge
  that finds its plan's baseline is the request's first: a plan's request is named after
  the attempt that prepared it and is not in the ledger it was computed from
  (`PlansInv`), and a job holds only a published plan and a ledger with nothing
  unresolved (`JobReads`). Between its charge and its end nobody else writes the ledger
  (`JobCharged`), so an attempt ends once and a terminal status is for ever
  (`StatusKept`); evidence comes from the execution that was charged (`EvidenceInv`).
  With a request charged once (`ChargedOnce`), the evidence a verifier replays names the
  charged execution. What the verifier saw before a push or a reconciliation it still
  knows afterwards (`JobVerifies`), the policy of its commit as long as that commit is
  master. `Reconcile` steps in only where no live job holds the lease: its guard, the
  grace period, is where this argument rests on time.

`CHECK_DEADLOCK FALSE` in these: a set that is published, and an attempt that is
sealed, have nothing left to do.

## 7. Evidence

`MCEvidence` (run `evidence`) holds `DurableStore`, `PublicQualification` and
`HarnessMatrix` as scenes.

**PublicQualification.** The controller, its workers and the cluster step by step:
histories are recorded at call and answer, a killed worker leaves a torn trace row,
the cluster may lie once (lose, replay, invent or answer stale). The receipt is
`PASS` only if the controller, the history search and the record oracles accept.
`runtime_evidence.validate` looks for an index that two quorums chose differently
(`rechosen`) and compares what the voters retain up to their `provenThrough` with what
was chosen; it does not ask that they retain it. So there is one breach it cannot see,
and `PassMeansHonest` names it: records that every voter loses after the last leader of
the run, with no leader since. As soon as one is elected its activation takes an index
that was chosen before, and the run is refused. `NoFalseAlarm` is the other direction.
Of the sizes that `validate` demands the number of successful mutations is modelled;
those of publications and basis chunks are reached by the seeds and elections of every
script. `MCCases` leaves out
cases that differ from a kept one only in the last row.

**HarnessMatrix.** The other harnesses are scripts: a controller performs a fixed
schedule, every step leaves a row, and a validator decides. A case is a family and
a cut; `ScriptOf` is its honest schedule, `ValidRows` the validator, `BreachesOf` single
observations a faulty process or a forger could change, `NegativesFor` the harness's
own negative tests, and `NoiseFor` what may honestly happen besides. `VerdictMatches`:
a receipt says PASS exactly of the runs without a breach. Rows carry an event, a role,
a generation, an outcome and a number; an outcome names the first reader check that
fails, and a number stands for an epoch, an index, a sequence, a digest or a time.

Scaled bounds, with the code's value in brackets:

| Modules | Bounds |
| --- | --- |
| all | one breach, one honest disturbance or retry of a row; no twin of a case that halts where another is killed |
| Public* | two rounds, last epoch 16 [2^63 - 1]; budgets and queue limits scaled in proportion; a wave of three mutations [7], two sustained cycles |
| PublicRead* | far-ahead position 99 [2^63 - 1], read capacity 2 [64] with 2, 3 and 5 pending [4, 65, 10000] |
| Lane* | cadence 4, 2, 1, 6 [2000, 4, 2, 2020]; two jars [6]; ratios in hundredths |
| ConfiguredDisk, ConfiguredGroup, ConfiguredAdmission | three writes [8], three clients [8], three pressure attempts [100]; representative bootstrap cuts; last sequence 9 [2^63 - 1]; three wire kinds [16]; member limit 4 [1 MiB]; six files [64] |
| ConfiguredPerformance, ConfiguredWorkload | two repeats [3], two windows [4] of two calls [10], final commit 4 [73], two lanes [4], three catch-up attempts [20] |
| ConfiguredRemote | three updates of a fault [10], seven initial resources [13], reservations in seconds [hundreds] |

A boundary is kept as a boundary (one below, at, one above); that is what these
validators compare.

**ConfiguredRemote** is the last step from a local run to an accepted one: the probe
that drives a voter on each of three machines (`cloud_remote_probe.py`,
`cloud_remote_guest.py`), the time each part is charged to, the runner that records
an intent before each insert and reads back every absence (`cloud_runner.py`), and
the ledger that admits five runs in one of two orders (`cloud_presets.py`).

**What the evidence run does not show.** A breach changes one kind of row; agreement
of several forged files is not explored. A script is honest by construction: the
engine under test is represented by what it may write. The property is about the
validators, not about the engine.

## 8. Runs

| Run | States | Shows |
| --- | --- | --- |
| `authority`, `duel` | 0.5 and 0.65 million | agreement, durability, quarantine only for a missing basis, reopening |
| `kernel` | 0.16 million | one voter in every order of events; everything issued is settled |
| `failure` (violation) | | a failed reconstruction does not prevent readiness |
| `reference` | 1.1 million | the three reference models |
| `benchmark`; `resume`, `registry` (violations) | 0.6 million | sets and publication; the two disagreements below |
| `control`, `admission` | 0.7 and 1.3 million | paid resources; from commit to accepted set |
| `evidence`; `cut` (violation) | 2.1 million | store, qualification, harnesses; a kill inside a cut |

## 9. Findings and observations

Findings, each with a run that TLC violates:

* `failure`: see section 3.
* `resume`: a driver killed after it wrote its immutable attempt record, when the run
  left no finished orchestration record, leaves a set that no resume can settle. The
  reconciler writes a different UNRESOLVED record for the same attempt, the immutable
  write raises and the checkpoint stays RUNNING. Under the fairness of the run: the
  cloud run ends, the driver's command ends, and somebody resumes.
* `cut`: `docs/v4/CHECKPOINTS.md` says "If checkpoint construction fails, the old
  checkpoint plus both retained generations still recover the history" and "A crash
  before authoritative-manifest publication leaves the previous checkpoint
  authoritative". `DurableWal.create` opens the generation's final name and writes its
  header afterwards. A process killed in between, or a header that cannot be written,
  leaves a file that the engine (`inspectHeader`) and `storage_inspector.py` both refuse,
  and with it the store, although everything acknowledged is in the older generations.
* `registry`: two registrations of one name that overlap both find it free, and the
  second replaces the first.

Observations without a run:

* `control_views` (`v50/cloud_workload_evidence.py:155`) can refuse an honest control
  run. Two overlapping writes with equal brackets are ordered by a tie-break; a query
  that saw only one of them distinguishes the orders, and if the other order happened
  its digest differs. The docstring says that any order satisfying all brackets is
  valid because the writes commute, which is true of the final state only. The control
  case here has only reads whose cut the brackets determine. The start of a control
  query is only bounded from below.
* Lifecycle lists in the V4 documents are constants of the harness, so checks of their
  order cannot fail: V4.1 inspects the backup before it deletes the source although it
  lists it after, V4.3 inspects at the end although it lists it third. The V4.2 local
  rollback properties are written by the harness from the source's values, the V4.4
  local matrix writes `observed` from `expected`, and the V4.3 scaffold does not check
  that its store is gone.
* The V4.0 set cannot tell one bundle assembled three times; V4.4 leaves distinctness,
  thresholds and provider to `validate_set` and `validate_evidence`.
* A V5.0 hardening trace without the only event of its sender is not detectable; a
  replaced voter whose second promise is missing passes `runtime_format`; the V5.0
  fake-cloud cleanup drill never produces a bundle that validates.

## 10. Mutants

Each property of each passing run has a mutant of a mapped definition in
`PROJECT.json`: a defined operator that changes the definition as a plausible
bug would (a dropped guard, a missing reset, an early send) and under which TLC
finds the property violated. They stand before the definitions they vary.

## 11. Not modelled

* The runtime, application worker, transport and bootstrap of the automatic mode, its
  recovery files and public facade; the in-memory engine, indexes, queries and the
  annotation processor.
* The Java classes of the configured mode: seen through its reference model and the
  independent readers of its files and traces.
* Under `scripts/`: remote and full-size harnesses of V5.1, installed-build and SSH
  lanes of V5.2, project setup and preflight of V5.0, continuous integration. The map
  covers about 30 percent of the Python lines; what is left repeats the modelled
  judgements on other machines, or moves files and starts processes.
* Byte encodings, digests (equality stands for them), loss of unforced pages, prices.
* Out of the prover's reach: liveness (`RequestsAnswered`, `CampaignsEnd`,
  `PreparesEnd`, `LeaseReturns`), what a recursive definition computes, and every module
  that reaches the recursive operators of `PublicQualification` and `PublicReadLimits`.
  So `PassMeansHonest`, `NoFalseAlarm` and `VerdictMatches` are model-checked only, and so
  is `MembersQualified`: whether a derivation is sound depends on medians of sorted
  sequences and on the first failing check of a sequence of checks, which take induction
  over data. Every other safety property of the passing runs is a theorem.
