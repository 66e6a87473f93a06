--------------------------- MODULE CloudAdmission ---------------------------
(***************************************************************************)
(* From a pushed commit to an accepted V5.2 cloud set: the operator        *)
(* workflow's prepare, run and verify-set jobs, the GitHub and provider    *)
(* observations each of them makes, and what changes between and during   *)
(* those observations.                                                     *)
(*                                                                         *)
(* scripts/v52/cloud_operator.py, cloud_prepare.py, cloud_prepared.py,     *)
(* cloud_prepared_artifact.py, cloud_ci.py, cloud_artifacts.py,            *)
(* cloud_recent_cleanup.py, cloud_preflight.py, cloud_preflight_read.py,   *)
(* cloud_native_runner.py, cloud_execution.py, cloud_member_evidence.py,   *)
(* cloud_member_seal.py, cloud_runner_provenance.py, cloud_acceptance.py,  *)
(* cloud_evidence_read.py, cloud_set_evidence.py, cloud_suite.py,          *)
(* cloud_quota_continuation.py and cloud_retention_recovery.py.            *)
(*                                                                         *)
(* A workflow run is named by its number and an attempt of it by the pair  *)
(* <<run, attempt>>; a digest is the value it was computed from.  What a   *)
(* lease protects while a member runs is the subject of CloudControl; here *)
(* a paid attempt is its ledger entries and the lease's holder.            *)
(***************************************************************************)
EXTENDS Naturals, FiniteSets, Sequences, SequencesExt

CONSTANTS
    Sources,        \* commits of master, in the order they are pushed
    Members,        \* the suite's members
    Experiment,     \* the member whose retention failure may be waived
    Histories,      \* the histories of every member
    Providers,      \* what may be wrong at the provider
    Tries,          \* ATTEMPTS of one read
    MaxRuns,        \* workflow runs
    MaxJobs,        \* dispatches of one operation on one commit
    MaxFaults,      \* disturbances: reruns, newer runs, expiry, crashes ...
    None

ASSUME AdmissionAssumption ==
    /\ Sources \subseteq Nat /\ 1 \in Sources /\ Experiment \in Members
    /\ Histories \in [Members -> SUBSET Nat] /\ Tries \in Nat \ {0}
    /\ MaxRuns \in Nat /\ MaxJobs \in Nat /\ MaxFaults \in Nat
    /\ None \notin {"PENDING", "PASS", "FAIL"}

VARIABLES
    master,     \* branches/master
    policy,     \* the continuation or recovery policy committed on master
    key,        \* the operator's SSH key secret
    runs,       \* workflow runs in the order of their ids
    green,      \* operator attempts that completed with success
    plans,      \* prepared artifacts: attempt -> plan
    seals,      \* member-seal artifacts
    gone,       \* attempts whose plan, artifact or cleanup is out of date
    ledger,     \* ledger.json entries
    lease,      \* the request that holds active.json, or None
    evidence,   \* retained member evidence
    cloud,      \* current provider faults
    job,        \* the operator job, one by the concurrency group
    accepted,   \* protected cloud set receipts
    faults

github == <<master, policy, key, runs, green, plans, seals, gone>>
paid == <<ledger, lease, evidence>>
vars == <<github, paid, cloud, job, accepted, faults>>

(***************************************************************************)
(* Workflow runs and the suite.                                            *)
(***************************************************************************)

Run(kind, input) == [kind |-> kind, source |-> master, attempt |-> 1,
                     state |-> "pending", made |-> 1, input |-> input]

Ids(kinds, source) ==
    {r \in 1..Len(runs) : runs[r].kind \in kinds /\ runs[r].source = source}
Newest(ids) == CHOOSE r \in ids : \A q \in ids : q =< r

\* definition() and member(): every member stands for its whole histories.
Whole(m, histories) == histories = Histories[m]

\* The single environment disturbance of a step.
Disturb == faults > 0 /\ faults' = faults - 1

(***************************************************************************)
(* Observations.  A collector reads everything twice, before and after it  *)
(* downloads, and accepts only two equal reads.                            *)
(***************************************************************************)

\* ci.latest(): a manual build supersedes CI even when it failed; otherwise
\* the newest CI run, never an older green one.
LatestBuild(source) ==
    LET manual == Ids({"manual"}, source)
        ci == Ids({"ci"}, source)
    IN IF manual # {} THEN Newest(manual)
       ELSE IF ci # {} THEN Newest(ci) ELSE None

\* ci.observe() and validate(): exact master, and the build job of the
\* latest run's current attempt succeeded; the rest of that run may not
\* have finished (REQUIRE_FULL_CI is False).
BuildView(source) ==
    LET r == LatestBuild(source) IN
    IF master = source /\ r # None
    THEN IF runs[r].state = "success"
         THEN [run |-> r, attempt |-> runs[r].attempt, made |-> runs[r].made]
         ELSE None
    ELSE None

\* artifacts.select() and producer(): the artifact of the attempt that
\* executed the build job, which a rerun of other jobs carries along.
Produced(view) == <<view.run, view.made>>

\* inputs.create() and inspect(): a package is its source and the build it
\* was packed from; the published controls are the same for all.
Proof(source, view) == [source |-> source, build |-> Produced(view)]

\* recent.latest() and validate(): the newest cleanup run of this source
\* succeeded, and recently.
CleanView(source) ==
    LET ids == Ids({"cleanup"}, source) IN
    IF master # source \/ ids = {} THEN None
    ELSE LET r == Newest(ids) IN
         IF runs[r].state = "success" /\ <<r, runs[r].attempt>> \notin gone
         THEN <<r, runs[r].attempt>> ELSE None

\* inspect_ledger(): a reserved request is pending until its terminal entry.
Entries(led, kind, req) == {i \in DOMAIN led : led[i].kind = kind /\ led[i].request = req}

Status(led, req) ==
    IF Entries(led, "RESERVED", req) = {} THEN None
    ELSE IF Entries(led, "FINISHED", req) = {} THEN "PENDING"
    ELSE led[CHOOSE i \in Entries(led, "FINISHED", req) : TRUE].status

Pending(led) == {req \in {led[i].request : i \in DOMAIN led} :
                    Status(led, req) = "PENDING"}

\* evaluate() for the runner: permissions, storage and provider facts pass,
\* no lease is held and no attempt is unresolved.
ControlView ==
    IF cloud = {} /\ lease = None /\ Pending(ledger) = {}
    THEN [ledger |-> ledger] ELSE None

\* prepared_artifact.collect(): the plan of exactly the selected attempt,
\* which completed successfully on the current master.
PreparedView(source, inv) ==
    IF master = source /\ inv \in green /\ inv \notin gone /\ inv \in DOMAIN plans
    THEN IF plans[inv].request.source = source THEN plans[inv] ELSE None
    ELSE None

(***************************************************************************)
(* Operator jobs.                                                          *)
(***************************************************************************)

Stages(op) == IF op = "prepare"
              THEN <<"build", "clean", "provider", "plan">>
              ELSE <<"prepared", "build", "clean", "provider", "admit", "lease",
                     "charge", "member", "finish", "seal">>

Reading == {"prepared", "build", "clean", "provider"}

After(op, stage) ==
    LET s == Stages(op)
        i == CHOOSE k \in DOMAIN s : s[k] = stage
    IN s[i + 1]

NewJob(op, input, r, attempt, first) ==
    [op |-> op, input |-> input, inv |-> <<r, attempt>>, source |-> runs'[r].source,
     stage |-> first, view |-> None, got |-> [s \in Reading |-> None],
     tries |-> 0, old |-> FALSE]

At(stage) == job # None /\ job.stage = stage

\* A job that raises: the attempt concludes without a result artifact, and
\* the session's close has failed the attempt it had charged (Finish).
Rejected == job' = None /\ UNCHANGED <<github, paid, cloud, accepted>>

\* environment(): an operation and its request, dispatched on master.
Dispatch(op, input, first) ==
    /\ job = None /\ Len(runs) < MaxRuns /\ Cardinality(Ids({op}, master)) < MaxJobs
    /\ runs' = Append(runs, Run(op, IF op = "verify" THEN None ELSE input))
    /\ job' = NewJob(op, input, Len(runs'), 1, first)
    /\ UNCHANGED <<master, policy, key, green, plans, seals, gone, paid, cloud,
                   accepted, faults>>

Prepare(m) == Dispatch("prepare", m, "build")
Execute(inv) == inv \in DOMAIN plans /\ Dispatch("run", inv, "prepared")

\* GitHub reruns an operator run: a new attempt with the same inputs.
Rerun(r) ==
    /\ Disturb /\ job = None /\ runs[r].kind \in {"prepare", "run"}
    /\ runs' = [runs EXCEPT ![r].attempt = @ + 1]
    /\ job' = NewJob(runs[r].kind, runs[r].input, r, runs'[r].attempt,
                     Stages(runs[r].kind)[1])
    /\ UNCHANGED <<master, policy, key, green, plans, seals, gone, paid, cloud, accepted>>

\* The first read of a collector: what it selects must be acceptable.
FirstRead(stage, seen) ==
    /\ At(stage) /\ job.view = None
    /\ IF seen = None THEN Rejected
       ELSE /\ job' = [job EXCEPT !.view = seen]
            /\ UNCHANGED <<github, paid, cloud, accepted>>
    /\ UNCHANGED faults

\* The reads after its download must equal the first ones.
SecondRead(stage, seen) ==
    /\ At(stage) /\ job.view # None
    /\ IF seen # job.view THEN Rejected
       ELSE /\ job' = [job EXCEPT !.got[stage] = seen, !.view = None,
                                  !.stage = After(job.op, stage), !.tries = 0]
            /\ UNCHANGED <<github, paid, cloud, accepted>>
    /\ UNCHANGED faults

ReadPrepared == job # None /\ FirstRead("prepared", PreparedView(job.source, job.input))
RereadPrepared == job # None /\ SecondRead("prepared", PreparedView(job.source, job.input))

ReadBuild == job # None /\ FirstRead("build", BuildView(job.source))
RereadBuild == job # None /\ SecondRead("build", BuildView(job.source))

ReadClean == job # None /\ FirstRead("clean", CleanView(job.source))
RereadClean == job # None /\ SecondRead("clean", CleanView(job.source))

ReadProvider == FirstRead("provider", ControlView)
RereadProvider == SecondRead("provider", ControlView)

\* cloud_read_retry.run(): a transient read failure is retried, ATTEMPTS
\* times at most.
ReadFails ==
    /\ Disturb /\ job # None /\ job.stage \in Reading
    /\ IF job.tries + 1 = Tries THEN Rejected
       ELSE /\ job' = [job EXCEPT !.tries = @ + 1]
            /\ UNCHANGED <<github, paid, cloud, accepted>>

(***************************************************************************)
(* prepare: one plan for one member on the ledger that was observed.       *)
(***************************************************************************)

\* prepared.prepare(): the request binds source, build and access key, and
\* its attempt identity is new; its baseline is the observed ledger.
NewPlan(j) ==
    [request |-> [member |-> j.input, source |-> j.source, key |-> key,
                  proof |-> Proof(j.source, j.got["build"]), attempt |-> j.inv],
     baseline |-> j.got["provider"].ledger]

\* prepare_native(): a last look at the observations' age and the source,
\* then the artifact is published and the job completes.
Plan ==
    /\ At("plan")
    /\ IF job.old \/ job.got["clean"] \in gone THEN Rejected
       ELSE /\ plans' = [i \in DOMAIN plans \cup {job.inv} |->
                          IF i \in DOMAIN plans THEN plans[i] ELSE NewPlan(job)]
            /\ green' = green \cup {job.inv} /\ job' = None
            /\ UNCHANGED <<master, policy, key, runs, seals, gone, paid, cloud, accepted>>
    /\ UNCHANGED faults

(***************************************************************************)
(* run: admission, the charge, the member and its seal.                    *)
(***************************************************************************)

MyPlan == job.got["prepared"]
MyRequest == MyPlan.request

\* Mutant: the review trusts the plan's own baseline.
ReviewUnbased(plan, proof, led, expired) ==
    ~expired /\ proof = plan.request.proof

\* prepared.review(): the approved plan is unexpired, its package is the
\* current build's, and the observed ledger is exactly its baseline.
Review(plan, proof, led, expired) ==
    /\ ~expired /\ proof = plan.request.proof
    /\ led = plan.baseline

\* _Admission.check(): everything observed is still fresh.
Check ==
    /\ ~job.old /\ job.got["clean"] \notin gone
    /\ Review(MyPlan, Proof(job.source, job.got["build"]), job.got["provider"].ledger,
              job.input \in gone)

\* check_private_key(): the secret is the key the request was prepared for.
KeyMatches(req) == key = req.key

\* execute_native() and open_native(): the key is the plan's, the admission
\* checks pass, and the runner is not its own cleanup.
Admit ==
    /\ At("admit")
    /\ IF Check /\ KeyMatches(MyRequest) /\ job.got["clean"][1] # job.inv[1]
       THEN /\ job' = [job EXCEPT !.stage = "lease"]
            /\ UNCHANGED <<github, paid, cloud, accepted>>
       ELSE Rejected
    /\ UNCHANGED faults

\* _Admission.baseline(): the stored ledger is still the observed one.
SameLedger == ledger = job.got["provider"].ledger

\* before_write() of the ACQUIRING lease.
AcquireLease ==
    /\ At("lease")
    /\ IF Check /\ SameLedger /\ lease = None
       THEN /\ lease' = MyRequest /\ job' = [job EXCEPT !.stage = "charge"]
            /\ UNCHANGED <<github, ledger, evidence, cloud, accepted>>
       ELSE Rejected
    /\ UNCHANGED faults

\* before_write() of the ledger: the reservation.  A refusal leaves the
\* lease to the session's close, which finds nothing charged.
Charge ==
    /\ At("charge")
    /\ IF Check /\ SameLedger
       THEN /\ ledger' = Append(ledger, [kind |-> "RESERVED", request |-> MyRequest,
                                         status |-> None, by |-> job.inv])
            /\ job' = [job EXCEPT !.stage = "member"]
            /\ UNCHANGED <<github, lease, evidence, cloud, accepted>>
       ELSE /\ job' = None /\ lease' = None
            /\ UNCHANGED <<github, ledger, evidence, cloud, accepted>>
    /\ UNCHANGED faults

\* run_member() and retain_member(): the whole member's histories are run
\* and retained, or the session fails after some of them, with or without
\* the evidence of all of them having arrived.
Member ==
    /\ At("member")
    /\ \E done \in SUBSET Histories[MyRequest.member], kept, passed \in BOOLEAN :
          /\ passed => kept /\ Whole(MyRequest.member, done)
          /\ IF passed THEN UNCHANGED faults ELSE Disturb
          /\ evidence' = IF kept
                         THEN evidence \cup {[request |-> MyRequest, by |-> job.inv,
                                              histories |-> done]}
                         ELSE evidence
          /\ job' = [job EXCEPT !.stage = "finish", !.view = passed]
    /\ UNCHANGED <<github, ledger, lease, cloud, accepted>>

\* Session.close(): cleanup, completion and the terminal ledger entry; a
\* failed session raises afterwards and its job fails.
Finished(req, status) ==
    [kind |-> "FINISHED", request |-> req, status |-> status, by |-> None]

Finish ==
    /\ At("finish")
    /\ ledger' = Append(ledger, Finished(MyRequest, IF job.view THEN "PASS" ELSE "FAIL"))
    /\ lease' = None
    /\ job' = IF job.view THEN [job EXCEPT !.stage = "seal", !.view = None] ELSE None
    /\ UNCHANGED <<github, evidence, cloud, accepted, faults>>

\* seal.create() and publish(): the original seal of this attempt and the
\* ledger prefix it closed; the upload completes the job.
Seal ==
    /\ At("seal")
    /\ seals' = seals \cup {[inv |-> job.inv, request |-> MyRequest, prefix |-> ledger]}
    /\ green' = green \cup {job.inv} /\ job' = None
    /\ UNCHANGED <<master, policy, key, runs, plans, gone, paid, cloud, accepted, faults>>

(***************************************************************************)
(* verify-set: every member's original, joined to its own execution.       *)
(***************************************************************************)

Requests == {ledger[i].request : i \in DOMAIN ledger}
Invocations == {ledger[i].by : i \in {k \in DOMAIN ledger : ledger[k].kind = "RESERVED"}}

Pin(req, inv) == [request |-> req, inv |-> inv]

\* acceptance.selection(): distinct requests and distinct invocations.
Selection(chosen) ==
    \A m, n \in Members : m # n => /\ chosen[m].request # chosen[n].request
                                   /\ chosen[m].inv # chosen[n].inv

\* quota_continuation.request() and retention_recovery.request(): the
\* committed policy's originals, all of them for a recovery.
Scoped(mode, chosen) ==
    mode # "plain" =>
        /\ policy # None
        /\ policy.mode = mode /\ \A m \in DOMAIN policy.pins : chosen[m] = policy.pins[m]

\* validate_binding(): what all members of a set have in common.
Binding(req) == <<req.source, req.proof>>

\* Mutant: members of different builds are put together.
SpliceSelection(reqs) ==
    /\ \A m \in Members : reqs[m].member = m
    /\ \A m, n \in Members : m # n => reqs[m].attempt # reqs[n].attempt

\* suite.complete_selection(): one member each, distinct attempts, and one
\* binding for the whole set.
CompleteSelection(reqs) ==
    /\ \A m \in Members : reqs[m].member = m
    /\ \A m, n \in Members : m # n => reqs[m].attempt # reqs[n].attempt
    /\ \A m, n \in Members : Binding(reqs[m]) = Binding(reqs[n])

\* continuation.selections(): inherited members keep the old binding, the
\* remaining ones share one new binding of this source; recovery pins all.
ScopedSelection(source, reqs) ==
    LET rest == Members \ DOMAIN policy.pins IN
    /\ \A m \in Members : reqs[m].member = m
    /\ \A m, n \in Members : m # n => reqs[m].attempt # reqs[n].attempt
    /\ \A m, n \in rest : reqs[m].source = source /\ Binding(reqs[m]) = Binding(reqs[n])

Selected(mode, source, reqs) ==
    IF mode = "plain"
    THEN CompleteSelection(reqs) /\ \A m \in Members : reqs[m].source = source
    ELSE ScopedSelection(source, reqs)

\* retention_recovery.terminal_status(): only the waived invocation may have
\* failed, and it must have.
Terminal(mode, m) == IF mode = "recovery" /\ m = Experiment THEN "FAIL" ELSE "PASS"

\* parts.restore(): every part of the request's manifest was retained.
Parts(req) == \E e \in evidence : e.request = req

\* restore(): every selected request is terminal and its evidence complete.
Restored(mode, source, chosen, led) ==
    /\ Selected(mode, source, [m \in Members |-> chosen[m].request])
    /\ \A m \in Members : /\ Status(led, chosen[m].request) = Terminal(mode, m)
                          /\ Parts(chosen[m].request)

\* seal.match(): the seal of the selected attempt is this request's, and the
\* ledger still extends the prefix it closed.
Sealed(chosen, led) ==
    /\ chosen.inv \in green /\ chosen.inv \notin gone
    /\ \E s \in seals : s.inv = chosen.inv /\ s.request = chosen.request /\ IsPrefix(s.prefix, led)

\* Scope.collect(): the failed original run of the waived member, pinned.
Waived(chosen) == chosen.inv \notin green /\ chosen.inv \notin gone

\* runners.collect() and match() for every member of the set.
Provenance(mode, chosen, led) ==
    \A m \in Members : IF Terminal(mode, m) = "FAIL" THEN Waived(chosen[m])
                       ELSE Sealed(chosen[m], led)

\* completion(): the two entries of the request follow its plan's baseline.
Accounted(req, status, led) ==
    LET base == plans[req.attempt].baseline
        n == Len(base)
    IN /\ Len(led) >= n + 2 /\ IsPrefix(base, led)
       /\ led[n + 1].kind = "RESERVED" /\ led[n + 1].request = req
       /\ led[n + 2] = Finished(req, status)

\* member.replay(): the complete histories of the request, executed by the
\* expected invocation.
Replayed(mode, chosen, led) ==
    \A m \in Members : \E e \in evidence :
        /\ e.request = chosen[m].request /\ e.by = chosen[m].inv
        /\ Whole(m, e.histories)
        /\ Accounted(chosen[m].request, Terminal(mode, m), led)

\* verify_native(): the request, then the objects.
Verify(mode, chosen) ==
    /\ mode \in {"plain", "continuation", "recovery"}
    /\ Selection(chosen) /\ Scoped(mode, chosen)
    /\ Dispatch("verify", [mode |-> mode, chosen |-> chosen], "objects")

Objects ==
    /\ At("objects") /\ job.view = None
    /\ IF Restored(job.input.mode, job.source, job.input.chosen, ledger)
       THEN /\ job' = [job EXCEPT !.view = ledger]
            /\ UNCHANGED <<github, paid, cloud, accepted>>
       ELSE Rejected
    /\ UNCHANGED faults

\* restore()'s last read: the ledger only grew while objects were read.
Restore ==
    /\ At("objects") /\ job.view # None
    /\ IF IsPrefix(job.view, ledger)
       THEN /\ job' = [job EXCEPT !.stage = "runners", !.view = ledger]
            /\ UNCHANGED <<github, paid, cloud, accepted>>
       ELSE Rejected
    /\ UNCHANGED faults

\* The runners, the replay and the final source, on the restored ledger.
Accept ==
    /\ At("runners")
    /\ LET in == job.input IN
       IF /\ master = job.source /\ Provenance(in.mode, in.chosen, job.view)
          /\ Replayed(in.mode, in.chosen, job.view)
       THEN /\ accepted' = accepted \cup {[source |-> job.source, policy |-> policy,
                                           mode |-> in.mode, chosen |-> in.chosen]}
            /\ green' = green \cup {job.inv} /\ job' = None
            /\ UNCHANGED <<master, policy, key, runs, plans, seals, gone, paid, cloud>>
       ELSE Rejected
    /\ UNCHANGED faults

(***************************************************************************)
(* What happens meanwhile.                                                 *)
(***************************************************************************)

\* A push moves master and starts its CI run; the commit may carry a policy
\* that pins originals by request and invocation.
Policies ==
    LET pins == {Pin(s.request, s.inv) : s \in seals}
        failed == {Pin(ledger[i].request, ledger[i].by) : i \in
                     {k \in DOMAIN ledger : /\ ledger[k].kind = "RESERVED"
                                            /\ Status(ledger, ledger[k].request) = "FAIL"}}
    IN {None}
       \cup {[mode |-> "continuation", pins |-> [m \in {p.request.member} |-> p]] : p \in pins}
       \cup {[mode |-> "recovery", pins |-> f] : f \in
                {g \in [Members -> pins \cup failed] :
                    /\ g[Experiment] \in failed
                    /\ \A m \in Members : g[m].request.member = m}}

Push ==
    /\ master + 1 \in Sources /\ Len(runs) < MaxRuns
    /\ master' = master + 1 /\ policy' \in Policies
    /\ runs' = Append(runs, [Run("ci", None) EXCEPT !.source = master + 1])
    /\ UNCHANGED <<key, green, plans, seals, gone, paid, cloud, job, accepted, faults>>

\* A manual build or a further CI run of the same commit.
NewBuild(kind) ==
    /\ Disturb /\ Len(runs) < MaxRuns
    /\ runs' = Append(runs, Run(kind, None))
    /\ UNCHANGED <<master, policy, key, green, plans, seals, gone, paid, cloud, job, accepted>>

\* A build job or a cleanup run ends.
RunEnds(r, outcome) ==
    /\ runs[r].kind \in {"ci", "manual", "cleanup"} /\ runs[r].state = "pending"
    /\ runs' = [runs EXCEPT ![r].state = outcome]
    /\ IF outcome = "failure" THEN Disturb ELSE UNCHANGED faults
    /\ UNCHANGED <<master, policy, key, green, plans, seals, gone, paid, cloud, job, accepted>>

\* A build run is rerun, executing the build job again or carrying it.
Rebuild(r, carried) ==
    /\ Disturb /\ runs[r].kind \in {"ci", "manual"} /\ runs[r].state # "pending"
    /\ carried => runs[r].state = "success"
    /\ runs' = [runs EXCEPT ![r].attempt = @ + 1,
                            ![r].made = IF carried THEN @ ELSE runs[r].attempt + 1,
                            ![r].state = IF carried THEN @ ELSE "pending"]
    /\ UNCHANGED <<master, policy, key, green, plans, seals, gone, paid, cloud, job, accepted>>

\* A manual cleanup run is dispatched; the first of a commit is routine.
CleanupDispatched ==
    /\ Len(runs) < MaxRuns
    /\ IF Ids({"cleanup"}, master) = {} THEN UNCHANGED faults ELSE Disturb
    /\ runs' = Append(runs, Run("cleanup", None))
    /\ UNCHANGED <<master, policy, key, green, plans, seals, gone, paid, cloud, job, accepted>>

\* Time passes: a plan, an artifact or a cleanup is out of date, or the
\* job's own observations are.
Expire(inv) ==
    /\ Disturb /\ inv \notin gone /\ gone' = gone \cup {inv}
    /\ UNCHANGED <<master, policy, key, runs, green, plans, seals, paid, cloud, job, accepted>>

Age ==
    /\ Disturb /\ job # None /\ ~job.old /\ job' = [job EXCEPT !.old = TRUE]
    /\ UNCHANGED <<github, paid, cloud, accepted>>

RotateKey ==
    /\ Disturb /\ key' = key + 1
    /\ UNCHANGED <<master, policy, runs, green, plans, seals, gone, paid, cloud, job, accepted>>

\* Permissions, storage or quota change at the provider.
Provider(f) ==
    /\ IF f \in cloud THEN UNCHANGED faults ELSE Disturb
    /\ cloud' = IF f \in cloud THEN cloud \ {f} ELSE cloud \cup {f}
    /\ UNCHANGED <<github, paid, job, accepted>>

\* The job's machine is lost; its lease and its charge stay.
Crash ==
    /\ Disturb /\ job # None /\ job' = None
    /\ UNCHANGED <<github, paid, cloud, accepted>>

\* reconcile_native(): the abandoned lease is over its grace; the cleanup
\* finishes a charged attempt as failed and returns the lease.
Reconcile ==
    /\ lease # None
    /\ IF job = None THEN TRUE
       ELSE job.stage \notin {"charge", "member", "finish"}
    /\ ledger' = IF lease \in Pending(ledger) THEN Append(ledger, Finished(lease, "FAIL"))
                 ELSE ledger
    /\ lease' = None
    /\ UNCHANGED <<github, evidence, cloud, job, accepted, faults>>

(***************************************************************************)
(* Specification.                                                          *)
(***************************************************************************)

\* A first commit whose build and manual cleanup have succeeded, and whose
\* first member has been prepared and run, with success or with the failure
\* to confirm the evidence it had retained.
First == [member |-> Experiment, source |-> 1, key |-> 0, proof |-> [source |-> 1, build |-> <<1, 1>>],
          attempt |-> <<3, 1>>]

FirstRun(kind, input) == [kind |-> kind, source |-> 1, attempt |-> 1,
                          state |-> IF kind \in {"ci", "cleanup"} THEN "success" ELSE "pending",
                          made |-> 1, input |-> input]

Init ==
    /\ master = 1 /\ policy = None /\ key = 0
    /\ runs = <<FirstRun("ci", None), FirstRun("cleanup", None),
                FirstRun("prepare", Experiment), FirstRun("run", <<3, 1>>)>>
    /\ plans = [i \in {<<3, 1>>} |-> [request |-> First, baseline |-> <<>>]] /\ gone = {}
    /\ \E ok \in BOOLEAN :
          /\ ledger = <<[kind |-> "RESERVED", request |-> First, status |-> None,
                         by |-> <<4, 1>>],
                        Finished(First, IF ok THEN "PASS" ELSE "FAIL")>>
          /\ green = IF ok THEN {<<3, 1>>, <<4, 1>>} ELSE {<<3, 1>>}
          /\ seals = IF ok THEN {[inv |-> <<4, 1>>, request |-> First, prefix |-> ledger]}
                     ELSE {}
    /\ evidence = {[request |-> First, by |-> <<4, 1>>, histories |-> Histories[Experiment]]}
    /\ lease = None /\ cloud = {} /\ job = None /\ accepted = {} /\ faults = MaxFaults

\* The operator dispatches a job, or GitHub reruns one.
Dispatched ==
    \/ \E m \in Members : Prepare(m)
    \/ \E inv \in DOMAIN plans : Execute(inv)
    \/ \E r \in DOMAIN runs : Rerun(r)
    \/ \E mode \in {"plain", "continuation", "recovery"},
          chosen \in [Members -> {Pin(q, i) : q \in Requests, i \in Invocations}] :
             Verify(mode, chosen)

\* The job takes its next step.
JobStep ==
    \/ ReadPrepared \/ RereadPrepared \/ ReadBuild \/ RereadBuild
    \/ ReadClean \/ RereadClean \/ ReadProvider \/ RereadProvider
    \/ ReadFails \/ Plan
    \/ Admit \/ AcquireLease \/ Charge \/ Member \/ Finish \/ Seal
    \/ Objects \/ Restore \/ Accept

\* GitHub, the provider and the clock.
Meanwhile ==
    \/ \E kind \in {"ci", "manual"} : NewBuild(kind)
    \/ \E r \in DOMAIN runs, outcome \in {"success", "failure"} : RunEnds(r, outcome)
    \/ \E r \in DOMAIN runs, carried \in BOOLEAN : Rebuild(r, carried)
    \/ CleanupDispatched
    \/ \E r \in DOMAIN runs : Expire(<<r, runs[r].attempt>>)
    \/ RotateKey
    \/ \E f \in Providers : Provider(f)

Next == Dispatched \/ JobStep \/ Push \/ Meanwhile \/ Age \/ Crash \/ Reconcile

Spec == Init /\ [][Next]_vars

(***************************************************************************)
(* Properties.                                                             *)
(***************************************************************************)

\* Every charge extends exactly the ledger its approved plan was computed
\* from, once for a request, and never on top of an unresolved attempt: two
\* plans prepared on one ledger, a rerun or a reconciled crash cannot spend
\* on an approval that did not see what was already reserved
\* (cloud_prepared.review and _Admission.before_write).
ApprovedSpend ==
    \A i \in DOMAIN ledger : ledger[i].kind = "RESERVED" =>
        LET before == SubSeq(ledger, 1, i - 1) IN
        /\ before = plans[ledger[i].request.attempt].baseline
        /\ Pending(before) = {}
        /\ \A k \in 1..(i - 1) : ledger[k].request # ledger[i].request

\* The execution that charged a request.
Charger(req) == ledger[CHOOSE i \in Entries(ledger, "RESERVED", req) : TRUE].by

\* An accepted set is made of originals: every member's request was charged
\* by exactly the selected attempt, is terminal as the set claims with its
\* whole histories retained by that attempt, and all members the policy of
\* that commit does not pin come from one build of the accepted commit.
AcceptedOriginals ==
    \A a \in accepted :
        /\ \A m \in Members :
              LET c == a.chosen[m] IN
              /\ c.request.member = m /\ c.inv = Charger(c.request)
              /\ Status(ledger, c.request) = Terminal(a.mode, m)
              /\ \E e \in evidence : /\ e.request = c.request /\ e.by = c.inv
                                     /\ e.histories = Histories[m]
        /\ LET loose == {m \in Members : IF a.mode = "plain" THEN TRUE
                                         ELSE m \notin DOMAIN a.policy.pins}
           IN \A m, n \in loose : /\ a.chosen[m].request.source = a.source
                                  /\ a.chosen[m].request.proof = a.chosen[n].request.proof
=============================================================================
