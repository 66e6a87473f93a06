------------------------ MODULE BenchmarkPublication ------------------------
(***************************************************************************)
(* What happens to a benchmark set once it is published: the workflow of    *)
(* scripts/cloud/cloud_workflow_v2.py that runs a set and retains it, and   *)
(* the upload, baseline registration and comparison of                      *)
(* scripts/cloud/benchmark_v2.py.                                           *)
(*                                                                         *)
(* The object store is external: an object has a content and a generation,  *)
(* create succeeds only where there is no object, the answer of a create    *)
(* may be lost, and somebody else may delete or replace an object.  Files   *)
(* under the results root may be changed behind the tools' back.            *)
(*                                                                         *)
(* Evidence is its identity fields, its members and its metrics; a digest   *)
(* is the value digested.  A percentage is compared after multiplying out.  *)
(***************************************************************************)
EXTENDS BenchmarkEvidence

CONSTANTS
  Evidence,      \* the sets and runs under the results root
  Requests,      \* the workflow dispatches that may be made
  Names,         \* baseline names
  Registrars,    \* operators that register baselines
  Comparisons,   \* the comparisons operators ask for
  MaxFaults,     \* bound on lost answers, foreign writes and local edits
  MaxGeneration  \* bound on the writes to the object store

ASSUME FaultsBound == {MaxFaults, MaxGeneration} \subseteq Nat

\* No exit code is None.  Evidence has a directory, and so an identity, of its
\* own; an ordered metric has a value and, unless it is unavailable, a
\* variation, both scaled to natural numbers.
ASSUME EvidenceAssumption ==
  /\ None \notin Int
  /\ \A e, f \in Evidence : e.id = f.id => e = f
  /\ \A e \in Evidence :
       /\ e.id # None
       /\ \A m \in DOMAIN e.metrics : e.metrics[m].statistic = "mean_time" =>
            e.metrics[m].value \in Nat /\ e.metrics[m].variation \in Nat \cup {None}
  /\ \A q \in Comparisons : {q.baseline, q.candidate} \subseteq Evidence

VARIABLES
  disk,      \* the evidence still as it was written
  store,     \* the object store
  stored,    \* every object version that was ever in the store
  receipts,  \* upload-receipts/ under the results root of each uploader
  upload,    \* the upload in progress for each uploader
  registry,  \* the baseline registry file
  desk,      \* the registration each registrar is in
  job,       \* the workflow job
  verdict,   \* the comparison document written last
  faults     \* how many faults have happened

publicationVars == <<disk, store, stored, receipts, upload, registry, desk, job, verdict, faults>>

Registry == 85
UploadError == 86
Incomparable == 84
FinalName == "v3.4"

Uploaders == {"job", "operator"}

-----------------------------------------------------------------------------
(* Local evidence *)

EvidenceNamed(id) == CHOOSE e \in Evidence : e.id = id

MinimumOf(e) == IF e.profile = "canonical" THEN 3 ELSE 1
StatusOf(profile) == IF profile = "canonical" THEN "VALID_CANONICAL_SET" ELSE "VALID_EXPERIMENT_SET"

\* The file set and every digest of the evidence's checksum file.
VerifyExactChecksumFile(e) == Raise(e.id \notin disk, Invalid)

ValidateSetEvidence(e) ==
  IF VerifyExactChecksumFile(e) # Ok THEN VerifyExactChecksumFile(e)
  ELSE IF e.status \notin {StatusOf(p) : p \in {"canonical", "experiment"}} THEN Unsupported
  ELSE Raise(\/ e.repository = None \/ e.status # StatusOf(e.profile)
             \/ Len(e.members) < MinimumOf(e) \/ e.aggregated # Len(e.members), Contradiction)

ValidateRunEvidence(e) ==
  IF VerifyExactChecksumFile(e) # Ok THEN VerifyExactChecksumFile(e)
  ELSE IF e.status # "VALID" THEN Unsupported
  ELSE Raise(e.repository = None, Contradiction)

ValidateEvidence(e) == IF e.kind = "set" THEN ValidateSetEvidence(e) ELSE ValidateRunEvidence(e)

-----------------------------------------------------------------------------
(* Comparison *)

ScientificEnvironment(env) == IF env = None THEN None ELSE env.host

Signature(m) == <<m.statistic, m.direction>>

ProvisioningOnly(b, c) ==
  /\ b.env # None /\ c.env # None
  /\ ScientificEnvironment(b.env) = ScientificEnvironment(c.env)
  /\ {b.env.provisioning, c.env.provisioning} = {"spot", "standard"}

CompatibilityDecision(b, c, exploratory) ==
  LET comparable ==
        /\ <<b.config, b.mode, b.preset, b.repository, b.suite>>
             = <<c.config, c.mode, c.preset, c.repository, c.suite>>
        /\ DOMAIN b.metrics = DOMAIN c.metrics
        /\ \A m \in DOMAIN b.metrics : Signature(b.metrics[m]) = Signature(c.metrics[m])
        /\ b.env = c.env \/ ProvisioningOnly(b, c)
      direct == /\ comparable /\ b.env = c.env
                /\ {b.kind, c.kind} = {"set"}
                /\ {b.status, c.status} = {"VALID_CANONICAL_SET"}
  IN  CASE direct -> "DIRECTLY_COMPARABLE"
        [] ~direct /\ exploratory /\ comparable -> "COMPARABLE_WITH_WARNINGS"
        [] OTHER -> "INCOMPARABLE"

HealthyConsensus(value) == value = "healthy"

\* Mutant: the change's magnitude is taken for its benefit.
UnsignedBenefit(b, c) == IF c.value >= b.value THEN c.value - b.value ELSE b.value - c.value

\* The benefit of the candidate, in hundredths of the baseline when divided
\* by it.
Benefit(b, c) ==
  IF b.direction = "higher" THEN c.value - b.value ELSE b.value - c.value

ClassifyContinuous(b, c) ==
  LET variation == Max({b.variation, c.variation})
      neutral == Max({5, variation})
      material == Max({10, 2 * variation})
      benefit == 100 * Benefit(b, c)
      size == IF benefit < 0 THEN -benefit ELSE benefit
  IN  CASE b.value = 0 -> "unclassified"
        [] b.value # 0 /\ None \in {b.variation, c.variation} -> "unclassified"
        [] OTHER ->
             IF size <= neutral * b.value THEN "NEUTRAL"
             ELSE IF benefit > 0
                  THEN IF size >= material * b.value THEN "MATERIAL_IMPROVEMENT" ELSE "IMPROVEMENT"
                  ELSE IF size >= material * b.value THEN "POSSIBLE_REGRESSION" ELSE "WARNING"

ClassifyHealth(b, c) ==
  CASE ~HealthyConsensus(b.value) -> "INVALID"
    [] HealthyConsensus(b.value) /\ HealthyConsensus(c.value) -> "NEUTRAL"
    [] OTHER -> IF c.value = "flagged" THEN "WARNING" ELSE "INVALID"

ClassifyMetric(b, c) ==
  CASE b.statistic = "mean_time" -> ClassifyContinuous(b, c)
    [] b.statistic = "health" -> ClassifyHealth(b, c)
    [] OTHER -> IF b.value = c.value THEN "NEUTRAL" ELSE "unclassified"

\* A document's identity is that of the two pieces of evidence and the mode
\* asked for, so writing the same comparison again changes nothing.
ComparisonIdentity(b, c, exploratory) == <<b.id, c.id, exploratory>>

CompareBenchmarks(b, c, exploratory) ==
  LET status == CompatibilityDecision(b, c, exploratory)
  IN  [id |-> ComparisonIdentity(b, c, exploratory), status |-> status,
       metrics |-> IF status = "INCOMPARABLE" THEN <<>>
                   ELSE [m \in DOMAIN b.metrics |-> ClassifyMetric(b.metrics[m], c.metrics[m])]]

\* The baseline is a path or a registered name; a name's entry must bind the
\* local set.
ResolveRegistryBaseline(name) ==
  {e \in Evidence : /\ registry[name] # None /\ registry[name].set = e.id
                    /\ ValidateEvidence(e) = Ok}

Compare(b, c, exploratory) ==
  /\ {ValidateEvidence(b), ValidateEvidence(c)} = {Ok}
  /\ verdict' = CompareBenchmarks(b, c, exploratory)
  /\ verdict' # verdict
  /\ UNCHANGED <<disk, store, stored, receipts, upload, registry, desk, job, faults>>

ComparePaths == \E q \in Comparisons : Compare(q.baseline, q.candidate, q.exploratory)

CompareNamed ==
  \E name \in Names, q \in Comparisons :
    \E b \in ResolveRegistryBaseline(name) : Compare(b, q.candidate, q.exploratory)

-----------------------------------------------------------------------------
(* Upload plans and the object store *)

\* A member's run directory, orchestration record and derived run stand for
\* one object.
RunUploadPlan(run) == {<<"run", run>>}

\* The members' objects, each URI once, and the set's own files.
SetUploadPlan(e) ==
  (UNION {RunUploadPlan(e.members[i]) : i \in DOMAIN e.members}) \cup {<<"manifest", e.id>>}

PlanEvidenceUpload(e) ==
  [error |-> ValidateEvidence(e),
   objects |-> IF e.kind = "set" THEN SetUploadPlan(e) ELSE RunUploadPlan(e.id)]

\* Objects are uploaded in the order of their URIs: every raw/ before sets/.
FirstByUri(objects) ==
  LET runs == {o \in objects : o[1] = "run"}
  IN  CHOOSE o \in objects : runs # {} => o \in runs

\* The content the planner read for an object.
ContentOf(object) == <<"bytes", object>>

\* Mutant: an object that is already there is taken to be ours.
AnyRemoteObject(content, remote) == TRUE

\* Size, CRC32C, SHA-256 and MD5 of the remote object.
VerifyRemoteUploadObject(content, remote) == remote.content = content

VerifyRecordedRemoteObject(object, generation) ==
  store[object] # None /\ store[object] = [content |-> ContentOf(object), generation |-> generation]

Generation == Cardinality(stored) + 1

PutObject(object, content) ==
  LET version == [content |-> content, generation |-> Generation]
  IN  /\ Cardinality(stored) < MaxGeneration
      /\ store' = [store EXCEPT ![object] = version]
      /\ stored' = stored \cup {<<object, version>>}

\* objects is what is still to be uploaded.
Idle == [phase |-> "idle", evidence |-> None, objects |-> {}, verified |-> <<>>, exit |-> 0]

ReceiptOf(u) == [source |-> upload[u].evidence, kind |-> EvidenceNamed(upload[u].evidence).kind,
                 objects |-> upload[u].verified]
ReceiptObject(receipt) == <<"receipt", receipt>>

\* The object the uploader is at: the evidence's objects, then the receipt.
CurrentObject(u) ==
  IF upload[u].phase = "receipt" THEN ReceiptObject(ReceiptOf(u)) ELSE FirstByUri(upload[u].objects)

StartUpload(u, e) ==
  LET plan == PlanEvidenceUpload(e)
  IN  upload' = [upload EXCEPT ![u] =
                   IF plan.error # Ok THEN [Idle EXCEPT !.phase = "ended", !.evidence = e.id, !.exit = plan.error]
                   ELSE [Idle EXCEPT !.phase = "describe", !.evidence = e.id, !.objects = plan.objects]]

FailUpload(u, code) == upload' = [upload EXCEPT ![u].phase = "ended", ![u].exit = code]

\* The object is in the store: it must be the one planned.  Then the next
\* object, or the receipt when it was the last.
VerifyCurrent(u, remote) ==
  LET object == CurrentObject(u)
      last == upload[u].objects = {object}
  IN  IF ~VerifyRemoteUploadObject(ContentOf(object), remote) THEN FailUpload(u, UploadError)
      ELSE upload' = [upload EXCEPT
             ![u].verified = Append(@, <<object, remote.generation>>),
             ![u].objects = @ \ {object},
             ![u].phase = IF last THEN "receipt" ELSE "describe"]

\* upload_and_verify_object up to its first describe: the source must be
\* unchanged since planning, and an object already there is only verified.
DescribeObject(u) ==
  /\ upload[u].phase = "describe"
  /\ IF upload[u].evidence \notin disk THEN FailUpload(u, Contradiction)
     ELSE IF store[CurrentObject(u)] = None THEN upload' = [upload EXCEPT ![u].phase = "create"]
     ELSE VerifyCurrent(u, store[CurrentObject(u)])
  /\ UNCHANGED <<disk, store, stored, receipts, registry, desk, job, verdict, faults>>

\* create with if-generation-match=0, then describe again.
CreateObject(u) ==
  /\ upload[u].phase = "create"
  /\ IF store[CurrentObject(u)] = None
     THEN PutObject(CurrentObject(u), ContentOf(CurrentObject(u)))
     ELSE UNCHANGED <<store, stored>>
  /\ upload' = [upload EXCEPT ![u].phase = "confirm"]
  /\ UNCHANGED <<disk, receipts, registry, desk, job, verdict, faults>>

\* create reports an error although nothing, or everything, was written.
CreateFails(u) ==
  /\ upload[u].phase = "create"
  /\ faults < MaxFaults /\ faults' = faults + 1
  /\ \/ UNCHANGED <<store, stored>>
     \/ store[CurrentObject(u)] = None /\ PutObject(CurrentObject(u), ContentOf(CurrentObject(u)))
  /\ upload' = [upload EXCEPT ![u].phase = "confirm"]
  /\ UNCHANGED <<disk, receipts, registry, desk, job, verdict>>

ConfirmObject(u) ==
  /\ upload[u].phase = "confirm"
  /\ IF store[CurrentObject(u)] = None THEN FailUpload(u, UploadError)
     ELSE VerifyCurrent(u, store[CurrentObject(u)])
  /\ UNCHANGED <<disk, store, stored, receipts, registry, desk, job, verdict, faults>>

\* The receipt names every object with its generation.  It is uploaded (its
\* name is its content, so no other content can be there), then written
\* under the results root, in that order.
FinishUpload(u) ==
  /\ upload[u].phase = "receipt"
  /\ receipts' = [receipts EXCEPT ![u] = @ \cup {ReceiptOf(u)}]
  /\ upload' = [upload EXCEPT ![u].phase = "ended", ![u].exit = Ok]
  /\ UNCHANGED <<disk, store, stored, registry, desk, job, verdict, faults>>

\* The receipt's own upload fails: nothing is written locally.
ReceiptUploadFails(u) ==
  /\ upload[u].phase = "receipt"
  /\ faults < MaxFaults /\ faults' = faults + 1
  /\ FailUpload(u, UploadError)
  /\ UNCHANGED <<disk, store, stored, receipts, registry, desk, job, verdict>>

UploadStep(u) ==
  \/ DescribeObject(u) \/ CreateObject(u) \/ CreateFails(u) \/ ConfirmObject(u)
  \/ FinishUpload(u) \/ ReceiptUploadFails(u)

\* An operator runs upload-cloud-benchmark.sh by hand, again after a failure.
OperatorUploads(e) ==
  /\ upload["operator"].phase \in {"idle", "ended"}
  /\ e.id # upload["operator"].evidence \/ upload["operator"].exit # Ok
  /\ StartUpload("operator", e)
  /\ UNCHANGED <<disk, store, stored, receipts, registry, desk, job, verdict, faults>>

\* Somebody else writes to the bucket.
ForeignWrite(object) ==
  /\ faults < MaxFaults /\ faults' = faults + 1
  /\ \/ PutObject(object, <<"foreign", object>>)
     \/ store[object] # None /\ store' = [store EXCEPT ![object] = None] /\ UNCHANGED stored
  /\ UNCHANGED <<disk, receipts, upload, registry, desk, job, verdict>>

LocalEdit(e) ==
  /\ e.id \in disk
  /\ faults < MaxFaults /\ faults' = faults + 1
  /\ disk' = disk \ {e.id}
  /\ UNCHANGED <<store, stored, receipts, upload, registry, desk, job, verdict>>

-----------------------------------------------------------------------------
(* The baseline registry *)

AllReceipts == UNION {receipts[u] : u \in Uploaders}

MatchingReceipts(e) == {r \in AllReceipts : r.kind = "set" /\ r.source = e.id}

\* The generation a receipt gives an object, None when it does not list it.
RecordedGeneration(receipt, object) ==
  LET entries == {i \in DOMAIN receipt.objects : receipt.objects[i][1] = object}
  IN  IF entries = {} THEN None ELSE receipt.objects[CHOOSE i \in entries : TRUE][2]

ValidateUploadReceipt(receipt) == receipt \in AllReceipts /\ receipt.objects # <<>>

\* Only the frozen family may use the final name, and it may use no other.
FinalFamilyName(name, e) ==
  (name = FinalName \/ e.mode = "final-v34") => (name = FinalName /\ e.mode = "final-v34")

RegistryEntry(e, receipt) ==
  [set |-> e.id, receipt |-> receipt,
   generation |-> RecordedGeneration(receipt, <<"manifest", e.id>>)]

\* Mutant: the name is not looked up in the registry.
NameNotChecked(name) == TRUE

NameIsNew(name) == registry[name] = None

\* register_cloud_baseline up to its first look at the bucket: the registry
\* it will write is made from the one it reads now.  Without --receipt
\* exactly one receipt must bind the set.
BeginRegistration(r, name, e, receipt) ==
  /\ desk[r].phase = "idle"
  /\ e.kind = "set" /\ ValidateSetEvidence(e) = Ok
  /\ e.status = "VALID_CANONICAL_SET" /\ e.profile = "canonical"
  /\ FinalFamilyName(name, e)
  /\ ValidateUploadReceipt(receipt) /\ receipt \in MatchingReceipts(e)
  /\ RecordedGeneration(receipt, <<"manifest", e.id>>) # None
  /\ NameIsNew(name)
  /\ desk' = [desk EXCEPT ![r] =
       [phase |-> "verify", name |-> name, receipt |-> receipt, at |-> 1,
        candidate |-> [registry EXCEPT ![name] = RegistryEntry(e, receipt)]]]
  /\ UNCHANGED <<disk, store, stored, receipts, upload, registry, job, verdict, faults>>

\* Every object of the receipt must be in the bucket at its recorded
\* generation; one that is not ends the command.
VerifyNext(r) ==
  /\ desk[r].phase = "verify"
  /\ LET d == desk[r]
         item == d.receipt.objects[d.at]
         last == d.at = Len(d.receipt.objects)
     IN  desk' = [desk EXCEPT ![r] =
           IF ~VerifyRecordedRemoteObject(item[1], item[2]) THEN [d EXCEPT !.phase = "idle"]
           ELSE [d EXCEPT !.at = d.at + 1, !.phase = IF last THEN "replace" ELSE "verify"]]
  /\ UNCHANGED <<disk, store, stored, receipts, upload, registry, job, verdict, faults>>

AtomicReplaceRegistry(r) ==
  /\ desk[r].phase = "replace"
  /\ registry' = desk[r].candidate
  /\ desk' = [desk EXCEPT ![r].phase = "idle"]
  /\ UNCHANGED <<disk, store, stored, receipts, upload, job, verdict, faults>>

-----------------------------------------------------------------------------
(* The workflow *)

\* The dispatches make_plan accepts.
MakePlan(q) ==
  /\ q.profile \in {"experiment", "canonical"} /\ q.repeats \in {1, 3, 5}
  /\ q.retention \in {"actions", "gcs"} /\ q.provisioning \in {"spot", "standard"}
  /\ q.profile = "canonical" =>
       /\ q.mode # "quick" /\ q.repeats \in {3, 5}
       /\ q.provisioning = "standard" /\ q.retention = "gcs"
  /\ IF q.mode = "final-v34"
     THEN /\ q.profile = "experiment" => q.repeats = 1
          /\ q.profile = "canonical" => ~q.long
          /\ q.long => q.profile = "experiment" /\ q.provisioning = "standard" /\ q.retention = "gcs"
     ELSE q.long => q.profile = "experiment" /\ q.repeats = 1 /\ q.mode \in {"soak", "all"}

\* The reviewed values; the bucket is needed only for GCS retention.
ValidateConfig(q, configured) ==
  IF q.retention = "gcs" THEN configured = {"identity", "bucket"} ELSE "identity" \in configured

LocatedSets(q, root) ==
  {e \in root : /\ e.kind = "set"
                /\ e.commit = q.commit /\ e.profile = q.profile /\ e.mode = q.mode
                /\ Len(e.members) = q.repeats /\ e.repository # None}

LocateSet(q, root) ==
  LET found == LocatedSets(q, root)
  IN  Raise(\/ Cardinality(found) # 1
            \/ \E e \in found : e.status # StatusOf(q.profile) \/ e.id \notin disk, Contradiction)

NoUpload(status) == [exit |-> None, receipt |-> None, status |-> status]

\* The first exit that is not zero is the primary one; a set that cannot be
\* found is a failure of its own.
BenchmarkResult(q, root, dryExit, benchmarkExit) ==
  LET exit == IF dryExit # Ok THEN dryExit ELSE benchmarkExit
      primary == IF exit # Ok THEN exit ELSE LocateSet(q, root)
  IN  [primary |-> primary, upload |-> NoUpload("pending"),
       set |-> IF primary = Ok THEN (CHOOSE e \in LocatedSets(q, root) : TRUE).id ELSE None]

\* The results root of the runner was empty of receipts when the job began.
ReceiptsForSet(id) == {r \in receipts["job"] : r.kind = "set" /\ r.source = id}

\* Mutant: a failed upload is recorded like one nobody asked for.
FailedIsNotRequested(q, result, uploadExit) ==
  CASE result.primary # Ok -> NoUpload("not-run")
    [] result.primary = Ok /\ (q.retention = "actions" \/ uploadExit # Ok) -> NoUpload("not-requested")
    [] OTHER -> [exit |-> Ok, receipt |-> CHOOSE r \in ReceiptsForSet(result.set) : TRUE,
                 status |-> "complete"]

\* record-upload: what the retention step did.
UpdateUpload(q, result, uploadExit) ==
  CASE result.primary # Ok -> NoUpload("not-run")
    [] result.primary = Ok /\ q.retention = "actions" -> NoUpload("not-requested")
    [] result.primary = Ok /\ q.retention # "actions" /\ uploadExit # Ok ->
         [NoUpload("failed") EXCEPT !.exit = uploadExit]
    [] OTHER ->
         IF Cardinality(ReceiptsForSet(result.set)) # 1
         THEN [NoUpload("failed") EXCEPT !.exit = Contradiction]
         ELSE [exit |-> Ok, receipt |-> CHOOSE r \in ReceiptsForSet(result.set) : TRUE,
               status |-> "complete"]

\* The staged artifact holds the set, its members and the receipt; a source
\* that is gone or unsafe fails the step.
StageArtifact(result) ==
  result # None /\ (result.set # None => EvidenceNamed(result.set).kind = "set")

FinalExit(result, outcomes) ==
  IF result = None THEN Config
  ELSE IF result.primary # Ok THEN result.primary
  ELSE IF result.upload.exit \notin {None, Ok} THEN result.upload.exit
  ELSE IF outcomes # {"success"} THEN Config
  ELSE Ok

Steps == {"config", "execute", "retention", "report"}
JobIdle == [phase |-> "idle", request |-> None, result |-> None,
            outcome |-> [s \in Steps |-> "skipped"], exit |-> None]

Outcome(step, ok) == [job.outcome EXCEPT ![step] = IF ok THEN "success" ELSE "failure"]

\* preflight and the plan step: make_plan, then assert_fresh on the results
\* root of the runner.
Dispatch(q) ==
  /\ job.phase = "idle" /\ MakePlan(q)
  /\ job' = [job EXCEPT !.phase = "config", !.request = q]
  /\ UNCHANGED <<disk, store, stored, receipts, upload, registry, desk, verdict, faults>>

\* Configuration, authentication and the SDK: without them only the steps
\* marked always() run.
Configure(configured) ==
  /\ job.phase = "config"
  /\ LET ok == ValidateConfig(job.request, configured)
     IN  job' = [job EXCEPT !.outcome = Outcome("config", ok), !.phase = IF ok THEN "execute" ELSE "report"]
  /\ UNCHANGED <<disk, store, stored, receipts, upload, registry, desk, verdict, faults>>

\* Dry run, the set itself (BenchmarkSet: a set is published only with exit
\* 0) and benchmark-result; then the upload when the plan retains in GCS.
Execute(dryExit, benchmarkExit, root) ==
  /\ job.phase = "execute"
  /\ root # {} => dryExit = Ok /\ benchmarkExit = Ok
  /\ LET result == BenchmarkResult(job.request, root, dryExit, benchmarkExit)
         uploads == result.primary = Ok /\ job.request.retention = "gcs"
     IN  /\ job' = [job EXCEPT !.result = result, !.outcome = Outcome("execute", TRUE),
                               !.phase = IF uploads THEN "upload" ELSE "record"]
         /\ IF uploads THEN StartUpload("job", EvidenceNamed(result.set)) ELSE UNCHANGED upload
  /\ UNCHANGED <<disk, store, stored, receipts, registry, desk, verdict, faults>>

\* record-upload never fails: what it cannot record is an upload failure.
RecordUpload ==
  /\ \/ job.phase = "record"
     \/ job.phase = "upload" /\ upload["job"].phase = "ended"
  /\ job' = [job EXCEPT !.result.upload = UpdateUpload(job.request, job.result, upload["job"].exit),
                        !.outcome = Outcome("retention", TRUE), !.phase = "report"]
  /\ UNCHANGED <<disk, store, stored, receipts, upload, registry, desk, verdict, faults>>

\* The retention step is killed before it records anything.
RetentionKilled ==
  /\ job.phase \in {"upload", "record"}
  /\ faults < MaxFaults /\ faults' = faults + 1
  /\ job' = [job EXCEPT !.outcome = Outcome("retention", FALSE), !.phase = "report"]
  /\ upload' = [upload EXCEPT !["job"] = Idle]
  /\ UNCHANGED <<disk, store, stored, receipts, registry, desk, verdict>>

\* Summary, staging, artifact upload and the final exit.
Report(reported) ==
  /\ job.phase = "report"
  /\ LET ok == reported /\ StageArtifact(job.result)
         outcome == Outcome("report", ok)
     IN  job' = [job EXCEPT !.outcome = outcome, !.phase = "done",
                            !.exit = FinalExit(job.result, Range(outcome))]
  /\ UNCHANGED <<disk, store, stored, receipts, upload, registry, desk, verdict, faults>>

-----------------------------------------------------------------------------
\* The names evidence can be uploaded under.
ObjectNames == UNION {RunUploadPlan(e.id) \cup SetUploadPlan(e) : e \in Evidence}

PInit ==
  /\ disk = {e.id : e \in Evidence}
  /\ store = [o \in ObjectNames |-> None]
  /\ stored = {} /\ receipts = [u \in Uploaders |-> {}] /\ verdict = None /\ faults = 0
  /\ upload = [u \in Uploaders |-> Idle]
  /\ registry = [n \in Names |-> None]
  /\ desk = [r \in Registrars |-> [phase |-> "idle", name |-> None, receipt |-> None,
                                   at |-> 0, candidate |-> None]]
  /\ job = JobIdle

PNext ==
  \/ ComparePaths \/ CompareNamed
  \/ \E u \in Uploaders : UploadStep(u)
  \/ \E e \in Evidence : OperatorUploads(e) \/ LocalEdit(e)
  \/ \E o \in DOMAIN store : ForeignWrite(o)
  \/ \E r \in Registrars :
       \/ \E n \in Names, e \in Evidence, receipt \in AllReceipts : BeginRegistration(r, n, e, receipt)
       \/ VerifyNext(r) \/ AtomicReplaceRegistry(r)
  \/ \E q \in Requests : Dispatch(q)
  \/ \E configured \in SUBSET {"identity", "bucket"} : Configure(configured)
  \/ \E reported \in BOOLEAN : Report(reported)
  \/ \E d, b \in {Ok, 20}, root \in SUBSET Evidence : Execute(d, b, root)
  \/ RecordUpload \/ RetentionKilled

-----------------------------------------------------------------------------
(* Properties *)

Authentic(entry) == <<entry[1], [content |-> ContentOf(entry[1]), generation |-> entry[2]]>> \in stored

\* Every receipt, and so every registered baseline, names object versions
\* that really were stored with the bytes of the evidence (upload_evidence,
\* register_cloud_baseline): whatever else was written to the bucket, lost on
\* the way or edited on disk, none binds another writer's object.
ReceiptsAuthentic ==
  /\ \A r \in AllReceipts : \A i \in DOMAIN r.objects : Authentic(r.objects[i])
  /\ \A n \in Names : registry[n] # None =>
       /\ registry[n].receipt \in AllReceipts
       /\ registry[n].generation = RecordedGeneration(registry[n].receipt, <<"manifest", registry[n].set>>)
       /\ Authentic(<<<<"manifest", registry[n].set>>, registry[n].generation>>)

\* A workflow that ends with exit 0 has a completed set that matches its
\* request and, with GCS retention, a receipt for all of that set's objects
\* (final_exit, update_upload, benchmark_result).
GreenIsRetained ==
  job.phase = "done" /\ job.exit = Ok =>
    /\ job.result.set # None
    /\ LET e == EvidenceNamed(job.result.set)
       IN  /\ e.profile = job.request.profile /\ Len(e.members) = job.request.repeats
           /\ job.request.retention = "gcs" =>
                \E r \in receipts["job"] :
                  /\ r.source = e.id
                  /\ \A o \in SetUploadPlan(e) :
                       \E i \in DOMAIN r.objects : r.objects[i][1] = o /\ Authentic(r.objects[i])

Better == {"IMPROVEMENT", "MATERIAL_IMPROVEMENT"}
Worse == {"WARNING", "POSSIBLE_REGRESSION"}

\* Baseline and candidate exchanged, a metric that improved does not improve
\* again and one that got worse does not get worse again (classify_metric).
VerdictsAgree ==
  verdict # None /\ verdict.status # "INCOMPARABLE" =>
    \E b, c \in Evidence :
      /\ ComparisonIdentity(b, c, verdict.id[3]) = verdict.id
      /\ \A m \in DOMAIN verdict.metrics :
           LET back == ClassifyMetric(c.metrics[m], b.metrics[m])
           IN  /\ verdict.metrics[m] \in Better => back \notin Better
               /\ verdict.metrics[m] \in Worse => back \notin Worse

\* A baseline name keeps the evidence it was registered with.
NamesImmutable ==
  [][\A n \in Names : registry[n] # None => registry'[n] = registry[n]]_registry
=============================================================================
