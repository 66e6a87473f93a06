---------------------------- MODULE BenchmarkSet ----------------------------
(***************************************************************************)
(* A benchmark set of scripts/cloud/benchmark_v2.py: the workspace of       *)
(* numbered slots that run-cloud-benchmark-set.sh fills, one cloud run at a *)
(* time, until the members can be published as one set.                     *)
(*                                                                         *)
(* The driver and the cloud run it starts are separate processes.  Either   *)
(* may be killed at any point; what is left is what they wrote: the          *)
(* checkpoint (replaced as a whole), one immutable file for each finished   *)
(* attempt and each authorized replacement, the pointer to the run's record *)
(* and the record itself.  A command that writes two files can be killed    *)
(* between them: write is what it still has to do.                          *)
(*                                                                         *)
(* The checkpoint's revision counter, file names and log texts are left     *)
(* out: nothing reads them.                                                 *)
(***************************************************************************)
EXTENDS BenchmarkEvidence

CONSTANTS
  Plans,        \* the plans a workspace may be created with
  Faults,       \* what may be wrong with the evidence of a run of each plan
  RunExits,     \* the exits a cloud run may end with
  MaxAttempts,  \* bound on the attempts for one slot
  MaxCrashes    \* bound on the number of times the driver is killed

ASSUME BoundsAssumption == {MaxAttempts, MaxCrashes} \subseteq Nat
ASSUME PlansAssumption == None \notin Plans /\ \A p \in Plans : p.profile \in {"canonical", "experiment"}
ASSUME FaultsAssumption == \A p \in Plans : "none" \in Faults[p]
ASSUME ExitsAssumption == RunExits \subseteq 0..255

VARIABLES
  plan,         \* set-plan.json
  checkpoint,   \* checkpoint.json
  attempts,     \* attempts/slot/attempt.json, by slot and attempt
  replacements, \* replacements/slot/replacement.json
  published,    \* the final set directories
  runs,         \* the cloud runs started, by slot and attempt
  driver,       \* where run_set is
  write,        \* the checkpoint a command is about to save
  crashes       \* how often the driver was killed

setVars == <<plan, checkpoint, attempts, replacements, published, runs, driver, write, crashes>>

-----------------------------------------------------------------------------
(* Values *)

MinimumMembers(profile) == IF profile = "canonical" THEN 3 ELSE 1

\* The plans set-init accepts.
ValidSetPlan(p) ==
  /\ p.repeats \in MinimumMembers(p.profile)..10
  /\ p.commit # None
  /\ p.mode \in Modes
  /\ p.profile = "canonical" =>
       /\ p.mode \in CanonicalModes
       /\ p.preset # None /\ CanonicalPresets[p.preset].mode = p.mode
       /\ p.provisioning = "standard"
       /\ p.mode = "final-v34" => p.repeats \in {3, 5}
  /\ p.preset # None => CanonicalPresets[p.preset].mode = p.mode

InitialCheckpoint(p) ==
  [state |-> "READY", current |-> None, next |-> 1, final |-> None,
   slots |-> [s \in 1..p.repeats |->
                [state |-> "PENDING", attempts |-> 0, selected |-> None]]]

\* The evidence of a run of this plan, and what may be wrong with it.
Entry(workload, mode, score) ==
  [workload |-> workload, mode |-> mode, score |-> score, forks |-> 2, iterations |-> 1,
   group |-> IF workload = "concurrency" THEN <<4, 1>> ELSE None, gcCount |-> 0,
   gcTime |-> None, percentiles |-> {}, queue |-> [rawData |-> <<<<1>>, <<score>>>>,
                                                   score |-> score + 1]]

Sound(p, id) ==
  [id |-> id, instance |-> id, files |-> Required \cup {"jmh"},
   listed |-> Required \cup {"jmh"}, torn |-> {}, schema |-> 1, suite |-> "v3",
   commit |-> p.commit, mode |-> p.mode, dirty |-> FALSE, host |-> "c3d", memory |-> 64,
   provisioning |-> p.provisioning, preset |-> p.preset, forks |-> 2, iterations |-> 1,
   status |-> [mode |-> p.mode, status |-> "PASS"],
   groups |-> {<<4, 1>>},
   jmh |-> IF p.mode = "final-v34" THEN <<>>
           ELSE <<Entry("document-scale", "avgt", id[1]), Entry("concurrency", "thrpt", id[2])>>,
   soak |-> IF p.mode # "all" THEN None
            ELSE [configured |-> TRUE, status |-> "PASS", errors |-> 0, throughput |-> id[1]],
   final |-> IF p.mode # "final-v34" THEN None
             ELSE [seconds |-> 1800, summary |-> <<"PASS", 1800>>,
                   cold |-> [i \in 1..5 |-> "SUCCESS"], axes |-> FinalAxes,
                   cells |-> FinalCells, longRun |-> "SUCCESS", windows |-> <<0, 1>>,
                   reads |-> id[1], checksum |-> "x"]]

RawOf(p, id, fault) ==
  LET raw == Sound(p, id)
      damaged(f) ==
        CASE f = "none"       -> raw
          [] f = "torn"       -> [raw EXCEPT !.torn = {"jmh"}]
          [] f = "lost"       -> [raw EXCEPT !.files = @ \ {"jmh"}]
          [] f = "future"     -> [raw EXCEPT !.schema = 2]
          [] f = "legacy"     -> [raw EXCEPT !.schema = 0]
          [] f = "otherhost"  -> [raw EXCEPT !.host = "n2"]
          [] f = "memory"     -> [raw EXCEPT !.memory = 65]
          [] f = "dirty"      -> [raw EXCEPT !.dirty = TRUE]
          [] f = "samerun"    -> [raw EXCEPT !.id = <<0, 0>>]
          [] f = "windows"    -> IF raw.final = None THEN raw
                                 ELSE [raw EXCEPT !.final.windows = <<0>>]
          [] f = "gc"         -> IF raw.jmh = <<>> THEN raw ELSE [raw EXCEPT !.jmh[1].gcCount = 1]
          [] f = "repeated"   -> [raw EXCEPT !.jmh = @ \o @]
          [] f = "commit"     -> [raw EXCEPT !.commit = "other"]
          [] f = "failed"     -> [raw EXCEPT !.status.status = "FAIL"]
  IN damaged(fault)

\* The orchestration record a run that ended with exit leaves.
RecordOf(p, id, run) ==
  LET raw == RawOf(p, id, run.fault)
  IN  [instance |-> raw.instance, commit |-> raw.commit, mode |-> p.mode,
       provisioning |-> p.provisioning, result |-> raw.id, stage |-> run.stage,
       primaryExit |-> run.exit, recovered |-> TRUE, preempted |-> FALSE, cleaned |-> TRUE,
       cleanupAttempted |-> TRUE]

\* What derivation and the plan say of each run that may happen, and the key it
\* is compared by.
RunIds == (1..Max({p.repeats : p \in Plans})) \X (1..MaxAttempts)

DerivedExit ==
  [p \in Plans, id \in RunIds, fault \in UNION {Faults[q] : q \in Plans} |->
     LET raw == RawOf(p, id, fault)
         record == RecordOf(p, id, [stage |-> "FINISHED", exit |-> 0, fault |-> fault])
     IN  FirstError(<<DeriveManifest(raw, record, p.profile),
                      ValidateMemberAgainstPlan(p, Manifest(raw, record, p.profile))>>)]

MemberKey ==
  [p \in Plans, id \in RunIds, fault \in UNION {Faults[q] : q \in Plans} |-> MemberCompatibilityKey(RawOf(p, id, fault))]

-----------------------------------------------------------------------------
(* The cloud run: run-cloud-benchmark.sh, one process for each attempt *)

Attempt == checkpoint.current
RunOf(id) == runs[id]
Started == DOMAIN runs
Live == {id \in Started : ~runs[id].ended}

StartRun(id) ==
  [i \in Started \cup {id} |->
     IF i = id THEN [stage |-> None, pointer |-> FALSE, ended |-> FALSE, exit |-> None,
                     fault |-> "none"]
     ELSE runs[i]]

\* Preflight is over: the pointer is moved into place, then the record written.
WritePointer(id) ==
  /\ id \in Live /\ ~runs[id].pointer
  /\ runs' = [runs EXCEPT ![id].pointer = TRUE]
  /\ UNCHANGED <<plan, checkpoint, attempts, replacements, published, driver, write, crashes>>

WriteRecord(id) ==
  /\ id \in Live /\ runs[id].pointer /\ runs[id].stage = None
  /\ runs' = [runs EXCEPT ![id].stage = "PREFLIGHT_COMPLETE"]
  /\ UNCHANGED <<plan, checkpoint, attempts, replacements, published, driver, write, crashes>>

\* Without a pointer only preflight can have failed.  finish_orchestration
\* goes on when the last record cannot be written.
FinishRun(id, exit, fault, recorded) ==
  /\ id \in Live
  /\ exit # 2 => runs[id].stage # None
  /\ exit = 2 => ~runs[id].pointer /\ ~recorded
  /\ fault # "none" => exit = 0
  /\ runs' = [runs EXCEPT ![id].ended = TRUE, ![id].exit = exit, ![id].fault = fault,
                          ![id].stage = IF recorded THEN "FINISHED" ELSE @]
  /\ UNCHANGED <<plan, checkpoint, attempts, replacements, published, driver, write, crashes>>

KillRun(id) ==
  /\ id \in Live
  /\ runs' = [runs EXCEPT ![id].ended = TRUE, ![id].exit = 137]
  /\ UNCHANGED <<plan, checkpoint, attempts, replacements, published, driver, write, crashes>>

-----------------------------------------------------------------------------
(* Commands of the analyzer *)

ClassifyAttemptExit(exit) ==
  CASE exit = 0                      -> "VALID_MEMBER"
    [] exit \in InfrastructureExits  -> "INFRASTRUCTURE_INVALID"
    [] exit = 30                     -> "BENCHMARK_FAILURE"
    [] exit = 2                      -> "CONFIGURATION_FAILURE"
    [] exit \in EvidenceExits        -> "EVIDENCE_INVALID"
    [] OTHER                         -> "UNRESOLVED"

\* The pointer leads to a record.
ReadAttemptPointer(id) == id \in Started /\ runs[id].pointer /\ runs[id].stage # None

AttemptRecord(classification, member, orchestration, phase1Exit, v1Exit) ==
  [classification |-> classification, member |-> member, orchestration |-> orchestration,
   phase1Exit |-> phase1Exit, v1Exit |-> v1Exit]

UnresolvedRecord == AttemptRecord("UNRESOLVED", FALSE, FALSE, None, None)

\* The immutable record of an attempt that ended with v1Exit.
JudgeAttempt(id, v1Exit) ==
  LET pointer == runs[id].pointer
      matches == /\ ReadAttemptPointer(id)
                 /\ runs[id].stage = "FINISHED" /\ runs[id].exit = v1Exit
      derived == DerivedExit[<<plan, id, runs[id].fault>>]
  IN  IF (pointer /\ ~matches) \/ (~pointer /\ v1Exit # 2)
      THEN AttemptRecord("UNRESOLVED", FALSE, FALSE, None, v1Exit)
      ELSE IF v1Exit # 0
      THEN AttemptRecord(ClassifyAttemptExit(v1Exit), FALSE, pointer, None, v1Exit)
      ELSE IF derived # Ok
      THEN AttemptRecord("EVIDENCE_INVALID", FALSE, TRUE, derived, v1Exit)
      ELSE AttemptRecord("VALID_MEMBER", TRUE, TRUE, None, v1Exit)

Selected(cp) == {s \in DOMAIN cp.slots : cp.slots[s].state = "VALID_MEMBER"}
MemberOf(cp, s) == LET id == <<s, cp.slots[s].selected>>
                   IN  RawOf(plan, id, runs[id].fault)

KeyOf(cp, s) == LET id == <<s, cp.slots[s].selected>> IN MemberKey[<<plan, id, runs[id].fault>>]

Compatible(cp) ==
  \A s, t \in Selected(cp) : MemberCompatibilityDifferences(KeyOf(cp, s), KeyOf(cp, t)) = {}
DistinctMembers(cp) ==
  \A s, t \in Selected(cp) : s # t => /\ MemberOf(cp, s).id # MemberOf(cp, t).id
                                      /\ MemberOf(cp, s).instance # MemberOf(cp, t).instance

\* The checkpoint after an attempt was judged.
AdvanceCheckpoint(cp, id, outcome) ==
  LET valid == outcome = "VALID_MEMBER"
      slot == [cp.slots[id[1]] EXCEPT !.state = outcome,
                                      !.selected = IF valid THEN id[2] ELSE @]
      judged == [cp EXCEPT !.slots[id[1]] = slot, !.current = None, !.next = None]
      fits == Compatible(judged) /\ DistinctMembers(judged)
      pending == {s \in DOMAIN cp.slots : judged.slots[s].state = "PENDING"}
      state == CASE valid                                -> IF fits THEN "READY" ELSE "INCOMPATIBLE"
                 [] outcome = "INFRASTRUCTURE_INVALID"   -> "BLOCKED_INFRASTRUCTURE"
                 [] outcome = "UNRESOLVED"               -> "UNRESOLVED"
                 [] OTHER                                -> "BLOCKED_FAILURE"
  IN  [judged EXCEPT !.state = state,
                     !.next = IF valid /\ fits /\ pending # {} THEN Min(pending) ELSE None]

\* An immutable file may be written again only with what it holds.
Writable(id, record) == id \in DOMAIN attempts => attempts[id] = record
WithRecord(id, record) ==
  [i \in DOMAIN attempts \cup {id} |-> IF i = id THEN record ELSE attempts[i]]

\* Two writes: the attempt's record now, the checkpoint in SaveCheckpoint.
StoreAttempt(id, record) ==
  /\ attempts' = WithRecord(id, record)
  /\ write' = AdvanceCheckpoint(checkpoint, id, record.classification)
  /\ driver' = "saving"

-----------------------------------------------------------------------------
(* run_set *)

InitializeSet(p) ==
  /\ plan = None
  /\ ValidSetPlan(p)
  /\ plan' = p
  /\ checkpoint' = InitialCheckpoint(p)
  /\ driver' = "next"
  /\ UNCHANGED <<attempts, replacements, published, runs, write, crashes>>

Stop == driver' = "down"

\* set-begin: the next pending or authorized slot becomes RUNNING.
BeginSetAttempt ==
  /\ driver = "next" /\ checkpoint.current = None
  /\ checkpoint.state = "READY" /\ checkpoint.next # None
  /\ LET s == checkpoint.next
         slot == checkpoint.slots[s]
         id == <<s, slot.attempts + 1>>
     IN  /\ slot.attempts < MaxAttempts
         /\ slot.state \in {"PENDING", "INFRASTRUCTURE_INVALID"}
         /\ \A t \in DOMAIN checkpoint.slots : t > s => checkpoint.slots[t].state # "VALID_MEMBER"
         /\ slot.state = "INFRASTRUCTURE_INVALID" => <<s, slot.attempts>> \in replacements
         /\ id \notin Started
         /\ checkpoint' = [checkpoint EXCEPT !.state = "RUNNING", !.current = id,
                                             !.slots[s] = [slot EXCEPT !.state = "RUNNING",
                                                                       !.attempts = id[2]]]
         /\ driver' = "begun"
  /\ UNCHANGED <<plan, attempts, replacements, published, runs, write, crashes>>

LaunchRun ==
  /\ driver = "begun"
  /\ runs' = StartRun(Attempt)
  /\ driver' = "running"
  /\ UNCHANGED <<plan, checkpoint, attempts, replacements, published, write, crashes>>

\* set-record, with the exit of the run the driver waited for.
RecordSetAttempt ==
  /\ driver = "running" /\ runs[Attempt].ended
  /\ LET record == JudgeAttempt(Attempt, runs[Attempt].exit)
     IN  IF Writable(Attempt, record) THEN StoreAttempt(Attempt, record)
         ELSE Stop /\ UNCHANGED <<attempts, write>>
  /\ UNCHANGED <<plan, checkpoint, replacements, published, runs, crashes>>

\* Mutant: an attempt left RUNNING is started over.
ReconcileByRestarting ==
  /\ driver = "next" /\ checkpoint.current # None
  /\ checkpoint' = [checkpoint EXCEPT !.current = None, !.state = "READY",
                                      !.slots[Attempt[1]].state = "PENDING"]
  /\ UNCHANGED <<plan, attempts, replacements, published, runs, driver, write, crashes>>

\* set-reconcile, of an attempt an earlier driver left RUNNING: its finished
\* record decides, as if the driver had waited; anything else is UNRESOLVED.
ReconcileRunningAttempt ==
  /\ driver = "next" /\ checkpoint.current # None
  /\ LET finished == ReadAttemptPointer(Attempt) /\ runs[Attempt].stage = "FINISHED"
         judged == IF finished THEN JudgeAttempt(Attempt, runs[Attempt].exit)
                               ELSE UnresolvedRecord
         record == IF Writable(Attempt, judged) THEN judged ELSE UnresolvedRecord
     IN  IF Writable(Attempt, record) THEN StoreAttempt(Attempt, record)
         ELSE Stop /\ UNCHANGED <<attempts, write>>
  /\ UNCHANGED <<plan, checkpoint, replacements, published, runs, crashes>>

SaveCheckpoint ==
  /\ driver = "saving"
  /\ checkpoint' = write
  /\ write' = None
  /\ driver' = "next"
  /\ UNCHANGED <<plan, attempts, replacements, published, runs, crashes>>

\* Mutant: the audit keeps the selected attempts only.
IdentityOfSelected ==
  [plan |-> plan,
   slots |-> [s \in DOMAIN checkpoint.slots |->
                LET id == <<s, checkpoint.slots[s].selected>>
                IN  [selected |-> id[2], attempts |-> {<<id[2], attempts[id]>>},
                     replacements |-> {}]]]

\* The identity of a set covers its members and the audit of every attempt.
SetIdentity ==
  [plan |-> plan,
   slots |-> [s \in DOMAIN checkpoint.slots |->
                [selected |-> checkpoint.slots[s].selected,
                 attempts |-> {<<id[2], attempts[id]>> : id \in {i \in DOMAIN attempts : i[1] = s}},
                 replacements |-> {r \in replacements : r[1] = s}]]]

\* set-finalize: the artifact is complete before the checkpoint names it.
FinalizeBenchmarkSet ==
  /\ driver = "next" /\ checkpoint.current = None
  /\ checkpoint.state = "READY" /\ checkpoint.next = None
  /\ Selected(checkpoint) = DOMAIN checkpoint.slots
  /\ Cardinality(Selected(checkpoint)) >= MinimumMembers(plan.profile)
  /\ Compatible(checkpoint)
  /\ published' = published \cup
       {[identity |-> SetIdentity,
         aggregate |-> AggregateMemberMetrics(
                         [s \in DOMAIN checkpoint.slots |-> MemberOf(checkpoint, s)])]}
  /\ write' = [checkpoint EXCEPT !.state = "COMPLETE", !.final = SetIdentity]
  /\ driver' = "saving"
  /\ UNCHANGED <<plan, checkpoint, attempts, replacements, runs, crashes>>

\* The driver ends by itself in a state it does not continue from.
StopDriver ==
  /\ driver = "next" /\ checkpoint.current = None
  /\ checkpoint.state \notin {"READY", "RUNNING"}
  /\ Stop
  /\ UNCHANGED <<plan, checkpoint, attempts, replacements, published, runs, write, crashes>>

\* Killed: the command in progress writes nothing more.
CrashDriver ==
  /\ driver # "down" /\ plan # None /\ crashes < MaxCrashes
  /\ crashes' = crashes + 1
  /\ Stop
  /\ write' = None
  /\ UNCHANGED <<plan, checkpoint, attempts, replacements, published, runs>>

\* --resume
Resume ==
  /\ driver = "down" /\ checkpoint.state \in {"READY", "RUNNING"}
  /\ driver' = "next"
  /\ UNCHANGED <<plan, checkpoint, attempts, replacements, published, runs, write, crashes>>

\* --replace: two writes as well, and the driver goes on.
AuthorizeSetReplacement(s) ==
  /\ driver = "down" /\ checkpoint.state = "BLOCKED_INFRASTRUCTURE"
  /\ s \in DOMAIN checkpoint.slots
  /\ checkpoint.slots[s].state = "INFRASTRUCTURE_INVALID"
  /\ checkpoint.slots[s].attempts < MaxAttempts
  /\ \A t \in DOMAIN checkpoint.slots : t > s => checkpoint.slots[t].state = "PENDING"
  /\ replacements' = replacements \cup {<<s, checkpoint.slots[s].attempts>>}
  /\ write' = [checkpoint EXCEPT !.state = "READY", !.next = s]
  /\ driver' = "saving"
  /\ UNCHANGED <<plan, checkpoint, attempts, published, runs, crashes>>

-----------------------------------------------------------------------------
(* Specification *)

SInit ==
  /\ plan = None
  /\ checkpoint = [state |-> "READY", current |-> None, next |-> None, final |-> None,
                   slots |-> <<>>]
  /\ attempts = <<>> /\ runs = <<>>
  /\ replacements = {} /\ published = {}
  /\ driver = "down" /\ write = None /\ crashes = 0

SNext ==
  \/ \E p \in Plans : InitializeSet(p)
  \/ \E id \in Live : WritePointer(id) \/ WriteRecord(id) \/ KillRun(id)
  \/ \E id \in Live : \E exit \in RunExits, fault \in Faults[plan], recorded \in BOOLEAN :
       FinishRun(id, exit, fault, recorded)
  \/ BeginSetAttempt \/ LaunchRun \/ RecordSetAttempt \/ ReconcileRunningAttempt
  \/ SaveCheckpoint \/ FinalizeBenchmarkSet \/ StopDriver \/ CrashDriver
  \/ plan # None /\ Resume
  \/ \E s \in DOMAIN checkpoint.slots : AuthorizeSetReplacement(s)


\* An operator who keeps resuming a set that can go on, and machines on which
\* processes that are not killed run to their end.
SetFairness ==
  /\ WF_setVars(\E id \in Live : WritePointer(id) \/ WriteRecord(id))
  /\ WF_setVars(\E id \in Live : FinishRun(id, 0, "none", TRUE))
  /\ WF_setVars(BeginSetAttempt \/ LaunchRun \/ RecordSetAttempt \/ ReconcileRunningAttempt
             \/ SaveCheckpoint \/ FinalizeBenchmarkSet \/ StopDriver)
  /\ WF_setVars(plan # None /\ Resume)

-----------------------------------------------------------------------------
(* Properties *)

\* finalize_benchmark_set, against choosing the better of two results: the
\* audit a published set is named after lists every run that was ever started
\* for it, and a run that is not a member failed for the infrastructure's sake
\* and was replaced by an explicit authorization.
AuditComplete ==
  \A set \in published : \A id \in Started :
    LET slot == set.identity.slots[id[1]]
    IN  /\ <<id[2], attempts[id]>> \in slot.attempts
        /\ id[2] # slot.selected =>
             /\ attempts[id].classification = "INFRASTRUCTURE_INVALID"
             /\ id \in slot.replacements

\* A published set has the members its profile asks for: finished runs, with
\* different identities, on like machines from the planned commit; and each of
\* its aggregates spans exactly its members.
MembersQualified ==
  \A set \in published :
    LET p == set.identity.plan
        slots == DOMAIN set.identity.slots
        id(s) == <<s, set.identity.slots[s].selected>>
        raw(s) == RawOf(p, id(s), runs[id(s)].fault)
    IN  /\ Cardinality(slots) = p.repeats /\ p.repeats >= MinimumMembers(p.profile)
        /\ \A s \in slots :
             /\ runs[id(s)].stage = "FINISHED" /\ runs[id(s)].exit = 0
             /\ raw(s).commit = p.commit /\ raw(s).torn = {} /\ raw(s).files = raw(s).listed
             /\ p.profile = "canonical" => ~raw(s).dirty /\ raw(s).schema = 1
             /\ \A t \in slots \ {s} : /\ raw(s).id # raw(t).id
                                       /\ raw(s).host = raw(t).host
        /\ \A m \in DOMAIN set.aggregate :
             set.aggregate[m].kind = "median" =>
               /\ set.aggregate[m].count = p.repeats
               /\ 2 * set.aggregate[m].minimum <= set.aggregate[m].twice
               /\ set.aggregate[m].twice <= 2 * set.aggregate[m].maximum

\* record_set_attempt before save_checkpoint: a run is started only for a slot
\* whose earlier attempts all are recorded infrastructure failures with an
\* authorized replacement, also when the driver was killed before it could
\* checkpoint what it had recorded.
NeverRerunsResult ==
  [][\A id \in DOMAIN runs' \ Started : \A earlier \in {i \in Started : i[1] = id[1]} :
       /\ earlier \in DOMAIN attempts
       /\ attempts[earlier].classification = "INFRASTRUCTURE_INVALID"
       /\ earlier \in replacements]_setVars

\* A set whose driver was killed during an attempt is settled by resuming it:
\* "If lifecycle/cleanup cannot be proven, resume stops with UNRESOLVED".
ResumeSettles == checkpoint.state = "RUNNING" ~> checkpoint.state # "RUNNING"
=============================================================================
