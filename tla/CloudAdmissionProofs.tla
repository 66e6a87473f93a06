------------------------ MODULE CloudAdmissionProofs ------------------------
(***************************************************************************)
(* ApprovedSpend and AcceptedOriginals of CloudAdmission for every choice   *)
(* of its constants: any commits, members and histories, any number of      *)
(* runs, jobs, retries and disturbances.                                    *)
(*                                                                         *)
(* The ledger is written by one job at a time, and a plan is computed from  *)
(* a ledger in which its own request cannot occur; so a charge that finds   *)
(* the plan's baseline finds a ledger that never saw the request.           *)
(***************************************************************************)
EXTENDS CloudAdmission, SequenceTheorems, TLAPS

-----------------------------------------------------------------------------
(* The inductive invariant *)

IsSeq(s) == s \in Seq({s[i] : i \in DOMAIN s})

\* A ledger all of whose requests were planned.
Planned(led) == IsSeq(led) /\ \A i \in DOMAIN led : led[i].request.attempt \in DOMAIN plans

\* A plan that was published, and a ledger with nothing unresolved.
Approved(p) == \E inv \in DOMAIN plans : p = plans[inv]
Observed(led) == Planned(led) /\ Pending(led) = {}

\* A plan's request is named after the attempt that prepared it, and is not in
\* the ledger the plan was computed from.
PlansInv ==
    \A inv \in DOMAIN plans :
        /\ plans[inv].request.attempt = inv
        /\ \A i \in DOMAIN plans[inv].baseline : plans[inv].baseline[i].request.attempt # inv

LedgerInv ==
    /\ Planned(ledger)
    /\ ApprovedSpend
    /\ \A i \in DOMAIN ledger : ledger[i].kind = "FINISHED" => ledger[i].status \in {"PASS", "FAIL"}
    /\ lease # None => lease.attempt \in DOMAIN plans

\* Evidence comes from the execution that was charged.
EvidenceInv ==
    \A e \in evidence : \E k \in DOMAIN ledger :
        ledger[k].kind = "RESERVED" /\ ledger[k].request = e.request /\ ledger[k].by = e.by

Late == {"admit", "lease", "charge", "member", "finish", "seal"}

\* The stages of each operation, and the fields of a job.
JobShape ==
    /\ job = [op |-> job.op, input |-> job.input, inv |-> job.inv, source |-> job.source,
              stage |-> job.stage, view |-> job.view, got |-> job.got,
              tries |-> job.tries, old |-> job.old]
    /\ job.got = [s \in Reading |-> job.got[s]]
    /\ \/ job.op = "prepare" /\ job.stage \in {"build", "clean", "provider", "plan"}
       \/ job.op = "run" /\ job.stage \in {"prepared", "build", "clean", "provider"} \cup Late
       \/ job.op = "verify" /\ job.stage \in {"objects", "runners"}

\* What the collectors have read.
JobReads ==
    /\ job.got["prepared"] # None => Approved(job.got["prepared"])
    /\ job.got["provider"] # None => Observed(job.got["provider"].ledger)
    /\ job.stage = "prepared" /\ job.view # None => Approved(job.view)
    /\ job.stage = "provider" /\ job.view # None => Observed(job.view.ledger)
    /\ job.stage \in Late \cup {"plan"} => job.got["provider"] # None
    /\ job.op = "run" /\ job.stage # "prepared" => job.got["prepared"] # None

\* Between its charge and its end nobody else writes the ledger.
JobCharged ==
    job.stage \in {"member", "finish"} =>
        /\ Len(ledger) >= 1
        /\ LET last == ledger[Len(ledger)]
           IN last.kind = "RESERVED" /\ last.request = MyRequest /\ last.by = job.inv
        /\ \A i \in 1..(Len(ledger) - 1) : ledger[i].request # MyRequest

\* The members that no policy pins come from one build of the commit.
OneBuild(mode, pol, source, chosen) ==
    LET loose == {m \in Members : IF mode = "plain" THEN TRUE ELSE m \notin DOMAIN pol.pins}
    IN \A m, n \in loose : /\ chosen[m].request.source = source
                           /\ chosen[m].request.proof = chosen[n].request.proof

\* Terminal as the set claims, which is for ever.
Ended(mode, chosen) ==
    \A m \in Members : /\ chosen[m].request.member = m
                       /\ Status(ledger, chosen[m].request) = Terminal(mode, m)

\* What the verifier has seen stays true; its commit's policy while the commit
\* is master.
JobVerifies ==
    job.op = "verify" =>
        /\ job.source \in Nat /\ job.source <= master
        /\ (job.stage = "runners" \/ job.view # None) =>
              /\ Ended(job.input.mode, job.input.chosen)
              /\ master = job.source =>
                    OneBuild(job.input.mode, policy, job.source, job.input.chosen)

AdmissionInv ==
    /\ master \in Nat /\ IsSeq(runs)
    /\ PlansInv /\ LedgerInv /\ EvidenceInv
    /\ job # None => JobShape /\ JobReads /\ JobCharged /\ JobVerifies
    /\ AcceptedOriginals

-----------------------------------------------------------------------------
(* Sequences *)

LEMMA SeqParts ==
    ASSUME NEW s, IsSeq(s)
    PROVE  Len(s) \in Nat /\ DOMAIN s = 1..Len(s)
    BY DEF IsSeq

\* t is s and one more entry e.
Extended(s, e, t) == t = Append(s, e)
Extension(s, e, t) ==
    /\ IsSeq(t) /\ Len(t) = Len(s) + 1 /\ DOMAIN t = 1..(Len(s) + 1)
    /\ \A i \in 1..Len(s) : t[i] = s[i]
    /\ t[Len(s) + 1] = e
    /\ \A i \in 0..Len(s) : SubSeq(t, 1, i) = SubSeq(s, 1, i)
    /\ SubSeq(t, 1, Len(s)) = s

LEMMA AppendParts ==
    ASSUME NEW s, IsSeq(s), NEW e, NEW t, Extended(s, e, t)
    PROVE  Extension(s, e, t)
<1> DEFINE R == {s[i] : i \in DOMAIN s}
           S == R \cup {e}
<1>1. Len(s) \in Nat /\ DOMAIN s = 1..Len(s)
    BY SeqParts
<1>2. s \in Seq(S)
    BY <1>1 DEF IsSeq
<1>3. /\ t \in Seq(S) /\ Len(t) = Len(s) + 1 /\ DOMAIN t = 1..(Len(s) + 1)
      /\ (\A i \in 1..Len(s) : t[i] = s[i]) /\ t[Len(s) + 1] = e
    BY <1>1, <1>2, AppendProperties DEF Extended
<1>4. IsSeq(t)
    BY <1>1, <1>3 DEF IsSeq
<1>5. \A i \in 0..Len(s) : SubSeq(t, 1, i) = SubSeq(s, 1, i)
    BY <1>1, <1>3
<1>6. SubSeq(t, 1, Len(s)) = s
    BY <1>1, <1>2, <1>3
<1> QED BY <1>3, <1>4, <1>5, <1>6 DEF Extension

LEMMA ReplaceParts ==
    ASSUME NEW s, IsSeq(s), NEW t, DOMAIN t = DOMAIN s,
           t = [i \in DOMAIN s |-> t[i]]
    PROVE  IsSeq(t)
    BY SeqParts DEF IsSeq

-----------------------------------------------------------------------------
(* Steps that leave plans, ledger and evidence alone *)

JobInv == JobShape /\ JobReads /\ JobCharged /\ JobVerifies

\* Only the ledger and the evidence say what an accepted set is made of.
LEMMA AcceptedKept ==
    ASSUME AcceptedOriginals, UNCHANGED <<ledger, accepted>>, evidence \subseteq evidence'
    PROVE  AcceptedOriginals'
<1>1. \A req : Charger(req)' = Charger(req)
    <2> SUFFICES ASSUME NEW req PROVE Charger(req)' = Charger(req)
        OBVIOUS
    <2>1. Entries(ledger', "RESERVED", req) = Entries(ledger, "RESERVED", req)
        OBVIOUS
    <2> QED BY <2>1 DEF Charger
<1> QED BY <1>1 DEF AcceptedOriginals

LEMMA FilesKept ==
    ASSUME AdmissionInv, UNCHANGED <<plans, ledger, evidence, accepted>>,
           lease' = lease \/ lease' = None \/ lease'.attempt \in DOMAIN plans,
           master' \in Nat, IsSeq(runs'), job' # None => JobInv'
    PROVE  AdmissionInv'
<1>1. PlansInv' /\ EvidenceInv'
    BY DEF AdmissionInv, PlansInv, EvidenceInv
<1>2. ApprovedSpend' /\ AcceptedOriginals'
    <2>1. ApprovedSpend'
        BY DEF AdmissionInv, LedgerInv, ApprovedSpend
    <2> QED BY <2>1, AcceptedKept DEF AdmissionInv
<1>3. LedgerInv'
    BY <1>2 DEF AdmissionInv, LedgerInv, Planned
<1> QED BY <1>1, <1>2, <1>3 DEF AdmissionInv, JobInv

LEMMA QuietStep ==
    ASSUME AdmissionInv, UNCHANGED <<plans, ledger, lease, evidence, accepted, master, policy, job>>,
           IsSeq(runs')
    PROVE  AdmissionInv'
<1>1. job' # None => JobInv'
    BY DEF AdmissionInv, JobInv, JobShape, JobReads, JobCharged, JobVerifies, Approved, Observed,
           Planned, MyRequest, MyPlan, Ended
<1>2. master' \in Nat
    BY DEF AdmissionInv
<1> QED BY <1>1, <1>2, FilesKept

\* The job ends: a refusal, a crash.
LEMMA EndStep ==
    ASSUME AdmissionInv, UNCHANGED <<plans, ledger, lease, evidence, accepted, master, runs>>,
           job' = None
    PROVE  AdmissionInv'
    BY FilesKept DEF AdmissionInv

LEMMA AfterIs ==
    /\ After("prepare", "build") = "clean" /\ After("prepare", "clean") = "provider"
    /\ After("prepare", "provider") = "plan"
    /\ After("run", "prepared") = "build" /\ After("run", "build") = "clean"
    /\ After("run", "clean") = "provider" /\ After("run", "provider") = "admit"
<1>1. \A k \in DOMAIN Stages("prepare") : /\ Stages("prepare")[k] = "build" => k = 1
                                          /\ Stages("prepare")[k] = "clean" => k = 2
                                          /\ Stages("prepare")[k] = "provider" => k = 3
    BY DEF Stages
<1>2. \A k \in DOMAIN Stages("run") : /\ Stages("run")[k] = "prepared" => k = 1
                                      /\ Stages("run")[k] = "build" => k = 2
                                      /\ Stages("run")[k] = "clean" => k = 3
                                      /\ Stages("run")[k] = "provider" => k = 4
    BY DEF Stages
<1>3. /\ {1, 2, 3, 4} \subseteq DOMAIN Stages("prepare") /\ {1, 2, 3, 4, 5} \subseteq DOMAIN Stages("run")
      /\ Stages("prepare")[1] = "build" /\ Stages("prepare")[2] = "clean"
      /\ Stages("prepare")[3] = "provider" /\ Stages("prepare")[4] = "plan"
      /\ Stages("run")[1] = "prepared" /\ Stages("run")[2] = "build" /\ Stages("run")[3] = "clean"
      /\ Stages("run")[4] = "provider" /\ Stages("run")[5] = "admit"
    BY DEF Stages
<1>4. ASSUME NEW op, NEW stage, NEW n \in {1, 2, 3, 4}, n \in DOMAIN Stages(op),
             Stages(op)[n] = stage, \A k \in DOMAIN Stages(op) : Stages(op)[k] = stage => k = n
      PROVE  After(op, stage) = Stages(op)[n + 1]
    <2>1. (CHOOSE k \in DOMAIN Stages(op) : Stages(op)[k] = stage) = n
        BY <1>4
    <2> QED BY <2>1 DEF After
<1>5. 1 + 1 = 2 /\ 2 + 1 = 3 /\ 3 + 1 = 4 /\ 4 + 1 = 5
    OBVIOUS
<1>6. /\ After("prepare", "build") = "clean" /\ After("prepare", "clean") = "provider"
      /\ After("prepare", "provider") = "plan"
    BY <1>1, <1>3, <1>4, <1>5
<1>7. /\ After("run", "prepared") = "build" /\ After("run", "build") = "clean"
      /\ After("run", "clean") = "provider" /\ After("run", "provider") = "admit"
    BY <1>2, <1>3, <1>4, <1>5
<1> QED BY <1>6, <1>7

\* A job that only reads keeps what the files say.
LEMMA ReadStep ==
    ASSUME AdmissionInv, job # None, JobShape', JobReads', job'.op = job.op, job.op # "verify",
           job'.stage \notin {"member", "finish"},
           UNCHANGED <<plans, ledger, lease, evidence, accepted, master, runs>>
    PROVE  AdmissionInv'
<1>1. JobCharged' /\ JobVerifies'
    BY DEF JobCharged, JobVerifies
<1> QED BY <1>1, FilesKept DEF AdmissionInv, JobInv

\* What a collector saw is what its view must be.
Seen(stage, seen) ==
    /\ stage = "prepared" => Approved(seen)
    /\ stage = "provider" => Observed(seen.ledger)

LEMMA FirstReadStep ==
    ASSUME AdmissionInv, NEW stage \in Reading, NEW seen, FirstRead(stage, seen),
           seen # None => Seen(stage, seen)
    PROVE  AdmissionInv'
<1>1. /\ job # None /\ job.stage = stage
      /\ UNCHANGED <<plans, ledger, lease, evidence, accepted, master, runs>>
    BY DEF FirstRead, Rejected, At, github, paid
<1>2. CASE job' = None
    BY <1>1, <1>2, EndStep
<1>3. CASE seen # None /\ job' = [job EXCEPT !.view = seen]
    <2>1. JobShape /\ JobReads /\ job.op # "verify"
        BY <1>1 DEF AdmissionInv, JobShape, Reading
    <2>2. /\ job'.op = job.op /\ job'.stage = stage /\ job'.got = job.got /\ job'.view = seen
          /\ JobShape'
        BY <1>1, <1>3, <2>1 DEF JobShape
    <2>3. JobReads'
        BY <1>1, <1>3, <2>1, <2>2 DEF JobReads, Seen, Approved, Observed, Planned
    <2> QED BY <1>1, <2>1, <2>2, <2>3, ReadStep DEF Reading
<1> QED BY <1>1, <1>2, <1>3 DEF FirstRead, Rejected

LEMMA SecondReadStep ==
    ASSUME AdmissionInv, NEW stage \in Reading, NEW seen, SecondRead(stage, seen)
    PROVE  AdmissionInv'
<1>1. /\ job # None /\ job.stage = stage /\ job.view # None
      /\ UNCHANGED <<plans, ledger, lease, evidence, accepted, master, runs>>
    BY DEF SecondRead, Rejected, At, github, paid
<1>2. CASE job' = None
    BY <1>1, <1>2, EndStep
<1>3. CASE /\ seen = job.view
           /\ job' = [job EXCEPT !.got[stage] = seen, !.view = None,
                                 !.stage = After(job.op, stage), !.tries = 0]
    <2>1. /\ JobShape /\ JobReads /\ job.op \in {"prepare", "run"}
          /\ job.op = "prepare" => stage # "prepared"
        BY <1>1 DEF AdmissionInv, JobShape, Reading
    <2> DEFINE next == After(job.op, stage)
    <2>2. /\ stage = "prepared" => next = "build"
          /\ stage = "build" => next = "clean"
          /\ stage = "clean" => next = "provider"
          /\ stage = "provider" => next = (IF job.op = "run" THEN "admit" ELSE "plan")
        BY <1>1, <2>1, AfterIs
    <2> HIDE DEF next
    <2>3. /\ job'.op = job.op /\ job'.stage = next /\ job'.view = None
          /\ job'.got = [job.got EXCEPT ![stage] = seen]
          /\ job' = [op |-> job'.op, input |-> job'.input, inv |-> job'.inv, source |-> job'.source,
                     stage |-> job'.stage, view |-> job'.view, got |-> job'.got,
                     tries |-> job'.tries, old |-> job'.old]
        BY <1>3, <2>1 DEF JobShape, next
    <2>4. /\ job'.got = [s \in Reading |-> job'.got[s]] /\ job'.got[stage] = seen
          /\ \A s \in Reading : s # stage => job'.got[s] = job.got[s]
        BY <2>1, <2>3 DEF JobShape
    <2>5. JobShape'
        BY <2>1, <2>2, <2>3, <2>4 DEF JobShape, Reading, Late
    <2>6. JobReads'
        BY <1>1, <1>3, <2>1, <2>2, <2>3, <2>4 DEF JobReads, Reading, Late, Approved, Observed, Planned
    <2>7. job'.stage \notin {"member", "finish"}
        BY <2>2, <2>3 DEF Reading
    <2> QED BY <1>1, <2>1, <2>3, <2>5, <2>6, <2>7, ReadStep
<1> QED BY <1>1, <1>2, <1>3 DEF SecondRead, Rejected

\* The four collectors.
LEMMA CollectorStep ==
    ASSUME AdmissionInv,
           \/ ReadPrepared \/ RereadPrepared \/ ReadBuild \/ RereadBuild
           \/ ReadClean \/ RereadClean \/ ReadProvider \/ RereadProvider
    PROVE  AdmissionInv'
<1>1. {"prepared", "build", "clean", "provider"} \subseteq Reading
    BY DEF Reading
<1>2. CASE ReadPrepared
    <2>1. PreparedView(job.source, job.input) # None => Approved(PreparedView(job.source, job.input))
        BY DEF PreparedView, Approved
    <2>2. PreparedView(job.source, job.input) # None => Seen("prepared", PreparedView(job.source, job.input))
        BY <2>1 DEF Seen
    <2> QED BY <1>1, <1>2, <2>2, FirstReadStep DEF ReadPrepared
<1>3. CASE ReadBuild
    <2>1. \A x : Seen("build", x)
        BY DEF Seen
    <2> QED BY <1>1, <1>3, <2>1, FirstReadStep DEF ReadBuild
<1>4. CASE ReadClean
    <2>1. \A x : Seen("clean", x)
        BY DEF Seen
    <2> QED BY <1>1, <1>4, <2>1, FirstReadStep DEF ReadClean
<1>5. CASE ReadProvider
    <2>1. ControlView # None => Seen("provider", ControlView)
        BY DEF ControlView, Seen, Observed, AdmissionInv, LedgerInv
    <2> QED BY <1>1, <1>5, <2>1, FirstReadStep DEF ReadProvider
<1>6. CASE RereadPrepared \/ RereadBuild \/ RereadClean \/ RereadProvider
    BY <1>1, <1>6, SecondReadStep DEF RereadPrepared, RereadBuild, RereadClean, RereadProvider
<1> QED BY <1>2, <1>3, <1>4, <1>5, <1>6

\* A read is retried, or a job grows old.
LEMMA TickStep ==
    ASSUME AdmissionInv, ReadFails \/ Age
    PROVE  AdmissionInv'
<1>1. /\ job # None
      /\ UNCHANGED <<plans, ledger, lease, evidence, accepted, master, policy, runs>>
      /\ \/ job' = None \/ job' = [job EXCEPT !.tries = @ + 1] \/ job' = [job EXCEPT !.old = TRUE]
    BY DEF ReadFails, Age, Rejected, github, paid
<1>2. CASE job' = None
    BY <1>1, <1>2, EndStep
<1>3. CASE job' = [job EXCEPT !.tries = @ + 1] \/ job' = [job EXCEPT !.old = TRUE]
    <2>1. JobInv
        BY <1>1 DEF AdmissionInv, JobInv
    <2>2. /\ job'.op = job.op /\ job'.input = job.input /\ job'.inv = job.inv
          /\ job'.source = job.source /\ job'.stage = job.stage /\ job'.view = job.view
          /\ job'.got = job.got /\ JobShape'
        BY <1>3, <2>1 DEF JobInv, JobShape
    <2>3. JobReads' /\ JobCharged' /\ JobVerifies'
        BY <1>1, <2>1, <2>2 DEF JobInv, JobReads, JobCharged, JobVerifies, Approved, Observed,
           Planned, MyRequest, MyPlan, Ended
    <2> QED BY <1>1, <2>2, <2>3, FilesKept DEF AdmissionInv, JobInv
<1> QED BY <1>1, <1>2, <1>3

\* A job is dispatched or rerun.
LEMMA NewJobStep ==
    ASSUME AdmissionInv, NEW op, NEW input, NEW r, NEW attempt, NEW first,
           job' = NewJob(op, input, r, attempt, first), IsSeq(runs'),
           \/ op = "prepare" /\ first = "build"
           \/ op = "run" /\ first = "prepared"
           \/ op = "verify" /\ first = "objects" /\ runs'[r].source = master,
           UNCHANGED <<plans, ledger, lease, evidence, accepted, master>>
    PROVE  AdmissionInv'
<1>1. /\ job'.op = op /\ job'.stage = first /\ job'.view = None /\ job'.source = runs'[r].source
      /\ job'.got = [s \in Reading |-> None]
      /\ job' = [op |-> job'.op, input |-> job'.input, inv |-> job'.inv, source |-> job'.source,
                 stage |-> job'.stage, view |-> job'.view, got |-> job'.got,
                 tries |-> job'.tries, old |-> job'.old]
    BY DEF NewJob
<1>2. job'.got["prepared"] = None /\ job'.got["provider"] = None
    BY <1>1 DEF Reading
<1>3. JobShape'
    BY <1>1 DEF JobShape, Late
<1>4. JobReads'
    BY <1>1, <1>2 DEF JobReads, Late
<1>5. JobCharged' /\ JobVerifies'
    BY <1>1 DEF JobCharged, JobVerifies, AdmissionInv
<1> QED BY <1>3, <1>4, <1>5, FilesKept DEF AdmissionInv, JobInv

LEMMA DispatchStep ==
    ASSUME AdmissionInv, NEW op, NEW input, NEW first, Dispatch(op, input, first),
           \/ op = "prepare" /\ first = "build"
           \/ op = "run" /\ first = "prepared"
           \/ op = "verify" /\ first = "objects"
    PROVE  AdmissionInv'
<1>1. PICK x : /\ runs' = Append(runs, Run(op, x)) /\ job' = NewJob(op, input, Len(runs'), 1, first)
               /\ UNCHANGED <<plans, ledger, lease, evidence, accepted, master>>
    BY DEF Dispatch, paid
<1>2. IsSeq(runs') /\ runs'[Len(runs')] = Run(op, x)
    <2>1. IsSeq(runs)
        BY DEF AdmissionInv
    <2>2. PICK e : e = Run(op, x)
        OBVIOUS
    <2>3. Extended(runs, e, runs')
        BY <1>1, <2>2 DEF Extended
    <2>4. Extension(runs, e, runs')
        BY <2>1, <2>3, AppendParts
    <2> QED BY <2>2, <2>4 DEF Extension
<1>3. runs'[Len(runs')].source = master
    BY <1>2 DEF Run
<1> QED BY <1>1, <1>2, <1>3, NewJobStep

LEMMA RerunStep ==
    ASSUME AdmissionInv, NEW r \in DOMAIN runs, Rerun(r)
    PROVE  AdmissionInv'
<1>1. /\ runs[r].kind \in {"prepare", "run"} /\ runs' = [runs EXCEPT ![r].attempt = @ + 1]
      /\ job' = NewJob(runs[r].kind, runs[r].input, r, runs'[r].attempt, Stages(runs[r].kind)[1])
      /\ UNCHANGED <<plans, ledger, lease, evidence, accepted, master>>
    BY DEF Rerun, paid
<1>2. IsSeq(runs')
    BY <1>1, SeqParts, ReplaceParts DEF AdmissionInv
<1>3. Stages("prepare")[1] = "build" /\ Stages("run")[1] = "prepared"
    BY DEF Stages
<1> QED BY <1>1, <1>2, <1>3, NewJobStep

\* What happens at GitHub and at the provider.
LEMMA WorldStep ==
    ASSUME AdmissionInv, Meanwhile
    PROVE  AdmissionInv'
<1>1. UNCHANGED <<plans, ledger, lease, evidence, accepted, master, policy, job>>
    BY DEF Meanwhile, NewBuild, RunEnds, Rebuild, Expire, CleanupDispatched, RotateKey, Provider,
           github, paid
<1>2. \/ runs' = runs \/ \E x : runs' = Append(runs, x)
      \/ DOMAIN runs' = DOMAIN runs /\ runs' = [i \in DOMAIN runs |-> runs'[i]]
    <2>1. CASE (\E kind \in {"ci", "manual"} : NewBuild(kind)) \/ CleanupDispatched
        BY <2>1 DEF NewBuild, CleanupDispatched
    <2>2. CASE \E r \in DOMAIN runs, outcome \in {"success", "failure"} : RunEnds(r, outcome)
        BY <2>2 DEF RunEnds
    <2>3. CASE \E r \in DOMAIN runs, carried \in BOOLEAN : Rebuild(r, carried)
        BY <2>3 DEF Rebuild
    <2>4. CASE \/ \E r \in DOMAIN runs : Expire(<<r, runs[r].attempt>>)
               \/ RotateKey \/ \E f \in Providers : Provider(f)
        BY <2>4 DEF Expire, RotateKey, Provider, github
    <2> QED BY <2>1, <2>2, <2>3, <2>4 DEF Meanwhile
<1>3. IsSeq(runs')
    <2>1. IsSeq(runs)
        BY DEF AdmissionInv
    <2>2. CASE runs' = runs
        BY <2>1, <2>2
    <2>3. CASE \E x : runs' = Append(runs, x)
        BY <2>1, <2>3, AppendParts DEF Extended, Extension
    <2>4. CASE DOMAIN runs' = DOMAIN runs /\ runs' = [i \in DOMAIN runs |-> runs'[i]]
        BY <2>1, <2>4, ReplaceParts
    <2> QED BY <1>2, <2>2, <2>3, <2>4
<1> QED BY <1>1, <1>3, QuietStep

LEMMA PushStep ==
    ASSUME AdmissionInv, Push
    PROVE  AdmissionInv'
<1>1. /\ master' = master + 1 /\ master \in Nat
      /\ UNCHANGED <<plans, ledger, lease, evidence, accepted, job>>
    BY DEF Push, paid, AdmissionInv
<1>2. IsSeq(runs')
    BY AppendParts DEF Push, AdmissionInv, Extended, Extension
<1>3. ASSUME job' # None PROVE JobInv'
    <2>1. JobInv
        BY <1>1, <1>3 DEF AdmissionInv, JobInv
    <2>2. JobShape' /\ JobReads' /\ JobCharged'
        BY <1>1, <2>1 DEF JobInv, JobShape, JobReads, JobCharged, Approved, Observed, Planned,
           MyRequest, MyPlan
    <2>3. JobVerifies'
        BY <1>1, <2>1 DEF JobInv, JobVerifies, Ended
    <2> QED BY <2>2, <2>3 DEF JobInv
<1> QED BY <1>1, <1>2, <1>3, FilesKept

-----------------------------------------------------------------------------
(* The plan *)

LEMMA PlanStep ==
    ASSUME AdmissionInv, Plan
    PROVE  AdmissionInv'
<1>1. /\ job # None /\ job.stage = "plan" /\ job' = None
      /\ UNCHANGED <<ledger, lease, evidence, accepted, master, runs>>
    BY DEF Plan, At, Rejected, github, paid
<1>2. CASE plans' = plans
    BY <1>1, <1>2, EndStep
<1>3. CASE plans' = [i \in DOMAIN plans \cup {job.inv} |->
                        IF i \in DOMAIN plans THEN plans[i] ELSE NewPlan(job)]
    <2>1. JobReads
        BY <1>1 DEF AdmissionInv
    <2>2. Observed(job.got["provider"].ledger)
        BY <1>1, <2>1 DEF JobReads, Late
    <2>3. /\ NewPlan(job).request.attempt = job.inv
          /\ NewPlan(job).baseline = job.got["provider"].ledger
        BY DEF NewPlan
    <2>4. DOMAIN plans' = DOMAIN plans \cup {job.inv} /\ \A i \in DOMAIN plans : plans'[i] = plans[i]
        BY <1>3
    <2>5. job.inv \notin DOMAIN plans => plans'[job.inv] = NewPlan(job)
        BY <1>3
    <2>6. PlansInv'
        <3>1. ASSUME NEW inv \in DOMAIN plans'
              PROVE  /\ plans'[inv].request.attempt = inv
                     /\ \A i \in DOMAIN plans'[inv].baseline : plans'[inv].baseline[i].request.attempt # inv
            <4>1. CASE inv \in DOMAIN plans
                BY <2>4, <4>1 DEF AdmissionInv, PlansInv
            <4>2. CASE inv \notin DOMAIN plans
                BY <2>2, <2>3, <2>4, <2>5, <3>1, <4>2 DEF Observed, Planned
            <4> QED BY <4>1, <4>2
        <3> QED BY <3>1 DEF PlansInv
    <2>7. LedgerInv'
        <3>1. Planned(ledger)' /\ (lease # None => lease.attempt \in DOMAIN plans)'
            BY <1>1, <2>4 DEF AdmissionInv, LedgerInv, Planned
        <3>2. ApprovedSpend'
            BY <1>1, <2>4 DEF AdmissionInv, LedgerInv, Planned, ApprovedSpend
        <3> QED BY <1>1, <3>1, <3>2 DEF AdmissionInv, LedgerInv
    <2>8. EvidenceInv' /\ AcceptedOriginals'
        BY <1>1, AcceptedKept DEF AdmissionInv, EvidenceInv
    <2> QED BY <1>1, <2>6, <2>7, <2>8 DEF AdmissionInv
<1> QED BY <1>2, <1>3 DEF Plan, Rejected, github

-----------------------------------------------------------------------------
(* The ledger *)

\* A terminal status is for ever: later entries are of other requests.
Keeps(led, t, req) ==
    /\ Entries(led, "RESERVED", req) # {}
    /\ Status(t, req) = Status(led, req)
    /\ Entries(t, "RESERVED", req) = Entries(led, "RESERVED", req)
    /\ \A i \in Entries(led, "RESERVED", req) : t[i] = led[i]

LEMMA StatusKept ==
    ASSUME NEW led, IsSeq(led), NEW e, NEW t, Extended(led, e, t), NEW req,
           Status(led, req) \in {"PASS", "FAIL"},
           \A i \in Entries(led, "FINISHED", req) : led[i].request # e.request
    PROVE  Keeps(led, t, req)
<1>1. /\ Entries(led, "RESERVED", req) # {} /\ Entries(led, "FINISHED", req) # {}
    BY AdmissionAssumption DEF Status
<1>2. /\ DOMAIN led = 1..Len(led) /\ Len(led) \in Nat /\ DOMAIN t = 1..(Len(led) + 1)
      /\ \A i \in 1..Len(led) : t[i] = led[i]
      /\ t[Len(led) + 1] = e
    BY SeqParts, AppendParts DEF Extension
<1>3. e.request # req
    BY <1>1 DEF Entries
<1>4. \A kind : Entries(t, kind, req) = Entries(led, kind, req)
    BY <1>2, <1>3 DEF Entries
<1>5. PICK k : k = CHOOSE i \in Entries(led, "FINISHED", req) : TRUE
    OBVIOUS
<1>6. k \in Entries(led, "FINISHED", req) /\ t[k] = led[k]
    BY <1>1, <1>2, <1>5 DEF Entries
<1>7. Status(t, req) = Status(led, req)
    BY <1>1, <1>4, <1>5, <1>6 DEF Status
<1> QED BY <1>1, <1>2, <1>4, <1>7 DEF Entries, Keeps

\* What an entry must be for the ledger to stay sound.
Sound(e) ==
    /\ e.request.attempt \in DOMAIN plans
    /\ \A i \in DOMAIN ledger : ledger[i].kind = "FINISHED" => ledger[i].request # e.request
    /\ \/ /\ e.kind = "RESERVED" /\ ledger = plans[e.request.attempt].baseline
          /\ Pending(ledger) = {} /\ \A i \in DOMAIN ledger : ledger[i].request # e.request
       \/ e.kind = "FINISHED" /\ e.status \in {"PASS", "FAIL"}

LEMMA TerminalIs ==
    ASSUME NEW mode, NEW m
    PROVE  Terminal(mode, m) \in {"PASS", "FAIL"}
    BY DEF Terminal

LEMMA LedgerGrows ==
    ASSUME AdmissionInv, NEW e, Sound(e), ledger' = Append(ledger, e),
           UNCHANGED <<plans, evidence, accepted>>, lease' # None => lease' = lease
    PROVE  /\ PlansInv' /\ LedgerInv' /\ EvidenceInv' /\ AcceptedOriginals'
           /\ \A mode, chosen : Ended(mode, chosen) => Ended(mode, chosen)'
<1>1. /\ IsSeq(ledger) /\ IsSeq(ledger') /\ Len(ledger) \in Nat /\ DOMAIN ledger = 1..Len(ledger)
      /\ DOMAIN ledger' = 1..(Len(ledger) + 1) /\ \A i \in 1..Len(ledger) : ledger'[i] = ledger[i]
      /\ ledger'[Len(ledger) + 1] = e
      /\ \A i \in 0..Len(ledger) : SubSeq(ledger', 1, i) = SubSeq(ledger, 1, i)
      /\ SubSeq(ledger', 1, Len(ledger)) = ledger
    <2>1. IsSeq(ledger)
        BY DEF AdmissionInv, LedgerInv, Planned
    <2>2. Len(ledger) \in Nat /\ DOMAIN ledger = 1..Len(ledger)
        BY <2>1, SeqParts
    <2>3. Extension(ledger, e, ledger')
        BY <2>1, AppendParts DEF Extended
    <2> QED BY <2>1, <2>2, <2>3 DEF Extension
<1>2. PlansInv' /\ EvidenceInv'
    <2>1. PlansInv'
        BY DEF AdmissionInv, PlansInv
    <2>2. EvidenceInv'
        BY <1>1 DEF AdmissionInv, EvidenceInv
    <2> QED BY <2>1, <2>2
<1>3. Planned(ledger)'
    BY <1>1 DEF AdmissionInv, LedgerInv, Planned, Sound
<1>4. ASSUME NEW i \in DOMAIN ledger', ledger'[i].kind = "RESERVED"
      PROVE  /\ SubSeq(ledger', 1, i - 1) = plans[ledger'[i].request.attempt].baseline
             /\ Pending(SubSeq(ledger', 1, i - 1)) = {}
             /\ \A k \in 1..(i - 1) : ledger'[k].request # ledger'[i].request
    <2>1. CASE i \in 1..Len(ledger)
        <3>1. /\ ledger'[i] = ledger[i] /\ SubSeq(ledger', 1, i - 1) = SubSeq(ledger, 1, i - 1)
              /\ \A k \in 1..(i - 1) : ledger'[k] = ledger[k]
            BY <1>1, <2>1
        <3>2. /\ SubSeq(ledger, 1, i - 1) = plans[ledger[i].request.attempt].baseline
              /\ Pending(SubSeq(ledger, 1, i - 1)) = {}
              /\ \A k \in 1..(i - 1) : ledger[k].request # ledger[i].request
            BY <1>1, <1>4, <2>1, <3>1 DEF AdmissionInv, LedgerInv, ApprovedSpend
        <3> QED BY <3>1, <3>2
    <2>2. CASE i = Len(ledger) + 1
        <3>1. i - 1 = Len(ledger) /\ ledger'[i] = e /\ SubSeq(ledger', 1, i - 1) = ledger
            BY <1>1, <2>2
        <3>2. /\ ledger = plans[e.request.attempt].baseline /\ Pending(ledger) = {}
              /\ \A k \in DOMAIN ledger : ledger[k].request # e.request
            BY <1>4, <3>1 DEF Sound
        <3> QED BY <1>1, <3>1, <3>2
    <2> QED BY <1>1, <1>4, <2>1, <2>2
<1>5. ApprovedSpend'
    BY <1>4 DEF ApprovedSpend
<1>6. LedgerInv'
    BY <1>1, <1>3, <1>5 DEF AdmissionInv, LedgerInv, Sound
<1>7. ASSUME NEW req, Status(ledger, req) \in {"PASS", "FAIL"}
      PROVE  Status(ledger', req) = Status(ledger, req) /\ Charger(req)' = Charger(req)
    <2>1. \A i \in Entries(ledger, "FINISHED", req) : ledger[i].request # e.request
        BY DEF Sound, Entries
    <2>2. /\ Entries(ledger, "RESERVED", req) # {}
          /\ Status(ledger', req) = Status(ledger, req)
          /\ Entries(ledger', "RESERVED", req) = Entries(ledger, "RESERVED", req)
          /\ \A i \in Entries(ledger, "RESERVED", req) : ledger'[i] = ledger[i]
        <3>1. IsSeq(ledger) /\ Extended(ledger, e, ledger')
            BY <1>1 DEF Extended
        <3>2. Keeps(ledger, ledger', req)
            BY <1>7, <2>1, <3>1, StatusKept
        <3> QED BY <3>2 DEF Keeps
    <2> QED BY <2>2 DEF Charger
<1>8. \A mode, chosen : Ended(mode, chosen) => Ended(mode, chosen)'
    BY <1>7, TerminalIs DEF Ended
<1>9. AcceptedOriginals'
    BY <1>7, TerminalIs DEF AdmissionInv, AcceptedOriginals
<1> QED BY <1>2, <1>6, <1>8, <1>9

LEMMA GrowStep ==
    ASSUME AdmissionInv, NEW e, Sound(e), ledger' = Append(ledger, e),
           UNCHANGED <<plans, evidence, accepted, master, runs>>,
           lease' # None => lease' = lease, job' # None => JobInv'
    PROVE  AdmissionInv'
<1>1. PlansInv' /\ LedgerInv' /\ EvidenceInv' /\ AcceptedOriginals'
    BY LedgerGrows
<1> QED BY <1>1 DEF AdmissionInv, JobInv

-----------------------------------------------------------------------------
(* The run *)

\* The plan a run holds is the published one, and what it observed had nothing
\* unresolved.
LEMMA RunHolds ==
    ASSUME AdmissionInv, job # None, job.stage \in Late
    PROVE  /\ JobShape /\ JobReads /\ JobCharged /\ job.op = "run"
           /\ MyRequest.attempt \in DOMAIN plans /\ MyPlan = plans[MyRequest.attempt]
           /\ Observed(job.got["provider"].ledger)
<1>1. JobShape /\ JobReads /\ JobCharged
    BY DEF AdmissionInv
<1>2. job.op = "run"
    BY <1>1 DEF JobShape, Late
<1>3. Approved(MyPlan) /\ Observed(job.got["provider"].ledger)
    BY <1>1, <1>2 DEF JobReads, Late, MyPlan
<1>4. MyRequest.attempt \in DOMAIN plans /\ MyPlan = plans[MyRequest.attempt]
    BY <1>3 DEF Approved, AdmissionInv, PlansInv, MyRequest
<1> QED BY <1>1, <1>2, <1>3, <1>4

\* It goes on to a later stage.
LEMMA LaterStage ==
    ASSUME JobShape, JobReads, job.op = "run", job.stage \in Late, NEW next \in Late, NEW seen,
           \/ job' = [job EXCEPT !.stage = next]
           \/ job' = [job EXCEPT !.stage = next, !.view = seen],
           UNCHANGED plans
    PROVE  /\ JobShape' /\ JobReads' /\ JobVerifies' /\ MyRequest' = MyRequest
           /\ job'.stage = next /\ job'.inv = job.inv /\ job'.op = job.op
<1>1. /\ job'.op = "run" /\ job'.stage = next /\ job'.got = job.got /\ job'.inv = job.inv
      /\ job' = [op |-> job'.op, input |-> job'.input, inv |-> job'.inv, source |-> job'.source,
                 stage |-> job'.stage, view |-> job'.view, got |-> job'.got,
                 tries |-> job'.tries, old |-> job'.old]
    BY DEF JobShape
<1>2. JobShape'
    BY <1>1 DEF JobShape, Late
<1>3. JobReads'
    BY <1>1 DEF JobReads, Late, Approved, Observed, Planned
<1>4. JobVerifies'
    BY <1>1 DEF JobVerifies
<1> QED BY <1>1, <1>2, <1>3, <1>4 DEF MyRequest, MyPlan

LEMMA AdmitStep ==
    ASSUME AdmissionInv, Admit
    PROVE  AdmissionInv'
<1>1. /\ job # None /\ job.stage = "admit" /\ job.stage \in Late
      /\ job' = None \/ job' = [job EXCEPT !.stage = "lease"]
      /\ UNCHANGED <<plans, ledger, lease, evidence, accepted, master, runs>>
    BY DEF Admit, At, Rejected, github, paid, Late
<1>2. CASE job' = None
    BY <1>1, <1>2, EndStep
<1>3. CASE job' = [job EXCEPT !.stage = "lease"]
    <2>1. JobShape /\ JobReads /\ job.op = "run"
        BY <1>1, RunHolds
    <2>2. "lease" \in Late
        BY DEF Late
    <2>3. JobShape' /\ JobReads' /\ job'.op = job.op /\ job'.stage = "lease"
        BY <1>1, <1>3, <2>1, <2>2, LaterStage
    <2> QED BY <1>1, <2>1, <2>3, ReadStep
<1> QED BY <1>1, <1>2, <1>3

LEMMA LeaseStep ==
    ASSUME AdmissionInv, AcquireLease
    PROVE  AdmissionInv'
<1>1. /\ job # None /\ job.stage = "lease" /\ job.stage \in Late
      /\ \/ job' = None /\ lease' = lease
         \/ job' = [job EXCEPT !.stage = "charge"] /\ lease' = MyRequest
      /\ UNCHANGED <<plans, ledger, evidence, accepted, master, runs>>
    BY DEF AcquireLease, At, Rejected, github, paid, Late
<1>2. CASE job' = None /\ lease' = lease
    BY <1>1, <1>2, EndStep
<1>3. CASE job' = [job EXCEPT !.stage = "charge"] /\ lease' = MyRequest
    <2>1. /\ JobShape /\ JobReads /\ job.op = "run"
          /\ MyRequest.attempt \in DOMAIN plans
        BY <1>1, RunHolds
    <2>2. "charge" \in Late
        BY DEF Late
    <2>3. JobShape' /\ JobReads' /\ JobVerifies' /\ job'.stage = "charge"
        BY <1>1, <1>3, <2>1, <2>2, LaterStage
    <2>4. JobInv'
        BY <2>3 DEF JobInv, JobCharged
    <2>5. lease'.attempt \in DOMAIN plans
        BY <1>3, <2>1
    <2> QED BY <1>1, <2>4, <2>5, FilesKept DEF AdmissionInv
<1> QED BY <1>1, <1>2, <1>3

\* The charge finds exactly the plan's baseline, in which its request is not.
LEMMA ChargeStep ==
    ASSUME AdmissionInv, Charge
    PROVE  AdmissionInv'
<1>1. /\ job # None /\ job.stage = "charge" /\ job.stage \in Late
      /\ UNCHANGED <<plans, evidence, accepted, master, runs>>
    BY DEF Charge, At, github, paid, Late
<1>2. CASE job' = None /\ lease' = None /\ ledger' = ledger
    BY <1>1, <1>2, FilesKept DEF AdmissionInv
<1>3. CASE /\ Check /\ SameLedger /\ lease' = lease /\ job' = [job EXCEPT !.stage = "member"]
           /\ ledger' = Append(ledger, [kind |-> "RESERVED", request |-> MyRequest,
                                        status |-> None, by |-> job.inv])
    <2>1. /\ JobShape /\ JobReads /\ job.op = "run"
          /\ MyRequest.attempt \in DOMAIN plans /\ MyPlan = plans[MyRequest.attempt]
          /\ Observed(job.got["provider"].ledger)
        BY <1>1, RunHolds
    <2>2. ledger = plans[MyRequest.attempt].baseline /\ Pending(ledger) = {}
        BY <1>3, <2>1 DEF Check, SameLedger, Review, Observed
    <2>3. \A i \in DOMAIN ledger : ledger[i].request # MyRequest
        BY <2>1, <2>2 DEF AdmissionInv, PlansInv
    <2>4. PICK e : e = [kind |-> "RESERVED", request |-> MyRequest, status |-> None, by |-> job.inv]
        OBVIOUS
    <2>5. e.kind = "RESERVED" /\ e.request = MyRequest /\ e.by = job.inv
        BY <2>4
    <2>6. Sound(e) /\ ledger' = Append(ledger, e)
        BY <1>3, <2>1, <2>2, <2>3, <2>4, <2>5 DEF Sound
    <2>7. "member" \in Late
        BY DEF Late
    <2>8. /\ JobShape' /\ JobReads' /\ JobVerifies' /\ job'.stage = "member"
          /\ MyRequest' = MyRequest /\ job'.inv = job.inv
        BY <1>1, <1>3, <2>1, <2>7, LaterStage
    <2>9. JobCharged'
        <3>1. IsSeq(ledger) /\ Extended(ledger, e, ledger')
            BY <2>6 DEF AdmissionInv, LedgerInv, Planned, Extended
        <3>2. Extension(ledger, e, ledger') /\ Len(ledger) \in Nat /\ DOMAIN ledger = 1..Len(ledger)
            BY <3>1, AppendParts, SeqParts
        <3>3. /\ Len(ledger') = Len(ledger) + 1 /\ ledger'[Len(ledger')] = e
              /\ \A i \in 1..(Len(ledger') - 1) : ledger'[i] = ledger[i] /\ i \in DOMAIN ledger
            BY <3>2 DEF Extension
        <3>4. Len(ledger') >= 1
            BY <3>2, <3>3
        <3> QED BY <2>3, <2>5, <2>8, <3>3, <3>4 DEF JobCharged
    <2> QED BY <1>1, <1>3, <2>6, <2>8, <2>9, GrowStep DEF JobInv
<1> QED BY <1>1, <1>2, <1>3 DEF Charge, paid

LEMMA MemberStep ==
    ASSUME AdmissionInv, Member
    PROVE  AdmissionInv'
<1>1. /\ job # None /\ job.stage = "member" /\ job.stage \in Late
      /\ UNCHANGED <<plans, ledger, lease, accepted, master, runs>>
    BY DEF Member, At, github, Late
<1>2. PICK done, passed :
        /\ \/ evidence' = evidence
           \/ evidence' = evidence \cup {[request |-> MyRequest, by |-> job.inv, histories |-> done]}
        /\ job' = [job EXCEPT !.stage = "finish", !.view = passed]
    BY DEF Member
<1>3. JobShape /\ JobReads /\ JobCharged /\ job.op = "run"
    BY <1>1, RunHolds
<1>4. "finish" \in Late
    BY DEF Late
<1>5. /\ JobShape' /\ JobReads' /\ JobVerifies' /\ job'.stage = "finish"
      /\ MyRequest' = MyRequest /\ job'.inv = job.inv
    BY <1>1, <1>2, <1>3, <1>4, LaterStage
<1>6. JobCharged'
    BY <1>1, <1>3, <1>5 DEF JobCharged
<1>7. EvidenceInv'
    <2>1. Len(ledger) \in Nat /\ DOMAIN ledger = 1..Len(ledger)
        BY SeqParts DEF AdmissionInv, LedgerInv, Planned
    <2>2. /\ Len(ledger) \in DOMAIN ledger /\ ledger[Len(ledger)].kind = "RESERVED"
          /\ ledger[Len(ledger)].request = MyRequest /\ ledger[Len(ledger)].by = job.inv
        BY <1>1, <1>3, <2>1 DEF JobCharged
    <2>3. ASSUME NEW e \in evidence', e \notin evidence
          PROVE  e.request = MyRequest /\ e.by = job.inv
        BY <1>2, <2>3
    <2> QED BY <1>1, <2>2, <2>3 DEF AdmissionInv, EvidenceInv
<1>8. AcceptedOriginals'
    BY <1>1, <1>2, AcceptedKept DEF AdmissionInv
<1>9. PlansInv' /\ LedgerInv'
    BY <1>1 DEF AdmissionInv, PlansInv, LedgerInv, Planned, ApprovedSpend
<1> QED BY <1>1, <1>5, <1>6, <1>7, <1>8, <1>9 DEF AdmissionInv

LEMMA FinishStep ==
    ASSUME AdmissionInv, Finish
    PROVE  AdmissionInv'
<1>1. /\ job # None /\ job.stage = "finish" /\ job.stage \in Late /\ lease' = None
      /\ UNCHANGED <<plans, evidence, accepted, master, runs>>
      /\ job' = None \/ job' = [job EXCEPT !.stage = "seal", !.view = None]
    BY DEF Finish, At, github, Late
<1>2. PICK e : /\ ledger' = Append(ledger, e) /\ e.kind = "FINISHED"
               /\ e.request = MyRequest /\ e.status \in {"PASS", "FAIL"}
    BY DEF Finish, Finished
<1>3. /\ JobShape /\ JobReads /\ JobCharged /\ job.op = "run"
      /\ MyRequest.attempt \in DOMAIN plans
    BY <1>1, RunHolds
<1>4. \A i \in DOMAIN ledger : ledger[i].kind = "FINISHED" => ledger[i].request # MyRequest
    <2>1. Len(ledger) \in Nat /\ DOMAIN ledger = 1..Len(ledger)
        BY SeqParts DEF AdmissionInv, LedgerInv, Planned
    <2>2. /\ ledger[Len(ledger)].kind = "RESERVED"
          /\ \A i \in 1..(Len(ledger) - 1) : ledger[i].request # MyRequest
        BY <1>1, <1>3 DEF JobCharged
    <2>3. \A i \in DOMAIN ledger : i \in 1..(Len(ledger) - 1) \/ i = Len(ledger)
        BY <2>1
    <2> QED BY <2>2, <2>3
<1>5. Sound(e)
    BY <1>2, <1>3, <1>4 DEF Sound
<1>6. ASSUME job' # None PROVE JobInv'
    <2>1. "seal" \in Late
        BY DEF Late
    <2>2. JobShape' /\ JobReads' /\ JobVerifies' /\ job'.stage = "seal"
        BY <1>1, <1>3, <1>6, <2>1, LaterStage
    <2> QED BY <2>2 DEF JobInv, JobCharged
<1> QED BY <1>1, <1>2, <1>5, <1>6, GrowStep

LEMMA SealStep ==
    ASSUME AdmissionInv, Seal
    PROVE  AdmissionInv'
<1>1. job' = None /\ UNCHANGED <<plans, ledger, lease, evidence, accepted, master, runs>>
    BY DEF Seal, paid
<1> QED BY <1>1, EndStep

-----------------------------------------------------------------------------
(* The verification of a set *)

\* What the objects show is what the set claims of its members.
LEMMA RestoredIs ==
    ASSUME NEW mode, NEW source, NEW chosen, Restored(mode, source, chosen, ledger)
    PROVE  Ended(mode, chosen) /\ OneBuild(mode, policy, source, chosen)
<1> DEFINE reqs == [m \in Members |-> chosen[m].request]
<1>1. Selected(mode, source, reqs)
    BY DEF Restored
<1>2. \A m \in Members : reqs[m] = chosen[m].request
    OBVIOUS
<1> HIDE DEF reqs
<1>3. \A m \in Members : reqs[m].member = m
    BY <1>1 DEF Selected, CompleteSelection, ScopedSelection
<1>4. Ended(mode, chosen)
    BY <1>2, <1>3 DEF Restored, Ended
<1>5. \A p, q : Binding(p) = Binding(q) => p.proof = q.proof
    BY DEF Binding
<1>6. CASE mode = "plain"
    <2>1. \A m, n \in Members : reqs[m].source = source /\ Binding(reqs[m]) = Binding(reqs[n])
        BY <1>1, <1>6 DEF Selected, CompleteSelection
    <2> QED BY <1>2, <1>4, <1>5, <1>6, <2>1 DEF OneBuild
<1>7. CASE mode # "plain"
    <2>1. \A m, n \in Members \ DOMAIN policy.pins :
            reqs[m].source = source /\ Binding(reqs[m]) = Binding(reqs[n])
        BY <1>1, <1>7 DEF Selected, ScopedSelection
    <2> QED BY <1>2, <1>4, <1>5, <1>7, <2>1 DEF OneBuild
<1> QED BY <1>6, <1>7

\* A verifying job that read its objects.
LEMMA ObjectsStep ==
    ASSUME AdmissionInv, Objects \/ Restore
    PROVE  AdmissionInv'
<1>1. /\ job # None /\ job.stage = "objects"
      /\ UNCHANGED <<plans, ledger, lease, evidence, accepted, master, policy, runs>>
    BY DEF Objects, Restore, At, Rejected, github, paid
<1>2. CASE job' = None
    BY <1>1, <1>2, EndStep
<1>3. CASE job' # None
    <2>1. JobShape /\ JobReads /\ JobVerifies /\ job.op = "verify"
        BY <1>1 DEF AdmissionInv, JobShape, Late
    <2>2. \/ /\ Restored(job.input.mode, job.source, job.input.chosen, ledger)
             /\ job' = [job EXCEPT !.view = ledger]
          \/ job.view # None /\ job' = [job EXCEPT !.stage = "runners", !.view = ledger]
        BY <1>3 DEF Objects, Restore, Rejected
    <2>3. /\ job'.op = "verify" /\ job'.stage \in {"objects", "runners"} /\ job'.got = job.got
          /\ job'.input = job.input /\ job'.source = job.source
          /\ job' = [op |-> job'.op, input |-> job'.input, inv |-> job'.inv, source |-> job'.source,
                     stage |-> job'.stage, view |-> job'.view, got |-> job'.got,
                     tries |-> job'.tries, old |-> job'.old]
        BY <1>1, <2>1, <2>2 DEF JobShape
    <2>4. JobShape'
        BY <2>1, <2>3 DEF JobShape
    <2>5. JobReads' /\ JobCharged'
        BY <1>1, <2>1, <2>3 DEF JobReads, JobCharged, Late, Approved, Observed, Planned
    <2>6. /\ Ended(job.input.mode, job.input.chosen)
          /\ master = job.source => OneBuild(job.input.mode, policy, job.source, job.input.chosen)
        BY <2>1, <2>2, RestoredIs DEF JobVerifies
    <2>7. JobVerifies'
        BY <1>1, <2>1, <2>3, <2>6 DEF JobVerifies, Ended
    <2> QED BY <1>1, <2>4, <2>5, <2>7, FilesKept DEF AdmissionInv, JobInv
<1> QED BY <1>2, <1>3

\* A request is charged once, so its charge names its only execution.
LEMMA ChargedOnce ==
    ASSUME AdmissionInv, NEW k \in DOMAIN ledger, ledger[k].kind = "RESERVED"
    PROVE  Charger(ledger[k].request) = ledger[k].by
<1>1. Len(ledger) \in Nat /\ DOMAIN ledger = 1..Len(ledger)
    BY SeqParts DEF AdmissionInv, LedgerInv, Planned
<1>2. ASSUME NEW i \in Entries(ledger, "RESERVED", ledger[k].request) PROVE i = k
    <2>1. i \in DOMAIN ledger /\ ledger[i].kind = "RESERVED" /\ ledger[i].request = ledger[k].request
        BY DEF Entries
    <2>2. /\ \A j \in 1..(i - 1) : ledger[j].request # ledger[i].request
          /\ \A j \in 1..(k - 1) : ledger[j].request # ledger[k].request
        BY <2>1 DEF AdmissionInv, LedgerInv, ApprovedSpend
    <2> QED BY <1>1, <2>1, <2>2
<1>3. Entries(ledger, "RESERVED", ledger[k].request) = {k}
    BY <1>2 DEF Entries
<1> QED BY <1>3 DEF Charger

LEMMA AcceptStep ==
    ASSUME AdmissionInv, Accept
    PROVE  AdmissionInv'
<1>1. /\ job # None /\ job.stage = "runners" /\ job' = None
      /\ UNCHANGED <<plans, ledger, lease, evidence, master, runs>>
    BY DEF Accept, At, Rejected, github, paid
<1>2. CASE accepted' = accepted
    BY <1>1, <1>2, EndStep
<1>3. CASE /\ master = job.source /\ Replayed(job.input.mode, job.input.chosen, job.view)
           /\ accepted' = accepted \cup {[source |-> job.source, policy |-> policy,
                                          mode |-> job.input.mode, chosen |-> job.input.chosen]}
    <2>1. JobShape /\ JobVerifies /\ job.op = "verify"
        BY <1>1 DEF AdmissionInv, JobShape, Late
    <2>2. PICK mode, chosen : mode = job.input.mode /\ chosen = job.input.chosen
        OBVIOUS
    <2>3. Ended(mode, chosen) /\ OneBuild(mode, policy, job.source, chosen)
        BY <1>1, <1>3, <2>1, <2>2 DEF JobVerifies
    <2>4. ASSUME NEW m \in Members
          PROVE  /\ chosen[m].inv = Charger(chosen[m].request)
                 /\ \E e \in evidence : /\ e.request = chosen[m].request /\ e.by = chosen[m].inv
                                        /\ e.histories = Histories[m]
        <3>1. PICK e \in evidence : /\ e.request = chosen[m].request /\ e.by = chosen[m].inv
                                    /\ e.histories = Histories[m]
            BY <1>3, <2>2 DEF Replayed, Whole
        <3>2. PICK k \in DOMAIN ledger : /\ ledger[k].kind = "RESERVED"
                                         /\ ledger[k].request = e.request /\ ledger[k].by = e.by
            BY DEF AdmissionInv, EvidenceInv
        <3>3. Charger(e.request) = e.by
            BY <3>2, ChargedOnce
        <3> QED BY <3>1, <3>3
    <2>5. \A req : Charger(req)' = Charger(req)
        BY <1>1 DEF Charger
    <2>6. ASSUME NEW a \in accepted', a \notin accepted
          PROVE  /\ a.source = job.source /\ a.policy = policy /\ a.mode = mode /\ a.chosen = chosen
        BY <1>3, <2>2, <2>6
    <2>7. ASSUME NEW a \in accepted', a \notin accepted
          PROVE  \A m \in Members :
                    LET c == a.chosen[m] IN
                    /\ c.request.member = m /\ c.inv = Charger(c.request)'
                    /\ Status(ledger', c.request) = Terminal(a.mode, m)
                    /\ \E e \in evidence' : /\ e.request = c.request /\ e.by = c.inv
                                            /\ e.histories = Histories[m]
        BY <1>1, <2>3, <2>4, <2>5, <2>6, <2>7 DEF Ended
    <2>8. ASSUME NEW a \in accepted', a \notin accepted
          PROVE  OneBuild(a.mode, a.policy, a.source, a.chosen)
        BY <2>3, <2>6, <2>8
    <2>9. AcceptedOriginals'
        <3>1. ASSUME NEW a \in accepted
              PROVE  /\ \A m \in Members :
                            LET c == a.chosen[m] IN
                            /\ c.request.member = m /\ c.inv = Charger(c.request)'
                            /\ Status(ledger', c.request) = Terminal(a.mode, m)
                            /\ \E e \in evidence' : /\ e.request = c.request /\ e.by = c.inv
                                                    /\ e.histories = Histories[m]
                     /\ OneBuild(a.mode, a.policy, a.source, a.chosen)
            BY <1>1, <2>5, <3>1 DEF AdmissionInv, AcceptedOriginals, OneBuild
        <3> QED BY <2>7, <2>8, <3>1 DEF AcceptedOriginals, OneBuild
    <2>10. PlansInv' /\ LedgerInv' /\ EvidenceInv'
        BY <1>1 DEF AdmissionInv, PlansInv, LedgerInv, Planned, ApprovedSpend, EvidenceInv
    <2> QED BY <1>1, <2>9, <2>10 DEF AdmissionInv
<1> QED BY <1>2, <1>3 DEF Accept, Rejected

\* The cleanup of an abandoned lease ends a charge that had not ended.
LEMMA ReconcileStep ==
    ASSUME AdmissionInv, Reconcile
    PROVE  AdmissionInv'
<1>1. /\ lease # None /\ lease' = None
      /\ job # None => job.stage \notin {"charge", "member", "finish"}
      /\ UNCHANGED <<plans, evidence, accepted, master, policy, runs, job>>
    BY DEF Reconcile, github
<1>2. ASSUME job # None, \A mode, chosen : Ended(mode, chosen) => Ended(mode, chosen)'
      PROVE  JobInv'
    <2>1. JobInv
        BY <1>2 DEF AdmissionInv, JobInv
    <2>2. JobShape' /\ JobReads' /\ JobCharged'
        BY <1>1, <1>2, <2>1 DEF JobInv, JobShape, JobReads, JobCharged, Approved, Observed, Planned
    <2>3. JobVerifies'
        <3>1. PICK mode, chosen : mode = job.input.mode /\ chosen = job.input.chosen
            OBVIOUS
        <3>2. Ended(mode, chosen) => Ended(mode, chosen)'
            BY <1>2
        <3>3. Ended(job.input.mode, job.input.chosen) => Ended(job.input.mode, job.input.chosen)'
            BY <1>1, <3>1, <3>2 DEF Ended
        <3> QED BY <1>1, <2>1, <3>3 DEF JobInv, JobVerifies
    <2> QED BY <2>2, <2>3 DEF JobInv
<1>3. CASE ledger' = ledger
    <2>1. \A mode, chosen : Ended(mode, chosen) => Ended(mode, chosen)'
        BY <1>3 DEF Ended
    <2> QED BY <1>1, <1>2, <1>3, <2>1, FilesKept DEF AdmissionInv
<1>4. CASE lease \in Pending(ledger) /\ ledger' = Append(ledger, Finished(lease, "FAIL"))
    <2>1. PICK e : e = Finished(lease, "FAIL")
        OBVIOUS
    <2>2. e.kind = "FINISHED" /\ e.request = lease /\ e.status = "FAIL" /\ ledger' = Append(ledger, e)
        BY <1>4, <2>1 DEF Finished
    <2>3. Status(ledger, lease) = "PENDING"
        BY <1>4 DEF Pending
    <2>4. Entries(ledger, "FINISHED", lease) = {}
        <3>1. SUFFICES ASSUME Entries(ledger, "FINISHED", lease) # {} PROVE FALSE
            OBVIOUS
        <3>2. PICK k : k = CHOOSE i \in Entries(ledger, "FINISHED", lease) : TRUE
            OBVIOUS
        <3>3. k \in Entries(ledger, "FINISHED", lease)
            BY <3>1, <3>2
        <3>4. Status(ledger, lease) = ledger[k].status
            BY <2>3, <3>1, <3>2, AdmissionAssumption DEF Status
        <3>5. ledger[k].status \in {"PASS", "FAIL"}
            BY <3>3 DEF Entries, AdmissionInv, LedgerInv
        <3> QED BY <2>3, <3>4, <3>5
    <2>5. \A i \in DOMAIN ledger : ledger[i].kind = "FINISHED" => ledger[i].request # lease
        BY <2>4 DEF Entries
    <2>6. Sound(e)
        BY <1>1, <2>2, <2>5 DEF Sound, AdmissionInv, LedgerInv
    <2>7. \A mode, chosen : Ended(mode, chosen) => Ended(mode, chosen)'
        BY <1>1, <2>2, <2>6, LedgerGrows
    <2> QED BY <1>1, <1>2, <2>2, <2>6, <2>7, GrowStep
<1> QED BY <1>3, <1>4 DEF Reconcile

-----------------------------------------------------------------------------
(* The theorems *)

LEMMA InitAdmission ==
    ASSUME Init
    PROVE  AdmissionInv
<1>1. master \in Nat /\ job = None /\ accepted = {} /\ lease = None
    BY DEF Init
<1>2. IsSeq(runs)
    BY DEF Init, IsSeq
<1>3. PICK x, y : /\ ledger = <<x, y>> /\ x.kind = "RESERVED" /\ x.request = First /\ x.by = <<4, 1>>
                  /\ y.kind = "FINISHED" /\ y.request = First /\ y.status \in {"PASS", "FAIL"}
    BY DEF Init, Finished
<1>4. /\ DOMAIN plans = {<<3, 1>>} /\ First.attempt = <<3, 1>>
      /\ plans[<<3, 1>>].request = First /\ plans[<<3, 1>>].baseline = <<>>
    BY DEF Init, First
<1>5. PlansInv
    BY <1>4 DEF PlansInv
<1>6. /\ IsSeq(ledger) /\ DOMAIN ledger = {1, 2} /\ ledger[1] = x /\ ledger[2] = y
      /\ SubSeq(ledger, 1, 0) = <<>>
    BY <1>3 DEF IsSeq
<1>7. Planned(ledger)
    BY <1>3, <1>4, <1>6 DEF Planned
<1>8. Pending(<<>>) = {}
    BY DEF Pending
<1>9. ApprovedSpend
    <2> SUFFICES ASSUME NEW i \in DOMAIN ledger, ledger[i].kind = "RESERVED"
                 PROVE  /\ SubSeq(ledger, 1, i - 1) = plans[ledger[i].request.attempt].baseline
                        /\ Pending(SubSeq(ledger, 1, i - 1)) = {}
                        /\ \A k \in 1..(i - 1) : ledger[k].request # ledger[i].request
        BY DEF ApprovedSpend
    <2>1. i = 1 /\ i - 1 = 0
        BY <1>3, <1>6
    <2>2. SubSeq(ledger, 1, i - 1) = <<>>
        BY <1>6, <2>1
    <2>3. SubSeq(ledger, 1, i - 1) = plans[ledger[i].request.attempt].baseline
        BY <1>3, <1>4, <1>6, <2>1, <2>2, Zenon
    <2>4. PICK s : s = SubSeq(ledger, 1, i - 1)
        OBVIOUS
    <2>5. Pending(s) = {}
        BY <1>8, <2>2, <2>4
    <2>6. \A k \in 1..(i - 1) : ledger[k].request # ledger[i].request
        BY <2>1
    <2> QED BY <2>3, <2>4, <2>5, <2>6, Zenon
<1>10. LedgerInv
    BY <1>1, <1>3, <1>6, <1>7, <1>9 DEF LedgerInv
<1>11. EvidenceInv
    <2>1. \A e \in evidence : e.request = First /\ e.by = <<4, 1>>
        BY DEF Init
    <2> QED BY <1>3, <1>6, <2>1 DEF EvidenceInv
<1> QED BY <1>1, <1>2, <1>5, <1>10, <1>11 DEF AdmissionInv, AcceptedOriginals

LEMMA DispatchedStep ==
    ASSUME AdmissionInv, Dispatched
    PROVE  AdmissionInv'
<1>1. CASE \E m \in Members : Prepare(m)
    BY <1>1, DispatchStep DEF Prepare
<1>2. CASE \E inv \in DOMAIN plans : Execute(inv)
    BY <1>2, DispatchStep DEF Execute
<1>3. CASE \E r \in DOMAIN runs : Rerun(r)
    BY <1>3, RerunStep
<1>4. CASE \E mode \in {"plain", "continuation", "recovery"},
              chosen \in [Members -> {Pin(q, i) : q \in Requests, i \in Invocations}] :
                 Verify(mode, chosen)
    <2>1. PICK mode \in {"plain", "continuation", "recovery"},
               chosen \in [Members -> {Pin(q, i) : q \in Requests, i \in Invocations}] :
                  Verify(mode, chosen)
        BY <1>4
    <2>2. Dispatch("verify", [mode |-> mode, chosen |-> chosen], "objects")
        BY <2>1 DEF Verify
    <2> QED BY <2>2, DispatchStep
<1> QED BY <1>1, <1>2, <1>3, <1>4 DEF Dispatched

LEMMA JobStepKeeps ==
    ASSUME AdmissionInv, JobStep
    PROVE  AdmissionInv'
<1>1. CASE \/ ReadPrepared \/ RereadPrepared \/ ReadBuild \/ RereadBuild
           \/ ReadClean \/ RereadClean \/ ReadProvider \/ RereadProvider
    BY <1>1, CollectorStep
<1>2. CASE ReadFails
    BY <1>2, TickStep
<1>3. CASE Plan
    BY <1>3, PlanStep
<1>4. CASE Admit \/ AcquireLease \/ Charge \/ Member \/ Finish \/ Seal
    BY <1>4, AdmitStep, LeaseStep, ChargeStep, MemberStep, FinishStep, SealStep
<1>5. CASE Objects \/ Restore \/ Accept
    BY <1>5, ObjectsStep, AcceptStep
<1> QED BY <1>1, <1>2, <1>3, <1>4, <1>5 DEF JobStep

LEMMA NextAdmission ==
    ASSUME AdmissionInv, [Next]_vars
    PROVE  AdmissionInv'
<1>1. CASE Crash
    BY <1>1, EndStep DEF Crash, github, paid
<1>2. CASE UNCHANGED vars
    BY <1>2, QuietStep DEF vars, github, paid, AdmissionInv
<1> QED BY <1>1, <1>2, DispatchedStep, JobStepKeeps, PushStep, WorldStep, TickStep, ReconcileStep
        DEF Next

\* The plans, the ledger, the evidence and the job stay consistent through
\* every interleaving of dispatches, reruns, pushes, expiry, crashes and
\* reconciliations.
THEOREM AdmissionInductive == Spec => []AdmissionInv
<1>1. Init => AdmissionInv
    BY InitAdmission
<1>2. AdmissionInv /\ [Next]_vars => AdmissionInv'
    BY NextAdmission
<1> QED BY <1>1, <1>2, PTL DEF Spec

\* Every charge extends exactly the ledger its approved plan was computed
\* from, once for a request, and never on top of an unresolved attempt
\* (cloud_prepared.review and _Admission.before_write).
THEOREM SpendIsApproved == Spec => []ApprovedSpend
<1>1. AdmissionInv => ApprovedSpend
    BY DEF AdmissionInv, LedgerInv
<1> QED BY <1>1, AdmissionInductive, PTL

\* Every accepted set is made of originals: each member was charged by exactly
\* the selected attempt, ended as the set claims with its whole histories
\* retained by it, and the members no policy pins share one build
\* (cloud_acceptance.verify_native).
THEOREM OriginalsAccepted == Spec => []AcceptedOriginals
<1>1. AdmissionInv => AcceptedOriginals
    BY DEF AdmissionInv
<1> QED BY <1>1, AdmissionInductive, PTL

=============================================================================
