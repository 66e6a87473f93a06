--------------------------- MODULE HarnessMatrix ---------------------------
(***************************************************************************)
(* One run of a scripted harness, whichever family its case belongs to: the *)
(* controller's steps, the rows the processes leave, a wait that times out, *)
(* the cleanup of owned processes in finally, the audit and the receipt.    *)
(***************************************************************************)
EXTENDS PublicFinal, PublicReadLimits, LaneSets, ConfiguredRemote

CONSTANTS
    HCases,     \* the cases this instance runs
    MaxNoise,   \* bound: honest rows and rejected reads besides the script's
    MaxBreaches \* bound: breaches of contract by the processes

VARIABLES
    hcase,    \* the case that runs
    hpc,      \* the position in its script
    hrows,    \* the evidence retained so far
    hown,     \* the processes the controller owns
    hnoise,   \* honest additional rows so far
    hlie,     \* the breach committed, or None
    hstat     \* "RUN", "PASS", "FAIL" or "REJECTED"

harnessVars == <<hcase, hpc, hrows, hown, hnoise, hlie, hstat>>

AllCases ==
    UNION {{Case("promise", x) : x \in PromiseCuts},
           {Case("candidate", x) : x \in CandidateCuts},
           {Case("selection", x) : x \in SelectionCases},
           {Case("reclamation", x) : x \in ReclamationCuts},
           {Case("pressure", x) : x \in PressureCases},
           {Case("lifecycle", x) : x \in LifecycleCases},
           {Case("backpressure", x) : x \in BackpressureCases},
           {Case("mailbox", x) : x \in {"inputs", "completions"}},
           {Case("limit", x) : x \in LimitCases},
           {Case("refused", x) : x \in RefusedCases},
           {Case("wire", x) : x \in WireEnds},
           {Case("resource", x) : x \in ResourceCases},
           {Case("budget", x) : x \in BudgetCases},
           {Case("heartbeat", x) : x \in HeartbeatCases},
           {Case("disks", x) : x \in DiskLossCases},
           {Case("rounds", x) : x \in RoundCases},
           {Case("combined", x) : x \in CombinedCases},
           MemberCases, LocalCases, ReadCases, SetCases, ConfiguredCases, RemoteCases}

ScriptFor(c) ==
    CASE c.family \in MemberFamilies -> MemberScript(c)
      [] c.family \in LocalFamilies -> LocalScript(c)
      [] c.family \in ReadFamilies -> PublicReadScript(c)
      [] c.family \in SetFamilies -> LaneSetScript(c)
      [] c.family \in ConfiguredFamilies -> ConfiguredScript(c)
      [] c.family = "conf-remote" -> RemoteRunScript(c.cut)
      [] c.family = "promise"      -> PromiseScript(c.cut)
      [] c.family = "candidate"    -> CandidateScript(c.cut)
      [] c.family = "selection"    -> SelectionScript(c.cut)
      [] c.family = "reclamation"  -> ReclamationScript(c.cut)
      [] c.family = "pressure"     -> PressureScript(c.cut)
      [] c.family = "lifecycle"    -> LifecycleScript(c.cut)
      [] c.family = "backpressure" -> BackpressureScript(c.cut)
      [] c.family = "mailbox"      -> MailboxScript(c.cut)
      [] c.family = "limit"        -> LimitScript(c.cut)
      [] c.family = "refused"      -> RefusedScript(c.cut)
      [] c.family = "wire"         -> WireScript(c.cut)
      [] c.family = "resource"     -> ResourceScript(c.cut)
      [] c.family = "budget"       -> BudgetScript(c.cut)
      [] c.family = "heartbeat"    -> HeartbeatScript(c.cut)
      [] c.family = "disks"        -> DiskLossScript(c.cut)
      [] c.family = "rounds"       -> RoundsScript(c.cut)
      [] c.family = "combined"     -> CombinedScript(c.cut)
ScriptOf == [c \in HCases |-> ScriptFor(c)]

ValidRows(c, rows) ==
    CASE c.family \in MemberFamilies -> MemberValid(c, rows)
      [] c.family \in LocalFamilies -> LocalValid(c, rows)
      [] c.family \in ReadFamilies -> PublicReadValid(c, rows)
      [] c.family \in SetFamilies -> LaneSetValid(c, rows)
      [] c.family \in ConfiguredFamilies -> ConfiguredValid(c, rows)
      [] c.family = "conf-remote" -> RemoteRunValid(c.cut, rows)
      [] c.family = "promise"      -> PromiseValid(c.cut, rows)
      [] c.family = "candidate"    -> CandidateValid(c.cut, rows)
      [] c.family = "selection"    -> SelectionValid(c.cut, rows)
      [] c.family = "reclamation"  -> ReclamationValid(c.cut, rows)
      [] c.family = "pressure"     -> PressureValid(c.cut, rows)
      [] c.family = "lifecycle"    -> LifecycleValid(c.cut, rows)
      [] c.family = "backpressure" -> BackpressureValid(c.cut, rows)
      [] c.family = "mailbox"      -> MailboxValid(c.cut, rows)
      [] c.family = "limit"        -> LimitValid(c.cut, rows)
      [] c.family = "refused"      -> RefusedValid(c.cut, rows)
      [] c.family = "wire"         -> WireValid(c.cut, rows)
      [] c.family = "resource"     -> ResourceValid(c.cut, rows)
      [] c.family = "budget"       -> BudgetValid(c.cut, rows)
      [] c.family = "heartbeat"    -> HeartbeatValid(c.cut, rows)
      [] c.family = "disks"        -> DiskLossValid(c.cut, rows)
      [] c.family = "rounds"       -> RoundsValid(c.cut, rows)
      [] c.family = "combined"     -> CombinedValid(c.cut, rows)

NegativesFor(c) ==
    CASE c.family \in MemberFamilies \cup LocalFamilies \cup SetFamilies \cup ConfiguredFamilies \cup {"conf-remote"} -> {}
      [] c.family \in ReadFamilies -> PublicReadNegatives(c)
      [] c.family = "promise"      -> PromiseNegatives(c.cut)
      [] c.family = "candidate"    -> CandidateNegatives(c.cut)
      [] c.family = "selection"    -> SelectionNegatives(c.cut)
      [] c.family = "reclamation"  -> ReclamationNegatives(c.cut)
      [] c.family = "pressure"     -> PressureNegatives(c.cut)
      [] c.family = "lifecycle"    -> LifecycleNegatives(c.cut)
      [] c.family = "backpressure" -> BackpressureNegatives(c.cut)
      [] c.family = "mailbox"      -> MailboxNegatives(c.cut)
      [] c.family = "limit"        -> LimitNegatives(c.cut)
      [] c.family = "refused"      -> RefusedNegatives(c.cut)
      [] c.family = "wire"         -> WireNegatives(c.cut)
      [] c.family = "resource"     -> ResourceNegatives(c.cut)
      [] c.family = "budget"       -> BudgetNegatives(c.cut)
      [] c.family = "heartbeat"    -> HeartbeatNegatives(c.cut)
      [] c.family = "disks"        -> DiskLossNegatives(c.cut)
      [] c.family = "rounds"       -> RoundsNegatives(c.cut)
      [] c.family = "combined"     -> CombinedNegatives(c.cut)
NegativesOf == [c \in HCases |-> NegativesFor(c)]

BreachesFor(c) ==
    CASE c.family \in MemberFamilies -> MemberBreaches(c)
      [] c.family \in LocalFamilies -> LocalBreaches(c)
      [] c.family \in ReadFamilies -> PublicReadBreaches(c)
      [] c.family \in SetFamilies -> LaneSetBreaches(c)
      [] c.family \in ConfiguredFamilies -> ConfiguredBreaches(c)
      [] c.family = "conf-remote" -> RemoteRunBreaches(c.cut)
      [] c.family = "promise"      -> PromiseBreaches(c.cut)
      [] c.family = "candidate"    -> CandidateBreaches(c.cut)
      [] c.family = "selection"    -> SelectionBreaches(c.cut)
      [] c.family = "reclamation"  -> ReclamationBreaches(c.cut)
      [] c.family = "pressure"     -> PressureBreaches(c.cut)
      [] c.family = "lifecycle"    -> LifecycleBreaches(c.cut)
      [] c.family = "backpressure" -> BackpressureBreaches(c.cut)
      [] c.family = "mailbox"      -> MailboxBreaches(c.cut)
      [] c.family = "limit"        -> LimitBreaches(c.cut)
      [] c.family = "refused"      -> RefusedBreaches(c.cut)
      [] c.family = "wire"         -> WireBreaches(c.cut)
      [] c.family = "resource"     -> ResourceBreaches(c.cut)
      [] c.family = "budget"       -> BudgetBreaches(c.cut)
      [] c.family = "heartbeat"    -> HeartbeatBreaches(c.cut)
      [] c.family = "disks"        -> DiskLossBreaches(c.cut)
      [] c.family = "rounds"       -> RoundsBreaches(c.cut)
      [] c.family = "combined"     -> CombinedBreaches(c.cut)
BreachesOf == [c \in HCases |-> BreachesFor(c)]

NoiseFor(c) ==
    CASE c.family \in MemberFamilies \cup LocalFamilies \cup ReadFamilies \cup SetFamilies \cup {"conf-remote"} -> {}
      [] c.family \in ConfiguredFamilies -> ConfiguredNoise(c)
      [] c.family = "promise"      -> PromiseNoise
      [] c.family = "candidate"    -> CandidateNoise
      [] c.family = "selection"    -> SelectionNoise(c.cut)
      [] c.family = "reclamation"  -> ReclamationNoise
      [] c.family = "pressure"     -> PressureNoise(c.cut)
      [] c.family = "lifecycle"    -> LifecycleNoise(c.cut)
      [] c.family = "backpressure" -> BackpressureNoise(c.cut)
      [] c.family = "mailbox"      -> {}
      [] c.family = "limit"        -> LimitNoise
      [] c.family = "refused"      -> {}
      [] c.family = "wire"         -> {}
      [] c.family = "resource"     -> ResourceNoise
      [] c.family = "budget"       -> {}
      [] c.family = "heartbeat"    -> HeartbeatNoise
      [] c.family = "disks"        -> DiskLossNoise
      [] c.family = "rounds"       -> RoundsNoise(c.cut)
      [] c.family = "combined"     -> CombinedNoise(c.cut)
NoiseOf == [c \in HCases |-> NoiseFor(c)]

HInit ==
    /\ hcase \in HCases
    /\ hpc = 1 /\ hrows = <<>> /\ hown = {} /\ hnoise = 0 /\ hlie = None /\ hstat = "RUN"

\* What the step leaves: a fresh write has the next key, a sum the documents
\* expected by now, every other row is the script's.
RowNow(step) ==
    CASE step.do = "fresh" -> Num(step, Cardinality(All(hrows, step)) + 1)
      [] step.do = "sum"   -> Num(step, Kept(hrows))
      [] OTHER             -> step

\* The next statement of the scenario; a start or a stop changes what is owned.
ScenarioStep(step) ==
    /\ hrows' = Append(hrows, RowNow(step))
    /\ hpc' = hpc + 1
    /\ hown' = CASE step.do = "start" -> hown \cup {step.who}
                 [] step.do = "stop"  -> hown \ {step.who}
                 [] OTHER             -> hown
    /\ UNCHANGED <<hcase, hnoise, hlie, hstat>>

\* read_after_recovery: a read is rejected while the role moves, kept in the
\* history and sent again; a write never is.
RejectedRead(step) ==
    /\ step.do = "try" /\ hnoise < MaxNoise
    /\ hrows' = Append(hrows, [step EXCEPT !.ev = "READ_REJECTED", !.out = "NOT_READY"])
    /\ hnoise' = hnoise + 1
    /\ UNCHANGED <<hcase, hpc, hown, hlie, hstat>>

\* resume: a recovery write is refused, or its outcome is unknown; it stays in
\* the history and the next read may show it.
FreshRefused(step) ==
    /\ step.do = "fresh" /\ hnoise < MaxNoise
    /\ Cardinality(All(hrows, step)) + 1 < MaxAttempts
    /\ \E o \in {"NOT_SUBMITTED", "INDETERMINATE"}, shown \in 0..1 :
        /\ shown = 1 => o = "INDETERMINATE"
        /\ hrows' = hrows \o <<[RowNow(step) EXCEPT !.out = o], Num(FreshRead(step.gen), shown)>>
    /\ hnoise' = hnoise + 1
    /\ UNCHANGED <<hcase, hpc, hown, hlie, hstat>>

\* The processes do more than the script needs, and honestly so.
BackgroundRow ==
    /\ hnoise < MaxNoise
    /\ \E x \in NoiseOf[hcase] :
        /\ Some(hrows, x.after) /\ (x.row.do = "once" => ~Some(hrows, x.row))
        /\ hrows' = Append(hrows, x.row)
    /\ hnoise' = hnoise + 1
    /\ UNCHANGED <<hcase, hpc, hown, hlie, hstat>>

\* A process breaks its contract, in what it does and so in what it leaves.
BreakContract ==
    /\ Cardinality({hlie} \ {None}) < MaxBreaches
    /\ \E f \in BreachesOf[hcase] :
        /\ Some(hrows, f.row) /\ ~Some(hrows, f.unless)
        /\ hrows' = Forge(f, hrows)
        /\ hlie' = f
    /\ UNCHANGED <<hcase, hpc, hown, hnoise, hstat>>

\* wait_for gave up, a process exited early, a cleanup failed: the receipt is
\* saved as FAIL, after finally has stopped every worker it can.
ScenarioFails ==
    /\ hstat' = "FAIL" /\ hown' = {}
    /\ UNCHANGED <<hcase, hpc, hrows, hnoise, hlie>>

\* finally, then the validators and the negatives, then the status.
AuditRun ==
    /\ hown' = {}
    /\ hstat' = IF \A f \in {None} \cup NegativesOf[hcase] :
                      ValidRows(hcase, IF f = None THEN hrows ELSE Forge(f, hrows)) = (f = None)
                THEN "PASS" ELSE "REJECTED"
    /\ UNCHANGED <<hcase, hpc, hrows, hnoise, hlie>>

HNext ==
    hstat = "RUN" /\ \E script \in {ScriptOf[hcase]} :
        \/ /\ hpc <= Len(script)
           /\ \/ ScenarioStep(script[hpc]) \/ RejectedRead(script[hpc]) \/ FreshRefused(script[hpc])
              \/ BackgroundRow \/ ScenarioFails
        \/ /\ hpc = Len(script) + 1
           /\ BreakContract \/ AuditRun

-----------------------------------------------------------------------------
(* Properties. *)

\* A receipt says PASS exactly of the runs whose processes kept their contract:
\* no breach passes the validators, and no honest run is refused by them or by
\* its own negatives, whatever was retried and whatever else was honestly done.
VerdictMatches == hstat \in {"PASS", "REJECTED"} => (hstat = "PASS") = (hlie = None)
=============================================================================
