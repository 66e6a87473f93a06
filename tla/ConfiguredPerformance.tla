------------------------ MODULE ConfiguredPerformance ------------------------
(***************************************************************************)
(* The bounded performance probe of the configured-leader group (V5.0) and  *)
(* its independent verifier.  A control process measures first, then three  *)
(* members, then a restore; a member's row is one exchange with it, and the *)
(* order of the rows is the order of their times.                           *)
(***************************************************************************)
EXTENDS ConfiguredQualification

ProbeWindows == 2       \* baseline and instrumented (two of each in the code)
SeededSequence == 4             \* the sequence of the imported corpus
FinalCommit == 4        \* activation and one mutation per window (73 in the code)
HeapLimit == 4
PendingLimit == 2

Exchange(w, k, command, outcome) == Obs("row", command, w, k, outcome, 0)
\* A window is a mutation and a read (ten operations in the code); the third is instrumented.
CallStart(w, i) == Frame("CALL_START", w, i, 0)
CallEnd(w, i) == Frame("CALL", w, i, SeededSequence + (i + 1) \div 2)
MutatingCall(i) == i % 2 = 1
Instrumented(i) == i > 4
WindowCalls(k) == {2 * k - 1, 2 * k}

\* The barriers a successful mutation passes, in order.
CommitStages == <<"AFTER_LOCAL_ENTRY_FORCE", "AFTER_ENTRY_QUORUM", "AFTER_LOCAL_PROOF_FORCE", "AFTER_PROOF_QUORUM",
            "BEFORE_APPLICATION_PUBLICATION", "AFTER_APPLICATION_PUBLICATION", "BEFORE_CLIENT_SUCCESS">>
StageRow(k) == Obs("row", "STAGE", "n1", k, CommitStages[k], 0)
ForceTiming(k) == Obs("row", "FORCE", "n1", k, <<"ENTRY", "PROOF">>[k], 0)
CommitObserved == <<ForceTiming(1)>> \o [k \in 1..2 |-> StageRow(k)] \o <<ForceTiming(2)>> \o [k \in 1..5 |-> StageRow(k + 2)]

ControlWindow(k) == <<CallStart("control", 2 * k - 1), CallEnd("control", 2 * k - 1), CallStart("control", 2 * k), CallEnd("control", 2 * k)>>
MeasuredWindow(k) ==
    <<CallStart("n1", 2 * k - 1)>> \o (IF Instrumented(2 * k - 1) THEN CommitObserved ELSE <<>>) \o <<CallEnd("n1", 2 * k - 1), CallStart("n1", 2 * k), CallEnd("n1", 2 * k)>>
Telemetry(w, k) == Obs("row", "TELEMETRY", w, k, IF k = 2 THEN "ENABLED" ELSE "DISABLED", IF k = 2 THEN 3 ELSE 0)

\* Run.process and Worker: a receipt of every process, its own identity in it.
ProcessReceipt(w, pid) == <<Prop("PID", w, pid), Prop("READY_PID", w, pid), SeenO("IDENTITY", w, "PINNED"), Prop("HEAP", w, 3), Prop("PENDING", w, 1)>>

\* run: every worker is configured, the leader measures, telemetry is taken, and the
\* faulted write comes after both followers closed.
ProbeScript ==
    <<SeenO("PLAN", "set", "REVIEWED"), Prop("SOURCE_INPUTS", "before", 1), Prop("BACKUP_FILES", "before", 1), Start("control", 1)>> \o ProcessReceipt("control", 4)
      \o ControlWindow(1) \o ControlWindow(2) \o ControlWindow(3) \o <<Prop("SEMANTIC", "control", 7), Stop("control", "0")>>
      \o StartVoters \o ProcessReceipt("n1", 1) \o ProcessReceipt("n2", 2) \o ProcessReceipt("n3", 3)
      \o <<Exchange("n1", 1, "activate", "OK"), Exchange("n1", 1, "measure", "OK")>> \o MeasuredWindow(1)
      \o <<Exchange("n1", 1, "configure", "OK"), Exchange("n2", 1, "configure", "OK"), Exchange("n3", 1, "configure", "OK"), Exchange("n1", 2, "measure", "OK")>> \o MeasuredWindow(2)
      \o <<Telemetry("n1", 1), Telemetry("n2", 1), Telemetry("n3", 1), Exchange("n1", 2, "configure", "OK"), Exchange("n2", 2, "configure", "OK"), Exchange("n3", 2, "configure", "OK"), Exchange("n1", 3, "measure", "OK")>>
      \o MeasuredWindow(3) \o <<Telemetry("n1", 2), Telemetry("n2", 2), Telemetry("n3", 2), Exchange("n1", 3, "configure", "OK"), Exchange("n2", 3, "configure", "OK"), Exchange("n3", 3, "configure", "OK"), Exchange("n1", 1, "semantic", "OK"), Prop("SEMANTIC", "before-fault", 7),
           Exchange("n1", 1, "catchup", "OK"), Exchange("n1", 2, "catchup", "OK"), Exchange("n1", 1, "checkpoint", "OK"), Exchange("n2", 1, "checkpoint", "OK"), Exchange("n3", 1, "checkpoint", "OK"), Exchange("n1", 1, "backup", "OK"),
           Stop("n2", "0"), Stop("n3", "0"), Obs("row", "no-quorum", "n1", 1, "QUORUM_UNAVAILABLE", FinalCommit), Exchange("n1", 2, "semantic", "OK"), Prop("SEMANTIC", "after-fault", 7), Stop("n1", "0"),
           Start("restore", 1)>> \o ProcessReceipt("restore", 5) \o <<Prop("SEMANTIC", "restore", 7), Stop("restore", "0"), Prop("BACKUP_FILES", "after", 1), Prop("SOURCE_INPUTS", "after", 1)>>
      \o [i \in 1..3 |-> Prop("COMMITTED", VoterAt(i), FinalCommit)] \o [i \in 1..3 |-> Prop("LAST", VoterAt(i), FinalCommit + (IF i = 1 THEN 1 ELSE 0))]
      \o [i \in 1..3 |-> Prop("SNAPSHOT_AT", VoterAt(i), FinalCommit)] \o [i \in 1..3 |-> Prop("DOCUMENTS", VoterAt(i), 7)] \o [i \in 1..3 |-> Prop("ANCESTRY", VoterAt(i), 1)]
      \o [i \in 1..3 |-> SeenO("CONFIGURATION", VoterAt(i), "PLANNED")]
      \o <<Prop("SUMMARY", "measurements", 8), Prop("FILES", "envelope", 1), Prop("FILES", "before", 1), Prop("FILES", "after", 1), SeenO("JSON", "members", "READ"), SeenO("JARS", "artifacts", "PRODUCTION")>>

-----------------------------------------------------------------------------
(* performance_evidence. *)

\* The exchanges of a member, in the order they were sent; its close is its stop.
MemberSchedule(w) ==
    IF w = "n1" THEN <<"activate", "measure", "configure", "measure", "TELEMETRY", "configure", "measure", "TELEMETRY", "configure", "semantic", "catchup", "catchup", "checkpoint", "backup", "no-quorum", "semantic">>
    ELSE <<"configure", "TELEMETRY", "configure", "TELEMETRY", "configure", "checkpoint">>
Commands == Range(MemberSchedule("n1"))
SentTo(rows, w) == LET sent == SelectSeq(rows, LAMBDA r : r.who = w /\ r.ev \in Commands) IN [i \in DOMAIN sent |-> sent[i].ev]

\* identity, resources: the process that answers is the one that was started.
IdentityRead(rows, w) ==
    /\ Value(rows, "PID", w) = Value(rows, "READY_PID", w) /\ Exact(rows, SeenO("IDENTITY", w, "PINNED")) /\ Exact(rows, Stop(w, "0")) /\ Before(rows, Seen("STARTED", w), Seen("STOPPED", w))
ResourcesRead(rows, w) == Value(rows, "HEAP", w) \in 1..HeapLimit /\ Value(rows, "PENDING", w) \in 0..PendingLimit
\* member: its schedule, inside its lifetime, every command but the faulted one accepted.
MemberRead(rows, w) ==
    /\ IdentityRead(rows, w) /\ ResourcesRead(rows, w) /\ SentTo(rows, w) = MemberSchedule(w)
    /\ \A i \in DOMAIN rows : rows[i].who = w /\ rows[i].ev \in Commands \ {"TELEMETRY"} =>
         /\ First(rows, Seen("READY_PID", w)) < i /\ i < First(rows, Seen("STOPPED", w))
         /\ (rows[i].out = "OK") = (rows[i].ev # "no-quorum")
\* windows, duration: the model's calls, each with its sequence, one after another.
WindowsRead(rows, w) ==
    /\ \A i \in 1..6 : /\ One(rows, CallStart(w, i)) /\ Exact(rows, CallEnd(w, i)) /\ First(rows, CallStart(w, i)) < First(rows, CallEnd(w, i))
                       /\ i > 1 => First(rows, CallEnd(w, i - 1)) < First(rows, CallStart(w, i))
    /\ Indices(rows, "CALL", w) = 1..6
\* Each window's calls lie between its command and the leader's next.
AfterWindow(k) == IF k = 1 THEN Frame("configure", "n1", 1, 0) ELSE Frame("TELEMETRY", "n1", k - 1, 0)
WindowsBound(rows) ==
    \A k \in 1..3 : \A i \in WindowCalls(k) : First(rows, Exchange("n1", k, "measure", "OK")) < First(rows, CallStart("n1", i)) /\ First(rows, CallEnd("n1", i)) < First(rows, AfterWindow(k))
\* Disabled telemetry saw nothing; enabled, a mutation of the leader has its two forces
\* and every stage in order inside its call.
Inside(rows, i, e) == SelectSeq(SubSeq(rows, First(rows, CallStart("n1", i)), First(rows, CallEnd("n1", i))), LAMBDA r : r.ev = e)
TelemetryRead(rows) ==
    /\ \A w \in ThreeVoters, k \in 1..ProbeWindows : One(rows, Telemetry(w, k)) /\ LET t == rows[First(rows, Telemetry(w, k))] IN t.out = Telemetry(w, k).out /\ (t.n > 0) = (t.out = "ENABLED")
    /\ \A i \in 1..6 : LET stages == Inside(rows, i, "STAGE")
                           forces == Inside(rows, i, "FORCE")
                       IN IF MutatingCall(i) /\ Instrumented(i)
                          THEN [k \in DOMAIN stages |-> stages[k].out] = CommitStages /\ [k \in DOMAIN forces |-> forces[k].out] = <<"ENTRY", "PROOF">>
                          ELSE stages = <<>> /\ forces = <<>>
    /\ Cardinality(RowsAt(rows, "FORCE", "n1")) = 2 /\ Cardinality(RowsAt(rows, "STAGE", "n1")) = Len(CommitStages)
\* selected_state: the proven boundary, and the leader's one indeterminate entry.
FinalState(rows, w) ==
    /\ Exact(rows, Prop("COMMITTED", w, FinalCommit)) /\ Exact(rows, Prop("SNAPSHOT_AT", w, FinalCommit)) /\ Exact(rows, Prop("LAST", w, FinalCommit + (IF w = "n1" THEN 1 ELSE 0)))
    /\ Value(rows, "DOCUMENTS", w) = Value(rows, "SEMANTIC", "control") /\ Exact(rows, SeenO("CONFIGURATION", w, "PLANNED"))
\* validate.
ProbeValid(rows) ==
    /\ Exact(rows, SeenO("PLAN", "set", "REVIEWED")) /\ Exact(rows, SeenO("JSON", "members", "READ")) /\ Exact(rows, SeenO("JARS", "artifacts", "PRODUCTION"))
    /\ Agree(rows, "FILES", {"envelope", "before", "after"}) /\ Agree(rows, "BACKUP_FILES", {"before", "after"}) /\ Agree(rows, "SOURCE_INPUTS", {"before", "after"})
    /\ \A w \in ThreeVoters : MemberRead(rows, w)
    /\ \A w \in {"control", "restore"} : IdentityRead(rows, w)
    /\ WindowsRead(rows, "control") /\ WindowsRead(rows, "n1")
    /\ Cardinality({Value(rows, "PID", w) : w \in ThreeVoters}) = 3
    /\ \A w \in ThreeVoters : First(rows, Seen("STOPPED", "control")) < First(rows, Seen("STARTED", w)) /\ First(rows, Seen("STOPPED", w)) < First(rows, Seen("STARTED", "restore"))
    /\ \A w \in ThreeVoters : First(rows, Seen("READY_PID", w)) < First(rows, Exchange("n1", 1, "measure", "OK")) /\ First(rows, CallEnd("n1", 6)) < First(rows, Seen("STOPPED", w))
    /\ WindowsBound(rows) /\ TelemetryRead(rows)
    /\ Agree(rows, "SEMANTIC", {"control", "before-fault", "after-fault", "restore"}) /\ Exact(rows, Prop("SEMANTIC", "control", 7))
    /\ Exact(rows, Obs("row", "no-quorum", "n1", 1, "QUORUM_UNAVAILABLE", FinalCommit)) /\ \A w \in {"n2", "n3"} : First(rows, Seen("STOPPED", w)) < First(rows, Exchange("n1", 1, "no-quorum", ""))
    /\ \A w \in ThreeVoters : FinalState(rows, w)
    /\ Agree(rows, "ANCESTRY", ThreeVoters)
    /\ Value(rows, "SUMMARY", "measurements") = Cardinality({i \in DOMAIN rows : rows[i].ev = "CALL" /\ rows[i].gen > 2})
ProbeBreaches ==
    {Drop(Exchange("n1", 2, "catchup", "OK")), Early(Exchange("n2", 1, "checkpoint", "OK")), Turn(Exchange("n1", 1, "backup", "OK"), "REFUSED"), Renumber(Seen("READY_PID", "n2"), 1), Turn(Seen("IDENTITY", "n3"), "OTHER_JAR"),
     Turn(Stop("n3", "0"), "-9"), Renumber(Seen("HEAP", "n2"), 5), Renumber(Seen("PENDING", "n1"), 3), Early(Seen("STARTED", "n1")), Early(Seen("STARTED", "restore")), Renumber(CallEnd("n1", 3), 5), Drop(CallEnd("control", 4)),
     Early(CallEnd("n1", 5)), Early(CallStart("n1", 4)), Renumber(Telemetry("n2", 1), 3), Renumber(Telemetry("n3", 2), 0), Turn(Telemetry("n1", 2), "DISABLED"), Drop(StageRow(4)), Early(StageRow(7)), Turn(StageRow(2), "AFTER_PROOF_QUORUM"),
     Drop(ForceTiming(1)), Early(ForceTiming(2)), Renumber(Seen("SEMANTIC", "after-fault"), 8), Renumber(Seen("SEMANTIC", "restore"), 6), Turn(Exchange("n1", 1, "no-quorum", ""), "OK"), Renumber(Exchange("n1", 1, "no-quorum", ""), 5),
     Early(Exchange("n1", 1, "no-quorum", "")), Renumber(Seen("COMMITTED", "n2"), 3), Renumber(Seen("LAST", "n1"), FinalCommit), Renumber(Seen("LAST", "n3"), FinalCommit + 1), Renumber(Seen("ANCESTRY", "n3"), 2),
     Renumber(Seen("DOCUMENTS", "n2"), 6), Renumber(Seen("SUMMARY", "measurements"), 6), Renumber(Seen("FILES", "after"), 2), Renumber(Seen("BACKUP_FILES", "after"), 2), Turn(Seen("PLAN", "set"), "CHANGED"),
     Turn(Seen("JSON", "members"), "DUPLICATE_KEY"), Turn(Seen("JARS", "artifacts"), "PROBE_LEAKED"), Turn(Seen("CONFIGURATION", "n1"), "OTHER"), Drop(Stop("n2", "0"))}
=============================================================================
