------------------------- MODULE ConfiguredWorkload -------------------------
(***************************************************************************)
(* The workload qualification of the configured-leader group (V5.0) and its *)
(* independent verifier, in four parts of one bundle: the fault cells, the  *)
(* paced calls with their commit timings, the control's publication order,  *)
(* and the retained authority.  The order of the rows is the order of their *)
(* times.                                                                   *)
(***************************************************************************)
EXTENDS ConfiguredPerformance

-----------------------------------------------------------------------------
(* cloud_workload_harness: the cells of one run, in order. *)

CellNames ==
    <<"healthy", "sustained", "unavailable", "slow", "incremental", "snapshot", "entry-cut", "proof-cut", "restart",
      "follower-replacement", "leader-replacement", "maintenance", "capacity", "no-quorum">>
CellStart(c) == Seen("CELL_START", c)
CellEnd(c) == SeenO("CELL", c, "PASS")
Injected(c) == <<SeenO("FAULT", c, CASE c \in {"unavailable", "incremental"} -> "disconnect" [] c = "slow" -> "delay" [] OTHER -> "lost-ack")>>
\* catchup: refused for capacity only, and only under a write quorum, before it is served.
CatchupLimit == 3       \* 20 attempts in the code
CaughtUp(c) == <<Try("CATCHUP", c)>>

CellCutFiles(c, held, commits) ==
    <<SeenO("BARRIER", c, IF c = "entry-cut" THEN "AFTER_ENTRY_QUORUM" ELSE "AFTER_PROOF_QUORUM"), Prop("MARKER", c, 3), Prop("KILLED", c, 5), Prop("MARKER_PID", c, 5), SeenO("EXCHANGE", c, "INDETERMINATE")>>
      \o [i \in 1..3 |-> Prop(IF c = "entry-cut" THEN "ENTRY_COMMIT" ELSE "PROOF_COMMIT", VoterAt(i), commits[i])] \o <<Prop("RECOVERED", c, held)>>
CellBody(c) ==
    CASE c \in {"unavailable", "incremental"} -> <<Frame("ISOLATED", c, 1, 2), Frame("ISOLATED", c, 2, 2)>> \o Injected(c) \o CaughtUp(c)
      [] c = "slow" -> Injected(c) \o CaughtUp(c)
      [] c = "snapshot" -> <<Prop("FOLLOWER_AT", c, 2), Prop("CHECKPOINT_AT", c, 4)>> \o Injected(c) \o CaughtUp(c)
      [] c = "entry-cut" -> CellCutFiles(c, 2, <<2, 2, 2>>)
      [] c = "proof-cut" -> CellCutFiles(c, 3, <<3, 3, 2>>)
      [] c = "restart" -> <<Frame("EPOCH", c, 1, 2), Frame("EPOCH", c, 2, 3), SeenO("REPLAYED_APPEND", c, "STALE_EPOCH")>>
      [] c = "leader-replacement" -> <<SeenO("ONE_SURVIVOR", c, "QUORUM_UNAVAILABLE"), SeenO("RECONSTRUCTED", c, "OK")>>
      [] c = "maintenance" -> <<Prop("EXPORTED", c, 1), Prop("BACKUP_SEQUENCE", c, 5), SeenO("BARRIER", c, "AFTER_PUBLIC_BACKUP"), SeenO("EXCHANGE", c, "INDETERMINATE"), SeenO("CANCELLED", c, "ACCEPTED"), SeenO("PUBLISHED", c, "KEPT")>>
      [] c = "capacity" -> <<Obs("row", "CHECKPOINT", c, 1, "OK", 0), Obs("row", "CHECKPOINT", c, 2, "CAPACITY_EXCEEDED", 0), Frame("SOURCES", c, 1, 1), Frame("SOURCES", c, 2, 1)>>
      [] c = "no-quorum" -> <<Frame("STATE", c, 1, 6), SeenO("WRITE", c, "QUORUM_UNAVAILABLE"), Frame("STATE", c, 2, 6)>>
      [] OTHER -> <<>>
CellsScript ==
    FlattenSeq([k \in DOMAIN CellNames |-> <<CellStart(CellNames[k])>> \o CellBody(CellNames[k]) \o <<CellEnd(CellNames[k])>>])
      \o <<Prop("RESTORED", "control", 5), Prop("EXPORTED", "after", 1), Prop("ORIGIN", "n1", 1), Prop("ORIGIN", "n2", 0), Prop("ORIGIN", "n3", 1)>>

\* validate_cells.
CutKept(rows, c, e) ==
    LET commits == [w \in ThreeVoters |-> Value(rows, e, w)]
        protected == Max(Range(commits))
        marker == Value(rows, "MARKER", c)
    IN /\ Exact(rows, SeenO("BARRIER", c, IF c = "entry-cut" THEN "AFTER_ENTRY_QUORUM" ELSE "AFTER_PROOF_QUORUM")) /\ Value(rows, "KILLED", c) = Value(rows, "MARKER_PID", c)
       /\ Value(rows, "RECOVERED", c) >= protected /\ Value(rows, "RECOVERED", c) = protected
       /\ IF c = "proof-cut" THEN Cardinality({w \in ThreeVoters : commits[w] >= marker}) >= 2 ELSE protected < marker
\* A command without an answer is only the last one of a process that was killed.
CellsValid(rows) ==
    LET ends == SelectSeq(rows, LAMBDA r : r.ev \in {"CELL_START", "CELL"})
        caughtUp(c) == One(rows, Try("CATCHUP", c))
    IN /\ [i \in DOMAIN ends |-> <<ends[i].ev, ends[i].who>>] = [i \in 1..(2 * Len(CellNames)) |-> <<IF i % 2 = 1 THEN "CELL_START" ELSE "CELL", CellNames[(i + 1) \div 2]>>]
       /\ \A i \in DOMAIN ends : ends[i].ev = "CELL" => ends[i].out = "PASS"
       /\ \A c \in {"unavailable", "slow", "incremental", "snapshot"} : caughtUp(c)
       /\ {"disconnect", "delay", "lost-ack"} = {rows[i].out : i \in {j \in DOMAIN rows : rows[j].ev = "FAULT"}}
       /\ \A c \in {"unavailable", "incremental"} : Epoch(rows, "ISOLATED", c, 1) = Epoch(rows, "ISOLATED", c, 2)
       /\ Value(rows, "CHECKPOINT_AT", "snapshot") > Value(rows, "FOLLOWER_AT", "snapshot")
       /\ CutKept(rows, "entry-cut", "ENTRY_COMMIT") /\ CutKept(rows, "proof-cut", "PROOF_COMMIT")
       /\ Epoch(rows, "EPOCH", "restart", 2) > Epoch(rows, "EPOCH", "restart", 1) /\ Exact(rows, SeenO("REPLAYED_APPEND", "restart", "STALE_EPOCH"))
       /\ Exact(rows, SeenO("ONE_SURVIVOR", "leader-replacement", "QUORUM_UNAVAILABLE")) /\ Exact(rows, SeenO("RECONSTRUCTED", "leader-replacement", "OK"))
       /\ Exact(rows, Prop("ORIGIN", "n1", 1)) /\ Exact(rows, Prop("ORIGIN", "n3", 1))
       /\ Agree(rows, "EXPORTED", {"maintenance", "after"}) /\ Value(rows, "BACKUP_SEQUENCE", "maintenance") = Value(rows, "RESTORED", "control")
       /\ Exact(rows, SeenO("CANCELLED", "maintenance", "ACCEPTED")) /\ Exact(rows, SeenO("PUBLISHED", "maintenance", "KEPT"))
       /\ LET tries == Indices(rows, "CHECKPOINT", "capacity")
          IN tries = 1..Top(tries) /\ Top(tries) \in 1..3 /\ Outcomes(rows, Frame("CHECKPOINT", "capacity", Top(tries), 0)) = {"CAPACITY_EXCEEDED"} /\ \A i \in 1..(Top(tries) - 1) : Outcomes(rows, Frame("CHECKPOINT", "capacity", i, 0)) = {"OK"}
       /\ Epoch(rows, "SOURCES", "capacity", 1) = Epoch(rows, "SOURCES", "capacity", 2)
       /\ Exact(rows, SeenO("WRITE", "no-quorum", "QUORUM_UNAVAILABLE")) /\ Epoch(rows, "STATE", "no-quorum", 1) = Epoch(rows, "STATE", "no-quorum", 2)
       /\ \A i \in DOMAIN rows : rows[i].ev = "EXCHANGE" => rows[i].out = "INDETERMINATE" /\ rows[i].who \in {"entry-cut", "proof-cut", "maintenance"}
CellsBreaches ==
    {Turn(CellEnd("slow"), "FAIL"), Drop(CellEnd("restart")), Early(CellStart("capacity")), Renumber(Frame("ISOLATED", "unavailable", 2, 0), 3), Turn(Seen("FAULT", "slow"), "disconnect"), Turn(Seen("FAULT", "snapshot"), "disconnect"),
     Drop(Try("CATCHUP", "incremental")), Renumber(Seen("CHECKPOINT_AT", "snapshot"), 2), Renumber(Seen("ENTRY_COMMIT", "n3"), 3), Renumber(Seen("PROOF_COMMIT", "n1"), 2), Renumber(Seen("RECOVERED", "proof-cut"), 2),
     Renumber(Seen("MARKER_PID", "entry-cut"), 6), Turn(Seen("BARRIER", "proof-cut"), "AFTER_ENTRY_QUORUM"), Renumber(Frame("EPOCH", "restart", 2, 0), 2), Turn(Seen("REPLAYED_APPEND", "restart"), "ACCEPTED"),
     Turn(Seen("ONE_SURVIVOR", "leader-replacement"), "OK"), Renumber(Seen("ORIGIN", "n3"), 0), Renumber(Seen("EXPORTED", "after"), 2), Renumber(Seen("RESTORED", "control"), 6), Turn(Seen("PUBLISHED", "maintenance"), "LOST"),
     Turn(Obs("row", "CHECKPOINT", "capacity", 2, "", 0), "OK"), Renumber(Frame("SOURCES", "capacity", 2, 0), 2), Turn(Seen("WRITE", "no-quorum"), "ACCEPTED"), Renumber(Frame("STATE", "no-quorum", 2, 0), 7)}

-----------------------------------------------------------------------------
(* The paced calls: two lanes in the sustained window. *)

PacedLanes == 2              \* 4 in the code
PacedCalls == 4
ReadAttemptLimit == 4
CallDispatch(i) == Frame("DISPATCH", "n1", i, 0)
BeforeSeen(i, k) == Frame("BEFORE", "n1", i, k)
CallFinished(i, k) == Frame("AFTER", "n1", i, k)
IsQuery(i) == i = 4
\* Calls 1 and 2 overlap, one in each lane; call 2 commits first and returns last.  Call 4
\* reads while call 3 commits, and reads again for a stable cut.
CommitOf(i, g) ==
    <<Obs("row", "FORCE", "n1", g, "ENTRY", i)>> \o [k \in 1..2 |-> Obs("row", "STAGE", "n1", k, CommitStages[k], i)] \o <<Obs("row", "FORCE", "n1", g, "PROOF", i)>>
      \o [k \in 1..5 |-> Obs("row", "STAGE", "n1", k + 2, CommitStages[k + 2], i)] \o <<Frame("COMMITTED", "n1", i, g)>>
ReadAttempt(k, before, after) == <<Frame("READ_BEFORE", "n1", k, before), Frame("READ_AFTER", "n1", k, after)>>
PacedScript ==
    <<CallDispatch(1), BeforeSeen(1, 0), CallDispatch(2), BeforeSeen(2, 0)>> \o CommitOf(2, 1) \o CommitOf(1, 2) \o <<CallFinished(1, 2), CallFinished(2, 2), CallDispatch(3), BeforeSeen(3, 2), CallDispatch(4)>>
      \o <<Frame("READ_BEFORE", "n1", 1, 2)>> \o CommitOf(3, 3) \o <<Frame("READ_AFTER", "n1", 1, 3)>> \o ReadAttempt(2, 3, 3) \o <<BeforeSeen(4, 3), Frame("ANSWER", "n1", 4, 3), CallFinished(4, 3), CallFinished(3, 3)>>
      \o <<Prop("MISSED", "schedule", 0), Prop("ANSWERED", "last-attempt", 3), SeenO("RESOURCES", "samples", "COVERED"), SeenO("OPERATIONS", "schedule", "PLANNED")>>

\* validate_read_attempts: at most four, only the last one stable, never going back.
ReadAttemptsValid(rows) ==
    LET tries == Indices(rows, "READ_BEFORE", "n1")
        last == Top(tries)
        before(k) == Epoch(rows, "READ_BEFORE", "n1", k)
        after(k) == Epoch(rows, "READ_AFTER", "n1", k)
    IN /\ tries = 1..last /\ Indices(rows, "READ_AFTER", "n1") = tries /\ last \in 1..ReadAttemptLimit
       /\ \A k \in tries : /\ before(k) <= after(k) /\ (before(k) = after(k)) = (k = last)
                           /\ First(rows, CallDispatch(4)) < First(rows, Frame("READ_BEFORE", "n1", k, 0)) /\ First(rows, Frame("READ_BEFORE", "n1", k, 0)) < First(rows, Frame("READ_AFTER", "n1", k, 0))
                           /\ k > 1 => after(k - 1) <= before(k) /\ First(rows, Frame("READ_AFTER", "n1", k - 1, 0)) < First(rows, Frame("READ_BEFORE", "n1", k, 0))
       /\ before(last) = Epoch(rows, "BEFORE", "n1", 4) /\ Exact(rows, Prop("ANSWERED", "last-attempt", Epoch(rows, "ANSWER", "n1", 4)))
\* validate_schedule, validate_resources: every planned call once, a lane free again before
\* its next dispatch, and no slot missed.
ScheduleValid(rows) ==
    /\ Exact(rows, Prop("MISSED", "schedule", 0)) /\ Exact(rows, SeenO("OPERATIONS", "schedule", "PLANNED")) /\ Exact(rows, SeenO("RESOURCES", "samples", "COVERED"))
    /\ \A i \in 1..PacedCalls : One(rows, CallDispatch(i)) /\ One(rows, BeforeSeen(i, 0)) /\ One(rows, CallFinished(i, 0)) /\ First(rows, CallDispatch(i)) < First(rows, CallFinished(i, 0))
    /\ \A i \in 1..PacedCalls : /\ i > 1 => First(rows, CallDispatch(i - 1)) < First(rows, CallDispatch(i))
                                /\ i > PacedLanes => First(rows, CallFinished(i - PacedLanes, 0)) < First(rows, CallDispatch(i))
                                /\ Epoch(rows, "BEFORE", "n1", i) <= Epoch(rows, "AFTER", "n1", i) /\ (IsQuery(i) => Epoch(rows, "BEFORE", "n1", i) = Epoch(rows, "AFTER", "n1", i))
    /\ ReadAttemptsValid(rows)
\* validate_raw: a success is the one committed entry of its payload inside its bracket, and a
\* read the state at its cut.
CallsProven(rows) ==
    /\ \A i \in 1..PacedCalls : ~IsQuery(i) => One(rows, Frame("COMMITTED", "n1", i, 0)) /\ Epoch(rows, "BEFORE", "n1", i) < Epoch(rows, "COMMITTED", "n1", i) /\ Epoch(rows, "COMMITTED", "n1", i) <= Epoch(rows, "AFTER", "n1", i)
    /\ Epoch(rows, "ANSWER", "n1", 4) = Epoch(rows, "BEFORE", "n1", 4)
\* validate_commit_timings: in writer order, the stages of an entry and its two forces lie in its call and
\* between one another, although the calls overlap.
CommitTimings(rows) ==
    LET stages == SelectSeq(rows, LAMBDA r : r.ev = "STAGE")
        forces == SelectSeq(rows, LAMBDA r : r.ev = "FORCE")
        callAt(k) == CHOOSE i \in 1..3 : Epoch(rows, "COMMITTED", "n1", i) = k
        at(e, o, i) == {j \in DOMAIN rows : rows[j].ev = e /\ rows[j].out = o /\ rows[j].n = i}
        one(e, o, i) == CHOOSE j \in at(e, o, i) : TRUE
    IN /\ {Epoch(rows, "COMMITTED", "n1", i) : i \in 1..3} = 1..3
       /\ [j \in DOMAIN stages |-> <<stages[j].out, stages[j].n>>] = [j \in 1..(3 * Len(CommitStages)) |-> <<CommitStages[1 + ((j - 1) % Len(CommitStages))], callAt(1 + ((j - 1) \div Len(CommitStages)))>>]
       /\ [j \in DOMAIN forces |-> <<forces[j].out, forces[j].n>>] = [j \in 1..6 |-> <<IF j % 2 = 1 THEN "ENTRY" ELSE "PROOF", callAt((j + 1) \div 2)>>]
       /\ \A k \in 1..3 : LET i == callAt(k)
                          IN /\ First(rows, CallDispatch(i)) < one("FORCE", "ENTRY", i) /\ one("FORCE", "ENTRY", i) < one("STAGE", CommitStages[1], i)
                             /\ one("STAGE", CommitStages[2], i) < one("FORCE", "PROOF", i) /\ one("FORCE", "PROOF", i) < one("STAGE", CommitStages[3], i)
                             /\ one("STAGE", CommitStages[7], i) < First(rows, CallFinished(i, 0))
                             /\ k > 1 => one("STAGE", CommitStages[7], callAt(k - 1)) < one("FORCE", "ENTRY", i)
PacedValid(rows) == ScheduleValid(rows) /\ CallsProven(rows) /\ CommitTimings(rows)
PacedBreaches ==
    {Renumber(Seen("MISSED", "schedule"), 1), Turn(Seen("OPERATIONS", "schedule"), "OTHER_KEYS"), Turn(Seen("RESOURCES", "samples"), "GAP"), Drop(CallDispatch(2)), Early(CallDispatch(3)), Early(CallFinished(2, 0)), Renumber(CallFinished(1, 0), 1),
     Renumber(BeforeSeen(1, 0), 2), Renumber(Frame("READ_BEFORE", "n1", 1, 0), 3), Renumber(Frame("READ_AFTER", "n1", 2, 0), 4), Renumber(Frame("ANSWER", "n1", 4, 0), 2), Early(Frame("READ_BEFORE", "n1", 2, 0)), Renumber(BeforeSeen(4, 0), 2),
     Drop(Frame("COMMITTED", "n1", 2, 0)), Renumber(Frame("COMMITTED", "n1", 3, 0), 2), Drop(Obs("row", "STAGE", "n1", 4, "", 0)), Early(Obs("row", "STAGE", "n1", 7, "", 0)), Drop(Obs("row", "FORCE", "n1", 2, "", 0)),
     Early(Obs("row", "FORCE", "n1", 1, "", 0)), Renumber(Obs("row", "FORCE", "n1", 3, "", 0), 1), Renumber(Seen("ANSWERED", "last-attempt"), 2)}

-----------------------------------------------------------------------------
(* control_views: the control has no proofs, so its order is found from the  *)
(* sequence brackets of its calls.  A call is a mutation of lane 1 or 2, or  *)
(* a query; the state is the writes of each lane.                            *)

ControlCalls == 6
ControlLane == <<1, 2, 1, 0, 2, 0>>          \* 0 is a query
ControlMutations == {i \in 1..ControlCalls : ControlLane[i] # 0}
ControlQueries == (1..ControlCalls) \ ControlMutations
ControlStart(i, b) == Frame("CONTROL_BEFORE", "control", i, b)
ControlAnswer(i, a) == <<Frame("CONTROL_AFTER", "control", i, a)>>
QueryAnswer(i, x) == Frame("CONTROL_STATE", "control", i, x)
\* Calls 2 and 3 overlap, one in each lane, with the same bracket; every query follows both.
ControlScript ==
    <<ControlStart(1, 0)>> \o ControlAnswer(1, 1) \o <<ControlStart(2, 1), ControlStart(3, 1)>> \o ControlAnswer(3, 3) \o ControlAnswer(2, 3)
      \o <<ControlStart(4, 3), QueryAnswer(4, 21)>> \o ControlAnswer(4, 3) \o <<ControlStart(5, 3)>> \o ControlAnswer(5, 4) \o <<ControlStart(6, 4), QueryAnswer(6, 22)>> \o ControlAnswer(6, 4)

\* The writer order: at each sequence, of the mutations whose bracket is open the one that closes first.
ControlOrder(rows) ==
    LET before(i) == Epoch(rows, "CONTROL_BEFORE", "control", i)
        after(i) == Epoch(rows, "CONTROL_AFTER", "control", i)
        earlier(i, j) == after(i) < after(j) \/ (after(i) = after(j) /\ (before(i) < before(j) \/ (before(i) = before(j) /\ i <= j)))
        open(taken, k) == {i \in ControlMutations : i \notin Range(taken) /\ before(i) < k}
        order[k \in 0..Cardinality(ControlMutations)] ==
            IF k = 0 THEN <<>>
            ELSE LET taken == order[k - 1]
                     pending == IF Len(taken) < k - 1 THEN {} ELSE {i \in open(taken, k) : \A j \in open(taken, k) : earlier(i, j)}
                 IN IF \E i \in pending : k <= after(i) THEN Append(taken, CHOOSE i \in pending : TRUE) ELSE taken
    IN order[Cardinality(ControlMutations)]
ControlStateAt(order, k) == LET writes(l) == Cardinality({j \in 1..k : ControlLane[order[j]] = l}) IN 10 * writes(1) + writes(2)
ControlValid(rows) ==
    LET before(i) == Epoch(rows, "CONTROL_BEFORE", "control", i)
        after(i) == Epoch(rows, "CONTROL_AFTER", "control", i)
        began(i) == First(rows, ControlStart(i, 0))
        ended(i) == First(rows, Frame("CONTROL_AFTER", "control", i, 0))
        order == ControlOrder(rows)
    IN /\ \A i \in 1..ControlCalls : One(rows, ControlStart(i, 0)) /\ One(rows, Frame("CONTROL_AFTER", "control", i, 0)) /\ began(i) < ended(i)
       /\ \A i \in 1..ControlCalls : before(i) <= after(i) /\ after(i) <= Cardinality(ControlMutations)
       /\ \A i, j \in 1..ControlCalls : ended(i) < began(j) => after(i) <= before(j)
       /\ Len(order) = Cardinality(ControlMutations)
       /\ \A i \in ControlQueries : before(i) = after(i) /\ One(rows, QueryAnswer(i, 0)) /\ Epoch(rows, "CONTROL_STATE", "control", i) = ControlStateAt(order, before(i))
ControlBreaches ==
    {Renumber(ControlStart(3, 0), 0), Renumber(Frame("CONTROL_AFTER", "control", 1, 0), 2), Renumber(Frame("CONTROL_AFTER", "control", 2, 0), 1), Drop(ControlStart(5, 0)), Early(Frame("CONTROL_AFTER", "control", 3, 0)),
     Renumber(QueryAnswer(4, 0), 20), Renumber(QueryAnswer(6, 0), 21), Renumber(ControlStart(4, 0), 2), Renumber(Frame("CONTROL_AFTER", "control", 5, 0), 5), Renumber(Frame("CONTROL_AFTER", "control", 5, 0), 3)}

-----------------------------------------------------------------------------
(* validate_raw: the observed frames and proofs against every retained      *)
(* authority.  Frame h carries payload h; the state is the sum of payloads. *)

FinalVoters == ThreeVoters
RetainedPaths == FinalVoters \cup {"lost", "cut", "capacity"}
RetainedCommit(p) == CASE p \in {"n1", "n2"} -> 3 [] p = "lost" -> 1 [] OTHER -> 2
WireFrame(h, previous) == Frame("FRAME", "ledger", h, previous)
WireProof(i, h) == Frame("WIRE_PROOF", "ledger", i, h)
Anchor(p, i, h) == Frame("ANCHOR", p, i, h)
AuthorityRows(p) ==
    <<SeenO("GENESIS", p, "CORPUS"), SeenO("BOUNDS", p, "PLANNED"), Prop("SNAPSHOT", p, 1), Prop("SNAPSHOT_STATE", p, 1)>> \o [i \in 1..RetainedCommit(p) |-> Anchor(p, i, i)]
MemberRow(w) == <<Start(w, 1), SeenO("READY", w, "PINNED")>>
LedgerScript ==
    <<SeenO("PLAN", "set", "REVIEWED"), Start("control", 1), SeenO("IDENTITY", "control", "PINNED"), Prop("PAIRED", "control", 6), Stop("control", "0")>> \o MemberRow("n1") \o MemberRow("n2") \o MemberRow("n3")
      \o <<Prop("PID", "n1", 1), Prop("PID", "n2", 2), Prop("PID", "n3", 3), Seen("MEASURE", "n1")>> \o [h \in 1..3 |-> WireFrame(h, h - 1)] \o [i \in 1..3 |-> WireProof(i, i)]
      \o <<Frame("CUT", "n1", 1, 2), Frame("CUT_STATE", "n1", 1, 3), Frame("PAGE", "n1", 1, 3), Frame("CUT", "n1", 2, 3), Frame("CUT_STATE", "n1", 2, 6), Frame("PAGE", "n1", 2, 6), Prop("SEQUENCE", "set", 3), Stop("n1", "0"), Stop("n2", "0"), Stop("n3", "0"),
           Start("restore", 1), SeenO("IDENTITY", "restore", "PINNED"), Prop("RESTORED_AT", "restore", 2), Prop("RESTORED_STATE", "restore", 3), Stop("restore", "0")>>
      \o FlattenSeq([k \in 1..6 |-> AuthorityRows(<<"n1", "n2", "n3", "lost", "cut", "capacity">>[k])])
      \o <<Prop("MEASUREMENTS", "summary", 6), Prop("MEASUREMENTS", "calls", 6), Prop("FILES", "envelope", 1), Prop("FILES", "before", 1), Prop("FILES", "after", 1), SeenO("INPUTS", "archive", "BOUND"), SeenO("JARS", "artifacts", "PRODUCTION"), Prop("BUNDLE", "before", 1), Prop("BUNDLE", "after", 1)>>

CommittedAt(rows, p) == Top(Indices(rows, "ANCHOR", p))
StateAt(rows, k) == FoldSet(+, 0, {Epoch(rows, "ANCHOR", "n1", i) : i \in 1..k})
\* inspect_authority: the reviewed genesis and bounds; a snapshot is the replay of its ancestry.
AuthorityInspected(rows, p) ==
    /\ Exact(rows, SeenO("GENESIS", p, "CORPUS")) /\ Exact(rows, SeenO("BOUNDS", p, "PLANNED"))
    /\ Indices(rows, "ANCHOR", p) = 1..CommittedAt(rows, p) /\ \A i \in 1..CommittedAt(rows, p) : One(rows, Anchor(p, i, 0))
    /\ Value(rows, "SNAPSHOT", p) \in 0..CommittedAt(rows, p) /\ Value(rows, "SNAPSHOT_STATE", p) = FoldSet(+, 0, {Epoch(rows, "ANCHOR", p, i) : i \in 1..Value(rows, "SNAPSHOT", p)})
\* One history: a prefix of the strongest final voter's, its payloads chained, its end proven.
HistoryProven(rows) ==
    LET strongest == CHOOSE w \in FinalVoters : \A v \in FinalVoters : CommittedAt(rows, w) >= CommittedAt(rows, v)
        length == CommittedAt(rows, strongest)
        at(i) == Epoch(rows, "ANCHOR", strongest, i)
    IN /\ \A p \in RetainedPaths : CommittedAt(rows, p) <= length /\ \A i \in 1..CommittedAt(rows, p) : Epoch(rows, "ANCHOR", p, i) = at(i)
       /\ \A i \in 1..length : One(rows, WireFrame(at(i), 0)) /\ Epoch(rows, "FRAME", "ledger", at(i)) = (IF i = 1 THEN 0 ELSE at(i - 1))
       /\ Some(rows, WireProof(length, 0)) /\ \A i \in Indices(rows, "WIRE_PROOF", "ledger") : Epoch(rows, "WIRE_PROOF", "ledger", i) = at(i)
       /\ Exact(rows, Prop("SEQUENCE", "set", length))
\* state_cuts: a cut is at a proven sequence, with every page of its state.
StateCuts(rows) ==
    /\ Indices(rows, "PAGE", "n1") = Indices(rows, "CUT", "n1")
    /\ \A l \in Indices(rows, "CUT", "n1") :
         LET k == Epoch(rows, "CUT", "n1", l)
         IN One(rows, Frame("CUT", "n1", l, 0)) /\ k <= CommittedAt(rows, "n1") /\ Epoch(rows, "CUT_STATE", "n1", l) = StateAt(rows, k) /\ Epoch(rows, "PAGE", "n1", l) = StateAt(rows, k)
\* Each process is the reviewed one, alive as it must be around the others.
LifetimesKept(rows) ==
    /\ \A w \in FinalVoters : /\ Exact(rows, SeenO("READY", w, "PINNED")) /\ Exact(rows, Stop(w, "0")) /\ First(rows, Seen("STARTED", w)) < First(rows, Seen("READY", w)) /\ First(rows, Seen("READY", w)) < First(rows, Seen("MEASURE", "n1"))
                              /\ First(rows, Seen("MEASURE", "n1")) < First(rows, Seen("STOPPED", w)) /\ First(rows, Seen("STOPPED", "control")) < First(rows, Seen("STARTED", w)) /\ First(rows, Seen("STOPPED", w)) < First(rows, Seen("STARTED", "restore"))
    /\ Cardinality({Value(rows, "PID", w) : w \in FinalVoters}) = 3
    /\ \A w \in {"control", "restore"} : Exact(rows, SeenO("IDENTITY", w, "PINNED")) /\ Exact(rows, Stop(w, "0"))
LedgerValid(rows) ==
    /\ Exact(rows, SeenO("PLAN", "set", "REVIEWED")) /\ Agree(rows, "FILES", {"envelope", "before", "after"}) /\ Exact(rows, SeenO("INPUTS", "archive", "BOUND")) /\ Exact(rows, SeenO("JARS", "artifacts", "PRODUCTION"))
    /\ \A p \in RetainedPaths : AuthorityInspected(rows, p)
    /\ HistoryProven(rows) /\ StateCuts(rows) /\ LifetimesKept(rows)
    /\ Value(rows, "PAIRED", "control") = Epoch(rows, "CUT_STATE", "n1", 2)
    /\ LET k == Value(rows, "RESTORED_AT", "restore") IN k \in 0..CommittedAt(rows, "n1") /\ Value(rows, "RESTORED_STATE", "restore") = StateAt(rows, k)
    /\ Agree(rows, "MEASUREMENTS", {"summary", "calls"}) /\ Agree(rows, "BUNDLE", {"before", "after"})
LedgerBreaches ==
    {Turn(Seen("PLAN", "set"), "CHANGED"), Renumber(Anchor("n3", 2, 0), 3), Renumber(Anchor("lost", 1, 0), 2), Drop(WireFrame(2, 0)), Renumber(WireFrame(3, 0), 1), Drop(WireProof(3, 0)), Renumber(WireProof(2, 0), 3), Renumber(Seen("SEQUENCE", "set"), 2),
     Renumber(Seen("SNAPSHOT_STATE", "cut"), 2), Renumber(Seen("SNAPSHOT", "n2"), 2), Turn(Seen("GENESIS", "capacity"), "OTHER"), Turn(Seen("BOUNDS", "n1"), "OTHER"), Renumber(Frame("CUT", "n1", 1, 0), 3), Drop(Frame("PAGE", "n1", 2, 0)), Renumber(Frame("PAGE", "n1", 1, 0), 6),
     Turn(Seen("READY", "n2"), "OTHER_JAR"), Turn(Stop("n3", "0"), "-9"), Renumber(Seen("PID", "n3"), 2), Early(Seen("STARTED", "n1")), Early(Seen("STARTED", "restore")), Early(Seen("MEASURE", "n1")), Turn(Seen("IDENTITY", "restore"), "OTHER_JAR"), Renumber(Seen("PAIRED", "control"), 3),
     Renumber(Seen("RESTORED_AT", "restore"), 4), Renumber(Seen("RESTORED_STATE", "restore"), 6), Renumber(Seen("MEASUREMENTS", "summary"), 5), Renumber(Seen("FILES", "after"), 2), Renumber(Seen("BUNDLE", "after"), 2), Turn(Seen("INPUTS", "archive"), "OTHER"), Turn(Seen("JARS", "artifacts"), "PROBE_LEAKED")}

-----------------------------------------------------------------------------
(* The configured-leader harnesses as cases of the matrix. *)

ConfiguredCases ==
    UNION {{Case("conf-storage", b) : b \in StorageCuts}, {Case("conf-bootstrap", b) : b \in BootstrapCuts}, {Case("conf-cleanup", b) : b \in CleanupCuts},
           {Case("conf-replacement", b) : b \in VoterReplacementCuts}, {Case("conf-leader", b) : b \in LeaderCuts},
           {Case("conf-recovery", b) : b \in CheckpointCuts \cup LeaderMutationCuts \cup TransferCuts}, {Case("conf-hardening", x) : x \in HardeningCases},
           {Case("conf-admission", b) : b \in AdmissionBases}, {Case("conf-cloud", p) : p \in LifecycleProfiles}, {Case("conf-roundtrip", x) : x \in RoundtripMinors},
           {Case("conf-lost", k) : k \in LostKinds}, {Case("conf-runtime", b) : b \in RuntimeCuts},
           {Case("conf-single", x) : x \in {"ownership", "writers", "generation", "import", "gate", "availability", "replaced", "process", "replica", "java"}},
           {Case("conf-workload", x) : x \in {"probe", "cells", "paced", "control", "ledger"}}}
ConfiguredFamilies == {c.family : c \in ConfiguredCases}

SingleScript(x) ==
    CASE x = "ownership" -> OwnershipScript [] x = "writers" -> WritersScript [] x = "generation" -> GenerationScript [] x = "import" -> PublishedImportScript [] x = "gate" -> GateScript
      [] x = "availability" -> AvailabilityScript [] x = "replaced" -> ReplacedScript [] x = "process" -> ProcessScript [] x = "replica" -> FrozenReplicaScript [] x = "java" -> JavaGateScript
      [] x = "probe" -> ProbeScript [] x = "cells" -> CellsScript [] x = "paced" -> PacedScript [] x = "control" -> ControlScript [] x = "ledger" -> LedgerScript
SingleValid(x, rows) ==
    CASE x = "ownership" -> OwnershipValid(rows) [] x = "writers" -> WritersValid(rows) [] x = "generation" -> GenerationValid(rows) [] x = "import" -> PublishedImportValid(rows) [] x = "gate" -> GateValid(rows)
      [] x = "availability" -> AvailabilityValid(rows) [] x = "replaced" -> ReplacedValid(rows) [] x = "process" -> ProcessValid(rows) [] x = "replica" -> FrozenReplicaValid(rows) [] x = "java" -> JavaGateValid(rows)
      [] x = "probe" -> ProbeValid(rows) [] x = "cells" -> CellsValid(rows) [] x = "paced" -> PacedValid(rows) [] x = "control" -> ControlValid(rows) [] x = "ledger" -> LedgerValid(rows)
SingleBreaches(x) ==
    CASE x = "ownership" -> OwnershipBreaches [] x = "writers" -> WritersBreaches [] x = "generation" -> GenerationBreaches [] x = "import" -> PublishedImportBreaches [] x = "gate" -> GateBreaches
      [] x = "availability" -> AvailabilityBreaches [] x = "replaced" -> ReplacedBreaches [] x = "process" -> ProcessBreaches [] x = "replica" -> FrozenReplicaBreaches [] x = "java" -> JavaGateBreaches
      [] x = "probe" -> ProbeBreaches [] x = "cells" -> CellsBreaches [] x = "paced" -> PacedBreaches [] x = "control" -> ControlBreaches [] x = "ledger" -> LedgerBreaches

ConfiguredScript(c) ==
    CASE c.family = "conf-storage" -> StorageCutScript(c.cut) [] c.family = "conf-bootstrap" -> BootstrapScript(c.cut) [] c.family = "conf-cleanup" -> CleanupScript(c.cut)
      [] c.family = "conf-replacement" -> VoterReplacementScript(c.cut) [] c.family = "conf-leader" -> LeaderCutScript(c.cut) [] c.family = "conf-recovery" -> RecoveryCutScript(c.cut)
      [] c.family = "conf-hardening" -> FaultScript(c.cut) [] c.family = "conf-admission" -> AdmissionScript(c.cut) [] c.family = "conf-cloud" -> CloudLifecycleScript(c.cut)
      [] c.family = "conf-roundtrip" -> RoundtripScript(c.cut) [] c.family = "conf-lost" -> LostResponseScript(c.cut) [] c.family = "conf-runtime" -> RuntimeCutScript(c.cut) [] OTHER -> SingleScript(c.cut)
ConfiguredValid(c, rows) ==
    CASE c.family = "conf-storage" -> StorageCutValid(c.cut, rows) [] c.family = "conf-bootstrap" -> BootstrapValid(c.cut, rows) [] c.family = "conf-cleanup" -> CleanupValid(c.cut, rows)
      [] c.family = "conf-replacement" -> VoterReplacementValid(c.cut, rows) [] c.family = "conf-leader" -> LeaderCutValid(c.cut, rows) [] c.family = "conf-recovery" -> RecoveryCutValid(c.cut, rows)
      [] c.family = "conf-hardening" -> FaultValid(c.cut, rows) [] c.family = "conf-admission" -> AdmissionValid(rows) [] c.family = "conf-cloud" -> CloudLifecycleValid(c.cut, rows)
      [] c.family = "conf-roundtrip" -> RoundtripValid(c.cut, rows) [] c.family = "conf-lost" -> LostResponseValid(c.cut, rows) [] c.family = "conf-runtime" -> RuntimeCutValid(c.cut, rows) [] OTHER -> SingleValid(c.cut, rows)
ConfiguredBreaches(c) ==
    CASE c.family = "conf-storage" -> StorageCutBroken(c.cut) [] c.family = "conf-bootstrap" -> BootstrapBreaches(c.cut) [] c.family = "conf-cleanup" -> CleanupBreaches(c.cut)
      [] c.family = "conf-replacement" -> VoterReplacementBreaches(c.cut) [] c.family = "conf-leader" -> LeaderCutBreaches(c.cut) [] c.family = "conf-recovery" -> RecoveryCutBreaches(c.cut)
      [] c.family = "conf-hardening" -> FaultBreaches(c.cut) [] c.family = "conf-admission" -> AdmissionBreaches(c.cut) [] c.family = "conf-cloud" -> CloudLifecycleBreaches(c.cut)
      [] c.family = "conf-roundtrip" -> RoundtripBreaches(c.cut) [] c.family = "conf-lost" -> LostResponseBreaches(c.cut) [] c.family = "conf-runtime" -> RuntimeCutBreaches(c.cut) [] OTHER -> SingleBreaches(c.cut)
ConfiguredNoise(c) == CASE c.family = "conf-leader" -> LeaderNoise(c.cut) [] c.family = "conf-runtime" -> RuntimeCutNoise(c.cut) [] OTHER -> {}
=============================================================================
