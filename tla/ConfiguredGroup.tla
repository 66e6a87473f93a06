--------------------------- MODULE ConfiguredGroup ---------------------------
(***************************************************************************)
(* The harnesses that run three configured-leader voters (V5.0) as owned    *)
(* processes: the leader path, recovery and replacement, hardening with     *)
(* lost, held and replayed frames, and the public runtime.  Each ends in an *)
(* oracle over the voters' closed files and what their processes answered.  *)
(***************************************************************************)
EXTENDS ConfiguredDisk, SequencesExt

StartVoters == [k \in 1..3 |-> Start(VoterAt(k), 1)]

-----------------------------------------------------------------------------
(* leader_harness: a mutation is cut at one of seven barriers. *)

LeaderCuts ==
    {"AFTER_LOCAL_ENTRY_FORCE", "AFTER_ENTRY_QUORUM", "AFTER_LOCAL_PROOF_FORCE", "AFTER_PROOF_QUORUM",
     "BEFORE_APPLICATION_PUBLICATION", "AFTER_APPLICATION_PUBLICATION", "BEFORE_CLIENT_SUCCESS"}
LeaderPublished(b) == b \in {"AFTER_APPLICATION_PUBLICATION", "BEFORE_CLIENT_SUCCESS"}
ProvenBy(b) ==
    CASE b \in {"AFTER_LOCAL_ENTRY_FORCE", "AFTER_ENTRY_QUORUM"} -> {} [] b = "AFTER_LOCAL_PROOF_FORCE" -> {"n1"} [] OTHER -> {"n1", "n2"}
HeldBy(b) == IF b = "AFTER_LOCAL_ENTRY_FORCE" THEN {"n1"} ELSE {"n1", "n2"}

\* validate of leader_oracle: the production files replayed through the safety
\* model.  An epoch starts with a NO_OP, which is no application entry.
LeaderOracle(rows, successes) ==
    LET log == Indices(rows, "ENTRY", "n1")
        epoch(i) == Epoch(rows, "ENTRY", "n1", i)
        holders(i) == {w \in ThreeVoters : i \in Indices(rows, "ENTRY", w)}
        proven(i)  == {w \in ThreeVoters : i \in Indices(rows, "PROOF", w)}
        commit == Top({i \in log : Cardinality(proven(i)) >= 2})
        applied(w) == Value(rows, "APPLIED", w)
        noops(k) == Cardinality({epoch(i) : i \in 1..k})
    IN /\ \A w \in ThreeVoters : One(rows, Seen("APPLIED", w)) /\ VoterInspected(rows, w)
       /\ \A i \in log, w \in ThreeVoters : w \in holders(i) => Epoch(rows, "ENTRY", w, i) = epoch(i)
       /\ \A i \in log : (i = 1 \/ epoch(i) # epoch(i - 1)) => Cardinality(holders(i)) >= 2      \* promise
       /\ \A i \in log : \A v, w \in proven(i) : Epoch(rows, "PROOF", v, i) = Epoch(rows, "PROOF", w, i)
       /\ \A i \in log : proven(i) \subseteq holders(i) /\ (proven(i) # {} => Cardinality(holders(i)) >= 2)
       /\ \A i \in 1..commit : Cardinality(proven(i)) >= 2
       /\ successes \subseteq 1..commit
       /\ \A w \in ThreeVoters :
            /\ applied(w) <= commit /\ 1..applied(w) \subseteq Indices(rows, "ENTRY", w)
            /\ \E i \in Indices(rows, "PROOF", w) : applied(w) <= i /\ i <= commit
            /\ Value(rows, "SEQUENCE", w) = applied(w) - noops(applied(w))
       /\ \A i \in successes : i <= applied("n1")

LeaderFiles(w, epochs, proofs) ==
    <<Prop("MANIFEST", w, 1), Prop("NODE", w, 1), PromiseFrame(w, 1, 2), Prop("READY", w, 1)>>
      \o (IF Max(Range(epochs)) > 2 THEN <<PromiseFrame(w, 2, 3)>> ELSE <<>>)
      \o [i \in DOMAIN epochs |-> Logged(w, i, epochs[i])] \o [i \in 1..proofs |-> Proven(w, i, 2)]

\* run_case at a barrier: the marker is the leader's, the client has no answer.
LeaderCutScript(b) ==
    LET has(w) == IF w \in HeldBy(b) THEN <<2, 2>> ELSE <<2>>
        proofs(w) == IF w \in ProvenBy(b) THEN 2 ELSE 1
        state(w, k) == <<Prop("APPLIED", w, k), Prop("SEQUENCE", w, k - 1)>>
    IN StartVoters \o <<SeenO("ACTIVATE", "n1", "ACCEPTED"), Prop("INITIAL", "n1", 0), SeenO("BARRIER", "n1", b), SeenO("RESPONSE", "n1", "HELD"), Stop("n1", "-9")>>
         \o state("n1", IF LeaderPublished(b) THEN 2 ELSE 1) \o state("n2", IF LeaderPublished(b) /\ b = "BEFORE_CLIENT_SUCCESS" THEN 2 ELSE 1) \o state("n3", 1)
         \o <<Stop("n2", "0"), Stop("n3", "0"), Prop("DIGEST", "before", 1)>>
         \o LeaderFiles("n1", has("n1"), proofs("n1")) \o LeaderFiles("n2", has("n2"), proofs("n2")) \o LeaderFiles("n3", <<2>>, 1) \o <<Prop("DIGEST", "after", 1)>>
LeaderCutValid(b, rows) ==
    /\ Exact(rows, SeenO("ACTIVATE", "n1", "ACCEPTED")) /\ Exact(rows, Prop("INITIAL", "n1", 0))
    /\ Exact(rows, SeenO("BARRIER", "n1", b)) /\ Exact(rows, SeenO("RESPONSE", "n1", "HELD")) /\ Exact(rows, Stop("n1", "-9"))
    /\ Agree(rows, "DIGEST", {"before", "after"}) /\ LeaderOracle(rows, {1})
LeaderCutBreaches(b) ==
    {Turn(Seen("RESPONSE", "n1"), "RETURNED"), Turn(Seen("BARRIER", "n1"), "OTHER"), Renumber(Seen("INITIAL", "n1"), 1), Renumber(Seen("DIGEST", "after"), 2),
     Renumber(Seen("SEQUENCE", "n1"), 5), Renumber(Seen("APPLIED", "n1"), 3), Drop(Logged("n1", 1, 2)), Renumber(Logged("n2", 1, 2), 1)}
      \cup (IF LeaderPublished(b) THEN {Drop(Proven("n2", 2, 2))} ELSE {})
      \cup (IF b = "AFTER_LOCAL_PROOF_FORCE" THEN {Unless(Drop(Logged("n2", 2, 2)), Logged("n3", 2, 2))} ELSE {})

\* The third voter stores the entry too, or not, by the time the leader dies.
LeaderNoise(b) == IF b = "AFTER_LOCAL_ENTRY_FORCE" THEN {} ELSE {[after |-> Logged("n3", 1, 2), row |-> [Logged("n3", 2, 2) EXCEPT !.do = "once"]]}

\* run_case without a barrier: restart in a new epoch, one follower enough, none
\* not, and nothing uncommitted visible.
AvailabilityScript ==
    LET state(w, k, s) == <<Prop("APPLIED", w, k), Prop("SEQUENCE", w, s)>>
    IN StartVoters \o <<SeenO("ACTIVATE", "n1", "ACCEPTED"), Prop("INITIAL", "n1", 0), SeenO("FOLLOWER_READ", "n2", "REFUSED"), Stop("n1", "-9"), Start("n1", 2),
         Prop("RESTARTED_EPOCH", "n1", 3), Prop("RESTARTED_SEQUENCE", "n1", 1)>> \o state("n3", 3, 1) \o <<Stop("n3", "-9"), SeenO("WRITE", "one-down", "ACCEPTED")>>
         \o state("n2", 4, 2) \o <<Stop("n2", "-9"), SeenO("WRITE", "two-down", "QUORUM_UNAVAILABLE")>> \o state("n1", 4, 2) \o <<Prop("DOCUMENTS", "n1", 2)>>
         \o LeaderFiles("n1", <<2, 2, 3, 3, 3>>, 4) \o LeaderFiles("n2", <<2, 2, 3, 3>>, 4) \o LeaderFiles("n3", <<2, 2, 3>>, 3)
AvailabilityValid(rows) ==
    /\ Exact(rows, SeenO("ACTIVATE", "n1", "ACCEPTED")) /\ Exact(rows, Prop("INITIAL", "n1", 0)) /\ Exact(rows, SeenO("FOLLOWER_READ", "n2", "REFUSED"))
    /\ Exact(rows, Prop("RESTARTED_EPOCH", "n1", 3)) /\ Exact(rows, Prop("RESTARTED_SEQUENCE", "n1", 1))
    /\ Exact(rows, SeenO("WRITE", "one-down", "ACCEPTED")) /\ Exact(rows, SeenO("WRITE", "two-down", "QUORUM_UNAVAILABLE"))
    /\ Exact(rows, Prop("DOCUMENTS", "n1", 2)) /\ Exact(rows, Prop("SEQUENCE", "n1", 2)) /\ LeaderOracle(rows, 1..4)
AvailabilityBreaches ==
    {Turn(Seen("FOLLOWER_READ", "n2"), "ACCEPTED"), Renumber(Seen("RESTARTED_EPOCH", "n1"), 2), Renumber(Seen("RESTARTED_SEQUENCE", "n1"), 0),
     Turn(Seen("WRITE", "two-down"), "ACCEPTED"), Renumber(Seen("DOCUMENTS", "n1"), 3), Drop(Proven("n2", 4, 2)), Renumber(Logged("n3", 2, 2), 3),
     Renumber(Seen("SEQUENCE", "n3"), 2), Renumber(Seen("APPLIED", "n3"), 4)}

-----------------------------------------------------------------------------
(* recovery_harness. *)

Writes == 3     \* the mutations of prepare, one per operation it exercises (8 in the code)

VoterReport(e, w, g, k) == Obs("row", e, w, g, "OK", k)
\* capture before the reopening (1), and after it (2).
CapturedCommit(w, commit) == <<VoterReport("COMMIT", w, 1, commit), VoterReport("PREFIX", w, 1, 1)>>
\* After recovery every voter has applied all writes and two NO_OPs or more.
Recovered(noops, writes) ==
    LET one(w) == <<VoterReport("COMMIT", w, 2, noops + writes), VoterReport("APPLIED", w, 2, noops + writes), VoterReport("SEQUENCE", w, 2, writes), VoterReport("NOOPS", w, 2, noops),
                    VoterReport("VOTER", w, 2, 1), VoterReport("PREFIX", w, 2, 1), VoterReport("HISTORY", w, 2, 1), VoterReport("REPLAY", w, 2, writes), VoterReport("STATE", w, 2, writes),
                    VoterReport("FLOOR", w, 2, 2), VoterReport("SNAPSHOT", w, 2, 3)>>
    IN one("n1") \o one("n2") \o one("n3") \o <<VoterReport("STATE", "control", 2, writes), SeenO("CONTROL", "origin", "PINNED")>>

\* validate of recovery_oracle: acknowledged writes and surviving proofs stay,
\* the replay, the observation and the published control agree, and a floor has
\* two complete sources.
RecoveryOracle(rows, acknowledged) ==
    LET at(e, w) == NumberOf(rows, VoterReport(e, w, 2, 0))
        before(e, w) == NumberOf(rows, VoterReport(e, w, 1, 0))
    IN /\ Exact(rows, SeenO("CONTROL", "origin", "PINNED"))
       /\ \A w \in ThreeVoters :
            /\ One(rows, VoterReport("VOTER", w, 2, 0)) /\ at("VOTER", w) = 1
            /\ at("COMMIT", w) >= acknowledged /\ at("APPLIED", w) <= at("COMMIT", w)
            /\ at("SEQUENCE", w) = at("APPLIED", w) - at("NOOPS", w)
            /\ at("REPLAY", w) = at("STATE", "control") /\ at("STATE", w) = at("STATE", "control")
            /\ \A v \in ThreeVoters : Some(rows, VoterReport("COMMIT", v, 1, 0)) => at("COMMIT", w) >= before("COMMIT", v) /\ at("PREFIX", w) = before("PREFIX", v)
            /\ at("FLOOR", w) > 0 => /\ Cardinality({v \in ThreeVoters : at("COMMIT", v) >= at("FLOOR", w)}) >= 2
                                     /\ at("SNAPSHOT", w) >= at("FLOOR", w)
            /\ at("HISTORY", w) = at("HISTORY", "n1")
OracleBreaches ==
    {Renumber(VoterReport("COMMIT", "n3", 2, 0), 1), Renumber(VoterReport("STATE", "n2", 2, 0), 9), Renumber(VoterReport("REPLAY", "n1", 2, 0), 9),
     Renumber(VoterReport("PREFIX", "n2", 2, 0), 2), Renumber(VoterReport("VOTER", "n3", 2, 0), 0), Renumber(VoterReport("SNAPSHOT", "n1", 2, 0), 1),
     Renumber(VoterReport("HISTORY", "n3", 2, 0), 2), Renumber(VoterReport("SEQUENCE", "n1", 2, 0), 9), Turn(Seen("CONTROL", "origin"), "BUILD")}

CheckpointCuts ==
    {"STAGE_CREATE", "SNAPSHOT_FILE_FORCE", "ENTRIES_FORCE", "PROOFS_FORCE", "STAGE_FORCE", "POINTER_PUBLISH", "POINTER_RENAME", "POINTER_FORCE",
     "FLOOR_RENAME", "CLEANUP_MEMBER", "LEGACY_COMPACTION", "CLEANUP_FORCE"}
LeaderMutationCuts == {"LOCAL_ENTRY_FORCE", "LOCAL_PROOF_FORCE"}
TransferCuts == {"CHUNK_FORCE", "INSTALL_ACK"}
RecoveryTarget(b) == IF b \in TransferCuts THEN "n3" ELSE "n1"

\* crash_case: the answer never precedes the barrier; a proof forced before the
\* kill survives, although the client had no success.
RecoveryCutScript(b) ==
    LET w == RecoveryTarget(b)
        done == Writes + (IF b \in TransferCuts \cup {"LOCAL_PROOF_FORCE"} THEN 1 ELSE 0)
        had(v) == IF b = "LOCAL_PROOF_FORCE" /\ v # "n1" THEN Writes + 1 ELSE IF b \in TransferCuts /\ v = "n3" THEN Writes + 1 ELSE 1 + done
    IN StartVoters \o <<Prop("ACKNOWLEDGED", "group", 1 + Writes)>>
         \o (IF w = "n3" THEN <<Stop("n3", "-9"), Prop("ACKNOWLEDGED", "group", 2 + Writes), Start("n3", 2)>> ELSE <<>>)
         \o <<SeenO("BARRIER", w, b), SeenO("RESPONSE", "n1", IF w = "n3" THEN "FAILED" ELSE "HELD"), Stop(w, "-9"), Prop("DIGEST", "before", 1)>>
         \o CapturedCommit("n1", had("n1")) \o CapturedCommit("n2", had("n2")) \o CapturedCommit("n3", had("n3"))
         \o <<Prop("DIGEST", "after", 1), SeenO("ACTIVATE", "n1", "ACCEPTED"), SeenO("CATCHUP", "n2", "ACCEPTED"), SeenO("CATCHUP", "n3", "ACCEPTED"),
              SeenO("CHECKPOINT", "n1", "ACCEPTED")>> \o Recovered(2, done)
AllAccepted(rows, e, w) == Some(rows, Seen(e, w)) /\ Outcomes(rows, Seen(e, w)) = {"ACCEPTED"}
RecoveryCutValid(b, rows) ==
    LET w == RecoveryTarget(b)
    IN /\ Exact(rows, SeenO("BARRIER", w, b)) /\ Exact(rows, SeenO("RESPONSE", "n1", IF w = "n3" THEN "FAILED" ELSE "HELD"))
       /\ Some(rows, Stop(w, "-9")) /\ Outcomes(rows, Stop(w, "-9")) = {"-9"}
       /\ Agree(rows, "DIGEST", {"before", "after"})
       /\ AllAccepted(rows, "ACTIVATE", "n1") /\ AllAccepted(rows, "CATCHUP", "n2") /\ AllAccepted(rows, "CATCHUP", "n3") /\ AllAccepted(rows, "CHECKPOINT", "n1")
       /\ RecoveryOracle(rows, LastNumber(rows, Seen("ACKNOWLEDGED", "group")))
RecoveryCutBreaches(b) ==
    OracleBreaches \cup {Turn(Seen("RESPONSE", "n1"), "ACCEPTED"), Turn(Seen("BARRIER", RecoveryTarget(b)), "OTHER"), Turn(Seen("CHECKPOINT", "n1"), "REFUSED"),
                         Renumber(Seen("DIGEST", "after"), 2), Renumber(VoterReport("COMMIT", "n1", 1, 0), 9)}

\* lifecycle_case: a follower caught up twice, replaced, and the leader replaced:
\* its erased disk neither votes nor counts among the survivors.
ReplacedScript ==
    StartVoters \o <<Prop("ACKNOWLEDGED", "group", 5), SeenO("CATCHUP", "n3", "ACCEPTED"), Stop("n3", "-9"), Start("n3", 2), VoterReport("COMMIT", "n3", 1, 4), VoterReport("PREFIX", "n3", 1, 1),
      SeenO("CATCHUP", "replaced", "ACCEPTED"), Stop("n1", "-9"), VoterReport("COMMIT", "n1", 1, 5), VoterReport("PREFIX", "n1", 1, 1), SeenO("ACTIVATE", "replaced", "REFUSED"),
      SeenO("RECONSTRUCT", "one-survivor", "QUORUM_UNAVAILABLE"), Prop("ERASED", "n1", 0), SeenO("RECONSTRUCT", "two-survivors", "ACCEPTED"),
      SeenO("CHECKPOINT", "n1", "ACCEPTED")>> \o Recovered(2, 5)
ReplacedValid(rows) ==
    /\ AllAccepted(rows, "CATCHUP", "n3") /\ AllAccepted(rows, "CATCHUP", "replaced") /\ Exact(rows, SeenO("ACTIVATE", "replaced", "REFUSED"))
    /\ Exact(rows, SeenO("RECONSTRUCT", "one-survivor", "QUORUM_UNAVAILABLE")) /\ Exact(rows, Prop("ERASED", "n1", 0))
    /\ AllAccepted(rows, "RECONSTRUCT", "two-survivors") /\ AllAccepted(rows, "CHECKPOINT", "n1") /\ RecoveryOracle(rows, 5)
ReplacedBreaches ==
    OracleBreaches \cup {Turn(Seen("ACTIVATE", "replaced"), "ACCEPTED"), Turn(Seen("RECONSTRUCT", "one-survivor"), "ACCEPTED"), Renumber(Seen("ERASED", "n1"), 4),
                         Turn(Seen("RECONSTRUCT", "two-survivors"), "QUORUM_UNAVAILABLE")}

-----------------------------------------------------------------------------
(* hardening_harness: named faults on the wire between the voters. *)

\* One attempt of a request: the process that wrote it, which attempt it is,
\* what the plan did to it and the trace it belongs to.
WireAttempt(w, k, action, trace) == Obs("row", "ATTEMPT", w, k, action, trace)
WireReply(w, k, how, trace)     == Obs("row", "ANSWER", w, k, how, trace)
RetryLimit == 1

\* validate of hardening_trace: attempts of a trace are numbered without a gap
\* and bounded, repeat the same bytes, are answered by the voter asked, and the
\* fault the case is about was exercised.
TraceValid(rows, required) ==
    LET tries(w, t) == {rows[j].gen : j \in {i \in RowsAt(rows, "ATTEMPT", w) : rows[i].n = t}}
        traces == {rows[j].n : j \in UNION {RowsAt(rows, "ATTEMPT", w) : w \in ThreeVoters}}
        actions == {rows[j].out : j \in UNION {RowsAt(rows, "ATTEMPT", w) : w \in ThreeVoters}}
        answers == UNION {RowsAt(rows, "ANSWER", w) : w \in ThreeVoters}
    IN /\ actions \subseteq {"deliver", "disconnect", "hold"} /\ required \subseteq actions
       /\ \A w \in ThreeVoters, t \in traces : /\ tries(w, t) = 1..Cardinality(tries(w, t)) /\ Cardinality(tries(w, t)) <= RetryLimit + 1
                                               /\ \A k \in tries(w, t) : Cardinality({j \in RowsAt(rows, "ATTEMPT", w) : rows[j].n = t /\ rows[j].gen = k}) = 1
       /\ \A j \in answers : rows[j].out = "CORRELATED" /\ rows[j].n \in traces
TraceBreaches ==
    {Turn(WireReply("n2", 1, "CORRELATED", 1), "UNCORRELATED"), Turn(WireAttempt("n1", 1, "deliver", 1), "OTHER_BYTES"), Add(WireAttempt("n1", 1, "deliver", 1), WireAttempt("n1", 3, "deliver", 1)),
     Add(WireAttempt("n1", 1, "deliver", 1), WireAttempt("n1", 1, "deliver", 1))}

\* finish: the recovery oracle, transcripts of owned processes, the trace.
HardeningFinish(attempts, writes) == attempts \o <<SeenO("OWNERS", "transcript", "OWNED")>> \o Recovered(2, writes)
HardeningFinished(rows, required, acknowledged) ==
    RecoveryOracle(rows, acknowledged) /\ Exact(rows, SeenO("OWNERS", "transcript", "OWNED")) /\ TraceValid(rows, required)

LostKinds == {"APPEND", "COMMIT_PROOF", "SNAPSHOT_CHUNK", "SNAPSHOT_INSTALL"}
RecoveryPoints == {"PROMISE_QUORUM", "RECOVERY_SELECTION", "RECOVERY_INSTALL", "RECOVERY_PUBLICATION", "RECOVERY_READY_QUORUM"}
HardeningCases == LostKinds \cup RecoveryPoints \cup {"EXHAUSTED_APPEND", "EXHAUSTED_PROOF", "SLOW", "REPLAY", "REPEATED", "CANCEL"}
FaultAction(c) == CASE c \in LostKinds \cup {"EXHAUSTED_APPEND", "EXHAUSTED_PROOF"} -> {"disconnect"} [] c = "SLOW" -> {"hold"} [] OTHER -> {}

\* A response dropped once: the request is sent again and answered; dropped for
\* good, the write fails and a second one is refused.
Resent == <<WireAttempt("n1", 1, "deliver", 1), WireAttempt("n2", 1, "disconnect", 1), WireAttempt("n1", 2, "deliver", 1), WireAttempt("n2", 2, "deliver", 1), WireReply("n2", 1, "CORRELATED", 1)>>
Sent(action) == <<WireAttempt("n1", 1, "deliver", 1), WireAttempt("n2", 1, action, 1), WireReply("n2", 1, "CORRELATED", 1)>>
Exhausted ==
    <<WireAttempt("n1", 1, "deliver", 1), WireAttempt("n2", 1, "disconnect", 1), WireAttempt("n1", 2, "deliver", 1), WireAttempt("n2", 2, "disconnect", 1), WireReply("n2", 1, "CORRELATED", 1),
      SeenO("WRITE", "uncertain", "QUORUM_UNAVAILABLE"), Prop("APPLIED", "initial", 4), Prop("APPLIED", "rejected", 4), SeenO("QUORUM", "n1", "LOST"), SeenO("WRITE", "later", "REFUSED")>>
ExhaustedValid(rows) ==
    /\ Exact(rows, SeenO("WRITE", "uncertain", "QUORUM_UNAVAILABLE")) /\ Exact(rows, SeenO("WRITE", "later", "REFUSED"))
    /\ Agree(rows, "APPLIED", {"initial", "rejected"}) /\ Exact(rows, SeenO("QUORUM", "n1", "LOST"))

\* catchup_after_pressure: only a capacity refusal of a ready leader is tried
\* again, a bounded number of times; validate_pressure_progress.
PressureAttempts == 3
Pressured ==
    Sent("hold") \o <<Prop("APPLIED", "initial", 4), Prop("APPLIED", "completed", 5), Prop("APPLIED", "follower", 4), SeenO("LEADER", "completed", "READY"),
                     Obs("try", "CATCHUP", "n3", 1, "ACCEPTED", 0)>>
PressuredValid(rows) ==
    /\ Value(rows, "APPLIED", "completed") = Value(rows, "APPLIED", "initial") + 1 /\ Exact(rows, SeenO("LEADER", "completed", "READY"))
    /\ Value(rows, "APPLIED", "follower") \in Value(rows, "APPLIED", "initial")..Value(rows, "APPLIED", "completed")
    /\ Exact(rows, SeenO("CATCHUP", "n3", "ACCEPTED"))
    /\ \A j \in RowsAt(rows, "READ_REJECTED", "n3") : rows[j].out = "NOT_READY"     \* CAPACITY_EXCEEDED, retried
    /\ Cardinality(RowsAt(rows, "READ_REJECTED", "n3")) < PressureAttempts

\* replay of the deterministic transport: deliveries in order of tick and then
\* of schedule, dropped or duplicated as planned, a broken link in both ways.
Delivery(k, what, action, tick) == [seq |-> k, what |-> what, action |-> action, tick |-> tick]
Replay(events, receive) ==
    LET order == SortSeq(events, LAMBDA a, b : a.tick < b.tick \/ (a.tick = b.tick /\ a.seq < b.seq))
        cut(i) == LET last == {j \in 1..(i - 1) : order[j].action \in {"disconnect", "reconnect"}}
                  IN last # {} /\ order[Max(last)].action = "disconnect"
        outcome(i) == LET e == order[i]
                      IN CASE e.action \in {"disconnect", "reconnect"} -> <<e.action>>
                           [] e.action = "drop" \/ cut(i) -> <<"dropped">>
                           [] e.action = "duplicate" -> <<receive[e.what], receive[e.what]>>
                           [] OTHER -> <<receive[e.what]>>
    IN FlattenSeq([i \in DOMAIN order |-> outcome(i)])

\* replay_wire: an append lost, duplicated and reordered behind its proof, one
\* of a stale incarnation and one that conflicts.
WireSchedule ==
    <<Delivery(0, "append", "drop", 0), Delivery(1, "append", "duplicate", 2), Delivery(2, "proof", "duplicate", 1), Delivery(3, "stale", "deliver", 3), Delivery(4, "conflict", "deliver", 4)>>
WireAnswer ==
    [what \in {e.what : e \in Range(WireSchedule)} |->
       CASE what = "stale" -> "STALE_EPOCH" [] what = "conflict" -> "CONFLICTING_HISTORY" [] OTHER -> "ACKNOWLEDGED"]
WireReplayed(g) == LET out == Replay(WireSchedule, WireAnswer) IN [i \in DOMAIN out |-> Obs("row", "REPLAYED", "n2", g, out[i], i)]
ReplayedScript == WireReplayed(1) \o <<Prop("STATUS", "first", 1)>> \o WireReplayed(2) \o <<Prop("STATUS", "initial", 1), Prop("STATUS", "second", 1)>>
ReplayedValid(rows) ==
    LET outs(g) == LET js == {j \in RowsAt(rows, "REPLAYED", "n2") : rows[j].gen = g} IN [i \in {rows[j].n : j \in js} |-> {rows[j].out : j \in {k \in js : rows[k].n = i}}]
        refused == SelectSeq(SelectSeq(rows, LAMBDA r : r.ev = "REPLAYED" /\ r.gen = 1), LAMBDA r : r.out \notin {"ACKNOWLEDGED", "dropped"})
    IN /\ outs(1) = outs(2) /\ [i \in DOMAIN refused |-> refused[i].out] = <<"STALE_EPOCH", "CONFLICTING_HISTORY">>
       /\ Agree(rows, "STATUS", {"initial", "first", "second"})

\* repeated_recovery and cancellation_close: epochs advance; a cancelled client
\* still holds its place among the pending ones.
RepeatedScript == <<Prop("EPOCH", "cycle-1", 3), Prop("EPOCH", "cycle-2", 4), Prop("EPOCH", "cycle-3", 5)>>
RepeatedValid(rows) == Value(rows, "EPOCH", "cycle-1") < Value(rows, "EPOCH", "cycle-2") /\ Value(rows, "EPOCH", "cycle-2") < Value(rows, "EPOCH", "cycle-3")
PendingClients == 3     \* 8 in the code
PendingCancelScript == <<SeenO("BARRIER", "n1", "ENTRY_QUORUM"), Prop("PENDING", "n1", PendingClients), SeenO("CANCEL", "client-1", "ACCEPTED"), SeenO("WRITE", "one-more", "CAPACITY_EXCEEDED")>>
PendingCancelValid(rows) ==
    /\ Exact(rows, SeenO("BARRIER", "n1", "ENTRY_QUORUM")) /\ Exact(rows, Prop("PENDING", "n1", PendingClients)) /\ AllAccepted(rows, "CANCEL", "client-1")
    /\ InOrder(rows, <<Seen("CANCEL", "client-1"), Seen("WRITE", "one-more")>>) /\ Exact(rows, SeenO("WRITE", "one-more", "CAPACITY_EXCEEDED"))

\* recovery_crash: an unproven write is left behind, the new activation is cut.
RecoveryCrash(b) == <<SeenO("WRITE", "unproven", "QUORUM_UNAVAILABLE"), SeenO("BARRIER", "n1", b), SeenO("ACTIVATION", "n1", "HELD"), Stop("n1", "-9")>>
RecoveryCrashValid(b, rows) ==
    Exact(rows, SeenO("WRITE", "unproven", "QUORUM_UNAVAILABLE")) /\ Exact(rows, SeenO("BARRIER", "n1", b)) /\ Exact(rows, SeenO("ACTIVATION", "n1", "HELD")) /\ Exact(rows, Stop("n1", "-9"))

\* A write whose lost answer was a proof's is kept; an append's is not.
FaultWrites(c) == IF c \in {"APPEND", "COMMIT_PROOF", "EXHAUSTED_PROOF", "SLOW"} THEN 4 ELSE 3
FaultAcknowledged(c) == IF c \in {"APPEND", "COMMIT_PROOF", "SLOW"} THEN 5 ELSE 4
FaultScript(c) ==
    LET before == CapturedCommit("n1", 4) \o CapturedCommit("n2", 4) \o CapturedCommit("n3", 4)
        own == CASE c \in LostKinds -> Resent [] c \in {"EXHAUSTED_APPEND", "EXHAUSTED_PROOF"} -> Exhausted [] c = "SLOW" -> Pressured
                 [] c = "REPLAY" -> Sent("deliver") \o ReplayedScript [] c = "REPEATED" -> Sent("deliver") \o RepeatedScript
                 [] c = "CANCEL" -> Sent("deliver") \o PendingCancelScript [] OTHER -> Sent("deliver") \o RecoveryCrash(c)
    IN StartVoters \o own \o before \o HardeningFinish(<<>>, FaultWrites(c))
FaultValid(c, rows) ==
    /\ HardeningFinished(rows, FaultAction(c), FaultAcknowledged(c))
    /\ CASE c \in {"EXHAUSTED_APPEND", "EXHAUSTED_PROOF"} -> ExhaustedValid(rows) [] c = "SLOW" -> PressuredValid(rows) [] c = "REPLAY" -> ReplayedValid(rows)
         [] c = "REPEATED" -> RepeatedValid(rows) [] c = "CANCEL" -> PendingCancelValid(rows) [] c \in RecoveryPoints -> RecoveryCrashValid(c, rows) [] OTHER -> TRUE
FaultBreaches(c) ==
    OracleBreaches \cup TraceBreaches \cup {Turn(Seen("OWNERS", "transcript"), "FOREIGN")}
      \cup (CASE c \in LostKinds -> {Drop(WireAttempt("n2", 1, "disconnect", 1)), Drop(WireAttempt("n1", 1, "deliver", 1)), Turn(WireAttempt("n2", 1, "disconnect", 1), "deliver")}
              [] c \in {"EXHAUSTED_APPEND", "EXHAUSTED_PROOF"} -> {Turn(Seen("WRITE", "uncertain"), "ACCEPTED"), Turn(Seen("WRITE", "later"), "ACCEPTED"), Renumber(Seen("APPLIED", "rejected"), 5)}
              [] c = "SLOW" -> {Renumber(Seen("APPLIED", "follower"), 6), Renumber(Seen("APPLIED", "completed"), 4), Turn(Seen("CATCHUP", "n3"), "FAILED"), Turn(Seen("LEADER", "completed"), "LOST")}
              [] c = "REPLAY" -> {Renumber(Seen("STATUS", "second"), 2), Turn(SeenG("REPLAYED", "n2", 2), "ACKNOWLEDGED"), Drop(SeenG("REPLAYED", "n2", 2))}
              [] c = "REPEATED" -> {Renumber(Seen("EPOCH", "cycle-2"), 3)}
              [] c = "CANCEL" -> {Turn(Seen("WRITE", "one-more"), "ACCEPTED"), Renumber(Seen("PENDING", "n1"), 2), Early(Seen("WRITE", "one-more"))}
              [] OTHER -> {Turn(Seen("ACTIVATION", "n1"), "RETURNED"), Turn(Seen("WRITE", "unproven"), "ACCEPTED"), Turn(Seen("BARRIER", "n1"), "OTHER")})
=============================================================================
