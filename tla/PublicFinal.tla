---------------------------- MODULE PublicFinal ----------------------------
(***************************************************************************)
(* The last V5.1 public harnesses: a heartbeat that crosses a new fence,    *)
(* lost disks and a new group restored from a backup, rounds of combined    *)
(* faults on the same disks, and torn records, cancellation and close       *)
(* across a recovery.  Laid out as PublicScenarios.                         *)
(***************************************************************************)
EXTENDS PublicLimits

-----------------------------------------------------------------------------
(* Recovery writes.  After a fault the controller reads, then writes with a *)
(* fresh key; a refused or uncertain write stays in the history and the     *)
(* next attempt takes the next key, after a read that may or may not show   *)
(* the uncertain one.  "fresh" and "sum" are steps of the controller that   *)
(* HarnessMatrix resolves: the attempt, and the documents it expects.       *)

FreshRead(r)  == Obs("try", "FRESH_READ", "ctl", r, "OK", 0)
FreshWrite(r) == Obs("fresh", "FRESH_WRITE", "ctl", r, "OK", 1)
Sum(e, r)     == Obs("sum", e, "ctl", r, "OK", 0)
MaxAttempts   == 3
Resume(r)     == <<FreshRead(r), FreshWrite(r), Obs("try", "READ_FINAL", "ctl", r, "OK", 0), Sum("EXPECTED", r)>>

\* The documents the controller expects: acknowledged recovery writes and the
\* uncertain ones a later read showed.
Kept(rows) ==
    Cardinality({i \in DOMAIN rows : rows[i].ev = "FRESH_WRITE" /\ rows[i].out = "OK"})
      + Cardinality({i \in DOMAIN rows : rows[i].ev = "FRESH_READ" /\ rows[i].n = 1})

\* recovery_writes: every attempt is accounted for, keys are never replayed,
\* only the last succeeds, and a read shows the prefix and at most the
\* uncertain write just before it.
RecoveryWrites(rows, r) ==
    LET writes == All(rows, FreshWrite(r))
        reads  == All(rows, FreshRead(r))
        rank(i) == Cardinality({j \in writes : j <= i})
    IN /\ writes # {} /\ Cardinality(writes) <= MaxAttempts
       /\ \A i \in writes :
            /\ rows[i].n = rank(i)
            /\ IF rank(i) = Cardinality(writes) THEN rows[i].out = "OK" ELSE rows[i].out \in {"NOT_SUBMITTED", "INDETERMINATE"}
            /\ \E k \in reads : k < i /\ ~\E j \in writes : k < j /\ j < i
       /\ \A k \in reads : rows[k].n = 1 =>
            \E j \in writes : j < k /\ rows[j].out = "INDETERMINATE" /\ ~\E i \in writes : j < i /\ i < k
       /\ Numbers(rows, Sum("EXPECTED", r)) = {Kept(SubSeq(rows, 1, First(rows, Sum("EXPECTED", r))))}

\* sample: every member reports an idle permit and no timer, and has proven
\* the last acknowledged bulk before it says so.
Samples(members, r) ==
    [i \in 1..(2 * Len(members)) |->
        Obs("row", IF i % 2 = 1 THEN "PROVEN" ELSE "SAMPLE", members[(i + 1) \div 2], r, "OK", 0)]
Sampled(rows, members, r) ==
    \A k \in DOMAIN members :
        /\ Exact(rows, Obs("row", "SAMPLE", members[k], r, "OK", 0))
        /\ Before(rows, SeenG("PROVEN", members[k], r), SeenG("SAMPLE", members[k], r))
        /\ First(rows, SeenG("SAMPLE", members[k], r)) > First(rows, SeenG("READ_FINAL", "ctl", r))

-----------------------------------------------------------------------------
(* A held heartbeat. *)

HeartbeatCases == {"heartbeat-request", "heartbeat-response"}
HeldAt(x)      == IF x = "heartbeat-request" THEN "n3" ELSE "old"
HeartbeatCut(x) == IF x = "heartbeat-request" THEN "WIRE_AFTER_REQUEST_READ_HEARTBEAT" ELSE "WIRE_AFTER_RESPONSE_READ_HEARTBEAT"

\* heartbeat: the exchange is held, the old leader partitioned, a majority
\* elected and used, then healed; the fence reaches the held process and the
\* old leader before the exchange is released.
HeartbeatScript(x) ==
    StartAll \o <<Ctl("SEED"), Try("READ", "ctl"), SeenN(HeartbeatCut(x), HeldAt(x), 1), Seen("CUT_REACHED", HeldAt(x)),
                  Try("READ_MAJORITY", "cand"), Seen("WRITE_MAJORITY", "cand")>>
      \o (IF x = "heartbeat-request" THEN <<SeenN("PROMISE_FORCE", "n3", 2), SeenN("PROMISE_FORCE", "old", 2)>>
          ELSE <<SeenN("PROMISE_FORCE", "old", 2)>>)
      \o <<Seen("CUT_RELEASED", HeldAt(x)),
           Num(SeenO("DELIVERED", HeldAt(x), IF x = "heartbeat-request" THEN "STALE_EPOCH" ELSE "OK"), IF x = "heartbeat-request" THEN 2 ELSE 1),
           SeenO("REFUSED_READ", "old", "NOT_APPLICABLE"), SeenO("REFUSED_WRITE", "old", "NOT_SUBMITTED"),
           Stop("old", "clean"), Seen("ARCHIVE", "old"), Start("old", 2), Try("READ_AGAIN", "ctl"), Ctl("WRITE_LATER"), Try("READ_FINAL", "ctl")>>

\* refused: one read and one write, each refused by this process, after p.
Refused(rows, w, p) ==
    \A q \in {SeenO("REFUSED_READ", w, "NOT_APPLICABLE"), SeenO("REFUSED_WRITE", w, "NOT_SUBMITTED")} :
        One(rows, q) /\ Passed(rows, q) /\ Before(rows, p, q)

\* validate, the heartbeat cases: a stale request is rejected with the fence,
\* a stale acknowledgement is delivered and changes nothing.
HeartbeatValid(x, rows) ==
    LET w == HeldAt(x)
    IN /\ PausedAt(rows, w, HeartbeatCut(x)) /\ HigherBetween(rows, w, NumberOf(rows, Seen(HeartbeatCut(x), w)))
       /\ NumberOf(rows, Seen(HeartbeatCut(x), w)) = 1
       /\ Before(rows, Seen("CUT_RELEASED", w), Seen("DELIVERED", w))
       /\ IF x = "heartbeat-request"
          THEN Has(rows, Num(SeenO("DELIVERED", w, "STALE_EPOCH"), 2)) ELSE Has(rows, SeenN("DELIVERED", w, 1))
       /\ Passed(rows, Seen("READ_MAJORITY", "cand")) /\ Passed(rows, Seen("WRITE_MAJORITY", "cand"))
       /\ Refused(rows, "old", Seen("WRITE_MAJORITY", "cand")) /\ Refused(rows, "old", Seen("PROMISE_FORCE", "old"))
       /\ w = "old" => Refused(rows, "old", Seen("DELIVERED", "old"))
       /\ Archived(rows, "old") /\ Some(rows, SeenG("STARTED", "old", 2))
       /\ AllPassed(rows, {Ctl("WRITE_LATER"), Ctl("READ_FINAL")}) /\ Before(rows, Ctl("WRITE_LATER"), Ctl("READ_FINAL"))
HeartbeatNegatives(x) ==
    {Drop(Seen("REFUSED_WRITE", "old")), Turn(Seen("REFUSED_READ", "old"), "SUCCESS"), Drop(Seen("PROMISE_FORCE", HeldAt(x))),
     Drop(Seen("DELIVERED", HeldAt(x))), Renumber(Seen(HeartbeatCut(x), HeldAt(x)), 2)}
\* The stale heartbeat renews the follower's timer, the retired leader serves,
\* or the release overtakes the fence.
HeartbeatBreaches(x) ==
    {Turn(Seen("REFUSED_READ", "old"), "OK"), Early(Seen("CUT_RELEASED", HeldAt(x))), Turn(Ctl("READ_FINAL"), "NOT_APPLICABLE")}
      \cup (IF x = "heartbeat-request" THEN {Turn(Seen("DELIVERED", "n3"), "OK")} ELSE {Early(Seen("DELIVERED", "old"))})
HeartbeatNoise == {[after |-> Seen("WRITE_MAJORITY", "cand"), row |-> SeenN("PROMISE_FORCE", "cand", 5)]}

-----------------------------------------------------------------------------
(* Lost disks. *)

DiskLossCases == {"one-disk-loss", "two-disk-loss"}
Victims(x)    == IF x = "one-disk-loss" THEN <<"n3">> ELSE <<"n3", "cand">>
LossOf(w)     == <<Stop(w, "kill"), Seen("LOST", w), SeenG("ABSENT_START", w, 1), SeenG("ABSENT_START", w, 2), SeenN("RETIRED", w, 0)>>

\* disks: a retained restart, a backup, the loss, two refused starts on the
\* missing disk, the survivors' answer, the published restore as a control,
\* and a new group, with a new identity, built from the same backup.
DiskLossScript(x) ==
    StartAll \o <<Ctl("SEED"), Stop("old", "clean"), Start("old", 2), Try("READ", "ctl"), CtlN("BACKUP", 1), Ctl("BACKUP_RELEASED")>>
      \o LossOf("n3") \o (IF Len(Victims(x)) = 2 THEN LossOf("cand") ELSE <<>>)
      \o (IF Len(Victims(x)) = 1 THEN <<Ctl("WRITE_SURVIVOR"), Try("READ_SURVIVOR", "ctl")>>
          ELSE <<SeenO("REFUSED_READ", "old", "NOT_APPLICABLE"), SeenO("REFUSED_WRITE", "old", "NOT_SUBMITTED")>>)
      \o <<CtlN("CONTROL", 1), CtlN("NEW_GROUP", 2), CtlN("BACKUP_BYTES", 0), Ctl("IMPORTED"), CtlN("NEW_READ", 1), Ctl("NEW_WRITE"),
           Ctl("NEW_RESTART"), CtlN("NEW_FINAL_READ", 2)>>

\* validate, the disk cases
DiskLossValid(x, rows) ==
    LET lost == {Victims(x)[i] : i \in DOMAIN Victims(x)}
        cut  == NumberOf(rows, Ctl("BACKUP"))
    IN /\ {rows[i].who : i \in {j \in DOMAIN rows : rows[j].ev = "LOST"}} = lost
       /\ \A w \in lost : /\ Exact(rows, SeenN("RETIRED", w, 0))
                          /\ \A g \in 1..2 : One(rows, SeenG("ABSENT_START", w, g)) /\ Outcomes(rows, SeenG("ABSENT_START", w, g)) = {"OK"}
                          /\ Before(rows, Ctl("BACKUP"), Seen("LOST", w))
       /\ IF x = "one-disk-loss"
          THEN /\ AllPassed(rows, {Ctl("WRITE_SURVIVOR"), Ctl("READ_SURVIVOR")})
               /\ InOrder(rows, <<Seen("LOST", "n3"), Ctl("WRITE_SURVIVOR"), Ctl("READ_SURVIVOR")>>)
          ELSE Refused(rows, "old", Seen("LOST", "n3")) /\ Refused(rows, "old", Seen("LOST", "cand"))
       /\ One(rows, Ctl("BACKUP")) /\ Passed(rows, Ctl("BACKUP")) /\ Passed(rows, Ctl("BACKUP_RELEASED"))
       /\ Exact(rows, CtlN("BACKUP_BYTES", 0)) /\ Has(rows, CtlN("CONTROL", cut))
       /\ Passed(rows, Ctl("IMPORTED")) /\ Exact(rows, CtlN("NEW_GROUP", 2))
       /\ Has(rows, CtlN("NEW_READ", cut)) /\ Has(rows, CtlN("NEW_FINAL_READ", cut + 1))
       /\ InOrder(rows, <<Seen("LOST", "n3"), Ctl("NEW_READ"), Ctl("NEW_FINAL_READ")>>)
DiskLossNegatives(x) ==
    {Drop(SeenG("ABSENT_START", "n3", 2)), Turn(SeenG("ABSENT_START", "n3", 1), "SUCCESS"), Renumber(Seen("RETIRED", "n3"), 1),
     Renumber(Ctl("BACKUP"), 2), Turn(Ctl("CONTROL"), "UNPUBLISHED"), Drop(Ctl("BACKUP")), Drop(Ctl("BACKUP_RELEASED"))}
\* A missing disk that enrols again, a retired disk that changes, a minority
\* that serves, a restore that invents the later write or the old identity.
DiskLossBreaches(x) ==
    {Turn(SeenG("ABSENT_START", "n3", 2), "SUCCESS"), Renumber(Ctl("NEW_READ"), 2), Renumber(Ctl("NEW_GROUP"), 1),
     Renumber(Ctl("BACKUP_BYTES"), 1)}
      \cup (IF x = "two-disk-loss" THEN {Turn(Seen("REFUSED_WRITE", "old"), "SUCCESS")} ELSE {Turn(Ctl("READ_SURVIVOR"), "NOT_APPLICABLE")})
DiskLossNoise == {[after |-> Ctl("SEED"), row |-> SeenN("PROMISE_FORCE", "n3", 1)]}

-----------------------------------------------------------------------------
(* Rounds of combined faults on the same disks. *)

RoundCases   == {"partition-accept-kill", "partition-proof-kill", "whole-group-restart"}
Rounds       == 2      \* bound: the code runs three
RoundCut(x)  == IF x = "partition-accept-kill" THEN "WIRE_AFTER_RESPONSE_READ_ACCEPT" ELSE "WIRE_AFTER_RESPONSE_READ_COMMIT_PROOF"
Everyone     == <<"old", "cand", "n3">>
\* The leader killed in a round restarts as a follower of the next one's leader.
RoundLeader(r) == IF r % 2 = 1 THEN "old" ELSE "cand"
RoundNext(r)   == IF r % 2 = 1 THEN "cand" ELSE "old"
GenAt(r)       == (r + 1) \div 2
In(e, w, r)    == Obs("row", e, w, r, "OK", 0)
InO(e, w, r, o) == Obs("row", e, w, r, o, 0)
InN(e, w, r, k) == Obs("row", e, w, r, "OK", k)

\* RepeatedGroup.stop and start: exit code, archive, then the next generation.
StopNode(w, how, r)   == <<Obs("stop", "STOPPED", w, r, how, 0), In("ARCHIVE", w, r)>>
StartNode(w, g)       == <<Start(w, g)>>

\* One round: an acknowledgement held while its sender is partitioned, a
\* majority that goes on, then SIGKILL and heal; or two clean stops, a minority
\* that refuses, and a restart of everybody in a rotated order.
RoundSteps(x, r) ==
    LET L == RoundLeader(r) M == RoundNext(r)
    IN <<Sum("READ_BEFORE", r)>>
         \o (IF x = "whole-group-restart"
             THEN StopNode("cand", "clean", r) \o StopNode("n3", "clean", r)
                    \o <<InO("REFUSED_READ", "old", r, "NOT_APPLICABLE"), InO("REFUSED_WRITE", "old", r, "NOT_SUBMITTED")>>
                    \o StopNode("old", "clean", r)
                    \o [i \in 1..3 |-> Start(Everyone[((i + r - 2) % 3) + 1], r + 1)]
             ELSE <<InN("ACCEPT_FORCE", L, r, r), InN("ACCEPT_FORCE", "n3", r, r), In(RoundCut(x), L, r), In("CUT_REACHED", L, r),
                    In("PARTITION", "ctl", r), In("NETWORK_DROP", M, r), Obs("try", "READ_MAJORITY", M, r, "OK", 1),
                    In("WRITE_MAJORITY", M, r), InN("PUBLISHED", M, r, r)>>
                    \o StopNode(L, "kill", r)
                    \o <<InO("HELD_WRITE", L, r, "INDETERMINATE"), In("HEAL", "ctl", r), Start(L, GenAt(r) + 1)>>)
         \o Resume(r) \o Samples(Everyone, r)

\* scenario
RoundsScript(x) ==
    StartAll \o <<Ctl("SEED"), Try("READ", "ctl")>> \o RoundSteps(x, 1) \o RoundSteps(x, 2)

\* processes: generations of a voter are contiguous, each starts after the
\* previous one was stopped and archived.
Processes(rows) ==
    \A k \in 1..3 :
        LET w == Everyone[k]
            starts == {i \in DOMAIN rows : rows[i].ev = "STARTED" /\ rows[i].who = w}
            stops  == {i \in DOMAIN rows : rows[i].ev = "STOPPED" /\ rows[i].who = w}
        IN /\ {rows[i].gen : i \in starts} = 1..Cardinality(starts)
           /\ \A i \in starts : rows[i].gen > 1 =>
                \E s \in stops : /\ s < i /\ \E a \in DOMAIN rows : rows[a].ev = "ARCHIVE" /\ rows[a].who = w /\ rows[a].out = "OK" /\ s < a /\ a < i
                                 /\ \A j \in starts : rows[j].gen = rows[i].gen - 1 => j < s

\* rounds: in order, none overlapping.
RoundsInOrder(rows) ==
    \A r \in 1..Rounds : /\ One(rows, Sum("READ_BEFORE", r)) /\ One(rows, Sum("EXPECTED", r))
                         /\ r > 1 => First(rows, Sum("EXPECTED", r - 1)) < First(rows, Sum("READ_BEFORE", r))

\* partition_drop: a real drop at either end of the partition, in the round.
PartitionDrop(rows, x, r) ==
    \E i \in DOMAIN rows :
        /\ rows[i].ev = "NETWORK_DROP" /\ rows[i].gen = r
        /\ First(rows, In("PARTITION", "ctl", r)) < i /\ i < First(rows, In("STOPPED", RoundLeader(r), r))

\* The held write of a round: chosen by its original quorum, never answered,
\* published again by the next leader, and its acknowledgement never delivered.
HeldRound(x, rows, r) ==
    LET L == RoundLeader(r) M == RoundNext(r) cut == In("CUT_REACHED", L, r)
    IN /\ One(rows, cut) /\ JustBefore(rows, First(rows, cut), RoundCut(x))
       /\ ~Some(rows, In("CUT_RELEASED", L, r))
       /\ Passed(rows, InO("HELD_WRITE", L, r, "INDETERMINATE"))
       /\ Passed(rows, InO("STOPPED", L, r, "kill"))
       /\ InOrder(rows, <<cut, In("PARTITION", "ctl", r), In("READ_MAJORITY", M, r), In("WRITE_MAJORITY", M, r), In("STOPPED", L, r),
                          In("HEAL", "ctl", r), FreshRead(r)>>)
       /\ AllPassed(rows, {In("READ_MAJORITY", M, r), In("WRITE_MAJORITY", M, r)})
       /\ PartitionDrop(rows, x, r)
       /\ Numbers(rows, In("READ_MAJORITY", M, r)) = {1} /\ Has(rows, InN("PUBLISHED", M, r, r))
       /\ \A w \in {L, "n3"} : \E i \in All(rows, In("ACCEPT_FORCE", w, r)) : rows[i].n = r /\ i < First(rows, cut)

\* validate
RoundsValid(x, rows) ==
    /\ RoundsInOrder(rows) /\ Processes(rows)
    /\ \A r \in 1..Rounds :
        /\ Exact(rows, Num(Sum("READ_BEFORE", r), IF r = 1 THEN 0 ELSE NumberOf(rows, Sum("EXPECTED", r - 1))))
        /\ RecoveryWrites(rows, r) /\ Sampled(rows, Everyone, r)
        /\ AllPassed(rows, {In("READ_FINAL", "ctl", r)})
        /\ IF x # "whole-group-restart" THEN HeldRound(x, rows, r)
           ELSE /\ \A k \in 1..3 : Passed(rows, InO("STOPPED", Everyone[k], r, "clean"))
                /\ \A p \in {InO("REFUSED_READ", "old", r, "NOT_APPLICABLE"), InO("REFUSED_WRITE", "old", r, "NOT_SUBMITTED")} :
                     /\ One(rows, p) /\ Passed(rows, p) /\ Before(rows, p, In("STOPPED", "old", r))
                     /\ Before(rows, In("ARCHIVE", "cand", r), p) /\ Before(rows, In("ARCHIVE", "n3", r), p)
                /\ \A k \in 1..3 : Before(rows, In("ARCHIVE", "old", r), SeenG("STARTED", Everyone[k], r + 1))

\* negatives
RoundsNegatives(x) ==
    {Drop(Sum("EXPECTED", 2)), Early(Sum("READ_BEFORE", 2)), Drop(In("ARCHIVE", "old", 1)), Drop(In("SAMPLE", "n3", 2)),
     Drop(In("PROVEN", "n3", 2)), Renumber(In("SAMPLE", "n3", 2), 1), Renumber(Sum("READ_BEFORE", 2), 9), Drop(FreshWrite(1)),
     Renumber(FreshWrite(1), 9), Drop(FreshRead(1)), Renumber(Sum("EXPECTED", 1), 9)}
      \cup (IF x = "whole-group-restart" THEN {Turn(In("REFUSED_READ", "old", 1), "SUCCESS")}
            ELSE {Drop(In("ACCEPT_FORCE", "old", 1)), Add(In("CUT_REACHED", "old", 1), In("CUT_RELEASED", "old", 1)),
                  Turn(In("HELD_WRITE", "old", 1), "SUCCESS"), Drop(In("NETWORK_DROP", "cand", 1)), Early(In("NETWORK_DROP", "cand", 1))})
\* A chosen write that is lost, a minority that serves, a leaked timer, an
\* earlier round's prefix that is gone, a recovery write applied twice.
RoundsBreaches(x) ==
    {Renumber(Sum("READ_BEFORE", 2), 0), Renumber(In("SAMPLE", "cand", 2), 1), Drop(In("PROVEN", "old", 2)),
     Add(FreshWrite(2), Num(FreshWrite(2), 1)), Turn(In("READ_FINAL", "ctl", 2), "NOT_APPLICABLE")}
      \cup (IF x = "whole-group-restart" THEN {Turn(In("REFUSED_WRITE", "old", 2), "SUCCESS")}
            ELSE {Renumber(In("READ_MAJORITY", "old", 2), 0), Turn(In("HELD_WRITE", "cand", 2), "SUCCESS"), Renumber(In("PUBLISHED", "old", 2), 1)})
\* A partition seen from its other end too.
RoundsNoise(x) == IF x = "whole-group-restart" THEN {} ELSE {[after |-> In("PARTITION", "ctl", 2), row |-> In("NETWORK_DROP", "cand", 2)]}

-----------------------------------------------------------------------------
(* Torn records, cancellation and close across a recovery. *)

CombinedCases == {"torn-accept-pressure", "torn-proof-pressure", "cancel-chosen-recovery", "close-pinned-recovery"}
Torn(x)       == x \in {"torn-accept-pressure", "torn-proof-pressure"}
TornAt(x)     == IF x = "torn-accept-pressure" THEN "old" ELSE "cand"
Healthy(x)    == IF ~Torn(x) THEN Everyone ELSE IF TornAt(x) = "old" THEN <<"cand", "n3">> ELSE <<"old", "n3">>
LaneOwner(x) == Healthy(x)[1]
Chosen(x)     == IF x = "torn-proof-pressure" THEN 1 ELSE 0      \* a torn proof is of a chosen bulk

\* torn: the damaged voter refuses, its endpoint stays open so that two
\* reservations can be held, the healthy follower restarts under that pressure.
TornSteps(x) ==
    LET w == TornAt(x) o == LaneOwner(x)
    IN <<Seen("PARTIAL_WRITE", w), SeenO("UNCERTAIN_WRITE", "old", "INDETERMINATE"),
         SeenO("REFUSED_READ", w, "NOT_APPLICABLE"), SeenO("REFUSED_WRITE", w, "NOT_SUBMITTED"),
         Num(Try("READ_SURVIVING", "ctl"), Chosen(x)), SeenG("PRESSURE_HELD", o, 1), SeenG("PRESSURE_HELD", o, 2), SeenN("OUTBOUND_REJECTED", o, 2),
         Stop("n3", "clean"), In("ARCHIVE", "n3", 1), Start("n3", 2), Num(Try("READ_DURING", o), Chosen(x)), Seen("WRITE_DURING", o),
         SeenG("ACCEPT_FORCE", "n3", 2), SeenG("PRESSURE_RELEASED", o, 1), SeenG("PRESSURE_RELEASED", o, 2),
         Stop(w, "clean"), In("ARCHIVE", w, 1), SeenG("PROBE", w, 1), SeenG("PROBE", w, 2), SeenN("QUARANTINED", w, 0)>>

\* lifecycle: a chosen write is cancelled while its acknowledgement is held, or
\* a handle is closed while a captured read is; a majority goes on meanwhile.
RecoverySteps(x) ==
    LET cancel == x = "cancel-chosen-recovery"
    IN <<Seen("ACCEPT_FORCE", "old"), Seen("ACCEPT_FORCE", "n3"),
         Seen(IF cancel THEN "WIRE_AFTER_RESPONSE_READ_ACCEPT" ELSE "READ_CAPTURED", "old"), Seen("CUT_REACHED", "old")>>
         \o (IF cancel THEN <<Seen("CLIENT_CANCEL", "old"), SeenO("HELD", "old", "CANCELLED")>> ELSE <<>>)
         \o <<Ctl("PARTITION"), Seen("NETWORK_DROP", "old"), Num(Try("READ_MAJORITY", "cand"), 1), Seen("WRITE_MAJORITY", "cand"), Ctl("HEAL")>>
         \o (IF cancel THEN <<SeenN("PROMISE_FORCE", "old", 2), Seen("CUT_RELEASED", "old")>>
             ELSE <<Seen("REJOIN_INSTALLED", "old"), Seen("WRITE_WHILE_CLOSING", "cand"), SeenO("CLOSING", "old", "DEADLINE_EXCEEDED"),
                    SeenO("DUPLICATE_START", "old", "STORAGE_FAILURE"), SeenO("CLOSED_WRITE", "old", "CLOSED"), Seen("CUT_RELEASED", "old"),
                    SeenN("HELD", "old", 0), SeenG("CLOSED_HANDLE", "old", 1), SeenG("CLOSED_HANDLE", "old", 2)>>)
         \o <<Stop("old", "clean"), In("ARCHIVE", "old", 1), Start("old", 2)>>

CombinedScript(x) ==
    StartAll \o <<Ctl("SEED"), Try("READ", "ctl")>> \o (IF Torn(x) THEN TornSteps(x) ELSE RecoverySteps(x))
      \o Resume(1) \o Samples(Healthy(x), 1)

\* pressure: both reservations of the peer are held by one process, and what
\* was rejected was rejected with both occupied.
Pressure(rows, o) ==
    /\ \A g \in 1..2 : One(rows, SeenG("PRESSURE_HELD", o, g)) /\ Before(rows, SeenG("PRESSURE_HELD", o, g), SeenG("PRESSURE_RELEASED", o, g))
    /\ \E i \in All(rows, Seen("OUTBOUND_REJECTED", o)) :
        /\ rows[i].n = 2 /\ i > First(rows, SeenG("PRESSURE_HELD", o, 2)) /\ i < First(rows, SeenG("PRESSURE_RELEASED", o, 1))

\* quarantine: the torn record changed nothing that was chosen, the voter did
\* nothing after it, and two processes refused its bytes and left them.
Quarantine(x, rows) ==
    LET w == TornAt(x)
    IN /\ One(rows, Seen("PARTIAL_WRITE", w)) /\ Passed(rows, SeenO("UNCERTAIN_WRITE", "old", "INDETERMINATE"))
       /\ Refused(rows, w, Seen("PARTIAL_WRITE", w))
       /\ \A i \in All(rows, Seen("FORCE_AFTER_TEAR", w)) : FALSE
       /\ \A g \in 1..2 : One(rows, SeenG("PROBE", w, g)) /\ Outcomes(rows, SeenG("PROBE", w, g)) = {"OK"}
       /\ Exact(rows, SeenN("QUARANTINED", w, 0))
       /\ Numbers(rows, Ctl("READ_SURVIVING")) = {Chosen(x)} /\ Numbers(rows, Seen("READ_DURING", LaneOwner(x))) = {Chosen(x)}

\* overlap: the calls lie inside the fault's window.
Overlap(rows, begin, ps, end) == \A p \in ps : Passed(rows, p) /\ Before(rows, begin, p) /\ Before(rows, p, end)

TornValid(x, rows) ==
    LET o == LaneOwner(x)
    IN /\ Quarantine(x, rows) /\ Pressure(rows, o)
       /\ Before(rows, Seen("REFUSED_WRITE", TornAt(x)), SeenG("PRESSURE_HELD", o, 1))
       /\ Overlap(rows, SeenG("STARTED", "n3", 2), {Seen("READ_DURING", o), Seen("WRITE_DURING", o)}, SeenG("PRESSURE_RELEASED", o, 1))
       /\ Overlap(rows, SeenG("PRESSURE_HELD", o, 2), {SeenG("STARTED", "n3", 2)}, SeenG("PRESSURE_RELEASED", o, 1))
       /\ Before(rows, SeenG("PRESSURE_RELEASED", o, 2), SeenO("STOPPED", TornAt(x), "clean")) /\ Some(rows, SeenG("ACCEPT_FORCE", "n3", 2))

LifecycleRecoveryValid(x, rows) ==
    LET held == Seen("CUT_REACHED", "old") released == Seen("CUT_RELEASED", "old")
    IN /\ Paused(rows, "old") /\ \E i \in All(rows, Seen("NETWORK_DROP", "old")) : i > First(rows, held)
       /\ Overlap(rows, Ctl("PARTITION"), {Seen("READ_MAJORITY", "cand"), Seen("WRITE_MAJORITY", "cand")}, Ctl("HEAL"))
       /\ InOrder(rows, <<Ctl("HEAL"), released, Seen("STOPPED", "old")>>)
       /\ IF x = "cancel-chosen-recovery"
          THEN /\ PausedAt(rows, "old", "WIRE_AFTER_RESPONSE_READ_ACCEPT") /\ Passed(rows, SeenO("HELD", "old", "CANCELLED"))
               /\ Crossed(rows, "old", Seen("CLIENT_CANCEL", "old")) /\ HigherBetween(rows, "old", 1)
               /\ \A w \in {"old", "n3"} : Some(rows, Seen("ACCEPT_FORCE", w))
               /\ Numbers(rows, Seen("READ_MAJORITY", "cand")) = {1}
          ELSE /\ PausedAt(rows, "old", "READ_CAPTURED") /\ Exact(rows, SeenN("HELD", "old", 0))
               /\ Crossed(rows, "old", Seen("REJOIN_INSTALLED", "old"))
               /\ \A p \in {SeenO("CLOSING", "old", "DEADLINE_EXCEEDED"), SeenO("DUPLICATE_START", "old", "STORAGE_FAILURE"), SeenO("CLOSED_WRITE", "old", "CLOSED")} :
                    Passed(rows, p) /\ Before(rows, Seen("REJOIN_INSTALLED", "old"), p) /\ Before(rows, p, released)
               /\ Passed(rows, Seen("WRITE_WHILE_CLOSING", "cand"))
               /\ \A g \in 1..2 : Passed(rows, SeenG("CLOSED_HANDLE", "old", g)) /\ Before(rows, Seen("HELD", "old"), SeenG("CLOSED_HANDLE", "old", g))

\* validate
CombinedValid(x, rows) ==
    /\ Processes(rows) /\ RecoveryWrites(rows, 1) /\ Sampled(rows, Healthy(x), 1) /\ AllPassed(rows, {Ctl("READ_FINAL")})
    /\ Some(rows, SeenG("STARTED", IF Torn(x) THEN "n3" ELSE "old", 2))
    /\ IF Torn(x) THEN TornValid(x, rows) ELSE LifecycleRecoveryValid(x, rows)

\* negatives
CombinedNegatives(x) ==
    {Drop(In("ARCHIVE", IF Torn(x) THEN "n3" ELSE "old", 1)), Drop(In("SAMPLE", "n3", 1)), Renumber(In("SAMPLE", "n3", 1), 1),
     Drop(FreshWrite(1)), Renumber(FreshWrite(1), 9), Drop(FreshRead(1)), Renumber(Sum("EXPECTED", 1), 9)}
      \cup (IF Torn(x)
            THEN {Turn(SeenG("PROBE", TornAt(x), 1), "SUCCESS"), Drop(Seen("PARTIAL_WRITE", TornAt(x))), Early(SeenG("PRESSURE_RELEASED", LaneOwner(x), 1)),
                  Drop(Seen("OUTBOUND_REJECTED", LaneOwner(x)))}
            ELSE {Drop(Seen("CUT_REACHED", "old")), Early(Ctl("HEAL")), Turn(Seen("HELD", "old"), "WRONG"),
                  IF x = "cancel-chosen-recovery" THEN Drop(Seen("PROMISE_FORCE", "old")) ELSE Drop(Seen("REJOIN_INSTALLED", "old"))})
\* The quarantined voter goes on, or its bytes are repaired; a cancelled write
\* that was chosen disappears; a close does not wait for the captured read.
CombinedBreaches(x) ==
    {Renumber(In("SAMPLE", Healthy(x)[1], 1), 1), Add(FreshWrite(1), Num(FreshWrite(1), 1))}
      \cup (CASE Torn(x) -> {Add(Seen("PARTIAL_WRITE", TornAt(x)), Seen("FORCE_AFTER_TEAR", TornAt(x))), Renumber(Seen("QUARANTINED", TornAt(x)), 1),
                             Renumber(Ctl("READ_SURVIVING"), 1 - Chosen(x)), Turn(SeenG("PROBE", TornAt(x), 2), "SUCCESS")}
              [] x = "cancel-chosen-recovery" -> {Renumber(Seen("READ_MAJORITY", "cand"), 0), Turn(Seen("HELD", "old"), "OK")}
              [] OTHER -> {Renumber(Seen("HELD", "old"), 1), Turn(Seen("CLOSING", "old"), "OK"), Turn(Seen("DUPLICATE_START", "old"), "OK")})
CombinedNoise(x) == IF Torn(x) THEN {[after |-> SeenG("PRESSURE_HELD", LaneOwner(x), 2), row |-> SeenN("OUTBOUND_REJECTED", LaneOwner(x), 2)]}
                    ELSE {[after |-> Ctl("PARTITION"), row |-> Seen("NETWORK_DROP", "old")]}
=============================================================================
