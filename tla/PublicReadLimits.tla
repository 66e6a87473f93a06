------------------------- MODULE PublicReadLimits --------------------------
(***************************************************************************)
(* Replica reads at their limits: full queues with a permit kept for the    *)
(* writer, no read permit at all, a view held across a wave of mutations, a *)
(* token below the recovery floor, foreign and malformed tokens, a backup   *)
(* and its import, targeted negatives, and the combined hardening cases.    *)
(***************************************************************************)
EXTENDS PublicReadLifecycle

-----------------------------------------------------------------------------
(* Queue saturation.  The cap on reads is 64, here ReadCap; the configured   *)
(* pending limits 4, 65 and 10000 lie below, at and above it.                *)

ReadCap == 2
PendingOf(c) == CASE c = "resource-p4" -> 2 [] c = "resource-p65" -> 3 [] OTHER -> 5
ReadLimit(pending) == IF pending - 1 < ReadCap THEN pending - 1 ELSE ReadCap
ResourceReadCases == {"resource-p4", "resource-p65", "resource-default"}
Waiters(c) == IF ReadLimit(PendingOf(c)) = 1 THEN <<"wait1">> ELSE <<"wait1", "wait2">>

RECURSIVE Joined(_)
Joined(ss) == IF ss = <<>> THEN <<>> ELSE Head(ss) \o Joined(Tail(ss))

Floors(i) == <<At("FLOOR", "leader", 1, "OK", i), At("FLOOR", "near", 1, "OK", i), At("FLOOR", "far", 1, "OK", i)>>
FloorsValid(rows, i, q) == \A w \in {"leader", "near", "far"} : Has(rows, At("FLOOR", w, 1, "OK", i)) /\ Before(rows, At("FLOOR", w, 1, "OK", i), q)

ResourceReadScript(c) ==
    LET pending == PendingOf(c)
        limit == ReadLimit(pending)
        xs == Waiters(c)
    IN Baseline \o Floors(4) \o <<At("BOUND", "plan", 1, "OK", pending)>> \o ReadProbe("baseline", 1, 0, "IDLE")
      \o Joined([k \in 1..limit |-> Opened(xs[k], "leader", 1, AtLeast, 5, k)])
      \o ReadProbe("full", 1, limit, "WAITING") \o TurnedAway("excess", "leader", 1, AtLeast, 5, "CAPACITY_EXCEEDED")
      \o ReadProbe("rejected", 1, limit, "WAITING") \o Write("extra", "leader", 1, 5)
      \o Joined([k \in 1..limit |-> Cut(xs[k], "leader", 1, AtLeast, 5) \o View(xs[k], 1, 5, 4) \o Settled(xs[k], 1)
                                     \o Answer(xs[k], 1, AtLeast, 5, 4) \o Freed(xs[k], 1, limit - k)])
      \o ReadProbe("final", 1, 0, "IDLE") \o Finished("none")

ResourceReadValid(c, rows) ==
    LET limit == ReadLimit(PendingOf(c))
        waiting == {Waiters(c)[k] : k \in 1..limit}
    IN /\ ReadsValid(rows, "none", "none", {"CAPACITY_EXCEEDED"}) /\ PoliciesServed(rows) /\ Ownership(rows, limit, "none")
       /\ Exact(rows, At("BOUND", "plan", 1, "OK", PendingOf(c))) /\ FloorsValid(rows, IndexOf(rows, "carried"), Step("PROBE", "baseline", 1))
       /\ \A label \in {"baseline", "final"} : Exact(rows, At("PROBE", label, 1, "IDLE", 0))
       /\ \A label \in {"full", "rejected"} : Exact(rows, At("PROBE", label, 1, "WAITING", limit))
       /\ InOrder(rows, <<Step("PROBE", "baseline", 1), Step("PROBE", "full", 1), Step("CALL", "excess", 1), Step("REPLY", "excess", 1),
                          Step("PROBE", "rejected", 1), Step("SUBMIT", "extra", 1), Step("WRITE", "extra", 1), Step("PROBE", "final", 1)>>)
       /\ HistoryOf(rows, "excess") = "CAPACITY_EXCEEDED" /\ MinimumOf(rows, "excess") = IndexOf(rows, "carried") + 1
       /\ \A x \in waiting :
            /\ ServedRead(rows, x) /\ MinimumOf(rows, x) = IndexOf(rows, "carried") + 1 /\ IndexOf(rows, x) = MinimumOf(rows, x)
            /\ DocsOf(rows, x) = DocsOf(rows, "carried") + 1
            /\ InOrder(rows, <<Step("PROBE", "baseline", 1), Step("CALL", x, 1), Step("PROBE", "full", 1), Step("SUBMIT", "extra", 1),
                               Step("CALLBACK", x, 1), Step("REPLY", x, 1), Step("PROBE", "final", 1)>>)
       /\ OnlyFailed(rows, {"excess"})

ResourceReadBreaches ==
    {Turn(Step("PROBE", "full", 1), "SHORT"), Drop(Step("FREED", "wait1", 1)), Renumber(Step("PROBE", "rejected", 1), 3),
     Add(Step("INVOKED", "excess", 1), At("ADMITTED", "excess", 1, "OK", 3)), Turn(Step("HISTORY", "excess", 1), "SUCCESS"),
     Early(Step("CALLBACK", "wait1", 1)), Renumber(Step("CAPTURE", "wait1", 1), 4), Drop(Step("FLOOR", "far", 1)),
     Renumber(Step("BOUND", "plan", 1), 4), Early(Step("SUBMIT", "extra", 1))}

-----------------------------------------------------------------------------
(* One slot: no explicit read is ever owned, and the old calls still work.   *)

Legacy(x, i, docs) ==
    <<At("LEGACY", x, 1, "leader", 0), At("BARRIER", x, 1, "FRESH", i)>> \o Published("leader", 1, i)
      \o <<At("LEGACY_CAPTURE", x, 1, "OK", i), At("LEGACY_RELEASED", x, 1, "OK", i), At("LEGACY_REPLY", x, 1, "SUCCESS", docs)>>

SingleSlotScript ==
    <<Start("leader", 1), At("RESTORED", "leader", 1, "OK", 0), Start("near", 1), At("RESTORED", "near", 1, "OK", 0),
      Start("far", 1), At("RESTORED", "far", 1, "OK", 0), At("BOUND", "plan", 1, "OK", 1)>>
      \o Write("w1", "leader", 1, 1) \o Write("w2", "leader", 1, 2) \o Write("w3", "leader", 1, 3)
      \o Legacy("old1", 4, 3) \o Legacy("old2", 5, 3) \o Floors(5) \o ReadProbe("baseline", 1, 0, "IDLE")
      \o TurnedAway("carried", "leader", 1, Strong, 0, "CAPACITY_EXCEEDED")
      \o TurnedAway("stale", "leader", 1, Stale, 0, "CAPACITY_EXCEEDED")
      \o TurnedAway("minimum", "leader", 1, AtLeast, 5, "CAPACITY_EXCEEDED") \o ReadProbe("rejected", 1, 0, "IDLE")
      \o Write("extra", "leader", 1, 6) \o Legacy("old3", 7, 4) \o ReadProbe("final", 1, 0, "IDLE") \o Finished("none")

LegacyValid(rows, x) ==
    LET i == NumberOf(rows, Step("LEGACY_CAPTURE", x, 1))
    IN /\ One(rows, Step("LEGACY_CAPTURE", x, 1)) /\ Exact(rows, At("LEGACY_RELEASED", x, 1, "OK", i))
       /\ Exact(rows, At("BARRIER", x, 1, "FRESH", i)) /\ Has(rows, At("PUBLISHED", "leader", 1, "OK", i))
       /\ InOrder(rows, <<Step("LEGACY", x, 1), Step("BARRIER", x, 1), Step("LEGACY_CAPTURE", x, 1), Step("LEGACY_RELEASED", x, 1),
                          Step("LEGACY_REPLY", x, 1)>>)
       /\ Exact(rows, At("LEGACY_REPLY", x, 1, "SUCCESS", Contents(rows, i)))

SingleSlotValid(rows) ==
    /\ ReadsValid(rows, "none", "none", {"CAPACITY_EXCEEDED"}) /\ Ownership(rows, 0, "none")
    /\ Exact(rows, At("BOUND", "plan", 1, "OK", 1))
    /\ \A label \in {"baseline", "rejected", "final"} : Exact(rows, At("PROBE", label, 1, "IDLE", 0))
    /\ {PolicyOf(rows, x) : x \in {y \in ReadsOf(rows) : ~ServedRead(rows, y)}} = {Strong, Stale, AtLeast}
    /\ OnlyFailed(rows, {"carried", "stale", "minimum"})
    /\ \A x \in {"carried", "stale", "minimum"} :
         InOrder(rows, <<Step("PROBE", "baseline", 1), Step("CALL", x, 1), Step("REPLY", x, 1), Step("PROBE", "rejected", 1)>>)
    /\ \A x \in {"old1", "old2", "old3"} : LegacyValid(rows, x)
    /\ InOrder(rows, <<Step("PROBE", "rejected", 1), Step("SUBMIT", "extra", 1), Step("WRITE", "extra", 1), Step("LEGACY", "old3", 1),
                       Step("LEGACY_REPLY", "old3", 1), Step("PROBE", "final", 1)>>)

SingleSlotNegatives ==
    {Drop(Step("LEGACY_CAPTURE", "old3", 1)), Drop(Step("LEGACY_RELEASED", "old1", 1)), Renumber(Step("LEGACY_REPLY", "old3", 1), 3),
     Turn(Step("PROBE", "final", 1), "SHORT"), Turn(Step("HISTORY", "stale", 1), "SUCCESS")}
SingleSlotBreaches == SingleSlotNegatives \cup
    {Add(Step("INVOKED", "stale", 1), At("ADMITTED", "stale", 1, "OK", 1)), Turn(Step("BARRIER", "old2", 1), "REUSED"),
     Early(Step("SUBMIT", "extra", 1)), Renumber(Step("BOUND", "plan", 1), 2)}

-----------------------------------------------------------------------------
(* A view held across a wave of mutations (seven in the code, three here).   *)

ApplicationCases == {"application-strong", "application-stale", "application-minimum"}
ApplicationPolicy(c) == CASE c = "application-strong" -> Strong [] c = "application-stale" -> Stale [] OTHER -> AtLeast
CutIndex(c) == IF c = "application-strong" THEN 5 ELSE 4
MutationWave == <<"update", "remove", "index">>

ApplicationScript(c) ==
    LET p == ApplicationPolicy(c)
        i == CutIndex(c)
        report == <<At("REPORT", "target", 1, "OK", 3)>>
    IN Baseline \o Opened("target", "leader", 1, p, IF p = AtLeast THEN 4 ELSE 0, 1) \o Cut("target", "leader", 1, p, i)
      \o <<Step("CALLBACK", "target", 1)>> \o report \o <<Seen("PAUSED", "leader")>>
      \o [k \in 1..3 |-> At("SUBMIT", MutationWave[k], 1, "leader", i + k)] \o <<Seen("RESUMED", "leader")>> \o report
      \o <<At("VIEW_RELEASED", "target", 1, "OK", i)>> \o Settled("target", 1) \o Answer("target", 1, p, i, 3) \o Freed("target", 1, 0)
      \o Joined([k \in 1..3 |-> Published("leader", 1, i + k) \o <<At("WRITE", MutationWave[k], 1, "SUCCESS", i + k)>>])
      \o Read("later", "leader", 1, Strong, 0, i + 4, 6) \o Read("minimum", "leader", 1, AtLeast, 4, i + 4, 6) \o Finished("none")

ApplicationValid(c, rows) ==
    LET reports == All(rows, Step("REPORT", "target", 1))
        first == First(rows, Step("REPORT", "target", 1))
        second == LatestOf(rows, Step("REPORT", "target", 1))
    IN /\ ReadsValid(rows, "none", "none", {}) /\ PoliciesServed(rows) /\ Ownership(rows, 15, "none") /\ OnlyFailed(rows, {})
       /\ PolicyOf(rows, "target") = ApplicationPolicy(c) /\ Cardinality(reports) = 2 /\ PauseHeld(rows, "leader")
       /\ first < First(rows, Seen("PAUSED", "leader")) /\ First(rows, Seen("RESUMED", "leader")) < second
       /\ ~\E i \in All(rows, Step("PUBLISHED", "leader", 1)) : first < i /\ i < second
       /\ \A k \in 1..3 :
            /\ One(rows, Step("SUBMIT", MutationWave[k], 1)) /\ One(rows, Step("WRITE", MutationWave[k], 1))
            /\ During(rows, "leader", Step("SUBMIT", MutationWave[k], 1))
            /\ \E i \in All(rows, Step("PUBLISHED", "leader", 1)) :
                 /\ First(rows, Seen("RESUMED", "leader")) < i /\ i < First(rows, Step("WRITE", MutationWave[k], 1))
                 /\ rows[i].n = NumberOf(rows, Step("SUBMIT", MutationWave[k], 1))
            /\ Before(rows, Step("WRITE", MutationWave[k], 1), Step("CALL", "later", 1))
       /\ DocsOf(rows, "later") = DocsOf(rows, "carried") + 3 /\ SameDocs(rows, "minimum", "later")
       /\ Carries(rows, "minimum", "carried")

ApplicationBreaches ==
    {Renumber(Step("REPORT", "target", 1), 4), Early(Step("WRITE", "remove", 1)), Drop(Step("WRITE", "index", 1)),
     Add(Seen("PAUSED", "leader"), At("PUBLISHED", "leader", 1, "OK", 4)), Early(Step("SUBMIT", "update", 1)),
     Early(Seen("RESUMED", "leader")), Renumber(Step("DOCS", "later", 1), 5)}

-----------------------------------------------------------------------------
(* A token below the floor; tokens of another group, or of no format.        *)

CompactionScript ==
    Baseline \o <<At("FLOOR", "leader", 1, "OLD", 4), SeenO("SELECTED", "leader", "near"), Seen("PARTITIONED", "far"), Seen("DROPPED", "far")>>
      \o Write("extra", "leader", 1, 5) \o <<Seen("DELETED", "leader"), At("NEW_FLOOR", "leader", 1, "TWO_SOURCES", 5)>>
      \o Read("leader-read", "leader", 1, AtLeast, 4, 5, 4)
      \o <<Seen("HEALED", "far")>> \o Installed("far", 1, 5) \o <<At("NEW_FLOOR", "far", 1, "TWO_SOURCES", 5)>>
      \o Read("follower-read", "far", 1, AtLeast, 4, 5, 4) \o <<SeenO("GENERATION", "leader", "GONE"), SeenO("JOURNALS", "leader", "EMPTY"),
         SeenO("JOURNALS", "far", "EMPTY")>> \o Finished("none")
CompactionValid(rows) ==
    /\ ReadsValid(rows, "none", "none", {}) /\ PoliciesServed(rows) /\ Ownership(rows, 15, "none") /\ OnlyFailed(rows, {})
    /\ Exact(rows, SeenO("SELECTED", "leader", "near")) /\ Exact(rows, At("FLOOR", "leader", 1, "OLD", IndexOf(rows, "carried")))
    /\ \A w \in {"leader", "far"} :
         LET x == IF w = "leader" THEN "leader-read" ELSE "follower-read"
             floor == NumberOf(rows, Step("NEW_FLOOR", w, 1))
         IN /\ Exact(rows, At("NEW_FLOOR", w, 1, "TWO_SOURCES", floor)) /\ floor > IndexOf(rows, "carried")
            /\ Before(rows, Step("NEW_FLOOR", w, 1), Step("CALL", x, 1)) /\ Exact(rows, SeenO("JOURNALS", w, "EMPTY"))
            /\ Carries(rows, x, "carried") /\ IndexOf(rows, x) = floor /\ DocsOf(rows, x) = DocsOf(rows, "carried") + 1
    /\ Exact(rows, SeenO("GENERATION", "leader", "GONE"))
    /\ InOrder(rows, <<Step("FLOOR", "leader", 1), Seen("DELETED", "leader"), Step("NEW_FLOOR", "leader", 1)>>)
    /\ Before(rows, Step("INSTALLED", "far", 1), Step("CALL", "follower-read", 1)) /\ Some(rows, Seen("DROPPED", "far"))
CompactionNegatives ==
    {Drop(Step("NEW_FLOOR", "leader", 1)), Drop(Step("NEW_FLOOR", "far", 1)), Drop(Seen("DELETED", "leader"))}
CompactionBreaches == CompactionNegatives \cup
    {Turn(Seen("GENERATION", "leader"), "KEPT"), Turn(Seen("JOURNALS", "far"), "ROWS"), Turn(Step("NEW_FLOOR", "far", 1), "ONE_SOURCE"),
     Renumber(Step("INVOKED", "leader-read", 1), 3), Drop(Step("INSTALLED", "far", 1)), Renumber(Step("DOCS", "follower-read", 1), 3)}

\* variants: which tokens are refused, and why.
ForeignTokens   == {"group", "history", "manifest"}
MalformedTokens == {"version", "reserved", "trailing", "checksum"}
TokenReason(x) ==
    CASE x \in ForeignTokens -> "INCOMPATIBLE_HISTORY"
      [] x = "version" -> "UNSUPPORTED_TOKEN_VERSION"
      [] x = "maximum" -> "PROGRESS_NOT_REACHED"
      [] OTHER -> "INVALID_TOKEN"
ForeignRefusal(x, w) == <<Step("FOREIGN_TOKEN", x, 1)>> \o TurnedAway(x, w, 1, AtLeast, 4, "INCOMPATIBLE_HISTORY")
MalformedRefusal(x, w) == <<At("CALL", x, 1, w, 0)>> \o Replied(x, 1, TokenReason(x), 0)

IdentityScript ==
    Baseline \o ReadProbe("baseline", 1, 0, "IDLE")
      \o Joined(<<ForeignRefusal("group", "near"), ForeignRefusal("history", "near"), ForeignRefusal("manifest", "near"),
                  MalformedRefusal("version", "near"), MalformedRefusal("reserved", "near"), MalformedRefusal("trailing", "near"),
                  MalformedRefusal("checksum", "near"), RefusedRead("maximum", "near", 1, AtLeast, FarAhead, "PROGRESS_NOT_REACHED")>>)
      \o ReadProbe("rejected", 1, 0, "IDLE") \o Opened("waiting", "near", 1, AtLeast, FarAhead, 1) \o ReadProbe("waiting", 1, 1, "WAITING")
      \o Settled("waiting", 1) \o Replied("waiting", 1, "CANCELLED", 0) \o Freed("waiting", 1, 0) \o <<SeenO("CANCEL", "waiting", "TRUE")>>
      \o ReadProbe("final", 1, 0, "IDLE") \o Read("after", "near", 1, AtLeast, 4, 4, 3) \o Finished("none")
IdentityValid(rows) ==
    LET refused == ForeignTokens \cup MalformedTokens \cup {"maximum"}
    IN /\ ReadsValid(rows, "none", "none", {"CANCELLED"} \cup {TokenReason(x) : x \in refused})
       /\ PoliciesServed(rows) /\ Ownership(rows, 15, "none")
       /\ \A x \in refused : One(rows, Step("CALL", x, 1)) /\ HistoryOf(rows, x) = TokenReason(x)
       /\ \A x \in refused \ {"maximum"} : NoRow(rows, x, "ADMITTED")
       /\ One(rows, Step("ADMITTED", "maximum", 1))
       /\ \A label \in {"baseline", "rejected", "final"} : Exact(rows, At("PROBE", label, 1, "IDLE", 0))
       /\ Exact(rows, At("PROBE", "waiting", 1, "WAITING", 1))
       /\ HistoryOf(rows, "waiting") = "CANCELLED" /\ NoRow(rows, "waiting", "CALLBACK") /\ Exact(rows, SeenO("CANCEL", "waiting", "TRUE"))
       /\ Carries(rows, "after", "carried") /\ SameDocs(rows, "after", "carried") /\ OnlyFailed(rows, refused \cup {"waiting"})
IdentityNegatives == {Turn(Step("HISTORY", "history", 1), "INVALID_TOKEN")}
IdentityBreaches == IdentityNegatives \cup
    {Add(Step("CALL", "reserved", 1), At("INVOKED", "reserved", 1, AtLeast, 4)), Drop(Step("ADMITTED", "maximum", 1)),
     Add(Step("INVOKED", "group", 1), At("ADMITTED", "group", 1, "OK", 1)), Renumber(Step("PROBE", "rejected", 1), 1),
     Turn(Seen("CANCEL", "waiting"), "FALSE"), Add(Step("INVOKED", "waiting", 1), Step("CALLBACK", "waiting", 1)),
     Renumber(Step("DOCS", "after", 1), 2), Drop(Step("FOREIGN_TOKEN", "manifest", 1))}

-----------------------------------------------------------------------------
(* A backup taken under its own barrier, and the group made from it.         *)

ImportCases == {"backup-export", "backup-import"}
ImportScript(c) ==
    Baseline \o
    (IF c = "backup-export"
     THEN Legacy("backup", 5, 3) \o <<At("BACKUP", "file", 1, "CONTENT", 3)>>
     ELSE ForeignRefusal("old", "leader") \o Read("fresh", "leader", 1, AtLeast, 4, 4, 3)
            \o <<SeenO("IDENTITY", "group", "NEW"), SeenO("IDENTITY", "history", "NEW"), SeenO("IDENTITY", "manifest", "NEW"),
                 SeenO("SEED", "members", "EQUAL"), At("BACKUP", "file", 1, "CONTENT", 3), SeenO("TOKEN_ONLY", "probe", "STORAGE_FAILURE"),
                 SeenO("AUTHORITY", "probe", "ABSENT")>>)
    \o Finished("none")
\* backup_report, schedule and pair.
ImportValid(c, rows) ==
    /\ ReadsValid(rows, "none", "none", IF c = "backup-import" THEN {"INCOMPATIBLE_HISTORY"} ELSE {})
    /\ PoliciesServed(rows) /\ Ownership(rows, 15, "none")
    /\ Exact(rows, At("BACKUP", "file", 1, "CONTENT", 3))
    /\ IF c = "backup-export"
       THEN /\ LegacyValid(rows, "backup") /\ NumberOf(rows, Step("LEGACY_REPLY", "backup", 1)) = NumberOf(rows, Step("BACKUP", "file", 1))
            /\ OnlyFailed(rows, {})
       ELSE /\ HistoryOf(rows, "old") = "INCOMPATIBLE_HISTORY" /\ Carries(rows, "fresh", "carried") /\ OnlyFailed(rows, {"old"})
            /\ AllPassed(rows, {SeenO("IDENTITY", "group", "NEW"), SeenO("IDENTITY", "history", "NEW"), SeenO("IDENTITY", "manifest", "NEW"),
                                SeenO("SEED", "members", "EQUAL"), SeenO("AUTHORITY", "probe", "ABSENT")})
            /\ Outcomes(rows, Seen("TOKEN_ONLY", "probe")) \in {{"STORAGE_FAILURE"}, {"INTEGRITY_FAILURE"}}
ImportBreaches(c) ==
    {Turn(Step("BACKUP", "file", 1), "FORGED")} \cup
    (IF c = "backup-export"
     THEN {Drop(Step("LEGACY_CAPTURE", "backup", 1)), Turn(Step("BARRIER", "backup", 1), "REUSED"), Renumber(Step("BACKUP", "file", 1), 2),
           Early(Step("LEGACY_RELEASED", "backup", 1))}
     ELSE {Turn(Seen("IDENTITY", "history"), "OLD"), Turn(Seen("SEED", "members"), "OTHER"), Turn(Seen("TOKEN_ONLY", "probe"), "SUCCESS"),
           Turn(Seen("AUTHORITY", "probe"), "PRESENT"), Add(Step("INVOKED", "old", 1), At("ADMITTED", "old", 1, "OK", 1)),
           Renumber(Step("INVOKED", "fresh", 1), 3)})

-----------------------------------------------------------------------------
(* The targeted negatives N01 to N16 on one run with an expired and a        *)
(* cancelled read.                                                           *)

NegativeScript ==
    Baseline \o Opened("expired", "far", 1, AtLeast, FarAhead, 1) \o <<Step("EXPIRED", "expired", 1)>> \o Settled("expired", 1)
      \o Replied("expired", 1, "DEADLINE_EXCEEDED", 0) \o Freed("expired", 1, 0)
      \o Opened("cancelled", "far", 1, Stale, 0, 1) \o <<Seen("PAUSED", "far")>> \o Settled("cancelled", 1)
      \o Replied("cancelled", 1, "CANCELLED", 0) \o Freed("cancelled", 1, 0) \o <<SeenO("CANCEL", "cancelled", "TRUE"), Seen("RESUMED", "far")>>
      \o Read("after", "far", 1, AtLeast, 4, 4, 3) \o Finished("none")
NegativeValid(rows) ==
    /\ ReadsValid(rows, "none", "none", {"DEADLINE_EXCEEDED", "CANCELLED"}) /\ PoliciesServed(rows) /\ Ownership(rows, 15, "none")
    /\ HistoryOf(rows, "expired") = "DEADLINE_EXCEEDED" /\ HistoryOf(rows, "cancelled") = "CANCELLED"
    /\ \A x \in {"expired", "cancelled"} : NoRow(rows, x, "CALLBACK")
    /\ PolicyOf(rows, "expired") = AtLeast /\ MinimumOf(rows, "expired") = FarAhead
    /\ Exact(rows, SeenO("CANCEL", "cancelled", "TRUE")) /\ Before(rows, Step("HISTORY", "cancelled", 1), Seen("CANCEL", "cancelled"))
    /\ PauseHeld(rows, "far") /\ During(rows, "far", Step("REPLY", "cancelled", 1)) /\ OnlyFailed(rows, {"expired", "cancelled"})
TargetedNegatives ==
    ReadNegatives \cup OwnershipNegatives \cup
    {Turn(Step("HISTORY", "expired", 1), "SUCCESS"), Turn(Step("HISTORY", "cancelled", 1), "SUCCESS"),
     Early(Step("CALL", "carried", 1)), Add(Step("VIEW_RELEASED", "carried", 1), Step("CALLBACK", "carried", 1)),
     Renumber(Step("ADMITTED", "carried", 1), 0), Turn(Seen("BINDING", "bundle"), "BORROWED"), Turn(Seen("INVENTORY", "bundle"), "ALTERED")}

-----------------------------------------------------------------------------
(* Hardening: a held view across a partition and a crash, and rounds of      *)
(* sustained pressure under four permits, three of them for reads.           *)

ReadHardeningCases == {"partition-halt", "partition-kill", "sustained"}
Cycles == <<"a", "b">>      \* rounds, each chained to the one before

HeldReport(x, docs) == <<Step("CALLBACK", x, 1), At("REPORT", x, 1, "OK", docs), At("HELD", x, 1, "OK", 0)>>
PartitionScript(c) ==
    Floors(4) \o ReadProbe("baseline", 1, 0, "IDLE") \o Opened("target", "leader", 1, Stale, 0, 1) \o Cut("target", "leader", 1, Stale, 4)
      \o HeldReport("target", 3) \o Opened("queued", "leader", 1, AtLeast, FarAhead, 2) \o ReadProbe("full", 1, 2, "CAPTURED")
      \o Settled("queued", 1) \o Replied("queued", 1, "CANCELLED", 0) \o Freed("queued", 1, 1) \o <<SeenO("CANCEL", "queued", "TRUE")>>
      \o ReadProbe("held", 1, 1, "CAPTURED") \o <<Seen("PARTITIONED", "leader"), Seen("DROPPED", "leader")>>
      \o Write("extra", "near", 1, 5) \o Read("later", "near", 1, Strong, 0, 6, 4) \o <<At("NEW_FLOOR", "near", 1, "TWO_SOURCES", 6),
         Seen("HEALED", "leader"), At("PROMISE", "leader", 1, "near", 2), At("LET_GO", "target", 1, "OK", 0), At("REPORT", "target", 1, "OK", 3),
         At("VIEW_RELEASED", "target", 1, "OK", 4)>>
      \o Died("leader", ReadMode(c), 4) \o <<At("HISTORY", "target", 1, "PENDING", 0)>> \o Restarted("leader", 4, 6)
      \o Read("recovered", "leader", 2, AtLeast, 4, 6, 4) \o ReadProbe("final", 2, 0, "IDLE")

\* The names of one round's calls.
InCycle(k, x) == [a |-> [target |-> "target-a", waiting |-> "waiting-a", queued |-> "queued-a", excess |-> "excess-a", expiry |-> "expiry-a",
                         writer |-> "writer-a", later |-> "later-a"],
                  b |-> [target |-> "target-b", waiting |-> "waiting-b", queued |-> "queued-b", excess |-> "excess-b", expiry |-> "expiry-b",
                         writer |-> "writer-b", later |-> "later-b"]][k][x]
ProbeIn(k, label, owned, avail) == At("PROBE_" \o label, k, 1, "OK", 10 * owned + avail)
CancelledRow(x, owned) ==
    Settled(x, 1) \o Replied(x, 1, "CANCELLED", 0) \o Freed(x, 1, owned) \o <<SeenO("CANCEL", x, "TRUE")>>
CycleScript(k, i, docs) ==
    LET x(n) == InCycle(k, n)
    IN Floors(i) \o <<ProbeIn(k, "BASELINE", 0, 4)>> \o Opened(x("target"), "leader", 1, Stale, 0, 1) \o Cut(x("target"), "leader", 1, Stale, i)
      \o HeldReport(x("target"), docs) \o Opened(x("waiting"), "leader", 1, AtLeast, FarAhead, 2) \o Opened(x("queued"), "leader", 1, Stale, 0, 3)
      \o <<ProbeIn(k, "FULL", 3, 1)>> \o TurnedAway(x("excess"), "leader", 1, Stale, 0, "CAPACITY_EXCEEDED")
      \o <<At("SUBMIT", x("writer"), 1, "leader", i + 1), ProbeIn(k, "WRITER", 3, 0)>> \o CancelledRow(x("queued"), 2) \o <<ProbeIn(k, "QUEUED", 2, 1)>>
      \o Opened(x("expiry"), "leader", 1, AtLeast, FarAhead, 3) \o <<Step("EXPIRED", x("expiry"), 1)>> \o Settled(x("expiry"), 1)
      \o Replied(x("expiry"), 1, "DEADLINE_EXCEEDED", 0) \o Freed(x("expiry"), 1, 2) \o <<ProbeIn(k, "EXPIRY", 2, 1)>>
      \o CancelledRow(x("waiting"), 1) \o <<ProbeIn(k, "WAITING", 1, 2)>>
      \o Replied(x("target"), 1, "CANCELLED", 0) \o <<SeenO("CANCEL", x("target"), "TRUE"), ProbeIn(k, "CAPTURED", 1, 2),
         At("LET_GO", x("target"), 1, "OK", 0), At("REPORT", x("target"), 1, "OK", docs), At("VIEW_RELEASED", x("target"), 1, "OK", i)>>
      \o Settled(x("target"), 1) \o Freed(x("target"), 1, 0) \o Published("leader", 1, i + 1) \o <<At("WRITE", x("writer"), 1, "SUCCESS", i + 1)>>
      \o Read(x("later"), "leader", 1, Stale, 0, i + 1, docs + 1) \o <<ProbeIn(k, "FINAL", 0, 4)>>

ReadHardeningScript(c) ==
    Baseline \o (IF c = "sustained" THEN CycleScript("a", 4, 3) \o CycleScript("b", 5, 4) \o Floors(6) ELSE PartitionScript(c))
             \o Finished(IF c = "sustained" THEN "none" ELSE "leader")

\* repeated: both reports of the held view agree, and nothing was published
\* between them.
RepeatedView(rows, x) ==
    LET first == First(rows, Step("REPORT", x, 1))
        second == LatestOf(rows, Step("REPORT", x, 1))
    IN /\ Cardinality(All(rows, Step("REPORT", x, 1))) = 2 /\ PolicyOf(rows, x) = Stale
       /\ One(rows, Step("HELD", x, 1)) /\ One(rows, Step("LET_GO", x, 1))
       /\ first < First(rows, Step("HELD", x, 1)) /\ First(rows, Step("HELD", x, 1)) < First(rows, Step("LET_GO", x, 1))
       /\ First(rows, Step("LET_GO", x, 1)) < second
       /\ ~\E i \in All(rows, Step("PUBLISHED", "leader", 1)) : first < i /\ i < second
CancelValid(rows, x, captured) ==
    /\ HistoryOf(rows, x) = "CANCELLED" /\ Exact(rows, SeenO("CANCEL", x, "TRUE"))
    /\ Before(rows, Step("HISTORY", x, 1), Seen("CANCEL", x)) /\ Some(rows, Step("CALLBACK", x, 1)) = captured

PartitionValid(c, rows) ==
    /\ DeathValid(rows, "leader", ReadMode(c), "target") /\ HistoryOf(rows, "target") = "PENDING" /\ RepeatedView(rows, "target")
    /\ FloorsValid(rows, IndexOf(rows, "carried"), Step("PROBE", "baseline", 1))
    /\ Exact(rows, At("PROBE", "baseline", 1, "IDLE", 0)) /\ Exact(rows, At("PROBE", "full", 1, "CAPTURED", 2))
    /\ Exact(rows, At("PROBE", "held", 1, "CAPTURED", 1)) /\ Exact(rows, At("PROBE", "final", 2, "IDLE", 0))
    /\ CancelValid(rows, "queued", FALSE) /\ MinimumOf(rows, "queued") = FarAhead
    /\ InOrder(rows, <<Step("PROBE", "baseline", 1), Step("REPORT", "target", 1), Step("HELD", "target", 1), Step("PROBE", "full", 1),
                       Seen("CANCEL", "queued"), Step("PROBE", "held", 1), Step("PROMISE", "leader", 1), Step("LET_GO", "target", 1)>>)
    /\ Exact(rows, At("PROMISE", "leader", 1, "near", 2)) /\ Some(rows, Seen("DROPPED", "leader"))
    /\ NodeOf(rows, "later") = "near" /\ Exact(rows, At("SUBMIT", "extra", 1, "near", NumberOf(rows, Step("WRITE", "extra", 1))))
    /\ InOrder(rows, <<Seen("CANCEL", "queued"), Step("SUBMIT", "extra", 1), Step("WRITE", "extra", 1), Step("CALL", "later", 1)>>)
    /\ Exact(rows, At("NEW_FLOOR", "near", 1, "TWO_SOURCES", IndexOf(rows, "later")))
    /\ Carries(rows, "recovered", "carried") /\ GenOf(rows, "recovered") = 2 /\ SameDocs(rows, "recovered", "later")
    /\ IndexOf(rows, "recovered") >= IndexOf(rows, "later") /\ OnlyFailed(rows, {"target", "queued"})

CycleValid(k, previous, rows) ==
    LET x(n) == InCycle(k, n)
        probe(label) == Step("PROBE_" \o label, k, 1)
    IN /\ RepeatedView(rows, x("target")) /\ FloorsValid(rows, IndexOf(rows, previous), probe("BASELINE"))
       /\ Exact(rows, ProbeIn(k, "BASELINE", 0, 4)) /\ Exact(rows, ProbeIn(k, "FULL", 3, 1)) /\ Exact(rows, ProbeIn(k, "WRITER", 3, 0))
       /\ Exact(rows, ProbeIn(k, "QUEUED", 2, 1)) /\ Exact(rows, ProbeIn(k, "EXPIRY", 2, 1)) /\ Exact(rows, ProbeIn(k, "WAITING", 1, 2))
       /\ Exact(rows, ProbeIn(k, "CAPTURED", 1, 2)) /\ Exact(rows, ProbeIn(k, "FINAL", 0, 4))
       /\ CancelValid(rows, x("queued"), FALSE) /\ CancelValid(rows, x("waiting"), FALSE) /\ CancelValid(rows, x("target"), TRUE)
       /\ HistoryOf(rows, x("excess")) = "CAPACITY_EXCEEDED" /\ HistoryOf(rows, x("expiry")) = "DEADLINE_EXCEEDED"
       /\ InOrder(rows, <<probe("BASELINE"), Step("REPORT", x("target"), 1), Step("HELD", x("target"), 1), probe("FULL"), Step("CALL", x("excess"), 1),
                          Step("REPLY", x("excess"), 1), Step("SUBMIT", x("writer"), 1), probe("WRITER"), Seen("CANCEL", x("queued")), probe("QUEUED"),
                          Step("CALL", x("expiry"), 1), Step("REPLY", x("expiry"), 1), probe("EXPIRY"), Seen("CANCEL", x("waiting")), probe("WAITING"),
                          Seen("CANCEL", x("target")), probe("CAPTURED"), Step("LET_GO", x("target"), 1), Step("WRITE", x("writer"), 1),
                          Step("CALL", x("later"), 1), Step("REPLY", x("later"), 1), probe("FINAL")>>)
       /\ ServedRead(rows, x("later")) /\ DocsOf(rows, x("later")) = DocsOf(rows, previous) + 1
       /\ IndexOf(rows, x("later")) > IndexOf(rows, previous)

ReadHardeningValid(c, rows) ==
    LET dead == IF c = "sustained" THEN "none" ELSE "leader"
        failed == {InCycle(k, n) : k \in {"a", "b"}, n \in {"target", "waiting", "queued", "excess", "expiry"}}
    IN /\ ReadsValid(rows, dead, ReadMode(c), {"CANCELLED", "CAPACITY_EXCEEDED", "DEADLINE_EXCEEDED"})
       /\ PoliciesServed(rows) /\ Ownership(rows, IF c = "sustained" THEN 3 ELSE 15, dead)
       /\ IF c = "sustained"
          THEN /\ CycleValid("a", "carried", rows) /\ CycleValid("b", "later-a", rows) /\ OnlyFailed(rows, failed)
               /\ \A w \in {"leader", "near", "far"} : Has(rows, At("FLOOR", w, 1, "OK", IndexOf(rows, "later-b")))
          ELSE PartitionValid(c, rows)

ReadHardeningNegatives(c) ==
    IF c = "sustained" THEN {Drop(Step("FLOOR", "far", 1)), Drop(Seen("CANCEL", "queued-a")), Drop(Step("LET_GO", "target-b", 1)), Renumber(Step("REPORT", "target-a", 1), 0)}
    ELSE {Drop(Step("FLOOR", "far", 1)), Drop(Seen("CANCEL", "queued")), Drop(Step("SAVED", "leader", 1)), Drop(Step("PROBE", "final", 2)), Renumber(Step("REPORT", "target", 1), 0)}
ReadHardeningBreaches(c) ==
    ReadHardeningNegatives(c) \cup
    (IF c = "sustained"
     THEN {Renumber(Step("PROBE_WRITER", "a", 1), 31), Renumber(Step("PROBE_CAPTURED", "b", 1), 4), Early(Step("WRITE", "writer-a", 1)),
           Drop(Step("EXPIRED", "expiry-b", 1)), Turn(Step("HISTORY", "excess-a", 1), "SUCCESS"), Drop(Step("WRITE", "writer-b", 1)),
           Add(Step("HELD", "target-a", 1), At("PUBLISHED", "leader", 1, "OK", 4)), Early(Step("FREED", "target-b", 1))}
     ELSE DeathBreaches("leader") \cup
          {Drop(Step("PROMISE", "leader", 1)), Turn(Step("PROMISE", "leader", 1), "far"), Drop(Step("NEW_FLOOR", "near", 1)),
           Drop(Seen("DROPPED", "leader")), Renumber(Step("PROBE", "full", 1), 1), Early(Step("SUBMIT", "extra", 1)),
           Renumber(Step("DOCS", "recovered", 2), 3), Turn(Step("HISTORY", "target", 1), "SUCCESS")})
-----------------------------------------------------------------------------
(* The harnesses as cases of the matrix. *)

ReadCases ==
    {Case("read-fault", x) : x \in FaultCases} \cup {Case("read-protocol", x) : x \in ReadProtocolCases}
      \cup {Case("read-lifecycle", x) : x \in ReadLifecycleCases} \cup {Case("read-resource", x) : x \in ResourceReadCases}
      \cup {Case("read-application", x) : x \in ApplicationCases} \cup {Case("read-import", x) : x \in ImportCases}
      \cup {Case("read-hardening", x) : x \in ReadHardeningCases}
      \cup {Case("read-slot", "single"), Case("read-compaction", "floor"), Case("read-identity", "variants"), Case("read-negative", "targeted")}
ReadFamilies == {c.family : c \in ReadCases}

PublicReadScript(c) ==
    CASE c.family = "read-fault"       -> ReadFaultScript(c.cut)
      [] c.family = "read-protocol"    -> ReadProtocolScript(c.cut)
      [] c.family = "read-lifecycle"   -> ReadLifecycleScript(c.cut)
      [] c.family = "read-resource"    -> ResourceReadScript(c.cut)
      [] c.family = "read-application" -> ApplicationScript(c.cut)
      [] c.family = "read-import"      -> ImportScript(c.cut)
      [] c.family = "read-hardening"   -> ReadHardeningScript(c.cut)
      [] c.family = "read-slot"        -> SingleSlotScript
      [] c.family = "read-compaction"  -> CompactionScript
      [] c.family = "read-identity"    -> IdentityScript
      [] c.family = "read-negative"    -> NegativeScript

PublicReadValid(c, rows) ==
    CASE c.family = "read-fault"       -> ReadFaultValid(c.cut, rows)
      [] c.family = "read-protocol"    -> ReadProtocolValid(c.cut, rows)
      [] c.family = "read-lifecycle"   -> ReadLifecycleValid(c.cut, rows)
      [] c.family = "read-resource"    -> ResourceReadValid(c.cut, rows)
      [] c.family = "read-application" -> ApplicationValid(c.cut, rows)
      [] c.family = "read-import"      -> ImportValid(c.cut, rows)
      [] c.family = "read-hardening"   -> ReadHardeningValid(c.cut, rows)
      [] c.family = "read-slot"        -> SingleSlotValid(rows)
      [] c.family = "read-compaction"  -> CompactionValid(rows)
      [] c.family = "read-identity"    -> IdentityValid(rows)
      [] c.family = "read-negative"    -> NegativeValid(rows)

\* Each harness forges its own negatives; the common ones are replayed with them.
PublicReadNegatives(c) ==
    CASE c.family = "read-fault"       -> ReadNegatives \cup ReadFaultNegatives(c.cut)
      [] c.family = "read-protocol"    -> ReadNegatives \cup ReadProtocolNegatives(c.cut)
      [] c.family = "read-lifecycle"   -> ReadNegatives \cup ReadLifecycleNegatives
      [] c.family = "read-hardening"   -> ReadNegatives \cup ReadHardeningNegatives(c.cut)
      [] c.family = "read-slot"        -> SingleSlotNegatives
      [] c.family = "read-compaction"  -> CompactionNegatives
      [] c.family = "read-identity"    -> IdentityNegatives
      [] c.family = "read-negative"    -> TargetedNegatives
      [] OTHER                         -> ReadNegatives

PublicReadBreaches(c) ==
    CASE c.family = "read-fault"       -> ReadFaultBreaches(c.cut)
      [] c.family = "read-protocol"    -> ReadProtocolBreaches(c.cut)
      [] c.family = "read-lifecycle"   -> ReadLifecycleBreaches(c.cut)
      [] c.family = "read-resource"    -> ResourceReadBreaches
      [] c.family = "read-application" -> ApplicationBreaches
      [] c.family = "read-import"      -> ImportBreaches(c.cut)
      [] c.family = "read-hardening"   -> ReadHardeningBreaches(c.cut)
      [] c.family = "read-slot"        -> SingleSlotBreaches
      [] c.family = "read-compaction"  -> CompactionBreaches
      [] c.family = "read-identity"    -> IdentityBreaches
      [] c.family = "read-negative"    -> TargetedNegatives
=============================================================================
