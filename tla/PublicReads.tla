---------------------------- MODULE PublicReads ----------------------------
(***************************************************************************)
(* The public qualification of replica reads (V5.2): three JVMs, a script   *)
(* of public calls and faults, and validators that replay each process'     *)
(* rows.  A read is named; its rows are the call (at which node), the       *)
(* runtime invocation (policy and minimum index), admission, barrier,       *)
(* capture, callback, report, release of the view, settlement, the worker's *)
(* reply, the documents in it, the controller's history and the release of  *)
(* the ownership.  A number is an index, or the count of writes a prefix    *)
(* holds, which stands for its documents.                                   *)
(***************************************************************************)
EXTENDS LaneHarness

Strong == "LEADER_STRONG"
Stale  == "STALE_ALLOWED"
AtLeast == "AT_LEAST_INDEX"
FarAhead == 99          \* the largest index a token can name

At(e, x, g, o, k) == Obs("row", e, x, g, o, k)
Step(e, x, g)     == At(e, x, g, "OK", 0)

-----------------------------------------------------------------------------
(* What a public call leaves. *)

Opened(x, w, g, p, m, owned) ==
    <<At("CALL", x, g, w, 0), At("INVOKED", x, g, p, m), At("ADMITTED", x, g, "OK", owned)>>
Published(w, g, i) == <<At("PROOF", w, g, "FORCED", i), At("PUBLISHED", w, g, "OK", i)>>
Installed(w, g, i) == <<At("INSTALLED", w, g, "OK", i), At("PUBLISHED", w, g, "OK", i)>>
Cut(x, w, g, p, i) ==
    (IF p = Strong THEN <<At("BARRIER", x, g, "FRESH", i)>> \o Published(w, g, i) ELSE <<>>)
      \o <<At("CAPTURE", x, g, "OK", i)>>
View(x, g, i, docs)  == <<Step("CALLBACK", x, g), At("REPORT", x, g, "OK", docs), At("VIEW_RELEASED", x, g, "OK", i)>>
Settled(x, g)        == <<Step("SETTLING", x, g)>>
Replied(x, g, o, i)  == <<At("REPLY", x, g, o, i), At("HISTORY", x, g, o, i)>>
Answer(x, g, p, i, docs) == <<At("DOCS", x, g, p, docs)>> \o Replied(x, g, "SUCCESS", i)
Freed(x, g, owned)   == <<At("FREED", x, g, "OK", owned)>>

\* One read served alone, from cut i with its documents.
Read(x, w, g, p, m, i, docs) ==
    Opened(x, w, g, p, m, 1) \o Cut(x, w, g, p, i) \o View(x, g, i, docs) \o Settled(x, g)
      \o Answer(x, g, p, i, docs) \o Freed(x, g, 0)
\* One read refused after its admission, and one refused before it.
RefusedRead(x, w, g, p, m, why) ==
    Opened(x, w, g, p, m, 1) \o Settled(x, g) \o Replied(x, g, why, 0) \o Freed(x, g, 0)
TurnedAway(x, w, g, p, m, why) ==
    <<At("CALL", x, g, w, 0), At("INVOKED", x, g, p, m)>> \o Replied(x, g, why, 0)
Write(x, w, g, i) ==
    <<At("SUBMIT", x, g, w, i)>> \o Published(w, g, i) \o <<At("WRITE", x, g, "SUCCESS", i)>>
ReadProbe(label, g, owned, phase) == <<At("PROBE", label, g, phase, owned)>>

\* baseline: a read of the imported genesis by one voter alone, the election,
\* three writes, a strong read, and on each follower the same prefix read.
Baseline ==
    <<Start("leader", 1), At("RESTORED", "leader", 1, "OK", 0)>> \o Read("genesis", "leader", 1, Stale, 0, 0, 0)
      \o <<Start("near", 1), At("RESTORED", "near", 1, "OK", 0), Start("far", 1), At("RESTORED", "far", 1, "OK", 0)>>
      \o Write("w1", "leader", 1, 1) \o Write("w2", "leader", 1, 2) \o Write("w3", "leader", 1, 3)
      \o Read("carried", "leader", 1, Strong, 0, 4, 3)
      \o Published("near", 1, 4) \o Read("near-stale", "near", 1, Stale, 0, 4, 3) \o Read("near-floor", "near", 1, AtLeast, 4, 4, 3)
      \o Published("far", 1, 4) \o Read("far-stale", "far", 1, Stale, 0, 4, 3) \o Read("far-floor", "far", 1, AtLeast, 4, 4, 3)

\* finally: whoever still runs is stopped; the inventory and binding are saved.
Finished(restarted) ==
    <<Gen(Stop("leader", "0"), IF restarted = "leader" THEN 2 ELSE 1),
      Gen(Stop("near", "0"), IF restarted = "near" THEN 2 ELSE 1),
      Gen(Stop("far", "0"), IF restarted = "far" THEN 2 ELSE 1),
      SeenO("INVENTORY", "bundle", "EQUAL"), SeenO("BINDING", "bundle", "EQUAL")>>

ExitOf(mode) == IF mode = "kill" THEN "-9" ELSE "71"
\* A process that dies at its cut, its files kept, and a retained restart that
\* catches up with the index i.
Died(w, mode, kept) ==
    <<At("CUT_REACHED", w, 1, mode, 0), Stop(w, ExitOf(mode)), At("SAVED", w, 1, "OK", kept)>>
Restarted(w, kept, i) ==
    <<Start(w, 2), At("RESTORED", w, 2, "OK", kept)>>
      \o (IF i > kept THEN Installed(w, 2, i) ELSE <<>>)

-----------------------------------------------------------------------------
(* The validator every case goes through. *)

ReadsOf(rows) == {rows[i].who : i \in {j \in DOMAIN rows : rows[j].ev = "CALL"}}
CallOf(rows, x) == rows[CHOOSE i \in DOMAIN rows : rows[i].ev = "CALL" /\ rows[i].who = x]
GenOf(rows, x)  == CallOf(rows, x).gen
NodeOf(rows, x) == CallOf(rows, x).out
Of(rows, x, e)  == Step(e, x, GenOf(rows, x))
PolicyOf(rows, x) == rows[First(rows, Of(rows, x, "INVOKED"))].out
NoRow(rows, x, e) == ~Some(rows, Of(rows, x, e))
HistoryOf(rows, x) ==
    IF One(rows, Of(rows, x, "HISTORY")) THEN rows[First(rows, Of(rows, x, "HISTORY"))].out ELSE "NONE"
ServedRead(rows, x) == HistoryOf(rows, x) = "SUCCESS"
IndexOf(rows, x) == NumberOf(rows, Of(rows, x, "CAPTURE"))
DocsOf(rows, x)  == NumberOf(rows, Of(rows, x, "DOCS"))
MinimumOf(rows, x) == NumberOf(rows, Of(rows, x, "INVOKED"))

\* prefix and oracle: the documents of index i, from the chosen writes.
Contents(rows, i) == Cardinality({j \in DOMAIN rows : rows[j].ev = "WRITE" /\ rows[j].n <= i})

\* The publication a process showed last before row i (past every index: none yet).
PublishedBefore(rows, w, g, i) ==
    LET P == {j \in 1..(i - 1) : rows[j].ev \in {"PUBLISHED", "RESTORED"} /\ rows[j].who = w /\ rows[j].gen = g}
    IN IF P = {} THEN FarAhead + 1 ELSE rows[CHOOSE j \in P : \A k \in P : j >= k].n

\* A publication has a forced proof or a verified install of its own process.
PublicationsBacked(rows) ==
    \A i \in DOMAIN rows : rows[i].ev = "PUBLISHED" =>
        \E j \in 1..(i - 1) : /\ rows[j].ev \in {"PROOF", "INSTALLED", "RESTORED"}
                              /\ rows[j].who = rows[i].who /\ rows[j].gen = rows[i].gen /\ rows[j].n = rows[i].n
\* A first generation restores the genesis and nothing else.
GenesisRestored(rows) == \A i \in DOMAIN rows : rows[i].ev = "RESTORED" /\ rows[i].gen = 1 => rows[i].n = 0

\* CAPTURE_VALIDATED: invoked, admitted, then the latest publication, in time,
\* under a barrier of its own or at least at the minimum.
CaptureValid(rows, x) ==
    \A i \in All(rows, Of(rows, x, "CAPTURE")) :
        /\ One(rows, Of(rows, x, "CAPTURE")) /\ rows[i].out = "OK"
        /\ InOrder(rows, <<Of(rows, x, "CALL"), Of(rows, x, "INVOKED"), Of(rows, x, "ADMITTED"), Of(rows, x, "CAPTURE")>>)
        /\ rows[i].n = PublishedBefore(rows, NodeOf(rows, x), GenOf(rows, x), i)
        /\ PolicyOf(rows, x) = Strong =>
             /\ Exact(rows, At("BARRIER", x, GenOf(rows, x), "FRESH", rows[i].n))
             /\ InOrder(rows, <<Of(rows, x, "INVOKED"), Of(rows, x, "BARRIER"), Of(rows, x, "CAPTURE")>>)
        /\ PolicyOf(rows, x) = AtLeast => MinimumOf(rows, x) <= rows[i].n

\* CALLBACK, REPORT and RELEASED: one live view, of the captured cut.
ViewValid(rows, x) ==
    /\ Some(rows, Of(rows, x, "CALLBACK")) =>
         One(rows, Of(rows, x, "CALLBACK")) /\ Before(rows, Of(rows, x, "CAPTURE"), Of(rows, x, "CALLBACK"))
    /\ \A i \in All(rows, Of(rows, x, "REPORT")) :
         /\ rows[i].n = Contents(rows, IndexOf(rows, x))
         /\ Before(rows, Of(rows, x, "CALLBACK"), Of(rows, x, "REPORT"))
    /\ Some(rows, Of(rows, x, "VIEW_RELEASED")) =>
         /\ Exact(rows, At("VIEW_RELEASED", x, GenOf(rows, x), "OK", IndexOf(rows, x)))
         /\ Before(rows, Of(rows, x, "CALLBACK"), Of(rows, x, "VIEW_RELEASED"))

\* CLIENT_SUCCESS: after the view was released, what was captured, and what the
\* controller recorded.
SuccessValid(rows, x) ==
    ServedRead(rows, x) =>
        /\ Exact(rows, At("REPLY", x, GenOf(rows, x), "SUCCESS", IndexOf(rows, x)))
        /\ Exact(rows, At("HISTORY", x, GenOf(rows, x), "SUCCESS", IndexOf(rows, x)))
        /\ Before(rows, Of(rows, x, "VIEW_RELEASED"), Of(rows, x, "REPLY"))
        /\ Exact(rows, At("DOCS", x, GenOf(rows, x), PolicyOf(rows, x), Contents(rows, IndexOf(rows, x))))

\* CLIENT_FAILURE: no view but for a cancelled call, and a reason that this
\* case declares and the trace bears out.
FailureValid(rows, x, reasons) ==
    LET why == HistoryOf(rows, x)
    IN why \notin {"SUCCESS", "PENDING"} =>
        /\ why \in reasons
        /\ Exact(rows, At("REPLY", x, GenOf(rows, x), why, 0))
        /\ why # "CANCELLED" => NoRow(rows, x, "CAPTURE") /\ NoRow(rows, x, "CALLBACK")
        /\ why \in {"INVALID_TOKEN", "UNSUPPORTED_TOKEN_VERSION"} <=> NoRow(rows, x, "INVOKED")
        /\ why = "DEADLINE_EXCEEDED" => Before(rows, Of(rows, x, "EXPIRED"), Of(rows, x, "REPLY"))
        /\ why = "PROGRESS_NOT_REACHED" =>
             MinimumOf(rows, x) > PublishedBefore(rows, NodeOf(rows, x), GenOf(rows, x), First(rows, Of(rows, x, "REPLY")))
        /\ why \in {"CAPACITY_EXCEEDED", "INCOMPATIBLE_HISTORY"} => NoRow(rows, x, "ADMITTED")
        /\ why = "INCOMPATIBLE_HISTORY" <=> Some(rows, Of(rows, x, "FOREIGN_TOKEN"))

\* A view nobody released belongs to a process that died.
ViewsReleased(rows, dead) ==
    \A x \in ReadsOf(rows) :
        Some(rows, Of(rows, x, "CAPTURE")) /\ NoRow(rows, x, "VIEW_RELEASED") =>
            dead # "none" /\ NodeOf(rows, x) = dead /\ GenOf(rows, x) = 1

\* confirmed_order: three writes confirmed before the token, at one worker.
ConfirmedOrder(rows) ==
    \A w \in {"w1", "w2", "w3"} :
        /\ Exact(rows, At("SUBMIT", w, 1, NodeOf(rows, "carried"), NumberOf(rows, Step("WRITE", w, 1))))
        /\ Before(rows, Step("WRITE", w, 1), Step("CALL", "carried", 1))

\* The process set: three stopped processes, or one declared death and restart.
ProcessesValid(rows, dead, mode) ==
    \A w \in {"leader", "near", "far"} :
        IF w = dead THEN /\ Exact(rows, Stop(w, ExitOf(mode)))
                         /\ One(rows, Start(w, 1)) /\ One(rows, SeenG("STARTED", w, 2)) /\ Exact(rows, Gen(Stop(w, "0"), 2))
                    ELSE One(rows, Start(w, 1)) /\ Exact(rows, Stop(w, "0"))

\* What every case but the single slot must have read.
PoliciesServed(rows) ==
    LET served == {x \in ReadsOf(rows) : ServedRead(rows, x)}
    IN /\ {PolicyOf(rows, x) : x \in served} = {Strong, Stale, AtLeast}
       /\ Cardinality({x \in served : PolicyOf(rows, x) # Strong}) >= 3

ReadsValid(rows, dead, mode, reasons) ==
    /\ Exact(rows, SeenO("INVENTORY", "bundle", "EQUAL")) /\ Exact(rows, SeenO("BINDING", "bundle", "EQUAL"))
    /\ ProcessesValid(rows, dead, mode) /\ PublicationsBacked(rows) /\ GenesisRestored(rows)
    /\ \A x \in ReadsOf(rows) :
         /\ CaptureValid(rows, x) /\ ViewValid(rows, x) /\ SuccessValid(rows, x) /\ FailureValid(rows, x, reasons)
         /\ HistoryOf(rows, x) # "NONE" /\ Some(rows, Of(rows, x, "REPLY")) = (HistoryOf(rows, x) # "PENDING")
    /\ ViewsReleased(rows, dead) /\ ConfirmedOrder(rows)

\* negatives of every case: a token, policy, sequence, deadline, option or
\* report changed, and a release, an admission or the forces removed.
ReadNegatives ==
    {Turn(Step("CAPTURE", "carried", 1), "FOREIGN"), Renumber(Step("CAPTURE", "carried", 1), 9),
     Turn(Step("INVOKED", "carried", 1), Stale), Renumber(Step("DOCS", "carried", 1), 9),
     Turn(Step("CAPTURE", "carried", 1), "AT_DEADLINE"), Turn(Step("BARRIER", "carried", 1), "REUSED"),
     Drop(Step("VIEW_RELEASED", "carried", 1)), Drop(Step("ADMITTED", "carried", 1)), Drop(Step("PROOF", "leader", 1))}

-----------------------------------------------------------------------------
(* ownership: the serialized transitions of one process, replayed. *)

OwnedAt(rows, w, g, i) ==
    Cardinality({x \in ReadsOf(rows) :
        /\ NodeOf(rows, x) = w /\ GenOf(rows, x) = g
        /\ \E j \in All(rows, Of(rows, x, "ADMITTED")) : j <= i
        /\ ~\E j \in All(rows, Of(rows, x, "FREED")) : j <= i})
CapturedAt(rows, w, g, i) ==
    Cardinality({x \in ReadsOf(rows) :
        /\ NodeOf(rows, x) = w /\ GenOf(rows, x) = g
        /\ \E j \in All(rows, Of(rows, x, "CAPTURE")) : j <= i
        /\ ~\E j \in All(rows, Of(rows, x, "SETTLING")) : j <= i})

\* The owner's counters agree at every admission and release, at most one view
\* is live, a release follows settlement and the completion's return, once, and
\* a process that stopped normally owns nothing.
Ownership(rows, limit, dead) ==
    /\ \A i \in DOMAIN rows : rows[i].ev \in {"ADMITTED", "FREED"} =>
         LET x == rows[i].who
             w == NodeOf(rows, x)
         IN /\ rows[i].out = "OK" /\ rows[i].n = OwnedAt(rows, w, rows[i].gen, i) /\ rows[i].n <= limit
            /\ CapturedAt(rows, w, rows[i].gen, i) <= 1
    /\ \A x \in ReadsOf(rows) :
         /\ Cardinality(All(rows, Of(rows, x, "FREED"))) <= 1
         /\ Some(rows, Of(rows, x, "FREED")) => Before(rows, Of(rows, x, "SETTLING"), Of(rows, x, "FREED"))
         /\ Some(rows, Of(rows, x, "SETTLING")) => Before(rows, Of(rows, x, "ADMITTED"), Of(rows, x, "SETTLING"))
         /\ Some(rows, Of(rows, x, "ADMITTED")) /\ NoRow(rows, x, "FREED") =>
              dead # "none" /\ NodeOf(rows, x) = dead /\ GenOf(rows, x) = 1

OwnershipNegatives ==
    {Drop(Step("FREED", "carried", 1)), Add(Step("FREED", "carried", 1), Step("FREED", "carried", 1)),
     Turn(Step("FREED", "carried", 1), "BEFORE_RETURN"), Renumber(Step("FREED", "carried", 1), 1)}

\* Who served, and from where; everything else in the history succeeded.
OnlyFailed(rows, xs) == {x \in ReadsOf(rows) : ~ServedRead(rows, x)} = xs
\* A carried minimum survives: asked as minimum, and reached.
Carries(rows, x, y) ==
    /\ ServedRead(rows, y) /\ ServedRead(rows, x) /\ PolicyOf(rows, x) = AtLeast
    /\ MinimumOf(rows, x) = IndexOf(rows, y) /\ IndexOf(rows, x) >= IndexOf(rows, y)
SameDocs(rows, x, y) == DocsOf(rows, x) = DocsOf(rows, y)
\* The cut is the last thing the process did, and what it restored is what its
\* files held.
DeathValid(rows, w, mode, lost) ==
    /\ Exact(rows, At("CUT_REACHED", w, 1, mode, 0))
    /\ \A i \in DOMAIN rows : i > First(rows, Step("CUT_REACHED", w, 1)) =>
         /\ rows[i].gen = 1 /\ rows[i].who = w => rows[i].ev \in {"STOPPED", "SAVED"}
         /\ rows[i].gen = 1 /\ rows[i].who = lost => rows[i].ev = "HISTORY"
    /\ One(rows, Step("RESTORED", w, 2)) /\ One(rows, Step("SAVED", w, 1))
    /\ NumberOf(rows, Step("RESTORED", w, 2)) = NumberOf(rows, Step("SAVED", w, 1))
DeathBreaches(w) ==
    {Drop(Step("CUT_REACHED", w, 1)), Early(Step("CUT_REACHED", w, 1)), Renumber(Step("RESTORED", w, 2), 1),
     Turn(Stop(w, "71"), "0"), Drop(Step("RESTORED", w, 2))}

-----------------------------------------------------------------------------
(* The healthy run and the six faults. *)

FaultCases == {"healthy", "capture-halt", "capture-kill", "release-halt", "release-kill", "isolated-follower",
               "unpublished-deadline", "unpublished-install"}
CrashFault(c) == c \in {"capture-halt", "capture-kill", "release-halt", "release-kill"}
ReadMode(c) == IF c \in {"capture-halt", "release-halt", "promise-after-halt", "install-halt", "cancel-captured-halt",
                          "close-captured-halt", "partition-halt"} THEN "halt" ELSE "kill"
AfterView(c) == c \in {"release-halt", "release-kill"}

CrashScript(c) ==
    Opened("lost", "leader", 1, Strong, 0, 1) \o Cut("lost", "leader", 1, Strong, 5)
      \o (IF AfterView(c) THEN View("lost", 1, 5, 3) ELSE <<>>)
      \o Died("leader", ReadMode(c), 5) \o <<At("HISTORY", "lost", 1, "PENDING", 0)>>
      \o Write("extra", "near", 1, 6) \o Read("successor", "near", 1, AtLeast, 4, 6, 4)
      \o Read("fresh", "near", 1, Strong, 0, 7, 4)
      \o Restarted("leader", 5, 7) \o Read("restarted", "leader", 2, AtLeast, 4, 7, 4)

IsolatedScript ==
    <<SeenO("SELECTED", "leader", "near")>> \o Read("before", "far", 1, Stale, 0, 4, 3)
      \o <<Seen("PARTITIONED", "far"), Seen("DROPPED", "far")>>
      \o Write("extra", "leader", 1, 5) \o Read("later", "leader", 1, Strong, 0, 6, 4)
      \o Read("stale", "far", 1, Stale, 0, 4, 3) \o RefusedRead("denied", "far", 1, AtLeast, 6, "PROGRESS_NOT_REACHED")
      \o <<Seen("HEALED", "far")>> \o Installed("far", 1, 6) \o Read("caught", "far", 1, AtLeast, 6, 6, 4)

\* The publication is held: the reads wait behind it, or, while the state is an
\* install in progress, are refused.
UnpublishedScript(c) ==
    LET held == <<At("CALL", "held", 1, "near", 0), At("INVOKED", "held", 1, Stale, 0)>>
    IN Write("extra", "leader", 1, 5)
      \o (IF c = "unpublished-deadline"
          THEN <<At("PROOF", "near", 1, "FORCED", 5), Seen("PAUSED", "near")>>
                 \o Opened("denied", "near", 1, AtLeast, 5, 1) \o held \o <<At("ADMITTED", "held", 1, "OK", 2)>>
                 \o <<Step("EXPIRED", "denied", 1)>> \o Settled("denied", 1) \o Replied("denied", 1, "DEADLINE_EXCEEDED", 0)
                 \o Freed("denied", 1, 1)
                 \o <<Seen("RESUMED", "near"), At("PUBLISHED", "near", 1, "OK", 5)>>
                 \o Cut("held", "near", 1, Stale, 5) \o View("held", 1, 5, 4) \o Settled("held", 1)
                 \o Answer("held", 1, Stale, 5, 4) \o Freed("held", 1, 0)
          ELSE <<At("INSTALLED", "near", 1, "OK", 5), Seen("PAUSED", "near")>>
                 \o TurnedAway("denied", "near", 1, AtLeast, 5, "NOT_READY") \o held \o Replied("held", 1, "NOT_READY", 0)
                 \o <<Seen("RESUMED", "near"), At("PUBLISHED", "near", 1, "OK", 5)>>
                 \o Read("resumed", "near", 1, Stale, 0, 5, 4))
      \o Read("caught", "near", 1, AtLeast, 5, 5, 4)

ReadFaultScript(c) ==
    Baseline \o (IF CrashFault(c) THEN CrashScript(c)
                 ELSE IF c = "isolated-follower" THEN IsolatedScript
                 ELSE IF c = "healthy" THEN <<>> ELSE UnpublishedScript(c))
             \o Finished(IF CrashFault(c) THEN "leader" ELSE "none")

CrashValid(c, rows) ==
    /\ DeathValid(rows, "leader", ReadMode(c), "lost") /\ HistoryOf(rows, "lost") = "PENDING"
    /\ One(rows, Step("CAPTURE", "lost", 1)) /\ Some(rows, Step("CALLBACK", "lost", 1)) = AfterView(c)
    /\ Carries(rows, "successor", "carried") /\ Carries(rows, "restarted", "carried")
    /\ SameDocs(rows, "successor", "restarted")
    /\ NodeOf(rows, "successor") # "leader" /\ NodeOf(rows, "restarted") = "leader" /\ GenOf(rows, "restarted") = 2
    /\ OnlyFailed(rows, {"lost"})

\* partition_drop and check_partition_witness: the rule was met by real traffic
\* after it was installed and before the calls that rely on it.
PartitionWitness(rows, w, x, y) ==
    InOrder(rows, <<Seen("PARTITIONED", w), Seen("DROPPED", w), Of(rows, x, "CALL"), Of(rows, y, "HISTORY"), Seen("HEALED", w)>>)

IsolatedValid(rows) ==
    /\ Exact(rows, SeenO("SELECTED", "leader", "near"))
    /\ SameDocs(rows, "before", "stale") /\ IndexOf(rows, "before") = IndexOf(rows, "stale")
    /\ IndexOf(rows, "stale") < IndexOf(rows, "later")
    /\ Carries(rows, "caught", "later") /\ SameDocs(rows, "caught", "later")
    /\ PartitionWitness(rows, "far", "later", "denied")
    /\ InOrder(rows, <<Step("HISTORY", "before", 1), Seen("PARTITIONED", "far")>>)
    /\ InOrder(rows, <<Seen("HEALED", "far"), Step("CALL", "caught", 1)>>)
    /\ HistoryOf(rows, "denied") = "PROGRESS_NOT_REACHED" /\ MinimumOf(rows, "denied") = IndexOf(rows, "later")
    /\ OnlyFailed(rows, {"denied"})

PauseHeld(rows, w) == One(rows, Seen("PAUSED", w)) /\ One(rows, Seen("RESUMED", w))
                        /\ Before(rows, Seen("PAUSED", w), Seen("RESUMED", w))
During(rows, w, p) == \A i \in All(rows, p) : First(rows, Seen("PAUSED", w)) < i /\ i < First(rows, Seen("RESUMED", w))

UnpublishedValid(c, rows) ==
    LET resumed == IF c = "unpublished-deadline" THEN "held" ELSE "resumed"
    IN /\ PauseHeld(rows, "near")
       /\ Before(rows, IF c = "unpublished-deadline" THEN At("PROOF", "near", 1, "FORCED", 5)
                       ELSE Step("INSTALLED", "near", 1), Seen("PAUSED", "near"))
       /\ HistoryOf(rows, "denied") = (IF c = "unpublished-deadline" THEN "DEADLINE_EXCEEDED" ELSE "NOT_READY")
       /\ \A i \in DOMAIN rows : rows[i].ev = "CAPTURE" /\ NodeOf(rows, rows[i].who) = "near" =>
            ~(First(rows, Seen("PAUSED", "near")) < i /\ i < First(rows, Seen("RESUMED", "near")))
       /\ ServedRead(rows, resumed) /\ ServedRead(rows, "caught") /\ SameDocs(rows, resumed, "caught")
       /\ IndexOf(rows, "caught") >= 5
       /\ OnlyFailed(rows, {"denied"} \cup (IF resumed = "held" THEN {} ELSE {"held"}))

ReadFaultReasons(c) ==
    CASE c = "isolated-follower" -> {"PROGRESS_NOT_REACHED"}
      [] c \in {"unpublished-deadline", "unpublished-install"} -> {"DEADLINE_EXCEEDED", "NOT_READY"}
      [] OTHER -> {}
ReadFaultValid(c, rows) ==
    /\ ReadsValid(rows, IF CrashFault(c) THEN "leader" ELSE "none", ReadMode(c), ReadFaultReasons(c))
    /\ PoliciesServed(rows)
    /\ CASE CrashFault(c) -> CrashValid(c, rows)
         [] c = "isolated-follower" -> IsolatedValid(rows)
         [] c = "healthy" -> OnlyFailed(rows, {})
         [] OTHER -> UnpublishedValid(c, rows)

ReadFaultNegatives(c) ==
    CASE CrashFault(c) -> {Drop(Step("CUT_REACHED", "leader", 1)), Turn(Step("HISTORY", "lost", 1), "SUCCESS")}
      [] c = "isolated-follower" -> {Drop(Seen("DROPPED", "far")), Renumber(Step("DOCS", "stale", 1), 0)}
      [] c = "healthy" -> {}
      [] OTHER -> {Drop(Seen("RESUMED", "near")), Turn(Step("HISTORY", "denied", 1), "PROGRESS_NOT_REACHED")}
ReadFaultBreaches(c) ==
    ReadNegatives \cup ReadFaultNegatives(c) \cup {Turn(Seen("BINDING", "bundle"), "OTHER"), Turn(Seen("INVENTORY", "bundle"), "OTHER"),
      Add(Step("VIEW_RELEASED", "carried", 1), Step("CALLBACK", "carried", 1)), Early(Step("CALL", "carried", 1)),
      Turn(Gen(Stop("far", "0"), 1), "1")} \cup
    CASE CrashFault(c) -> DeathBreaches("leader") \cup
                          {Renumber(Step("CAPTURE", "restarted", 2), 3), Renumber(Step("INVOKED", "restarted", 2), 2),
                           Drop(Step("WRITE", "extra", 1)), Add(Stop("leader", "71"), At("REPLY", "lost", 1, "SUCCESS", 5))}
      [] c = "isolated-follower" -> {Turn(Seen("SELECTED", "leader"), "far"), Renumber(Step("CAPTURE", "stale", 1), 6),
                                     Early(Seen("HEALED", "far")), Turn(Step("HISTORY", "denied", 1), "SUCCESS"),
                                     Drop(Step("INSTALLED", "far", 1))}
      [] c = "healthy" -> {Turn(Step("HISTORY", "far-floor", 1), "NOT_READY")}
      [] OTHER -> {Early(Seen("RESUMED", "near")), Renumber(Step("DOCS", "caught", 1), 3), Drop(Step("PUBLISHED", "near", 1))}
                    \cup (IF c = "unpublished-deadline" THEN {Drop(Step("EXPIRED", "denied", 1)), Drop(Step("PROOF", "near", 1))}
                          ELSE {Drop(Step("INSTALLED", "near", 1))})
=============================================================================
