------------------------ MODULE PublicReadLifecycle ------------------------
(***************************************************************************)
(* Replica reads that meet a higher promise, an install in progress, a      *)
(* cancellation or a close, each held at a named point, released, and in    *)
(* some cases killed there.                                                 *)
(***************************************************************************)
EXTENDS PublicReads

-----------------------------------------------------------------------------
(* Promises and installs. *)

PromiseAfter(c) == c \in {"promise-after", "promise-after-halt", "promise-after-kill"}
PromiseCase(c)  == c \in {"promise-before", "promise-peer"} \/ PromiseAfter(c)
ReadProtocolCases == {"promise-before", "promise-peer", "promise-after", "promise-after-halt", "promise-after-kill",
                      "install-paused", "install-halt", "install-kill"}
Abrupt(c) == c \in {"promise-after-halt", "promise-after-kill", "install-halt", "install-kill"}

\* A strong read held before its dispatch, or after its capture, while the
\* majority elects a successor that writes; the old leader then forces the
\* higher promise, or hears of it from a peer that did.
PromiseScript52(c) ==
    LET fenced == Settled("target", 1) \o Replied("target", 1, "STALE_EPOCH", 0) \o Freed("target", 1, 0)
        promise == <<At("PROMISE", "leader", 1, "OK", 2)>>
    IN Opened("target", "leader", 1, Strong, 0, 1) \o <<At("BARRIER", "target", 1, "FRESH", 5)>> \o Published("leader", 1, 5)
      \o (IF PromiseAfter(c) THEN <<At("CAPTURE", "target", 1, "OK", 5)>> ELSE <<>>)
      \o <<Seen("PAUSED", "leader"), Seen("PARTITIONED", "leader"), Seen("DROPPED", "leader")>>
      \o Write("extra", "near", 1, 6) \o Read("later", "near", 1, Strong, 0, 7, 4) \o <<Seen("HEALED", "leader")>>
      \o (CASE c = "promise-peer" -> <<At("PROMISE", "near", 1, "OK", 2), At("TOLD", "leader", 1, "near", 2)>> \o fenced \o promise
                                       \o <<Seen("RESUMED", "leader")>>
            [] c = "promise-before" -> promise \o <<Seen("RESUMED", "leader")>> \o fenced
            [] c = "promise-after" -> promise \o <<Seen("RESUMED", "leader")>> \o View("target", 1, 5, 3) \o Settled("target", 1)
                                       \o Answer("target", 1, Strong, 5, 3) \o Freed("target", 1, 0)
            [] OTHER -> promise \o <<Seen("RESUMED", "leader")>> \o View("target", 1, 5, 3) \o Died("leader", ReadMode(c), 5)
                          \o <<At("HISTORY", "target", 1, "PENDING", 0)>>)
      \o (IF Abrupt(c) THEN Restarted("leader", 5, 7) ELSE Installed("leader", 1, 7))
      \o Read("recovered", "leader", IF Abrupt(c) THEN 2 ELSE 1, AtLeast, 4, 7, 4)

\* A follower that missed a write installs a snapshot and is held before it
\* publishes; it serves nobody until it has.
InstallScript(c) ==
    <<SeenO("SELECTED", "leader", "near"), Seen("PARTITIONED", "far"), Seen("DROPPED", "far")>>
      \o Write("extra", "leader", 1, 5) \o Read("later", "leader", 1, Strong, 0, 6, 4)
      \o <<At("FLOOR", "leader", 1, "OK", 6), Seen("HEALED", "far"), At("INSTALLED", "far", 1, "OK", 6), Seen("PAUSED", "far")>>
      \o TurnedAway("denied", "far", 1, Stale, 0, "NOT_READY")
      \o (IF Abrupt(c)
          THEN <<At("CALL", "target", 1, "far", 0), At("INVOKED", "target", 1, AtLeast, 4)>> \o Died("far", ReadMode(c), 6)
                 \o <<At("HISTORY", "target", 1, "PENDING", 0)>> \o Restarted("far", 6, 6)
          ELSE TurnedAway("target", "far", 1, AtLeast, 4, "NOT_READY")
                 \o <<Seen("RESUMED", "far"), At("PUBLISHED", "far", 1, "OK", 6)>>)
      \o Read("recovered", "far", IF Abrupt(c) THEN 2 ELSE 1, AtLeast, 4, 6, 4)

TargetNode(c) == IF PromiseCase(c) THEN "leader" ELSE "far"
ReadProtocolScript(c) ==
    Baseline \o (IF PromiseCase(c) THEN PromiseScript52(c) ELSE InstallScript(c))
             \o Finished(IF Abrupt(c) THEN TargetNode(c) ELSE "none")

\* crossing: a promise above the read's epoch, forced while it was held.
CrossingPromise(rows) ==
    /\ Has(rows, At("PROMISE", "leader", 1, "OK", 2)) /\ During(rows, "leader", Step("PROMISE", "leader", 1))
\* fencing_before_settlement: the read was fenced by its own promise, or by a
\* peer's answer whose promise that peer had forced before.
FencedBefore(rows) ==
    LET end == First(rows, Step("SETTLING", "target", 1))
    IN \/ \E i \in All(rows, Step("PROMISE", "leader", 1)) : First(rows, Seen("PAUSED", "leader")) < i /\ i < end
       \/ \E i \in All(rows, Step("TOLD", "leader", 1)) :
            /\ First(rows, Seen("PAUSED", "leader")) < i /\ i < end /\ rows[i].n > 1
            /\ \E j \in 1..(i - 1) : rows[j].ev = "PROMISE" /\ rows[j].who = rows[i].out /\ rows[j].n = rows[i].n

PromiseValid52(c, rows) ==
    /\ PauseHeld(rows, "leader") /\ CrossingPromise(rows) /\ Some(rows, Seen("DROPPED", "leader"))
    /\ PolicyOf(rows, "target") = Strong
    /\ ServedRead(rows, "later") /\ NodeOf(rows, "later") # "leader"
    /\ IF PromiseAfter(c)
       THEN /\ One(rows, Step("CAPTURE", "target", 1)) /\ One(rows, Step("CALLBACK", "target", 1))
            /\ Before(rows, Step("CAPTURE", "target", 1), Seen("PAUSED", "leader"))
            /\ c = "promise-after" => ServedRead(rows, "target") /\ SameDocs(rows, "target", "carried")
       ELSE /\ HistoryOf(rows, "target") = "STALE_EPOCH"
            /\ One(rows, Step("SETTLING", "target", 1)) /\ One(rows, Step("BARRIER", "target", 1))
            /\ InOrder(rows, <<Seen("PAUSED", "leader"), Step("SETTLING", "target", 1), Step("REPLY", "target", 1)>>)
            /\ FencedBefore(rows)

InstallValid(c, rows) ==
    /\ One(rows, Seen("PAUSED", "far")) /\ Exact(rows, SeenO("SELECTED", "leader", "near")) /\ Some(rows, Seen("DROPPED", "far"))
    /\ Before(rows, At("INSTALLED", "far", 1, "OK", 6), Seen("PAUSED", "far"))
    /\ NumberOf(rows, Step("INSTALLED", "far", 1)) >= IndexOf(rows, "later")
    /\ HistoryOf(rows, "denied") = "NOT_READY" /\ PolicyOf(rows, "denied") = Stale
    /\ PolicyOf(rows, "target") = AtLeast /\ MinimumOf(rows, "target") = IndexOf(rows, "carried")
    /\ \A x \in {"denied", "target"} :
         /\ NoRow(rows, x, "CALLBACK") /\ NoRow(rows, x, "ADMITTED") /\ NoRow(rows, x, "CAPTURE")
         /\ Before(rows, Seen("PAUSED", "far"), Step("CALL", x, 1))
    /\ IF Abrupt(c) THEN ~Some(rows, Seen("RESUMED", "far"))
       ELSE /\ PauseHeld(rows, "far") /\ HistoryOf(rows, "target") = "NOT_READY"
            /\ \A x \in {"denied", "target"} : Before(rows, Step("REPLY", x, 1), Seen("RESUMED", "far"))
    /\ LET until == IF Abrupt(c) THEN First(rows, Step("CUT_REACHED", "far", 1)) ELSE First(rows, Seen("RESUMED", "far"))
       IN ~\E i \in All(rows, Step("PUBLISHED", "far", 1)) : First(rows, Seen("PAUSED", "far")) < i /\ i < until

ReadProtocolValid(c, rows) ==
    LET w == TargetNode(c)
        dead == IF Abrupt(c) THEN w ELSE "none"
    IN /\ ReadsValid(rows, dead, ReadMode(c), IF PromiseCase(c) THEN (IF PromiseAfter(c) THEN {} ELSE {"STALE_EPOCH"}) ELSE {"NOT_READY"})
       /\ PoliciesServed(rows) /\ Ownership(rows, 15, dead)
       /\ Abrupt(c) => DeathValid(rows, w, ReadMode(c), "target") /\ HistoryOf(rows, "target") = "PENDING"
       /\ IF PromiseCase(c) THEN PromiseValid52(c, rows) ELSE InstallValid(c, rows)
       /\ Carries(rows, "recovered", "carried") /\ SameDocs(rows, "recovered", "later") /\ NodeOf(rows, "recovered") = w
       /\ OnlyFailed(rows, (IF c = "promise-after" THEN {} ELSE {"target"}) \cup (IF PromiseCase(c) THEN {} ELSE {"denied"}))

ReadProtocolNegatives(c) ==
    IF PromiseCase(c) THEN {Drop(Step("PROMISE", "leader", 1))} ELSE {Drop(Step("INSTALLED", "far", 1))}
ReadProtocolBreaches(c) ==
    ReadProtocolNegatives(c) \cup OwnershipNegatives \cup
    (IF Abrupt(c) THEN DeathBreaches(TargetNode(c)) \cup {Turn(Step("HISTORY", "target", 1), "SUCCESS")} ELSE {}) \cup
    (IF PromiseCase(c)
     THEN {Drop(Seen("DROPPED", "leader")), Early(Step("PROMISE", "leader", 1)), Early(Seen("RESUMED", "leader")),
           Renumber(Step("DOCS", "recovered", IF Abrupt(c) THEN 2 ELSE 1), 3), Turn(Step("BARRIER", "later", 1), "REUSED")}
          \cup (IF c = "promise-peer" THEN {Drop(Step("TOLD", "leader", 1)), Drop(Step("PROMISE", "near", 1))} ELSE {})
          \cup (IF PromiseAfter(c) THEN {Renumber(Step("REPORT", "target", 1), 4), Early(Seen("PAUSED", "leader"))}
                ELSE {Turn(Step("HISTORY", "target", 1), "SUCCESS"), Drop(Step("BARRIER", "target", 1)),
                      Add(Step("ADMITTED", "target", 1), At("CAPTURE", "target", 1, "OK", 5))})
     ELSE {Turn(Seen("SELECTED", "leader"), "far"), Drop(Seen("DROPPED", "far")), Early(Seen("PAUSED", "far")),
           Add(Step("INVOKED", "denied", 1), At("ADMITTED", "denied", 1, "OK", 1)),
           Add(Seen("PAUSED", "far"), At("PUBLISHED", "far", 1, "OK", 6)), Turn(Step("HISTORY", "denied", 1), "SUCCESS")})

-----------------------------------------------------------------------------
(* Cancellation and close, at a follower with sixteen permits. *)

LifecycleBases == {"cancel-waiting", "cancel-queued", "cancel-before-capture", "cancel-captured", "cancel-completion",
                   "close-waiting", "close-captured"}
ReadLifecycleCases == LifecycleBases \cup {"cancel-captured-halt", "cancel-captured-kill", "close-captured-halt", "close-captured-kill"}
LifecycleCrash(c) == c \notin LifecycleBases
BaseOf(c) == IF c \in {"cancel-captured-halt", "cancel-captured-kill"} THEN "cancel-captured"
             ELSE IF c \in {"close-captured-halt", "close-captured-kill"} THEN "close-captured" ELSE c

\* What is held, and what the probes must show before and during the action.
Waits(b)      == b \in {"cancel-waiting", "close-waiting"}
CapturedCase(b) == b \in {"cancel-captured", "close-captured"}
Retained(b)   == CapturedCase(b) \/ b = "cancel-completion"
HeldPhase(b)  == IF CapturedCase(b) \/ b = "cancel-queued" THEN "CAPTURED"
                 ELSE IF b = "cancel-completion" THEN "SETTLING" ELSE "WAITING"

LifecycleScript52(c) ==
    LET b == BaseOf(c)
        gone(why) == Replied("target", 1, why, 0)
        left(owned) == Settled("target", 1) \o Freed("target", 1, owned)
        cancel(out) == <<SeenO("CANCEL", "target", out)>>
        opened(p, m, owned) == Opened("target", "near", 1, p, m, owned)
        viewed == opened(Stale, 0, 1) \o Cut("target", "near", 1, Stale, 4) \o <<Step("CALLBACK", "target", 1)>>
        report == <<At("REPORT", "target", 1, "OK", 3), At("VIEW_RELEASED", "target", 1, "OK", 4)>>
        paused == <<Seen("PAUSED", "near")>>
        resumed == <<Seen("RESUMED", "near")>>
        before(owned) == ReadProbe("before", 1, owned, HeldPhase(b))
        during(owned) == ReadProbe("during", 1, owned, IF owned = 0 THEN "IDLE" ELSE HeldPhase(b))
        after == Read("after", "near", 1, Stale, 0, 4, 3)
        held == Opened("held", "near", 1, Stale, 0, 1) \o Cut("held", "near", 1, Stale, 4) \o <<Step("CALLBACK", "held", 1)>>
        done == <<At("REPORT", "held", 1, "OK", 3), At("VIEW_RELEASED", "held", 1, "OK", 4)>> \o Settled("held", 1)
                  \o Answer("held", 1, Stale, 4, 3) \o Freed("held", 1, 0)
        action == IF CapturedCase(b) /\ b # "close-captured" THEN gone("CANCELLED") \o cancel("TRUE")
                  ELSE <<SeenO("CLOSE", "near", "DEADLINE_EXCEEDED")>>
    IN ReadProbe("baseline", 1, 0, "IDLE") \o
       CASE b = "cancel-waiting" -> opened(AtLeast, FarAhead, 1) \o before(1) \o gone("CANCELLED") \o left(0) \o cancel("TRUE")
                                     \o during(0) \o ReadProbe("final", 1, 0, "IDLE") \o after
         [] b = "cancel-queued"  -> held \o paused \o opened(Stale, 0, 2) \o before(2) \o gone("CANCELLED") \o left(1)
                                     \o cancel("TRUE") \o during(1) \o resumed \o done \o ReadProbe("final", 1, 0, "IDLE") \o after
         [] b = "cancel-before-capture" -> opened(Stale, 0, 1) \o paused \o before(1) \o gone("CANCELLED") \o left(0)
                                     \o cancel("TRUE") \o during(0) \o resumed \o ReadProbe("final", 1, 0, "IDLE") \o after
         [] b = "cancel-completion" -> viewed \o report \o Settled("target", 1) \o Answer("target", 1, Stale, 4, 3) \o paused
                                     \o before(1) \o cancel("FALSE") \o during(1) \o resumed \o Freed("target", 1, 0)
                                     \o ReadProbe("final", 1, 0, "IDLE") \o after
         [] b = "close-waiting"  -> opened(AtLeast, FarAhead, 1) \o before(1) \o gone("CLOSED") \o left(0)
                                     \o <<SeenO("CLOSE", "near", "SUCCESS")>> \o during(0) \o ReadProbe("final", 1, 0, "IDLE")
         [] OTHER -> viewed \o paused \o before(1) \o action \o during(1) \o resumed \o report
                      \o (IF LifecycleCrash(c)
                          THEN Died("near", ReadMode(c), 4)
                                 \o (IF b = "close-captured" THEN <<At("HISTORY", "target", 1, "PENDING", 0)>> ELSE <<>>)
                                 \o Restarted("near", 4, 4) \o Read("restarted", "near", 2, AtLeast, 4, 4, 3)
                                 \o ReadProbe("final", 2, 0, "IDLE")
                          ELSE Settled("target", 1)
                                 \o (IF b = "close-captured" THEN Answer("target", 1, Stale, 4, 3) ELSE <<>>)
                                 \o Freed("target", 1, 0)
                                 \o (IF b = "close-captured" THEN <<SeenO("CLOSED_LATER", "near", "SUCCESS")>> ELSE <<>>)
                                 \o ReadProbe("final", 1, 0, "IDLE") \o (IF b = "cancel-captured" THEN after ELSE <<>>))

ReadLifecycleScript(c) ==
    Baseline \o LifecycleScript52(c) \o Finished(IF LifecycleCrash(c) THEN "near" ELSE "none")

ReadLifecycleValid(c, rows) ==
    LET b == BaseOf(c)
        crash == LifecycleCrash(c)
        dead == IF crash THEN "near" ELSE "none"
        g == IF crash THEN 2 ELSE 1
        owned == IF Retained(b) \/ b = "cancel-queued" THEN 1 ELSE 0
        probe(label, k, phase) == Exact(rows, At("PROBE", label, IF label = "final" THEN g ELSE 1, phase, k))
    IN /\ ReadsValid(rows, dead, ReadMode(c), {"CANCELLED", "CLOSED"}) /\ PoliciesServed(rows) /\ Ownership(rows, 15, dead)
       /\ NodeOf(rows, "target") = "near"
       /\ Some(rows, Step("CALLBACK", "target", 1)) = Retained(b)
       /\ probe("baseline", 0, "IDLE") /\ probe("before", IF b = "cancel-queued" THEN 2 ELSE 1, HeldPhase(b))
       /\ probe("during", owned, IF owned = 0 THEN "IDLE" ELSE HeldPhase(b)) /\ probe("final", 0, "IDLE")
       /\ IF b \in {"close-waiting", "close-captured"}
          THEN /\ Exact(rows, SeenO("CLOSE", "near", IF b = "close-waiting" THEN "SUCCESS" ELSE "DEADLINE_EXCEEDED"))
               /\ HistoryOf(rows, "target") = (IF b = "close-waiting" THEN "CLOSED" ELSE IF crash THEN "PENDING" ELSE "SUCCESS")
               /\ b = "close-captured" /\ ~crash => Exact(rows, SeenO("CLOSED_LATER", "near", "SUCCESS"))
          ELSE /\ Exact(rows, SeenO("CANCEL", "target", IF b = "cancel-completion" THEN "FALSE" ELSE "TRUE"))
               /\ HistoryOf(rows, "target") = (IF b = "cancel-completion" THEN "SUCCESS" ELSE "CANCELLED")
               /\ Before(rows, Step("HISTORY", "target", 1), Seen("CANCEL", "target"))
       /\ ~Waits(b) =>
            /\ PauseHeld(rows, "near") /\ During(rows, "near", Step("PROBE", "during", 1))
            /\ Retained(b) /\ ~crash => Before(rows, Seen("RESUMED", "near"), Step("FREED", "target", 1))
       /\ Cardinality(All(rows, Step("FREED", "target", 1))) = (IF crash THEN 0 ELSE 1)
       /\ crash => /\ DeathValid(rows, "near", ReadMode(c), "target")
                   /\ Carries(rows, "restarted", "carried") /\ GenOf(rows, "restarted") = 2
       /\ OnlyFailed(rows, IF ServedRead(rows, "target") THEN {} ELSE {"target"})

ReadLifecycleNegatives == OwnershipNegatives
ReadLifecycleBreaches(c) ==
    LET b == BaseOf(c)
    IN OwnershipNegatives \cup
       {Renumber(Step("PROBE", "during", 1), 3), Turn(Step("PROBE", "before", 1), "SHORT"), Drop(Step("SETTLING", "target", 1)),
        Renumber(Step("PROBE", "final", IF LifecycleCrash(c) THEN 2 ELSE 1), 1)} \cup
       (IF LifecycleCrash(c) THEN DeathBreaches("near") \cup {Renumber(Step("INVOKED", "restarted", 2), 3)}
        ELSE {Drop(Step("FREED", "target", 1)), Turn(Step("FREED", "target", 1), "BEFORE_RETURN"),
              Early(Step("FREED", "target", 1))}) \cup
       (IF b \in {"close-waiting", "close-captured"} THEN {Turn(Seen("CLOSE", "near"), "NOT_APPLICABLE"), Turn(Seen("CLOSED_LATER", "near"), "DEADLINE_EXCEEDED")}
        ELSE {Turn(Seen("CANCEL", "target"), "UNKNOWN"), Early(Seen("CANCEL", "target"))}) \cup
       (IF Waits(b) THEN {Add(Step("ADMITTED", "target", 1), Step("CALLBACK", "target", 1))} ELSE {Early(Seen("RESUMED", "near"))})
=============================================================================
