---------------------------- MODULE PublicStress ----------------------------
(***************************************************************************)
(* The V5.1 harnesses that put the public runtime under pressure: occupied  *)
(* transport lanes and slow forces, callbacks that hold the application     *)
(* worker, admission that is full, a partial write, a delayed reply.  What  *)
(* they share: work is held past its deadline, refused work has an exact    *)
(* outcome and leaves no vote, everything drains, service resumes, and a    *)
(* voter restarts on the bytes it retained.  Laid out as PublicScenarios.   *)
(***************************************************************************)
EXTENDS PublicScenarios

Lanes    == 2   \* transport lanes (two outbound per peer, eight inbound)
Deadline == 2   \* an elapsed time at which a request or an operation expires

SeededBy(w) == StartAll \o <<Seen("LEADER", w), Seen("SEED", "ctl"), Try("READ", "ctl")>>

\* Service resumes, then w restarts on its retained bytes.
ResumedThen(w) ==
    <<Seen("WRITE_RESUMED", "ctl"), Seen("CLIENT_SUCCESS", "ctl"), Try("READ_RESUMED", "ctl"), SeenN("DRAINED", "ctl", 0),
      Stop(w, "clean"), Seen("ARCHIVE", w), Start(w, 2), Try("READ_RESTART", "ctl")>>

ServedAgain(rows, w) ==
    /\ AllPassed(rows, {Seen("WRITE_RESUMED", "ctl"), Seen("READ_RESUMED", "ctl"), Seen("READ_RESTART", "ctl")})
    /\ Some(rows, Seen("CLIENT_SUCCESS", "ctl")) /\ Archived(rows, w)
    /\ One(rows, SeenG("STARTED", w, 1)) /\ One(rows, SeenG("STARTED", w, 2))
    /\ InOrder(rows, <<Seen("READ_RESUMED", "ctl"), SeenG("STARTED", w, 2), Seen("READ_RESTART", "ctl")>>)

\* A refused write left no vote anywhere.
NoVoteFor(rows, what) == \A i \in DOMAIN rows : rows[i].ev = "ACCEPT_FORCE" => rows[i].out # what

-----------------------------------------------------------------------------
(* Pressure. *)

PressureCases ==
    {"outbound-saturation", "inbound-saturation", "slow-follower-accept", "slow-follower-proof", "slow-leader-accept"}
Saturation == {"outbound-saturation", "inbound-saturation"}
PressureOwner(x) ==
    CASE x = "inbound-saturation" -> "n3"
      [] x \in {"slow-follower-accept", "slow-follower-proof"} -> "cand"
      [] OTHER -> "old"
ForceKind(x)   == IF x = "slow-follower-proof" THEN "PROOF_FORCE" ELSE "ACCEPT_FORCE"
WrittenKind(x) == IF x = "slow-follower-proof" THEN "PROOF_AFTER_WRITE" ELSE "ACCEPT_AFTER_WRITE"

\* scenario: lanes are held until one more is refused while the majority still
\* serves; or a force is held past the request deadline, and released.
PressureScript(x) ==
    LET w == PressureOwner(x)
    IN SeededBy("old")
         \o (IF x \in Saturation
             THEN <<SeenN("ADMITTED", w, 1), SeenN("PRESSURE_HELD", w, 1), SeenN("ADMITTED", w, 2), SeenN("PRESSURE_HELD", w, 2),
                    SeenN("REJECTED", w, 0), SeenO("PROBE", "ctl", "EOF"), Seen("WRITE_DURING", "ctl"), Try("READ_DURING", "ctl"),
                    Seen("RELEASE", "ctl"), SeenN("PRESSURE_RELEASED", w, 1), SeenN("PRESSURE_RELEASED", w, 2),
                    SeenN("RELEASED", w, 1), SeenN("RELEASED", w, 2)>>
             ELSE <<SeenN("ADMITTED", w, 1), SeenN("RELEASED", w, 1), Seen(WrittenKind(x), w), SeenN("CUT_REACHED", w, 0)>>
                    \o (IF x = "slow-leader-accept"
                        THEN <<SeenO("REFUSED_WRITE", w, "NOT_SUBMITTED"), SeenO("REFUSED_READ", w, "NOT_APPLICABLE")>> ELSE <<>>)
                    \o <<SeenO("HELD_WRITE", "ctl", "INDETERMINATE"), Seen("RELEASE", "ctl"),
                         SeenN("CUT_RELEASED", w, Deadline), Seen(ForceKind(x), w), Try("READ_RESOLVED", "ctl")>>)
         \o ResumedThen("old")

\* reservations: identities are never reused, a release has its reservation,
\* no more are live than lanes exist, none outlives the public close.
Reservations(rows, w) ==
    LET admitted == All(rows, Seen("ADMITTED", w))
        released == All(rows, Seen("RELEASED", w))
        live(i)  == {rows[j].n : j \in {k \in admitted : k <= i}} \ {rows[j].n : j \in {k \in released : k <= i}}
    IN /\ admitted # {} /\ Cardinality(Numbers(rows, Seen("ADMITTED", w))) = Cardinality(admitted)
       /\ \A j \in released : \E i \in admitted : i < j /\ rows[i].n = rows[j].n
       /\ \A i \in DOMAIN rows : Cardinality(live(i)) <= Lanes
       /\ \A i \in All(rows, Seen("REJECTED", w)) : rows[i].n = 0
       /\ live(Len(rows)) = {}

\* delayed_force: the bytes were written, the force waited out the deadline and
\* nothing was reported forced before the release.
DelayedForce(rows, w, written, forced) ==
    /\ PausedAt(rows, w, written)
    /\ NumberOf(rows, Seen("CUT_RELEASED", w)) - NumberOf(rows, Seen("CUT_REACHED", w)) >= Deadline
    /\ Some(rows, Seen(forced, w))
    /\ \A i \in All(rows, Seen(forced, w)) : i > First(rows, Seen("CUT_RELEASED", w))

SaturationValid(x, rows) ==
    LET w == PressureOwner(x)
        holds == All(rows, Seen("PRESSURE_HELD", w))
        frees == All(rows, Seen("PRESSURE_RELEASED", w))
        inside(p) == \E i \in All(rows, p) : rows[i].out = p.out /\ (\A h \in holds : h < i) /\ (\A f \in frees : i < f)
    IN /\ Cardinality(holds) = Lanes /\ Cardinality(frees) = Lanes
       /\ Numbers(rows, Seen("PRESSURE_HELD", w)) = Numbers(rows, Seen("PRESSURE_RELEASED", w))
       /\ \A h \in holds : \E i \in All(rows, Seen("ADMITTED", w)) : i < h /\ rows[i].n = rows[h].n
       /\ inside(Seen("REJECTED", w)) /\ inside(Seen("WRITE_DURING", "ctl")) /\ inside(Seen("READ_DURING", "ctl"))
       /\ x = "inbound-saturation" => Passed(rows, SeenO("PROBE", "ctl", "EOF"))

\* validate
PressureValid(x, rows) ==
    LET w == PressureOwner(x)
    IN /\ Reservations(rows, w) /\ ServedAgain(rows, "old")
       /\ Before(rows, Seen("RELEASE", "ctl"), Seen("WRITE_RESUMED", "ctl"))
       /\ IF x \in Saturation THEN SaturationValid(x, rows)
          ELSE /\ DelayedForce(rows, w, WrittenKind(x), ForceKind(x))
               /\ \A i \in All(rows, Seen("ACK", w)) : i > First(rows, Seen("CUT_RELEASED", w))
               /\ One(rows, Seen("HELD_WRITE", "ctl"))
               /\ Outcomes(rows, Seen("HELD_WRITE", "ctl")) \subseteq
                    (IF x = "slow-leader-accept" THEN {"SUCCESS", "INDETERMINATE"} ELSE {"INDETERMINATE"})
               /\ Before(rows, Seen("RELEASE", "ctl"), Seen("READ_RESOLVED", "ctl"))
               /\ x = "slow-leader-accept" =>
                    /\ Crossed(rows, w, Seen("REFUSED_WRITE", w)) /\ Crossed(rows, w, Seen("REFUSED_READ", w))
                    /\ AllPassed(rows, {SeenO("REFUSED_WRITE", w, "NOT_SUBMITTED"), SeenO("REFUSED_READ", w, "NOT_APPLICABLE")})
                    /\ NoVoteFor(rows, "refused")

PressureNegatives(x) ==
    LET w == PressureOwner(x)
    IN {Drop(Seen("ADMITTED", w)), Drop(Seen("RELEASED", w)), Drop(Seen("CLIENT_SUCCESS", "ctl")),
        Turn(Seen("WRITE_RESUMED", "ctl"), "NOT_SUBMITTED")}
         \cup (IF x \in Saturation
               THEN {Drop(Seen("PRESSURE_HELD", w)), Drop(Seen("PRESSURE_RELEASED", w))}
                      \cup (IF x = "inbound-saturation" THEN {Turn(Seen("PROBE", "ctl"), "TIMEOUT")} ELSE {})
               ELSE {Turn(Seen("HELD_WRITE", "ctl"), "NOT_SUBMITTED"), Drop(Seen("READ_RESOLVED", "ctl")),
                     Drop(Seen("CUT_REACHED", w)), Drop(Seen("CUT_RELEASED", w)), Renumber(Seen("CUT_RELEASED", w), 1)})

\* A lane that leaks or exceeds the bound, a vote for refused work, a force or
\* an acknowledgement that escapes an unforced record.
PressureBreaches(x) ==
    LET w == PressureOwner(x)
    IN IF x \in Saturation
       THEN {Add(Seen("PRESSURE_HELD", w), SeenN("ADMITTED", w, 3)), Turn(Seen("WRITE_DURING", "ctl"), "INDETERMINATE")}
       ELSE {Add(Seen("CUT_REACHED", w), Seen("ACK", w)), Add(Seen("CUT_REACHED", w), Seen(ForceKind(x), w))}
              \cup (IF x = "slow-leader-accept" THEN {Add(Seen("REFUSED_READ", w), SeenO("ACCEPT_FORCE", "cand", "refused"))} ELSE {})

PressureNoise(x) ==
    {[after |-> Seen("PRESSURE_HELD", "old"), row |-> SeenN("REJECTED", "old", 0)],
     [after |-> Seen("CUT_RELEASED", "cand"), row |-> Seen("ACK", "cand")]}

-----------------------------------------------------------------------------
(* Lifecycle hardening. *)

LifecycleCases == {"pinned-rebuild", "partial-leader-accept", "partial-follower-proof", "queued-timeouts", "exchange-timeouts"}
PartialTarget(x) == IF x = "partial-leader-accept" THEN "old" ELSE "n3"
RestartedVoter(x) == IF x \in {"pinned-rebuild", "partial-leader-accept"} THEN "cand" ELSE "old"
Wave(k)   == <<SeenN("FULL", "ctl", 4), SeenN("EXPIRED", "old", Deadline), SeenN("DRAINED_WAVE", "ctl", 1)>>
Round(k)  == <<SeenN("ADMITTED", "old", k), SeenN("PRESSURE_HELD", "n3", k), SeenN("TIMED_OUT", "old", Deadline),
               SeenN("RELEASED", "old", k), Seen("SAMPLE", "ctl"), Seen("WRITE_ROUND", "ctl")>>

\* scenario: a held callback while the image is rebuilt, a write that fails half
\* way, queued calls that expire in waves, replies that never arrive in time.
LifecycleScript(x) ==
    SeededBy("old") \o <<Seen("SAMPLE", "ctl")>>
      \o (CASE x = "pinned-rebuild" ->
                 <<SeenN("READ_CAPTURED", "old", 3), Seen("QUERY_HELD", "old"), Seen("PARTITION", "ctl"), Seen("WRITE_MAJORITY", "cand"),
                   Seen("HEAL", "ctl"), SeenN("REJOIN_INSTALLED", "old", 4), SeenN("RECONSTRUCT_QUEUED", "old", 4), Seen("SAMPLE", "ctl"),
                   Seen("QUERY_RELEASED", "old"), Seen("READ_RELEASED", "old"), Seen("HELD_READ", "old"),
                   SeenN("RECONSTRUCT_BEGIN", "old", 4), SeenN("RECONSTRUCT_END", "old", 4), Try("READ_REBUILT", "old")>>
            [] x = "queued-timeouts" ->
                 <<Seen("QUERY_HELD", "old")>> \o Wave(1) \o Wave(2) \o Wave(3) \o <<Seen("QUERY_RELEASED", "old"), Seen("HELD_READ", "old")>>
            [] x = "exchange-timeouts" -> Round(1) \o Round(2) \o Round(3)
            [] OTHER ->
                 LET w == PartialTarget(x)
                 IN <<Seen("PARTIAL_WRITE_FAILURE", w), SeenO("FAILED_WRITE", "old", "INDETERMINATE"),
                      SeenO("REFUSED_WRITE", w, "NOT_SUBMITTED"), SeenO("REFUSED_READ", w, "NOT_APPLICABLE"), Stop(w, "clean"),
                      SeenN("QUARANTINED", w, 7), SeenO("RESTART_PROBE", w, "FAILED"), SeenO("RESTART_PROBE", w, "FAILED"),
                      SeenN("QUARANTINED", w, 7), SeenN("READ_SURVIVING", "cand", IF w = "old" THEN 0 ELSE 1)>>)
      \o (IF x = "exchange-timeouts" THEN <<>> ELSE <<SeenN("ADMITTED", "old", 1), SeenN("RELEASED", "old", 1)>>)
      \o ResumedThen(RestartedVoter(x))

\* exchange_timeout: the reservation is released at its own deadline, not before.
ExchangeTimeout(rows) ==
    /\ Cardinality(All(rows, Seen("TIMED_OUT", "old"))) = 3
    /\ \A i \in All(rows, Seen("TIMED_OUT", "old")) : rows[i].n = Deadline
    /\ \A i \in All(rows, Seen("PRESSURE_HELD", "n3")) :
         \E j \in All(rows, Seen("RELEASED", "old")) : i < j /\ rows[j].n = rows[i].n

\* rebuild_order: the held view is not replaced before its callback returned.
RebuildOrder(rows) ==
    /\ InOrder(rows, <<Seen("QUERY_HELD", "old"), Seen("REJOIN_INSTALLED", "old"), Seen("RECONSTRUCT_QUEUED", "old"),
                       Seen("QUERY_RELEASED", "old"), Seen("READ_RELEASED", "old"), Seen("RECONSTRUCT_BEGIN", "old"),
                       Seen("RECONSTRUCT_END", "old")>>)
    /\ NumberOf(rows, Seen("READ_CAPTURED", "old")) < NumberOf(rows, Seen("REJOIN_INSTALLED", "old"))
    /\ NumberOf(rows, Seen("RECONSTRUCT_QUEUED", "old")) = NumberOf(rows, Seen("RECONSTRUCT_END", "old"))
    /\ ~\E i \in DOMAIN rows : /\ rows[i].ev \in {"PUBLISHED", "RECONSTRUCT_BEGIN"} /\ rows[i].who = "old"
                               /\ First(rows, Seen("QUERY_HELD", "old")) < i /\ i < First(rows, Seen("READ_RELEASED", "old"))

WavesExpire(rows) ==
    LET full == All(rows, Seen("FULL", "ctl"))
    IN /\ One(rows, Seen("QUERY_HELD", "old")) /\ One(rows, Seen("QUERY_RELEASED", "old"))
       /\ \A i \in full : First(rows, Seen("QUERY_HELD", "old")) < i /\ i < First(rows, Seen("QUERY_RELEASED", "old"))
       /\ Cardinality(full) = 3
       /\ \A i \in full : rows[i].n = 4
       /\ Cardinality(All(rows, Seen("DRAINED_WAVE", "ctl"))) = 3 /\ Numbers(rows, Seen("DRAINED_WAVE", "ctl")) = {1}
       /\ Cardinality(All(rows, Seen("EXPIRED", "old"))) = 3
       /\ \A i \in All(rows, Seen("EXPIRED", "old")) : rows[i].n >= Deadline
       /\ ~Some(rows, Seen("ARGUMENT_TOUCHED", "old"))

\* A partial write: later work is refused, two restarts are rejected without a
\* changed byte, and the majority serves what was chosen and nothing else.
PartialValid(x, rows) ==
    LET w == PartialTarget(x)
        torn == First(rows, Seen("PARTIAL_WRITE_FAILURE", w))
    IN /\ One(rows, Seen("PARTIAL_WRITE_FAILURE", w))
       /\ AllPassed(rows, {SeenO("FAILED_WRITE", "old", "INDETERMINATE"), SeenO("REFUSED_WRITE", w, "NOT_SUBMITTED"),
                           SeenO("REFUSED_READ", w, "NOT_APPLICABLE"), SeenO("RESTART_PROBE", w, "FAILED")})
       /\ Cardinality(All(rows, Seen("RESTART_PROBE", w))) = 2 /\ Cardinality(Numbers(rows, Seen("QUARANTINED", w))) = 1
       /\ ~\E i \in DOMAIN rows : i > torn /\ rows[i].who = w /\ rows[i].ev \in {"ACCEPT_FORCE", "PROOF_FORCE", "PUBLISHED"}
       /\ Has(rows, SeenN("READ_SURVIVING", "cand", IF w = "old" THEN 0 ELSE 1))

\* validate
LifecycleValid(x, rows) ==
    /\ ServedAgain(rows, RestartedVoter(x)) /\ Some(rows, Seen("SAMPLE", "ctl")) /\ Has(rows, SeenN("DRAINED", "ctl", 0))
    /\ Reservations(rows, "old")
    /\ CASE x = "pinned-rebuild" -> /\ RebuildOrder(rows)
                                    /\ AllPassed(rows, {Seen("HELD_READ", "old"), Seen("WRITE_MAJORITY", "cand"), Seen("READ_REBUILT", "old")})
         [] x = "queued-timeouts" -> WavesExpire(rows) /\ Passed(rows, Seen("HELD_READ", "old"))
         [] x = "exchange-timeouts" ->
              /\ Cardinality(All(rows, Seen("PRESSURE_HELD", "n3"))) = 3 /\ ExchangeTimeout(rows)
              /\ Cardinality(All(rows, Seen("WRITE_ROUND", "ctl"))) = 3 /\ AllPassed(rows, {Seen("WRITE_ROUND", "ctl")})
         [] OTHER -> PartialValid(x, rows)

LifecycleNegatives(x) ==
    {Drop(SeenG("STARTED", RestartedVoter(x), 2)), Drop(Seen("RELEASED", "old")), Drop(Seen("SAMPLE", "ctl")),
     Turn(Seen("READ_RESTART", "ctl"), "changed")}
      \cup (CASE x = "pinned-rebuild" ->
                   {Drop(Seen(e, "old")) : e \in {"REJOIN_INSTALLED", "RECONSTRUCT_QUEUED", "RECONSTRUCT_BEGIN", "RECONSTRUCT_END", "READ_RELEASED"}}
              [] x = "queued-timeouts" -> {Drop(Seen("QUERY_HELD", "old"))}
              [] x = "exchange-timeouts" -> {Drop(Seen("PRESSURE_HELD", "n3")), Drop(Seen("TIMED_OUT", "old")),
                                             Renumber(Seen("TIMED_OUT", "old"), 1), Renumber(Seen("TIMED_OUT", "old"), 3)}
              [] OTHER -> {Drop(Seen("PARTIAL_WRITE_FAILURE", PartialTarget(x)))})

LifecycleBreaches(x) ==
    CASE x = "pinned-rebuild" -> {Add(Seen("QUERY_HELD", "old"), Seen("PUBLISHED", "old")), Turn(Seen("HELD_READ", "old"), "changed")}
      [] x = "queued-timeouts" -> {Add(Seen("FULL", "ctl"), Seen("ARGUMENT_TOUCHED", "old")), Renumber(Seen("DRAINED_WAVE", "ctl"), 2)}
      [] x = "exchange-timeouts" -> {Renumber(Seen("TIMED_OUT", "old"), 1), Turn(Seen("WRITE_ROUND", "ctl"), "INDETERMINATE")}
      [] OTHER -> {Add(Seen("REFUSED_READ", PartialTarget(x)), Seen("ACCEPT_FORCE", PartialTarget(x))),
                   Turn(Seen("RESTART_PROBE", PartialTarget(x)), "STARTED"), Renumber(Seen("READ_SURVIVING", "cand"), IF x = "partial-leader-accept" THEN 1 ELSE 0),
                   Add(Seen("RESTART_PROBE", PartialTarget(x)), SeenN("QUARANTINED", PartialTarget(x), 8))}

LifecycleNoise(x) ==
    {[after |-> Seen("RECONSTRUCT_END", "old"), row |-> Seen("PUBLISHED", "old")],
     [after |-> Seen("HEAL", "ctl"), row |-> Seen("PROMISE_FORCE", "old")]}

-----------------------------------------------------------------------------
(* Backpressure. *)

BackpressureCases == {"queued-deadline", "query-reentrancy", "completion-chain", "completion-capacity"}
Reentries == {"add", "read", "start", "checkpoint", "backup", "close"}

\* scenario; Worker.chain registers its three calls before it dispatches them.
BackpressureScript(x) ==
    SeededBy("old")
      \o (CASE x = "queued-deadline" ->
                 <<Seen("QUERY_HELD", "old"), SeenN("CLIENT_ENQUEUED", "old", 3), SeenO("OVERFLOW", "old", "NOT_SUBMITTED"),
                   SeenN("EXPIRED", "old", Deadline), Num(Seen("QUERY_RELEASED", "old"), Deadline), Seen("HELD_READ", "old")>>
            [] x = "query-reentrancy" ->
                 <<Seen("READ_CALLBACK", "old")>>
                   \o [k \in 1..Cardinality(Reentries) |-> Num(SeenO("REENTRY", "old", "REENTRANT_CALL"), k)]
                   \o <<Seen("CALLBACK_DIAGNOSTICS", "old"), Seen("READ_RELEASED", "old"), Seen("HELD_READ", "old")>>
            [] x = "completion-chain" ->
                 <<Seen("CLIENT_ENQUEUED", "old"), Seen("FIRST_SUCCESS", "old"), SeenO("CHAIN_ENTER", "old", "completion-thread"),
                   Seen("SECOND_SUCCESS", "old"), Seen("NESTED_READ", "old"), Seen("CHAIN_EXIT", "old")>>
            [] OTHER ->
                 [k \in 1..4 |-> Num(SeenO("COMPLETION_HELD", "old", "completion-thread"), k)]
                   \o <<SeenO("REFUSED_WRITE", "old", "NOT_SUBMITTED"), SeenO("REFUSED_READ", "old", "NOT_APPLICABLE")>>
                   \o [k \in 1..4 |-> SeenN("COMPLETION_RELEASED", "old", k)])
      \o ResumedThen("old")

\* public: refused while held, never evaluated, never voted for; the permits come
\* back only after the callbacks returned.
BackpressureValid(x, rows) ==
    LET at(e) == First(rows, Seen(e, "old"))
        every(e) == All(rows, Seen(e, "old"))
    IN /\ ServedAgain(rows, "old") /\ NoVoteFor(rows, "refused")
       /\ CASE x = "queued-deadline" ->
                 /\ InOrder(rows, <<Seen("QUERY_HELD", "old"), Seen("CLIENT_ENQUEUED", "old"), Seen("OVERFLOW", "old"),
                                    Seen("EXPIRED", "old"), Seen("QUERY_RELEASED", "old"), Seen("WRITE_RESUMED", "ctl")>>)
                 /\ Has(rows, SeenN("CLIENT_ENQUEUED", "old", 3)) /\ AllPassed(rows, {SeenO("OVERFLOW", "old", "NOT_SUBMITTED"), Seen("EXPIRED", "old")})
                 /\ rows[at("EXPIRED")].n >= Deadline /\ rows[at("QUERY_RELEASED")].n >= Deadline
                 /\ Passed(rows, Seen("HELD_READ", "old")) /\ every("ARGUMENT_TOUCHED") = {}
            [] x = "query-reentrancy" ->
                 /\ Cardinality(Numbers(rows, Seen("REENTRY", "old"))) = Cardinality(Reentries)
                 /\ Outcomes(rows, Seen("REENTRY", "old")) = {"REENTRANT_CALL"}
                 /\ Some(rows, Seen("CALLBACK_DIAGNOSTICS", "old")) /\ One(rows, Seen("READ_RELEASED", "old"))
                 /\ \A i \in every("REENTRY") : at("READ_CALLBACK") < i /\ i < at("READ_RELEASED")
                 /\ ~\E i \in every("ACCEPT_FORCE") : at("READ_CALLBACK") < i /\ i < at("READ_RELEASED")
                 /\ Passed(rows, Seen("HELD_READ", "old"))
            [] x = "completion-chain" ->
                 /\ InOrder(rows, <<Seen("FIRST_SUCCESS", "old"), Seen("CHAIN_ENTER", "old"), Seen("SECOND_SUCCESS", "old"),
                                    Seen("NESTED_READ", "old"), Seen("CHAIN_EXIT", "old"), Seen("WRITE_RESUMED", "ctl")>>)
                 /\ Passed(rows, SeenO("CHAIN_ENTER", "old", "completion-thread"))
            [] OTHER ->
                 /\ Cardinality(every("COMPLETION_HELD")) = 4 /\ Cardinality(every("COMPLETION_RELEASED")) = 4
                 /\ Outcomes(rows, Seen("COMPLETION_HELD", "old")) = {"completion-thread"}
                 /\ AllPassed(rows, {SeenO("REFUSED_WRITE", "old", "NOT_SUBMITTED"), SeenO("REFUSED_READ", "old", "NOT_APPLICABLE")})
                 /\ \A r \in every("REFUSED_WRITE") \cup every("REFUSED_READ") :
                      (\A i \in every("COMPLETION_HELD") : i < r) /\ (\A i \in every("COMPLETION_RELEASED") : r < i)
                 /\ \A i \in every("COMPLETION_RELEASED") : i < First(rows, Seen("WRITE_RESUMED", "ctl"))

BackpressureNegatives(x) ==
    {Drop(Seen("STARTED", "old")), Turn(Seen("WRITE_RESUMED", "ctl"), "NOT_APPLICABLE"), Turn(Seen("READ_RESUMED", "ctl"), "NOT_APPLICABLE"),
     Turn(Seen("READ_RESTART", "ctl"), "NOT_APPLICABLE"), Turn(Seen("ARCHIVE", "old"), "changed"), Early(Seen("READ_RESTART", "ctl"))}
      \cup (CASE x = "queued-deadline" ->
                   {Drop(Seen("QUERY_HELD", "old")), Drop(Seen("QUERY_RELEASED", "old")), Drop(Seen("CLIENT_ENQUEUED", "old")),
                    Renumber(Seen("EXPIRED", "old"), 0), Add(Seen("CLIENT_ENQUEUED", "old"), Seen("ARGUMENT_TOUCHED", "old")),
                    Turn(Seen("EXPIRED", "old"), "INDETERMINATE")}
              [] x = "query-reentrancy" -> {Drop(Seen("REENTRY", "old")), Drop(Seen("CALLBACK_DIAGNOSTICS", "old")),
                                            Turn(Seen("REENTRY", "old"), "NOT_READY"), Turn(Seen("REENTRY", "old"), "SUCCESS")}
              [] x = "completion-chain" -> {Drop(Seen("CHAIN_ENTER", "old")), Drop(Seen("CHAIN_EXIT", "old")), Turn(Seen("CHAIN_ENTER", "old"), "main")}
              [] OTHER -> {Drop(Seen("COMPLETION_HELD", "old")), Drop(Seen("COMPLETION_RELEASED", "old")),
                           Turn(Seen("COMPLETION_HELD", "old"), "main"), Early(Seen("COMPLETION_RELEASED", "old"))})

BackpressureBreaches(x) ==
    {Add(Seen("READ_RESUMED", "ctl"), SeenO("ACCEPT_FORCE", "cand", "refused"))}
      \cup (CASE x = "queued-deadline"     -> {Add(Seen("OVERFLOW", "old"), Seen("ARGUMENT_TOUCHED", "old")), Renumber(Seen("EXPIRED", "old"), 1)}
              [] x = "query-reentrancy"    -> {Turn(Seen("REENTRY", "old"), "SUCCESS"), Add(Seen("READ_CALLBACK", "old"), Seen("ACCEPT_FORCE", "old"))}
              [] x = "completion-chain"    -> {Turn(Seen("CHAIN_ENTER", "old"), "main"), Early(Seen("NESTED_READ", "old"))}
              [] x = "completion-capacity" -> {Early(Seen("COMPLETION_RELEASED", "old")), Turn(Seen("REFUSED_WRITE", "old"), "INDETERMINATE")})

BackpressureNoise(x) ==
    {[after |-> Seen("WRITE_RESUMED", "ctl"), row |-> Seen("ACCEPT_FORCE", "old")],
     [after |-> Seen("STARTED", "old"), row |-> Seen("PROMISE_FORCE", "n3")]}

\* The internal mailboxes: filled to the limit, one more is refused, everything
\* admitted runs in order; a full completion mailbox fails the runtime.
MailboxScript(kind) ==
    <<SeenN("MAILBOX_LIMIT", kind, 3), SeenN("MAILBOX_FULL", kind, 3),
      SeenO("MAILBOX_REFUSED", kind, IF kind = "inputs" THEN "NOT_SUBMITTED" ELSE "INDETERMINATE"),
      SeenO("MAILBOX_AFTER", kind, IF kind = "inputs" THEN "resumed" ELSE "CLOSED"),
      SeenN("MAILBOX_EXECUTED", kind, 3), SeenN("MAILBOX_SIZE", kind, 0), Seen("ARCHIVE", kind), Seen("REOPENED", kind)>>

MailboxValid(kind, rows) ==
    LET limit == NumberOf(rows, Seen("MAILBOX_LIMIT", kind))
    IN /\ limit = 3 /\ Has(rows, SeenN("MAILBOX_FULL", kind, limit)) /\ Exact(rows, SeenN("MAILBOX_EXECUTED", kind, limit))
       /\ Has(rows, SeenN("MAILBOX_SIZE", kind, 0))
       /\ AllPassed(rows, {SeenO("MAILBOX_REFUSED", kind, IF kind = "inputs" THEN "NOT_SUBMITTED" ELSE "INDETERMINATE"),
                           SeenO("MAILBOX_AFTER", kind, IF kind = "inputs" THEN "resumed" ELSE "CLOSED"),
                           Seen("ARCHIVE", kind), Seen("REOPENED", kind)})

MailboxNegatives(kind) ==
    {Renumber(Seen("MAILBOX_LIMIT", kind), 1), Renumber(Seen("MAILBOX_EXECUTED", kind), 2), Renumber(Seen("MAILBOX_EXECUTED", kind), 4),
     Turn(Seen("MAILBOX_REFUSED", kind), "SUCCESS"), Turn(Seen("MAILBOX_AFTER", kind), "other")}
MailboxBreaches(kind) == {Renumber(Seen("MAILBOX_EXECUTED", kind), 4), Turn(Seen("REOPENED", kind), "changed")}
=============================================================================
