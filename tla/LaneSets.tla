----------------------------- MODULE LaneSets -----------------------------
(***************************************************************************)
(* The rest of a durable release lane (V4.0 to V4.4): the plan a dispatch   *)
(* freezes, the set its members' bundles and cleanup receipts make, the     *)
(* baseline registered from a canonical set, and the rehearsal that runs on *)
(* no cloud.  Rows of a member carry its slot as generation; a ratio is in  *)
(* hundredths, and the number of an identity, digest or history names it.   *)
(***************************************************************************)
EXTENDS LaneHarness

Member(e, k)     == Obs("row", e, "member", k, "OK", 0)
MemberN(e, k, n) == Num(Member(e, k), n)
MemberO(e, k, o) == [Member(e, k) EXCEPT !.out = o]

SetSize(p) == IF p = "canonical" THEN 3 ELSE 1
Profiles(v) == IF v = "v4" THEN {"experiment", "canonical"} ELSE {"experiment", "canonical", "failure-drill"}

-----------------------------------------------------------------------------
(* The frozen plan. *)

\* plan: the request, the protected tip's commit and the resources it may use.
PlanScript(p, seconds, keep, runtime) ==
    <<Prop("REPEATS", "plan", SetSize(p)), Prop("SECONDS", "plan", seconds), SeenO("RETENTION", "plan", keep),
      SeenO("MACHINE", "plan", "STANDARD"), SeenO("TIP", "source", "TRUSTED"), SeenO("REF", "source", "MASTER"),
      SeenO("RUN", "plan", "NUMERIC"), Prop("SLOTS", "plan", SetSize(p)), Prop("RUNTIME", "plan", runtime),
      SeenO("RESOURCES", "plan", "FROZEN")>>

\* validate_inputs: the members, duration, retention and machine of the profile.
Request(rows, p, seconds, keep) ==
    /\ Exact(rows, Prop("REPEATS", "plan", SetSize(p)))
    /\ One(rows, Seen("SECONDS", "plan")) /\ Value(rows, "SECONDS", "plan") \in seconds
    /\ One(rows, Seen("RETENTION", "plan")) /\ Outcomes(rows, Seen("RETENTION", "plan")) \subseteq keep
    /\ Exact(rows, SeenO("MACHINE", "plan", "STANDARD"))
InputsV4(p, rows)  == Request(rows, p, IF p = "canonical" THEN {1800, 7200} ELSE {120, 1800},
                              IF p = "canonical" THEN {"gcs"} ELSE {"actions", "gcs"})
InputsV41(p, rows) == Request(rows, p, {1800}, IF p = "experiment" THEN {"actions", "gcs"} ELSE {"gcs"})
FrozenRetention(p) == {IF p = "canonical" THEN "gcs" ELSE "actions"}
InputsV42(p, rows) == Request(rows, p, {1800}, FrozenRetention(p))
InputsV43(p, rows) == Request(rows, p, {1800}, FrozenRetention(p))
InputsV44(p, rows) == Request(rows, p, {3600}, FrozenRetention(p))

\* validate_plan: the slots are the members, the resources the frozen ones.
PlanShape(rows, p, runtime) ==
    /\ Exact(rows, Prop("SLOTS", "plan", SetSize(p))) /\ Exact(rows, Prop("RUNTIME", "plan", runtime))
    /\ Exact(rows, SeenO("RESOURCES", "plan", "FROZEN")) /\ Exact(rows, SeenO("RUN", "plan", "NUMERIC"))
PlanV4(p, rows)  == InputsV4(p, rows) /\ PlanShape(rows, p, Value(rows, "SECONDS", "plan") + 3600)
PlanV41(p, rows) == InputsV41(p, rows) /\ PlanShape(rows, p, 5400)
PlanV42(p, rows) == InputsV42(p, rows) /\ PlanShape(rows, p, 5400)
PlanV43(p, rows) == InputsV43(p, rows) /\ PlanShape(rows, p, 5400)
PlanV44(p, rows) == InputsV44(p, rows) /\ PlanShape(rows, p, 10800) /\ Exact(rows, SeenO("REF", "source", "MASTER"))

\* plan_command: only the tip of the protected branch is planned.
TipPlanned(rows) == Exact(rows, SeenO("TIP", "source", "TRUSTED"))
PlannedV4(p)  == PlanScript(p, IF p = "canonical" THEN 7200 ELSE 120, "gcs", IF p = "canonical" THEN 10800 ELSE 3720)
PlannedV41(p) == PlanScript(p, 1800, "gcs", 5400)
PlannedV42(p) == PlanScript(p, 1800, IF p = "canonical" THEN "gcs" ELSE "actions", 5400)
PlannedV43(p) == PlanScript(p, 1800, IF p = "canonical" THEN "gcs" ELSE "actions", 5400)
PlannedV44(p) == PlanScript(p, 3600, IF p = "canonical" THEN "gcs" ELSE "actions", 10800)
PlanBreaches(v) ==
    {Renumber(Seen("REPEATS", "plan"), 2), Renumber(Seen("SECONDS", "plan"), 60), Turn(Seen("RETENTION", "plan"), "none"),
     Turn(Seen("MACHINE", "plan"), "SPOT"), Turn(Seen("TIP", "source"), "OLDER"), Turn(Seen("RUN", "plan"), "NAMED"),
     Renumber(Seen("SLOTS", "plan"), 2), Turn(Seen("RESOURCES", "plan"), "OTHER"), Renumber(Seen("RUNTIME", "plan"), 1)}
      \cup (IF v = "v44" THEN {Turn(Seen("REF", "source"), "BRANCH")} ELSE {})

-----------------------------------------------------------------------------
(* The members, their receipts and the set. *)

MemberRows(p, k, ratio, second) ==
    <<MemberN("SOURCE", k, 1), MemberN("SLOT", k, k), MemberO("TUPLE", k, p), MemberO("PROVIDER", k, "gcp"), MemberO("PROVEN", k, "TRUE"),
      MemberN("IDENTITY", k, k), MemberN("HISTORY", k, k), MemberN("DIGEST", k, k), MemberN("RATIO", k, ratio), MemberN("SECOND", k, second),
      Obs("row", "RECEIPT", "member", k, "PASS", k), MemberO("DELETED", k, "PASS")>>
MembersRun(p, ratios, seconds) ==
    IF SetSize(p) = 1 THEN MemberRows(p, 1, ratios[3], seconds[3])
    ELSE MemberRows(p, 1, ratios[1], seconds[1]) \o MemberRows(p, 2, ratios[2], seconds[2]) \o MemberRows(p, 3, ratios[3], seconds[3])

\* receipt: the member passed and left nothing; the first lane's names neither
\* its slot nor what was deleted.
ReceiptV4(rows, k) == Some(rows, Member("RECEIPT", k)) /\ Outcomes(rows, Member("RECEIPT", k)) = {"PASS"}
ReceiptExact(rows, k) == Exact(rows, Obs("row", "RECEIPT", "member", k, "PASS", k)) /\ Exact(rows, MemberO("DELETED", k, "PASS"))
ReceiptV41(rows, k) == ReceiptExact(rows, k)
ReceiptV42(rows, k) == ReceiptExact(rows, k)
ReceiptV43(rows, k) == ReceiptExact(rows, k)
ReceiptV44(rows, k) == ReceiptExact(rows, k)

RatioAt(rows, e, k) == NumberOf(rows, Member(e, k))
MedianOf(rows, e, n) ==
    RatioAt(rows, e, CHOOSE k \in 1..n : /\ Cardinality({j \in 1..n : RatioAt(rows, e, j) < RatioAt(rows, e, k)}) <= n \div 2
                                         /\ Cardinality({j \in 1..n : RatioAt(rows, e, j) > RatioAt(rows, e, k)}) <= n \div 2)
MaximumOf(rows, e, n) == RatioAt(rows, e, CHOOSE k \in 1..n : \A j \in 1..n : RatioAt(rows, e, j) <= RatioAt(rows, e, k))
Distinct(rows, e, n) == Cardinality(UNION {Numbers(rows, Member(e, k)) : k \in 1..n}) = n

\* What every assembly asks: the members expected, one source, one comparable
\* tuple, the profile asked for, run on the provider.
Members(rows, p) ==
    /\ {rows[i].gen : i \in {j \in DOMAIN rows : rows[j].who = "member"}} = 1..SetSize(p)
    /\ \A k \in 1..SetSize(p) : /\ Numbers(rows, Member("SOURCE", k)) = Numbers(rows, Member("SOURCE", 1))
                                /\ Exact(rows, MemberO("TUPLE", k, p)) /\ Exact(rows, MemberO("PROVIDER", k, "gcp"))
                                /\ Exact(rows, MemberO("PROVEN", k, "TRUE"))
Slotted(rows, p) == {RatioAt(rows, "SLOT", k) : k \in 1..SetSize(p)} = 1..SetSize(p)

AssembleV4(p, rows)  == Members(rows, p) /\ \A k \in 1..SetSize(p) : ReceiptV4(rows, k)
AssembleV41(p, rows) ==
    /\ Members(rows, p) /\ Slotted(rows, p) /\ \A k \in 1..SetSize(p) : ReceiptV41(rows, k)
    /\ Distinct(rows, "IDENTITY", SetSize(p)) /\ Distinct(rows, "HISTORY", SetSize(p))
AssembleV42(p, rows) ==
    /\ Members(rows, p) /\ Slotted(rows, p) /\ \A k \in 1..SetSize(p) : ReceiptV42(rows, k)
    /\ Distinct(rows, "IDENTITY", SetSize(p)) /\ Distinct(rows, "HISTORY", SetSize(p))
AssembleV43(p, rows) ==
    /\ Members(rows, p) /\ Slotted(rows, p) /\ \A k \in 1..SetSize(p) : ReceiptV43(rows, k)
    /\ Distinct(rows, "DIGEST", SetSize(p)) /\ Distinct(rows, "IDENTITY", SetSize(p))
    /\ p = "canonical" => MedianOf(rows, "RATIO", 3) <= 50 /\ MaximumOf(rows, "RATIO", 3) <= 65
AssembleV44(p, rows) == Members(rows, p) /\ Slotted(rows, p) /\ \A k \in 1..SetSize(p) : ReceiptV44(rows, k)

\* assemble writes what it computed.
SetScript(p, medians, maxima) ==
    <<SeenO("FILES", "set", "EXACT"), SeenO("CHECKSUM", "set", "EQUAL"), Prop("COUNT", "set", SetSize(p)),
      SeenO("ELIGIBLE", "set", IF p = "canonical" THEN "TRUE" ELSE "FALSE"),
      Prop("MEDIAN", "set", medians[1]), Prop("MAXIMUM", "set", maxima[1]),
      Prop("SECOND_MEDIAN", "set", medians[2]), Prop("SECOND_MAXIMUM", "set", maxima[2])>>

\* validate_set: the two files, the checksum, the count and the eligibility of
\* the profile; the later lanes derive their aggregates from the members again.
SetShape(p, rows) ==
    /\ Exact(rows, SeenO("CHECKSUM", "set", "EQUAL")) /\ Exact(rows, SeenO("FILES", "set", "EXACT"))
    /\ Exact(rows, Prop("COUNT", "set", SetSize(p)))
    /\ Exact(rows, SeenO("ELIGIBLE", "set", IF p = "canonical" THEN "TRUE" ELSE "FALSE"))
Aggregates(rows, e, median, maximum, n) ==
    /\ \A k \in 1..n : RatioAt(rows, e, k) > 0
    /\ Exact(rows, Prop(median, "set", MedianOf(rows, e, n))) /\ Exact(rows, Prop(maximum, "set", MaximumOf(rows, e, n)))
SetV4(p, rows)  == SetShape(p, rows) /\ p \in Profiles("v4")
SetV41(p, rows) == SetShape(p, rows) /\ Slotted(rows, p)
SetV42(p, rows) == SetShape(p, rows) /\ Slotted(rows, p)
SetV43(p, rows) ==
    LET n == SetSize(p)
    IN /\ SetShape(p, rows) /\ Slotted(rows, p) /\ Aggregates(rows, "RATIO", "MEDIAN", "MAXIMUM", n)
       /\ p = "canonical" => MedianOf(rows, "RATIO", n) <= 50 /\ MaximumOf(rows, "RATIO", n) <= 65
       /\ Distinct(rows, "DIGEST", n) /\ Distinct(rows, "IDENTITY", n)
SetV44(p, rows) ==
    LET n == SetSize(p)
    IN /\ SetShape(p, rows) /\ Slotted(rows, p)
       /\ Aggregates(rows, "RATIO", "MEDIAN", "MAXIMUM", n) /\ Aggregates(rows, "SECOND", "SECOND_MEDIAN", "SECOND_MAXIMUM", n)
       /\ p = "canonical" => \A e \in {"RATIO", "SECOND"} : MedianOf(rows, e, n) <= 120 /\ MaximumOf(rows, e, n) <= 135
       /\ Distinct(rows, "DIGEST", n) /\ Distinct(rows, "IDENTITY", n)

-----------------------------------------------------------------------------
(* The registry: one entry, under the lane's fixed name, of a canonical set. *)

RegisterScript(p) ==
    <<SeenO("NAME", "registry", "BASELINE"), SeenO("SCHEMA", "registry", "KNOWN"), Prop("ENTRIES", "registry", 0),
      SeenO("REGISTER", "registry", IF p = "canonical" THEN "DONE" ELSE "REFUSED")>>
\* read_registry: absent is empty; the last two lanes check every entry.
RegistryV4(rows)  == Exact(rows, SeenO("SCHEMA", "registry", "KNOWN"))
RegistryV41(rows) == Exact(rows, SeenO("SCHEMA", "registry", "KNOWN"))
RegistryV42(rows) == Exact(rows, SeenO("SCHEMA", "registry", "KNOWN"))
EntriesChecked(rows) == \A i \in All(rows, Seen("ENTRY", "registry")) : rows[i].out = "EXACT"
RegistryV43(rows) == Exact(rows, SeenO("SCHEMA", "registry", "KNOWN")) /\ EntriesChecked(rows)
RegistryV44(rows) == Exact(rows, SeenO("SCHEMA", "registry", "KNOWN")) /\ EntriesChecked(rows)

\* register succeeds exactly of an eligible set, under the lane's name, once.
Registered(rows, readable) ==
    LET may == /\ Exact(rows, SeenO("NAME", "registry", "BASELINE")) /\ Exact(rows, SeenO("ELIGIBLE", "set", "TRUE"))
               /\ Exact(rows, Prop("ENTRIES", "registry", 0)) /\ readable
    IN Exact(rows, SeenO("REGISTER", "registry", IF may THEN "DONE" ELSE "REFUSED"))
RegisterV4(rows)  == Registered(rows, RegistryV4(rows))
RegisterV41(rows) == Registered(rows, RegistryV41(rows))
RegisterV42(rows) == Registered(rows, RegistryV42(rows))
RegisterV43(rows) == Registered(rows, RegistryV43(rows))
RegisterV44(rows) == Registered(rows, RegistryV44(rows) /\ Exact(rows, Prop("COUNT", "set", 3)))
RegisterBreaches(v, p) ==
    IF p # "canonical" THEN {Turn(Seen("REGISTER", "registry"), "DONE")}
    ELSE {Turn(Seen("NAME", "registry"), "OTHER"), Turn(Seen("SCHEMA", "registry"), "UNKNOWN"), Renumber(Seen("ENTRIES", "registry"), 1),
          Turn(Seen("REGISTER", "registry"), "REFUSED")}
         \cup (IF v \in {"v43", "v44"} THEN {Add(Seen("SCHEMA", "registry"), SeenO("ENTRY", "registry", "EXTRA_KEY"))} ELSE {})
-----------------------------------------------------------------------------
(* A bundle and the rehearsal of the lane without a cloud. *)

\* write_bundle and the fields a rehearsal fills in; its stages are constants.
BundleScript(authority) ==
    <<SeenO("OUTPUT", "bundle", "ABSENT"), SeenO("FILES", "bundle", "EXACT"), SeenO("CHECKSUM", "bundle", "EQUAL"), SeenO("SHAPE", "bundle", "EXACT"),
      SeenO("STATUS", "bundle", "PASS"), SeenO("SOURCE_STATE", "bundle", "clean"), SeenO("LOGS", "bundle", "BOUNDED"),
      SeenO("AUTHORITY", "bundle", authority), SeenO("CLEANUP", "bundle", "PASS"), Prop("LEFTOVERS", "bundle", 0)>>
Rehearsal(p, authority) ==
    <<SeenO("PROVIDER", "lane", "fake"), SeenO("PAID", "lane", "FALSE"), Prop("MEMBERS", "lane", SetSize(p))>> \o BundleScript(authority)

\* validate_bundle: two regular files, the checksum, the shape, bounded logs,
\* and for a PASS a verified cleanup; what else a PASS needs grew with the lanes.
BundleShape(rows) ==
    /\ Exact(rows, SeenO("FILES", "bundle", "EXACT")) /\ Exact(rows, SeenO("CHECKSUM", "bundle", "EQUAL"))
    /\ Exact(rows, SeenO("SHAPE", "bundle", "EXACT")) /\ Exact(rows, SeenO("LOGS", "bundle", "BOUNDED"))
    /\ Exact(rows, SeenO("CLEANUP", "bundle", "PASS")) /\ Exact(rows, SeenO("STATUS", "bundle", "PASS"))
    /\ Outcomes(rows, Seen("SOURCE_STATE", "bundle")) \in {{"clean"}, {"dirty"}}
NothingLeft(rows) == Exact(rows, Prop("LEFTOVERS", "bundle", 0))
BundleV4(rows)  == BundleShape(rows)
BundleV41(rows) == BundleShape(rows) /\ NothingLeft(rows)
BundleV42(rows) == BundleShape(rows) /\ NothingLeft(rows) /\ Exact(rows, SeenO("AUTHORITY", "bundle", "BYTES_UNCHANGED"))
BundleV43(rows) == BundleShape(rows) /\ NothingLeft(rows) /\ Exact(rows, SeenO("AUTHORITY", "bundle", "VALID"))
BundleV44(rows) == BundleShape(rows) /\ NothingLeft(rows) /\ Outcomes(rows, Seen("AUTHORITY", "bundle")) \in {{"VALID"}, {"EXPECTED_BOUNDARY"}}

\* fake_run: a phase of the first lane decides what the rehearsal recovered (its
\* hardening phase in a canonical rehearsal here, its recovery phase in others).
FakeV4(p)  == Rehearsal(p, "NONE") \o <<Prop("REPLAYED", "lane", IF p = "canonical" THEN 0 ELSE 1), Prop("CYCLES", "lane", IF p = "canonical" THEN 8 ELSE 1)>>
FakeV41(p) == Rehearsal(p, "NONE") \o <<SeenO("SOURCE_LOSS", "lane", "MODELLED")>>
FakeV42(p) == Rehearsal(p, "BYTES_UNCHANGED") \o <<SeenO("ROLLBACK", "lane", "MODELLED")>>
FakeV43(p) == Rehearsal(p, "VALID") \o <<SeenO("WARM", "lane", "MODELLED")>>
FakeV44(p) == Rehearsal(p, "VALID") \o <<SeenO("MATRIX", "lane", "MODELLED")>>
FakeRan(rows) == Exact(rows, SeenO("OUTPUT", "bundle", "ABSENT"))
BundleBreaches(v) ==
    {Turn(Seen("OUTPUT", "bundle"), "PRESENT"), Turn(Seen("FILES", "bundle"), "EXTRA"), Turn(Seen("CHECKSUM", "bundle"), "OTHER"),
     Turn(Seen("SHAPE", "bundle"), "SHORT"), Turn(Seen("LOGS", "bundle"), "UNBOUNDED"), Turn(Seen("CLEANUP", "bundle"), "FAIL"),
     Turn(Seen("SOURCE_STATE", "bundle"), "unknown")}
      \cup (IF v = "v4" THEN {} ELSE {Renumber(Seen("LEFTOVERS", "bundle"), 1)})
      \cup (IF v \in {"v4", "v41"} THEN {} ELSE {Turn(Seen("AUTHORITY", "bundle"), "LOST")})

-----------------------------------------------------------------------------
(* The lanes as cases of the matrix. *)

Versions == {"v4", "v41", "v42", "v43", "v44"}
SetFamily(v)  == [v4 |-> "set-v4", v41 |-> "set-v41", v42 |-> "set-v42", v43 |-> "set-v43", v44 |-> "set-v44"][v]
FakeFamily(v) == [v4 |-> "fake-v4", v41 |-> "fake-v41", v42 |-> "fake-v42", v43 |-> "fake-v43", v44 |-> "fake-v44"][v]
SetCases ==
    UNION {{Case(SetFamily(v), p) : p \in Profiles(v)} \cup {Case(FakeFamily(v), p) : p \in Profiles(v)} : v \in Versions}
SetFamilies == {c.family : c \in SetCases}
VersionOf(c) == CHOOSE v \in Versions : c.family \in {SetFamily(v), FakeFamily(v)}
Fake(c) == c.family = FakeFamily(VersionOf(c))

SetRun(p, plan, ratios, seconds) ==
    plan \o MembersRun(p, ratios, seconds)
      \o SetScript(p, IF SetSize(p) = 3 THEN <<ratios[2], seconds[2]>> ELSE <<ratios[3], seconds[3]>>, <<ratios[3], seconds[3]>>) \o RegisterScript(p)
\* The members sit on the thresholds; a single member may be past them.
LaneSetScript(c) ==
    LET p == c.cut
        v == VersionOf(c)
        over(n) == IF p = "canonical" THEN n ELSE n + 20
    IN IF Fake(c)
       THEN CASE v = "v4" -> FakeV4(p) [] v = "v41" -> FakeV41(p) [] v = "v42" -> FakeV42(p) [] v = "v43" -> FakeV43(p) [] v = "v44" -> FakeV44(p)
       ELSE CASE v = "v4"  -> SetRun(p, PlannedV4(p), <<1, 1, 1>>, <<1, 1, 1>>)
              [] v = "v41" -> SetRun(p, PlannedV41(p), <<1, 1, 1>>, <<1, 1, 1>>)
              [] v = "v42" -> SetRun(p, PlannedV42(p), <<1, 1, 1>>, <<1, 1, 1>>)
              [] v = "v43" -> SetRun(p, PlannedV43(p), <<40, 50, over(65)>>, <<1, 1, 1>>)
              [] v = "v44" -> SetRun(p, PlannedV44(p), <<100, 120, over(135)>>, <<90, 110, over(130)>>)

LaneSetValid(c, rows) ==
    LET p == c.cut
        v == VersionOf(c)
    IN IF Fake(c)
       THEN /\ FakeRan(rows)
            /\ CASE v = "v4" -> BundleV4(rows) [] v = "v41" -> BundleV41(rows) [] v = "v42" -> BundleV42(rows)
                 [] v = "v43" -> BundleV43(rows) [] v = "v44" -> BundleV44(rows)
       ELSE /\ TipPlanned(rows)
            /\ CASE v = "v4"  -> PlanV4(p, rows) /\ AssembleV4(p, rows) /\ SetV4(p, rows) /\ RegisterV4(rows)
                 [] v = "v41" -> PlanV41(p, rows) /\ AssembleV41(p, rows) /\ SetV41(p, rows) /\ RegisterV41(rows)
                 [] v = "v42" -> PlanV42(p, rows) /\ AssembleV42(p, rows) /\ SetV42(p, rows) /\ RegisterV42(rows)
                 [] v = "v43" -> PlanV43(p, rows) /\ AssembleV43(p, rows) /\ SetV43(p, rows) /\ RegisterV43(rows)
                 [] v = "v44" -> PlanV44(p, rows) /\ AssembleV44(p, rows) /\ SetV44(p, rows) /\ RegisterV44(rows)

\* The first lane cannot tell one bundle assembled three times.
SetBreaches(v, p) ==
    LET last == SetSize(p)
        later == v # "v4"
        ratio == v \in {"v43", "v44"}
    IN {Turn(Member("TUPLE", last), "other"), Turn(Member("PROVIDER", last), "fake"), Turn(Member("PROVEN", last), "FALSE"),
        Turn(Member("RECEIPT", last), "FAIL"), Turn(Seen("FILES", "set"), "EXTRA"), Turn(Seen("CHECKSUM", "set"), "OTHER"),
        Renumber(Seen("COUNT", "set"), 2), Turn(Seen("ELIGIBLE", "set"), "UNKNOWN")}
       \cup (IF p = "canonical" THEN {Renumber(Member("SOURCE", 2), 2)} ELSE {})
       \cup (IF later THEN {Renumber(Member("SLOT", last), 9), Turn(Member("DELETED", last), "FAIL"), Renumber(Member("RECEIPT", last), 9)} ELSE {})
       \cup (IF later /\ p = "canonical" THEN {Renumber(Member("IDENTITY", 2), 1)} ELSE {})
       \cup (IF v \in {"v41", "v42"} /\ p = "canonical" THEN {Renumber(Member("HISTORY", 3), 1)} ELSE {})
       \cup (IF ratio THEN {Renumber(Seen("MEDIAN", "set"), 1), Renumber(Seen("MAXIMUM", "set"), 1), Renumber(Member("RATIO", last), 0)} ELSE {})
       \cup (IF ratio /\ p = "canonical" THEN {Renumber(Member("DIGEST", 2), 1), Renumber(Member("RATIO", 3), 136)} ELSE {})
       \cup (IF v = "v44" THEN {Renumber(Seen("SECOND_MEDIAN", "set"), 1), Renumber(Member("SECOND", last), 0)} ELSE {})
LaneSetBreaches(c) ==
    LET v == VersionOf(c)
    IN IF Fake(c) THEN BundleBreaches(v) ELSE PlanBreaches(v) \cup SetBreaches(v, c.cut) \cup RegisterBreaches(v, c.cut)
=============================================================================
