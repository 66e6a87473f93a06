---------------------------- MODULE PublicLimits ----------------------------
(***************************************************************************)
(* The V5.1 harnesses at the sealed limits of the public runtime: calls     *)
(* refused for want of a quorum, of the one pending permit or of room in a  *)
(* frame, a bulk or the document set; authority opened with the wrong       *)
(* settings; frames that are not this group's; a voter whose staging or     *)
(* retained budget is too small; and the internal boundaries of the store.  *)
(* Laid out as PublicScenarios.                                             *)
(***************************************************************************)
EXTENDS PublicStress

Ctl(e)     == Seen(e, "ctl")
CtlN(e, k) == SeenN(e, "ctl", k)
CtlO(e, o) == SeenO(e, "ctl", o)

-----------------------------------------------------------------------------
(* Refused calls. *)

LimitCases == {"no-quorum-start", "pending-read", "pending-write", "payload-limit", "bulk-limit", "document-limit"}
HoldsPermit(x)  == x \in {"pending-read", "pending-write"}
Overlaps(x) == HoldsPermit(x) \/ x = "no-quorum-start"
SealedLimit == 4       \* documents and bulk elements; frames are measured in the same unit
Asked(x)    == CASE x = "document-limit" -> 3 [] x \in {"payload-limit", "bulk-limit"} -> 5 [] OTHER -> 1
HeldCut(x)  == IF x = "pending-read" THEN "READ_CAPTURED" ELSE "ACCEPT_AFTER_FORCE"

\* The controller's refused call and the worker's own row of it.
RefusedCalls(x) ==
    <<Num(CtlO("REFUSED_WRITE", "NOT_SUBMITTED"), Asked(x)), SeenO("FAILED_WRITE", "old", "NOT_SUBMITTED")>>
      \o (IF Overlaps(x) THEN <<CtlO("REFUSED_READ", "NOT_APPLICABLE"), SeenO("FAILED_READ", "old", "NOT_APPLICABLE")>> ELSE <<>>)

\* await_admission_idle, then the call.
PermitIdle == CtlN("IDLE", 0)
Calm(row) == <<PermitIdle, row>>

\* process_case
LimitScript(x) ==
    (IF x = "no-quorum-start"
     THEN <<Start("old", 1), Seen("PROMISE_FORCE", "old")>> \o RefusedCalls(x) \o <<Start("cand", 1), Start("n3", 1)>>
     ELSE StartAll)
      \o Calm(CtlN("SEED", 1)) \o Calm(CtlN("SEED", 1)) \o Calm(Ctl("READ"))
      \o (IF HoldsPermit(x)
          THEN <<PermitIdle, Seen(HeldCut(x), "old"), Seen("CUT_REACHED", "old")>> \o RefusedCalls(x)
                 \o <<Seen("CUT_RELEASED", "old"), Ctl("HELD")>>
          ELSE IF x = "no-quorum-start" THEN <<>> ELSE <<PermitIdle>> \o RefusedCalls(x))
      \o Calm(Try("READ_AGAIN", "ctl")) \o Calm(Ctl("WRITE_RESUMED")) \o Calm(Try("READ_RESUMED", "ctl"))
      \o <<Stop("old", "clean"), Seen("ARCHIVE", "old"), Start("old", 2)>> \o Calm(Try("READ_RESTART", "ctl"))

\* sequential_admission: an idle permit was seen after the previous answer.
\* Probes that overlap a held call, or that want a solo voter, are exempt.
CallEvents(x) ==
    {"SEED", "READ", "HELD", "READ_AGAIN", "WRITE_RESUMED", "READ_RESUMED", "READ_RESTART"}
      \cup (IF Overlaps(x) THEN {} ELSE {"REFUSED_WRITE"})
SequentialAdmission(x, rows) ==
    LET calls == {i \in DOMAIN rows : rows[i].ev \in CallEvents(x)}
    IN /\ calls # {}
       /\ \A i \in calls : \E k \in All(rows, PermitIdle) :
            rows[k].n = 0 /\ k < i /\ ~\E j \in calls : k < j /\ j < i

\* rejection_history: exact outcomes, told by the worker itself, inside the
\* held pause where there is one, nowhere accepted, and service afterwards.
RejectionHistory(x, rows) ==
    LET write == CtlO("REFUSED_WRITE", "NOT_SUBMITTED")
        read  == CtlO("REFUSED_READ", "NOT_APPLICABLE")
        told  == {SeenO("FAILED_WRITE", "old", "NOT_SUBMITTED")}
                   \cup (IF Overlaps(x) THEN {SeenO("FAILED_READ", "old", "NOT_APPLICABLE")} ELSE {})
        seeds == Cardinality({i \in All(rows, Ctl("SEED")) : Some(rows, write) /\ i < First(rows, write)})
        n     == NumberOf(rows, write)
    IN /\ One(rows, write) /\ Passed(rows, write) /\ (Overlaps(x) => One(rows, read) /\ Passed(rows, read))
       /\ x \in {"payload-limit", "bulk-limit"} => n > SealedLimit
       /\ x = "document-limit" => n <= SealedLimit /\ seeds = 2 /\ n + seeds > SealedLimit
       /\ \A p \in told : One(rows, p) /\ Passed(rows, p) /\ (HoldsPermit(x) => Crossed(rows, "old", p))
       /\ HoldsPermit(x) => Before(rows, Seen(HeldCut(x), "old"), Seen("CUT_REACHED", "old"))
       /\ NoVoteFor(rows, "refused")
       /\ InOrder(rows, <<write, Ctl("WRITE_RESUMED")>>) /\ InOrder(rows, <<write, Ctl("READ_RESUMED")>>)
       /\ AllPassed(rows, {Ctl("WRITE_RESUMED"), Ctl("READ_RESUMED")})

\* bounds: nobody else had been started when the solo voter refused.
SoloRefused(rows) ==
    \A i \in All(rows, Ctl("REFUSED_READ")) : \A w \in {"cand", "n3"} :
        \A j \in All(rows, SeenG("STARTED", w, 1)) : j > i

LimitValid(x, rows) ==
    /\ RejectionHistory(x, rows) /\ SequentialAdmission(x, rows) /\ Archived(rows, "old")
    /\ x = "no-quorum-start" => SoloRefused(rows)

LimitNegatives(x) ==
    {Turn(Ctl("REFUSED_WRITE"), "SUCCESS"), Drop(Seen("FAILED_WRITE", "old")), Drop(Ctl("WRITE_RESUMED")),
     Drop(PermitIdle), Renumber(PermitIdle, 1)}

\* A refused write that was voted for, a permit that leaks, an outcome the
\* worker never told, a refusal that waited for the release.
LimitBreaches(x) ==
    {Add(Seen("FAILED_WRITE", "old"), SeenO("ACCEPT_FORCE", "cand", "refused")), Renumber(PermitIdle, 1),
     Turn(Seen("FAILED_WRITE", "old"), "INDETERMINATE"), Turn(Ctl("WRITE_RESUMED"), "NOT_SUBMITTED")}
      \cup (IF HoldsPermit(x) THEN {Early(Seen("CUT_RELEASED", "old"))} ELSE {})

LimitNoise ==
    {[after |-> Ctl("SEED"), row |-> PermitIdle], [after |-> Ctl("SEED"), row |-> SeenO("ACCEPT_FORCE", "cand", "OK")]}

-----------------------------------------------------------------------------
(* Wrong authority. *)

DiskCases    == {"disk-v10", "disk-v11"}
RefusedCases == DiskCases \cup {"automatic-on-configured", "configured-on-automatic", "group-mismatch",
                                "configuration-mismatch", "schema-mismatch", "bounds-mismatch"}
\* ADMISSION_REASONS
AdmissionReason(x) ==
    IF x \in DiskCases \cup {"automatic-on-configured"} THEN "PROTOCOL_MISMATCH" ELSE "INTEGRITY_FAILURE"

\* admission_case: the fault (a version header, or none), the archive, two
\* processes that try to open it, and a valid one where the bytes are valid.
RefusedScript(x) ==
    <<Ctl("BOOTSTRAP"), CtlN("FAULT", IF x \in DiskCases THEN 1 ELSE 0), Ctl("ARCHIVE"),
      Num(SeenO("PROBE", "first", AdmissionReason(x)), 1), SeenN("INVENTORY", "first", 0),
      Num(SeenO("PROBE", "second", AdmissionReason(x)), 2), SeenN("INVENTORY", "second", 0)>>
      \o (IF x \in DiskCases THEN <<>> ELSE <<Ctl("VALID_CONTROL")>>)

\* admission_authority: the archive is the faulted bytes and the fault is
\* exactly one header field of one file, or nothing at all.
AdmissionAuthority(x, rows) ==
    Archived(rows, "ctl") /\ Exact(rows, CtlN("FAULT", IF x \in DiskCases THEN 1 ELSE 0))

\* admission: two processes, one reason, unchanged bytes after each.
AdmissionRefused(x, rows) ==
    /\ \A w \in {"first", "second"} :
         /\ One(rows, Seen("PROBE", w)) /\ Passed(rows, SeenO("PROBE", w, AdmissionReason(x)))
         /\ Exact(rows, SeenN("INVENTORY", w, 0))
    /\ NumberOf(rows, Seen("PROBE", "first")) # NumberOf(rows, Seen("PROBE", "second"))
RefusedValid(x, rows) ==
    /\ AdmissionAuthority(x, rows) /\ AdmissionRefused(x, rows)
    /\ x \notin DiskCases => Passed(rows, Ctl("VALID_CONTROL"))

RefusedNegatives(x) ==
    {Renumber(Seen("INVENTORY", "first"), 1), Renumber(Seen("PROBE", "second"), 1), Turn(Seen("PROBE", "first"), "SUCCESS")}

\* A rejected open that writes, that keeps the ownership, that is accepted, or
\* that fails for another reason.
RefusedBreaches(x) ==
    {Renumber(Seen("INVENTORY", "second"), 1), Turn(Seen("PROBE", "second"), "SUCCESS"), Turn(Seen("PROBE", "first"), "CAPACITY_EXCEEDED")}
      \cup (IF x \in DiskCases THEN {} ELSE {Turn(Ctl("VALID_CONTROL"), "NOT_APPLICABLE")})

-----------------------------------------------------------------------------
(* Wrong frames. *)

WireFaults == <<"wire-v10", "wire-v11", "wire-mode", "wire-protocol", "wire-group", "wire-manifest", "wire-oversize">>
WireEnds   == {"EOF", "RESET"}

\* exchange: what the socket did; a timeout is no answer.
WireProbe(f, end) ==
    <<Seen("LIVE_BEFORE", f), SeenN("ISOLATED", f, 1), Num(SeenO("BAD_FRAME", f, end), 0), SeenN("INVENTORY", f, 0), Seen("LIVE_AFTER", f)>>

\* wire_case: seven frames, each with one field wrong, between live handshakes.
WireScript(end) ==
    <<Start("old", 1)>> \o WireProbe(WireFaults[1], end) \o WireProbe(WireFaults[2], end) \o WireProbe(WireFaults[3], end)
      \o WireProbe(WireFaults[4], end) \o WireProbe(WireFaults[5], end) \o WireProbe(WireFaults[6], end)
      \o WireProbe(WireFaults[7], end) \o <<Stop("old", "clean")>>

\* wire: closed without a byte, nothing changed, the peer alive on both sides
\* of it, and the frame wrong in the one field it is about.
WireValid(end, rows) ==
    \A k \in DOMAIN WireFaults :
        LET f == WireFaults[k]
        IN /\ One(rows, Seen("BAD_FRAME", f)) /\ Outcomes(rows, Seen("BAD_FRAME", f)) \subseteq WireEnds
           /\ Numbers(rows, Seen("BAD_FRAME", f)) = {0}
           /\ Exact(rows, SeenN("INVENTORY", f, 0)) /\ Exact(rows, SeenN("ISOLATED", f, 1))
           /\ Passed(rows, Seen("LIVE_BEFORE", f)) /\ Passed(rows, Seen("LIVE_AFTER", f))

WireNegatives(end) ==
    {Turn(Seen("BAD_FRAME", "wire-v10"), "TIMEOUT"), Renumber(Seen("BAD_FRAME", "wire-v10"), 1),
     Renumber(Seen("INVENTORY", "wire-v10"), 1), Drop(Seen("BAD_FRAME", "wire-oversize")), Turn(Seen("LIVE_AFTER", "wire-v10"), "WRONG")}
WireBreaches(end) ==
    {Renumber(Seen("BAD_FRAME", "wire-group"), 1), Turn(Seen("BAD_FRAME", "wire-oversize"), "TIMEOUT"),
     Turn(Seen("LIVE_AFTER", "wire-mode"), "WRONG"), Renumber(Seen("INVENTORY", "wire-manifest"), 1)}
-----------------------------------------------------------------------------
(* A voter that has run out of one budget. *)

ResourceCases == {"snapshot-staging", "retained-bytes"}
VoterBudget   == 2      \* 128 KiB of staging or of retained bytes, in units of 64 KiB
HeldBytes     == 1      \* what the voter retains when it refuses

\* scenario: the load is one bulk whose image exceeds a quarter of the staging
\* budget, or two bulks behind a partition of the voter; the voter refuses, so
\* do its clients, the other two serve on, and every process is restarted.
ResourceScript(x) ==
    StartAll \o <<Ctl("SEED"), Try("READ", "ctl"), SeenN("CAUGHT_UP", "n3", 1)>>
      \o (IF x = "retained-bytes"
          THEN <<Ctl("ISOLATE"), Ctl("LOAD"), Ctl("LOAD"), Seen("RECOVERY_FLOOR", "old"), Ctl("HEAL"),
                 Num(SeenO("REJECTION", "n3", "CAPACITY_EXCEEDED"), VoterBudget + 1),
                 SeenN("OCCUPANCY", "n3", HeldBytes), SeenN("FILES", "n3", HeldBytes)>>
          ELSE <<Ctl("LOAD"), Seen("PUBLISHED_IMAGE", "old"),
                 Num(SeenO("REJECTION", "n3", "CAPACITY_EXCEEDED"), VoterBudget + 1), Seen("REJECTION_RECEIVED", "old")>>)
      \o <<CtlO("REFUSED_WRITE", "NOT_SUBMITTED"), CtlO("REFUSED_READ", "NOT_APPLICABLE"),
           Ctl("WRITE_LATER"), Try("READ_LATER", "ctl"), Stop("n3", "clean"), SeenN("ARCHIVE", "n3", 1), Start("n3", 2),
           Try("READ_RESTART", "ctl"), Stop("old", "clean"), Start("old", 2), Try("READ_LEADER", "ctl"),
           SeenN("PROVEN", "n3", 1), SeenN("BUDGET", "n3", HeldBytes)>>

\* reservation, and the image is over the whole budget: no cleanup could help.
Reservation(rows) ==
    LET held == NumberOf(rows, Seen("OCCUPANCY", "n3")) wanted == NumberOf(rows, Seen("REJECTION", "n3"))
    IN wanted > VoterBudget - held /\ wanted > VoterBudget /\ Exact(rows, SeenN("FILES", "n3", held))
\* snapshot_offer: refused for capacity, over the allowance, sent from a
\* published image that holds the load, and the refusal reached the proposer.
SnapshotOffer(rows) ==
    /\ NumberOf(rows, Seen("REJECTION", "n3")) > VoterBudget
    /\ Passed(rows, Seen("PUBLISHED_IMAGE", "old")) /\ Passed(rows, Seen("REJECTION_RECEIVED", "old"))
    /\ ~Some(rows, Seen("TRANSFER_AFTER_REJECTION", "n3"))

\* public
ResourceValid(x, rows) ==
    LET observed == Seen("REJECTION", "n3")
        served   == {Ctl("WRITE_LATER"), Ctl("READ_LATER"), Ctl("READ_RESTART"), Ctl("READ_LEADER")}
    IN /\ Some(rows, observed) /\ Passed(rows, SeenO("REJECTION", "n3", "CAPACITY_EXCEEDED"))
       /\ IF x = "retained-bytes" THEN Reservation(rows) ELSE SnapshotOffer(rows)
       /\ \A p \in {CtlO("REFUSED_WRITE", "NOT_SUBMITTED"), CtlO("REFUSED_READ", "NOT_APPLICABLE")} :
            One(rows, p) /\ Passed(rows, p) /\ Before(rows, observed, p)
       /\ AllPassed(rows, served) /\ \A p \in served : Before(rows, observed, p)
       /\ Before(rows, SeenG("STARTED", "n3", 2), Ctl("READ_RESTART")) /\ Some(rows, SeenG("STARTED", "old", 2))
       /\ Archived(rows, "n3") /\ NumberOf(rows, Seen("ARCHIVE", "n3")) >= 1 /\ NumberOf(rows, Seen("PROVEN", "n3")) >= 1
       /\ NumberOf(rows, Seen("BUDGET", "n3")) <= VoterBudget

\* public_negatives
ResourceNegatives(x) ==
    {Drop(Seen("REJECTION", "n3")), Drop(SeenG("STARTED", "n3", 2)), Turn(Ctl("WRITE_LATER"), "NOT_APPLICABLE"),
     Turn(Ctl("READ_LATER"), "NOT_APPLICABLE"), Turn(Ctl("READ_RESTART"), "NOT_APPLICABLE"),
     Turn(Ctl("READ_LEADER"), "NOT_APPLICABLE"), Turn(Seen("ARCHIVE", "n3"), "CHANGED"), Turn(Ctl("REFUSED_WRITE"), "SUCCESS")}
      \cup (IF x = "retained-bytes"
            THEN {Renumber(Seen("OCCUPANCY", "n3"), HeldBytes + 1), Renumber(Seen("REJECTION", "n3"), VoterBudget)}
            ELSE {Turn(Seen("REJECTION", "n3"), "BORROWED"), Drop(Seen("PUBLISHED_IMAGE", "old"))})

\* A voter that serves while it is full, that loses what it had proven or goes
\* over its budget, and an offer that is installed after it was refused.
ResourceBreaches(x) ==
    {Turn(Ctl("REFUSED_WRITE"), "SUCCESS"), Renumber(Seen("PROVEN", "n3"), 0), Renumber(Seen("BUDGET", "n3"), VoterBudget + 1),
     Turn(Ctl("READ_RESTART"), "NOT_APPLICABLE")}
      \cup (IF x = "retained-bytes" THEN {Renumber(Seen("FILES", "n3"), 0)}
            ELSE {Add(Seen("REJECTION_RECEIVED", "old"), Seen("TRANSFER_AFTER_REJECTION", "n3"))})
ResourceNoise == {[after |-> Seen("REJECTION", "n3"), row |-> Num(SeenO("REJECTION", "n3", "CAPACITY_EXCEEDED"), VoterBudget + 1)]}

-----------------------------------------------------------------------------
(* The store's own limits, without the public runtime. *)

BudgetCases == {"promise-count", "retained-bytes", "transfer-staging", "entry-count", "ancestry-count", "epoch-overflow"}
Retries(x)  == x \in {"promise-count", "retained-bytes"}    \* the durable promise is asked for again
RetryEvents == {"PROMISE_BEFORE_FORCE", "PROMISE_AFTER_FORCE", "PROMISE_BEFORE_ACK"}
StoreLimit  == 3        \* a count, a byte budget or a staging budget, scaled down
StoreUsed(x) == CASE x \in {"entry-count", "ancestry-count", "promise-count", "retained-bytes"} -> StoreLimit [] OTHER -> 1
StoreAsked(x) == IF x = "transfer-staging" THEN StoreLimit ELSE 1
LastEpoch   == 16       \* 2^63 - 1, with its residue modulo the three ranks

\* next_epoch of the model, or 0 where it is exhausted
RankedEpoch(observed, rank) ==
    LET e == 3 * (IF observed = 1 THEN 0 ELSE (observed - 2) \div 3 + 1) + rank + 2
    IN IF e <= LastEpoch THEN e ELSE 0
Probe(observed, rank) ==
    LET e == RankedEpoch(observed, rank)
    IN Obs("row", "EPOCH_PROBE", <<"rank-0", "rank-1", "rank-2">>[rank + 1], observed, IF e = 0 THEN "CAPACITY_EXCEEDED" ELSE "OK", e)
Probes == [k \in 1..9 |-> Probe(LastEpoch - 6 + 3 * ((k - 1) \div 3), (k - 1) % 3)]

\* run: the worker reaches the boundary, is archived and is reopened.
BudgetScript(x) ==
    (IF x = "epoch-overflow" THEN <<CtlN("PROMISED", LastEpoch)>> \o Probes
     ELSE <<CtlN("USED", StoreUsed(x)), Num(CtlO("REJECTED", "CAPACITY_EXCEEDED"), StoreAsked(x))>>
            \o (IF Retries(x) THEN <<Ctl("PROMISE_BEFORE_FORCE"), Ctl("PROMISE_AFTER_FORCE"), Ctl("PROMISE_BEFORE_ACK"), CtlN("STATUS_PROMISES", 0)>>
                ELSE <<>>))
      \o <<CtlN("INVENTORY", 0), Ctl("ARCHIVE"), CtlN("REOPENED", 0)>>

\* epoch_probes: each of the nine probes, once, and next_epoch's own answer.
EpochProbes(rows) ==
    /\ Cardinality({i \in DOMAIN rows : rows[i].ev = "EPOCH_PROBE"}) = 9
    /\ \A k \in 1..9 : Exact(rows, Probes[k])
\* capacity_math: the limit was reached and the request is the next unit.
CapacityMath(rows) ==
    LET used == NumberOf(rows, Ctl("USED")) asked == NumberOf(rows, Ctl("REJECTED"))
    IN used > 0 /\ asked > 0 /\ asked > StoreLimit - used
\* internal_claim: the refusal is for capacity, and the only events are the
\* force pair and acknowledgement of an exact retry.
InternalClaim(x, rows) ==
    LET events == {rows[i].ev : i \in {j \in DOMAIN rows : rows[j].ev \in RetryEvents \cup {"DELETE"}}}
    IN IF x = "epoch-overflow" THEN Exact(rows, CtlN("PROMISED", LastEpoch)) /\ EpochProbes(rows)
       ELSE /\ Passed(rows, CtlO("REJECTED", "CAPACITY_EXCEEDED")) /\ CapacityMath(rows)
            /\ NumberOf(rows, Ctl("USED")) = StoreUsed(x)
            /\ events = (IF Retries(x) THEN RetryEvents ELSE {}) /\ \A e \in events : One(rows, Ctl(e))
            /\ Retries(x) => Exact(rows, CtlN("STATUS_PROMISES", 0))
\* internal: nothing changed, nothing changes on reopening.
BudgetValid(x, rows) ==
    InternalClaim(x, rows) /\ Exact(rows, CtlN("INVENTORY", 0)) /\ Archived(rows, "ctl") /\ Exact(rows, CtlN("REOPENED", 0))
BudgetNegatives(x) ==
    IF x = "epoch-overflow"
    THEN {Renumber(Probes[9], 1), Drop(Probes[9]), Renumber(Probes[1], Probes[1].n + 1)}
    ELSE {Turn(Ctl("REJECTED"), "INTEGRITY_FAILURE"), Renumber(Ctl("USED"), StoreUsed(x) + 1), Add(Ctl("REJECTED"), Ctl("DELETE"))}
\* An epoch that wraps, a refusal that writes, a retry that writes again or
\* that never forces, a store that reopens as something else.
BudgetBreaches(x) ==
    {Renumber(Ctl("REOPENED"), 1), Renumber(Ctl("INVENTORY"), 1)}
      \cup (IF x = "epoch-overflow" THEN {Turn(Probes[8], "OK"), Renumber(Probes[7], 1)}
            ELSE {Add(Ctl("USED"), Ctl("DELETE")), Turn(Ctl("REJECTED"), "STORAGE_FAILURE")})
      \cup (IF Retries(x) THEN {Drop(Ctl("PROMISE_AFTER_FORCE")), Renumber(Ctl("STATUS_PROMISES"), 1)} ELSE {})
=============================================================================
