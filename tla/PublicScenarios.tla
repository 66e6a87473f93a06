-------------------------- MODULE PublicScenarios --------------------------
(***************************************************************************)
(* The targeted V5.1 public harnesses: crashes around a promise (of a voter *)
(* and of a candidate), selection races, two-source reclamation, capacity,  *)
(* pressure, lifecycle hardening, resource exhaustion, delayed heartbeats   *)
(* and disk loss.  For each family: its cases, the script of its scenario,  *)
(* its evidence validator, the forgeries its negatives() demand rejection   *)
(* of, the breaches of contract the validator exists to catch, and the      *)
(* honest rows that may appear besides the script's.                        *)
(***************************************************************************)
EXTENDS HarnessBase

LOCAL INSTANCE SequencesExt

Voters == <<"old", "cand", "n3">>
StartAll == [i \in 1..3 |-> Start(Voters[i], 1)]

\* Every voter has forced its promise to the first leader.
Seeded ==
    StartAll \o [i \in 1..3 |-> SeenN("PROMISE_FORCE", Voters[i], 1)]
      \o <<Seen("LEADER", "old"), Seen("SEED", "ctl"), Try("READ", "ctl")>>

\* Worker.stop of the last generations, the retained archive and the restart.
Reopened(w) == <<Seen("ARCHIVE", w), Start(w, 2)>>
Resumed == <<Seen("WRITE_AFTER", "ctl"), Try("READ_AFTER", "ctl")>>

-----------------------------------------------------------------------------
(* Promise crashes of a voter and of a candidate. *)

PromisePoints ==
    <<"PROMISE_BEFORE_WRITE", "PROMISE_AFTER_WRITE", "PROMISE_FORCE", "PROMISE_AFTER_FORCE",
      "PROMISE_BEFORE_ACK", "BASIS_BEFORE_ACK">>

\* The journal at the observation before the write holds one promise; the one
\* being written is the second.
PromisePoint(w, e) == SeenN(e, w, IF e = "PROMISE_BEFORE_WRITE" THEN 1 ELSE 2)
PointsThrough(w, cut) ==
    LET upto == CHOOSE i \in DOMAIN PromisePoints : PromisePoints[i] = cut
    IN [i \in 1..upto |-> PromisePoint(w, PromisePoints[i])]

Unwritten(cut) == cut = "PROMISE_BEFORE_WRITE"
Forced(rows, w, k) ==
    \E i \in All(rows, Seen("PROMISE_FORCE", w)) : rows[i].n = k
Unforced(cut)  == cut \in {"PROMISE_BEFORE_WRITE", "PROMISE_AFTER_WRITE"}

CrashedAt(w, cut) ==
    <<Seen("CUT_REACHED", w), Stop(w, "killed"),
      SeenN("ARCHIVE", w, IF Unwritten(cut) THEN 1 ELSE 2), Start(w, 2)>>

\* public_promise_harness.CUTS, public_candidate_harness.CUTS
PromiseCuts == (Range(PromisePoints) \ {"PROMISE_FORCE"}) \cup {"WIRE_BEFORE_RESPONSE"}
CandidateCuts == (Range(PromisePoints) \ {"PROMISE_FORCE"}) \cup {"WIRE_BEFORE_PREPARE", "WIRE_AFTER_PROMISE"}

\* scenario: the old leader is killed, the third voter is cut inside its
\* promise to the candidate, and the restarted voter is needed for a write.
PromiseScript(cut) ==
    Seeded \o <<Stop("old", "killed"), SeenN("PREPARE", "cand", 2)>>
      \o (IF cut \in Range(PromisePoints) THEN PointsThrough("n3", cut)
          ELSE PointsThrough("n3", "BASIS_BEFORE_ACK") \o <<PromisePoint("n3", "WIRE_BEFORE_RESPONSE")>>)
      \o CrashedAt("n3", cut)
      \o <<Try("READ", "ctl"), Num(SeenG("ACCEPT_FORCE", "n3", 2), 3), Num(SeenG("PROOF_FORCE", "n3", 2), 3),
           Seen("WRITE_AFTER", "ctl"), Try("READ_AFTER", "ctl"), Start("old", 2), Try("READ_FINAL", "ctl")>>

\* validate: the retained journal extends the observed one by at most the
\* interrupted promise, forced exactly when the cut is past the force; no reply
\* left the first process; the restarted voter neither forgets nor reuses it
\* and joins the quorum of a later write.
PromiseValid(cut, rows) ==
    LET before == Seen("PROMISE_BEFORE_WRITE", "n3")
        kept   == IF Some(rows, Seen("ARCHIVE", "n3")) THEN rows[First(rows, Seen("ARCHIVE", "n3"))].n ELSE 0
    IN /\ CutRows(rows, "n3", cut) /\ Archived(rows, "n3")
       /\ One(rows, before)
       /\ kept = rows[First(rows, before)].n + (IF Unwritten(cut) THEN 0 ELSE 1)
       /\ Forced(rows, "n3", 1) /\ (Forced(rows, "n3", 2) <=> ~Unforced(cut))
       /\ \A i \in All(rows, SeenG("PROMISE_FORCE", "n3", 2)) : rows[i].n >= kept
       /\ Exact(rows, SeenN("PREPARE", "cand", 2))
       /\ cut = "WIRE_BEFORE_RESPONSE" => Some(rows, Seen("BASIS_BEFORE_ACK", "n3"))
       /\ \A i \in All(rows, Seen("PROMISE_RECEIVED", "cand")) : Some(rows, SeenG("REPLY", "n3", 2))
       /\ Passed(rows, Seen("WRITE_AFTER", "ctl"))
       /\ \E i \in All(rows, SeenG("ACCEPT_FORCE", "n3", 2)) : rows[i].n >= kept
       /\ Some(rows, SeenG("PROOF_FORCE", "n3", 2))

\* negatives: rows removed, a wrong archive, another scenario's claim.
PromiseNegatives(cut) ==
    {Drop(Seen("CUT_REACHED", "n3")), Drop(Seen(cut, "n3")), Drop(Seen("PROMISE_BEFORE_WRITE", "n3")),
     Drop(SeenG("STARTED", "n3", 2)), Drop(Seen("PROMISE_FORCE", "n3")),
     Drop(SeenG("ACCEPT_FORCE", "n3", 2)), Turn(Seen("ARCHIVE", "n3"), "changed")}

\* A voter that loses its journal, votes below its promise after the restart, or
\* whose first process answered (an answer the second process repeats, byte for
\* byte, cannot be told from it).
PromiseBreaches(cut) ==
    {Renumber(Seen("ARCHIVE", "n3"), IF Unwritten(cut) THEN 0 ELSE 1),
     Add(SeenG("STARTED", "n3", 2), Gen(SeenN("PROMISE_FORCE", "n3", 0), 2)),
     Renumber(SeenG("ACCEPT_FORCE", "n3", 2), 0)}
      \cup (IF Unwritten(cut) THEN {}
            ELSE {Unless(Add(Seen("CUT_REACHED", "n3"), Seen("PROMISE_RECEIVED", "cand")), SeenG("REPLY", "n3", 2))})

\* A retried PREPARE is answered by the new process, which may promise more.
PromiseNoise ==
    {[after |-> SeenG("STARTED", "n3", 2), row |-> SeenG("REPLY", "n3", 2)],
     [after |-> SeenG("REPLY", "n3", 2), row |-> Seen("PROMISE_RECEIVED", "cand")],
     [after |-> SeenG("STARTED", "n3", 2), row |-> Gen(SeenN("PROMISE_FORCE", "n3", 3), 2)]}

CandidatePoints(cut) ==
    IF cut \in Range(PromisePoints) THEN PointsThrough("cand", cut)
    ELSE PointsThrough("cand", "BASIS_BEFORE_ACK") \o <<SeenN("WIRE_BEFORE_PREPARE", "cand", 2)>>
           \o (IF cut = "WIRE_BEFORE_PREPARE" THEN <<>>
               ELSE <<SeenN("PROMISE_FORCE", "n3", 2), Seen("BASIS_BEFORE_ACK", "n3"), Seen("REPLY", "n3"),
                      SeenN("WIRE_AFTER_PROMISE", "cand", 2)>>)

\* scenario: the candidate is cut inside its own campaign, restarts, must lead
\* with a fresh ballot and serve before the old leader returns.
CandidateScript(cut) ==
    Seeded \o <<Stop("old", "killed")>> \o CandidatePoints(cut) \o CrashedAt("cand", cut)
      \o <<Gen(SeenN("PROMISE_FORCE", "cand", 4), 2), Try("READ", "ctl"),
           Num(SeenG("ACCEPT_FORCE", "cand", 2), 4), Seen("WRITE_AFTER", "ctl"),
           Try("READ_AFTER", "ctl"), Start("old", 2), Try("READ_FINAL", "ctl")>>

\* A mutant: a restarted campaign may reuse the highest retained ballot.
FreshCampaignsReused(rows, kept) ==
    LET own == All(rows, SeenG("PROMISE_FORCE", "cand", 2))
    IN own # {} /\ \A i \in own : rows[i].n >= kept

\* fresh_campaigns: every restarted campaign is above every retained grant.
FreshCampaigns(rows, kept) ==
    LET own == All(rows, SeenG("PROMISE_FORCE", "cand", 2))
    IN own # {} /\ \A i \in own : rows[i].n > kept

\* restart_schedule: the old leader came back after the candidate had served.
RestartSchedule(rows) ==
    /\ Passed(rows, Seen("WRITE_AFTER", "ctl"))
    /\ InOrder(rows, <<SeenG("STARTED", "cand", 2), Seen("WRITE_AFTER", "ctl"),
                       Seen("READ_AFTER", "ctl"), SeenG("STARTED", "old", 2)>>)

\* prepare_order: a message follows the forced promise and the frozen basis.
PrepareOrder(rows, w, message) ==
    /\ Some(rows, message)
    /\ \A m \in All(rows, message) :
         \E i \in All(rows, Seen("PROMISE_FORCE", w)), j \in All(rows, Seen("BASIS_BEFORE_ACK", w)) :
            rows[i].n = 2 /\ i < j /\ j < m

\* validate: as for the voter, and no PREPARE leaves before the self promise
\* and the frozen basis, no peer grants before its own, nothing is accepted at
\* the interrupted ballot, the write rests on a fresh campaign.
CandidateValid(cut, rows) ==
    LET before == Seen("PROMISE_BEFORE_WRITE", "cand")
        kept   == IF Some(rows, Seen("ARCHIVE", "cand")) THEN rows[First(rows, Seen("ARCHIVE", "cand"))].n ELSE 0
        wired  == cut \in {"WIRE_BEFORE_PREPARE", "WIRE_AFTER_PROMISE"}
    IN /\ CutRows(rows, "cand", cut) /\ Archived(rows, "cand")
       /\ One(rows, before)
       /\ kept = rows[First(rows, before)].n + (IF Unwritten(cut) THEN 0 ELSE 1)
       /\ Forced(rows, "cand", 1) /\ (Forced(rows, "cand", 2) <=> ~Unforced(cut))
       /\ wired <=> Some(rows, Seen("WIRE_BEFORE_PREPARE", "cand"))
       /\ wired => PrepareOrder(rows, "cand", Seen("WIRE_BEFORE_PREPARE", "cand"))
       /\ (cut = "WIRE_AFTER_PROMISE") <=> Forced(rows, "n3", 2)
       /\ cut = "WIRE_AFTER_PROMISE" => PrepareOrder(rows, "n3", Seen("REPLY", "n3"))
       /\ \A i \in DOMAIN rows : rows[i].ev = "ACCEPT_FORCE" => rows[i].n # 2 \/ Unwritten(cut)
       /\ FreshCampaigns(rows, kept) /\ RestartSchedule(rows)
       /\ \E i \in All(rows, SeenG("ACCEPT_FORCE", "cand", 2)) :
            \E j \in All(rows, SeenG("PROMISE_FORCE", "cand", 2)) : rows[i].n = rows[j].n

CandidateNegatives(cut) ==
    {Drop(Seen("CUT_REACHED", "cand")), Drop(Seen(cut, "cand")), Drop(Seen("PROMISE_BEFORE_WRITE", "cand")),
     Drop(Seen("PROMISE_FORCE", "cand")),
     Drop(SeenG("STARTED", "cand", 2)), Drop(SeenG("PROMISE_FORCE", "cand", 2)),
     Drop(SeenG("ACCEPT_FORCE", "cand", 2)), Turn(Seen("ARCHIVE", "cand"), "changed"),
     Early(SeenG("STARTED", "old", 2))}
      \cup (IF cut # "WIRE_AFTER_PROMISE" THEN {}
            ELSE {Drop(Seen("REPLY", "n3")), Drop(Seen("PROMISE_FORCE", "n3")), Drop(Seen("BASIS_BEFORE_ACK", "n3"))})
      \cup (IF cut \in {"WIRE_BEFORE_PREPARE", "WIRE_AFTER_PROMISE"}
            THEN {Drop(Seen("BASIS_BEFORE_ACK", "cand"))} ELSE {})

\* A candidate that campaigns again with the ballot it retained, accepts at
\* it, or whose peers granted it before it granted itself.
CandidateBreaches(cut) ==
    {Add(SeenG("STARTED", "cand", 2), Gen(SeenN("PROMISE_FORCE", "cand", IF Unwritten(cut) THEN 1 ELSE 2), 2)),
     Renumber(SeenG("ACCEPT_FORCE", "cand", 2), 2)}
      \cup (IF cut = "WIRE_AFTER_PROMISE" THEN {Early(Seen("REPLY", "n3"))}
            ELSE {Add(Seen("CUT_REACHED", "cand"), SeenN("PROMISE_FORCE", "n3", 2))})

\* The restarted candidate may need another campaign.
CandidateNoise ==
    {[after |-> SeenG("STARTED", "cand", 2), row |-> Gen(SeenN("PROMISE_FORCE", "cand", 3), 2)]}

-----------------------------------------------------------------------------
(* Selection: a lost or delayed exchange crossed by a higher ballot.  A      *)
(* SELECTED row carries its ballot and whether the held entry was adopted as *)
(* the proven prefix or as the next entry; MARK rows name the proven index.  *)

SelectionBoundaries ==
    [x \in {"higher-ballot-accept", "higher-ballot-proof", "hidden-proof", "epoch-during-basis"} |->
        CASE x = "higher-ballot-accept" -> "WIRE_AFTER_RESPONSE_READ_ACCEPT"
          [] x = "higher-ballot-proof"  -> "WIRE_AFTER_RESPONSE_READ_COMMIT_PROOF"
          [] x = "hidden-proof"         -> "WIRE_BEFORE_REQUEST_WRITE_COMMIT_PROOF"
          [] OTHER                      -> "WIRE_BEFORE_RESPONSE_WRITE_BASIS_CHUNK"]
SelectionCases == {"duplicate-prepare", "lagging-candidate"} \cup DOMAIN SelectionBoundaries
HeldCases == DOMAIN SelectionBoundaries \ {"epoch-during-basis"}

Selected(w, epoch, how) == Num(SeenO("SELECTED_OFFER", w, how), epoch)

HeldScript(x) ==
    <<SeenN("ACCEPT_FORCE", "old", 1), SeenN("ACCEPT_FORCE", "n3", 1)>>
      \o (IF x = "higher-ballot-accept" THEN <<>> ELSE <<SeenN("PROOF_FORCE", "old", 1)>>)
      \o (IF x = "higher-ballot-proof" THEN <<SeenN("PROOF_FORCE", "n3", 1)>> ELSE <<>>)
      \o <<Seen(SelectionBoundaries[x], "old"), Seen("CUT_REACHED", "old"), Seen("PARTITION", "ctl"),
           Selected("cand", 2, IF x = "higher-ballot-proof" THEN "prefix" ELSE "next"),
           SeenN("ACCEPT_FORCE", "cand", 2), Try("READ_MAJORITY", "cand"), Seen("WRITE_MAJORITY", "cand"),
           Seen("HEAL", "ctl"), SeenN("PROMISE_FORCE", "old", 2), Seen("CUT_RELEASED", "old")>>
      \o (IF x = "hidden-proof" THEN <<>> ELSE <<Seen("HELD_ACK_RECEIVED", "old")>>)
      \o <<SeenO("HELD_WRITE", "old", "INDETERMINATE"), Try("READ", "ctl"), Stop("old", "clean"), Seen("ARCHIVE", "old"), Start("old", 2)>>

\* read_after_rejoin: at most four reads, each between two status rounds that
\* show one leader at one epoch; a moved epoch reads again.
RejoinRead == <<SeenN("LEADER_BEFORE", "ctl", 2), Try("READ_REJOIN", "ctl"), SeenN("LEADER_AFTER", "ctl", 2)>>

\* scenario: the exchange is lost, delayed or bypassed, the other voters go on,
\* and the old leader restarts on its retained bytes.
SelectionScript(x) ==
    StartAll \o <<Seen("SEED", "ctl"), Try("READ", "ctl"), SeenN("SEED_INDEX", "ctl", 3)>>
      \o (CASE x = "duplicate-prepare" ->
                 <<Stop("old", "clean"), Seen("ARCHIVE", "old"),
                   SeenN("PROMISE_FORCE", "n3", 2), SeenN("PROMISE_REPLY_LOST", "n3", 2), SeenN("PROMISE_REPLY", "n3", 2),
                   SeenN("PROMISE_RECEIVED", "cand", 2), Selected("cand", 2, "prefix"), Try("READ", "ctl"), Start("old", 2)>>
            [] x = "lagging-candidate" ->
                 <<Seen("PARTITION", "ctl"), SeenN("LAGGING_INDEX", "cand", 3), Seen("ADVANCED_WRITE", "old"),
                   SeenN("ADVANCED_INDEX", "n3", 4), Stop("old", "clean"), Seen("ARCHIVE", "old"), Seen("HEAL", "ctl"),
                   Selected("cand", 2, "prefix"), SeenN("SELECTED_PREFIX", "cand", 4), Try("READ", "ctl"),
                   Seen("RECOVERED_LEADER", "cand"), Start("old", 2)>>
            [] x = "epoch-during-basis" ->
                 <<Stop("old", "clean"), Seen("ARCHIVE", "old"), Seen("BASIS_CHUNK", "n3"),
                   Seen(SelectionBoundaries[x], "n3"), Seen("CUT_REACHED", "n3"), Start("old", 2),
                   SeenN("PROMISE_FORCE", "n3", 4), Seen("CUT_RELEASED", "n3"), Seen("BASIS_HELD_REPLY", "n3"),
                   Selected("cand", 4, "fresh"), Try("READ", "ctl")>>
            [] OTHER -> HeldScript(x))
      \o RejoinRead \o <<Seen("WRITE_LATER", "ctl"), Try("READ_FINAL", "ctl")>>

\* retry_identity: the retried reply is the lost one, byte for byte.
RetryIdentity(rows) ==
    /\ InOrder(rows, <<Seen("PROMISE_FORCE", "n3"), Seen("PROMISE_REPLY_LOST", "n3"),
                       Seen("PROMISE_REPLY", "n3"), Seen("PROMISE_RECEIVED", "cand")>>)
    /\ Has(rows, SeenN("PROMISE_REPLY", "n3", 2)) /\ Has(rows, SeenN("PROMISE_RECEIVED", "cand", 2))

\* higher_between: a higher promise was forced while the exchange was held.
HigherBetween(rows, w, epoch) ==
    \E i \in All(rows, Seen("PROMISE_FORCE", w)) :
        /\ rows[i].n > epoch
        /\ First(rows, Seen("CUT_REACHED", w)) < i /\ i < First(rows, Seen("CUT_RELEASED", w))

PausedAt(rows, w, boundary) ==
    /\ Paused(rows, w)
    /\ JustBefore(rows, First(rows, Seen("CUT_REACHED", w)), boundary)

HeldValid(x, rows) ==
    LET votes  == {i \in DOMAIN rows : rows[i].ev = "ACCEPT_FORCE"}
        proofs == {i \in DOMAIN rows : rows[i].ev = "PROOF_FORCE" /\ rows[i].n = 1}
        fence  == First(rows, SeenN("PROMISE_FORCE", "old", 2))
    IN /\ PausedAt(rows, "old", SelectionBoundaries[x]) /\ HigherBetween(rows, "old", 1)
       /\ Passed(rows, SeenO("HELD_WRITE", "old", "INDETERMINATE"))
       /\ \E i \in votes : rows[i].who = "old" /\ rows[i].n = 1 /\ i < First(rows, Seen("CUT_REACHED", "old"))
       /\ Cardinality({rows[i].who : i \in {j \in votes : rows[j].n = 1}}) >= 2
       /\ \A i \in votes : rows[i].out = "OK"
       /\ Has(rows, Selected("cand", 2, IF x = "higher-ballot-proof" THEN "prefix" ELSE "next"))
       /\ x = "higher-ballot-accept" => proofs = {}
       /\ x = "hidden-proof" => /\ proofs # {}
                                /\ \A i \in proofs : rows[i].who = "old" /\ i < First(rows, Seen("CUT_REACHED", "old"))
       /\ x # "hidden-proof" => Before(rows, Seen("CUT_RELEASED", "old"), Seen("HELD_ACK_RECEIVED", "old"))
       /\ \A i \in All(rows, Seen("PUBLISHED", "old")) : i > fence => rows[i].n > 1
       /\ Passed(rows, Seen("READ_MAJORITY", "cand")) /\ Passed(rows, Seen("WRITE_MAJORITY", "cand"))

BasisEpochValid(rows) ==
    LET fence == First(rows, Seen("PROMISE_FORCE", "n3"))
    IN /\ PausedAt(rows, "n3", SelectionBoundaries["epoch-during-basis"]) /\ HigherBetween(rows, "n3", 2)
       /\ Before(rows, Seen("BASIS_CHUNK", "n3"), Seen("CUT_REACHED", "n3"))
       /\ \A i \in All(rows, Seen("BASIS_REST", "n3")) : i > fence
       /\ Before(rows, Seen("CUT_RELEASED", "n3"), Seen("BASIS_HELD_REPLY", "n3"))
       /\ \A i \in All(rows, Seen("SELECTED_OFFER", "n3")) : i > fence => rows[i].n # 2
       /\ \E i \in DOMAIN rows : rows[i].ev = "SELECTED_OFFER" /\ rows[i].n >= 4 /\ rows[i].out = "fresh"

\* validate: retained restart and later service, a selection rebuilt from the
\* frozen bases, and the race of the case.
SelectionValid(x, rows) ==
    /\ Archived(rows, "old") /\ One(rows, SeenG("STARTED", "old", 1)) /\ One(rows, SeenG("STARTED", "old", 2))
    /\ InOrder(rows, <<Seen("WRITE_LATER", "ctl"), Seen("READ_FINAL", "ctl")>>) /\ Passed(rows, Seen("READ_FINAL", "ctl"))
    /\ \E i \in DOMAIN rows : rows[i].ev = "SELECTED_OFFER"
    /\ CASE x = "duplicate-prepare" ->
              /\ One(rows, Seen("PROMISE_REPLY_LOST", "n3")) /\ RetryIdentity(rows)
              /\ One(rows, Seen("PROMISE_FORCE", "n3"))
              /\ Has(rows, Selected("cand", 2, "prefix"))
         [] x = "lagging-candidate" ->
              /\ NumberOf(rows, Seen("LAGGING_INDEX", "cand")) < NumberOf(rows, Seen("ADVANCED_INDEX", "n3"))
              /\ Passed(rows, Seen("ADVANCED_WRITE", "old"))
              /\ NumberOf(rows, Seen("ADVANCED_INDEX", "n3")) <= NumberOf(rows, Seen("SELECTED_PREFIX", "cand"))
              /\ Passed(rows, Seen("RECOVERED_LEADER", "cand"))
         [] x = "epoch-during-basis" -> BasisEpochValid(rows)
         [] OTHER -> HeldValid(x, rows)

SelectionNegatives(x) ==
    {Drop(SeenG("STARTED", "old", 2)), Drop(Seen("SELECTED_OFFER", "cand")), Turn(Seen("READ_FINAL", "ctl"), "changed")}
      \cup (IF x = "duplicate-prepare" THEN {Drop(Seen("PROMISE_REPLY_LOST", "n3")), Drop(Seen("PROMISE_RECEIVED", "cand"))}
            ELSE IF x \notin DOMAIN SelectionBoundaries THEN {}
            ELSE LET w == IF x \in HeldCases THEN "old" ELSE "n3"
                 IN {Drop(Seen("CUT_REACHED", w)), Drop(Seen("CUT_RELEASED", w)), Drop(Seen("PROMISE_FORCE", w)),
                     Drop(IF x \in HeldCases THEN Seen("ACCEPT_FORCE", "old") ELSE Seen("BASIS_CHUNK", "n3"))})

\* A second promise for a repeated PREPARE, a reply that changed; a candidate
\* that adopts its own short prefix; a chosen entry replaced, a fenced leader
\* that answers or publishes; a retired basis that is activated.
SelectionBreaches(x) ==
    CASE x = "duplicate-prepare"  -> {Add(Seen("PROMISE_REPLY_LOST", "n3"), SeenN("PROMISE_FORCE", "n3", 2)),
                                      Renumber(Seen("PROMISE_REPLY", "n3"), 3)}
      [] x = "lagging-candidate"  -> {Renumber(Seen("SELECTED_PREFIX", "cand"), 3)}
      [] x = "epoch-during-basis" -> {Add(Seen("CUT_RELEASED", "n3"), SeenN("SELECTED_OFFER", "n3", 2))}
      [] OTHER -> {Turn(Seen("ACCEPT_FORCE", "cand"), "changed"), Turn(Seen("HELD_WRITE", "old"), "SUCCESS"),
                   Add(Seen("CUT_RELEASED", "old"), SeenN("PUBLISHED", "old", 1))}

SelectionNoise(x) ==
    IF x = "epoch-during-basis"
    THEN {[after |-> Seen("CUT_RELEASED", "n3"), row |-> Seen("BASIS_REST", "n3")],
          [after |-> Seen("CUT_RELEASED", "n3"), row |-> SeenN("SELECTED_OFFER", "n3", 4)]}
    ELSE {[after |-> Seen("CUT_RELEASED", "old"), row |-> SeenN("PUBLISHED", "old", 2)]}

-----------------------------------------------------------------------------
(* Two-source reclamation: no history is deleted above a floor that two     *)
(* distinct owners retain, across a crash inside the floor or the deletion. *)

ReclamationCuts ==
    {"FLOOR_BEFORE_WRITE", "FLOOR_AFTER_FORCE", "FLOOR_BEFORE_ACK",
     "DELETE_AFTER_FILE", "DELETE_AFTER_DIRECTORY", "DELETE_AFTER_ROOT_TRUNCATE"}

\* One turnover of the floor to index k, up to the point named.
Turnover(k, cut) ==
    LET points == <<SeenN("DOWNLOAD", "old", k), SeenN("FLOOR_BEFORE_WRITE", "old", k), SeenN("FLOOR_AFTER_FORCE", "old", k),
                    SeenN("FLOOR_BEFORE_ACK", "old", k)>>
                    \o (IF cut = "DELETE_AFTER_ROOT_TRUNCATE" THEN <<SeenN(cut, "old", k)>>
                        ELSE <<SeenN("DELETE_AFTER_FILE", "old", k), SeenN("DELETE_AFTER_DIRECTORY", "old", k)>>)
        upto   == CHOOSE i \in DOMAIN points : points[i].ev = cut
    IN SubSeq(points, 1, upto)

\* scenario: every source is blocked, then released; the leader is cut inside
\* its next floor turnover, restarts on its bytes and must vote in a majority.
ReclamationScript(cut) ==
    LET first == cut = "DELETE_AFTER_ROOT_TRUNCATE"
        k     == IF first THEN 1 ELSE 2
    IN StartAll \o <<Seen("SEED", "ctl"), Try("READ", "ctl"), Seen("NETWORK_DROP", "old"), Seen("BLOCKED", "ctl")>>
         \o (IF first THEN <<>>
             ELSE Turnover(1, "DELETE_AFTER_DIRECTORY") \o <<SeenN("RECOVERY_FLOOR", "old", 1), Seen("WRITE", "ctl")>>)
         \o Turnover(k, cut)
         \o <<Seen("CUT_REACHED", "old"), Stop("old", "killed"),
              SeenN("ARCHIVE", "old", IF cut \in {"FLOOR_BEFORE_WRITE", "FLOOR_AFTER_FORCE"} THEN 1 ELSE k),
              Try("READ", "ctl"), Seen("WRITE_AFTER", "ctl"), Start("old", 2), Stop("cand", "clean"),
              Try("READ", "ctl"), Seen("WRITE_AGAIN", "ctl"), Start("cand", 2), Try("READ_FINAL", "ctl"),
              Gen(SeenN("DOWNLOAD", "old", 3), 2), Gen(SeenN("FLOOR_BEFORE_ACK", "old", 3), 2),
              Gen(SeenN("RECOVERY_FLOOR", "old", 3), 2)>>

\* downloads and require_download: the peer's source was downloaded completely,
\* by the same process, before the floor at row i.
RequireDownload(rows, i) ==
    \E j \in All(rows, SeenG("DOWNLOAD", "old", rows[i].gen)) : j < i /\ rows[j].n = rows[i].n

\* floor_state: a floor names two distinct owners, the local one among them,
\* and both retained sources are exact.
FloorState(rows, i) == rows[i].out = "OK"

\* retirement_bound: nothing above the durable floor was deleted.
RetirementBound(rows, floor) ==
    \A i \in DOMAIN rows : rows[i].ev \in {"DELETE_AFTER_FILE", "DELETE_AFTER_DIRECTORY", "DELETE_AFTER_ROOT_TRUNCATE"}
                             => rows[i].n <= floor

ReclamationValid(cut, rows) ==
    LET floors   == {i \in DOMAIN rows : rows[i].ev = "FLOOR_BEFORE_ACK"}
        kept     == NumberOf(rows, Seen("ARCHIVE", "old"))
        blocked  == 1..(First(rows, Seen("BLOCKED", "ctl")) - 1)
        later    == Gen(Seen("RECOVERY_FLOOR", "old"), 2)
    IN /\ \A i \in blocked : rows[i].ev \notin ReclamationCuts \cup {"RECOVERY_FLOOR"}
       /\ \E i \in blocked : rows[i].ev = "NETWORK_DROP"
       /\ CutRows(rows, "old", cut) /\ Archived(rows, "old")
       /\ All(rows, Seen("FLOOR_BEFORE_ACK", "old")) # {}
       /\ \A i \in floors : FloorState(rows, i) /\ RequireDownload(rows, i)
       /\ kept = LastNumber(rows, Seen("FLOOR_BEFORE_ACK", "old"))
       /\ cut = "FLOOR_AFTER_FORCE" =>
            LET pending == LatestOf(rows, Seen("FLOOR_AFTER_FORCE", "old"))
            IN rows[pending].n > kept /\ RequireDownload(rows, pending)
       /\ RetirementBound(rows, kept)
       /\ Some(rows, later) /\ NumberOf(rows, later) > kept
       /\ Has(rows, Gen(SeenN("FLOOR_BEFORE_ACK", "old", NumberOf(rows, later)), 2))

ReclamationNegatives(cut) ==
    {Drop(Seen("DOWNLOAD", "old")), Drop(Seen("FLOOR_BEFORE_ACK", "old")), Drop(Seen("CUT_REACHED", "old")),
     Drop(SeenG("STARTED", "old", 2)), Turn(Seen("FLOOR_BEFORE_ACK", "old"), "changed-source"),
     Turn(Seen("FLOOR_BEFORE_ACK", "old"), "one-owner")}

\* A floor while the sources are blocked, on one owner, or without a download;
\* a pending floor taken for committed; a deletion above the floor.
ReclamationBreaches(cut) ==
    {Early(Seen("FLOOR_BEFORE_ACK", "old")), Drop(SeenG("DOWNLOAD", "old", 2)),
     Renumber(Seen("ARCHIVE", "old"), IF cut \in {"FLOOR_BEFORE_WRITE", "FLOOR_AFTER_FORCE"} THEN 2 ELSE 0),
     Renumber(Seen("DELETE_AFTER_FILE", "old"), 3), Renumber(Seen("DELETE_AFTER_ROOT_TRUNCATE", "old"), 3)}

ReclamationNoise ==
    {[after |-> SeenG("STARTED", "old", 2), row |-> Gen(SeenN("DOWNLOAD", "old", 2), 2)],
     [after |-> Gen(SeenN("DOWNLOAD", "old", 2), 2), row |-> Gen(SeenN("RECOVERY_FLOOR", "old", 3), 2)]}
=============================================================================
