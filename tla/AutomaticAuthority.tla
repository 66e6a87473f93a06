------------------------- MODULE AutomaticAuthority -------------------------
(***************************************************************************)
(* The durable authority of the automatic replication group and the        *)
(* exchanges that change it: AutomaticStore and AutomaticRecovery (the     *)
(* promise, acceptance, proof, basis and selection files of one voter) as  *)
(* AutomaticProtocol drives them on three fixed voters.                    *)
(*                                                                         *)
(* An entry names its predecessor by digest and so identifies its whole    *)
(* ancestry: it is modelled as the sequence of cells up to and including   *)
(* itself, its index is its length and its predecessor is its front.       *)
(*                                                                         *)
(* Messages are never removed from msgs.  A message that is never handled  *)
(* stands for one that was lost and for one that the voter stopped before  *)
(* sending, after it forced the record the message reports; one that is    *)
(* handled late, or out of order, for one that was delayed.  A request     *)
(* that is repeated goes through its handler again: PREPARE of the         *)
(* promised ballot is HandlePrepareAgain; where the effect is already done *)
(* and the answer sent, the repetition changes nothing.                    *)
(*                                                                         *)
(* A check that fails inside AutomaticStore.recoveryIo quarantines the     *)
(* voter: it refuses everything until its process is started again.        *)
(***************************************************************************)
EXTENDS Integers, Sequences, FiniteSets

CONSTANTS
  Voters,        \* the three members of the manifest
  Rank,          \* the position of a voter in the manifest's member list
  Incarnations,  \* the UUIDs a voter draws, one for each campaign
  Ops,           \* the logical operations that clients submit
  NoOp,          \* operation 9, the entry that activates a campaign
  None,          \* the absent proposer and the ZERO incarnation of genesis
  Epochs,        \* bound: the epochs in which campaigns may be held
  MaxEntries     \* MAX_ENTRIES, the bound on the index of an entry

ASSUME VotersAssumption ==
  \E a, b, c \in Voters : a # b /\ a # c /\ b # c /\ Voters = {a, b, c}
ASSUME RankAssumption ==
  /\ Rank \in [Voters -> 0..2]
  /\ \A v, w \in Voters : Rank[v] = Rank[w] => v = w
ASSUME BoundsAssumption == Epochs \subseteq Nat \ {0, 1} /\ MaxEntries \in Nat
ASSUME NoneAssumption == None \notin Voters

VARIABLES
  promise,     \* promise[v]: the last ballot of v's promise log
  basis,       \* basis[v]: the basis v froze for promise[v], or NoBasis
  selected,    \* selected[v]: v's last recovery selection, or NoSelection
  log,         \* log[v]: the proven prefix of v (base snapshot and proofs)
  proofEpoch,  \* proofEpoch[v]: the epoch of the proof of log[v]'s last entry
  tail,        \* tail[v]: the unresolved acceptance after log[v], or NoTail
  campaign,    \* campaign[v]: the proposal v is driving; volatile
  quarantined, \* quarantined[v]: AutomaticStore.failed of v; volatile
  msgs,        \* every request and answer ever sent
  votes        \* history: every acceptance a voter forced

durable == <<promise, basis, selected, log, proofEpoch, tail>>
vars == <<promise, basis, selected, log, proofEpoch, tail, campaign, quarantined, msgs,
          votes>>

-----------------------------------------------------------------------------
(* Records *)

IncarnationsOrNone == Incarnations \union {None}

Ballots == [epoch : Nat, proposer : Voters \union {None}, inc : IncarnationsOrNone]
Cells   == [epoch : Nat, inc : IncarnationsOrNone, op : Ops \union {NoOp}]
Entries == Seq(Cells)
Tails   == [epoch : Nat, entry : Entries]
Bases   == [ballot : Ballots, log : Entries, proofEpoch : Nat, tail : Tails]

Genesis     == [epoch |-> 1, proposer |-> None, inc |-> None]
NoBallot    == [epoch |-> 0, proposer |-> None, inc |-> None]
NoTail      == [epoch |-> 0, entry |-> <<>>]
NoBasis     == [ballot |-> NoBallot, log |-> <<>>, proofEpoch |-> 0, tail |-> NoTail]
NoSelection == [ballot |-> NoBallot, prefix |-> <<>>, proofEpoch |-> 0,
                next |-> <<>>, tails |-> {}]
Idle        == [stage |-> "IDLE", ballot |-> NoBallot, peer |-> None,
                entry |-> <<>>, activating |-> FALSE]

\* The prefix that an index and a digest name: t has s as an ancestor.
Extends(t, s) == Len(s) <= Len(t) /\ \A i \in 1..Len(s) : t[i] = s[i]

LastCell(e) == e[Len(e)]

Origin(b, op) == [epoch |-> b.epoch, inc |-> b.inc, op |-> op]

\* Ranked epochs: rank r owns r + 2, r + 5, r + 8, ...; a campaign moves to
\* the round after the one that holds the highest epoch observed.
NextEpoch(observed, rank) ==
  (IF observed = 1 THEN 0 ELSE (observed - 2) \div 3 + 1) * 3 + rank + 2

-----------------------------------------------------------------------------
(* AutomaticRecovery.select: what two bases of one ballot oblige a proposer *)

Longest(b1, b2) == IF Len(b1.log) >= Len(b2.log) THEN b1 ELSE b2

\* Mutant: only the proposer's own acceptance is considered.
LiveTailsOfOwn(b1, b2) ==
  {t \in {b1.tail} : t.epoch > 0 /\ Len(t.entry) > Len(Longest(b1, b2).log)}

\* The acceptances that follow the longer prefix; older ones are ignored.
LiveTails(b1, b2) ==
  {t \in {b1.tail, b2.tail} :
     t.epoch > 0 /\ Len(t.entry) > Len(Longest(b1, b2).log)}

\* Mutant: the comparison of epochs is turned around.
CarriedOldest(b1, b2) ==
  CHOOSE t \in LiveTails(b1, b2) : \A u \in LiveTails(b1, b2) : u.epoch >= t.epoch

\* The acceptance to carry: the one of the highest epoch.
Carried(b1, b2) ==
  CHOOSE t \in LiveTails(b1, b2) : \A u \in LiveTails(b1, b2) : u.epoch <= t.epoch

\* The checks of AutomaticRecovery.select; a failed one quarantines the voter.
BasesAgree(b1, b2) ==
  /\ Extends(Longest(b1, b2).log, b1.log)
  /\ Extends(Longest(b1, b2).log, b2.log)
  /\ \A t \in LiveTails(b1, b2) :
       /\ Len(t.entry) = Len(Longest(b1, b2).log) + 1
       /\ Extends(t.entry, Longest(b1, b2).log)
  /\ \A t, u \in LiveTails(b1, b2) : t.epoch = u.epoch => t.entry = u.entry

\* Mutant: the selection does not retain its bases.
SelectionWithoutBases(b1, b2) ==
  [ballot     |-> b1.ballot,
   prefix     |-> Longest(b1, b2).log,
   proofEpoch |-> Longest(b1, b2).proofEpoch,
   next       |-> IF LiveTails(b1, b2) = {} THEN <<>> ELSE Carried(b1, b2).entry,
   tails      |-> {}]

Selection(b1, b2) ==
  [ballot     |-> b1.ballot,
   prefix     |-> Longest(b1, b2).log,
   proofEpoch |-> Longest(b1, b2).proofEpoch,
   next       |-> IF LiveTails(b1, b2) = {} THEN <<>> ELSE Carried(b1, b2).entry,
   tails      |-> {b1.tail, b2.tail}]

\* selectedValue: e is what v's selection for ballot b allows at its slot.
SelectedSlot(v, b, e) ==
  selected[v].ballot = b /\ Len(e) = Len(selected[v].prefix) + 1
SelectedValue(v, b, e) ==
  /\ SelectedSlot(v, b, e)
  /\ IF selected[v].next = <<>> THEN LastCell(e) = Origin(b, NoOp)
                                ELSE e = selected[v].next

-----------------------------------------------------------------------------
(* AutomaticStore: the durable steps of one voter *)

\* Mutants: the basis leaves out the unresolved acceptance; it carries the
\* proof before the last one.
FrozenWithoutTail(v, b) ==
  [ballot |-> b, log |-> log[v], proofEpoch |-> proofEpoch[v], tail |-> NoTail]
FrozenBelowProof(v, b) ==
  [ballot |-> b, log |-> log[v], proofEpoch |-> proofEpoch[v] - 1, tail |-> tail[v]]

Frozen(v, b) ==
  [ballot |-> b, log |-> log[v], proofEpoch |-> proofEpoch[v], tail |-> tail[v]]

\* Mutant: a delayed PREPARE of a lower ballot is granted.
PrepareLower(v, b, froze) ==
  /\ b.epoch # promise[v].epoch
  /\ promise' = [promise EXCEPT ![v] = b]
  /\ basis' = [basis EXCEPT ![v] = IF froze THEN Frozen(v, b) ELSE NoBasis]
  /\ UNCHANGED <<selected, log, proofEpoch, tail, votes>>

\* prepare of a higher ballot: the promise is forced first, then the basis is
\* frozen.  A voter that stops in between, or whose freeze fails and that is
\* started again, has no basis for that ballot, ever.
Prepare(v, b, froze) ==
  /\ b.epoch > promise[v].epoch
  /\ promise' = [promise EXCEPT ![v] = b]
  /\ basis' = [basis EXCEPT ![v] = IF froze THEN Frozen(v, b) ELSE NoBasis]
  /\ UNCHANGED <<selected, log, proofEpoch, tail, votes>>

\* Mutant: an exact retry of the selection is not recognised.
MaySelectOnce(v, s) ==
  /\ Len(s.prefix) >= Len(log[v])
  /\ Extends(s.prefix, log[v]) \/ Extends(log[v], s.prefix)

\* select: no local proof may be rolled back unless this is an exact retry.
MaySelect(v, s) ==
  /\ \/ selected[v] = s
     \/ Len(s.prefix) >= Len(log[v])
  /\ \/ Extends(s.prefix, log[v])
     \/ Extends(log[v], s.prefix)

\* select, then adopt: install the selected prefix when it is longer.  An
\* installed prefix covers the unresolved acceptance, which is dropped.  The
\* voter may stop after the selection is forced, or find no free generation.
SelectAndAdopt(v, s, adopted) ==
  /\ MaySelect(v, s)
  /\ selected' = [selected EXCEPT ![v] = s]
  /\ IF adopted /\ Len(s.prefix) > Len(log[v])
       THEN /\ log' = [log EXCEPT ![v] = s.prefix]
            /\ proofEpoch' = [proofEpoch EXCEPT ![v] = s.proofEpoch]
            /\ tail' = [tail EXCEPT ![v] = NoTail]
       ELSE UNCHANGED <<log, proofEpoch, tail>>
  /\ UNCHANGED <<promise, basis, votes>>

\* accept: the next slot, at the current promise, as the selection obliges.
MayAccept(v, b, e) ==
  /\ promise[v] = b
  /\ Len(e) = Len(log[v]) + 1
  /\ Extends(e, log[v])
  /\ SelectedSlot(v, b, e) => SelectedValue(v, b, e)
  /\ \/ tail[v] = NoTail
     \/ tail[v] = [epoch |-> b.epoch, entry |-> e]
     \/ /\ tail[v].epoch < b.epoch
        /\ tail[v].entry = e \/ SelectedValue(v, b, e)

Accept(v, b, e) ==
  /\ MayAccept(v, b, e)
  /\ tail' = [tail EXCEPT ![v] = [epoch |-> b.epoch, entry |-> e]]
  /\ votes' = votes \union {<<v, b.epoch, e>>}
  /\ UNCHANGED <<promise, basis, selected, log, proofEpoch>>

\* prove: the acceptance of this very ballot becomes proven.
MayProve(v, b, e) ==
  /\ promise[v] = b
  /\ tail[v] = [epoch |-> b.epoch, entry |-> e]

Prove(v, b, e) ==
  /\ MayProve(v, b, e)
  /\ log' = [log EXCEPT ![v] = e]
  /\ proofEpoch' = [proofEpoch EXCEPT ![v] = b.epoch]
  /\ tail' = [tail EXCEPT ![v] = NoTail]
  /\ UNCHANGED <<promise, basis, selected, votes>>

\* Mutants: the cut is not compared with the local proof; the unresolved
\* acceptance is not waited for.
MayInstallAnyCut(v, snapshot) ==
  /\ tail[v] = NoTail \/ Len(tail[v].entry) <= Len(snapshot.log)
  /\ snapshot.proofEpoch <= promise[v].epoch
MayInstallOverTail(v, snapshot) ==
  /\ Len(snapshot.log) >= Len(log[v])
  /\ snapshot.proofEpoch <= promise[v].epoch
  /\ Extends(snapshot.log, log[v])

\* installProven: a proven snapshot that covers the unresolved acceptance.
MayInstallProven(v, snapshot) ==
  /\ Len(snapshot.log) >= Len(log[v])
  /\ tail[v] = NoTail \/ Len(tail[v].entry) <= Len(snapshot.log)
  /\ snapshot.proofEpoch <= promise[v].epoch
  /\ Extends(snapshot.log, log[v])

InstallProven(v, snapshot) ==
  /\ MayInstallProven(v, snapshot)
  /\ log' = [log EXCEPT ![v] = snapshot.log]
  /\ proofEpoch' = [proofEpoch EXCEPT ![v] = snapshot.proofEpoch]
  /\ tail' = [tail EXCEPT ![v] = NoTail]
  /\ UNCHANGED <<promise, basis, selected, votes>>

-----------------------------------------------------------------------------
(* The exchanges *)

Send(m) == msgs' = msgs \union {m}

Init ==
  /\ promise = [v \in Voters |-> Genesis]
  /\ basis = [v \in Voters |-> NoBasis]
  /\ selected = [v \in Voters |-> NoSelection]
  /\ log = [v \in Voters |-> <<>>]
  /\ proofEpoch = [v \in Voters |-> 0]
  /\ tail = [v \in Voters |-> NoTail]
  /\ campaign = [v \in Voters |-> Idle]
  /\ quarantined = [v \in Voters |-> FALSE]
  /\ msgs = {}
  /\ votes = {}

\* Mutant: PREPARE is sent before the own promise is durable.
BeginCampaignUnforced(v, observed, inc, froze) ==
  LET b == [epoch |-> NextEpoch(observed, Rank[v]), proposer |-> v, inc |-> inc]
  IN /\ campaign[v] = Idle
     /\ observed >= promise[v].epoch
     /\ b.epoch \in Epochs
     /\ inc # promise[v].inc
     /\ campaign' = [campaign EXCEPT ![v] = [Idle EXCEPT !.stage = "PREPARE", !.ballot = b]]
     /\ Send([type |-> "PREPARE", ballot |-> b])
     /\ UNCHANGED <<durable, votes>>

\* beginCampaign: a ballot above every epoch v has observed, made durable
\* with its basis before any PREPARE leaves v.
BeginCampaign(v, observed, inc, froze) ==
  LET b == [epoch |-> NextEpoch(observed, Rank[v]), proposer |-> v, inc |-> inc]
  IN /\ campaign[v] = Idle
     /\ observed >= promise[v].epoch
     /\ b.epoch \in Epochs
     /\ inc # promise[v].inc
     /\ Prepare(v, b, froze)
     /\ IF froze
          THEN /\ campaign' = [campaign EXCEPT ![v] =
                                 [Idle EXCEPT !.stage = "PREPARE", !.ballot = b]]
               /\ Send([type |-> "PREPARE", ballot |-> b])
          ELSE UNCHANGED <<campaign, msgs>>

\* prepare at a peer: a higher ballot ends v's own campaign.
HandlePrepare(v, m, froze) ==
  /\ m.type = "PREPARE"
  /\ m.ballot.proposer # v
  /\ Prepare(v, m.ballot, froze)
  /\ campaign' = [campaign EXCEPT ![v] = Idle]
  /\ IF froze
       THEN Send([type |-> "PROMISE", ballot |-> m.ballot, from |-> v,
                  basis |-> Frozen(v, m.ballot)])
       ELSE UNCHANGED msgs

\* Mutant: a repeated PREPARE samples the basis again.
ResampleAgain(v, m) ==
  /\ m.type = "PREPARE"
  /\ m.ballot.proposer # v
  /\ m.ballot = promise[v]
  /\ basis[v].ballot = m.ballot
  /\ basis' = [basis EXCEPT ![v] = Frozen(v, m.ballot)]
  /\ Send([type |-> "PROMISE", ballot |-> m.ballot, from |-> v,
           basis |-> Frozen(v, m.ballot)])
  /\ UNCHANGED <<promise, selected, log, proofEpoch, tail, campaign, votes>>

\* prepare of the promised ballot, an exact retry: the frozen basis is forced
\* and sent again, never sampled again.
HandlePrepareAgain(v, m) ==
  /\ m.type = "PREPARE"
  /\ m.ballot.proposer # v
  /\ m.ballot = promise[v]
  /\ basis[v].ballot = m.ballot
  /\ Send([type |-> "PROMISE", ballot |-> m.ballot, from |-> v, basis |-> basis[v]])
  /\ UNCHANGED <<durable, campaign, votes>>

\* response to PREPARE: the first basis makes the quorum; select, adopt and
\* ask the quorum peer to install the same selection.
HandlePromise(v, m, adopted) ==
  /\ m.type = "PROMISE"
  /\ campaign[v].stage = "PREPARE"
  /\ m.ballot = campaign[v].ballot
  /\ promise[v] = m.ballot
  /\ BasesAgree(basis[v], m.basis)
  /\ SelectAndAdopt(v, Selection(basis[v], m.basis), adopted)
  /\ IF adopted
       THEN /\ campaign' = [campaign EXCEPT ![v] =
                              [@ EXCEPT !.stage = "INSTALL", !.peer = m.from]]
            /\ Send([type |-> "INSTALL", ballot |-> m.ballot, to |-> m.from,
                     own |-> basis[v], peer |-> m.basis])
       ELSE /\ campaign' = [campaign EXCEPT ![v] = Idle]
            /\ UNCHANGED msgs

\* INSTALL at the quorum peer: its own frozen basis must be the one used.
HandleInstall(v, m, adopted) ==
  /\ m.type = "INSTALL"
  /\ m.to = v
  /\ promise[v] = m.ballot
  /\ basis[v] = m.peer
  /\ BasesAgree(m.own, m.peer)
  /\ SelectAndAdopt(v, Selection(m.own, m.peer), adopted)
  /\ IF adopted THEN Send([type |-> "INSTALLED", ballot |-> m.ballot, from |-> v])
                ELSE UNCHANGED msgs
  /\ UNCHANGED campaign

\* commit: v accepts its own proposal, then asks the quorum peer to.
Commit(v, e, activating) ==
  LET b == campaign[v].ballot
  IN /\ promise[v] = b
     /\ Len(e) <= MaxEntries
     /\ Accept(v, b, e)
     /\ campaign' = [campaign EXCEPT ![v] =
          [@ EXCEPT !.stage = "ACCEPT", !.entry = e, !.activating = activating]]
     /\ Send([type |-> "ACCEPT", ballot |-> b, to |-> campaign[v].peer, entry |-> e])

\* fresh: an entry of v's ballot after v's proven head.
Fresh(v, op) == Append(log[v], Origin(campaign[v].ballot, op))

\* response to INSTALL: propose the carried entry, or a NOOP.
HandleInstalled(v, m) ==
  /\ m.type = "INSTALLED"
  /\ campaign[v].stage = "INSTALL"
  /\ m.ballot = campaign[v].ballot
  /\ m.from = campaign[v].peer
  /\ Commit(v, IF selected[v].next = <<>> THEN Fresh(v, NoOp) ELSE selected[v].next,
            TRUE)

\* submit: a ready leader with no operation in flight takes a client's.
Submit(v, op) ==
  /\ campaign[v].stage = "READY"
  /\ Commit(v, Fresh(v, op), FALSE)

HandleAccept(v, m) ==
  /\ m.type = "ACCEPT"
  /\ m.to = v
  /\ Accept(v, m.ballot, m.entry)
  /\ Send([type |-> "ACCEPTED", ballot |-> m.ballot, from |-> v, entry |-> m.entry])
  /\ UNCHANGED campaign

\* accepted: two receipts make the proof; v proves first, then the peer.
HandleAccepted(v, m) ==
  /\ m.type = "ACCEPTED"
  /\ campaign[v].stage = "ACCEPT"
  /\ m.ballot = campaign[v].ballot
  /\ m.from = campaign[v].peer
  /\ m.entry = campaign[v].entry
  /\ Prove(v, m.ballot, m.entry)
  /\ campaign' = [campaign EXCEPT ![v] = [@ EXCEPT !.stage = "PROOF"]]
  /\ Send([type |-> "PROOF", ballot |-> m.ballot, to |-> m.from, entry |-> m.entry])

HandleProof(v, m) ==
  /\ m.type = "PROOF"
  /\ m.to = v
  /\ Prove(v, m.ballot, m.entry)
  /\ Send([type |-> "PROVEN", ballot |-> m.ballot, from |-> v, entry |-> m.entry])
  /\ UNCHANGED campaign

\* proved, then published: a leader is ready once a NOOP of its own ballot is
\* proven; a carried entry is followed by such a NOOP.
Proved(v, m) ==
  /\ m.type = "PROVEN"
  /\ campaign[v].stage = "PROOF"
  /\ m.ballot = campaign[v].ballot
  /\ m.from = campaign[v].peer
  /\ m.entry = campaign[v].entry
  /\ promise[v] = m.ballot

HandleProven(v, m) ==
  /\ Proved(v, m)
  /\ campaign[v].activating => LastCell(m.entry) = Origin(m.ballot, NoOp)
  /\ campaign' = [campaign EXCEPT ![v] =
       [@ EXCEPT !.stage = "READY", !.entry = <<>>, !.activating = FALSE]]
  /\ UNCHANGED <<durable, msgs, votes>>

HandleProvenCarried(v, m) ==
  /\ Proved(v, m)
  /\ campaign[v].activating
  /\ LastCell(m.entry) # Origin(m.ballot, NoOp)
  /\ Commit(v, Fresh(v, NoOp), TRUE)

\* catchup: a ready leader offers its proven snapshot to the other voters.
OfferSnapshot(v) ==
  /\ campaign[v].stage = "READY"
  /\ Send([type |-> "SNAPSHOT", ballot |-> promise[v], log |-> log[v],
           proofEpoch |-> proofEpoch[v]])
  /\ UNCHANGED <<durable, campaign, votes>>

\* rejoin: a follower of the leader's ballot installs it.
HandleSnapshot(v, m) ==
  /\ m.type = "SNAPSHOT"
  /\ m.ballot.proposer # v
  /\ promise[v] = m.ballot
  /\ InstallProven(v, m)
  /\ UNCHANGED <<campaign, msgs>>

\* abandon: a timeout, a failed or refused exchange, a higher promise in an
\* answer, or the end of the process.
Abandon(v) ==
  /\ campaign[v] # Idle
  /\ campaign' = [campaign EXCEPT ![v] = Idle]
  /\ UNCHANGED <<durable, msgs, votes>>

\* The checks inside recoveryIo that a request or an answer can fail.  prepare
\* of the promised ballot when no basis was frozen for it:
PrepareUnfrozen(v, m) ==
  /\ m.type = "PREPARE"
  /\ m.ballot.proposer # v
  /\ m.ballot = promise[v]
  /\ basis[v].ballot # m.ballot

\* select of the proposer, on the first answer to its PREPARE:
PromiseRefused(v, m) ==
  /\ m.type = "PROMISE"
  /\ campaign[v].stage = "PREPARE"
  /\ m.ballot = campaign[v].ballot
  /\ promise[v] = m.ballot
  /\ ~ (BasesAgree(basis[v], m.basis) /\ MaySelect(v, Selection(basis[v], m.basis)))

\* prepare and select of the quorum peer (bases that disagree, and a basis that
\* is not the peer's own, are refused before, without quarantine):
InstallRefused(v, m) ==
  /\ m.type = "INSTALL"
  /\ m.to = v
  /\ promise[v] = m.ballot
  /\ BasesAgree(m.own, m.peer)
  /\ \/ basis[v].ballot # m.ballot
     \/ basis[v] = m.peer /\ ~ MaySelect(v, Selection(m.own, m.peer))

\* install of a snapshot that passed the checks before it:
SnapshotRefused(v, m) ==
  /\ m.type = "SNAPSHOT"
  /\ m.ballot.proposer # v
  /\ promise[v] = m.ballot
  /\ Len(m.log) >= Len(log[v])
  /\ tail[v] = NoTail \/ Len(tail[v].entry) <= Len(m.log)
  /\ m.proofEpoch <= promise[v].epoch
  /\ ~ Extends(m.log, log[v])

\* recoveryIo, and fail: the store is marked and the campaign is over.
Quarantine(v, m) ==
  /\ ~ quarantined[v]
  /\ \/ PrepareUnfrozen(v, m)
     \/ PromiseRefused(v, m)
     \/ InstallRefused(v, m)
     \/ SnapshotRefused(v, m)
  /\ quarantined' = [quarantined EXCEPT ![v] = TRUE]
  /\ campaign' = [campaign EXCEPT ![v] = Idle]
  /\ UNCHANGED <<durable, msgs, votes>>

\* open: a new process on the same files.
Restart(v) ==
  /\ quarantined[v]
  /\ quarantined' = [quarantined EXCEPT ![v] = FALSE]
  /\ UNCHANGED <<durable, campaign, msgs, votes>>

\* usable: one step of a voter that is not quarantined.
Serve(v) ==
  /\ ~ quarantined[v]
  /\ UNCHANGED quarantined
  /\ \/ \E observed \in Epochs \union {1}, inc \in Incarnations, froze \in BOOLEAN :
           BeginCampaign(v, observed, inc, froze)
     \/ \E m \in msgs, froze \in BOOLEAN : HandlePrepare(v, m, froze)
     \/ \E m \in msgs : HandlePrepareAgain(v, m)
     \/ \E m \in msgs, adopted \in BOOLEAN : HandlePromise(v, m, adopted)
     \/ \E m \in msgs, adopted \in BOOLEAN : HandleInstall(v, m, adopted)
     \/ \E m \in msgs : HandleInstalled(v, m)
     \/ \E op \in Ops : Submit(v, op)
     \/ \E m \in msgs : HandleAccept(v, m)
     \/ \E m \in msgs : HandleAccepted(v, m)
     \/ \E m \in msgs : HandleProof(v, m)
     \/ \E m \in msgs : HandleProven(v, m)
     \/ \E m \in msgs : HandleProvenCarried(v, m)
     \/ OfferSnapshot(v)
     \/ \E m \in msgs : HandleSnapshot(v, m)
     \/ Abandon(v)

Next ==
  \E v \in Voters :
    \/ Serve(v)
    \/ \E m \in msgs : Quarantine(v, m)
    \/ Restart(v)

Spec == Init /\ [][Next]_vars

-----------------------------------------------------------------------------
(* Properties *)

\* The proposer and its quorum peer are two of the three voters.
Quorums == {Q \in SUBSET Voters : \E v, w \in Q : v # w}

Selections == [ballot : Ballots, prefix : Entries, proofEpoch : Nat,
               next : Entries, tails : SUBSET Tails]
Campaigns  == [stage : {"IDLE", "PREPARE", "INSTALL", "ACCEPT", "PROOF", "READY"},
               ballot : Ballots, peer : Voters \union {None},
               entry : Entries, activating : BOOLEAN]
Messages ==
  [type : {"PREPARE"}, ballot : Ballots]
    \union [type : {"PROMISE"}, ballot : Ballots, from : Voters, basis : Bases]
    \union [type : {"INSTALL"}, ballot : Ballots, to : Voters, own : Bases, peer : Bases]
    \union [type : {"INSTALLED"}, ballot : Ballots, from : Voters]
    \union [type : {"ACCEPT", "PROOF"}, ballot : Ballots, to : Voters, entry : Entries]
    \union [type : {"ACCEPTED", "PROVEN"}, ballot : Ballots, from : Voters, entry : Entries]
    \union [type : {"SNAPSHOT"}, ballot : Ballots, log : Entries, proofEpoch : Nat]

\* The types of the files of a voter, of its campaign and of the messages.
AuthorityTypes ==
  /\ promise \in [Voters -> Ballots]
  /\ basis \in [Voters -> Bases]
  /\ selected \in [Voters -> Selections]
  /\ log \in [Voters -> Entries]
  /\ proofEpoch \in [Voters -> Nat]
  /\ tail \in [Voters -> Tails]
  /\ campaign \in [Voters -> Campaigns]
  /\ msgs \subseteq Messages
  /\ votes \subseteq Voters \X Nat \X Entries

\* Files, campaigns, messages and the quarantine mark keep their types.
TypeOK == AuthorityTypes /\ quarantined \in [Voters -> BOOLEAN]

\* No two voters ever prove different entries at one index: of two proven
\* prefixes one is an ancestor of the other.
Agreement ==
  \A v, w \in Voters : Extends(log[v], log[w]) \/ Extends(log[w], log[v])

\* A proven entry never depends on one disk: at all times two voters hold it,
\* proven or as their unresolved acceptance, whatever was replaced since.
Holds(w, e) == Extends(log[w], e) \/ tail[w].entry = e
ProvenOnQuorum ==
  \A v \in Voters : \E Q \in Quorums : \A w \in Q : Holds(w, log[v])

\* A proposer past recovery stands on everything that was proven below its
\* ballot: what it proposes extends every such prefix.
LeaderComplete ==
  \A p, v \in Voters :
    /\ campaign[p].stage \in {"ACCEPT", "PROOF", "READY"}
    /\ proofEpoch[v] < campaign[p].ballot.epoch
    => Extends(IF campaign[p].stage = "ACCEPT" THEN campaign[p].entry ELSE log[p], log[v])

\* One epoch, one ballot: a voter that stops and campaigns again never reuses
\* an epoch with another incarnation (own promise durable before PREPARE).
OneBallotPerEpoch ==
  \A m, n \in msgs : m.ballot.epoch = n.ballot.epoch => m.ballot = n.ballot

\* The only voter ever quarantined is one that stopped between its promise and
\* its basis and was then asked again: no other check of recoveryIo fails on any
\* interleaving, loss, repetition or crash, and the store's own checks take every
\* acceptance and proof that is sent to it at the promised ballot.
OnlyUnfrozenQuarantine ==
  /\ \A v \in Voters : quarantined[v] => basis[v].ballot # promise[v]
  /\ \A m \in msgs :
       /\ m.type = "ACCEPT" /\ promise[m.to] = m.ballot =>
            MayAccept(m.to, m.ballot, m.entry) \/ Extends(log[m.to], m.entry)
       /\ m.type = "PROOF" /\ promise[m.to] = m.ballot =>
            MayProve(m.to, m.ballot, m.entry) \/ Extends(log[m.to], m.entry)

\* A voter may stop at any time and load() and checkRecovery() accept what it
\* left: neither proof nor selection above the promise, a selection on the
\* proven prefix, and origins in order along the ancestry.
Ordered(e) ==
  \A i \in 1..(Len(e) - 1) :
    e[i].epoch < e[i + 1].epoch \/ (e[i].epoch = e[i + 1].epoch /\ e[i].inc = e[i + 1].inc)
Reopens ==
  \A v \in Voters :
    /\ proofEpoch[v] <= promise[v].epoch
    /\ selected[v].ballot.epoch <= promise[v].epoch
    /\ Extends(log[v], selected[v].prefix) \/ Extends(selected[v].prefix, log[v])
    /\ Ordered(log[v]) /\ Ordered(tail[v].entry)

\* load() also finds, for an acceptance that replaced another entry at its
\* slot, what allowed it: the last selection, or a basis of that selection.
Replaced(v) ==
  /\ tail[v] # NoTail
  /\ \E vote \in votes : /\ vote[1] = v
                         /\ Len(vote[3]) = Len(tail[v].entry)
                         /\ vote[3] # tail[v].entry
ReplacementBacked ==
  \A v \in Voters : Replaced(v) =>
    \/ tail[v] \in selected[v].tails
    \/ /\ selected[v].ballot.epoch = tail[v].epoch
       /\ SelectedValue(v, selected[v].ballot, tail[v].entry)

\* No step rolls back a voter's proven prefix (an installed snapshot and a
\* selection included).
ProvenNeverRollsBack == [][\A v \in Voters : Extends(log'[v], log[v])]_vars

\* An acceptance is forgotten only when its slot is proven, and replaced only
\* at its own slot by one of a higher ballot.
AcceptanceNeverForgotten ==
  [][\A v \in Voters : tail[v] # NoTail /\ tail'[v] # tail[v] =>
       \/ Len(log'[v]) >= Len(tail[v].entry)
       \/ /\ tail'[v].epoch > tail[v].epoch
          /\ Len(tail'[v].entry) = Len(tail[v].entry)]_vars

\* However often a PREPARE is repeated, and whatever the voter accepted, proved
\* or installed in between, all its answers at one ballot carry one basis, and
\* while the promise stands that is the basis of its files.
BasisNeverResampled ==
  \A m \in msgs : m.type = "PROMISE" =>
    /\ \A n \in msgs : n.type = "PROMISE" /\ n.from = m.from /\ n.ballot = m.ballot =>
         n.basis = m.basis
    /\ promise[m.from] = m.ballot => basis[m.from] = m.basis
=============================================================================
