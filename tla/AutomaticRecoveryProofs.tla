---------------------- MODULE AutomaticRecoveryProofs ----------------------
(***************************************************************************)
(* What a voter of AutomaticAuthority finds when it reopens its files and   *)
(* when a request of its promised ballot reaches it: Reopens,               *)
(* ReplacementBacked, BasisNeverResampled and OnlyUnfrozenQuarantine, for   *)
(* every choice of the constants.                                           *)
(*                                                                         *)
(* The invariant of AutomaticAuthorityProofs says which entries are safe.   *)
(* The one of this module adds the order in which a ballot is worked       *)
(* through: one INSTALL at most is ever sent for it, nothing of the ballot  *)
(* touches a voter before that INSTALL, and a voter that the INSTALL names  *)
(* has made its selection before it is asked to accept or to prove.  A      *)
(* follower whose basis is frozen has answered with it, and with no other.  *)
(***************************************************************************)
EXTENDS AutomaticAuthorityProofs

\* The selection that an INSTALL asks for.
Sel(n) == Selection(n.own, n.peer)

\* An INSTALL of ballot b was sent.
InstallOf(n, b) == n \in msgs /\ n.type = "INSTALL" /\ n.ballot = b
NoInstall(b) == \A n \in msgs : n.type = "INSTALL" => n.ballot # b

\* At most one INSTALL is sent for a ballot: a proposer selects once.
OneInstall ==
  \A m, n \in msgs :
    m.type = "INSTALL" /\ n.type = "INSTALL" /\ m.ballot = n.ballot => m = n

\* The acceptance in a basis is older than the basis.
TailLow(B) == B.tail.epoch <= B.ballot.epoch

\* The selection of v is not above its promise, its prefix is chosen and what
\* it carries was accepted by someone.
SelectionOf(v) ==
  /\ selected[v].ballot.epoch <= promise[v].epoch
  /\ ChosenPrefix(selected[v].prefix, selected[v].proofEpoch)
  /\ selected[v].next # <<>> =>
       \E w \in Voters, c \in Nat :
         c <= selected[v].ballot.epoch /\ Voted(w, c, selected[v].next)

\* v voted for no slot beyond its unresolved acceptance.
SlotOf(v) ==
  \A c \in Nat, f \in Entries : Voted(v, c, f) =>
    /\ Len(f) <= Len(log[v]) + 1
    /\ tail[v] = NoTail => Len(f) <= Len(log[v])

\* An acceptance of an earlier ballot is in the slot that the selection of
\* the promised ballot decides about.
OldTailOf(v) ==
  tail[v] # NoTail /\ tail[v].epoch < promise[v].epoch /\ selected[v].ballot = promise[v] =>
    Len(log[v]) <= Len(selected[v].prefix)

\* What load() looks for when an acceptance replaced another.
BackedOf(v) ==
  Replaced(v) =>
    \/ tail[v] \in selected[v].tails
    \/ /\ selected[v].ballot.epoch = tail[v].epoch
       /\ SelectedValue(v, selected[v].ballot, tail[v].entry)

\* The files of v.
FilesOf(v) == SelectionOf(v) /\ TailLow(basis[v]) /\ SlotOf(v) /\ OldTailOf(v) /\ BackedOf(v)

\* The cells of an entry accepted at epoch c are in order, none is later than
\* c, and one of epoch c is of the ballot of that epoch.
OriginOf(c, f) ==
  /\ Ordered(f)
  /\ LastCell(f).epoch <= c
  /\ LastCell(f).epoch = c =>
       \E m \in msgs : m.ballot.epoch = c /\ m.ballot.inc = LastCell(f).inc

\* Every acceptance ever forced.
OriginInv == \A v \in Voters, c \in Nat, f \in Entries : Voted(v, c, f) => OriginOf(c, f)

\* Nothing happened at v since it froze B.
Untouched(v, B) == log[v] = B.log /\ tail[v] = B.tail

\* The voter that n names has made n's selection and holds its prefix.
InstalledAt(n) ==
  /\ Extends(log[n.to], Sel(n).prefix)
  /\ promise[n.to] = n.ballot => selected[n.to] = Sel(n)

\* The INSTALL of ballot b named w, and w has carried it out.
Recovered(b, w) == \E n \in msgs : InstallOf(n, b) /\ n.to = w /\ InstalledAt(n)

\* e is what the selection s of ballot b allows.
Obeys(s, b, e) ==
  Len(e) = Len(s.prefix) + 1 =>
    IF s.next = <<>> THEN LastCell(e) = Origin(b, NoOp) ELSE e = s.next

\* What a message says of the files of its voters.
ExchangeOf(m) ==
  /\ m.type = "PROMISE" =>
       /\ TailLow(m.basis)
       /\ promise[m.from] = m.ballot =>
            /\ basis[m.from] = m.basis
            /\ NoInstall(m.ballot) => Untouched(m.from, m.basis)
  /\ m.type = "INSTALL" =>
       /\ TailLow(m.own) /\ TailLow(m.peer)
       /\ promise[m.to] = m.ballot =>
            /\ basis[m.to] = m.peer
            /\ selected[m.to] = Sel(m) \/ Untouched(m.to, m.peer)
  /\ m.type = "INSTALLED" => Recovered(m.ballot, m.from)
  /\ m.type = "ACCEPT" =>
       /\ Len(m.entry) <= Len(log[m.to]) + 1
       /\ \E n \in msgs : /\ InstallOf(n, m.ballot) /\ n.to = m.to /\ InstalledAt(n)
                          /\ Obeys(Sel(n), m.ballot, m.entry)
  /\ m.type = "PROOF" => Voted(m.to, m.ballot.epoch, m.entry) /\ Recovered(m.ballot, m.to)
  /\ m.type = "PROVEN" => Extends(log[m.from], m.entry)
  /\ m.type = "SNAPSHOT" =>
       m.proofEpoch <= m.ballot.epoch /\ \E w \in Voters : Recovered(m.ballot, w)

\* How far the campaign of p is.
PhaseOf(p) ==
  LET k == campaign[p]
  IN /\ k.stage = "PREPARE" => NoInstall(k.ballot) /\ basis[p].tail = tail[p]
     /\ k.stage \notin {"IDLE", "PREPARE"} =>
          \E n \in msgs : InstallOf(n, k.ballot) /\ n.to = k.peer /\ selected[p] = Sel(n)
     /\ k.stage = "INSTALL" => log[p] = selected[p].prefix
     /\ k.stage \in {"ACCEPT", "PROOF", "READY"} => Recovered(k.ballot, k.peer)
     /\ k.stage = "PROOF" => k.entry = log[p]
     /\ k.stage = "READY" => Extends(log[k.peer], log[p])

\* Every voter, every message and every campaign.
FilesInv == \A v \in Voters : FilesOf(v)
ExchangeInv == \A m \in msgs : ExchangeOf(m)
PhaseInv == \A p \in Voters : PhaseOf(p)

\* A follower that froze a basis for its promise has sent it.
AnswerOf(v) == [type |-> "PROMISE", ballot |-> promise[v], from |-> v, basis |-> basis[v]]
Answered ==
  \A v \in Voters : basis[v].ballot = promise[v] /\ promise[v].proposer # v =>
    AnswerOf(v) \in msgs

\* All the answers of a voter at one ballot are one.
OneAnswer ==
  \A m, n \in msgs : m.type = "PROMISE" /\ n.type = "PROMISE" =>
    (n.from = m.from /\ n.ballot = m.ballot => n.basis = m.basis)

\* What is added to IInv; the three together are inductive.
RInv == OneInstall /\ FilesInv /\ OriginInv /\ ExchangeInv /\ PhaseInv
AnswerInv == Answered /\ OneAnswer

-----------------------------------------------------------------------------
(* What no step takes back *)

\* A follower's files change at its promise only once an INSTALL of that
\* ballot was sent, and the voter that the INSTALL names selects as it says.
Touched(w) ==
  \E n \in msgs : InstallOf(n, promise[w]) /\ (n.to = w => selected'[w] = Sel(n))

\* The part of a step that the messages already sent depend on.
Calm ==
  /\ msgs \subseteq msgs'
  /\ \A w \in Voters :
       /\ promise'[w] # promise[w] => promise'[w].epoch > promise[w].epoch
       /\ promise'[w] = promise[w] =>
            /\ basis'[w] = basis[w]
            /\ promise[w].proposer = w
               \/ (selected'[w] = selected[w] /\ log'[w] = log[w] /\ tail'[w] = tail[w])
               \/ Touched(w)

\* The typed facts of an INSTALL.
LEMMA InstallFacts ==
  ASSUME IInv, NEW n \in msgs, n.type = "INSTALL"
  PROVE  /\ n.to \in Voters /\ n.own \in Bases /\ n.peer \in Bases
         /\ n.ballot \in Ballots /\ n.ballot.epoch \in Nat
         /\ n.to # n.ballot.proposer /\ n.ballot.proposer \in Voters
         /\ n.own.ballot = n.ballot /\ n.peer.ballot = n.ballot
         /\ BasisOf(n.ballot.proposer, n.own) /\ BasisOf(n.to, n.peer)
         /\ n.ballot.epoch <= promise[n.to].epoch
         /\ Sel(n) \in Selections /\ Sel(n).prefix \in Entries /\ Sel(n).ballot = n.ballot
<1>1. /\ n.to \in Voters /\ n.own \in Bases /\ n.peer \in Bases
      /\ n.ballot \in Ballots /\ n.ballot.epoch \in Nat
      /\ n.to # n.ballot.proposer /\ n.ballot.proposer \in Voters
      /\ n.own.ballot = n.ballot /\ n.peer.ballot = n.ballot
      /\ BasisOf(n.ballot.proposer, n.own) /\ BasisOf(n.to, n.peer)
  BY Received, MessageTypes DEF MsgFacts
<1>2. n.ballot.epoch <= promise[n.to].epoch
  BY <1>1 DEF BasisOf
<1>3. Sel(n) \in Selections
  BY <1>1, SelectionTypes DEF Sel
<1>4. Sel(n).prefix \in Entries
  BY <1>3 DEF Selections
<1>5. Sel(n).ballot = n.ballot
  BY <1>1 DEF Sel, Selection
<1> QED BY <1>1, <1>2, <1>3, <1>4, <1>5

\* A promise that is at a known ballot after a calm step was there before.
LEMMA PromiseKept ==
  ASSUME IInv, Calm, NEW w \in Voters, NEW b \in Ballots, b.epoch <= promise[w].epoch,
         promise'[w] = b
  PROVE  promise[w] = b
<1>1. b.epoch \in Nat /\ promise[w].epoch \in Nat
  BY VoterTypes DEF IInv, Ballots
<1> QED BY <1>1 DEF Calm

\* A selection that was made stays made while the ballot is promised.
LEMMA InstalledGrows ==
  ASSUME IInv, Grows, Calm, OneInstall, NEW n \in msgs, n.type = "INSTALL", InstalledAt(n),
         log'[n.to] \in Entries
  PROVE  InstalledAt(n)'
<1> USE InstallFacts
<1>1. Extends(log'[n.to], Sel(n).prefix)
  <2>1. Extends(log'[n.to], log[n.to]) /\ log[n.to] \in Entries
    BY VoterTypes DEF Grows, IInv
  <2> QED BY <2>1, ExtendsTrans DEF InstalledAt
<1>2. ASSUME promise'[n.to] = n.ballot PROVE selected'[n.to] = Sel(n)
  <2>1. promise[n.to] = n.ballot
    BY <1>2, PromiseKept
  <2>2. selected[n.to] = Sel(n)
    BY <2>1 DEF InstalledAt
  <2>3. ASSUME Touched(n.to) PROVE selected'[n.to] = Sel(n)
    <3>1. PICK k \in msgs : InstallOf(k, promise[n.to]) /\ (k.to = n.to => selected'[n.to] = Sel(k))
      BY <2>3 DEF Touched
    <3>2. k = n
      BY <2>1, <3>1 DEF OneInstall, InstallOf
    <3> QED BY <3>1, <3>2
  <2> QED BY <1>2, <2>1, <2>2, <2>3 DEF Calm
<1> QED BY <1>1, <1>2 DEF InstalledAt, Sel

\* A voter that has made the selection of a ballot stays recovered.
LEMMA RecoveredGrows ==
  ASSUME IInv, AuthorityTypes', Grows, Calm, OneInstall, NEW b, NEW w, Recovered(b, w)
  PROVE  Recovered(b, w)'
<1>1. PICK n \in msgs : InstallOf(n, b) /\ n.to = w /\ InstalledAt(n)
  BY DEF Recovered
<1>2. n.type = "INSTALL" /\ n \in msgs'
  BY <1>1 DEF InstallOf, Calm
<1>3. log'[n.to] \in Entries
  BY <1>2, InstallFacts DEF AuthorityTypes
<1>4. InstalledAt(n)'
  BY <1>1, <1>2, <1>3, InstalledGrows
<1> QED BY <1>1, <1>2, <1>4 DEF Recovered, InstallOf

\* A message keeps what it says of the files.
LEMMA ExchangeKept ==
  ASSUME IInv, AuthorityTypes', Grows, Calm, OneInstall, NEW m \in msgs, ExchangeOf(m)
  PROVE  ExchangeOf(m)'
<1>1. m \in Messages /\ m.ballot \in Ballots /\ m.ballot.epoch \in Nat /\ MsgFacts(m)
  BY Received
<1>2. ASSUME m.type = "PROMISE", promise'[m.from] = m.ballot
      PROVE  basis'[m.from] = m.basis /\ (NoInstall(m.ballot)' => Untouched(m.from, m.basis)')
  <2>1. m.from \in Voters /\ m.from # m.ballot.proposer /\ m.ballot.epoch <= promise[m.from].epoch
    BY <1>1, <1>2, MessageTypes DEF MsgFacts, BasisOf
  <2>2. promise[m.from] = m.ballot
    BY <1>1, <1>2, <2>1, PromiseKept
  <2>3. basis[m.from] = m.basis /\ (NoInstall(m.ballot) => Untouched(m.from, m.basis))
    BY <1>2, <2>2 DEF ExchangeOf
  <2>4. NoInstall(m.ballot)' => NoInstall(m.ballot) /\ ~Touched(m.from)
    BY <2>2 DEF NoInstall, Calm, Touched, InstallOf
  <2> QED BY <1>2, <2>1, <2>2, <2>3, <2>4 DEF Calm, Untouched
<1>3. ASSUME m.type = "INSTALL", promise'[m.to] = m.ballot
      PROVE  basis'[m.to] = m.peer /\ (selected'[m.to] = Sel(m) \/ Untouched(m.to, m.peer)')
  <2>1. m.to \in Voters /\ m.to # m.ballot.proposer /\ m.ballot.epoch <= promise[m.to].epoch
    BY <1>3, InstallFacts
  <2>2. promise[m.to] = m.ballot
    BY <1>1, <1>3, <2>1, PromiseKept
  <2>3. basis[m.to] = m.peer /\ (selected[m.to] = Sel(m) \/ Untouched(m.to, m.peer))
    BY <1>3, <2>2 DEF ExchangeOf
  <2>4. Touched(m.to) => selected'[m.to] = Sel(m)
    BY <1>3, <2>2 DEF Touched, InstallOf, OneInstall
  <2> QED BY <1>3, <2>1, <2>2, <2>3, <2>4 DEF Calm, Untouched
<1>4. m.type = "INSTALLED" => Recovered(m.ballot, m.from)'
  BY RecoveredGrows DEF ExchangeOf
<1>5. ASSUME m.type = "ACCEPT"
      PROVE  /\ Len(m.entry) <= Len(log'[m.to]) + 1
             /\ \E n \in msgs' : /\ InstallOf(n, m.ballot)' /\ n.to = m.to /\ InstalledAt(n)'
                                 /\ Obeys(Sel(n), m.ballot, m.entry)
  <2>1. /\ m.to \in Voters /\ m.entry \in Entries /\ log[m.to] \in Entries
        /\ log'[m.to] \in Entries /\ Len(m.entry) <= Len(log[m.to]) + 1
        /\ Extends(log'[m.to], log[m.to])
    BY <1>1, <1>5, MessageTypes, VoterTypes DEF IInv, AuthorityTypes, ExchangeOf, Grows
  <2>2. Len(m.entry) <= Len(log'[m.to]) + 1
    BY <2>1, ExtendsLen
  <2>3. PICK n \in msgs : /\ InstallOf(n, m.ballot) /\ n.to = m.to /\ InstalledAt(n)
                          /\ Obeys(Sel(n), m.ballot, m.entry)
    BY <1>5 DEF ExchangeOf
  <2>4. InstalledAt(n)'
    BY <2>1, <2>3, InstalledGrows DEF InstallOf
  <2> QED BY <2>2, <2>3, <2>4 DEF InstallOf, Calm
<1>6. m.type = "PROOF" => Voted(m.to, m.ballot.epoch, m.entry)' /\ Recovered(m.ballot, m.to)'
  BY RecoveredGrows, VotedGrows DEF ExchangeOf
<1>7. ASSUME m.type = "PROVEN" PROVE Extends(log'[m.from], m.entry)
  <2>1. /\ m.from \in Voters /\ m.entry \in Entries /\ log[m.from] \in Entries
        /\ log'[m.from] \in Entries /\ Extends(log[m.from], m.entry)
        /\ Extends(log'[m.from], log[m.from])
    BY <1>1, <1>7, MessageTypes, VoterTypes DEF IInv, AuthorityTypes, ExchangeOf, Grows
  <2> QED BY <2>1, ExtendsTrans
<1>8. m.type = "SNAPSHOT" =>
        m.proofEpoch <= m.ballot.epoch /\ \E w \in Voters : Recovered(m.ballot, w)'
  BY RecoveredGrows DEF ExchangeOf
<1>9. m.type = "PROMISE" => TailLow(m.basis)
  BY DEF ExchangeOf
<1>10. m.type = "INSTALL" => TailLow(m.own) /\ TailLow(m.peer)
  BY DEF ExchangeOf
<1> QED BY <1>2, <1>3, <1>4, <1>5, <1>6, <1>7, <1>8, <1>9, <1>10 DEF ExchangeOf, TailLow, Sel, Obeys

-----------------------------------------------------------------------------
(* The files of the voter that takes the step, and of the others *)

\* The typed facts of v's files.
LEMMA SelectedTypes ==
  ASSUME AuthorityTypes, NEW v \in Voters
  PROVE  /\ selected[v] \in Selections /\ selected[v].ballot \in Ballots
         /\ selected[v].ballot.epoch \in Nat /\ selected[v].prefix \in Entries
         /\ selected[v].proofEpoch \in Nat /\ selected[v].next \in Entries
  BY DEF AuthorityTypes, Selections, Ballots

\* A vote for another entry of the same slot, in terms of its parts.
LEMMA VoteParts ==
  ASSUME NEW V, V \subseteq Voters \X Nat \X Entries, NEW v \in Voters, NEW e
  PROVE  (\E vote \in V : vote[1] = v /\ Len(vote[3]) = Len(e) /\ vote[3] # e) <=>
           \E c \in Nat, f \in Entries : <<v, c, f>> \in V /\ Len(f) = Len(e) /\ f # e
<1>1. \A vote \in V :
        /\ vote = <<vote[1], vote[2], vote[3]>>
        /\ vote[1] \in Voters /\ vote[2] \in Nat /\ vote[3] \in Entries
  OBVIOUS
<1>2. ASSUME NEW c \in Nat, NEW f \in Entries, <<v, c, f>> \in V
      PROVE  \E vote \in V : vote[1] = v /\ vote[3] = f
  <2>1. <<v, c, f>>[1] = v /\ <<v, c, f>>[3] = f
    OBVIOUS
  <2> QED BY <1>2, <2>1
<1>3. ASSUME NEW vote \in V, vote[1] = v, Len(vote[3]) = Len(e), vote[3] # e
      PROVE  \E c \in Nat, f \in Entries : <<v, c, f>> \in V /\ Len(f) = Len(e) /\ f # e
  <2>1. PICK c, f : c = vote[2] /\ f = vote[3]
    OBVIOUS
  <2>2. c \in Nat /\ f \in Entries /\ vote = <<v, c, f>>
    BY <1>1, <1>3, <2>1
  <2> QED BY <1>3, <2>1, <2>2
<1>4. ASSUME NEW c \in Nat, NEW f \in Entries, <<v, c, f>> \in V, Len(f) = Len(e), f # e
      PROVE  \E vote \in V : vote[1] = v /\ Len(vote[3]) = Len(e) /\ vote[3] # e
  <2>1. PICK vote \in V : vote[1] = v /\ vote[3] = f
    BY <1>2, <1>4
  <2> QED BY <1>4, <2>1
<1> QED BY <1>3, <1>4

\* Replaced, in terms of Voted.
LEMMA ReplacedVote ==
  ASSUME AuthorityTypes, NEW v \in Voters
  PROVE  Replaced(v) <=>
           /\ tail[v] # NoTail
           /\ \E c \in Nat, f \in Entries :
                Voted(v, c, f) /\ Len(f) = Len(tail[v].entry) /\ f # tail[v].entry
<1>1. votes \subseteq Voters \X Nat \X Entries
  BY DEF AuthorityTypes
<1>2. PICK e : e = tail[v].entry
  OBVIOUS
<1>3. (\E vote \in votes : vote[1] = v /\ Len(vote[3]) = Len(e) /\ vote[3] # e) <=>
        \E c \in Nat, f \in Entries : <<v, c, f>> \in votes /\ Len(f) = Len(e) /\ f # e
  BY <1>1, VoteParts
<1> QED BY <1>2, <1>3 DEF Replaced, Voted

\* The same in the next state.
LEMMA ReplacedVoteNext ==
  ASSUME AuthorityTypes', NEW v \in Voters
  PROVE  Replaced(v)' <=>
           /\ tail'[v] # NoTail
           /\ \E c \in Nat, f \in Entries :
                Voted(v, c, f)' /\ Len(f) = Len(tail'[v].entry) /\ f # tail'[v].entry
<1>1. votes' \subseteq Voters \X Nat \X Entries
  BY DEF AuthorityTypes
<1>2. PICK e : e = tail'[v].entry
  OBVIOUS
<1>3. (\E vote \in votes' : vote[1] = v /\ Len(vote[3]) = Len(e) /\ vote[3] # e) <=>
        \E c \in Nat, f \in Entries : <<v, c, f>> \in votes' /\ Len(f) = Len(e) /\ f # e
  BY <1>1, VoteParts
<1> QED BY <1>2, <1>3 DEF Replaced, Voted

\* A selection keeps what it stands on.
LEMMA SelectionGrows ==
  ASSUME AuthorityTypes, Grows, NEW v \in Voters, SelectionOf(v), selected'[v] = selected[v]
  PROVE  SelectionOf(v)'
<1> USE SelectedTypes
<1>1. selected[v].ballot.epoch <= promise'[v].epoch
  BY DEF SelectionOf, Grows
<1>2. ChosenPrefix(selected[v].prefix, selected[v].proofEpoch)'
  BY PrefixGrows DEF SelectionOf
<1>3. selected[v].next # <<>> =>
        \E w \in Voters, c \in Nat :
          c <= selected[v].ballot.epoch /\ Voted(w, c, selected[v].next)'
  BY VotedGrows DEF SelectionOf
<1> QED BY <1>1, <1>2, <1>3 DEF SelectionOf

\* A voter that takes no part in the step keeps its files.
LEMMA FilesKept ==
  ASSUME AuthorityTypes, AuthorityTypes', Grows, NEW v \in Voters, FilesOf(v),
         promise'[v] = promise[v], basis'[v] = basis[v], selected'[v] = selected[v],
         log'[v] = log[v], tail'[v] = tail[v],
         \A c \in Nat, f \in Entries : Voted(v, c, f)' => Voted(v, c, f)
  PROVE  FilesOf(v)'
<1>1. SelectionOf(v)' /\ TailLow(basis[v])'
  BY SelectionGrows DEF FilesOf, TailLow
<1>2. SlotOf(v)' /\ OldTailOf(v)'
  BY DEF FilesOf, SlotOf, OldTailOf
<1>3. Replaced(v)' => Replaced(v)
  BY ReplacedVote, ReplacedVoteNext
<1>4. BackedOf(v)'
  BY <1>3 DEF FilesOf, BackedOf, SelectedValue, SelectedSlot
<1> QED BY <1>1, <1>2, <1>4 DEF FilesOf, TailLow

\* A higher promise keeps the files of its voter.
LEMMA FilesPrepare ==
  ASSUME IInv, AuthorityTypes', Grows, NEW v \in Voters, FilesOf(v),
         NEW b \in Ballots, NEW froze \in BOOLEAN, Prepare(v, b, froze)
  PROVE  FilesOf(v)'
<1> USE VoterTypes, SelectedTypes
<1>1. /\ promise'[v] = b /\ promise[v].epoch < b.epoch /\ b.epoch \in Nat
      /\ basis'[v] = IF froze THEN Frozen(v, b) ELSE NoBasis
      /\ selected'[v] = selected[v] /\ log'[v] = log[v] /\ tail'[v] = tail[v]
      /\ votes' = votes /\ AuthorityTypes
  BY DEF Prepare, IInv, AuthorityTypes, Ballots
<1>2. SelectionOf(v)'
  BY <1>1, SelectionGrows DEF FilesOf
<1>3. TailLow(basis[v])'
  <2>1. tail[v].epoch <= promise[v].epoch
    BY DEF IInv, VoterInv, VoterOf
  <2>2. TailLow(Frozen(v, b))
    BY <1>1, <2>1 DEF TailLow, Frozen
  <2>3. TailLow(NoBasis)
    BY DEF TailLow, NoBasis, NoTail, NoBallot
  <2> QED BY <1>1, <2>2, <2>3 DEF TailLow
<1>4. SlotOf(v)'
  BY <1>1 DEF FilesOf, SlotOf, Voted
<1>5. OldTailOf(v)'
  <2>1. selected[v].ballot # b
    BY <1>1 DEF FilesOf, SelectionOf
  <2> QED BY <1>1, <2>1 DEF OldTailOf
<1>6. BackedOf(v)'
  BY <1>1 DEF FilesOf, BackedOf, Replaced, SelectedValue, SelectedSlot
<1> QED BY <1>2, <1>3, <1>4, <1>5, <1>6 DEF FilesOf

\* An acceptance keeps the files of a voter that has selected for its ballot.
LEMMA FilesAccept ==
  ASSUME IInv, IInv', Grows, NEW v \in Voters, FilesOf(v),
         NEW b \in Ballots, NEW e \in Entries, Accept(v, b, e),
         selected[v].ballot = b, Extends(log[v], selected[v].prefix)
  PROVE  FilesOf(v)'
<1> USE VoterTypes, SelectedTypes
<1>1. /\ MayAccept(v, b, e) /\ promise[v] = b /\ b.epoch > 0 /\ b.epoch \in Nat
      /\ Len(e) = Len(log[v]) + 1
      /\ tail'[v] = [epoch |-> b.epoch, entry |-> e]
      /\ UNCHANGED <<promise, basis, selected, log, proofEpoch>>
      /\ votes' = votes \union {<<v, b.epoch, e>>}
      /\ AuthorityTypes /\ AuthorityTypes'
  BY DEF Accept, MayAccept, IInv, AuthorityTypes, VoterInv, VoterOf, Ballots
<1>2. SelectionOf(v)' /\ TailLow(basis[v])'
  BY <1>1, SelectionGrows DEF FilesOf, TailLow
<1>3. tail'[v] # NoTail /\ tail'[v].epoch = b.epoch /\ tail'[v].entry = e
  BY <1>1 DEF NoTail
<1>4. ASSUME NEW c \in Nat, NEW f \in Entries, Voted(v, c, f)'
      PROVE  f = e \/ Voted(v, c, f)
  BY <1>1, <1>4 DEF Voted
<1>5. SlotOf(v)'
  BY <1>1, <1>3, <1>4, ExtendsLen DEF FilesOf, SlotOf
<1>6. OldTailOf(v)'
  BY <1>1, <1>3 DEF OldTailOf
<1>7. BackedOf(v)'
  <2> SUFFICES ASSUME Replaced(v)'
               PROVE  \/ tail'[v] \in selected[v].tails
                      \/ selected[v].ballot.epoch = tail'[v].epoch /\ SelectedValue(v, b, e)
    BY <1>1, <1>3 DEF BackedOf, SelectedValue, SelectedSlot
  <2>1. PICK c \in Nat, f \in Entries :
          Voted(v, c, f)' /\ Len(f) = Len(tail'[v].entry) /\ f # tail'[v].entry
    BY <1>1, ReplacedVoteNext
  <2>2. Voted(v, c, f) /\ Len(f) = Len(e) /\ f # e
    BY <1>3, <1>4, <2>1
  <2>3. tail[v] # NoTail
    BY <1>1, <2>2, ExtendsLen DEF FilesOf, SlotOf
  <2>4. CASE tail[v] = [epoch |-> b.epoch, entry |-> e]
    <3>1. tail'[v] = tail[v] /\ tail[v].entry = e /\ Replaced(v)
      BY <1>1, <2>2, <2>3, <2>4, ReplacedVote
    <3> QED BY <3>1 DEF FilesOf, BackedOf
  <2>5. CASE tail[v].epoch < b.epoch
    <3>1. Len(log[v]) <= Len(selected[v].prefix)
      BY <1>1, <2>3, <2>5 DEF FilesOf, OldTailOf
    <3>2. Len(log[v]) = Len(selected[v].prefix)
      BY <1>1, <3>1, ExtendsLen
    <3>3. SelectedValue(v, b, e)
      BY <1>1, <3>2 DEF MayAccept, SelectedSlot
    <3> QED BY <1>3, <3>3
  <2> QED BY <1>1, <2>3, <2>4, <2>5 DEF MayAccept
<1> QED BY <1>2, <1>5, <1>6, <1>7 DEF FilesOf

\* A longer proven prefix that covers the acceptance keeps the files.
LEMMA FilesCut ==
  ASSUME IInv, AuthorityTypes', Grows, NEW v \in Voters, FilesOf(v),
         UNCHANGED <<promise, basis, votes>>, selected'[v] = selected[v],
         tail'[v] = NoTail, Len(log'[v]) >= Len(log[v]),
         tail[v] = NoTail \/ Len(log'[v]) >= Len(log[v]) + 1
  PROVE  FilesOf(v)'
<1> USE VoterTypes, SelectedTypes
<1>1. AuthorityTypes /\ log[v] \in Entries /\ log'[v] \in Entries
  BY DEF IInv, AuthorityTypes
<1>2. SelectionOf(v)' /\ TailLow(basis[v])'
  BY <1>1, SelectionGrows DEF FilesOf, TailLow
<1>3. SlotOf(v)'
  BY <1>1, ExtendsLen DEF FilesOf, SlotOf, Voted
<1>4. OldTailOf(v)' /\ BackedOf(v)'
  BY DEF OldTailOf, BackedOf, Replaced
<1> QED BY <1>2, <1>3, <1>4 DEF FilesOf

\* A selection for the promised ballot keeps the files of its voter.
LEMMA FilesSelect ==
  ASSUME IInv, AuthorityTypes', Grows, NEW v \in Voters, FilesOf(v),
         NEW s \in Selections, NEW adopted \in BOOLEAN, SelectAndAdopt(v, s, adopted),
         s.ballot = promise[v], ChosenPrefix(s.prefix, s.proofEpoch),
         s.next # <<>> =>
           \E w \in Voters, c \in Nat : c <= s.ballot.epoch /\ Voted(w, c, s.next),
         selected[v] = s \/ tail[v] = NoTail \/ tail[v] \in s.tails
  PROVE  FilesOf(v)'
<1> USE VoterTypes, SelectedTypes
<1>1. /\ MaySelect(v, s) /\ UNCHANGED <<promise, basis, votes>> /\ selected'[v] = s /\ AuthorityTypes
      /\ s.prefix \in Entries /\ s.proofEpoch \in Nat /\ log'[v] \in Entries
  BY DEF SelectAndAdopt, IInv, AuthorityTypes, Selections
<1>2. SelectionOf(v)' /\ TailLow(basis[v])'
  <2>1. ChosenPrefix(s.prefix, s.proofEpoch)'
    BY <1>1, PrefixGrows
  <2> QED BY <1>1, <2>1 DEF SelectionOf, FilesOf, TailLow, Voted
<1>3. CASE adopted /\ Len(s.prefix) > Len(log[v])
  <2>1. log'[v] = s.prefix /\ tail'[v] = NoTail
    BY <1>1, <1>3 DEF SelectAndAdopt, AuthorityTypes
  <2>2. SlotOf(v)'
    BY <1>1, <1>3, <2>1, ExtendsLen DEF FilesOf, SlotOf, Voted
  <2>3. OldTailOf(v)' /\ BackedOf(v)'
    BY <2>1 DEF OldTailOf, BackedOf, Replaced
  <2> QED BY <1>2, <2>2, <2>3 DEF FilesOf
<1>4. CASE ~ (adopted /\ Len(s.prefix) > Len(log[v]))
  <2>1. UNCHANGED <<log, tail>>
    BY <1>4 DEF SelectAndAdopt
  <2>2. SlotOf(v)'
    BY <1>1, <2>1 DEF FilesOf, SlotOf, Voted
  <2>3. OldTailOf(v)'
    BY <1>1, <2>1, ExtendsLen DEF FilesOf, OldTailOf, MaySelect
  <2>4. BackedOf(v)'
    BY <1>1, <2>1 DEF FilesOf, BackedOf, Replaced, SelectedValue, SelectedSlot
  <2> QED BY <1>2, <2>2, <2>3, <2>4 DEF FilesOf
<1> QED BY <1>3, <1>4

-----------------------------------------------------------------------------
(* The origins of the cells *)

\* The last cell of an entry is a cell.
LEMMA LastCellTypes ==
  ASSUME NEW e \in Entries, Len(e) > 0
  PROVE  LastCell(e) \in Cells /\ LastCell(e).epoch \in Nat
<1>1. Len(e) \in 1..Len(e)
  BY ExtendsLen
<1>2. LastCell(e) \in Cells
  BY <1>1 DEF LastCell, Entries
<1> QED BY <1>2 DEF Cells

\* The order of an entry's cells does not depend on the state.
LEMMA OriginGrows ==
  ASSUME msgs \subseteq msgs', NEW c, NEW f, OriginOf(c, f)
  PROVE  OriginOf(c, f)'
  BY DEF OriginOf, Ordered, LastCell

\* A step that casts no vote keeps the origins.
LEMMA OriginsKept ==
  ASSUME OriginInv, msgs \subseteq msgs', votes' = votes
  PROVE  OriginInv'
  BY OriginGrows DEF OriginInv, Voted

\* A vote for an entry in order keeps the origins.
LEMMA OriginsGrow ==
  ASSUME OriginInv, msgs \subseteq msgs', NEW v, NEW b, NEW e,
         votes' = votes \union {<<v, b, e>>}, OriginOf(b, e)
  PROVE  OriginInv'
<1>1. OriginOf(b, e)'
  BY OriginGrows
<1>2. ASSUME NEW w \in Voters, NEW c \in Nat, NEW f \in Entries, Voted(w, c, f)'
      PROVE  Voted(w, c, f) \/ (c = b /\ f = e)
  BY <1>2 DEF Voted
<1> QED BY <1>1, <1>2, OriginGrows DEF OriginInv

\* A chosen prefix is in order.
LEMMA ChosenOrigin ==
  ASSUME OriginInv, NEW L \in Entries, NEW r \in Nat, ChosenPrefix(L, r), Len(L) > 0
  PROVE  \E c \in Nat : c <= r /\ OriginOf(c, L)
<1>1. PICK c \in Nat : c <= r /\ Chosen(c, L)
  BY PrefixChosen
<1>2. PICK w \in Voters : Voted(w, c, L)
  BY <1>1, ChosenHasVote
<1> QED BY <1>1, <1>2 DEF OriginInv

\* A fresh entry of a running campaign is in order.
LEMMA FreshOrigin ==
  ASSUME IInv, OriginInv, NEW v \in Voters, campaign[v].stage # "IDLE",
         NEW op \in Ops \union {NoOp}
  PROVE  OriginOf(campaign[v].ballot.epoch, Fresh(v, op))
<1>0. PICK b : b = campaign[v].ballot
  OBVIOUS
<1>1. /\ b \in Ballots /\ b.epoch \in Nat /\ promise[v] = b
      /\ [type |-> "PREPARE", ballot |-> b] \in msgs
      /\ b.inc \in IncarnationsOrNone
  BY <1>0, CampaignBallot DEF IInv, CampaignInv, CampaignOf, Ballots
<1>2. PICK x : x = Origin(b, op)
  OBVIOUS
<1>3. x \in Cells /\ x.epoch = b.epoch /\ x.inc = b.inc
  BY <1>1, <1>2 DEF Origin, Cells
<1>4. PICK L : L = log[v]
  OBVIOUS
<1>5. /\ L \in Entries /\ proofEpoch[v] \in Nat /\ proofEpoch[v] <= b.epoch
      /\ ChosenPrefix(L, proofEpoch[v])
  BY <1>1, <1>4, VoterTypes DEF IInv, VoterInv, VoterOf
<1>6. PICK e : e = Append(L, x)
  OBVIOUS
<1>7. /\ e = Fresh(v, op) /\ e \in Entries /\ Len(e) = Len(L) + 1 /\ Len(L) \in Nat
      /\ e[Len(e)] = x /\ \A i \in 1..Len(L) : e[i] = L[i]
  BY <1>0, <1>2, <1>3, <1>4, <1>5, <1>6 DEF Fresh, Entries
<1>8. ASSUME Len(L) > 0
      PROVE  /\ Ordered(L)
             /\ LastCell(L).epoch \in Nat
             /\ LastCell(L).epoch <= b.epoch
             /\ LastCell(L).epoch = b.epoch => LastCell(L).inc = b.inc
  <2>1. PICK c \in Nat : c <= proofEpoch[v] /\ OriginOf(c, L)
    BY <1>5, <1>8, ChosenOrigin
  <2>2. Ordered(L) /\ LastCell(L).epoch <= c /\ LastCell(L).epoch \in Nat
    BY <1>5, <1>8, <2>1, LastCellTypes DEF OriginOf
  <2>3. ASSUME LastCell(L).epoch = b.epoch PROVE LastCell(L).inc = b.inc
    <3>1. c = b.epoch
      BY <1>1, <1>5, <2>1, <2>2, <2>3
    <3>2. PICK m \in msgs : m.ballot.epoch = b.epoch /\ m.ballot.inc = LastCell(L).inc
      BY <2>1, <2>3, <3>1 DEF OriginOf
    <3>3. m.ballot = b
      BY <1>1, <3>2 DEF IInv, OneBallotPerEpoch
    <3> QED BY <3>2, <3>3
  <2> QED BY <1>1, <1>5, <2>1, <2>2, <2>3
<1>9. Ordered(e)
  <2> SUFFICES ASSUME NEW i \in 1..Len(L)
               PROVE  \/ e[i].epoch < e[i + 1].epoch
                      \/ e[i].epoch = e[i + 1].epoch /\ e[i].inc = e[i + 1].inc
    BY <1>7 DEF Ordered
  <2>1. CASE i < Len(L)
    <3>1. e[i] = L[i] /\ e[i + 1] = L[i + 1] /\ i \in 1..(Len(L) - 1)
      BY <1>7, <2>1
    <3>2. Ordered(L)
      BY <1>7, <1>8, <2>1
    <3> QED BY <3>1, <3>2 DEF Ordered
  <2>2. CASE i = Len(L)
    <3>1. e[i] = LastCell(L) /\ e[i + 1] = x /\ Len(L) > 0
      BY <1>7, <2>2 DEF LastCell
    <3> QED BY <1>1, <1>3, <1>8, <3>1
  <2> QED BY <1>7, <2>1, <2>2
<1>10. LastCell(e) = x
  BY <1>7 DEF LastCell
<1> QED BY <1>0, <1>1, <1>3, <1>7, <1>9, <1>10 DEF OriginOf

\* A carried entry is in order.
LEMMA CarriedOrigin ==
  ASSUME IInv, FilesInv, OriginInv, NEW v \in Voters, selected[v].next # <<>>
  PROVE  OriginOf(selected[v].ballot.epoch, selected[v].next)
<1>1. /\ selected[v].next \in Entries /\ selected[v].ballot.epoch \in Nat
  BY SelectedTypes DEF IInv
<1>2. PICK w \in Voters, c \in Nat :
        c <= selected[v].ballot.epoch /\ Voted(w, c, selected[v].next)
  BY DEF FilesInv, FilesOf, SelectionOf
<1>3. OriginOf(c, selected[v].next) /\ Len(selected[v].next) > 0
  BY <1>1, <1>2 DEF OriginInv, IInv, VotesInv
<1>4. LastCell(selected[v].next).epoch \in Nat
  BY <1>1, <1>3, LastCellTypes
<1> QED BY <1>1, <1>2, <1>3, <1>4 DEF OriginOf

-----------------------------------------------------------------------------
(* One step *)

\* The step leaves every voter but v alone.
Alone(v) ==
  \A w \in Voters : w # v =>
    /\ promise'[w] = promise[w] /\ basis'[w] = basis[w] /\ selected'[w] = selected[w]
    /\ log'[w] = log[w] /\ tail'[w] = tail[w] /\ campaign'[w] = campaign[w]
    /\ \A c \in Nat, f \in Entries : Voted(w, c, f)' => Voted(w, c, f)

\* A campaign that takes no part in a step stays in its phase.
LEMMA PhaseKept ==
  ASSUME IInv, AuthorityTypes', Grows, Calm, OneInstall, NEW p \in Voters, PhaseOf(p),
         basis'[p] = basis[p], selected'[p] = selected[p], log'[p] = log[p],
         tail'[p] = tail[p], campaign'[p] = campaign[p],
         campaign[p].stage = "PREPARE" => NoInstall(campaign[p].ballot)'
  PROVE  PhaseOf(p)'
<1>1. PICK k : k = campaign[p]
  OBVIOUS
<1>2. ASSUME k.stage \notin {"IDLE", "PREPARE"}
      PROVE  \E n \in msgs' : InstallOf(n, k.ballot)' /\ n.to = k.peer /\ selected[p] = Sel(n)
  BY <1>1, <1>2 DEF PhaseOf, InstallOf, Calm
<1>3. k.stage \in {"ACCEPT", "PROOF", "READY"} => Recovered(k.ballot, k.peer)'
  BY <1>1, RecoveredGrows DEF PhaseOf
<1>4. ASSUME k.stage = "READY" PROVE Extends(log'[k.peer], log[p])
  <2>1. k.peer \in Voters
    BY <1>1, <1>4 DEF IInv, CampaignInv, CampaignOf
  <2>2. /\ Extends(log[k.peer], log[p]) /\ Extends(log'[k.peer], log[k.peer])
        /\ log[p] \in Entries /\ log[k.peer] \in Entries /\ log'[k.peer] \in Entries
    BY <1>1, <1>4, <2>1 DEF PhaseOf, Grows, IInv, AuthorityTypes
  <2> QED BY <2>2, ExtendsTrans
<1> QED BY <1>1, <1>2, <1>3, <1>4 DEF PhaseOf, Sel

\* A step of v that sends at most one message preserves the whole invariant
\* when v's files, v's phase and the message are as it says.
LEMMA RecoveryStep ==
  ASSUME IInv, IInv', RInv, Grows, Calm, NEW v \in Voters, Alone(v),
         FilesOf(v)', PhaseOf(v)', OriginInv',
         \/ msgs' = msgs
         \/ \E m \in Messages :
              /\ msgs' = msgs \union {m} /\ ExchangeOf(m)'
              /\ m.type = "INSTALL" => NoInstall(m.ballot) /\ m.ballot.proposer = v
  PROVE  RInv'
<1>1. AuthorityTypes /\ AuthorityTypes' /\ OneInstall
  BY DEF IInv, RInv
<1>2. \A m \in msgs : ExchangeOf(m)'
  BY <1>1, ExchangeKept DEF RInv, ExchangeInv
<1>3. FilesInv'
  <2> SUFFICES ASSUME NEW w \in Voters PROVE FilesOf(w)'
    BY DEF FilesInv
  <2>1. FilesOf(w)
    BY DEF RInv, FilesInv
  <2> QED BY <1>1, <2>1, FilesKept DEF Alone
<1>4. ASSUME NEW p \in Voters, p # v, campaign[p].stage = "PREPARE"
      PROVE  NoInstall(campaign[p].ballot)'
  <2>1. NoInstall(campaign[p].ballot) /\ campaign[p].ballot.proposer = p
    BY <1>4, CampaignBallot DEF RInv, PhaseInv, PhaseOf
  <2> QED BY <1>4, <2>1 DEF NoInstall, Alone
<1>5. PhaseInv'
  <2> SUFFICES ASSUME NEW w \in Voters, w # v PROVE PhaseOf(w)'
    BY DEF PhaseInv
  <2>1. PhaseOf(w)
    BY DEF RInv, PhaseInv
  <2> QED BY <1>1, <1>4, <2>1, PhaseKept DEF Alone
<1>6. CASE msgs' = msgs
  <2>1. OneInstall' /\ ExchangeInv'
    BY <1>1, <1>2, <1>6 DEF OneInstall, ExchangeInv
  <2> QED BY <1>3, <1>5, <2>1 DEF RInv
<1>7. CASE \E m \in Messages :
              /\ msgs' = msgs \union {m} /\ ExchangeOf(m)'
              /\ m.type = "INSTALL" => NoInstall(m.ballot) /\ m.ballot.proposer = v
  <2>1. PICK m \in Messages :
              /\ msgs' = msgs \union {m} /\ ExchangeOf(m)'
              /\ m.type = "INSTALL" => NoInstall(m.ballot)
    BY <1>7
  <2>2. \A n \in msgs' : n \in msgs \/ n = m
    BY <2>1
  <2>3. OneInstall'
    BY <1>1, <2>1, <2>2 DEF OneInstall, NoInstall
  <2>4. ExchangeInv'
    BY <1>2, <2>1, <2>2 DEF ExchangeInv
  <2> QED BY <1>3, <1>5, <2>3, <2>4 DEF RInv
<1> QED BY <1>6, <1>7

\* What RInv says of one voter and of one message.
LEMMA RParts ==
  ASSUME RInv
  PROVE  /\ OneInstall /\ FilesInv /\ OriginInv
         /\ \A v \in Voters : FilesOf(v) /\ PhaseOf(v)
         /\ \A m \in msgs : ExchangeOf(m)
  BY DEF RInv, FilesInv, ExchangeInv, PhaseInv

\* What the two bases of a selection carry was accepted by one of their voters.
LEMMA SelectionNext ==
  ASSUME NEW p \in Voters, NEW q \in Voters, NEW B \in Bases, NEW D \in Bases,
         BasisOf(p, B), BasisOf(q, D), TailLow(B), TailLow(D), D.ballot = B.ballot,
         Selection(B, D).next # <<>>
  PROVE  \E w \in Voters, c \in Nat :
           c <= B.ballot.epoch /\ Voted(w, c, Selection(B, D).next)
<1>1. LiveTails(B, D) # {} /\ Selection(B, D).next = Carried(B, D).entry
  BY DEF Selection
<1>2. PICK t : t = Carried(B, D)
  OBVIOUS
<1>3. t \in LiveTails(B, D)
  BY <1>1, <1>2, CarriedHighest
<1>4. (t = B.tail \/ t = D.tail) /\ t.epoch > 0 /\ B.tail \in Tails /\ D.tail \in Tails
  BY <1>3 DEF LiveTails, Bases
<1>5. t.epoch \in Nat /\ t # NoTail /\ t.epoch <= B.ballot.epoch
  BY <1>4 DEF Tails, NoTail, TailLow
<1>6. Voted(p, t.epoch, t.entry) \/ Voted(q, t.epoch, t.entry)
  BY <1>4, <1>5 DEF BasisOf, TailOf
<1> QED BY <1>1, <1>2, <1>5, <1>6

\* A promise touches one voter.
LEMMA PrepareAlone ==
  ASSUME IInv, NEW v \in Voters, NEW b \in Ballots, NEW froze \in BOOLEAN, Prepare(v, b, froze),
         \A w \in Voters : w # v => campaign'[w] = campaign[w], msgs \subseteq msgs'
  PROVE  /\ Alone(v) /\ Calm /\ votes' = votes
         /\ promise'[v] = b /\ promise[v].epoch < b.epoch /\ b.epoch \in Nat
         /\ log'[v] = log[v] /\ tail'[v] = tail[v]
         /\ basis'[v] = IF froze THEN Frozen(v, b) ELSE NoBasis
<1>1. /\ promise'[v] = b /\ b.epoch > promise[v].epoch /\ b.epoch \in Nat
      /\ basis'[v] = (IF froze THEN Frozen(v, b) ELSE NoBasis)
      /\ \A w \in Voters : w # v => promise'[w] = promise[w] /\ basis'[w] = basis[w]
      /\ UNCHANGED <<selected, log, proofEpoch, tail, votes>>
  BY DEF Prepare, IInv, AuthorityTypes, Ballots
<1>2. Alone(v)
  BY <1>1 DEF Alone, Voted
<1>3. promise[v].epoch \in Nat /\ promise'[v] # promise[v]
  BY <1>1, VoterTypes DEF IInv
<1>4. Calm
  BY <1>1, <1>3 DEF Calm
<1> QED BY <1>1, <1>2, <1>3, <1>4

\* A new campaign.
LEMMA BeginCampaignR ==
  ASSUME IInv, IInv', RInv, Grows, NEW v \in Voters, NEW observed \in Epochs \union {1},
         NEW inc \in Incarnations, NEW froze \in BOOLEAN, BeginCampaign(v, observed, inc, froze)
  PROVE  RInv'
<1>1. PICK b : b = [epoch |-> NextEpoch(observed, Rank[v]), proposer |-> v, inc |-> inc]
  OBVIOUS
<1>2. PICK n : n = [type |-> "PREPARE", ballot |-> b]
  OBVIOUS
<1>3. /\ campaign[v] = Idle /\ Prepare(v, b, froze)
      /\ froze => /\ campaign' = [campaign EXCEPT ![v] =
                                    [Idle EXCEPT !.stage = "PREPARE", !.ballot = b]]
                  /\ msgs' = msgs \union {n}
      /\ ~froze => UNCHANGED <<campaign, msgs>>
  BY <1>1, <1>2 DEF BeginCampaign, Send
<1>4. b \in Ballots /\ b.proposer = v /\ Owns(v, b.epoch)
  <2>1. observed \in Nat \ {0}
    BY BoundsAssumption
  <2>2. NextEpoch(observed, Rank[v]) \in Nat /\ Owns(v, NextEpoch(observed, Rank[v]))
    BY <2>1, NextEpochOwned
  <2> QED BY <1>1, <2>2 DEF Ballots, IncarnationsOrNone
<1>5. /\ msgs \subseteq msgs' /\ n \in Messages /\ n.type = "PREPARE"
      /\ \A w \in Voters : w # v => campaign'[w] = campaign[w]
  BY <1>2, <1>3, <1>4 DEF Messages, IInv, AuthorityTypes
<1>6. /\ Alone(v) /\ Calm /\ votes' = votes
      /\ promise'[v] = b /\ promise[v].epoch < b.epoch /\ b.epoch \in Nat
      /\ tail'[v] = tail[v] /\ basis'[v] = IF froze THEN Frozen(v, b) ELSE NoBasis
  BY <1>3, <1>4, <1>5, PrepareAlone
<1>7. FilesOf(v)'
  BY <1>3, <1>4, RParts, FilesPrepare DEF IInv
<1>8. OriginInv'
  BY <1>5, <1>6, RParts, OriginsKept
<1>9. PhaseOf(v)'
  <2>1. CASE ~froze
    BY <1>3, <2>1 DEF PhaseOf, Idle
  <2>2. CASE froze
    <3>1. campaign'[v].stage = "PREPARE" /\ campaign'[v].ballot = b
      <4>1. campaign \in [Voters -> Campaigns]
        BY DEF IInv, AuthorityTypes
      <4>2. campaign'[v] = [Idle EXCEPT !.stage = "PREPARE", !.ballot = b]
        BY <1>3, <2>2, <4>1
      <4> QED BY <4>2 DEF Idle
    <3>2. basis'[v].tail = tail'[v]
      BY <1>6, <2>2 DEF Frozen
    <3>3. ASSUME NEW m \in msgs PROVE m.ballot # b
      <4>1. /\ m.ballot.epoch \in Nat /\ m.ballot.proposer \in Voters
            /\ m.ballot.epoch <= promise[m.ballot.proposer].epoch
        BY Received
      <4> QED BY <1>4, <1>6, <4>1, VoterTypes DEF IInv
    <3>4. NoInstall(b)'
      BY <1>3, <1>5, <2>2, <3>3 DEF NoInstall
    <3> QED BY <3>1, <3>2, <3>4 DEF PhaseOf, NoInstall
  <2> QED BY <2>1, <2>2
<1>10. ExchangeOf(n)'
  BY <1>5 DEF ExchangeOf
<1> QED BY <1>3, <1>5, <1>6, <1>7, <1>8, <1>9, <1>10, RecoveryStep

\* A promise to a peer.
LEMMA HandlePrepareR ==
  ASSUME IInv, IInv', RInv, Grows, NEW v \in Voters, NEW m \in msgs, NEW froze \in BOOLEAN,
         HandlePrepare(v, m, froze)
  PROVE  RInv'
<1>1. PICK n : n = [type |-> "PROMISE", ballot |-> m.ballot, from |-> v,
                    basis |-> Frozen(v, m.ballot)]
  OBVIOUS
<1>2. /\ Prepare(v, m.ballot, froze) /\ campaign' = [campaign EXCEPT ![v] = Idle]
      /\ froze => msgs' = msgs \union {n}
      /\ ~froze => msgs' = msgs
  BY <1>1 DEF HandlePrepare, Send
<1>3. m.ballot \in Ballots
  BY Received
<1>4. /\ msgs \subseteq msgs' /\ campaign'[v] = Idle
      /\ \A w \in Voters : w # v => campaign'[w] = campaign[w]
  BY <1>2 DEF IInv, AuthorityTypes
<1>5. /\ Alone(v) /\ Calm /\ votes' = votes
      /\ promise'[v] = m.ballot /\ promise[v].epoch < m.ballot.epoch /\ m.ballot.epoch \in Nat
      /\ log'[v] = log[v] /\ tail'[v] = tail[v]
      /\ basis'[v] = IF froze THEN Frozen(v, m.ballot) ELSE NoBasis
  BY <1>2, <1>3, <1>4, PrepareAlone
<1>6. FilesOf(v)'
  BY <1>2, <1>3, RParts, FilesPrepare DEF IInv
<1>7. OriginInv'
  BY <1>4, <1>5, RParts, OriginsKept
<1>8. PhaseOf(v)'
  BY <1>4 DEF PhaseOf, Idle
<1>9. Frozen(v, m.ballot) \in Bases
  BY <1>2, <1>3, PrepareTypes DEF IInv
<1>10. n \in Messages /\ n.type = "PROMISE"
  BY <1>1, <1>3, <1>9 DEF Messages
<1>11. ASSUME froze PROVE ExchangeOf(n)'
  <2>1. tail[v].epoch <= promise[v].epoch /\ tail[v].epoch \in Nat /\ promise[v].epoch \in Nat
    BY VoterTypes DEF IInv, VoterInv, VoterOf
  <2>2. TailLow(Frozen(v, m.ballot))
    BY <1>5, <2>1 DEF TailLow, Frozen
  <2>3. basis'[v] = n.basis /\ log'[v] = n.basis.log /\ tail'[v] = n.basis.tail
        /\ n.from = v /\ TailLow(n.basis)
    BY <1>1, <1>5, <1>11, <2>2 DEF Frozen
  <2> QED BY <1>10, <2>3 DEF ExchangeOf, Untouched, TailLow
<1> QED BY <1>2, <1>5, <1>6, <1>7, <1>8, <1>10, <1>11, RecoveryStep

\* A selection touches one voter.
LEMMA SelectAlone ==
  ASSUME IInv, NEW v \in Voters, NEW s \in Selections, NEW adopted \in BOOLEAN,
         SelectAndAdopt(v, s, adopted)
  PROVE  /\ UNCHANGED <<promise, basis, votes>> /\ selected'[v] = s
         /\ \A w \in Voters : w # v =>
              selected'[w] = selected[w] /\ log'[w] = log[w] /\ tail'[w] = tail[w]
         /\ adopted => Extends(log'[v], s.prefix)
<1>1. /\ UNCHANGED <<promise, basis, votes>> /\ selected' = [selected EXCEPT ![v] = s]
      /\ Extends(s.prefix, log[v]) \/ Extends(log[v], s.prefix)
      /\ s.prefix \in Entries /\ log[v] \in Entries
  BY VoterTypes DEF SelectAndAdopt, MaySelect, Selections, IInv
<1>2. selected'[v] = s /\ \A w \in Voters : w # v => selected'[w] = selected[w]
  BY <1>1 DEF IInv, AuthorityTypes
<1>3. CASE adopted /\ Len(s.prefix) > Len(log[v])
  <2>1. /\ log'[v] = s.prefix
        /\ \A w \in Voters : w # v => log'[w] = log[w] /\ tail'[w] = tail[w]
    BY <1>3 DEF SelectAndAdopt, IInv, AuthorityTypes
  <2> QED BY <1>1, <1>2, <2>1, ExtendsSelf
<1>4. CASE ~ (adopted /\ Len(s.prefix) > Len(log[v]))
  <2>1. UNCHANGED <<log, tail>>
    BY <1>4 DEF SelectAndAdopt
  <2>2. adopted => Extends(log[v], s.prefix)
    BY <1>1, <1>4, ExtendsLen, ExtendsSelf
  <2> QED BY <1>1, <1>2, <2>1, <2>2
<1> QED BY <1>3, <1>4

\* A campaign that has not selected yet stands on its own basis.
LEMMA PreparingFacts ==
  ASSUME IInv, NEW v \in Voters, campaign[v].stage = "PREPARE"
  PROVE  /\ campaign[v].ballot.proposer = v /\ basis[v].ballot = campaign[v].ballot
         /\ basis[v].log = log[v] /\ BasisOf(v, basis[v])
<1>1. CampaignOf(v) /\ VoterOf(v)
  BY DEF IInv, CampaignInv, VoterInv
<1> QED BY <1>1 DEF CampaignOf, VoterOf

\* A selection at the proposer.
LEMMA HandlePromiseR ==
  ASSUME IInv, IInv', RInv, Grows, NEW v \in Voters, NEW m \in msgs, NEW adopted \in BOOLEAN,
         HandlePromise(v, m, adopted)
  PROVE  RInv'
<1>0. PICK n : n = [type |-> "INSTALL", ballot |-> m.ballot, to |-> m.from,
                    own |-> basis[v], peer |-> m.basis]
  OBVIOUS
<1>1. PICK s : s = Selection(basis[v], m.basis)
  OBVIOUS
<1>2. /\ m.type = "PROMISE" /\ campaign[v].stage = "PREPARE"
      /\ m.ballot = campaign[v].ballot /\ promise[v] = m.ballot
      /\ BasesAgree(basis[v], m.basis)
      /\ SelectAndAdopt(v, s, adopted)
      /\ adopted => /\ campaign' = [campaign EXCEPT ![v] =
                                       [@ EXCEPT !.stage = "INSTALL", !.peer = m.from]]
                    /\ msgs' = msgs \union {n}
      /\ ~adopted => campaign' = [campaign EXCEPT ![v] = Idle] /\ msgs' = msgs
  BY <1>0, <1>1 DEF HandlePromise, Send
<1>3. /\ m.from \in Voters /\ m.basis \in Bases /\ basis[v] \in Bases
      /\ m.from # m.ballot.proposer /\ m.basis.ballot = m.ballot
      /\ BasisOf(m.from, m.basis) /\ m.ballot \in Ballots /\ m.ballot.epoch \in Nat
  BY <1>2, Received, MessageTypes, VoterTypes DEF MsgFacts, IInv
<1>4. /\ m.ballot.proposer = v /\ basis[v].ballot = m.ballot /\ basis[v].log = log[v]
      /\ BasisOf(v, basis[v])
  BY <1>2, PreparingFacts
<1>5. /\ NoInstall(m.ballot) /\ basis[v].tail = tail[v]
      /\ TailLow(basis[v]) /\ TailLow(m.basis)
      /\ promise[m.from] = m.ballot =>
           basis[m.from] = m.basis /\ Untouched(m.from, m.basis)
  <2>1. PhaseOf(v) /\ FilesOf(v) /\ ExchangeOf(m)
    BY RParts
  <2>2. NoInstall(m.ballot) /\ basis[v].tail = tail[v] /\ TailLow(basis[v])
    BY <1>2, <2>1 DEF PhaseOf, FilesOf
  <2> QED BY <1>2, <2>1, <2>2 DEF ExchangeOf
<1>6. /\ s \in Selections /\ s.ballot = promise[v] /\ s.prefix \in Entries
      /\ ChosenPrefix(s.prefix, s.proofEpoch) /\ basis[v].tail \in s.tails
      /\ Len(log[v]) <= Len(s.prefix) /\ s.proofEpoch <= promise[v].epoch
  <2>1. AuthorityTypes /\ VotesInv /\ ChainInv /\ m.basis.ballot.epoch = basis[v].ballot.epoch
    BY <1>3, <1>4 DEF IInv
  <2>2. /\ ChosenPrefix(s.prefix, s.proofEpoch) /\ s.prefix \in Entries
        /\ s.proofEpoch <= promise[v].epoch
    BY <1>1, <1>2, <1>3, <1>4, <2>1, SelectionSafe
  <2>3. s.ballot = promise[v] /\ basis[v].tail \in s.tails
    BY <1>1, <1>2, <1>4 DEF Selection
  <2>4. Len(log[v]) <= Len(s.prefix)
    BY <1>1, <1>3, <1>4, <2>1, VoterTypes, ExtendsLen DEF Selection, Longest, Bases
  <2> QED BY <1>1, <1>3, <2>2, <2>3, <2>4, SelectionTypes
<1>7. s.next # <<>> => \E w \in Voters, c \in Nat : c <= s.ballot.epoch /\ Voted(w, c, s.next)
  <2>1. s.ballot.epoch = basis[v].ballot.epoch /\ m.basis.ballot = basis[v].ballot
    BY <1>2, <1>3, <1>4, <1>6
  <2> QED BY <1>1, <1>3, <1>4, <1>5, <2>1, SelectionNext
<1>8. /\ UNCHANGED <<promise, basis, votes>> /\ selected'[v] = s
      /\ \A w \in Voters : w # v =>
           selected'[w] = selected[w] /\ log'[w] = log[w] /\ tail'[w] = tail[w]
  BY <1>2, <1>6, SelectAlone
<1>9. FilesOf(v)'
  BY <1>2, <1>5, <1>6, <1>7, RParts, FilesSelect DEF IInv
<1>10. /\ campaign[v] \in Campaigns /\ msgs \subseteq msgs'
       /\ \A w \in Voters : w # v => campaign'[w] = campaign[w]
  BY <1>2 DEF IInv, AuthorityTypes
<1>11. Alone(v) /\ Calm
  BY <1>2, <1>4, <1>8, <1>10 DEF Alone, Calm, Voted
<1>12. OriginInv'
  BY <1>8, <1>10, RParts, OriginsKept
<1>13. CASE ~adopted
  <2>1. campaign'[v] = Idle /\ msgs' = msgs
    BY <1>2, <1>13 DEF IInv, AuthorityTypes
  <2>2. PhaseOf(v)'
    BY <2>1 DEF PhaseOf, Idle
  <2> QED BY <1>9, <1>11, <1>12, <2>1, <2>2, RecoveryStep
<1>14. CASE adopted
  <2>1. campaign'[v] = [campaign[v] EXCEPT !.stage = "INSTALL", !.peer = m.from]
    BY <1>2, <1>14 DEF IInv, AuthorityTypes
  <2>2. /\ campaign'[v].stage = "INSTALL" /\ campaign'[v].peer = m.from
        /\ campaign'[v].ballot = m.ballot
    BY <1>2, <1>10, <2>1 DEF Campaigns
  <2>3. msgs' = msgs \union {n} /\ n.type = "INSTALL" /\ n.ballot = m.ballot /\ n.to = m.from
        /\ Sel(n) = s /\ n.own = basis[v] /\ n.peer = m.basis
    BY <1>0, <1>1, <1>2, <1>14 DEF Sel
  <2>4. log'[v] = s.prefix
    <3>1. AuthorityTypes /\ VoteInvs
      BY DEF IInv, VoteInvs
    <3> QED BY <1>2, <1>6, <1>14, <3>1, SelectStep
  <2>5. PhaseOf(v)'
    BY <1>8, <2>2, <2>3, <2>4 DEF PhaseOf, InstallOf, Sel
  <2>6. n \in Messages
    BY <1>0, <1>3 DEF Messages
  <2>7. ExchangeOf(n)'
    BY <1>3, <1>4, <1>5, <1>8, <2>3 DEF ExchangeOf, Untouched, TailLow, Sel
  <2> QED BY <1>4, <1>5, <1>9, <1>11, <1>12, <2>3, <2>5, <2>6, <2>7, RecoveryStep
<1> QED BY <1>13, <1>14

\* A selection at the quorum peer.
LEMMA HandleInstallR ==
  ASSUME IInv, IInv', RInv, Grows, NEW v \in Voters, NEW m \in msgs, NEW adopted \in BOOLEAN,
         HandleInstall(v, m, adopted)
  PROVE  RInv'
<1>0. PICK n : n = [type |-> "INSTALLED", ballot |-> m.ballot, from |-> v]
  OBVIOUS
<1>1. PICK s : s = Sel(m)
  OBVIOUS
<1>2. /\ m.type = "INSTALL" /\ m.to = v /\ promise[v] = m.ballot
      /\ BasesAgree(m.own, m.peer) /\ SelectAndAdopt(v, s, adopted)
      /\ adopted => msgs' = msgs \union {n}
      /\ ~adopted => msgs' = msgs
      /\ campaign' = campaign
  BY <1>0, <1>1 DEF HandleInstall, Send, Sel
<1>3. /\ m.own \in Bases /\ m.peer \in Bases /\ m.ballot.proposer \in Voters
      /\ v # m.ballot.proposer /\ m.own.ballot = m.ballot /\ m.peer.ballot = m.ballot
      /\ BasisOf(m.ballot.proposer, m.own) /\ BasisOf(v, m.peer) /\ m.ballot \in Ballots
      /\ s \in Selections /\ s.prefix \in Entries /\ s.ballot = m.ballot
  BY <1>1, <1>2, InstallFacts
<1>4. /\ TailLow(m.own) /\ TailLow(m.peer)
      /\ selected[v] = s \/ Untouched(v, m.peer)
  BY <1>1, <1>2, RParts DEF ExchangeOf
<1>5. ChosenPrefix(s.prefix, s.proofEpoch) /\ m.peer.tail \in s.tails
  <2>1. AuthorityTypes /\ VotesInv /\ ChainInv /\ m.peer.ballot.epoch = m.own.ballot.epoch
    BY <1>3 DEF IInv
  <2>2. ChosenPrefix(s.prefix, s.proofEpoch)
    BY <1>1, <1>2, <1>3, <2>1, SelectionSafe DEF Sel
  <2> QED BY <1>1, <2>2 DEF Sel, Selection
<1>6. s.next # <<>> => \E w \in Voters, c \in Nat : c <= s.ballot.epoch /\ Voted(w, c, s.next)
  <2>1. s.ballot.epoch = m.own.ballot.epoch /\ m.peer.ballot = m.own.ballot
    BY <1>3
  <2> QED BY <1>1, <1>3, <1>4, <2>1, SelectionNext DEF Sel
<1>7. /\ UNCHANGED <<promise, basis, votes>> /\ selected'[v] = s
      /\ \A w \in Voters : w # v =>
           selected'[w] = selected[w] /\ log'[w] = log[w] /\ tail'[w] = tail[w]
      /\ adopted => Extends(log'[v], s.prefix)
  BY <1>2, <1>3, SelectAlone
<1>8. FilesOf(v)'
  <2>1. selected[v] = s \/ tail[v] \in s.tails
    BY <1>4, <1>5 DEF Untouched
  <2> QED BY <1>2, <1>3, <1>5, <1>6, <2>1, RParts, FilesSelect DEF IInv
<1>9. msgs \subseteq msgs'
  BY <1>2
<1>10. Touched(v)
  BY <1>1, <1>2, <1>7 DEF Touched, InstallOf
<1>11. Alone(v) /\ Calm
  BY <1>2, <1>7, <1>9, <1>10 DEF Alone, Calm, Voted
<1>12. OriginInv'
  BY <1>7, <1>9, RParts, OriginsKept
<1>13. PhaseOf(v)'
  BY <1>2, <1>3, FollowerIsIdle DEF PhaseOf
<1>14. n \in Messages /\ n.type = "INSTALLED"
  BY <1>0, <1>3 DEF Messages
<1>15. adopted => ExchangeOf(n)'
  <2> SUFFICES ASSUME adopted PROVE Recovered(m.ballot, v)'
    BY <1>0, <1>14 DEF ExchangeOf
  <2>1. InstalledAt(m)'
    BY <1>1, <1>2, <1>7 DEF InstalledAt, Sel
  <2> QED BY <1>2, <1>9, <2>1 DEF Recovered, InstallOf
<1> QED BY <1>2, <1>8, <1>11, <1>12, <1>13, <1>14, <1>15, RecoveryStep

\* A proposal, once the quorum peer holds the proposer's prefix.
LEMMA CommitR ==
  ASSUME IInv, IInv', RInv, Grows, NEW v \in Voters,
         campaign[v].stage \notin {"IDLE", "PREPARE"},
         NEW e \in Entries, NEW activating \in BOOLEAN, Commit(v, e, activating),
         Recovered(campaign[v].ballot, campaign[v].peer),
         Len(log[v]) <= Len(log[campaign[v].peer]),
         OriginOf(campaign[v].ballot.epoch, e)
  PROVE  RInv'
<1>0. PICK b, q : b = campaign[v].ballot /\ q = campaign[v].peer
  OBVIOUS
<1>1. PICK n : n = [type |-> "ACCEPT", ballot |-> b, to |-> q, entry |-> e]
  OBVIOUS
<1>2. /\ Accept(v, b, e) /\ msgs' = msgs \union {n}
      /\ campaign' = [campaign EXCEPT ![v] =
           [@ EXCEPT !.stage = "ACCEPT", !.entry = e, !.activating = activating]]
  BY <1>0, <1>1 DEF Commit, Send
<1>3. /\ b \in Ballots /\ b.epoch \in Nat /\ b.proposer = v /\ promise[v] = b
      /\ q \in Voters \ {v} /\ selected[v].ballot = b /\ Extends(log[v], selected[v].prefix)
  BY <1>0, CampaignBallot DEF IInv, CampaignInv, CampaignOf
<1>4. /\ MayAccept(v, b, e) /\ UNCHANGED <<promise, basis, selected, log>>
      /\ votes' = votes \union {<<v, b.epoch, e>>}
      /\ \A w \in Voters : w # v => tail'[w] = tail[w]
  BY <1>2 DEF Accept, IInv, AuthorityTypes
<1>5. FilesOf(v)'
  BY <1>2, <1>3, RParts, FilesAccept
<1>6. /\ campaign'[v] = [campaign[v] EXCEPT !.stage = "ACCEPT", !.entry = e,
                                           !.activating = activating]
      /\ \A w \in Voters : w # v => campaign'[w] = campaign[w]
      /\ campaign[v] \in Campaigns /\ msgs \subseteq msgs'
  BY <1>2 DEF IInv, AuthorityTypes
<1>7. /\ campaign'[v].stage = "ACCEPT" /\ campaign'[v].ballot = b /\ campaign'[v].peer = q
  BY <1>0, <1>6 DEF Campaigns
<1>8. Alone(v) /\ Calm
  BY <1>3, <1>4, <1>6 DEF Alone, Calm, Voted
<1>9. OriginInv'
  BY <1>0, <1>4, <1>6, RParts, OriginsGrow
<1>10. PICK k \in msgs : InstallOf(k, b) /\ k.to = q /\ InstalledAt(k)
  BY <1>0 DEF Recovered
<1>11. selected[v] = Sel(k)
  <2>1. PICK l \in msgs : InstallOf(l, b) /\ selected[v] = Sel(l)
    BY <1>0, RParts DEF PhaseOf
  <2> QED BY <1>10, <2>1, RParts DEF OneInstall, InstallOf
<1>12. InstalledAt(k)'
  <2>1. log'[k.to] \in Entries /\ k.type = "INSTALL"
    BY <1>3, <1>10 DEF IInv, AuthorityTypes, InstallOf
  <2> QED BY <1>8, <1>10, <2>1, RParts, InstalledGrows
<1>13. Obeys(Sel(k), b, e)
  BY <1>3, <1>4, <1>11 DEF MayAccept, SelectedSlot, SelectedValue, Obeys
<1>14. InstallOf(k, b)' /\ k \in msgs'
  BY <1>6, <1>10 DEF InstallOf
<1>15. PhaseOf(v)'
  <2>1. Recovered(b, q)'
    BY <1>10, <1>12, <1>14 DEF Recovered
  <2> QED BY <1>4, <1>7, <1>10, <1>11, <1>14, <2>1 DEF PhaseOf, Sel
<1>16. n \in Messages /\ n.type = "ACCEPT"
  BY <1>1, <1>3 DEF Messages
<1>17. ExchangeOf(n)'
  <2>1. Len(e) = Len(log[v]) + 1 /\ log[v] \in Entries /\ log[q] \in Entries
    BY <1>3, <1>4, VoterTypes DEF MayAccept, IInv
  <2>2. Len(e) <= Len(log'[q]) + 1
    BY <1>0, <1>4, <2>1, ExtendsLen
  <2>3. n.ballot = b /\ n.to = q /\ n.entry = e
    BY <1>1
  <2> QED BY <1>10, <1>12, <1>13, <1>14, <1>16, <2>2, <2>3 DEF ExchangeOf, Sel, Obeys
<1> QED BY <1>2, <1>5, <1>8, <1>9, <1>15, <1>16, <1>17, RecoveryStep

\* The first proposal of a campaign.
LEMMA HandleInstalledR ==
  ASSUME IInv, IInv', RInv, Grows, NEW v \in Voters, NEW m \in msgs, HandleInstalled(v, m)
  PROVE  RInv'
<1>1. PICK e : e = IF selected[v].next = <<>> THEN Fresh(v, NoOp) ELSE selected[v].next
  OBVIOUS
<1>2. AuthorityTypes /\ e \in Entries
  BY <1>1, FreshTypes DEF IInv, AuthorityTypes, Selections
<1>3. /\ m.type = "INSTALLED" /\ campaign[v].stage = "INSTALL"
      /\ m.ballot = campaign[v].ballot /\ m.from = campaign[v].peer /\ Commit(v, e, TRUE)
  BY <1>1 DEF HandleInstalled
<1>4. Recovered(campaign[v].ballot, campaign[v].peer)
  BY <1>3, RParts DEF ExchangeOf
<1>5. PICK k \in msgs : /\ InstallOf(k, campaign[v].ballot) /\ k.to = campaign[v].peer
                        /\ InstalledAt(k)
  BY <1>4 DEF Recovered
<1>6. PICK l \in msgs : InstallOf(l, campaign[v].ballot) /\ selected[v] = Sel(l)
  BY <1>3, RParts DEF PhaseOf
<1>7. k = l
  BY <1>5, <1>6, RParts DEF OneInstall, InstallOf
<1>8. log[v] = Sel(k).prefix /\ k.to \in Voters /\ Sel(k).prefix \in Entries
  <2>1. log[v] = selected[v].prefix
    BY <1>3, RParts DEF PhaseOf
  <2> QED BY <1>5, <1>6, <1>7, <2>1, InstallFacts DEF InstallOf
<1>9. Len(log[v]) <= Len(log[campaign[v].peer])
  BY <1>2, <1>5, <1>8, VoterTypes, ExtendsLen DEF InstalledAt
<1>10. OriginOf(campaign[v].ballot.epoch, e)
  <2>1. CASE selected[v].next = <<>>
    BY <1>1, <1>3, <2>1, RParts, FreshOrigin
  <2>2. CASE selected[v].next # <<>>
    <3>1. selected[v].ballot = campaign[v].ballot
      <4>1. CampaignOf(v)
        BY DEF IInv, CampaignInv
      <4> QED BY <1>3, <4>1 DEF CampaignOf
    <3> QED BY <1>1, <2>2, <3>1, RParts, CarriedOrigin
  <2> QED BY <2>1, <2>2
<1> QED BY <1>2, <1>3, <1>4, <1>9, <1>10, CommitR

\* A client's proposal.
LEMMA SubmitR ==
  ASSUME IInv, IInv', RInv, Grows, NEW v \in Voters, NEW op \in Ops, Submit(v, op)
  PROVE  RInv'
<1>1. PICK e : e = Fresh(v, op)
  OBVIOUS
<1>2. AuthorityTypes /\ e \in Entries
  BY <1>1, FreshTypes DEF IInv
<1>3. campaign[v].stage = "READY" /\ Commit(v, e, FALSE)
  BY <1>1 DEF Submit
<1>4. /\ Recovered(campaign[v].ballot, campaign[v].peer)
      /\ Extends(log[campaign[v].peer], log[v])
  BY <1>3, RParts DEF PhaseOf
<1>5. Len(log[v]) <= Len(log[campaign[v].peer])
  BY <1>4 DEF Extends
<1>6. OriginOf(campaign[v].ballot.epoch, e)
  BY <1>1, <1>3, RParts, FreshOrigin
<1> QED BY <1>2, <1>3, <1>4, <1>5, <1>6, CommitR

\* The proposer has proven its entry, and so has its peer.
LEMMA ProvedFacts ==
  ASSUME IInv, RInv, NEW v \in Voters, NEW m \in msgs, Proved(v, m)
  PROVE  /\ campaign[v].stage = "PROOF"
         /\ Recovered(campaign[v].ballot, campaign[v].peer)
         /\ Extends(log[campaign[v].peer], log[v])
<1>1. /\ m.type = "PROVEN" /\ campaign[v].stage = "PROOF"
      /\ m.from = campaign[v].peer /\ m.entry = campaign[v].entry
  BY DEF Proved
<1>2. campaign[v].entry = log[v] /\ Recovered(campaign[v].ballot, campaign[v].peer)
  BY <1>1, RParts DEF PhaseOf
<1>3. Extends(log[m.from], m.entry)
  BY <1>1, RParts DEF ExchangeOf
<1> QED BY <1>1, <1>2, <1>3

\* The NOOP after a carried entry.
LEMMA HandleProvenCarriedR ==
  ASSUME IInv, IInv', RInv, Grows, NEW v \in Voters, NEW m \in msgs, HandleProvenCarried(v, m)
  PROVE  RInv'
<1>1. PICK e : e = Fresh(v, NoOp)
  OBVIOUS
<1>2. AuthorityTypes /\ e \in Entries
  BY <1>1, FreshTypes DEF IInv
<1>3. Proved(v, m) /\ Commit(v, e, TRUE)
  BY <1>1 DEF HandleProvenCarried
<1>4. /\ campaign[v].stage = "PROOF" /\ Recovered(campaign[v].ballot, campaign[v].peer)
      /\ Extends(log[campaign[v].peer], log[v])
  BY <1>3, ProvedFacts
<1>5. Len(log[v]) <= Len(log[campaign[v].peer])
  BY <1>4 DEF Extends
<1>6. OriginOf(campaign[v].ballot.epoch, e)
  BY <1>1, <1>4, RParts, FreshOrigin
<1> QED BY <1>2, <1>3, <1>4, <1>5, <1>6, CommitR

\* A leader becomes ready.
LEMMA HandleProvenR ==
  ASSUME IInv, IInv', RInv, Grows, NEW v \in Voters, NEW m \in msgs, HandleProven(v, m)
  PROVE  RInv'
<1>0. PICK b, q : b = campaign[v].ballot /\ q = campaign[v].peer
  OBVIOUS
<1>1. /\ Proved(v, m) /\ UNCHANGED <<promise, basis, selected, log, proofEpoch, tail, msgs, votes>>
      /\ campaign' = [campaign EXCEPT ![v] =
           [@ EXCEPT !.stage = "READY", !.entry = <<>>, !.activating = FALSE]]
  BY DEF HandleProven, durable
<1>2. campaign[v].stage = "PROOF" /\ Recovered(b, q) /\ Extends(log[q], log[v])
  BY <1>0, <1>1, ProvedFacts
<1>3. /\ campaign'[v] = [campaign[v] EXCEPT !.stage = "READY", !.entry = <<>>,
                                           !.activating = FALSE]
      /\ \A w \in Voters : w # v => campaign'[w] = campaign[w]
      /\ campaign[v] \in Campaigns
  BY <1>1 DEF IInv, AuthorityTypes
<1>4. campaign'[v].stage = "READY" /\ campaign'[v].ballot = b /\ campaign'[v].peer = q
  BY <1>0, <1>3 DEF Campaigns
<1>5. Alone(v) /\ Calm
  BY <1>1, <1>3 DEF Alone, Calm, Voted
<1>6. FilesOf(v)'
  BY <1>1, RParts, FilesKept DEF IInv, Voted
<1>7. OriginInv'
  BY <1>1, RParts, OriginsKept
<1>8. PhaseOf(v)'
  <2>1. PICK n \in msgs : InstallOf(n, b) /\ n.to = q /\ selected[v] = Sel(n)
    BY <1>0, <1>2, RParts DEF PhaseOf
  <2>2. n \in msgs' /\ InstallOf(n, b)'
    BY <1>1, <2>1 DEF InstallOf
  <2>3. AuthorityTypes' /\ OneInstall
    BY DEF IInv, RInv
  <2>4. Recovered(b, q)'
    BY <1>2, <1>5, <2>3, RecoveredGrows
  <2> QED BY <1>1, <1>2, <1>4, <2>1, <2>2, <2>4 DEF PhaseOf, Sel
<1> QED BY <1>1, <1>5, <1>6, <1>7, <1>8, RecoveryStep

\* A follower that an INSTALL of its promise named has made its selection, so
\* its files may change.
LEMMA RecoveredTouched ==
  ASSUME NEW w \in Voters, NEW v \in Voters, Recovered(promise[v], w), selected'[v] = selected[v]
  PROVE  Touched(v)
<1>1. PICK n \in msgs : InstallOf(n, promise[v]) /\ n.to = w /\ InstalledAt(n)
  BY DEF Recovered
<1>2. n.ballot = promise[v]
  BY <1>1 DEF InstallOf
<1>3. n.to = v => selected[v] = Sel(n)
  BY <1>1, <1>2 DEF InstalledAt
<1> QED BY <1>1, <1>3 DEF Touched

\* An acceptance at the quorum peer.
LEMMA HandleAcceptR ==
  ASSUME IInv, IInv', RInv, Grows, NEW v \in Voters, NEW m \in msgs, HandleAccept(v, m)
  PROVE  RInv'
<1>0. PICK b, e : b = m.ballot /\ e = m.entry
  OBVIOUS
<1>1. PICK n : n = [type |-> "ACCEPTED", ballot |-> b, from |-> v, entry |-> e]
  OBVIOUS
<1>2. /\ m.type = "ACCEPT" /\ m.to = v /\ Accept(v, b, e)
      /\ msgs' = msgs \union {n} /\ campaign' = campaign
  BY <1>0, <1>1 DEF HandleAccept, Send
<1>3. /\ b \in Ballots /\ b.epoch \in Nat /\ e \in Entries /\ b.proposer \in Voters
      /\ v # b.proposer /\ Voted(b.proposer, b.epoch, e)
  BY <1>0, <1>2, Received, MessageTypes DEF MsgFacts
<1>4. /\ promise[v] = b /\ UNCHANGED <<promise, basis, selected, log>>
      /\ votes' = votes \union {<<v, b.epoch, e>>}
      /\ \A w \in Voters : w # v => tail'[w] = tail[w]
  BY <1>2 DEF Accept, MayAccept, IInv, AuthorityTypes
<1>5. PICK k \in msgs : InstallOf(k, b) /\ k.to = v /\ InstalledAt(k)
  BY <1>0, <1>2, RParts DEF ExchangeOf
<1>6. selected[v] = Sel(k) /\ Extends(log[v], Sel(k).prefix) /\ Sel(k).ballot = b
  <2>1. k.type = "INSTALL" /\ k.ballot = b
    BY <1>5 DEF InstallOf
  <2> QED BY <1>4, <1>5, <2>1, InstallFacts DEF InstalledAt
<1>7. FilesOf(v)'
  BY <1>2, <1>3, <1>6, RParts, FilesAccept
<1>8. Touched(v)
  BY <1>4, <1>5, <1>6 DEF Touched
<1>9. Alone(v) /\ Calm
  BY <1>2, <1>4, <1>8 DEF Alone, Calm, Voted
<1>10. OriginInv'
  <2>1. OriginOf(b.epoch, e)
    BY <1>3, RParts DEF OriginInv
  <2> QED BY <1>2, <1>4, <2>1, RParts, OriginsGrow
<1>11. PhaseOf(v)'
  BY <1>2, <1>3, <1>4, FollowerIsIdle DEF PhaseOf
<1>12. n \in Messages /\ n.type = "ACCEPTED"
  BY <1>1, <1>3 DEF Messages
<1>13. ExchangeOf(n)'
  BY <1>12 DEF ExchangeOf
<1> QED BY <1>2, <1>7, <1>9, <1>10, <1>11, <1>12, <1>13, RecoveryStep

\* A proof covers the acceptance it proves.
LEMMA ProveFiles ==
  ASSUME IInv, IInv', RInv, Grows, NEW v \in Voters, NEW b \in Ballots, NEW e \in Entries,
         Prove(v, b, e)
  PROVE  /\ FilesOf(v)' /\ log'[v] = e /\ promise[v] = b
         /\ UNCHANGED <<promise, basis, selected, votes>>
         /\ \A w \in Voters : w # v => log'[w] = log[w] /\ tail'[w] = tail[w]
<1>1. /\ promise[v] = b /\ tail[v] = [epoch |-> b.epoch, entry |-> e]
      /\ log'[v] = e /\ tail'[v] = NoTail
      /\ UNCHANGED <<promise, basis, selected, votes>>
      /\ \A w \in Voters : w # v => log'[w] = log[w] /\ tail'[w] = tail[w]
  BY DEF Prove, MayProve, IInv, AuthorityTypes
<1>2. VoterOf(v) /\ AuthorityTypes /\ AuthorityTypes'
  BY DEF IInv, VoterInv
<1>3. tail[v] # NoTail /\ tail[v].entry = e
  BY <1>1, <1>2 DEF NoTail, VoterOf
<1>4. Len(e) = Len(log[v]) + 1 /\ Len(log[v]) \in Nat
  BY <1>2, <1>3, VoterTypes, ExtendsLen DEF VoterOf, TailOf
<1>5. FilesOf(v)'
  BY <1>1, <1>2, <1>4, RParts, FilesCut
<1> QED BY <1>1, <1>5

\* A proof at the proposer.
LEMMA HandleAcceptedR ==
  ASSUME IInv, IInv', RInv, Grows, NEW v \in Voters, NEW m \in msgs, HandleAccepted(v, m)
  PROVE  RInv'
<1>0. PICK b, q, e : b = m.ballot /\ q = m.from /\ e = m.entry
  OBVIOUS
<1>1. PICK n : n = [type |-> "PROOF", ballot |-> b, to |-> q, entry |-> e]
  OBVIOUS
<1>2. /\ m.type = "ACCEPTED" /\ campaign[v].stage = "ACCEPT" /\ b = campaign[v].ballot
      /\ q = campaign[v].peer /\ e = campaign[v].entry /\ Prove(v, b, e)
      /\ campaign' = [campaign EXCEPT ![v] = [@ EXCEPT !.stage = "PROOF"]]
      /\ msgs' = msgs \union {n}
  BY <1>0, <1>1 DEF HandleAccepted, Send
<1>3. /\ b \in Ballots /\ b.epoch \in Nat /\ q \in Voters /\ e \in Entries
      /\ Voted(q, b.epoch, e) /\ b.proposer = v
  BY <1>0, <1>2, Received, MessageTypes, CampaignBallot DEF MsgFacts
<1>4. /\ FilesOf(v)' /\ log'[v] = e /\ promise[v] = b
      /\ UNCHANGED <<promise, basis, selected, votes>>
      /\ \A w \in Voters : w # v => log'[w] = log[w] /\ tail'[w] = tail[w]
  BY <1>2, <1>3, ProveFiles
<1>5. /\ campaign'[v] = [campaign[v] EXCEPT !.stage = "PROOF"]
      /\ \A w \in Voters : w # v => campaign'[w] = campaign[w]
      /\ campaign[v] \in Campaigns /\ msgs \subseteq msgs'
  BY <1>2 DEF IInv, AuthorityTypes
<1>6. /\ campaign'[v].stage = "PROOF" /\ campaign'[v].ballot = b /\ campaign'[v].peer = q
      /\ campaign'[v].entry = e
  BY <1>2, <1>5 DEF Campaigns
<1>7. Alone(v) /\ Calm
  BY <1>3, <1>4, <1>5 DEF Alone, Calm, Voted
<1>8. OriginInv'
  BY <1>4, <1>5, RParts, OriginsKept
<1>9. Recovered(b, q)'
  <2>1. Recovered(b, q) /\ OneInstall
    BY <1>2, RParts DEF PhaseOf
  <2>2. AuthorityTypes'
    BY DEF IInv
  <2> QED BY <1>7, <2>1, <2>2, RecoveredGrows
<1>10. PhaseOf(v)'
  <2>1. PICK k \in msgs : InstallOf(k, b) /\ k.to = q /\ selected[v] = Sel(k)
    BY <1>2, RParts DEF PhaseOf
  <2>2. k \in msgs' /\ InstallOf(k, b)'
    BY <1>5, <2>1 DEF InstallOf
  <2> QED BY <1>4, <1>6, <1>9, <2>1, <2>2 DEF PhaseOf, Sel
<1>11. n \in Messages /\ n.type = "PROOF"
  BY <1>1, <1>3 DEF Messages
<1>12. ExchangeOf(n)'
  <2>1. n.ballot = b /\ n.to = q /\ n.entry = e
    BY <1>1
  <2>2. Voted(q, b.epoch, e)'
    BY <1>3, VotedGrows
  <2> QED BY <1>9, <1>11, <2>1, <2>2 DEF ExchangeOf
<1> QED BY <1>2, <1>4, <1>7, <1>8, <1>10, <1>11, <1>12, RecoveryStep

\* A proof at the quorum peer.
LEMMA HandleProofR ==
  ASSUME IInv, IInv', RInv, Grows, NEW v \in Voters, NEW m \in msgs, HandleProof(v, m)
  PROVE  RInv'
<1>0. PICK b, e : b = m.ballot /\ e = m.entry
  OBVIOUS
<1>1. PICK n : n = [type |-> "PROVEN", ballot |-> b, from |-> v, entry |-> e]
  OBVIOUS
<1>2. /\ m.type = "PROOF" /\ m.to = v /\ Prove(v, b, e)
      /\ msgs' = msgs \union {n} /\ campaign' = campaign
  BY <1>0, <1>1 DEF HandleProof, Send
<1>3. b \in Ballots /\ e \in Entries /\ v # b.proposer
  BY <1>0, <1>2, Received, MessageTypes DEF MsgFacts
<1>4. /\ FilesOf(v)' /\ log'[v] = e /\ promise[v] = b
      /\ UNCHANGED <<promise, basis, selected, votes>>
      /\ \A w \in Voters : w # v => log'[w] = log[w] /\ tail'[w] = tail[w]
  BY <1>2, <1>3, ProveFiles
<1>5. Recovered(b, v)
  BY <1>0, <1>2, RParts DEF ExchangeOf
<1>6. Touched(v)
  BY <1>4, <1>5, RecoveredTouched
<1>7. Alone(v) /\ Calm
  BY <1>2, <1>4, <1>6 DEF Alone, Calm, Voted
<1>8. OriginInv'
  BY <1>2, <1>4, RParts, OriginsKept
<1>9. PhaseOf(v)'
  BY <1>2, <1>3, <1>4, FollowerIsIdle DEF PhaseOf
<1>10. n \in Messages /\ n.type = "PROVEN" /\ n.from = v /\ n.entry = e
  BY <1>1, <1>3 DEF Messages
<1>11. ExchangeOf(n)'
  BY <1>3, <1>4, <1>10, ExtendsSelf DEF ExchangeOf
<1> QED BY <1>2, <1>4, <1>7, <1>8, <1>9, <1>10, <1>11, RecoveryStep

\* A step that leaves the files and the votes alone.
LEMMA QuietStep ==
  ASSUME IInv, IInv', RInv, Grows, NEW v \in Voters,
         UNCHANGED <<promise, basis, selected, log, proofEpoch, tail, votes>>,
         msgs \subseteq msgs', \A w \in Voters : w # v => campaign'[w] = campaign[w]
  PROVE  FilesOf(v)' /\ Alone(v) /\ Calm /\ OriginInv'
<1>1. Alone(v) /\ Calm
  BY DEF Alone, Calm, Voted
<1>2. FilesOf(v)'
  BY RParts, FilesKept DEF IInv, Voted
<1> QED BY <1>1, <1>2, RParts, OriginsKept

\* A snapshot on offer.
LEMMA OfferSnapshotR ==
  ASSUME IInv, IInv', RInv, Grows, NEW v \in Voters, OfferSnapshot(v)
  PROVE  RInv'
<1>0. PICK b, q : b = promise[v] /\ q = campaign[v].peer
  OBVIOUS
<1>1. PICK n : n = [type |-> "SNAPSHOT", ballot |-> b, log |-> log[v], proofEpoch |-> proofEpoch[v]]
  OBVIOUS
<1>2. /\ campaign[v].stage = "READY" /\ msgs' = msgs \union {n} /\ campaign' = campaign
      /\ UNCHANGED <<promise, basis, selected, log, proofEpoch, tail, votes>>
  BY <1>0, <1>1 DEF OfferSnapshot, Send, durable
<1>3. FilesOf(v)' /\ Alone(v) /\ Calm /\ OriginInv'
  BY <1>2, QuietStep
<1>4. AuthorityTypes' /\ OneInstall /\ PhaseOf(v)
  BY RParts DEF IInv
<1>5. PhaseOf(v)'
  BY <1>2, <1>3, <1>4, PhaseKept
<1>6. /\ b \in Ballots /\ log[v] \in Entries /\ proofEpoch[v] \in Nat
      /\ proofEpoch[v] <= b.epoch /\ b = campaign[v].ballot /\ q \in Voters
  BY <1>0, <1>2, VoterTypes, CampaignBallot DEF IInv, VoterInv, VoterOf, CampaignInv, CampaignOf
<1>7. n \in Messages /\ n.type = "SNAPSHOT" /\ n.ballot = b /\ n.proofEpoch = proofEpoch[v]
  BY <1>1, <1>6 DEF Messages
<1>8. Recovered(b, q)'
  <2>1. Recovered(b, q)
    BY <1>0, <1>2, <1>4, <1>6 DEF PhaseOf
  <2> QED BY <1>3, <1>4, <2>1, RecoveredGrows
<1>9. ExchangeOf(n)'
  BY <1>6, <1>7, <1>8 DEF ExchangeOf
<1> QED BY <1>2, <1>3, <1>5, <1>7, <1>9, RecoveryStep

\* A snapshot at a follower.
LEMMA HandleSnapshotR ==
  ASSUME IInv, IInv', RInv, Grows, NEW v \in Voters, NEW m \in msgs, HandleSnapshot(v, m)
  PROVE  RInv'
<1>1. /\ m.type = "SNAPSHOT" /\ m.ballot.proposer # v /\ promise[v] = m.ballot
      /\ Len(m.log) >= Len(log[v]) /\ (tail[v] = NoTail \/ Len(tail[v].entry) <= Len(m.log))
      /\ log'[v] = m.log /\ tail'[v] = NoTail
      /\ \A w \in Voters : w # v => log'[w] = log[w] /\ tail'[w] = tail[w]
      /\ UNCHANGED <<promise, basis, selected, votes, campaign, msgs>>
  BY DEF HandleSnapshot, InstallProven, MayInstallProven, IInv, AuthorityTypes
<1>2. VoterOf(v) /\ AuthorityTypes /\ AuthorityTypes'
  BY DEF IInv, VoterInv
<1>3. tail[v] = NoTail \/ Len(log'[v]) >= Len(log[v]) + 1
  BY <1>1, <1>2 DEF VoterOf, TailOf
<1>4. FilesOf(v)'
  BY <1>1, <1>2, <1>3, RParts, FilesCut
<1>5. PICK w \in Voters : Recovered(promise[v], w)
  BY <1>1, RParts DEF ExchangeOf
<1>6. Touched(v)
  BY <1>1, <1>5, RecoveredTouched
<1>7. Alone(v) /\ Calm
  BY <1>1, <1>6 DEF Alone, Calm, Voted
<1>8. OriginInv'
  BY <1>1, RParts, OriginsKept
<1>9. PhaseOf(v)'
  BY <1>1, FollowerIsIdle DEF PhaseOf
<1> QED BY <1>1, <1>4, <1>7, <1>8, <1>9, RecoveryStep

\* The end of a campaign.
LEMMA AbandonR ==
  ASSUME IInv, IInv', RInv, Grows, NEW v \in Voters, Abandon(v)
  PROVE  RInv'
<1>1. /\ campaign'[v] = Idle /\ \A w \in Voters : w # v => campaign'[w] = campaign[w]
      /\ UNCHANGED <<promise, basis, selected, log, proofEpoch, tail, votes, msgs>>
  BY DEF Abandon, durable, IInv, AuthorityTypes
<1>2. FilesOf(v)' /\ Alone(v) /\ Calm /\ OriginInv'
  BY <1>1, QuietStep
<1>3. PhaseOf(v)'
  BY <1>1 DEF PhaseOf, Idle
<1> QED BY <1>1, <1>2, <1>3, RecoveryStep

\* A step that changes nothing.
LEMMA StutteringR ==
  ASSUME IInv, IInv', RInv, Grows, UNCHANGED vars
  PROVE  RInv'
<1>1. PICK v \in Voters : TRUE
  BY VotersAssumption
<1>2. /\ UNCHANGED <<promise, basis, selected, log, proofEpoch, tail, votes, msgs>>
      /\ campaign' = campaign
  BY DEF vars
<1>3. FilesOf(v)' /\ Alone(v) /\ Calm /\ OriginInv'
  BY <1>2, QuietStep
<1>4. AuthorityTypes' /\ OneInstall /\ PhaseOf(v)
  BY RParts DEF IInv
<1>5. PhaseOf(v)'
  <2>1. campaign[v].stage = "PREPARE" => NoInstall(campaign[v].ballot)'
    BY <1>2, <1>4 DEF PhaseOf, NoInstall
  <2> QED BY <1>2, <1>3, <1>4, <2>1, PhaseKept
<1> QED BY <1>2, <1>3, <1>5, RecoveryStep

\* A voter that is quarantined or started again.
LEMMA HaltedR ==
  ASSUME IInv, IInv', RInv, Grows, NEW v \in Voters, Halted(v)
  PROVE  RInv'
<1>1. /\ \A w \in Voters : w # v => campaign'[w] = campaign[w]
      /\ campaign'[v] = campaign[v] \/ campaign'[v] = Idle
      /\ UNCHANGED <<promise, basis, selected, log, proofEpoch, tail, votes, msgs>>
  BY DEF Halted, durable, IInv, AuthorityTypes
<1>2. FilesOf(v)' /\ Alone(v) /\ Calm /\ OriginInv'
  BY <1>1, QuietStep
<1>3. PhaseOf(v)'
  <2>1. CASE campaign'[v] = Idle
    BY <2>1 DEF PhaseOf, Idle
  <2>2. CASE campaign'[v] = campaign[v]
    <3>1. AuthorityTypes' /\ OneInstall /\ PhaseOf(v)
      BY RParts DEF IInv
    <3>2. campaign[v].stage = "PREPARE" => NoInstall(campaign[v].ballot)'
      BY <1>1, <2>2, <3>1 DEF PhaseOf, NoInstall
    <3> QED BY <1>1, <1>2, <2>2, <3>1, <3>2, PhaseKept
  <2> QED BY <1>1, <2>1, <2>2
<1> QED BY <1>1, <1>2, <1>3, RecoveryStep

\* A repeated PREPARE is answered with what was sent before.
LEMMA AgainIsQuiet ==
  ASSUME Answered, NEW v \in Voters, NEW m \in msgs, HandlePrepareAgain(v, m)
  PROVE  /\ UNCHANGED <<promise, basis, selected, log, proofEpoch, tail, votes, msgs>>
         /\ campaign' = campaign
<1>1. /\ m.ballot = promise[v] /\ promise[v].proposer # v /\ basis[v].ballot = promise[v]
      /\ msgs' = msgs \union {AnswerOf(v)} /\ campaign' = campaign
      /\ UNCHANGED <<promise, basis, selected, log, proofEpoch, tail, votes>>
  BY DEF HandlePrepareAgain, Send, durable, AnswerOf
<1>2. AnswerOf(v) \in msgs
  BY <1>1 DEF Answered
<1> QED BY <1>1, <1>2

\* A PREPARE answered again.
LEMMA HandlePrepareAgainR ==
  ASSUME IInv, IInv', RInv, Answered, Grows, NEW v \in Voters, NEW m \in msgs,
         HandlePrepareAgain(v, m)
  PROVE  RInv'
<1>1. Halted(v)
  BY AgainIsQuiet DEF Halted, durable
<1> QED BY <1>1, HaltedR

-----------------------------------------------------------------------------
(* The answers to PREPARE *)

\* A step that makes no promise and answers no PREPARE.
Unasked ==
  /\ UNCHANGED <<promise, basis>>
  /\ msgs \subseteq msgs'
  /\ \A n \in msgs' : n.type = "PROMISE" => n \in msgs

\* Such a step keeps the answers.
LEMMA UnaskedAnswers == ASSUME AnswerInv, Unasked PROVE AnswerInv'
<1>1. Answered'
  BY DEF AnswerInv, Answered, AnswerOf, Unasked
<1>2. OneAnswer'
  BY DEF AnswerInv, OneAnswer, Unasked
<1> QED BY <1>1, <1>2 DEF AnswerInv

\* A message of another type than PROMISE.
LEMMA OtherMessage ==
  ASSUME UNCHANGED <<promise, basis>>, NEW n, msgs' = msgs \union {n}, n.type # "PROMISE"
  PROVE  Unasked
  BY DEF Unasked

\* No message at all.
LEMMA NoMessage == ASSUME UNCHANGED <<promise, basis, msgs>> PROVE Unasked
  BY DEF Unasked

\* A new campaign: its proposer answers itself, without a message.
LEMMA BeginCampaignA ==
  ASSUME IInv, AnswerInv, NEW v \in Voters, NEW observed, NEW inc \in Incarnations,
         NEW froze \in BOOLEAN, BeginCampaign(v, observed, inc, froze)
  PROVE  AnswerInv'
<1>1. PICK b : b = [epoch |-> NextEpoch(observed, Rank[v]), proposer |-> v, inc |-> inc]
  OBVIOUS
<1>2. Prepare(v, b, froze) /\ b.proposer = v
  BY <1>1 DEF BeginCampaign
<1>3. /\ promise'[v] = b
      /\ \A w \in Voters : w # v => promise'[w] = promise[w] /\ basis'[w] = basis[w]
  BY <1>2 DEF Prepare, IInv, AuthorityTypes
<1>4. msgs \subseteq msgs' /\ \A n \in msgs' : n.type = "PROMISE" => n \in msgs
  BY DEF BeginCampaign, Send
<1>5. Answered'
  BY <1>2, <1>3, <1>4 DEF AnswerInv, Answered, AnswerOf
<1>6. OneAnswer'
  BY <1>4 DEF AnswerInv, OneAnswer
<1> QED BY <1>5, <1>6 DEF AnswerInv

\* A promise to a peer: no answer of that ballot was sent before.
LEMMA HandlePrepareA ==
  ASSUME IInv, AnswerInv, NEW v \in Voters, NEW m \in msgs, NEW froze \in BOOLEAN,
         HandlePrepare(v, m, froze)
  PROVE  AnswerInv'
<1>1. PICK b, n : b = m.ballot /\ n = [type |-> "PROMISE", ballot |-> b, from |-> v,
                                       basis |-> Frozen(v, b)]
  OBVIOUS
<1>2. /\ Prepare(v, b, froze) /\ b \in Ballots /\ b.epoch \in Nat /\ b.epoch > promise[v].epoch
      /\ froze => msgs' = msgs \union {n}
      /\ ~froze => msgs' = msgs
  BY <1>1, Received DEF HandlePrepare, Send, Prepare
<1>3. /\ promise'[v] = b /\ basis'[v] = (IF froze THEN Frozen(v, b) ELSE NoBasis)
      /\ \A w \in Voters : w # v => promise'[w] = promise[w] /\ basis'[w] = basis[w]
  BY <1>2 DEF Prepare, IInv, AuthorityTypes
<1>4. b # NoBallot
  BY <1>2, VoterTypes DEF NoBallot, IInv
<1>5. Answered'
  <2> SUFFICES ASSUME NEW w \in Voters, basis'[w].ballot = promise'[w], promise'[w].proposer # w
               PROVE  AnswerOf(w)' \in msgs'
    BY DEF Answered
  <2>1. CASE w = v
    <3>1. froze
      BY <1>3, <1>4, <2>1 DEF NoBasis
    <3> QED BY <1>1, <1>2, <1>3, <2>1, <3>1 DEF AnswerOf
  <2>2. CASE w # v
    BY <1>2, <1>3, <2>2 DEF AnswerInv, Answered, AnswerOf
  <2> QED BY <2>1, <2>2
<1>6. ASSUME NEW k \in msgs, k.type = "PROMISE", k.from = v PROVE k.ballot # b
  <2>1. k.basis.ballot = k.ballot /\ BasisOf(v, k.basis) /\ promise[v].epoch \in Nat
    BY <1>6, Received, VoterTypes DEF MsgFacts, IInv
  <2>2. k.ballot.epoch <= promise[v].epoch
    BY <2>1 DEF BasisOf
  <2> QED BY <1>2, <2>1, <2>2
<1>7. OneAnswer'
  <2>1. n.type = "PROMISE" /\ n.from = v /\ n.ballot = b
    BY <1>1
  <2>2. \A k \in msgs' : k \in msgs \/ k = n
    BY <1>2
  <2> QED BY <1>6, <2>1, <2>2 DEF AnswerInv, OneAnswer
<1> QED BY <1>5, <1>7 DEF AnswerInv

\* The steps of a campaign that is past its PREPARE.
LEMMA CommitA ==
  ASSUME NEW v \in Voters, NEW e, NEW activating, Commit(v, e, activating)
  PROVE  Unasked
<1>1. PICK n : n = [type |-> "ACCEPT", ballot |-> campaign[v].ballot, to |-> campaign[v].peer,
                    entry |-> e]
  OBVIOUS
<1>2. UNCHANGED <<promise, basis>> /\ msgs' = msgs \union {n} /\ n.type # "PROMISE"
  BY <1>1 DEF Commit, Accept, Send
<1> QED BY <1>2, OtherMessage

LEMMA SelectA ==
  ASSUME NEW v \in Voters, NEW m \in msgs, NEW adopted \in BOOLEAN,
         HandlePromise(v, m, adopted) \/ HandleInstall(v, m, adopted)
  PROVE  Unasked
<1>1. UNCHANGED <<promise, basis>>
  BY DEF HandlePromise, HandleInstall, SelectAndAdopt
<1>2. msgs \subseteq msgs' /\ \A n \in msgs' : n.type = "PROMISE" => n \in msgs
  BY DEF HandlePromise, HandleInstall, Send
<1> QED BY <1>1, <1>2 DEF Unasked

\* The steps that take an answer, an acceptance, a proof or a snapshot.
LEMMA ServeA ==
  ASSUME NEW v \in Voters, NEW m \in msgs,
         \/ HandleInstalled(v, m) \/ HandleAccept(v, m) \/ HandleAccepted(v, m)
         \/ HandleProof(v, m) \/ HandleProven(v, m) \/ HandleProvenCarried(v, m)
         \/ HandleSnapshot(v, m)
  PROVE  Unasked
<1>1. CASE HandleInstalled(v, m)
  BY <1>1, CommitA DEF HandleInstalled
<1>2. CASE HandleProvenCarried(v, m)
  BY <1>2, CommitA DEF HandleProvenCarried
<1>3. CASE HandleAccept(v, m)
  BY <1>3 DEF HandleAccept, Accept, Send, Unasked
<1>4. CASE HandleAccepted(v, m)
  BY <1>4 DEF HandleAccepted, Prove, Send, Unasked
<1>5. CASE HandleProof(v, m)
  BY <1>5 DEF HandleProof, Prove, Send, Unasked
<1>6. CASE HandleProven(v, m)
  BY <1>6, NoMessage DEF HandleProven, durable
<1>7. CASE HandleSnapshot(v, m)
  BY <1>7, NoMessage DEF HandleSnapshot, InstallProven
<1> QED BY <1>1, <1>2, <1>3, <1>4, <1>5, <1>6, <1>7

\* The steps that take no message.
LEMMA AloneA ==
  ASSUME NEW v \in Voters,
         \/ \E op \in Ops : Submit(v, op)
         \/ OfferSnapshot(v) \/ Abandon(v) \/ Halted(v)
  PROVE  Unasked
<1>1. CASE \E op \in Ops : Submit(v, op)
  BY <1>1, CommitA DEF Submit
<1>2. CASE OfferSnapshot(v)
  BY <1>2 DEF OfferSnapshot, Send, durable, Unasked
<1>3. CASE Abandon(v) \/ Halted(v)
  BY <1>3, NoMessage DEF Abandon, Halted, durable
<1> QED BY <1>1, <1>2, <1>3

-----------------------------------------------------------------------------
(* The invariant holds *)

\* The empty files of a new group satisfy the invariant.
LEMMA InitR == ASSUME Init PROVE RInv
<1>1. \A v, c, f : ~ Voted(v, c, f)
  BY DEF Init, Voted
<1>2. OneInstall /\ OriginInv /\ ExchangeInv
  BY <1>1 DEF Init, OneInstall, OriginInv, ExchangeInv
<1>3. PhaseInv
  BY DEF Init, PhaseInv, PhaseOf, Idle
<1>4. ASSUME NEW v \in Voters PROVE FilesOf(v)
  <2>1. /\ promise[v] = Genesis /\ basis[v] = NoBasis /\ selected[v] = NoSelection
        /\ tail[v] = NoTail /\ votes = {}
    BY DEF Init
  <2>2. SelectionOf(v)
    <3>1. ChosenPrefix(<<>>, 0)
      BY ExtendsEmpty DEF ChosenPrefix
    <3> QED BY <2>1, <3>1 DEF SelectionOf, NoSelection, NoBallot, Genesis
  <2>3. TailLow(basis[v])
    BY <2>1 DEF TailLow, NoBasis, NoTail, NoBallot
  <2> QED BY <1>1, <2>1, <2>2, <2>3 DEF FilesOf, SlotOf, OldTailOf, BackedOf, Replaced
<1> QED BY <1>2, <1>3, <1>4 DEF RInv, FilesInv

\* One step, by the handler that takes it.
LEMMA StepCases ==
  ASSUME Next
  PROVE  \E v \in Voters :
    \/ \E observed \in Epochs \union {1}, inc \in Incarnations, froze \in BOOLEAN :
          BeginCampaign(v, observed, inc, froze)
    \/ \E m \in msgs, froze \in BOOLEAN : HandlePrepare(v, m, froze)
    \/ \E m \in msgs : HandlePrepareAgain(v, m)
    \/ \E m \in msgs, adopted \in BOOLEAN : HandlePromise(v, m, adopted)
    \/ \E m \in msgs, adopted \in BOOLEAN : HandleInstall(v, m, adopted)
    \/ \E m \in msgs : HandleInstalled(v, m)
    \/ \E op \in Ops : Submit(v, op)
    \/ \E m \in msgs : HandleAccept(v, m)
    \/ \E m \in msgs : HandleAccepted(v, m)
    \/ \E m \in msgs : HandleProof(v, m)
    \/ \E m \in msgs : HandleProven(v, m)
    \/ \E m \in msgs : HandleProvenCarried(v, m)
    \/ OfferSnapshot(v)
    \/ \E m \in msgs : HandleSnapshot(v, m)
    \/ Abandon(v)
    \/ Halted(v)
  BY HaltedSteps DEF Next, Serve

\* Every step preserves the invariant.
LEMMA StepR == ASSUME IInv, RInv, Answered, [Next]_vars PROVE RInv'
<1>0. IInv' /\ Grows
  BY StepInv
<1>1. CASE UNCHANGED vars
  BY <1>0, <1>1, StutteringR
<1>2. CASE Next
  BY <1>0, <1>2, StepCases, BeginCampaignR, HandlePrepareR, HandlePrepareAgainR, HandlePromiseR,
     HandleInstallR, HandleInstalledR, SubmitR, HandleAcceptR, HandleAcceptedR, HandleProofR,
     HandleProvenR, HandleProvenCarriedR, OfferSnapshotR, HandleSnapshotR, AbandonR, HaltedR
<1> QED BY <1>1, <1>2

\* Every step keeps the answers.
LEMMA StepA == ASSUME IInv, AnswerInv, [Next]_vars PROVE AnswerInv'
<1>1. CASE UNCHANGED vars
  BY <1>1, NoMessage, UnaskedAnswers DEF vars
<1>2. CASE Next
  <2>1. ASSUME NEW v \in Voters, NEW m \in msgs, HandlePrepareAgain(v, m) PROVE Unasked
    BY <2>1, AgainIsQuiet, NoMessage DEF AnswerInv
  <2> QED BY <1>2, <2>1, StepCases, BeginCampaignA, HandlePrepareA, SelectA, ServeA, AloneA,
             UnaskedAnswers
<1> QED BY <1>1, <1>2

\* The order in which AutomaticProtocol works through a ballot: one INSTALL at
\* most, nothing of the ballot before it at a peer, the peer's selection before
\* its acceptances and proofs, and one answer to however many PREPAREs.
THEOREM RecoveryInductive == Spec => [](IInv /\ RInv /\ AnswerInv)
<1>1. Init => IInv /\ RInv /\ AnswerInv
  <2>1. ASSUME Init PROVE AnswerInv
    BY <2>1 DEF Init, AnswerInv, Answered, OneAnswer, NoBasis, NoBallot, Genesis
  <2> QED BY <2>1, InitInv, InitR
<1>2. IInv /\ RInv /\ AnswerInv /\ [Next]_vars => IInv' /\ RInv' /\ AnswerInv'
  BY StepInv, StepR, StepA DEF AnswerInv
<1> QED BY <1>1, <1>2, PTL DEF Spec

\* However often PREPARE is repeated, a voter's answers at one ballot carry the
\* one basis it froze, and that is the basis of its files while it promises.
THEOREM BasesAreFrozen == Spec => []BasisNeverResampled
<1>1. ASSUME RInv, AnswerInv PROVE BasisNeverResampled
  <2>1. \A m \in msgs : m.type = "PROMISE" /\ promise[m.from] = m.ballot =>
          basis[m.from] = m.basis
    BY <1>1, RParts DEF ExchangeOf
  <2> QED BY <1>1, <2>1 DEF AnswerInv, OneAnswer, BasisNeverResampled
<1> QED BY <1>1, RecoveryInductive, PTL

\* An acceptance that replaced another is backed by the last selection, or by
\* a basis of it, as AutomaticStore.load requires.
THEOREM ReplacementsAreBacked == Spec => []ReplacementBacked
<1>1. RInv => ReplacementBacked
  BY DEF RInv, FilesInv, FilesOf, BackedOf, ReplacementBacked
<1> QED BY <1>1, RecoveryInductive, PTL

\* No proven prefix and no acceptance is out of order.
LEMMA FilesOrdered ==
  ASSUME IInv, RInv, NEW v \in Voters
  PROVE  Ordered(log[v]) /\ Ordered(tail[v].entry)
<1>1. Len(<<>>) = 0
  BY ExtendsEmpty
<1>2. \A e : Len(e) = 0 => Ordered(e)
  BY DEF Ordered
<1>3. VoterOf(v) /\ log[v] \in Entries /\ proofEpoch[v] \in Nat
      /\ tail[v].epoch \in Nat /\ tail[v].entry \in Entries
  BY VoterTypes DEF IInv, VoterInv
<1>4. Ordered(log[v])
  <2>1. CASE Len(log[v]) = 0
    BY <1>2, <2>1
  <2>2. CASE Len(log[v]) > 0
    <3>1. PICK c \in Nat : OriginOf(c, log[v])
      BY <1>3, <2>2, RParts, ChosenOrigin DEF VoterOf
    <3> QED BY <3>1 DEF OriginOf
  <2> QED BY <1>3, <2>1, <2>2, ExtendsLen
<1>5. Ordered(tail[v].entry)
  <2>1. CASE tail[v] = NoTail
    BY <1>1, <1>2, <2>1 DEF NoTail
  <2>2. CASE tail[v] # NoTail
    <3>1. Voted(v, tail[v].epoch, tail[v].entry)
      BY <1>3, <2>2 DEF VoterOf, TailOf
    <3> QED BY <1>3, <3>1, RParts DEF OriginInv, OriginOf
  <2> QED BY <2>1, <2>2
<1> QED BY <1>4, <1>5

\* The proven prefix and the selection of a voter are comparable.
LEMMA SelectionMeetsLog ==
  ASSUME IInv, RInv, NEW v \in Voters
  PROVE  Extends(log[v], selected[v].prefix) \/ Extends(selected[v].prefix, log[v])
<1>1. /\ log[v] \in Entries /\ proofEpoch[v] \in Nat
      /\ selected[v].prefix \in Entries /\ selected[v].proofEpoch \in Nat
      /\ VotesInv /\ ChainInv
  BY VoterTypes, SelectedTypes DEF IInv
<1>2. /\ ChosenPrefix(log[v], proofEpoch[v])
      /\ ChosenPrefix(selected[v].prefix, selected[v].proofEpoch)
  BY RParts DEF IInv, VoterInv, VoterOf, FilesOf, SelectionOf
<1>3. Len(log[v]) <= Len(selected[v].prefix) \/ Len(selected[v].prefix) <= Len(log[v])
  BY <1>1, ExtendsLen
<1> QED BY <1>1, <1>2, <1>3, PrefixesAgree

\* A voter that stops at any point of any exchange leaves files that load()
\* and checkRecovery() of AutomaticStore accept.
THEOREM FilesReopen == Spec => []Reopens
<1>1. ASSUME IInv, RInv PROVE Reopens
  <2> SUFFICES ASSUME NEW v \in Voters
               PROVE  /\ proofEpoch[v] <= promise[v].epoch
                      /\ selected[v].ballot.epoch <= promise[v].epoch
                      /\ Extends(log[v], selected[v].prefix) \/ Extends(selected[v].prefix, log[v])
                      /\ Ordered(log[v]) /\ Ordered(tail[v].entry)
    BY DEF Reopens
  <2>1. proofEpoch[v] <= promise[v].epoch
    BY <1>1 DEF IInv, VoterInv, VoterOf
  <2>2. selected[v].ballot.epoch <= promise[v].epoch
    BY <1>1, RParts DEF FilesOf, SelectionOf
  <2> QED BY <1>1, <2>1, <2>2, FilesOrdered, SelectionMeetsLog
<1> QED BY <1>1, RecoveryInductive, PTL

-----------------------------------------------------------------------------
(* No request of the promised ballot fails a check *)

\* Two bases of one ballot pass the checks of AutomaticRecovery.select.
LEMMA BasesMeet ==
  ASSUME IInv, NEW p \in Voters, NEW q \in Voters, NEW B \in Bases, NEW D \in Bases,
         BasisOf(p, B), BasisOf(q, D)
  PROVE  BasesAgree(B, D)
<1>1. /\ B.log \in Entries /\ D.log \in Entries /\ B.proofEpoch \in Nat /\ D.proofEpoch \in Nat
      /\ B.tail \in Tails /\ D.tail \in Tails /\ VotesInv /\ ChainInv
      /\ Len(B.log) \in Nat /\ Len(D.log) \in Nat
  BY ExtendsLen DEF Bases, IInv
<1>2. PICK L : L = Longest(B, D).log
  OBVIOUS
<1>3. /\ L = B.log \/ L = D.log
      /\ Len(L) >= Len(B.log) /\ Len(L) >= Len(D.log) /\ L \in Entries
  BY <1>1, <1>2 DEF Longest
<1>4. Extends(L, B.log) /\ Extends(L, D.log)
  <2>1. Len(B.log) <= Len(D.log) => Extends(D.log, B.log)
    BY <1>1, PrefixesAgree DEF BasisOf
  <2>2. Len(D.log) <= Len(B.log) => Extends(B.log, D.log)
    BY <1>1, PrefixesAgree DEF BasisOf
  <2> QED BY <1>1, <1>3, <2>1, <2>2, ExtendsSelf
<1>5. ASSUME NEW t \in LiveTails(B, D)
      PROVE  /\ Len(t.entry) = Len(L) + 1 /\ Extends(t.entry, L)
             /\ t.epoch \in Nat /\ t.entry \in Entries
             /\ \E w \in Voters : Voted(w, t.epoch, t.entry)
  <2>1. (t = B.tail \/ t = D.tail) /\ t.epoch > 0 /\ Len(t.entry) > Len(L) /\ t \in Tails
    BY <1>1, <1>2 DEF LiveTails
  <2>2. t.epoch \in Nat /\ t.entry \in Entries /\ t # NoTail
    BY <2>1 DEF Tails, NoTail
  <2>3. CASE t = B.tail
    <3>1. Len(t.entry) = Len(B.log) + 1 /\ Extends(t.entry, B.log) /\ Voted(p, t.epoch, t.entry)
      BY <2>2, <2>3 DEF BasisOf, TailOf
    <3>2. L = B.log
      BY <1>1, <1>3, <1>4, <2>1, <3>1, ExtendsLen
    <3> QED BY <2>2, <3>1, <3>2
  <2>4. CASE t = D.tail
    <3>1. Len(t.entry) = Len(D.log) + 1 /\ Extends(t.entry, D.log) /\ Voted(q, t.epoch, t.entry)
      BY <2>2, <2>4 DEF BasisOf, TailOf
    <3>2. L = D.log
      BY <1>1, <1>3, <1>4, <2>1, <3>1, ExtendsLen
    <3> QED BY <2>2, <3>1, <3>2
  <2> QED BY <2>1, <2>3, <2>4
<1>6. ASSUME NEW t \in LiveTails(B, D), NEW u \in LiveTails(B, D), t.epoch = u.epoch
      PROVE  t.entry = u.entry
  <2>1. PICK w, x \in Voters : Voted(w, t.epoch, t.entry) /\ Voted(x, t.epoch, u.entry)
    BY <1>5, <1>6
  <2>2. Extends(t.entry, u.entry) \/ Extends(u.entry, t.entry)
    BY <1>1, <1>5, <2>1 DEF ChainInv
  <2>3. Len(t.entry) = Len(u.entry) /\ t.entry \in Entries /\ u.entry \in Entries
    BY <1>5
  <2> QED BY <2>2, <2>3, ExtendsLen
<1> QED BY <1>2, <1>4, <1>5, <1>6 DEF BasesAgree

\* The selection of two bases may be made where one of them still stands.
LEMMA SelectionFits ==
  ASSUME IInv, NEW v \in Voters, NEW B \in Bases, NEW D \in Bases, BasesAgree(B, D),
         log[v] = B.log \/ log[v] = D.log
  PROVE  MaySelect(v, Selection(B, D))
<1>1. /\ Selection(B, D).prefix = Longest(B, D).log /\ Longest(B, D).log \in Entries
      /\ log[v] \in Entries
  BY VoterTypes DEF Selection, Longest, Bases, IInv
<1>2. Extends(Longest(B, D).log, log[v])
  BY DEF BasesAgree
<1>3. Len(Longest(B, D).log) >= Len(log[v])
  BY <1>1, <1>2, ExtendsLen
<1> QED BY <1>1, <1>2, <1>3 DEF MaySelect

\* A vote of an epoch and a proven prefix of no later one: the prefix has the
\* entry, or the entry follows the prefix.
LEMMA VoteMeetsLog ==
  ASSUME IInv, NEW v \in Voters, NEW w \in Voters, NEW c \in Nat, NEW e \in Entries,
         Voted(w, c, e), proofEpoch[v] <= c
  PROVE  Extends(log[v], e) \/ (Len(e) > Len(log[v]) /\ Extends(e, log[v]))
<1>1. /\ log[v] \in Entries /\ proofEpoch[v] \in Nat /\ ChosenPrefix(log[v], proofEpoch[v])
      /\ VotesInv /\ ChainInv /\ SafeAt(c, e)
      /\ Len(e) \in Nat /\ Len(log[v]) \in Nat
  BY VoterTypes, ExtendsLen DEF IInv, VoterInv, VoterOf, VotesInv
<1>2. CASE Len(e) <= Len(log[v])
  <2>1. Extends(log[v], e) \/ Superseded(c, log[v], proofEpoch[v])
    BY <1>1, <1>2, VoteMeetsPrefix
  <2>2. ~ Superseded(c, log[v], proofEpoch[v])
    BY <1>1 DEF Superseded
  <2> QED BY <2>1, <2>2
<1>3. CASE Len(e) > Len(log[v])
  <2>1. CASE Len(log[v]) = 0
    <3>1. log[v] = <<>>
      BY <1>1, <2>1, ExtendsEmpty, ExtendsLen
    <3> QED BY <1>3, <3>1, ExtendsEmpty
  <2>2. CASE Len(log[v]) > 0
    <3>1. PICK d \in Nat : d <= proofEpoch[v] /\ Chosen(d, log[v])
      BY <1>1, <2>2, PrefixChosen
    <3>2. CASE d < c
      BY <1>1, <1>3, <3>1, <3>2, ChosenBelowSafe
    <3>3. CASE d = c
      <4>1. PICK x \in Voters : Voted(x, c, log[v])
        BY <1>1, <3>1, <3>3, ChosenHasVote
      <4>2. Extends(e, log[v]) \/ Extends(log[v], e)
        BY <1>1, <4>1 DEF ChainInv
      <4> QED BY <1>3, <4>2
    <3> QED BY <1>1, <3>1, <3>2, <3>3
  <2> QED BY <1>1, <2>1, <2>2
<1> QED BY <1>1, <1>2, <1>3

\* An ACCEPT of the promised ballot is accepted, or proven already.
LEMMA AcceptFits ==
  ASSUME IInv, RInv, NEW m \in msgs, m.type = "ACCEPT", promise[m.to] = m.ballot
  PROVE  MayAccept(m.to, m.ballot, m.entry) \/ Extends(log[m.to], m.entry)
<1>0. PICK v, b, e : v = m.to /\ b = m.ballot /\ e = m.entry
  OBVIOUS
<1>1. /\ v \in Voters /\ b \in Ballots /\ b.epoch \in Nat /\ e \in Entries
      /\ b.proposer \in Voters /\ Voted(b.proposer, b.epoch, e) /\ promise[v] = b
  BY <1>0, Received, MessageTypes DEF MsgFacts
<1>2. /\ VoterOf(v) /\ FilesOf(v) /\ ChainInv /\ log[v] \in Entries /\ Len(log[v]) \in Nat
      /\ tail[v] \in Tails /\ tail[v].epoch \in Nat /\ tail[v].entry \in Entries
  BY <1>1, RParts, VoterTypes, ExtendsLen DEF IInv, VoterInv
<1>3. PICK n \in msgs : InstallOf(n, b) /\ n.to = v /\ InstalledAt(n) /\ Obeys(Sel(n), b, e)
  BY <1>0, RParts DEF ExchangeOf
<1>4. /\ selected[v] = Sel(n) /\ Extends(log[v], selected[v].prefix) /\ selected[v].ballot = b
      /\ selected[v].prefix \in Entries
  <2>1. n.type = "INSTALL" /\ n.ballot = b
    BY <1>3 DEF InstallOf
  <2>2. selected[v] = Sel(n) /\ Extends(log[v], Sel(n).prefix)
    BY <1>1, <1>3, <2>1 DEF InstalledAt
  <2> QED BY <2>1, <2>2, InstallFacts
<1>5. Extends(log[v], e) \/ (Len(e) > Len(log[v]) /\ Extends(e, log[v]))
  BY <1>1, <1>2, VoteMeetsLog DEF VoterOf
<1>6. ASSUME Len(e) > Len(log[v]), Extends(e, log[v]) PROVE MayAccept(v, b, e)
  <2>1. Len(e) = Len(log[v]) + 1
    BY <1>0, <1>1, <1>2, <1>6, RParts, ExtendsLen DEF ExchangeOf
  <2>2. SelectedSlot(v, b, e) => SelectedValue(v, b, e)
    BY <1>3, <1>4 DEF SelectedSlot, SelectedValue, Obeys
  <2>3. ASSUME tail[v] # NoTail
        PROVE  \/ tail[v] = [epoch |-> b.epoch, entry |-> e]
               \/ tail[v].epoch < b.epoch /\ SelectedValue(v, b, e)
    <3>1. /\ Voted(v, tail[v].epoch, tail[v].entry) /\ Len(tail[v].entry) = Len(e)
          /\ tail[v].epoch <= b.epoch
      BY <1>1, <1>2, <2>1, <2>3 DEF VoterOf, TailOf
    <3>2. CASE tail[v].epoch = b.epoch
      <4>1. Extends(tail[v].entry, e) \/ Extends(e, tail[v].entry)
        BY <1>1, <1>2, <3>1, <3>2 DEF ChainInv
      <4>2. tail[v].entry = e
        BY <1>1, <1>2, <3>1, <4>1, ExtendsLen
      <4>3. tail[v] = [epoch |-> tail[v].epoch, entry |-> tail[v].entry]
        BY <1>2 DEF Tails
      <4> QED BY <3>2, <4>2, <4>3
    <3>3. CASE tail[v].epoch < b.epoch
      <4>1. Len(log[v]) <= Len(selected[v].prefix)
        BY <1>1, <1>2, <1>4, <2>3, <3>3 DEF FilesOf, OldTailOf
      <4>2. Len(selected[v].prefix) = Len(log[v])
        BY <1>2, <1>4, <4>1, ExtendsLen
      <4>3. SelectedSlot(v, b, e)
        BY <1>4, <2>1, <4>2 DEF SelectedSlot
      <4> QED BY <2>2, <3>3, <4>3
    <3> QED BY <1>1, <1>2, <3>1, <3>2, <3>3
  <2> QED BY <1>1, <1>6, <2>1, <2>2, <2>3 DEF MayAccept
<1> QED BY <1>0, <1>5, <1>6

\* A PROOF of the promised ballot finds its acceptance, or proven already.
LEMMA ProofFits ==
  ASSUME IInv, RInv, NEW m \in msgs, m.type = "PROOF", promise[m.to] = m.ballot
  PROVE  MayProve(m.to, m.ballot, m.entry) \/ Extends(log[m.to], m.entry)
<1>0. PICK v, b, e : v = m.to /\ b = m.ballot /\ e = m.entry
  OBVIOUS
<1>1. /\ v \in Voters /\ b.epoch \in Nat /\ e \in Entries /\ promise[v] = b
      /\ Voted(v, b.epoch, e)
  BY <1>0, Received, MessageTypes, RParts DEF ExchangeOf
<1>2. /\ VoterOf(v) /\ ChainInv /\ log[v] \in Entries /\ Len(log[v]) \in Nat
      /\ tail[v] \in Tails /\ tail[v].epoch \in Nat /\ tail[v].entry \in Entries
      /\ Len(tail[v].entry) \in Nat /\ Len(e) \in Nat /\ b.epoch > 0
  BY <1>1, VoterTypes, ExtendsLen DEF IInv, VoterInv, VotesInv
<1>3. Covers(b.epoch, e, log[v], b.epoch, tail[v])
  BY <1>1, <1>2 DEF VoterOf
<1>4. ~ Superseded(b.epoch, log[v], b.epoch)
  BY <1>1 DEF Superseded
<1>5. ASSUME tail[v].epoch >= b.epoch, Len(e) <= Len(log[v]) + 1
      PROVE  MayProve(v, b, e) \/ Extends(log[v], e)
  <2>1. tail[v].epoch = b.epoch /\ tail[v] # NoTail
    BY <1>1, <1>2, <1>5 DEF VoterOf, NoTail
  <2>2. /\ Voted(v, b.epoch, tail[v].entry) /\ Len(tail[v].entry) = Len(log[v]) + 1
        /\ Extends(tail[v].entry, log[v])
    BY <1>2, <2>1 DEF VoterOf, TailOf
  <2>3. Extends(tail[v].entry, e) \/ Extends(e, tail[v].entry)
    BY <1>1, <1>2, <2>2 DEF ChainInv
  <2>4. CASE Len(e) = Len(log[v]) + 1
    <3>1. tail[v].entry = e
      BY <1>1, <1>2, <2>2, <2>3, <2>4, ExtendsLen
    <3>2. tail[v] = [epoch |-> tail[v].epoch, entry |-> tail[v].entry]
      BY <1>2 DEF Tails
    <3> QED BY <1>1, <2>1, <3>1, <3>2 DEF MayProve
  <2>5. CASE Len(e) <= Len(log[v])
    <3>1. Extends(tail[v].entry, e)
      BY <1>1, <1>2, <2>2, <2>3, <2>5, ExtendsLen
    <3> QED BY <1>1, <1>2, <2>2, <2>5, <3>1, ExtendsLinear
  <2> QED BY <1>2, <1>5, <2>4, <2>5
<1> QED BY <1>0, <1>3, <1>4, <1>5 DEF Covers

\* A snapshot of the promised ballot extends a shorter proven prefix.
LEMMA SnapshotFits ==
  ASSUME IInv, RInv, NEW m \in msgs, m.type = "SNAPSHOT", NEW v \in Voters,
         promise[v] = m.ballot, Len(m.log) >= Len(log[v])
  PROVE  Extends(m.log, log[v]) /\ m.proofEpoch <= promise[v].epoch
<1>1. m.log \in Entries /\ m.proofEpoch \in Nat /\ ChosenPrefix(m.log, m.proofEpoch)
  BY Received, MessageTypes DEF MsgFacts
<1>2. /\ log[v] \in Entries /\ proofEpoch[v] \in Nat /\ ChosenPrefix(log[v], proofEpoch[v])
      /\ VotesInv /\ ChainInv
  BY VoterTypes DEF IInv, VoterInv, VoterOf
<1>3. Extends(m.log, log[v])
  BY <1>1, <1>2, PrefixesAgree
<1>4. m.proofEpoch <= m.ballot.epoch
  BY RParts DEF ExchangeOf
<1> QED BY <1>3, <1>4

\* The basis of a PROMISE agrees with the one of the campaign that asked for it.
LEMMA PromiseFits ==
  ASSUME IInv, RInv, NEW m \in msgs, m.type = "PROMISE", NEW p \in Voters,
         campaign[p].stage = "PREPARE"
  PROVE  BasesAgree(basis[p], m.basis) /\ MaySelect(p, Selection(basis[p], m.basis))
<1>1. m.from \in Voters /\ m.basis \in Bases /\ BasisOf(m.from, m.basis) /\ basis[p] \in Bases
  BY Received, MessageTypes, VoterTypes DEF MsgFacts, IInv
<1>2. basis[p].log = log[p] /\ BasisOf(p, basis[p])
  BY PreparingFacts
<1>3. BasesAgree(basis[p], m.basis)
  BY <1>1, <1>2, BasesMeet
<1> QED BY <1>1, <1>2, <1>3, SelectionFits

\* An INSTALL of the promised ballot is carried out, or was already.
LEMMA InstallFits ==
  ASSUME IInv, RInv, NEW m \in msgs, m.type = "INSTALL", promise[m.to] = m.ballot
  PROVE  /\ basis[m.to] = m.peer /\ BasesAgree(m.own, m.peer)
         /\ MaySelect(m.to, Selection(m.own, m.peer))
<1>1. /\ m.to \in Voters /\ m.ballot.proposer \in Voters /\ m.own \in Bases /\ m.peer \in Bases
      /\ BasisOf(m.ballot.proposer, m.own) /\ BasisOf(m.to, m.peer)
  BY InstallFacts
<1>2. BasesAgree(m.own, m.peer)
  BY <1>1, BasesMeet
<1>3. basis[m.to] = m.peer /\ (selected[m.to] = Sel(m) \/ Untouched(m.to, m.peer))
  BY RParts DEF ExchangeOf
<1>4. CASE selected[m.to] = Sel(m)
  BY <1>1, <1>2, <1>3, <1>4, SelectionMeetsLog DEF MaySelect, Sel
<1>5. CASE Untouched(m.to, m.peer)
  BY <1>1, <1>2, <1>3, <1>5, SelectionFits DEF Untouched
<1> QED BY <1>3, <1>4, <1>5

\* Of the checks that quarantine, only the one for a basis that was never frozen
\* can fail.
LEMMA OnlyUnfrozenFails ==
  ASSUME IInv, RInv, NEW v \in Voters, NEW m \in msgs, Quarantine(v, m)
  PROVE  basis[v].ballot # promise[v]
<1>1. ~ PromiseRefused(v, m)
  BY PromiseFits DEF PromiseRefused
<1>2. ~ InstallRefused(v, m)
  <2>1. m.type = "INSTALL" => m.peer.ballot = m.ballot
    BY InstallFacts
  <2> QED BY <2>1, InstallFits DEF InstallRefused
<1>3. ~ SnapshotRefused(v, m)
  BY SnapshotFits DEF SnapshotRefused
<1>4. PrepareUnfrozen(v, m)
  BY <1>1, <1>2, <1>3 DEF Quarantine
<1> QED BY <1>4 DEF PrepareUnfrozen

\* The checks of accept and prove hold for every request of the promised ballot.
RequestsFit ==
  \A m \in msgs :
    /\ m.type = "ACCEPT" /\ promise[m.to] = m.ballot =>
         MayAccept(m.to, m.ballot, m.entry) \/ Extends(log[m.to], m.entry)
    /\ m.type = "PROOF" /\ promise[m.to] = m.ballot =>
         MayProve(m.to, m.ballot, m.entry) \/ Extends(log[m.to], m.entry)

\* A quarantined voter never froze the basis of its promise.
Unfrozen == \A v \in Voters : quarantined[v] => basis[v].ballot # promise[v]

\* A step of a voter promises and freezes nothing for another.
LEMMA ServeTouches ==
  ASSUME TypeOK, NEW v \in Voters, Serve(v)
  PROVE  \A w \in Voters : w # v => promise'[w] = promise[w] /\ basis'[w] = basis[w]
<1>1. ASSUME NEW b, NEW froze, Prepare(v, b, froze)
      PROVE  \A w \in Voters : w # v => promise'[w] = promise[w] /\ basis'[w] = basis[w]
  BY <1>1 DEF Prepare, TypeOK, AuthorityTypes
<1>2. ASSUME NEW observed, NEW inc, NEW froze, BeginCampaign(v, observed, inc, froze)
      PROVE  \E b : Prepare(v, b, froze)
  BY <1>2 DEF BeginCampaign
<1>3. ASSUME NEW m, NEW froze, HandlePrepare(v, m, froze) PROVE \E b : Prepare(v, b, froze)
  BY <1>3 DEF HandlePrepare
<1>4. ASSUME NEW m, HandlePrepareAgain(v, m) PROVE UNCHANGED <<promise, basis>>
  BY <1>4 DEF HandlePrepareAgain, durable
<1>5. Unasked => UNCHANGED <<promise, basis>>
  BY DEF Unasked
<1> QED BY <1>1, <1>2, <1>3, <1>4, <1>5, SelectA, ServeA, AloneA DEF Serve

\* A quarantined voter keeps its files until its process is started again.
LEMMA UnfrozenStep ==
  ASSUME TypeOK, IInv, RInv, Unfrozen, [Next]_vars
  PROVE  Unfrozen'
<1>1. CASE UNCHANGED vars
  BY <1>1 DEF Unfrozen, vars
<1>2. ASSUME NEW v \in Voters, NEW m \in msgs, Quarantine(v, m) PROVE Unfrozen'
  <2>1. basis[v].ballot # promise[v]
    BY <1>2, OnlyUnfrozenFails
  <2>2. /\ \A w \in Voters : w # v => quarantined'[w] = quarantined[w]
        /\ UNCHANGED <<promise, basis>>
    BY <1>2 DEF Quarantine, durable, TypeOK
  <2> QED BY <2>1, <2>2 DEF Unfrozen
<1>3. ASSUME NEW v \in Voters, Restart(v) PROVE Unfrozen'
  <2>1. /\ \A w \in Voters : quarantined'[w] => quarantined[w]
        /\ UNCHANGED <<promise, basis>>
    BY <1>3 DEF Restart, durable, TypeOK
  <2> QED BY <2>1 DEF Unfrozen
<1>4. ASSUME NEW v \in Voters, Serve(v) PROVE Unfrozen'
  <2>1. quarantined' = quarantined /\ ~ quarantined[v]
    BY <1>4 DEF Serve
  <2>2. \A w \in Voters : w # v => promise'[w] = promise[w] /\ basis'[w] = basis[w]
    BY <1>4, ServeTouches
  <2> QED BY <2>1, <2>2 DEF Unfrozen
<1> QED BY <1>1, <1>2, <1>3, <1>4 DEF Next

\* No interleaving, loss, repetition or crash makes a check of
\* AutomaticRecovery.select or AutomaticStore fail on a request or an answer of
\* the promised ballot, but for one: a voter that stopped between its promise and
\* its basis is quarantined by the next PREPARE of that ballot.
THEOREM OnlyUnfrozenAreQuarantined == Spec => []OnlyUnfrozenQuarantine
<1>1. IInv /\ RInv => RequestsFit
  BY AcceptFits, ProofFits DEF RequestsFit
<1>2. Init => Unfrozen
  BY DEF Init, Unfrozen
<1>3. TypeOK /\ IInv /\ RInv /\ Unfrozen /\ [Next]_vars => Unfrozen'
  BY UnfrozenStep
<1>4. RequestsFit /\ Unfrozen => OnlyUnfrozenQuarantine
  BY DEF RequestsFit, Unfrozen, OnlyUnfrozenQuarantine
<1> QED BY <1>1, <1>2, <1>3, <1>4, TypeCorrect, RecoveryInductive, PTL DEF Spec
=============================================================================
