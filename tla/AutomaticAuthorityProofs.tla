---------------------- MODULE AutomaticAuthorityProofs ----------------------
(***************************************************************************)
(* The inductive invariant of AutomaticAuthority and the theorems that      *)
(* follow from it, for every choice of the constants.                       *)
(*                                                                         *)
(* The argument is the one of single-decree Paxos, lifted to a log whose    *)
(* entries carry their ancestry.  SafeAt(b, e) says that below epoch b      *)
(* nothing was, or can still be, accepted by a quorum that is not an        *)
(* ancestor of e; every acceptance ever forced is safe at its epoch, and    *)
(* what a frozen basis reports of a voter covers all its earlier votes.     *)
(***************************************************************************)
EXTENDS AutomaticAuthority, TLAPS

\* v forced an acceptance of e at epoch c.
Voted(v, c, e) == <<v, c, e>> \in votes

\* A quorum accepted e at one and the same epoch.
Chosen(c, e) == \E Q \in Quorums : \A v \in Q : Voted(v, c, e)

\* Below epoch b a quorum has moved on, and voted only for ancestors of e.
SafeAt(b, e) ==
  \A c \in Nat : c < b =>
    \E Q \in Quorums : \A v \in Q :
      /\ promise[v].epoch > c
      /\ \A f \in Entries : Voted(v, c, f) => Extends(e, f)

\* Every ancestor of L, L included, was chosen at an epoch up to r.
ChosenPrefix(L, r) ==
  \A i \in 1..Len(L) : \E c \in Nat, g \in Entries :
    c <= r /\ Len(g) = i /\ Extends(L, g) /\ Chosen(c, g)

\* An ancestor of L got a vote above epoch c, at an epoch up to r.
Superseded(c, L, r) ==
  \E d \in Nat, w \in Voters, g \in Entries :
    c < d /\ d <= r /\ Voted(w, d, g) /\ Extends(L, g)

\* What the prefix L and the acceptance t tell of a vote for f at epoch c.
Covers(c, f, L, r, t) ==
  \/ Extends(L, f)
  \/ Superseded(c, L, r)
  \/ t.epoch >= c /\ Len(f) <= Len(L) + 1

\* t is an acceptance that v forced in the slot after L, or none.
TailOf(v, L, t) ==
  t = NoTail \/ /\ t.epoch > 0
                /\ Voted(v, t.epoch, t.entry)
                /\ Len(t.entry) = Len(L) + 1
                /\ Extends(t.entry, L)

\* B was frozen by v: a chosen prefix, and an acceptance that together cover
\* every vote v cast below B's ballot.
BasisOf(v, B) ==
  /\ B.ballot.epoch <= promise[v].epoch
  /\ B.proofEpoch <= B.ballot.epoch
  /\ ChosenPrefix(B.log, B.proofEpoch)
  /\ TailOf(v, B.log, B.tail)
  /\ \A c \in Nat, f \in Entries :
       c < B.ballot.epoch /\ Voted(v, c, f) => Covers(c, f, B.log, B.ballot.epoch, B.tail)

\* The voter that the rank of an epoch belongs to.
Owns(p, c) == c >= 2 /\ Rank[p] = (c - 2) % 3

\* A vote is safe at its epoch and not above its voter's promise, and the
\* epoch's owner cast it too (a proposer accepts before its peer does).
VotesInv ==
  \A v \in Voters, c \in Nat, f \in Entries : Voted(v, c, f) =>
    /\ c > 0
    /\ c <= promise[v].epoch
    /\ Len(f) > 0
    /\ SafeAt(c, f)
    /\ \A p \in Voters : Owns(p, c) => Voted(p, c, f)

\* The votes of one epoch lie on one chain.
ChainInv ==
  \A v, w \in Voters, c \in Nat, e, f \in Entries :
    Voted(v, c, e) /\ Voted(w, c, f) => Extends(e, f) \/ Extends(f, e)

\* The files of v: a chosen prefix, and an acceptance that together cover every
\* vote v ever cast.
VoterOf(v) ==
  /\ promise[v].epoch > 0
  /\ proofEpoch[v] <= promise[v].epoch
  /\ ChosenPrefix(log[v], proofEpoch[v])
  /\ TailOf(v, log[v], tail[v])
  /\ tail[v].epoch <= promise[v].epoch
  /\ \A c \in Nat, f \in Entries :
       Voted(v, c, f) => Covers(c, f, log[v], promise[v].epoch, tail[v])
  /\ BasisOf(v, basis[v])

\* The files of every voter.
VoterInv == \A v \in Voters : VoterOf(v)

\* What a selection obliges its proposer to extend.
Target(s) == IF s.next = <<>> THEN s.prefix ELSE s.next

\* The campaign of p is for p's own promise, its basis is current until it
\* selects, and afterwards what it stands on is safe at its ballot.
CampaignOf(p) ==
  campaign[p].stage # "IDLE" =>
    /\ promise[p] = campaign[p].ballot
    /\ campaign[p].ballot.proposer = p
    /\ [type |-> "PREPARE", ballot |-> campaign[p].ballot] \in msgs
    /\ campaign[p].stage = "PREPARE" =>
         basis[p].ballot = campaign[p].ballot /\ basis[p].log = log[p]
    /\ campaign[p].stage # "PREPARE" =>
         /\ campaign[p].peer \in Voters \ {p}
         /\ selected[p].ballot = campaign[p].ballot
         /\ Extends(log[p], selected[p].prefix)
         /\ SafeAt(campaign[p].ballot.epoch, Target(selected[p]))
         /\ \/ log[p] = selected[p].prefix
            \/ Voted(p, campaign[p].ballot.epoch, log[p])
    /\ campaign[p].stage = "ACCEPT" => Voted(p, campaign[p].ballot.epoch, campaign[p].entry)
    /\ campaign[p].stage \in {"PROOF", "READY"} => Voted(p, campaign[p].ballot.epoch, log[p])

\* The campaign of every voter.
CampaignInv == \A p \in Voters : CampaignOf(p)

\* A message is of a ballot that its owner promised before the PREPARE.
MsgBallot(m) ==
  /\ m.ballot.proposer \in Voters
  /\ Owns(m.ballot.proposer, m.ballot.epoch)
  /\ m.ballot.epoch <= promise[m.ballot.proposer].epoch
  /\ [type |-> "PREPARE", ballot |-> m.ballot] \in msgs

\* A message tells the truth about the files of the voter that sent it.
MsgFacts(m) ==
  LET p == m.ballot.proposer
      c == m.ballot.epoch
  IN /\ m.type = "PROMISE" =>
          m.from # p /\ m.basis.ballot = m.ballot /\ BasisOf(m.from, m.basis)
     /\ m.type = "INSTALL" =>
          /\ m.to # p
          /\ m.own.ballot = m.ballot /\ BasisOf(p, m.own)
          /\ m.peer.ballot = m.ballot /\ BasisOf(m.to, m.peer)
     /\ m.type = "ACCEPT" => m.to # p /\ Voted(p, c, m.entry)
     /\ m.type = "ACCEPTED" => Voted(m.from, c, m.entry)
     /\ m.type = "PROOF" => m.to # p /\ Chosen(c, m.entry)
     /\ m.type = "SNAPSHOT" => ChosenPrefix(m.log, m.proofEpoch)

\* Every message ever sent.
MsgInv == \A m \in msgs : MsgBallot(m) /\ MsgFacts(m)

\* The inductive invariant.
IInv ==
  /\ AuthorityTypes
  /\ VotesInv
  /\ ChainInv
  /\ VoterInv
  /\ CampaignInv
  /\ MsgInv
  /\ OneBallotPerEpoch

-----------------------------------------------------------------------------
(* Ancestry *)

\* Ancestry is reflexive.
LEMMA ExtendsSelf == \A s \in Entries : Extends(s, s)
  BY DEF Extends, Entries

\* Ancestry is transitive.
LEMMA ExtendsTrans ==
  \A s, t, u \in Entries : Extends(u, t) /\ Extends(t, s) => Extends(u, s)
  BY DEF Extends, Entries

\* Two ancestors of one entry are comparable.
LEMMA ExtendsLinear ==
  \A s, t, u \in Entries :
    Extends(u, s) /\ Extends(u, t) /\ Len(s) <= Len(t) => Extends(t, s)
  BY DEF Extends, Entries

\* An ancestor is not longer, and one of the same length is the entry itself.
LEMMA ExtendsLen ==
  \A s, t \in Entries :
    /\ Len(s) \in Nat
    /\ Extends(t, s) => Len(s) <= Len(t)
    /\ Extends(t, s) /\ Len(s) = Len(t) => s = t
  BY DEF Extends, Entries

\* The empty log is an ancestor of every entry.
LEMMA ExtendsEmpty == <<>> \in Entries /\ Len(<<>>) = 0 /\ \A s \in Entries : Extends(s, <<>>)
  BY DEF Extends, Entries

\* An appended entry extends its predecessor.
LEMMA ExtendsAppend ==
  \A s \in Entries, x \in Cells :
    /\ Append(s, x) \in Entries
    /\ Len(Append(s, x)) = Len(s) + 1
    /\ Extends(Append(s, x), s)
  BY DEF Extends, Entries

\* Two quorums share a voter.
LEMMA QuorumsMeet == \A P, Q \in Quorums : \E v \in Voters : v \in P /\ v \in Q
  BY VotersAssumption DEF Quorums

\* A proposer and a peer are a quorum.
LEMMA PairIsQuorum == \A v, w \in Voters : v # w => {v, w} \in Quorums
  BY DEF Quorums

-----------------------------------------------------------------------------
(* What the invariant says of chosen entries *)

\* An entry chosen below epoch b is an ancestor of all that is safe at b.
LEMMA ChosenBelowSafe ==
  ASSUME NEW b \in Nat, NEW c \in Nat, NEW e \in Entries, NEW f \in Entries,
         c < b, Chosen(c, e), SafeAt(b, f)
  PROVE  Extends(f, e)
<1>1. PICK P \in Quorums : \A v \in P : Voted(v, c, e)
  BY DEF Chosen
<1>2. PICK Q \in Quorums : \A v \in Q : \A g \in Entries : Voted(v, c, g) => Extends(f, g)
  BY DEF SafeAt
<1>3. PICK v \in Voters : v \in P /\ v \in Q
  BY QuorumsMeet
<1> QED BY <1>1, <1>2, <1>3

\* A chosen entry has a voter.
LEMMA ChosenHasVote ==
  ASSUME NEW c \in Nat, NEW e \in Entries, Chosen(c, e)
  PROVE  \E w \in Voters : Voted(w, c, e)
<1>1. PICK Q \in Quorums : \A v \in Q : Voted(v, c, e)
  BY DEF Chosen
<1>2. PICK w \in Voters : w \in Q
  BY QuorumsMeet
<1> QED BY <1>1, <1>2

\* A vote at an index that a chosen prefix covers is in that prefix, or a
\* higher vote for an ancestor of the prefix replaced it.
LEMMA VoteMeetsPrefix ==
  ASSUME VotesInv, ChainInv,
         NEW v \in Voters, NEW c \in Nat, NEW f \in Entries, Voted(v, c, f),
         NEW L \in Entries, NEW r \in Nat, ChosenPrefix(L, r), Len(f) <= Len(L)
  PROVE  Extends(L, f) \/ Superseded(c, L, r)
<1>1. Len(f) \in 1..Len(L)
  <2>1. Len(f) > 0
    BY DEF VotesInv
  <2> QED BY <2>1, ExtendsLen
<1>2. PICK d \in Nat, g \in Entries :
        d <= r /\ Len(g) = Len(f) /\ Extends(L, g) /\ Chosen(d, g)
  BY <1>1 DEF ChosenPrefix
<1>3. PICK w \in Voters : Voted(w, d, g)
  BY <1>2, ChosenHasVote
<1>4. CASE c < d
  BY <1>2, <1>3, <1>4 DEF Superseded
<1>5. CASE c = d
  <2>1. Extends(f, g) \/ Extends(g, f)
    BY <1>3, <1>5 DEF ChainInv
  <2>2. f = g
    BY <2>1, <1>2, ExtendsLen
  <2> QED BY <2>2, <1>2
<1>6. CASE d < c
  <2>1. SafeAt(c, f)
    BY DEF VotesInv
  <2>2. Extends(f, g)
    BY <2>1, <1>2, <1>6, ChosenBelowSafe
  <2>3. f = g
    BY <2>2, <1>2, ExtendsLen
  <2> QED BY <2>3, <1>2
<1> QED BY <1>4, <1>5, <1>6

\* A nonempty chosen prefix is itself chosen.
LEMMA PrefixChosen ==
  ASSUME NEW L \in Entries, NEW r \in Nat, ChosenPrefix(L, r), Len(L) > 0
  PROVE  \E c \in Nat : c <= r /\ Chosen(c, L)
<1>1. Len(L) \in 1..Len(L)
  BY ExtendsLen
<1>2. PICK c \in Nat, g \in Entries :
        c <= r /\ Len(g) = Len(L) /\ Extends(L, g) /\ Chosen(c, g)
  BY <1>1 DEF ChosenPrefix
<1>3. g = L
  BY <1>2, ExtendsLen
<1> QED BY <1>2, <1>3

\* Chosen prefixes are comparable, whatever the epochs they were chosen at.
LEMMA PrefixesAgree ==
  ASSUME VotesInv, ChainInv,
         NEW L \in Entries, NEW r \in Nat, ChosenPrefix(L, r),
         NEW M \in Entries, NEW q \in Nat, ChosenPrefix(M, q), Len(L) <= Len(M)
  PROVE  Extends(M, L)
<1>1. CASE Len(L) = 0
  BY <1>1, ExtendsEmpty, ExtendsLen
<1>2. CASE Len(L) > 0
  <2>1. PICK c \in Nat : c <= r /\ Chosen(c, L)
    BY <1>2, PrefixChosen
  <2>2. PICK w \in Voters : Voted(w, c, L)
    BY <2>1, ChosenHasVote
  <2>3. Extends(M, L) \/ Superseded(c, M, q)
    BY <2>2, VoteMeetsPrefix
  <2>4. ASSUME Superseded(c, M, q) PROVE Extends(M, L)
    <3>1. PICK d \in Nat, u \in Voters, g \in Entries :
            c < d /\ Voted(u, d, g) /\ Extends(M, g)
      BY <2>4 DEF Superseded
    <3>2. SafeAt(d, g)
      BY <3>1 DEF VotesInv
    <3>3. Extends(g, L)
      BY <3>1, <3>2, <2>1, ChosenBelowSafe
    <3> QED BY <3>1, <3>3, ExtendsTrans
  <2> QED BY <2>3, <2>4
<1> QED BY <1>1, <1>2, ExtendsLen

-----------------------------------------------------------------------------
(* The selection is safe *)

\* The carried acceptance is live and no live one has a higher epoch.
LEMMA CarriedHighest ==
  ASSUME NEW B \in Bases, NEW D \in Bases, LiveTails(B, D) # {}
  PROVE  /\ Carried(B, D) \in LiveTails(B, D)
         /\ \A u \in LiveTails(B, D) : u.epoch <= Carried(B, D).epoch
<1>1. \A t \in LiveTails(B, D) : t.epoch \in Nat /\ (t = B.tail \/ t = D.tail)
  BY DEF LiveTails, Bases, Tails
<1>2. \E t \in LiveTails(B, D) : \A u \in LiveTails(B, D) : u.epoch <= t.epoch
  BY <1>1
<1> QED BY <1>2 DEF Carried

\* Two bases of one ballot that agree select a chosen prefix and a target
\* that is safe at the ballot.
LEMMA SelectionSafe ==
  ASSUME AuthorityTypes, VotesInv, ChainInv,
         NEW p \in Voters, NEW q \in Voters, p # q,
         NEW B \in Bases, NEW D \in Bases, D.ballot.epoch = B.ballot.epoch,
         BasisOf(p, B), BasisOf(q, D), BasesAgree(B, D)
  PROVE  /\ SafeAt(B.ballot.epoch, Target(Selection(B, D)))
         /\ ChosenPrefix(Selection(B, D).prefix, Selection(B, D).proofEpoch)
         /\ Selection(B, D).proofEpoch <= B.ballot.epoch
         /\ Selection(B, D).prefix \in Entries
         /\ Selection(B, D).proofEpoch \in Nat
         /\ Target(Selection(B, D)) \in Entries
         /\ Extends(Target(Selection(B, D)), Selection(B, D).prefix)
<1> DEFINE b == B.ballot.epoch
           P == Longest(B, D).log
           E == Target(Selection(B, D))
<1>1. /\ Longest(B, D) = B \/ Longest(B, D) = D
      /\ b \in Nat
      /\ Selection(B, D).prefix = P
      /\ Selection(B, D).proofEpoch = Longest(B, D).proofEpoch
      /\ P \in Entries
      /\ Longest(B, D).proofEpoch \in Nat
      /\ B.log \in Entries /\ D.log \in Entries
      /\ B.tail \in Tails /\ D.tail \in Tails
  BY DEF Longest, Selection, Bases, Ballots
<1>2. ChosenPrefix(P, Longest(B, D).proofEpoch) /\ Longest(B, D).proofEpoch <= b
  BY <1>1 DEF BasisOf
<1>3. E \in Entries /\ Extends(E, P)
        /\ (LiveTails(B, D) # {} => E = Carried(B, D).entry)
  <2>1. CASE LiveTails(B, D) = {}
    BY <2>1, <1>1, ExtendsSelf DEF Target, Selection
  <2>2. CASE LiveTails(B, D) # {}
    <3>1. Carried(B, D) \in LiveTails(B, D)
      BY <2>2, CarriedHighest
    <3>2. Carried(B, D).entry \in Entries
      BY <3>1, <1>1 DEF LiveTails, Tails
    <3>3. Len(Carried(B, D).entry) = Len(P) + 1 /\ Extends(Carried(B, D).entry, P)
      BY <3>1 DEF BasesAgree
    <3>4. Carried(B, D).entry # <<>>
      BY <3>3, <1>1, ExtendsEmpty, ExtendsLen
    <3>5. E = Carried(B, D).entry
      BY <2>2, <3>4 DEF Target, Selection
    <3> QED BY <3>2, <3>3, <3>5
  <2> QED BY <2>1, <2>2
<1>4. SafeAt(b, E)
  <2> SUFFICES ASSUME NEW c \in Nat, c < b
               PROVE  \E Q \in Quorums : \A v \in Q :
                        /\ promise[v].epoch > c
                        /\ \A f \in Entries : Voted(v, c, f) => Extends(E, f)
    BY DEF SafeAt
  <2>1. CASE \E d \in Nat, w \in Voters, g \in Entries :
               c < d /\ Voted(w, d, g) /\ Extends(E, g)
    <3>1. PICK d \in Nat, w \in Voters, g \in Entries :
            c < d /\ Voted(w, d, g) /\ Extends(E, g)
      BY <2>1
    <3>2. SafeAt(d, g)
      BY <3>1 DEF VotesInv
    <3>3. PICK Q \in Quorums : \A v \in Q :
            promise[v].epoch > c /\ \A f \in Entries : Voted(v, c, f) => Extends(g, f)
      BY <3>1, <3>2 DEF SafeAt
    <3>4. \A v \in Q, f \in Entries : Voted(v, c, f) => Extends(E, f)
      BY <3>1, <3>3, <1>3, ExtendsTrans
    <3> QED BY <3>3, <3>4
  <2>2. CASE ~ \E d \in Nat, w \in Voters, g \in Entries :
               c < d /\ Voted(w, d, g) /\ Extends(E, g)
    <3>1. \A v \in {p, q} : promise[v].epoch > c
      BY <1>1 DEF BasisOf, AuthorityTypes, Ballots
    <3>2. ASSUME NEW v \in {p, q}, NEW C \in {B, D}, BasisOf(v, C),
                 NEW f \in Entries, Voted(v, c, f)
          PROVE  Extends(E, f)
      <4>1. C.log \in Entries /\ C.tail \in Tails /\ C.ballot.epoch = b /\ Extends(P, C.log)
              /\ v \in Voters /\ c > 0
        BY <3>2, <1>1 DEF BasesAgree, VotesInv
      <4>2. Extends(E, C.log)
        BY <4>1, <1>1, <1>3, ExtendsTrans
      <4>3. Covers(c, f, C.log, b, C.tail)
        BY <3>2, <4>1 DEF BasisOf
      <4>4. CASE Extends(C.log, f)
        BY <4>4, <4>1, <4>2, <1>3, ExtendsTrans
      <4>5. ASSUME NEW r \in Nat, NEW M \in Entries, Extends(E, M), Superseded(c, M, r)
            PROVE  FALSE
        <5>1. PICK d \in Nat, w \in Voters, g \in Entries :
                c < d /\ Voted(w, d, g) /\ Extends(M, g)
          BY <4>5 DEF Superseded
        <5>2. Extends(E, g)
          BY <5>1, <4>5, <1>3, ExtendsTrans
        <5> QED BY <5>1, <5>2, <2>2
      <4>6. CASE Superseded(c, C.log, b)
        BY <4>6, <4>5, <4>2, <4>1, <1>1
      <4>7. CASE C.tail.epoch >= c /\ Len(f) <= Len(C.log) + 1
        <5>1. CASE Len(f) <= Len(P)
          <6>1. Extends(P, f) \/ Superseded(c, P, Longest(B, D).proofEpoch)
            BY <3>2, <5>1, <4>1, <1>1, <1>2, VoteMeetsPrefix
          <6> QED BY <6>1, <4>5, <1>1, <1>3, ExtendsTrans
        <5>2. CASE Len(f) > Len(P)
          <6>1. Len(C.log) = Len(P) /\ Len(f) = Len(P) + 1
            BY <5>2, <4>1, <4>7, <1>1, ExtendsLen
          <6>2. C.tail # NoTail
            BY <4>1, <4>7 DEF NoTail, Tails
          <6>3. C.tail.epoch > 0 /\ Len(C.tail.entry) = Len(C.log) + 1
            BY <3>2, <6>2 DEF BasisOf, TailOf
          <6>4. C.tail \in LiveTails(B, D)
            BY <6>1, <6>3, <4>1, <1>1, ExtendsLen DEF LiveTails
          <6>5. /\ Carried(B, D) \in LiveTails(B, D)
                /\ C.tail.epoch <= Carried(B, D).epoch
                /\ E = Carried(B, D).entry
            BY <6>4, <1>3, CarriedHighest
          <6>6. Len(E) = Len(P) + 1
            BY <6>5 DEF BasesAgree
          <6>7. PICK w \in Voters : Voted(w, Carried(B, D).epoch, E)
            BY <6>5 DEF LiveTails, BasisOf, TailOf, NoTail
          <6>8. Carried(B, D).epoch \in Nat /\ C.tail.epoch \in Nat
            BY <6>5, <1>1, <4>1 DEF LiveTails, Tails
          <6>9. Carried(B, D).epoch = c
            BY <6>5, <6>7, <6>8, <4>7, <2>2, <1>3, ExtendsSelf
          <6>10. Extends(E, f) \/ Extends(f, E)
            BY <3>2, <6>7, <6>9, <4>1, <1>3 DEF ChainInv
          <6> QED BY <6>1, <6>6, <6>10, <1>3, ExtendsLen
        <5> QED BY <5>1, <5>2, <1>1, ExtendsLen
      <4> QED BY <4>3, <4>4, <4>6, <4>7 DEF Covers
    <3>3. \A v \in {p, q}, f \in Entries : Voted(v, c, f) => Extends(E, f)
      BY <3>2
    <3> QED BY <3>1, <3>3, PairIsQuorum
  <2> QED BY <2>1, <2>2
<1> QED BY <1>1, <1>2, <1>3, <1>4

-----------------------------------------------------------------------------
(* What a step never takes back *)

\* Promises and votes only grow, a vote is cast at the promise or above, and
\* a proven prefix is only extended.
Grows ==
  /\ votes \subseteq votes'
  /\ \A v \in Voters :
       /\ promise[v].epoch \in Nat
       /\ promise'[v].epoch \in Nat
       /\ promise[v].epoch <= promise'[v].epoch
       /\ Extends(log'[v], log[v])
  /\ \A v \in Voters, c \in Nat, e \in Entries :
       Voted(v, c, e)' => Voted(v, c, e) \/ promise[v].epoch <= c

\* What was accepted stays accepted.
LEMMA VotedGrows ==
  ASSUME Grows, NEW v, NEW c, NEW e, Voted(v, c, e)
  PROVE  Voted(v, c, e)'
  BY DEF Grows, Voted

\* What was chosen stays chosen.
LEMMA ChosenGrows ==
  ASSUME Grows, NEW c, NEW e, Chosen(c, e)
  PROVE  Chosen(c, e)'
  BY DEF Grows, Chosen, Voted

\* What is safe stays safe.
LEMMA SafeGrows ==
  ASSUME Grows, NEW b \in Nat, NEW e \in Entries, SafeAt(b, e)
  PROVE  SafeAt(b, e)'
<1> SUFFICES ASSUME NEW c \in Nat, c < b
             PROVE  \E Q \in Quorums : \A v \in Q :
                      /\ promise'[v].epoch > c
                      /\ \A f \in Entries : Voted(v, c, f)' => Extends(e, f)
  BY DEF SafeAt
<1>1. PICK Q \in Quorums : \A v \in Q :
        /\ promise[v].epoch > c
        /\ \A f \in Entries : Voted(v, c, f) => Extends(e, f)
  BY DEF SafeAt
<1>2. \A v \in Q : v \in Voters
  BY DEF Quorums
<1>3. \A v \in Q : promise'[v].epoch > c /\ ~ (promise[v].epoch <= c)
  BY <1>1, <1>2 DEF Grows
<1>4. \A v \in Q, f \in Entries : Voted(v, c, f)' => Extends(e, f)
  BY <1>1, <1>2, <1>3 DEF Grows
<1> QED BY <1>3, <1>4

\* What extends a safe entry is safe.
LEMMA SafeExtends ==
  ASSUME NEW b \in Nat, NEW e \in Entries, NEW g \in Entries, SafeAt(b, e), Extends(g, e)
  PROVE  SafeAt(b, g)
  BY ExtendsTrans DEF SafeAt

\* A chosen prefix stays chosen.
LEMMA PrefixGrows ==
  ASSUME Grows, NEW L \in Entries, NEW r \in Nat, ChosenPrefix(L, r)
  PROVE  ChosenPrefix(L, r)'
  BY ChosenGrows DEF ChosenPrefix

\* A replaced vote stays replaced, also for a longer prefix and a later bound.
LEMMA SupersededGrows ==
  ASSUME Grows, NEW c \in Nat, NEW L \in Entries, NEW M \in Entries, Extends(M, L),
         NEW r \in Nat, NEW q \in Nat, r <= q, Superseded(c, L, r)
  PROVE  Superseded(c, M, q)'
<1>1. PICK d \in Nat, w \in Voters, g \in Entries :
        c < d /\ d <= r /\ Voted(w, d, g) /\ Extends(L, g)
  BY DEF Superseded
<1>2. Voted(w, d, g)' /\ Extends(M, g) /\ d <= q
  BY <1>1, VotedGrows, ExtendsTrans
<1> QED BY <1>1, <1>2 DEF Superseded

\* What the prefix and the acceptance of a voter cover stays covered when the
\* bound grows.
LEMMA CoversGrows ==
  ASSUME Grows, NEW c \in Nat, NEW f \in Entries, NEW L \in Entries,
         NEW r \in Nat, NEW q \in Nat, r <= q, NEW t \in Tails, Covers(c, f, L, r, t)
  PROVE  Covers(c, f, L, q, t)'
<1>1. CASE Superseded(c, L, r)
  BY <1>1, SupersededGrows, ExtendsSelf DEF Covers
<1> QED BY <1>1 DEF Covers

\* An acceptance and a frozen basis keep their meaning.
LEMMA TailGrows ==
  ASSUME Grows, NEW v, NEW L, NEW t, TailOf(v, L, t)
  PROVE  TailOf(v, L, t)'
  BY VotedGrows DEF TailOf

\* A frozen basis keeps its meaning.
LEMMA BasisGrows ==
  ASSUME Grows, NEW v \in Voters, NEW B \in Bases, BasisOf(v, B)
  PROVE  BasisOf(v, B)'
<1>1. /\ B.ballot.epoch \in Nat /\ B.proofEpoch \in Nat
      /\ B.log \in Entries /\ B.tail \in Tails
  BY DEF Bases, Ballots
<1>2. B.ballot.epoch <= promise'[v].epoch
  BY <1>1 DEF BasisOf, Grows
<1>3. ChosenPrefix(B.log, B.proofEpoch)' /\ TailOf(v, B.log, B.tail)'
  BY <1>1, PrefixGrows, TailGrows DEF BasisOf
<1>4. ASSUME NEW c \in Nat, NEW f \in Entries, c < B.ballot.epoch, Voted(v, c, f)'
      PROVE  Covers(c, f, B.log, B.ballot.epoch, B.tail)'
  <2>1. Voted(v, c, f)
    BY <1>4, <1>1 DEF Grows, BasisOf
  <2>2. Covers(c, f, B.log, B.ballot.epoch, B.tail)
    BY <2>1, <1>4 DEF BasisOf
  <2> QED BY <2>2, <1>1, CoversGrows
<1> QED BY <1>2, <1>3, <1>4 DEF BasisOf

-----------------------------------------------------------------------------
(* The durable steps preserve what the votes and the voters' files say *)

\* The part of the invariant about votes and files.
VoteInvs == VotesInv /\ ChainInv /\ VoterInv

\* The fields of a voter have their types.
LEMMA VoterTypes ==
  ASSUME AuthorityTypes, NEW v \in Voters
  PROVE  /\ promise[v] \in Ballots /\ promise[v].epoch \in Nat
         /\ log[v] \in Entries /\ proofEpoch[v] \in Nat
         /\ tail[v] \in Tails /\ tail[v].epoch \in Nat /\ tail[v].entry \in Entries
         /\ basis[v] \in Bases
  BY DEF AuthorityTypes, Ballots, Tails

\* A step that casts no vote keeps the invariants of the votes.
LEMMA NoVoteStep ==
  ASSUME AuthorityTypes, Grows, VotesInv, ChainInv, votes' = votes
  PROVE  VotesInv' /\ ChainInv'
<1>1. \A v, c, f : Voted(v, c, f)' <=> Voted(v, c, f)
  BY DEF Voted
<1>2. VotesInv'
  <2> SUFFICES ASSUME NEW v \in Voters, NEW c \in Nat, NEW f \in Entries, Voted(v, c, f)
               PROVE  /\ c > 0 /\ c <= promise'[v].epoch /\ Len(f) > 0
                      /\ SafeAt(c, f)'
                      /\ \A p \in Voters : Owns(p, c) => Voted(p, c, f)
    BY <1>1 DEF VotesInv, Owns
  <2>1. /\ c > 0 /\ c <= promise[v].epoch /\ Len(f) > 0 /\ SafeAt(c, f)
        /\ \A p \in Voters : Owns(p, c) => Voted(p, c, f)
    BY DEF VotesInv
  <2>2. c <= promise'[v].epoch
    BY <2>1 DEF Grows
  <2>3. SafeAt(c, f)'
    BY <2>1, SafeGrows
  <2> QED BY <2>1, <2>2, <2>3
<1>3. ChainInv'
  BY <1>1 DEF ChainInv
<1> QED BY <1>2, <1>3

\* A voter whose files do not change and that casts no vote keeps its part.
LEMMA IdleVoter ==
  ASSUME AuthorityTypes, Grows, NEW v \in Voters, VoterOf(v),
         promise'[v] = promise[v], basis'[v] = basis[v], log'[v] = log[v],
         proofEpoch'[v] = proofEpoch[v], tail'[v] = tail[v],
         \A c \in Nat, f \in Entries : Voted(v, c, f)' => Voted(v, c, f)
  PROVE  VoterOf(v)'
<1> USE VoterTypes
<1>1. ChosenPrefix(log[v], proofEpoch[v])'
  BY PrefixGrows DEF VoterOf
<1>2. TailOf(v, log[v], tail[v])'
  BY TailGrows DEF VoterOf
<1>3. BasisOf(v, basis[v])'
  BY BasisGrows DEF VoterOf
<1>4. ASSUME NEW c \in Nat, NEW f \in Entries, Voted(v, c, f)'
      PROVE  Covers(c, f, log[v], promise[v].epoch, tail[v])'
  <2>1. Covers(c, f, log[v], promise[v].epoch, tail[v])
    BY <1>4 DEF VoterOf
  <2> QED BY <2>1, CoversGrows
<1> QED BY <1>1, <1>2, <1>3, <1>4 DEF VoterOf

\* A step that leaves the files alone keeps the invariants.
LEMMA FilesUnchanged ==
  ASSUME AuthorityTypes, VoteInvs, UNCHANGED <<promise, basis, log, proofEpoch, tail, votes>>
  PROVE  Grows /\ VoteInvs'
<1>1. Grows
  BY VoterTypes, ExtendsSelf DEF Grows, Voted
<1>2. VoterInv'
  <2> SUFFICES ASSUME NEW v \in Voters PROVE VoterOf(v)'
    BY DEF VoterInv
  <2>1. VoterOf(v)
    BY DEF VoteInvs, VoterInv
  <2>2. \A c \in Nat, f \in Entries : Voted(v, c, f)' => Voted(v, c, f)
    BY DEF Voted
  <2> QED BY <1>1, <2>1, <2>2, IdleVoter
<1> QED BY <1>1, <1>2, NoVoteStep DEF VoteInvs

\* A higher promise, with the basis frozen for it or lost, keeps them.
LEMMA PrepareStep ==
  ASSUME AuthorityTypes, VoteInvs, NEW v \in Voters, NEW b \in Ballots, NEW froze \in BOOLEAN,
         Prepare(v, b, froze)
  PROVE  Grows /\ VoteInvs'
<1>1. /\ promise[v].epoch < b.epoch /\ b.epoch \in Nat
      /\ promise' = [promise EXCEPT ![v] = b]
      /\ basis' = [basis EXCEPT ![v] = IF froze THEN Frozen(v, b) ELSE NoBasis]
      /\ log' = log /\ proofEpoch' = proofEpoch /\ tail' = tail /\ votes' = votes
  BY DEF Prepare, Ballots
<1>2. promise'[v] = b /\ \A w \in Voters : w # v => promise'[w] = promise[w] /\ basis'[w] = basis[w]
  BY <1>1 DEF AuthorityTypes
<1>3. basis'[v] = IF froze THEN Frozen(v, b) ELSE NoBasis
  BY <1>1 DEF AuthorityTypes
<1>4. Grows
  BY <1>1, <1>2, VoterTypes, ExtendsSelf DEF Grows, Voted
<1>5. \A w, c, f : Voted(w, c, f)' <=> Voted(w, c, f)
  BY <1>1 DEF Voted
<1>6. ASSUME NEW w \in Voters, w # v PROVE VoterOf(w)'
  <2>1. VoterOf(w)
    BY DEF VoteInvs, VoterInv
  <2> QED BY <1>1, <1>2, <1>4, <1>5, <1>6, <2>1, IdleVoter
<1>7. VoterOf(v)'
  <2> USE VoterTypes
  <2>1. VoterOf(v)
    BY DEF VoteInvs, VoterInv
  <2>2. ChosenPrefix(log[v], proofEpoch[v])'
    BY <1>1, <1>4, <2>1, PrefixGrows DEF VoterOf
  <2>3. TailOf(v, log[v], tail[v])'
    BY <1>1, <1>4, <2>1, TailGrows DEF VoterOf
  <2>4. \A c \in Nat, f \in Entries :
          Voted(v, c, f)' => Covers(c, f, log[v], b.epoch, tail[v])'
    <3> SUFFICES ASSUME NEW c \in Nat, NEW f \in Entries, Voted(v, c, f)
                 PROVE  Covers(c, f, log[v], b.epoch, tail[v])'
      BY <1>5
    <3>1. Covers(c, f, log[v], promise[v].epoch, tail[v])
      BY <2>1 DEF VoterOf
    <3>2. promise[v].epoch <= b.epoch
      BY <1>1
    <3> QED BY <1>1, <1>4, <3>1, <3>2, CoversGrows
  <2>5. BasisOf(v, basis[v])'
    <3>1. CASE froze
      <4>1. /\ basis'[v].ballot = b /\ basis'[v].log = log'[v]
            /\ basis'[v].proofEpoch = proofEpoch'[v] /\ basis'[v].tail = tail'[v]
        BY <1>1, <1>3, <3>1 DEF Frozen
      <4>2. proofEpoch'[v] <= b.epoch
        BY <1>1, <2>1 DEF VoterOf
      <4> QED BY <1>1, <1>2, <2>2, <2>3, <2>4, <4>1, <4>2 DEF BasisOf
    <3>2. CASE ~froze
      <4>1. /\ basis'[v].ballot.epoch = 0 /\ basis'[v].log = <<>>
            /\ basis'[v].proofEpoch = 0 /\ basis'[v].tail = NoTail
        BY <1>3, <3>2 DEF NoBasis, NoBallot
      <4>2. ChosenPrefix(basis[v].log, basis[v].proofEpoch)'
        BY <4>1, ExtendsEmpty DEF ChosenPrefix
      <4>3. TailOf(v, basis[v].log, basis[v].tail)'
        BY <4>1 DEF TailOf
      <4> QED BY <1>1, <1>2, <4>1, <4>2, <4>3 DEF BasisOf
    <3> QED BY <3>1, <3>2
  <2>6. /\ promise'[v].epoch > 0 /\ proofEpoch'[v] <= promise'[v].epoch
        /\ tail'[v].epoch <= promise'[v].epoch
    BY <1>1, <1>2, <2>1 DEF VoterOf
  <2> QED BY <1>1, <1>2, <2>2, <2>3, <2>4, <2>5, <2>6 DEF VoterOf
<1>8. VoterInv'
  BY <1>6, <1>7 DEF VoterInv
<1> QED BY <1>1, <1>4, <1>8, NoVoteStep DEF VoteInvs

\* A longer chosen prefix that covers the unresolved acceptance keeps them.
LEMMA CutStep ==
  ASSUME AuthorityTypes, VoteInvs, NEW v \in Voters, NEW P \in Entries, NEW r \in Nat,
         ChosenPrefix(P, r), r <= promise[v].epoch, Extends(P, log[v]),
         tail[v] = NoTail \/ Len(tail[v].entry) <= Len(P),
         log' = [log EXCEPT ![v] = P],
         proofEpoch' = [proofEpoch EXCEPT ![v] = r],
         tail' = [tail EXCEPT ![v] = NoTail],
         UNCHANGED <<promise, basis, votes>>
  PROVE  Grows /\ VoteInvs'
<1> USE VoterTypes
<1>1. /\ log'[v] = P /\ proofEpoch'[v] = r /\ tail'[v] = NoTail
      /\ \A w \in Voters : w # v =>
           log'[w] = log[w] /\ proofEpoch'[w] = proofEpoch[w] /\ tail'[w] = tail[w]
  BY DEF AuthorityTypes
<1>2. Grows
  BY <1>1, ExtendsSelf DEF Grows, Voted
<1>3. \A w, c, f : Voted(w, c, f)' <=> Voted(w, c, f)
  BY DEF Voted
<1>4. ASSUME NEW w \in Voters, w # v PROVE VoterOf(w)'
  <2>1. VoterOf(w)
    BY DEF VoteInvs, VoterInv
  <2> QED BY <1>1, <1>2, <1>3, <1>4, <2>1, IdleVoter
<1>5. VoterOf(v)'
  <2>1. VoterOf(v)
    BY DEF VoteInvs, VoterInv
  <2>2. ChosenPrefix(log[v], proofEpoch[v])'
    BY <1>1, <1>2, PrefixGrows
  <2>3. TailOf(v, log[v], tail[v])'
    BY <1>1 DEF TailOf
  <2>4. BasisOf(v, basis[v])'
    BY <1>2, <2>1, BasisGrows DEF VoterOf
  <2>5. ASSUME NEW c \in Nat, NEW f \in Entries, Voted(v, c, f)
        PROVE  Covers(c, f, log[v], promise[v].epoch, tail[v])'
    <3>1. CASE Extends(log[v], f)
      BY <3>1, <1>1, ExtendsTrans DEF Covers
    <3>2. CASE Superseded(c, log[v], promise[v].epoch)
      <4>1. Superseded(c, P, promise[v].epoch)'
        BY <3>2, <1>2, SupersededGrows
      <4> QED BY <4>1, <1>1 DEF Covers
    <3>3. CASE tail[v].epoch >= c /\ Len(f) <= Len(log[v]) + 1
      <4>1. c > 0
        BY <2>5 DEF VoteInvs, VotesInv
      <4>2. tail[v] # NoTail
        BY <3>3, <4>1 DEF NoTail
      <4>3. Len(tail[v].entry) = Len(log[v]) + 1
        BY <4>2, <2>1 DEF VoterOf, TailOf
      <4>4. Len(f) <= Len(P)
        BY <4>2, <4>3, <3>3, ExtendsLen
      <4>5. Extends(P, f) \/ Superseded(c, P, r)
        BY <4>4, <2>5, VoteMeetsPrefix DEF VoteInvs
      <4>6. CASE Superseded(c, P, r)
        <5>1. Superseded(c, P, promise[v].epoch)'
          BY <4>6, <1>2, SupersededGrows, ExtendsSelf
        <5> QED BY <5>1, <1>1 DEF Covers
      <4> QED BY <4>5, <4>6, <1>1 DEF Covers
    <3>4. Covers(c, f, log[v], promise[v].epoch, tail[v])
      BY <2>1, <2>5 DEF VoterOf
    <3> QED BY <3>1, <3>2, <3>3, <3>4 DEF Covers
  <2>6. promise'[v].epoch > 0 /\ tail'[v].epoch <= promise'[v].epoch
    BY <1>1, <2>1 DEF VoterOf, NoTail
  <2> QED BY <1>1, <1>3, <2>2, <2>3, <2>4, <2>5, <2>6 DEF VoterOf
<1>6. VoterInv'
  BY <1>4, <1>5 DEF VoterInv
<1> QED BY <1>2, <1>6, NoVoteStep DEF VoteInvs

\* A proof of a chosen entry keeps them.
LEMMA ProveStep ==
  ASSUME AuthorityTypes, VoteInvs, NEW v \in Voters, NEW b \in Ballots, NEW e \in Entries,
         Prove(v, b, e), Chosen(b.epoch, e)
  PROVE  Grows /\ VoteInvs' /\ log'[v] = e /\ Extends(e, log[v])
<1> USE VoterTypes
<1>1. /\ promise[v] = b /\ b.epoch \in Nat
      /\ tail[v].epoch = b.epoch /\ tail[v].entry = e
      /\ log' = [log EXCEPT ![v] = e]
      /\ proofEpoch' = [proofEpoch EXCEPT ![v] = b.epoch]
      /\ tail' = [tail EXCEPT ![v] = NoTail]
      /\ UNCHANGED <<promise, basis, votes>>
  BY DEF Prove, MayProve, Ballots
<1>2. VoterOf(v)
  BY DEF VoteInvs, VoterInv
<1>3. Len(e) = Len(log[v]) + 1 /\ Extends(e, log[v])
  <2>1. tail[v] # NoTail
    BY <1>1, <1>2 DEF VoterOf, NoTail
  <2> QED BY <1>1, <1>2, <2>1 DEF VoterOf, TailOf
<1>4. ChosenPrefix(e, b.epoch)
  <2> SUFFICES ASSUME NEW i \in 1..Len(e)
               PROVE  \E c \in Nat, g \in Entries :
                        c <= b.epoch /\ Len(g) = i /\ Extends(e, g) /\ Chosen(c, g)
    BY DEF ChosenPrefix
  <2>1. CASE i = Len(e)
    BY <2>1, <1>1, ExtendsSelf
  <2>2. CASE i # Len(e)
    <3>1. i \in 1..Len(log[v])
      BY <2>2, <1>3, ExtendsLen
    <3>2. PICK c \in Nat, g \in Entries :
            c <= proofEpoch[v] /\ Len(g) = i /\ Extends(log[v], g) /\ Chosen(c, g)
      BY <3>1, <1>2 DEF VoterOf, ChosenPrefix
    <3>3. c <= b.epoch
      BY <3>2, <1>1, <1>2 DEF VoterOf
    <3>4. Extends(e, g)
      BY <3>2, <1>3, ExtendsTrans
    <3> QED BY <3>2, <3>3, <3>4
  <2> QED BY <2>1, <2>2
<1>5. Len(tail[v].entry) <= Len(e) /\ b.epoch <= promise[v].epoch
  BY <1>1, ExtendsLen
<1>6. Grows /\ VoteInvs'
  BY <1>1, <1>3, <1>4, <1>5, CutStep
<1>7. log'[v] = e
  BY <1>1 DEF AuthorityTypes
<1> QED BY <1>3, <1>6, <1>7

\* An acceptance that is safe at its ballot, comparable with every other vote
\* of the ballot and cast by the ballot's owner first, keeps them.
LEMMA AcceptStep ==
  ASSUME AuthorityTypes, VoteInvs, NEW v \in Voters, NEW b \in Ballots, NEW e \in Entries,
         Accept(v, b, e), SafeAt(b.epoch, e),
         \A p \in Voters : Owns(p, b.epoch) => p = v \/ Voted(p, b.epoch, e),
         \A w \in Voters, f \in Entries :
           Voted(w, b.epoch, f) => Extends(e, f) \/ Extends(f, e)
  PROVE  Grows /\ VoteInvs' /\ Voted(v, b.epoch, e)'
<1> USE VoterTypes
<1>1. /\ promise[v] = b /\ b.epoch \in Nat
      /\ Len(e) = Len(log[v]) + 1 /\ Extends(e, log[v])
      /\ votes' = votes \union {<<v, b.epoch, e>>}
      /\ log' = log /\ proofEpoch' = proofEpoch /\ promise' = promise /\ basis' = basis
  BY DEF Accept, MayAccept, Ballots
<1>2. /\ tail'[v] = [epoch |-> b.epoch, entry |-> e]
      /\ \A w \in Voters : w # v => tail'[w] = tail[w]
  BY DEF AuthorityTypes, Accept
<1>3. \A w, c, f : Voted(w, c, f)' <=> (Voted(w, c, f) \/ (w = v /\ c = b.epoch /\ f = e))
  BY <1>1 DEF Voted
<1>4. Grows
  <2>1. votes \subseteq votes'
    BY <1>1
  <2>2. \A w \in Voters, c \in Nat, f \in Entries :
          Voted(w, c, f)' => Voted(w, c, f) \/ promise[w].epoch <= c
    BY <1>1, <1>3
  <2>3. \A w \in Voters : Extends(log'[w], log[w])
    BY <1>1, ExtendsSelf
  <2> QED BY <1>1, <2>1, <2>2, <2>3 DEF Grows
<1>5. VoterOf(v)
  BY DEF VoteInvs, VoterInv
<1>6. VotesInv'
  <2> SUFFICES ASSUME NEW w \in Voters, NEW c \in Nat, NEW f \in Entries, Voted(w, c, f)'
               PROVE  /\ c > 0 /\ c <= promise'[w].epoch /\ Len(f) > 0
                      /\ SafeAt(c, f)'
                      /\ \A p \in Voters : Owns(p, c) => Voted(p, c, f)'
    BY DEF VotesInv, Owns
  <2>1. CASE Voted(w, c, f)
    <3>1. /\ c > 0 /\ c <= promise[w].epoch /\ Len(f) > 0 /\ SafeAt(c, f)
          /\ \A p \in Voters : Owns(p, c) => Voted(p, c, f)
      BY <2>1 DEF VoteInvs, VotesInv
    <3> QED BY <1>1, <1>4, <3>1, SafeGrows, VotedGrows
  <2>2. CASE w = v /\ c = b.epoch /\ f = e
    <3>1. c > 0 /\ c <= promise'[w].epoch
      BY <2>2, <1>1, <1>5 DEF VoterOf
    <3>2. Len(f) > 0
      BY <2>2, <1>1, ExtendsLen
    <3>3. SafeAt(c, f)'
      BY <2>2, <1>4, SafeGrows
    <3>4. \A p \in Voters : Owns(p, c) => Voted(p, c, f)'
      BY <2>2, <1>3
    <3> QED BY <3>1, <3>2, <3>3, <3>4
  <2> QED BY <1>3, <2>1, <2>2
<1>7. ChainInv'
  <2> SUFFICES ASSUME NEW u \in Voters, NEW w \in Voters, NEW c \in Nat,
                      NEW f \in Entries, NEW g \in Entries, Voted(u, c, f)', Voted(w, c, g)'
               PROVE  Extends(f, g) \/ Extends(g, f)
    BY DEF ChainInv
  <2>1. CASE Voted(u, c, f) /\ Voted(w, c, g)
    BY <2>1 DEF VoteInvs, ChainInv
  <2>2. CASE Voted(u, c, f) /\ c = b.epoch /\ g = e
    BY <2>2
  <2>3. CASE Voted(w, c, g) /\ c = b.epoch /\ f = e
    BY <2>3
  <2>4. CASE f = e /\ g = e
    BY <2>4, ExtendsSelf
  <2> QED BY <1>3, <2>1, <2>2, <2>3, <2>4
<1>8. ASSUME NEW w \in Voters, w # v PROVE VoterOf(w)'
  <2>1. VoterOf(w)
    BY DEF VoteInvs, VoterInv
  <2>2. \A c \in Nat, f \in Entries : Voted(w, c, f)' => Voted(w, c, f)
    BY <1>3, <1>8
  <2> QED BY <1>1, <1>2, <1>4, <1>8, <2>1, <2>2, IdleVoter
<1>9. VoterOf(v)'
  <2>1. ChosenPrefix(log[v], proofEpoch[v])'
    BY <1>1, <1>4, <1>5, PrefixGrows DEF VoterOf
  <2>2. TailOf(v, log[v], tail[v])'
    BY <1>1, <1>2, <1>3, <1>5 DEF VoterOf, TailOf
  <2>3. BasisOf(v, basis[v])'
    BY <1>1, <1>4, <1>5, BasisGrows DEF VoterOf
  <2>4. ASSUME NEW c \in Nat, NEW f \in Entries, Voted(v, c, f)'
        PROVE  Covers(c, f, log[v], promise[v].epoch, tail[v])'
    <3>1. CASE Voted(v, c, f)
      <4>1. Covers(c, f, log[v], promise[v].epoch, tail[v])
        BY <3>1, <1>5 DEF VoterOf
      <4>2. CASE Superseded(c, log[v], promise[v].epoch)
        <5>1. Superseded(c, log[v], promise[v].epoch)'
          BY <1>1, <1>4, <4>2, SupersededGrows, ExtendsSelf
        <5> QED BY <5>1 DEF Covers
      <4>3. CASE tail[v].epoch >= c /\ Len(f) <= Len(log[v]) + 1
        <5>1. tail'[v].epoch >= c
          BY <1>1, <1>2, <1>5, <4>3 DEF VoterOf
        <5> QED BY <1>1, <4>3, <5>1 DEF Covers
      <4> QED BY <1>1, <4>1, <4>2, <4>3 DEF Covers
    <3>2. CASE c = b.epoch /\ f = e
      BY <3>2, <1>1, <1>2, ExtendsLen DEF Covers
    <3> QED BY <1>3, <2>4, <3>1, <3>2
  <2>5. /\ promise'[v].epoch > 0 /\ proofEpoch'[v] <= promise'[v].epoch
        /\ tail'[v].epoch <= promise'[v].epoch
    BY <1>1, <1>2, <1>5 DEF VoterOf
  <2> QED BY <2>1, <2>2, <2>3, <2>4, <2>5 DEF VoterOf
<1>10. VoterInv'
  BY <1>8, <1>9 DEF VoterInv
<1> QED BY <1>3, <1>4, <1>6, <1>7, <1>10 DEF VoteInvs

-----------------------------------------------------------------------------
(* Types *)

\* The part of AuthorityTypes about the files.
FileTypes ==
  /\ promise \in [Voters -> Ballots]
  /\ basis \in [Voters -> Bases]
  /\ selected \in [Voters -> Selections]
  /\ log \in [Voters -> Entries]
  /\ proofEpoch \in [Voters -> Nat]
  /\ tail \in [Voters -> Tails]
  /\ votes \subseteq Voters \X Nat \X Entries

\* The records that stand for an absent file have the types of the present.
LEMMA AbsentTypes ==
  /\ Genesis \in Ballots /\ NoBallot \in Ballots /\ NoTail \in Tails /\ NoBasis \in Bases
  /\ NoSelection \in Selections /\ Idle \in Campaigns
<1>1. NoBallot \in Ballots /\ Genesis \in Ballots
  BY DEF NoBallot, Genesis, Ballots, IncarnationsOrNone
<1>2. NoTail \in Tails
  BY ExtendsEmpty DEF NoTail, Tails
<1>3. NoBasis \in Bases
  BY <1>1, <1>2, ExtendsEmpty DEF NoBasis, Bases
<1>4. NoSelection \in Selections
  BY <1>1, ExtendsEmpty DEF NoSelection, Selections
<1>5. Idle \in Campaigns
  BY <1>1, ExtendsEmpty DEF Idle, Campaigns
<1> QED BY <1>1, <1>2, <1>3, <1>4, <1>5

\* What a message of each type carries.
LEMMA MessageTypes ==
  ASSUME NEW m \in Messages
  PROVE  /\ m.ballot \in Ballots
         /\ m.type = "PROMISE" => m.from \in Voters /\ m.basis \in Bases
         /\ m.type = "INSTALL" => m.to \in Voters /\ m.own \in Bases /\ m.peer \in Bases
         /\ m.type = "INSTALLED" => m.from \in Voters
         /\ m.type \in {"ACCEPT", "PROOF"} => m.to \in Voters /\ m.entry \in Entries
         /\ m.type \in {"ACCEPTED", "PROVEN"} => m.from \in Voters /\ m.entry \in Entries
         /\ m.type = "SNAPSHOT" => m.log \in Entries /\ m.proofEpoch \in Nat
  BY DEF Messages

\* A selection made from two bases is a selection.
LEMMA SelectionTypes ==
  ASSUME NEW B \in Bases, NEW D \in Bases
  PROVE  Selection(B, D) \in Selections
<1>1. /\ B.ballot \in Ballots /\ B.tail \in Tails /\ D.tail \in Tails
      /\ Longest(B, D).log \in Entries /\ Longest(B, D).proofEpoch \in Nat
  BY DEF Bases, Longest
<1>2. ASSUME LiveTails(B, D) # {} PROVE Carried(B, D).entry \in Entries
  <2>1. Carried(B, D) \in LiveTails(B, D)
    BY <1>2, CarriedHighest
  <2> QED BY <2>1, <1>1 DEF LiveTails, Tails
<1>3. (IF LiveTails(B, D) = {} THEN <<>> ELSE Carried(B, D).entry) \in Entries
  BY <1>2, ExtendsEmpty
<1> QED BY <1>1, <1>3 DEF Selection, Selections

\* A promise and its basis keep the types of the files.
LEMMA PrepareTypes ==
  ASSUME AuthorityTypes, NEW v \in Voters, NEW b \in Ballots, NEW froze \in BOOLEAN, Prepare(v, b, froze)
  PROVE  FileTypes' /\ Frozen(v, b) \in Bases
<1>1. Frozen(v, b) \in Bases
  BY VoterTypes DEF Frozen, Bases
<1> QED BY <1>1, AbsentTypes DEF Prepare, AuthorityTypes, FileTypes

\* Selecting and adopting keeps the types of the files.
LEMMA SelectTypes ==
  ASSUME AuthorityTypes, NEW v \in Voters, NEW s \in Selections, NEW adopted \in BOOLEAN,
         SelectAndAdopt(v, s, adopted)
  PROVE  FileTypes'
<1>1. s.prefix \in Entries /\ s.proofEpoch \in Nat
  BY DEF Selections
<1> QED BY <1>1, AbsentTypes DEF SelectAndAdopt, AuthorityTypes, FileTypes

\* An acceptance keeps the types of the files.
LEMMA AcceptTypes ==
  ASSUME AuthorityTypes, NEW v \in Voters, NEW b \in Ballots, NEW e \in Entries, Accept(v, b, e)
  PROVE  FileTypes'
<1>1. b.epoch \in Nat /\ [epoch |-> b.epoch, entry |-> e] \in Tails
  BY DEF Ballots, Tails
<1> QED BY <1>1 DEF Accept, AuthorityTypes, FileTypes

\* A proof and an installed snapshot keep the types of the files.
LEMMA ProveTypes ==
  ASSUME AuthorityTypes, NEW v \in Voters, NEW b \in Ballots, NEW e \in Entries, Prove(v, b, e)
  PROVE  FileTypes'
<1>1. b.epoch \in Nat
  BY DEF Ballots
<1> QED BY <1>1, AbsentTypes DEF Prove, AuthorityTypes, FileTypes

-----------------------------------------------------------------------------
(* Campaigns and messages *)

\* An epoch has one owner, and a campaign draws one of its voter's own.
LEMMA OneOwner ==
  ASSUME NEW p \in Voters, NEW q \in Voters, NEW c, Owns(p, c), Owns(q, c)
  PROVE  p = q
  BY RankAssumption DEF Owns

\* The epoch a campaign draws is its voter's own and above all it observed.
LEMMA NextEpochOwned ==
  ASSUME NEW v \in Voters, NEW o \in Nat \ {0}
  PROVE  NextEpoch(o, Rank[v]) \in Nat /\ Owns(v, NextEpoch(o, Rank[v]))
<1> DEFINE k == IF o = 1 THEN 0 ELSE (o - 2) \div 3 + 1
<1>1. k \in Nat /\ Rank[v] \in 0..2
  BY RankAssumption
<1>2. NextEpoch(o, Rank[v]) = k * 3 + Rank[v] + 2
  BY DEF NextEpoch
<1>3. k * 3 + Rank[v] + 2 \in Nat /\ k * 3 + Rank[v] + 2 >= 2
        /\ ((k * 3 + Rank[v] + 2) - 2) % 3 = Rank[v]
  <2> HIDE DEF k
  <2> QED BY <1>1
<1> HIDE DEF k
<1> QED BY <1>2, <1>3 DEF Owns

\* The step leaves every voter but v alone.
Others(v) ==
  \A w \in Voters : w # v =>
    /\ promise'[w] = promise[w] /\ basis'[w] = basis[w]
    /\ selected'[w] = selected[w] /\ log'[w] = log[w]
    /\ campaign'[w] = campaign[w]

\* A voter that takes no part in a step keeps its campaign.
LEMMA IdleCampaign ==
  ASSUME AuthorityTypes, Grows, msgs \subseteq msgs', NEW p \in Voters, CampaignOf(p),
         promise'[p] = promise[p], basis'[p] = basis[p], selected'[p] = selected[p],
         log'[p] = log[p], campaign'[p] = campaign[p]
  PROVE  CampaignOf(p)'
<1>1. /\ campaign[p].ballot.epoch \in Nat
      /\ selected[p].next \in Entries /\ selected[p].prefix \in Entries
  BY DEF AuthorityTypes, Campaigns, Ballots, Selections
<1>2. Target(selected[p]) \in Entries
  BY <1>1 DEF Target
<1>3. SafeAt(campaign[p].ballot.epoch, Target(selected[p]))
        => SafeAt(campaign[p].ballot.epoch, Target(selected[p]))'
  BY <1>1, <1>2, SafeGrows DEF Target
<1>4. \A c, e : Voted(p, c, e) => Voted(p, c, e)'
  BY VotedGrows
<1> QED BY <1>3, <1>4 DEF CampaignOf

\* A message keeps its meaning.
LEMMA MessageGrows ==
  ASSUME AuthorityTypes, Grows, msgs \subseteq msgs', NEW m \in msgs, MsgBallot(m), MsgFacts(m)
  PROVE  MsgBallot(m)' /\ MsgFacts(m)'
<1>1. m \in Messages /\ m.ballot \in Ballots /\ m.ballot.epoch \in Nat
  BY MessageTypes DEF AuthorityTypes, Ballots
<1>2. m.ballot.proposer \in Voters /\ m.ballot.epoch <= promise'[m.ballot.proposer].epoch
  BY <1>1 DEF MsgBallot, Grows
<1>3. MsgBallot(m)'
  BY <1>2 DEF MsgBallot, Owns
<1>4. m.type = "PROMISE" => BasisOf(m.from, m.basis)'
  BY <1>1, MessageTypes, BasisGrows DEF MsgFacts
<1>5. m.type = "INSTALL" => BasisOf(m.ballot.proposer, m.own)' /\ BasisOf(m.to, m.peer)'
  BY <1>1, <1>2, MessageTypes, BasisGrows DEF MsgFacts
<1>6. m.type = "ACCEPT" => Voted(m.ballot.proposer, m.ballot.epoch, m.entry)'
  BY VotedGrows DEF MsgFacts
<1>7. m.type = "ACCEPTED" => Voted(m.from, m.ballot.epoch, m.entry)'
  BY VotedGrows DEF MsgFacts
<1>8. m.type = "PROOF" => Chosen(m.ballot.epoch, m.entry)'
  BY ChosenGrows DEF MsgFacts
<1>9. m.type = "SNAPSHOT" => ChosenPrefix(m.log, m.proofEpoch)'
  BY <1>1, MessageTypes, PrefixGrows DEF MsgFacts
<1>10. MsgFacts(m)'
  BY <1>4, <1>5, <1>6, <1>7, <1>8, <1>9 DEF MsgFacts
<1> QED BY <1>3, <1>10

\* A step of v that sends at most one message, of a known ballot or of a new
\* epoch, preserves the whole invariant when v's part and the message hold.
LEMMA ProtocolStep ==
  ASSUME IInv, NEW v \in Voters, FileTypes', campaign' \in [Voters -> Campaigns],
         Grows, VoteInvs', Others(v), CampaignOf(v)',
         \/ msgs' = msgs
         \/ \E m \in Messages :
              /\ msgs' = msgs \union {m}
              /\ MsgBallot(m)' /\ MsgFacts(m)'
              /\ \/ \E n \in msgs : n.ballot = m.ballot
                 \/ \A n \in msgs : n.ballot.epoch # m.ballot.epoch
  PROVE  IInv'
<1>1. msgs \subseteq msgs' /\ msgs' \subseteq Messages
  BY DEF IInv, AuthorityTypes
<1>2. AuthorityTypes'
  BY <1>1 DEF FileTypes, AuthorityTypes
<1>3. CampaignInv'
  BY <1>1, IdleCampaign DEF IInv, CampaignInv, Others
<1>4. MsgInv'
  <2>1. \A m \in msgs : MsgBallot(m)' /\ MsgFacts(m)'
    BY <1>1, MessageGrows DEF IInv, MsgInv
  <2>2. CASE msgs' = msgs
    BY <2>1, <2>2 DEF MsgInv
  <2>3. CASE \E m \in Messages : msgs' = msgs \union {m} /\ MsgBallot(m)' /\ MsgFacts(m)'
    <3>1. PICK m \in Messages : msgs' = msgs \union {m} /\ MsgBallot(m)' /\ MsgFacts(m)'
      BY <2>3
    <3>2. \A n \in msgs' : n \in msgs \/ n = m
      BY <3>1
    <3> QED BY <2>1, <3>1, <3>2 DEF MsgInv
  <2> QED BY <2>2, <2>3
<1>5. OneBallotPerEpoch'
  BY DEF IInv, OneBallotPerEpoch
<1> QED BY <1>2, <1>3, <1>4, <1>5 DEF IInv, VoteInvs

\* A message of a ballot that is known inherits its facts.
LEMMA KnownBallot ==
  ASSUME IInv, Grows, msgs \subseteq msgs', NEW n \in msgs, NEW m, m.ballot = n.ballot
  PROVE  MsgBallot(m)'
<1>1. MsgBallot(n)'
  BY MessageGrows DEF IInv, MsgInv
<1> QED BY <1>1 DEF MsgBallot

\* The facts of a running campaign's ballot.
LEMMA CampaignBallot ==
  ASSUME IInv, NEW v \in Voters, campaign[v].stage # "IDLE"
  PROVE  /\ campaign[v].ballot \in Ballots /\ campaign[v].ballot.epoch \in Nat
         /\ campaign[v].ballot.proposer = v
         /\ promise[v] = campaign[v].ballot
         /\ Owns(v, campaign[v].ballot.epoch)
         /\ \E n \in msgs : n.ballot = campaign[v].ballot
<1>1. /\ promise[v] = campaign[v].ballot
      /\ campaign[v].ballot.proposer = v
      /\ [type |-> "PREPARE", ballot |-> campaign[v].ballot] \in msgs
  BY DEF IInv, CampaignInv, CampaignOf
<1>2. Owns(v, campaign[v].ballot.epoch)
  BY <1>1 DEF IInv, MsgInv, MsgBallot
<1>3. campaign[v].ballot \in Ballots /\ campaign[v].ballot.epoch \in Nat
  BY DEF IInv, AuthorityTypes, Campaigns, Ballots
<1> QED BY <1>1, <1>2, <1>3

\* A voter whose promise is another's ballot drives no campaign.
LEMMA FollowerIsIdle ==
  ASSUME IInv, NEW v \in Voters, promise[v].proposer # v
  PROVE  campaign[v].stage = "IDLE"
  BY CampaignBallot

\* The typed facts of a received message.
LEMMA Received ==
  ASSUME IInv, NEW m \in msgs
  PROVE  /\ m \in Messages /\ m.ballot \in Ballots /\ m.ballot.epoch \in Nat
         /\ m.ballot.proposer \in Voters /\ Owns(m.ballot.proposer, m.ballot.epoch)
         /\ m.ballot.epoch <= promise[m.ballot.proposer].epoch
         /\ MsgFacts(m)
  BY MessageTypes DEF IInv, AuthorityTypes, MsgInv, MsgBallot, Ballots

\* A new campaign preserves the invariant.
LEMMA BeginCampaignStep ==
  ASSUME IInv, NEW v \in Voters, NEW observed \in Epochs \union {1},
         NEW inc \in Incarnations, NEW froze \in BOOLEAN,
         BeginCampaign(v, observed, inc, froze)
  PROVE  IInv' /\ Grows
<1> DEFINE b == [epoch |-> NextEpoch(observed, Rank[v]), proposer |-> v, inc |-> inc]
           m == [type |-> "PREPARE", ballot |-> b]
<1>1. b.epoch \in Nat /\ Owns(v, b.epoch) /\ b \in Ballots /\ b.proposer = v
  <2>1. observed \in Nat \ {0}
    BY BoundsAssumption
  <2>2. NextEpoch(observed, Rank[v]) \in Nat /\ Owns(v, NextEpoch(observed, Rank[v]))
    BY <2>1, NextEpochOwned
  <2> QED BY <2>2 DEF Ballots, IncarnationsOrNone
<1>2. /\ campaign[v] = Idle
      /\ Prepare(v, b, froze)
      /\ froze => /\ campaign' = [campaign EXCEPT ![v] =
                                     [Idle EXCEPT !.stage = "PREPARE", !.ballot = b]]
                  /\ msgs' = msgs \union {m}
      /\ ~froze => campaign' = campaign /\ msgs' = msgs
  BY DEF BeginCampaign, Send
<1> HIDE DEF b
<1>3. AuthorityTypes /\ VoteInvs
  BY DEF IInv, VoteInvs
<1>4. Grows /\ VoteInvs' /\ FileTypes'
  BY <1>1, <1>2, <1>3, PrepareStep, PrepareTypes
<1>5. promise'[v] = b /\ promise[v].epoch < b.epoch /\ log' = log
        /\ basis'[v] = IF froze THEN Frozen(v, b) ELSE NoBasis
  BY <1>2, <1>3 DEF Prepare, AuthorityTypes
<1>6. /\ campaign' \in [Voters -> Campaigns] /\ Others(v)
  <2>1. [Idle EXCEPT !.stage = "PREPARE", !.ballot = b] \in Campaigns
    BY <1>1, AbsentTypes DEF Campaigns
  <2> QED BY <1>2, <1>3, <2>1 DEF Prepare, AuthorityTypes, Others
<1>7. CASE froze
  <2>1. campaign'[v].stage = "PREPARE" /\ campaign'[v].ballot = b
    BY <1>2, <1>3, <1>7 DEF AuthorityTypes, Idle
  <2>2. CampaignOf(v)'
    BY <1>1, <1>2, <1>5, <1>7, <2>1 DEF CampaignOf, Frozen
  <2>3. MsgBallot(m)'
    BY <1>1, <1>2, <1>5, <1>7 DEF MsgBallot, Owns
  <2>4. MsgFacts(m)'
    BY DEF MsgFacts
  <2>5. m \in Messages
    BY <1>1 DEF Messages
  <2>6. \A n \in msgs : n.ballot.epoch # m.ballot.epoch
    <3> SUFFICES ASSUME NEW n \in msgs, n.ballot.epoch = b.epoch PROVE FALSE
      OBVIOUS
    <3>1. n.ballot.proposer = v
      BY <1>1, Received, OneOwner
    <3>2. n.ballot.epoch <= promise[v].epoch
      BY <3>1, Received
    <3> QED BY <1>1, <1>3, <1>5, <3>2, VoterTypes
  <2> QED BY <1>2, <1>4, <1>6, <1>7, <2>2, <2>3, <2>4, <2>5, <2>6, ProtocolStep
<1>8. CASE ~froze
  <2>1. CampaignOf(v)'
    BY <1>2, <1>8 DEF CampaignOf, Idle
  <2> QED BY <1>2, <1>4, <1>6, <1>8, <2>1, ProtocolStep
<1> QED BY <1>4, <1>7, <1>8

\* A promise to a peer preserves the invariant.
LEMMA HandlePrepareStep ==
  ASSUME IInv, NEW v \in Voters, NEW m \in msgs, NEW froze \in BOOLEAN,
         HandlePrepare(v, m, froze)
  PROVE  IInv' /\ Grows
<1>0. PICK n : n = [type |-> "PROMISE", ballot |-> m.ballot, from |-> v,
                    basis |-> Frozen(v, m.ballot)]
  OBVIOUS
<1>1. AuthorityTypes /\ VoteInvs
  BY DEF IInv, VoteInvs
<1>2. /\ m.ballot.proposer # v /\ Prepare(v, m.ballot, froze)
      /\ campaign' = [campaign EXCEPT ![v] = Idle]
      /\ froze => msgs' = msgs \union {n}
      /\ ~froze => msgs' = msgs
  BY <1>0 DEF HandlePrepare, Send
<1>3. Grows /\ VoteInvs' /\ FileTypes' /\ Frozen(v, m.ballot) \in Bases
  BY <1>1, <1>2, Received, PrepareStep, PrepareTypes
<1>4. campaign' \in [Voters -> Campaigns] /\ Others(v) /\ campaign'[v] = Idle
  BY <1>1, <1>2, AbsentTypes DEF Prepare, AuthorityTypes, Others
<1>5. CampaignOf(v)'
  BY <1>4 DEF CampaignOf, Idle
<1>6. CASE froze
  <2>1. n \in Messages
    BY <1>0, <1>3, Received DEF Messages
  <2>2. MsgBallot(n)'
    BY <1>0, <1>2, <1>3, <1>6, KnownBallot
  <2>3. basis'[v] = Frozen(v, m.ballot) /\ Frozen(v, m.ballot).ballot = m.ballot
    BY <1>1, <1>2, <1>6 DEF Prepare, AuthorityTypes, Frozen
  <2>4. BasisOf(v, basis[v])'
    BY <1>3 DEF VoteInvs, VoterInv, VoterOf
  <2>5. BasisOf(n.from, n.basis)'
    BY <1>0, <2>3, <2>4
  <2>6. MsgFacts(n)'
    BY <1>0, <1>2, <2>3, <2>5 DEF MsgFacts
  <2> QED BY <1>0, <1>2, <1>3, <1>4, <1>5, <1>6, <2>1, <2>2, <2>6, ProtocolStep
<1>7. CASE ~froze
  BY <1>2, <1>3, <1>4, <1>5, <1>7, ProtocolStep
<1> QED BY <1>3, <1>6, <1>7

\* A PREPARE answered again preserves the invariant.
LEMMA HandlePrepareAgainStep ==
  ASSUME IInv, NEW v \in Voters, NEW m \in msgs, HandlePrepareAgain(v, m)
  PROVE  IInv' /\ Grows
<1>0. PICK n : n = [type |-> "PROMISE", ballot |-> m.ballot, from |-> v, basis |-> basis[v]]
  OBVIOUS
<1>1. AuthorityTypes /\ VoteInvs
  BY DEF IInv, VoteInvs
<1>2. /\ m.ballot.proposer # v /\ basis[v].ballot = m.ballot /\ msgs' = msgs \union {n}
      /\ UNCHANGED <<promise, basis, selected, log, proofEpoch, tail, votes, campaign>>
  BY <1>0 DEF HandlePrepareAgain, Send, durable
<1>3. Grows /\ VoteInvs' /\ FileTypes'
  <2>1. FileTypes'
    BY <1>1, <1>2 DEF AuthorityTypes, FileTypes
  <2> QED BY <1>1, <1>2, <2>1, FilesUnchanged
<1>4. Others(v) /\ campaign' \in [Voters -> Campaigns]
  BY <1>1, <1>2 DEF Others, AuthorityTypes
<1>5. CampaignOf(v)'
  <2>1. CampaignOf(v)
    BY DEF IInv, CampaignInv
  <2> QED BY <1>1, <1>2, <1>3, <2>1, IdleCampaign
<1>6. n \in Messages
  BY <1>0, <1>1, Received, VoterTypes DEF Messages
<1>7. MsgBallot(n)'
  BY <1>0, <1>2, <1>3, KnownBallot
<1>8. MsgFacts(n)'
  <2>1. BasisOf(v, basis[v])'
    BY <1>3 DEF VoteInvs, VoterInv, VoterOf
  <2>2. BasisOf(n.from, n.basis)'
    BY <1>0, <1>2, <2>1
  <2> QED BY <1>0, <1>2, <2>2 DEF MsgFacts
<1>9. IInv'
  BY <1>0, <1>2, <1>3, <1>4, <1>5, <1>6, <1>7, <1>8, ProtocolStep
<1> QED BY <1>3, <1>9

\* Selecting a chosen prefix, and adopting it when it is longer.
LEMMA SelectStep ==
  ASSUME AuthorityTypes, VoteInvs, NEW v \in Voters, NEW s \in Selections, NEW adopted \in BOOLEAN,
         ChosenPrefix(s.prefix, s.proofEpoch), s.proofEpoch <= promise[v].epoch,
         SelectAndAdopt(v, s, adopted)
  PROVE  /\ Grows /\ VoteInvs' /\ FileTypes'
         /\ selected'[v] = s
         /\ UNCHANGED <<promise, basis, votes>>
         /\ \A w \in Voters : w # v => selected'[w] = selected[w] /\ log'[w] = log[w]
         /\ adopted /\ Len(log[v]) <= Len(s.prefix) => log'[v] = s.prefix
<1> USE VoterTypes
<1>1. /\ s.prefix \in Entries /\ s.proofEpoch \in Nat
      /\ Extends(s.prefix, log[v]) \/ Extends(log[v], s.prefix)
      /\ selected' = [selected EXCEPT ![v] = s]
      /\ UNCHANGED <<promise, basis, votes>>
  BY DEF SelectAndAdopt, MaySelect, Selections
<1>2. FileTypes' /\ selected'[v] = s /\ \A w \in Voters : w # v => selected'[w] = selected[w]
  BY <1>1, SelectTypes DEF AuthorityTypes
<1>3. CASE adopted /\ Len(s.prefix) > Len(log[v])
  <2>1. /\ log' = [log EXCEPT ![v] = s.prefix]
        /\ proofEpoch' = [proofEpoch EXCEPT ![v] = s.proofEpoch]
        /\ tail' = [tail EXCEPT ![v] = NoTail]
    BY <1>3 DEF SelectAndAdopt
  <2>2. Extends(s.prefix, log[v])
    BY <1>1, <1>3, ExtendsLen
  <2>3. tail[v] = NoTail \/ Len(tail[v].entry) <= Len(s.prefix)
    <3>1. TailOf(v, log[v], tail[v])
      BY DEF VoteInvs, VoterInv, VoterOf
    <3> QED BY <1>1, <1>3, <3>1, ExtendsLen DEF TailOf
  <2>4. Grows /\ VoteInvs'
    BY <1>1, <2>1, <2>2, <2>3, CutStep
  <2>5. log'[v] = s.prefix /\ \A w \in Voters : w # v => log'[w] = log[w]
    BY <2>1 DEF AuthorityTypes
  <2> QED BY <1>1, <1>2, <2>4, <2>5
<1>4. CASE ~ (adopted /\ Len(s.prefix) > Len(log[v]))
  <2>1. UNCHANGED <<log, proofEpoch, tail>>
    BY <1>4 DEF SelectAndAdopt
  <2>2. Grows /\ VoteInvs'
    BY <1>1, <2>1, FilesUnchanged
  <2>3. adopted /\ Len(log[v]) <= Len(s.prefix) => log[v] = s.prefix
    <3> SUFFICES ASSUME adopted, Len(log[v]) <= Len(s.prefix) PROVE log[v] = s.prefix
      OBVIOUS
    <3>1. Len(log[v]) = Len(s.prefix)
      BY <1>1, <1>4, ExtendsLen
    <3> QED BY <1>1, <3>1, ExtendsLen
  <2> QED BY <1>1, <1>2, <2>1, <2>2, <2>3
<1> QED BY <1>3, <1>4

\* A selection at the proposer preserves the invariant.
LEMMA HandlePromiseStep ==
  ASSUME IInv, NEW v \in Voters, NEW m \in msgs, NEW adopted \in BOOLEAN,
         HandlePromise(v, m, adopted)
  PROVE  IInv' /\ Grows
<1>0. PICK n : n = [type |-> "INSTALL", ballot |-> m.ballot, to |-> m.from,
                    own |-> basis[v], peer |-> m.basis]
  OBVIOUS
<1>1. AuthorityTypes /\ VoteInvs
  BY DEF IInv, VoteInvs
<1>2. PICK s : s = Selection(basis[v], m.basis)
  OBVIOUS
<1>3. /\ m.type = "PROMISE" /\ campaign[v].stage = "PREPARE"
      /\ m.ballot = campaign[v].ballot /\ promise[v] = m.ballot
      /\ BasesAgree(basis[v], m.basis)
      /\ SelectAndAdopt(v, s, adopted)
      /\ adopted => /\ campaign' = [campaign EXCEPT ![v] =
                                       [@ EXCEPT !.stage = "INSTALL", !.peer = m.from]]
                    /\ msgs' = msgs \union {n}
      /\ ~adopted => campaign' = [campaign EXCEPT ![v] = Idle] /\ msgs' = msgs
  BY <1>0, <1>2 DEF HandlePromise, Send
<1>4. /\ m.from \in Voters /\ m.basis \in Bases /\ basis[v] \in Bases
      /\ m.from # m.ballot.proposer /\ m.basis.ballot = m.ballot
      /\ BasisOf(m.from, m.basis)
      /\ m.ballot \in Ballots /\ m.ballot.epoch \in Nat
  BY <1>1, <1>3, Received, MessageTypes, VoterTypes DEF MsgFacts
<1>5. /\ m.ballot.proposer = v /\ basis[v].ballot = m.ballot /\ basis[v].log = log[v]
      /\ BasisOf(v, basis[v])
      /\ [type |-> "PREPARE", ballot |-> m.ballot] \in msgs
  BY <1>1, <1>3 DEF IInv, CampaignInv, CampaignOf, VoteInvs, VoterInv, VoterOf
<1>6. /\ SafeAt(m.ballot.epoch, Target(s)) /\ Target(s) \in Entries
      /\ ChosenPrefix(s.prefix, s.proofEpoch) /\ s.proofEpoch <= promise[v].epoch
      /\ s \in Selections /\ s.prefix \in Entries /\ s.ballot = m.ballot
  <2>1. s.ballot = m.ballot
    BY <1>2, <1>5 DEF Selection
  <2>2. m.basis.ballot.epoch = basis[v].ballot.epoch
    BY <1>4, <1>5
  <2>3. VotesInv /\ ChainInv
    BY <1>1 DEF VoteInvs
  <2> QED BY <1>1, <1>2, <1>3, <1>4, <1>5, <2>1, <2>2, <2>3, SelectionSafe, SelectionTypes
<1>7. /\ Grows /\ VoteInvs' /\ FileTypes' /\ selected'[v] = s
      /\ UNCHANGED <<promise, basis>>
      /\ \A w \in Voters : w # v => selected'[w] = selected[w] /\ log'[w] = log[w]
      /\ adopted /\ Len(log[v]) <= Len(s.prefix) => log'[v] = s.prefix
  BY <1>1, <1>3, <1>6, SelectStep
<1>8. campaign[v] \in Campaigns
  BY <1>1 DEF AuthorityTypes
<1>9. CASE adopted
  <2>1. /\ campaign'[v] = [campaign[v] EXCEPT !.stage = "INSTALL", !.peer = m.from]
        /\ \A w \in Voters : w # v => campaign'[w] = campaign[w]
        /\ campaign' \in [Voters -> Campaigns]
    <3>1. [campaign[v] EXCEPT !.stage = "INSTALL", !.peer = m.from] \in Campaigns
      BY <1>4, <1>8 DEF Campaigns
    <3> QED BY <1>1, <1>3, <1>9, <3>1 DEF AuthorityTypes
  <2>2. /\ campaign'[v].stage = "INSTALL" /\ campaign'[v].peer = m.from
        /\ campaign'[v].ballot = m.ballot
    BY <1>3, <1>8, <2>1 DEF Campaigns
  <2>3. log'[v] = s.prefix
    <3>1. Len(log[v]) <= Len(s.prefix)
      BY <1>1, <1>2, <1>4, <1>5, VoterTypes, ExtendsLen DEF Selection, Longest, Bases
    <3> QED BY <1>7, <1>9, <3>1
  <2>4. SafeAt(m.ballot.epoch, Target(s))'
    BY <1>4, <1>6, <1>7, SafeGrows
  <2>5. msgs' = msgs \union {n}
    BY <1>3, <1>9
  <2>6. CampaignOf(v)'
    BY <1>3, <1>4, <1>5, <1>6, <1>7, <2>2, <2>3, <2>4, <2>5, ExtendsSelf DEF CampaignOf
  <2>7. MsgBallot(n)'
    BY <1>0, <1>7, <2>5, KnownBallot
  <2>8. BasisOf(v, n.own)' /\ BasisOf(m.from, n.peer)'
    BY <1>0, <1>4, <1>5, <1>7, BasisGrows
  <2>9. MsgFacts(n)'
    BY <1>0, <1>4, <1>5, <2>8 DEF MsgFacts
  <2>10. n \in Messages
    BY <1>0, <1>4 DEF Messages
  <2>11. Others(v)
    BY <1>7, <2>1 DEF Others
  <2> QED BY <1>0, <1>7, <2>1, <2>5, <2>6, <2>7, <2>9, <2>10, <2>11, ProtocolStep
<1>10. CASE ~adopted
  <2>1. /\ campaign' \in [Voters -> Campaigns] /\ campaign'[v] = Idle
        /\ \A w \in Voters : w # v => campaign'[w] = campaign[w]
    BY <1>1, <1>3, <1>10, AbsentTypes DEF AuthorityTypes
  <2>2. CampaignOf(v)'
    BY <2>1 DEF CampaignOf, Idle
  <2>3. Others(v)
    BY <1>7, <2>1 DEF Others
  <2> QED BY <1>3, <1>7, <1>10, <2>1, <2>2, <2>3, ProtocolStep
<1> QED BY <1>7, <1>9, <1>10

\* A selection at the quorum peer preserves the invariant.
LEMMA HandleInstallStep ==
  ASSUME IInv, NEW v \in Voters, NEW m \in msgs, NEW adopted \in BOOLEAN,
         HandleInstall(v, m, adopted)
  PROVE  IInv' /\ Grows
<1>0. PICK n : n = [type |-> "INSTALLED", ballot |-> m.ballot, from |-> v]
  OBVIOUS
<1>1. AuthorityTypes /\ VoteInvs
  BY DEF IInv, VoteInvs
<1>2. PICK s : s = Selection(m.own, m.peer)
  OBVIOUS
<1>3. /\ m.type = "INSTALL" /\ m.to = v /\ promise[v] = m.ballot
      /\ BasesAgree(m.own, m.peer) /\ SelectAndAdopt(v, s, adopted)
      /\ msgs' = msgs \/ msgs' = msgs \union {n}
      /\ campaign' = campaign
  BY <1>0, <1>2 DEF HandleInstall, Send
<1>4. /\ m.own \in Bases /\ m.peer \in Bases /\ m.ballot.proposer \in Voters
      /\ v # m.ballot.proposer /\ m.own.ballot = m.ballot /\ m.peer.ballot = m.ballot
      /\ BasisOf(m.ballot.proposer, m.own) /\ BasisOf(v, m.peer) /\ m.ballot \in Ballots
  BY <1>3, Received, MessageTypes DEF MsgFacts
<1>5. /\ ChosenPrefix(s.prefix, s.proofEpoch) /\ s.proofEpoch <= promise[v].epoch
      /\ s \in Selections
  <2>1. m.peer.ballot.epoch = m.own.ballot.epoch /\ VotesInv /\ ChainInv
    BY <1>1, <1>4 DEF VoteInvs
  <2> QED BY <1>1, <1>2, <1>3, <1>4, <2>1, SelectionSafe, SelectionTypes
<1>6. /\ Grows /\ VoteInvs' /\ FileTypes'
      /\ UNCHANGED <<promise, basis>>
      /\ \A w \in Voters : w # v => selected'[w] = selected[w] /\ log'[w] = log[w]
  BY <1>1, <1>3, <1>5, SelectStep
<1>7. CampaignOf(v)'
  BY <1>3, <1>4, FollowerIsIdle DEF CampaignOf
<1>8. n \in Messages
  BY <1>0, <1>4 DEF Messages
<1>9. msgs' = msgs \union {n} => MsgBallot(n)' /\ MsgFacts(n)'
  BY <1>0, <1>6, KnownBallot DEF MsgFacts
<1>10. Others(v) /\ campaign' \in [Voters -> Campaigns]
  BY <1>1, <1>3, <1>6 DEF Others, AuthorityTypes
<1>11. IInv'
  BY <1>0, <1>3, <1>6, <1>7, <1>8, <1>9, <1>10, ProtocolStep
<1> QED BY <1>6, <1>11

\* What a proposer may accept in its own ballot is safe there.
LEMMA ProposalSafe ==
  ASSUME IInv, NEW v \in Voters, campaign[v].stage \notin {"IDLE", "PREPARE"},
         NEW e \in Entries, MayAccept(v, campaign[v].ballot, e)
  PROVE  SafeAt(campaign[v].ballot.epoch, e)
<1> DEFINE b == campaign[v].ballot
<1>1. /\ Len(e) = Len(log[v]) + 1 /\ Extends(e, log[v])
      /\ SelectedSlot(v, b, e) => SelectedValue(v, b, e)
  BY DEF MayAccept
<1>2. /\ selected[v].ballot = b
      /\ SafeAt(b.epoch, Target(selected[v]))
      /\ log[v] = selected[v].prefix \/ Voted(v, b.epoch, log[v])
  BY DEF IInv, CampaignInv, CampaignOf
<1>3. b.epoch \in Nat /\ log[v] \in Entries
  BY CampaignBallot, VoterTypes DEF IInv
<1>4. CASE Voted(v, b.epoch, log[v])
  <2>1. SafeAt(b.epoch, log[v])
    BY <1>3, <1>4 DEF IInv, VotesInv
  <2> QED BY <1>1, <1>3, <2>1, SafeExtends
<1>5. CASE log[v] = selected[v].prefix
  <2>1. SelectedValue(v, b, e)
    BY <1>1, <1>2, <1>5 DEF SelectedSlot
  <2>2. Extends(e, Target(selected[v])) /\ Target(selected[v]) \in Entries
    BY <1>1, <1>3, <1>5, <2>1, ExtendsSelf DEF SelectedValue, Target
  <2> QED BY <1>2, <1>3, <2>2, SafeExtends
<1> QED BY <1>2, <1>4, <1>5

\* Everything that was accepted in a proposer's ballot lies on one ancestry
\* with what the proposer may accept next.
LEMMA ProposalChained ==
  ASSUME IInv, NEW v \in Voters, campaign[v].stage # "IDLE",
         NEW e \in Entries, MayAccept(v, campaign[v].ballot, e),
         NEW w \in Voters, NEW f \in Entries, Voted(w, campaign[v].ballot.epoch, f)
  PROVE  Extends(e, f) \/ Extends(f, e)
<1> DEFINE c == campaign[v].ballot.epoch
<1>1. c \in Nat /\ Owns(v, c) /\ promise[v].epoch = c
  BY CampaignBallot
<1>2. Voted(v, c, f) /\ c > 0
  BY <1>1 DEF IInv, VotesInv
<1>3. /\ log[v] \in Entries /\ tail[v] \in Tails /\ tail[v].epoch \in Nat
      /\ tail[v].entry \in Entries
  BY VoterTypes DEF IInv
<1>4. /\ Covers(c, f, log[v], c, tail[v]) /\ TailOf(v, log[v], tail[v]) /\ tail[v].epoch <= c
  BY <1>1, <1>2 DEF IInv, VoterInv, VoterOf
<1>5. CASE Extends(log[v], f)
  BY <1>3, <1>5, ExtendsTrans DEF MayAccept
<1>6. ~ Superseded(c, log[v], c)
  BY <1>1 DEF Superseded
<1>7. CASE tail[v].epoch >= c
  <2>1. tail[v] # NoTail /\ ~ (tail[v].epoch < c)
    BY <1>1, <1>2, <1>3, <1>7 DEF NoTail
  <2>2. tail[v] = [epoch |-> c, entry |-> e]
    BY <2>1 DEF MayAccept
  <2>3. Voted(v, c, e)
    BY <1>4, <2>1, <2>2 DEF TailOf
  <2> QED BY <1>1, <1>2, <2>3 DEF IInv, ChainInv
<1> QED BY <1>4, <1>5, <1>6, <1>7 DEF Covers

\* A proposal, accepted by its proposer, preserves the invariant.
LEMMA CommitStep ==
  ASSUME IInv, NEW v \in Voters, campaign[v].stage \notin {"IDLE", "PREPARE"},
         NEW e \in Entries, NEW activating \in BOOLEAN, Commit(v, e, activating)
  PROVE  IInv' /\ Grows
<1>0. PICK b : b = campaign[v].ballot
  OBVIOUS
<1>1. PICK n : n = [type |-> "ACCEPT", ballot |-> b, to |-> campaign[v].peer, entry |-> e]
  OBVIOUS
<1>2. AuthorityTypes /\ VoteInvs
  BY DEF IInv, VoteInvs
<1>3. /\ Accept(v, b, e) /\ msgs' = msgs \union {n}
      /\ campaign' = [campaign EXCEPT ![v] =
           [@ EXCEPT !.stage = "ACCEPT", !.entry = e, !.activating = activating]]
  BY <1>0, <1>1 DEF Commit, Send
<1>4. /\ b \in Ballots /\ b.epoch \in Nat /\ b.proposer = v /\ promise[v] = b
      /\ Owns(v, b.epoch) /\ \E k \in msgs : k.ballot = b
  BY <1>0, CampaignBallot
<1>5. MayAccept(v, campaign[v].ballot, e)
  BY <1>0, <1>3 DEF Accept
<1>6. SafeAt(b.epoch, e)
  BY <1>0, <1>5, ProposalSafe
<1>7. \A w \in Voters, f \in Entries : Voted(w, b.epoch, f) => Extends(e, f) \/ Extends(f, e)
  BY <1>0, <1>5, ProposalChained
<1>8. \A p \in Voters : Owns(p, b.epoch) => p = v \/ Voted(p, b.epoch, e)
  BY <1>4, OneOwner
<1>9. Grows /\ VoteInvs' /\ Voted(v, b.epoch, e)' /\ FileTypes'
  BY <1>2, <1>3, <1>4, <1>6, <1>7, <1>8, AcceptStep, AcceptTypes
<1>10. UNCHANGED <<promise, basis, selected, log>>
  BY <1>3 DEF Accept
<1>11. campaign[v] \in Campaigns
  BY <1>2 DEF AuthorityTypes
<1>12. /\ campaign'[v] = [campaign[v] EXCEPT !.stage = "ACCEPT", !.entry = e,
                                            !.activating = activating]
       /\ \A w \in Voters : w # v => campaign'[w] = campaign[w]
       /\ campaign' \in [Voters -> Campaigns]
  <2>1. [campaign[v] EXCEPT !.stage = "ACCEPT", !.entry = e, !.activating = activating]
          \in Campaigns
    BY <1>11 DEF Campaigns
  <2> QED BY <1>2, <1>3, <2>1 DEF AuthorityTypes
<1>13. /\ campaign'[v].stage = "ACCEPT" /\ campaign'[v].entry = e
       /\ campaign'[v].ballot = b /\ campaign'[v].peer = campaign[v].peer
  BY <1>0, <1>11, <1>12 DEF Campaigns
<1>14. /\ [type |-> "PREPARE", ballot |-> b] \in msgs
       /\ campaign[v].peer \in Voters \ {v} /\ selected[v].ballot = b
       /\ Extends(log[v], selected[v].prefix)
       /\ SafeAt(b.epoch, Target(selected[v]))
       /\ log[v] = selected[v].prefix \/ Voted(v, b.epoch, log[v])
  BY <1>0 DEF IInv, CampaignInv, CampaignOf
<1>15. CampaignOf(v)'
  <2>1. Target(selected[v]) \in Entries
    BY <1>2 DEF AuthorityTypes, Selections, Target
  <2>2. SafeAt(b.epoch, Target(selected[v]))'
    BY <1>4, <1>9, <1>10, <1>14, <2>1, SafeGrows DEF Target
  <2>3. log'[v] = selected'[v].prefix \/ Voted(v, b.epoch, log[v])'
    BY <1>9, <1>10, <1>14, VotedGrows
  <2> QED BY <1>3, <1>4, <1>9, <1>10, <1>13, <1>14, <2>2, <2>3 DEF CampaignOf
<1>16. n \in Messages
  BY <1>1, <1>4, <1>14 DEF Messages
<1>17. MsgBallot(n)' /\ MsgFacts(n)'
  <2>1. MsgBallot(n)'
    BY <1>1, <1>3, <1>4, <1>9, KnownBallot
  <2>2. MsgFacts(n)'
    BY <1>1, <1>4, <1>9, <1>14 DEF MsgFacts
  <2> QED BY <2>1, <2>2
<1>18. Others(v)
  BY <1>10, <1>12 DEF Others
<1>19. IInv'
  BY <1>1, <1>3, <1>4, <1>9, <1>12, <1>15, <1>16, <1>17, <1>18, ProtocolStep
<1> QED BY <1>9, <1>19

\* A fresh entry is an entry.
LEMMA FreshTypes ==
  ASSUME AuthorityTypes, NEW v \in Voters, NEW op \in Ops \union {NoOp}
  PROVE  Fresh(v, op) \in Entries
<1>1. campaign[v].ballot.epoch \in Nat /\ campaign[v].ballot.inc \in IncarnationsOrNone
  BY DEF AuthorityTypes, Campaigns, Ballots
<1>2. Origin(campaign[v].ballot, op) \in Cells
  BY <1>1 DEF Origin, Cells
<1> QED BY <1>2, VoterTypes, ExtendsAppend DEF Fresh

\* The first proposal of a campaign preserves the invariant.
LEMMA HandleInstalledStep ==
  ASSUME IInv, NEW v \in Voters, NEW m \in msgs, HandleInstalled(v, m)
  PROVE  IInv' /\ Grows
<1>1. PICK e : e = IF selected[v].next = <<>> THEN Fresh(v, NoOp) ELSE selected[v].next
  OBVIOUS
<1>2. e \in Entries
  BY <1>1, FreshTypes DEF IInv, AuthorityTypes, Selections
<1>3. campaign[v].stage = "INSTALL" /\ Commit(v, e, TRUE)
  BY <1>1 DEF HandleInstalled
<1> QED BY <1>2, <1>3, CommitStep

\* A client's proposal preserves the invariant.
LEMMA SubmitStep ==
  ASSUME IInv, NEW v \in Voters, NEW op \in Ops, Submit(v, op)
  PROVE  IInv' /\ Grows
<1>1. PICK e : e = Fresh(v, op)
  OBVIOUS
<1>2. e \in Entries
  BY <1>1, FreshTypes DEF IInv
<1>3. campaign[v].stage = "READY" /\ Commit(v, e, FALSE)
  BY <1>1 DEF Submit
<1> QED BY <1>2, <1>3, CommitStep

\* The NOOP after a carried entry preserves the invariant.
LEMMA HandleProvenCarriedStep ==
  ASSUME IInv, NEW v \in Voters, NEW m \in msgs, HandleProvenCarried(v, m)
  PROVE  IInv' /\ Grows
<1>1. PICK e : e = Fresh(v, NoOp)
  OBVIOUS
<1>2. e \in Entries
  BY <1>1, FreshTypes DEF IInv
<1>3. campaign[v].stage = "PROOF" /\ Commit(v, e, TRUE)
  BY <1>1 DEF HandleProvenCarried, Proved
<1> QED BY <1>2, <1>3, CommitStep

\* An acceptance at the peer preserves the invariant.
LEMMA HandleAcceptStep ==
  ASSUME IInv, NEW v \in Voters, NEW m \in msgs, HandleAccept(v, m)
  PROVE  IInv' /\ Grows
<1>0. PICK n : n = [type |-> "ACCEPTED", ballot |-> m.ballot, from |-> v, entry |-> m.entry]
  OBVIOUS
<1>1. AuthorityTypes /\ VoteInvs
  BY DEF IInv, VoteInvs
<1>2. /\ m.type = "ACCEPT" /\ m.to = v /\ Accept(v, m.ballot, m.entry)
      /\ msgs' = msgs \union {n} /\ campaign' = campaign
  BY <1>0 DEF HandleAccept, Send
<1>3. /\ m.entry \in Entries /\ m.ballot \in Ballots /\ m.ballot.epoch \in Nat
      /\ m.ballot.proposer \in Voters /\ v # m.ballot.proposer
      /\ Voted(m.ballot.proposer, m.ballot.epoch, m.entry)
  BY <1>2, Received, MessageTypes DEF MsgFacts
<1>4. /\ SafeAt(m.ballot.epoch, m.entry)
      /\ \A p \in Voters : Owns(p, m.ballot.epoch) => Voted(p, m.ballot.epoch, m.entry)
  BY <1>1, <1>3 DEF VoteInvs, VotesInv
<1>5. \A w \in Voters, f \in Entries :
        Voted(w, m.ballot.epoch, f) => Extends(m.entry, f) \/ Extends(f, m.entry)
  BY <1>1, <1>3 DEF VoteInvs, ChainInv
<1>6. Grows /\ VoteInvs' /\ FileTypes' /\ Voted(v, m.ballot.epoch, m.entry)'
  BY <1>1, <1>2, <1>3, <1>4, <1>5, AcceptStep, AcceptTypes
<1>7. promise[v] = m.ballot /\ UNCHANGED <<promise, basis, selected, log>>
  BY <1>2 DEF Accept, MayAccept
<1>8. CampaignOf(v)'
  BY <1>2, <1>3, <1>7, FollowerIsIdle DEF CampaignOf
<1>9. n \in Messages
  BY <1>0, <1>3 DEF Messages
<1>10. MsgBallot(n)' /\ MsgFacts(n)'
  BY <1>0, <1>2, <1>6, KnownBallot DEF MsgFacts
<1>11. Others(v) /\ campaign' \in [Voters -> Campaigns]
  BY <1>1, <1>2, <1>7 DEF Others, AuthorityTypes
<1>12. IInv'
  BY <1>0, <1>2, <1>6, <1>8, <1>9, <1>10, <1>11, ProtocolStep
<1> QED BY <1>6, <1>12

\* A proof at the proposer preserves the invariant.
LEMMA HandleAcceptedStep ==
  ASSUME IInv, NEW v \in Voters, NEW m \in msgs, HandleAccepted(v, m)
  PROVE  IInv' /\ Grows
<1>0. PICK n : n = [type |-> "PROOF", ballot |-> m.ballot, to |-> m.from, entry |-> m.entry]
  OBVIOUS
<1>1. AuthorityTypes /\ VoteInvs
  BY DEF IInv, VoteInvs
<1>2. /\ m.type = "ACCEPTED" /\ campaign[v].stage = "ACCEPT"
      /\ m.ballot = campaign[v].ballot /\ m.from = campaign[v].peer
      /\ m.entry = campaign[v].entry /\ Prove(v, m.ballot, m.entry)
      /\ campaign' = [campaign EXCEPT ![v] = [@ EXCEPT !.stage = "PROOF"]]
      /\ msgs' = msgs \union {n}
  BY <1>0 DEF HandleAccepted, Send
<1>3. /\ m.from \in Voters /\ m.entry \in Entries /\ m.ballot \in Ballots
      /\ m.ballot.epoch \in Nat
      /\ Voted(m.from, m.ballot.epoch, m.entry)
  BY <1>2, Received, MessageTypes DEF MsgFacts
<1>4. /\ m.from # v /\ m.ballot.proposer = v /\ promise[v] = m.ballot
      /\ [type |-> "PREPARE", ballot |-> m.ballot] \in msgs
      /\ Voted(v, m.ballot.epoch, m.entry)
      /\ selected[v].ballot = m.ballot
      /\ Extends(log[v], selected[v].prefix)
      /\ SafeAt(m.ballot.epoch, Target(selected[v]))
  BY <1>2 DEF IInv, CampaignInv, CampaignOf
<1>5. Chosen(m.ballot.epoch, m.entry)
  <2>1. {v, m.from} \in Quorums
    BY <1>3, <1>4, PairIsQuorum
  <2>2. \A w \in {v, m.from} : Voted(w, m.ballot.epoch, m.entry)
    BY <1>3, <1>4
  <2> QED BY <2>1, <2>2 DEF Chosen
<1>6. /\ Grows /\ VoteInvs' /\ FileTypes' /\ log'[v] = m.entry /\ Extends(m.entry, log[v])
  BY <1>1, <1>2, <1>3, <1>5, ProveStep, ProveTypes
<1>7. UNCHANGED <<promise, basis, selected>> /\ \A w \in Voters : w # v => log'[w] = log[w]
  BY <1>1, <1>2 DEF Prove, AuthorityTypes
<1>8. /\ campaign'[v] = [campaign[v] EXCEPT !.stage = "PROOF"]
      /\ \A w \in Voters : w # v => campaign'[w] = campaign[w]
      /\ campaign' \in [Voters -> Campaigns]
  <2>1. [campaign[v] EXCEPT !.stage = "PROOF"] \in Campaigns
    BY <1>1 DEF AuthorityTypes, Campaigns
  <2> QED BY <1>1, <1>2, <2>1 DEF AuthorityTypes
<1>9. /\ campaign'[v].stage = "PROOF" /\ campaign'[v].ballot = m.ballot
      /\ campaign'[v].peer = m.from
  BY <1>1, <1>2, <1>8 DEF AuthorityTypes, Campaigns
<1>10. CampaignOf(v)'
  <2>1. Target(selected[v]) \in Entries /\ selected[v].prefix \in Entries
    BY <1>1 DEF AuthorityTypes, Selections, Target
  <2>2. SafeAt(m.ballot.epoch, Target(selected[v]))'
    BY <1>3, <1>4, <1>6, <1>7, <2>1, SafeGrows DEF Target
  <2>3. Extends(log'[v], selected'[v].prefix)
    BY <1>1, <1>3, <1>4, <1>6, <1>7, <2>1, VoterTypes, ExtendsTrans
  <2>4. Voted(v, m.ballot.epoch, m.entry)'
    BY <1>4, <1>6, VotedGrows
  <2> QED BY <1>2, <1>3, <1>4, <1>6, <1>7, <1>9, <2>2, <2>3, <2>4 DEF CampaignOf
<1>11. n \in Messages
  BY <1>0, <1>3 DEF Messages
<1>12. MsgBallot(n)' /\ MsgFacts(n)'
  <2>1. Chosen(m.ballot.epoch, m.entry)'
    BY <1>5, <1>6, ChosenGrows
  <2> QED BY <1>0, <1>2, <1>4, <1>6, <2>1, KnownBallot DEF MsgFacts
<1>13. Others(v)
  BY <1>7, <1>8 DEF Others
<1>14. IInv'
  BY <1>0, <1>2, <1>6, <1>8, <1>10, <1>11, <1>12, <1>13, ProtocolStep
<1> QED BY <1>6, <1>14

\* A proof at the peer preserves the invariant.
LEMMA HandleProofStep ==
  ASSUME IInv, NEW v \in Voters, NEW m \in msgs, HandleProof(v, m)
  PROVE  IInv' /\ Grows
<1>0. PICK n : n = [type |-> "PROVEN", ballot |-> m.ballot, from |-> v, entry |-> m.entry]
  OBVIOUS
<1>1. AuthorityTypes /\ VoteInvs
  BY DEF IInv, VoteInvs
<1>2. /\ m.type = "PROOF" /\ m.to = v /\ Prove(v, m.ballot, m.entry)
      /\ msgs' = msgs \union {n} /\ campaign' = campaign
  BY <1>0 DEF HandleProof, Send
<1>3. /\ m.entry \in Entries /\ m.ballot \in Ballots /\ v # m.ballot.proposer
      /\ Chosen(m.ballot.epoch, m.entry)
  BY <1>2, Received, MessageTypes DEF MsgFacts
<1>4. Grows /\ VoteInvs' /\ FileTypes'
  BY <1>1, <1>2, <1>3, ProveStep, ProveTypes
<1>5. /\ promise[v] = m.ballot /\ UNCHANGED <<promise, basis, selected>>
      /\ \A w \in Voters : w # v => log'[w] = log[w]
  BY <1>1, <1>2 DEF Prove, MayProve, AuthorityTypes
<1>6. CampaignOf(v)'
  BY <1>2, <1>3, <1>5, FollowerIsIdle DEF CampaignOf
<1>7. n \in Messages
  BY <1>0, <1>3 DEF Messages
<1>8. MsgBallot(n)' /\ MsgFacts(n)'
  BY <1>0, <1>2, <1>4, KnownBallot DEF MsgFacts
<1>9. Others(v) /\ campaign' \in [Voters -> Campaigns]
  BY <1>1, <1>2, <1>5 DEF Others, AuthorityTypes
<1>10. IInv'
  BY <1>0, <1>2, <1>4, <1>6, <1>7, <1>8, <1>9, ProtocolStep
<1> QED BY <1>4, <1>10

\* The end of a proposal preserves the invariant.
LEMMA HandleProvenStep ==
  ASSUME IInv, NEW v \in Voters, NEW m \in msgs, HandleProven(v, m)
  PROVE  IInv' /\ Grows
<1>1. AuthorityTypes /\ VoteInvs
  BY DEF IInv, VoteInvs
<1>2. /\ campaign[v].stage = "PROOF"
      /\ campaign' = [campaign EXCEPT ![v] =
           [@ EXCEPT !.stage = "READY", !.entry = <<>>, !.activating = FALSE]]
      /\ UNCHANGED <<promise, basis, selected, log, proofEpoch, tail, votes, msgs>>
  BY DEF HandleProven, Proved, durable
<1>3. Grows /\ VoteInvs' /\ FileTypes'
  <2>1. FileTypes'
    BY <1>1, <1>2 DEF AuthorityTypes, FileTypes
  <2> QED BY <1>1, <1>2, <2>1, FilesUnchanged
<1>4. /\ campaign'[v] = [campaign[v] EXCEPT !.stage = "READY", !.entry = <<>>,
                                            !.activating = FALSE]
      /\ \A w \in Voters : w # v => campaign'[w] = campaign[w]
      /\ campaign' \in [Voters -> Campaigns]
  <2>1. [campaign[v] EXCEPT !.stage = "READY", !.entry = <<>>, !.activating = FALSE]
          \in Campaigns
    BY <1>1, ExtendsEmpty DEF AuthorityTypes, Campaigns
  <2> QED BY <1>1, <1>2, <2>1 DEF AuthorityTypes
<1>5. /\ campaign'[v].stage = "READY" /\ campaign'[v].ballot = campaign[v].ballot
      /\ campaign'[v].peer = campaign[v].peer
  BY <1>1, <1>4 DEF AuthorityTypes, Campaigns
<1>6. CampaignOf(v)'
  <2>1. CampaignOf(v)
    BY DEF IInv, CampaignInv
  <2>2. Target(selected[v]) \in Entries /\ campaign[v].ballot.epoch \in Nat
    BY <1>1, <1>2, CampaignBallot DEF AuthorityTypes, Selections, Target
  <2>3. SafeAt(campaign[v].ballot.epoch, Target(selected[v]))'
    BY <1>2, <1>3, <1>5, <2>1, <2>2, SafeGrows DEF CampaignOf, Target
  <2>4. Voted(v, campaign[v].ballot.epoch, log[v])'
    BY <1>2, <1>3, <1>5, <2>1, VotedGrows DEF CampaignOf
  <2> QED BY <1>2, <1>5, <2>1, <2>3, <2>4 DEF CampaignOf
<1>7. Others(v)
  BY <1>2, <1>4 DEF Others
<1> QED BY <1>2, <1>3, <1>4, <1>6, <1>7, ProtocolStep

\* An offered snapshot preserves the invariant.
LEMMA OfferSnapshotStep ==
  ASSUME IInv, NEW v \in Voters, OfferSnapshot(v)
  PROVE  IInv' /\ Grows
<1>0. PICK n : n = [type |-> "SNAPSHOT", ballot |-> promise[v], log |-> log[v],
                    proofEpoch |-> proofEpoch[v]]
  OBVIOUS
<1>1. AuthorityTypes /\ VoteInvs
  BY DEF IInv, VoteInvs
<1>2. /\ campaign[v].stage = "READY" /\ msgs' = msgs \union {n}
      /\ UNCHANGED <<promise, basis, selected, log, proofEpoch, tail, votes, campaign>>
  BY <1>0 DEF OfferSnapshot, Send, durable
<1>3. Grows /\ VoteInvs' /\ FileTypes'
  <2>1. FileTypes'
    BY <1>1, <1>2 DEF AuthorityTypes, FileTypes
  <2> QED BY <1>1, <1>2, <2>1, FilesUnchanged
<1>4. Others(v) /\ campaign' \in [Voters -> Campaigns]
  BY <1>1, <1>2 DEF Others, AuthorityTypes
<1>5. CampaignOf(v)'
  <2>1. CampaignOf(v)
    BY DEF IInv, CampaignInv
  <2> QED BY <1>1, <1>2, <1>3, <2>1, IdleCampaign
<1>6. PICK k \in msgs : k.ballot = n.ballot
  BY <1>0, <1>2, CampaignBallot
<1>7. n \in Messages
  BY <1>0, <1>1, VoterTypes DEF Messages
<1>8. MsgBallot(n)'
  BY <1>2, <1>3, <1>6, KnownBallot
<1>9. MsgFacts(n)'
  <2>1. ChosenPrefix(n.log, n.proofEpoch)
    BY <1>0, <1>1 DEF VoteInvs, VoterInv, VoterOf
  <2>2. ChosenPrefix(n.log, n.proofEpoch)'
    BY <1>0, <1>1, <1>3, <2>1, VoterTypes, PrefixGrows
  <2> QED BY <1>0, <2>2 DEF MsgFacts
<1>10. IInv'
  BY <1>2, <1>3, <1>4, <1>5, <1>6, <1>7, <1>8, <1>9, ProtocolStep
<1> QED BY <1>3, <1>10

\* An installed snapshot preserves the invariant.
LEMMA HandleSnapshotStep ==
  ASSUME IInv, NEW v \in Voters, NEW m \in msgs, HandleSnapshot(v, m)
  PROVE  IInv' /\ Grows
<1>1. AuthorityTypes /\ VoteInvs
  BY DEF IInv, VoteInvs
<1>2. /\ m.type = "SNAPSHOT" /\ m.ballot.proposer # v /\ promise[v] = m.ballot
      /\ log' = [log EXCEPT ![v] = m.log]
      /\ proofEpoch' = [proofEpoch EXCEPT ![v] = m.proofEpoch]
      /\ tail' = [tail EXCEPT ![v] = NoTail]
      /\ UNCHANGED <<promise, basis, selected, votes, campaign, msgs>>
      /\ tail[v] = NoTail \/ Len(tail[v].entry) <= Len(m.log)
      /\ m.proofEpoch <= promise[v].epoch /\ Extends(m.log, log[v])
  BY DEF HandleSnapshot, InstallProven, MayInstallProven
<1>3. m.log \in Entries /\ m.proofEpoch \in Nat /\ ChosenPrefix(m.log, m.proofEpoch)
  BY <1>2, Received, MessageTypes DEF MsgFacts
<1>4. Grows /\ VoteInvs'
  BY <1>1, <1>2, <1>3, CutStep
<1>5. FileTypes' /\ campaign' \in [Voters -> Campaigns]
  BY <1>1, <1>2, <1>3, AbsentTypes DEF AuthorityTypes, FileTypes
<1>6. Others(v)
  BY <1>1, <1>2 DEF Others, AuthorityTypes
<1>7. CampaignOf(v)'
  BY <1>2, FollowerIsIdle DEF CampaignOf
<1> QED BY <1>2, <1>4, <1>5, <1>6, <1>7, ProtocolStep

\* An abandoned campaign preserves the invariant.
LEMMA AbandonStep ==
  ASSUME IInv, NEW v \in Voters, Abandon(v)
  PROVE  IInv' /\ Grows
<1>1. AuthorityTypes /\ VoteInvs
  BY DEF IInv, VoteInvs
<1>2. /\ campaign' = [campaign EXCEPT ![v] = Idle]
      /\ UNCHANGED <<promise, basis, selected, log, proofEpoch, tail, votes, msgs>>
  BY DEF Abandon, durable
<1>3. FileTypes' /\ campaign' \in [Voters -> Campaigns] /\ campaign'[v] = Idle /\ Others(v)
  BY <1>1, <1>2, AbsentTypes DEF AuthorityTypes, FileTypes, Others
<1>4. Grows /\ VoteInvs'
  BY <1>1, <1>2, FilesUnchanged
<1>5. CampaignOf(v)'
  BY <1>3 DEF CampaignOf, Idle
<1> QED BY <1>2, <1>3, <1>4, <1>5, ProtocolStep

\* A voter that is quarantined or started again: its campaign ends or is over
\* already, and nothing else that the authority's invariant speaks of changes.
Halted(v) ==
  /\ campaign' = campaign \/ campaign' = [campaign EXCEPT ![v] = Idle]
  /\ UNCHANGED <<durable, msgs, votes>>

\* Quarantine and restart are such steps.
LEMMA HaltedSteps ==
  \A v \in Voters : (\E m \in msgs : Quarantine(v, m)) \/ Restart(v) => Halted(v)
  BY DEF Quarantine, Restart, Halted

\* A voter that is quarantined or started again preserves the invariant.
LEMMA HaltedStep ==
  ASSUME IInv, NEW v \in Voters, Halted(v)
  PROVE  IInv' /\ Grows
<1>1. AuthorityTypes /\ VoteInvs
  BY DEF IInv, VoteInvs
<1>2. UNCHANGED <<promise, basis, selected, log, proofEpoch, tail, votes, msgs>>
  BY DEF Halted, durable
<1>3. FileTypes' /\ campaign' \in [Voters -> Campaigns] /\ Others(v)
  BY <1>1, <1>2, AbsentTypes DEF AuthorityTypes, FileTypes, Others, Halted
<1>4. Grows /\ VoteInvs'
  BY <1>1, <1>2, FilesUnchanged
<1>5. CampaignOf(v)'
  <2>1. CASE campaign' = campaign
    <3>1. CampaignOf(v)
      BY DEF IInv, CampaignInv
    <3> QED BY <1>1, <1>2, <1>4, <2>1, <3>1, IdleCampaign
  <2>2. CASE campaign' = [campaign EXCEPT ![v] = Idle]
    <3>1. campaign'[v] = Idle
      BY <1>1, <2>2 DEF AuthorityTypes
    <3> QED BY <3>1 DEF CampaignOf, Idle
  <2> QED BY <2>1, <2>2 DEF Halted
<1> QED BY <1>2, <1>3, <1>4, <1>5, ProtocolStep

\* A step that changes nothing preserves the invariant.
LEMMA StutteringStep ==
  ASSUME IInv, UNCHANGED vars
  PROVE  IInv' /\ Grows
<1>1. AuthorityTypes /\ VoteInvs
  BY DEF IInv, VoteInvs
<1>2. Grows /\ VoteInvs'
  BY <1>1, FilesUnchanged DEF vars
<1>3. PICK v \in Voters : TRUE
  BY VotersAssumption
<1>4. FileTypes' /\ campaign' \in [Voters -> Campaigns] /\ Others(v) /\ msgs' = msgs
  BY <1>1 DEF AuthorityTypes, FileTypes, Others, vars
<1>5. CampaignOf(v)'
  <2>1. CampaignOf(v)
    BY DEF IInv, CampaignInv
  <2> QED BY <1>1, <1>2, <2>1, IdleCampaign DEF vars
<1> QED BY <1>2, <1>4, <1>5, ProtocolStep

-----------------------------------------------------------------------------
(* The theorems *)

\* The empty files of a new group satisfy the invariant.
LEMMA InitInv == ASSUME Init PROVE IInv
<1>1. AuthorityTypes
  BY AbsentTypes, ExtendsEmpty DEF Init, AuthorityTypes
<1>2. \A v, c, f : ~ Voted(v, c, f)
  BY DEF Init, Voted
<1>3. VotesInv /\ ChainInv
  BY <1>2 DEF VotesInv, ChainInv
<1>4. \A r : ChosenPrefix(<<>>, r)
  BY ExtendsEmpty DEF ChosenPrefix
<1>5. \A v, L : TailOf(v, L, NoTail)
  BY DEF TailOf
<1>6. VoterInv
  <2> SUFFICES ASSUME NEW v \in Voters PROVE VoterOf(v)
    BY DEF VoterInv
  <2>1. /\ promise[v] = Genesis /\ basis[v] = NoBasis /\ log[v] = <<>>
        /\ proofEpoch[v] = 0 /\ tail[v] = NoTail
    BY DEF Init
  <2>2. BasisOf(v, NoBasis)
    BY <1>2, <1>4, <1>5, <2>1 DEF BasisOf, NoBasis, NoBallot, Genesis
  <2> QED BY <1>2, <1>4, <1>5, <2>1, <2>2 DEF VoterOf, Genesis, NoTail
<1>7. CampaignInv
  BY DEF Init, CampaignInv, CampaignOf, Idle
<1>8. MsgInv /\ OneBallotPerEpoch
  BY DEF Init, MsgInv, OneBallotPerEpoch
<1> QED BY <1>1, <1>3, <1>6, <1>7, <1>8 DEF IInv

\* Every step preserves the invariant and takes nothing back.
LEMMA StepInv == ASSUME IInv, [Next]_vars PROVE IInv' /\ Grows
<1>1. CASE UNCHANGED vars
  BY <1>1, StutteringStep
<1>2. CASE Next
  <2>1. PICK v \in Voters :
    \/ \E observed \in Epochs \union {1}, inc \in Incarnations, froze \in BOOLEAN :
          BeginCampaign(v, observed, inc, froze)
    \/ \E m \in msgs, froze \in BOOLEAN : HandlePrepare(v, m, froze)
    \/ \E m \in msgs : HandlePrepareAgain(v, m)
    \/ \E m \in msgs, adopted \in BOOLEAN : HandlePromise(v, m, adopted)
    \/ \E m \in msgs, adopted \in BOOLEAN : HandleInstall(v, m, adopted)
    \/ \E m \in msgs : HandleInstalled(v, m)
    \/ \E op \in Ops : Submit(v, op)
    \/ \E m \in msgs : HandleAccept(v, m)
    \/ \E m \in msgs : HandleAccepted(v, m)
    \/ \E m \in msgs : HandleProof(v, m)
    \/ \E m \in msgs : HandleProven(v, m)
    \/ \E m \in msgs : HandleProvenCarried(v, m)
    \/ OfferSnapshot(v)
    \/ \E m \in msgs : HandleSnapshot(v, m)
    \/ Abandon(v)
    \/ Halted(v)
    BY <1>2, HaltedSteps DEF Next, Serve
  <2> QED
    BY <2>1, BeginCampaignStep, HandlePrepareStep, HandlePrepareAgainStep, HandlePromiseStep, HandleInstallStep,
       HandleInstalledStep, SubmitStep, HandleAcceptStep, HandleAcceptedStep, HandleProofStep,
       HandleProvenStep, HandleProvenCarriedStep, OfferSnapshotStep, HandleSnapshotStep,
       AbandonStep, HaltedStep
<1> QED BY <1>1, <1>2

\* The invariant holds in every reachable state.
THEOREM Inductive == Spec => []IInv
<1>1. Init => IInv
  BY InitInv
<1>2. IInv /\ [Next]_vars => IInv'
  BY StepInv
<1> QED BY <1>1, <1>2, PTL DEF Spec

\* Every file, campaign and message of AutomaticStore and AutomaticProtocol, and
\* the quarantine mark, keeps its type.
THEOREM TypeCorrect == Spec => []TypeOK
<1> DEFINE Q == quarantined \in [Voters -> BOOLEAN]
<1>1. Init => Q
  BY DEF Init
<1>2. Q /\ [Next]_vars => Q'
  BY DEF Next, Serve, Quarantine, Restart, vars
<1>3. IInv /\ Q => TypeOK
  BY DEF IInv, TypeOK
<1> QED BY <1>1, <1>2, <1>3, Inductive, PTL DEF Spec

\* No two voters prove different entries at one index, whatever campaigns
\* compete, messages are lost or delayed, and voters stop between two forces.
THEOREM AgreementHolds == Spec => []Agreement
<1>1. ASSUME IInv PROVE Agreement
  <2> SUFFICES ASSUME NEW v \in Voters, NEW w \in Voters
               PROVE  Extends(log[v], log[w]) \/ Extends(log[w], log[v])
    BY DEF Agreement
  <2>1. /\ ChosenPrefix(log[v], proofEpoch[v]) /\ log[v] \in Entries /\ proofEpoch[v] \in Nat
        /\ ChosenPrefix(log[w], proofEpoch[w]) /\ log[w] \in Entries /\ proofEpoch[w] \in Nat
        /\ VotesInv /\ ChainInv
    BY <1>1, VoterTypes DEF IInv, VoterInv, VoterOf
  <2>2. Len(log[v]) <= Len(log[w]) \/ Len(log[w]) <= Len(log[v])
    BY <2>1, ExtendsLen
  <2> QED BY <2>1, <2>2, PrefixesAgree
<1>2. IInv => Agreement
  BY <1>1
<1> QED BY <1>2, Inductive, PTL

\* A proposer past recovery stands on everything proven below its ballot.
THEOREM LeaderIsComplete == Spec => []LeaderComplete
<1>1. ASSUME IInv PROVE LeaderComplete
  <2> SUFFICES ASSUME NEW p \in Voters, NEW v \in Voters,
                      campaign[p].stage \in {"ACCEPT", "PROOF", "READY"},
                      proofEpoch[v] < campaign[p].ballot.epoch
               PROVE  Extends(IF campaign[p].stage = "ACCEPT" THEN campaign[p].entry ELSE log[p],
                              log[v])
    BY DEF LeaderComplete
  <2>1. PICK c, e : c = campaign[p].ballot.epoch
          /\ e = IF campaign[p].stage = "ACCEPT" THEN campaign[p].entry ELSE log[p]
    OBVIOUS
  <2>2. c \in Nat /\ e \in Entries /\ log[v] \in Entries /\ proofEpoch[v] \in Nat
    BY <1>1, <2>1, VoterTypes DEF IInv, AuthorityTypes, Campaigns, Ballots
  <2>3. Voted(p, c, e)
    BY <1>1, <2>1 DEF IInv, CampaignInv, CampaignOf
  <2>4. SafeAt(c, e)
    BY <1>1, <2>2, <2>3 DEF IInv, VotesInv
  <2>5. CASE Len(log[v]) = 0
    <3>1. log[v] = <<>>
      BY <2>2, <2>5, ExtendsEmpty, ExtendsLen
    <3> QED BY <2>1, <2>2, <3>1, ExtendsEmpty
  <2>6. CASE Len(log[v]) > 0
    <3>1. ChosenPrefix(log[v], proofEpoch[v])
      BY <1>1 DEF IInv, VoterInv, VoterOf
    <3>2. PICK d \in Nat : d <= proofEpoch[v] /\ Chosen(d, log[v])
      BY <2>2, <2>6, <3>1, PrefixChosen
    <3>3. d < c
      BY <2>1, <2>2, <3>2
    <3> QED BY <2>1, <2>2, <2>4, <3>2, <3>3, ChosenBelowSafe
  <2> QED BY <2>2, <2>5, <2>6, ExtendsLen
<1>2. IInv => LeaderComplete
  BY <1>1
<1> QED BY <1>2, Inductive, PTL

\* A voter that stops and campaigns again never reuses an epoch.
THEOREM EpochsAreUnique == Spec => []OneBallotPerEpoch
<1>1. IInv => OneBallotPerEpoch
  BY DEF IInv
<1> QED BY <1>1, Inductive, PTL

\* No step rolls back a proven prefix.
THEOREM ProofsAreKept == Spec => ProvenNeverRollsBack
<1>1. ASSUME IInv, [Next]_vars PROVE [\A v \in Voters : Extends(log'[v], log[v])]_vars
  BY <1>1, StepInv DEF Grows
<1>2. IInv /\ [Next]_vars => [\A v \in Voters : Extends(log'[v], log[v])]_vars
  BY <1>1
<1> QED BY <1>2, Inductive, PTL DEF Spec, ProvenNeverRollsBack

\* A proven entry is at all times on two disks: every acceptor of the quorum
\* that chose it still holds it, proven or as its unresolved acceptance.
THEOREM ProofsAreReplicated == Spec => []ProvenOnQuorum
<1>1. ASSUME IInv, NEW v \in Voters PROVE \E Q \in Quorums : \A w \in Q : Holds(w, log[v])
  <2> USE VoterTypes
  <2>1. AuthorityTypes /\ VotesInv /\ ChainInv /\ VoterInv
    BY <1>1 DEF IInv
  <2>2. CASE Len(log[v]) = 0
    <3>1. log[v] = <<>>
      BY <2>1, <2>2, ExtendsEmpty, ExtendsLen
    <3>2. \A w \in Voters : Holds(w, log[v])
      BY <2>1, <3>1, ExtendsEmpty DEF Holds
    <3>3. Voters \in Quorums
      BY VotersAssumption DEF Quorums
    <3> QED BY <3>2, <3>3
  <2>3. CASE Len(log[v]) > 0
    <3>1. PICK c \in Nat : c <= proofEpoch[v] /\ Chosen(c, log[v])
      BY <2>1, <2>3, PrefixChosen DEF VoterInv, VoterOf
    <3>2. PICK Q \in Quorums : \A w \in Q : Voted(w, c, log[v])
      BY <3>1 DEF Chosen
    <3>3. ASSUME NEW w \in Q PROVE Holds(w, log[v])
      <4>1. w \in Voters /\ Voted(w, c, log[v])
        BY <3>2 DEF Quorums
      <4>2. /\ Covers(c, log[v], log[w], promise[w].epoch, tail[w])
            /\ TailOf(w, log[w], tail[w])
            /\ ChosenPrefix(log[w], proofEpoch[w]) /\ ChosenPrefix(log[v], proofEpoch[v])
            /\ c > 0
        BY <2>1, <4>1 DEF VoterInv, VoterOf, VotesInv
      <4>3. CASE Superseded(c, log[w], promise[w].epoch)
        <5>1. PICK d \in Nat, u \in Voters, g \in Entries :
                c < d /\ Voted(u, d, g) /\ Extends(log[w], g)
          BY <4>3 DEF Superseded
        <5>2. SafeAt(d, g)
          BY <2>1, <5>1 DEF VotesInv
        <5>3. Extends(g, log[v])
          BY <2>1, <3>1, <5>1, <5>2, ChosenBelowSafe
        <5> QED BY <2>1, <4>1, <5>1, <5>3, ExtendsTrans DEF Holds
      <4>4. CASE tail[w].epoch >= c /\ Len(log[v]) <= Len(log[w]) + 1
        <5>1. CASE Len(log[v]) <= Len(log[w])
          BY <2>1, <4>1, <4>2, <5>1, PrefixesAgree DEF Holds
        <5>2. CASE Len(log[v]) > Len(log[w])
          <6>1. tail[w] # NoTail
            BY <4>2, <4>4 DEF NoTail
          <6>2. /\ Voted(w, tail[w].epoch, tail[w].entry)
                /\ Len(tail[w].entry) = Len(log[w]) + 1
            BY <4>2, <6>1 DEF TailOf
          <6>3. Len(log[v]) = Len(tail[w].entry)
            BY <2>1, <4>1, <4>4, <5>2, <6>2, ExtendsLen
          <6>4. CASE tail[w].epoch = c
            <7>1. Extends(log[v], tail[w].entry) \/ Extends(tail[w].entry, log[v])
              BY <2>1, <4>1, <6>2, <6>4 DEF ChainInv
            <7> QED BY <2>1, <4>1, <6>3, <7>1, ExtendsLen DEF Holds
          <6>5. CASE tail[w].epoch > c
            <7>1. SafeAt(tail[w].epoch, tail[w].entry)
              BY <2>1, <4>1, <6>2 DEF VotesInv
            <7>2. Extends(tail[w].entry, log[v])
              BY <2>1, <3>1, <4>1, <6>5, <7>1, ChosenBelowSafe
            <7> QED BY <2>1, <4>1, <6>3, <7>2, ExtendsLen DEF Holds
          <6> QED BY <2>1, <4>1, <4>4, <6>4, <6>5
        <5> QED BY <2>1, <4>1, <5>1, <5>2, ExtendsLen
      <4> QED BY <4>2, <4>3, <4>4 DEF Covers, Holds
    <3> QED BY <3>2, <3>3
  <2> QED BY <2>1, <2>2, <2>3, ExtendsLen
<1>2. IInv => ProvenOnQuorum
  BY <1>1 DEF ProvenOnQuorum
<1> QED BY <1>2, Inductive, PTL

\* What AcceptanceNeverForgotten asks of one voter in one step.
Remembers(v) ==
  tail[v] # NoTail /\ tail'[v] # tail[v] =>
    \/ Len(log'[v]) >= Len(tail[v].entry)
    \/ tail'[v].epoch > tail[v].epoch /\ Len(tail'[v].entry) = Len(tail[v].entry)

\* The durable steps keep or resolve the acceptance of their voter, and touch
\* no other voter's.
LEMMA DurableRemember ==
  ASSUME AuthorityTypes, VoterInv, NEW v \in Voters
  PROVE  /\ \A b \in Ballots, froze \in BOOLEAN :
              Prepare(v, b, froze) => \A w \in Voters : Remembers(w)
         /\ \A s \in Selections, adopted \in BOOLEAN :
              SelectAndAdopt(v, s, adopted) => \A w \in Voters : Remembers(w)
         /\ \A b \in Ballots, e \in Entries :
              Accept(v, b, e) => \A w \in Voters : Remembers(w)
         /\ \A b \in Ballots, e \in Entries :
              Prove(v, b, e) => \A w \in Voters : Remembers(w)
         /\ \A m : InstallProven(v, m) => \A w \in Voters : Remembers(w)
<1> USE VoterTypes
<1>1. tail[v] # NoTail => Len(tail[v].entry) = Len(log[v]) + 1
  BY DEF VoterInv, VoterOf, TailOf
<1>2. ASSUME NEW b \in Ballots, NEW froze \in BOOLEAN, Prepare(v, b, froze), NEW w \in Voters
      PROVE  Remembers(w)
  BY <1>2 DEF Prepare, Remembers
<1>3. ASSUME NEW s \in Selections, NEW adopted \in BOOLEAN, SelectAndAdopt(v, s, adopted),
             NEW w \in Voters
      PROVE  Remembers(w)
  <2>1. CASE adopted /\ Len(s.prefix) > Len(log[v])
    <3>1. log'[v] = s.prefix /\ (w # v => tail'[w] = tail[w])
      BY <1>3, <2>1 DEF SelectAndAdopt, AuthorityTypes
    <3>2. s.prefix \in Entries
      BY DEF Selections
    <3> QED BY <1>1, <2>1, <3>1, <3>2, ExtendsLen DEF Remembers
  <2>2. CASE ~ (adopted /\ Len(s.prefix) > Len(log[v]))
    BY <1>3, <2>2 DEF SelectAndAdopt, Remembers
  <2> QED BY <2>1, <2>2
<1>4. ASSUME NEW b \in Ballots, NEW e \in Entries, Accept(v, b, e), NEW w \in Voters
      PROVE  Remembers(w)
  <2>1. /\ tail'[v] = [epoch |-> b.epoch, entry |-> e]
        /\ w # v => tail'[w] = tail[w]
        /\ MayAccept(v, b, e)
    BY <1>4 DEF Accept, AuthorityTypes
  <2> QED BY <1>1, <2>1 DEF Remembers, MayAccept
<1>5. ASSUME NEW b \in Ballots, NEW e \in Entries, Prove(v, b, e), NEW w \in Voters
      PROVE  Remembers(w)
  <2>1. log'[v] = e /\ tail[v].entry = e /\ (w # v => tail'[w] = tail[w])
    BY <1>5 DEF Prove, MayProve, AuthorityTypes
  <2> QED BY <2>1, ExtendsLen DEF Remembers
<1>6. ASSUME NEW m, InstallProven(v, m), NEW w \in Voters
      PROVE  Remembers(w)
  <2>1. /\ log'[v] = m.log /\ (w # v => tail'[w] = tail[w])
        /\ tail[v] = NoTail \/ Len(tail[v].entry) <= Len(m.log)
    BY <1>6 DEF InstallProven, MayInstallProven, AuthorityTypes
  <2> QED BY <2>1 DEF Remembers
<1> QED BY <1>2, <1>3, <1>4, <1>5, <1>6

\* One operation of v's store.
DurableStep(v) ==
  \/ \E b \in Ballots, froze \in BOOLEAN : Prepare(v, b, froze)
  \/ \E s \in Selections, adopted \in BOOLEAN : SelectAndAdopt(v, s, adopted)
  \/ \E b \in Ballots, e \in Entries : Accept(v, b, e)
  \/ \E b \in Ballots, e \in Entries : Prove(v, b, e)
  \/ \E m \in msgs : InstallProven(v, m)

\* A proposal is accepted by one durable step.
LEMMA CommitIsDurable ==
  ASSUME IInv, NEW v \in Voters, NEW e \in Entries, NEW a, Commit(v, e, a)
  PROVE  DurableStep(v)
<1>1. campaign[v].ballot \in Ballots
  BY DEF IInv, AuthorityTypes, Campaigns
<1> QED BY <1>1 DEF Commit, DurableStep

\* A step changes the files of at most one voter, by one operation of its store.
LEMMA OneDurableStep ==
  ASSUME IInv, [Next]_vars
  PROVE  UNCHANGED durable \/ \E v \in Voters : DurableStep(v)
<1>1. CASE UNCHANGED vars
  BY <1>1 DEF vars, durable
<1>2. ASSUME NEW v \in Voters, NEW observed \in Epochs \union {1}, NEW inc \in Incarnations,
             NEW froze \in BOOLEAN, BeginCampaign(v, observed, inc, froze)
      PROVE  DurableStep(v)
  <2>1. NextEpoch(observed, Rank[v]) \in Nat
    BY BoundsAssumption, NextEpochOwned
  <2>2. PICK b \in Ballots : b = [epoch |-> NextEpoch(observed, Rank[v]), proposer |-> v, inc |-> inc]
    BY <2>1 DEF Ballots, IncarnationsOrNone
  <2>3. Prepare(v, b, froze)
    BY <1>2, <2>2 DEF BeginCampaign
  <2> QED BY <2>3 DEF DurableStep
<1>3. ASSUME NEW v \in Voters, NEW m \in msgs, NEW froze \in BOOLEAN, HandlePrepare(v, m, froze)
      PROVE  DurableStep(v)
  BY <1>3, Received DEF HandlePrepare, DurableStep
<1>4. ASSUME NEW v \in Voters, NEW m \in msgs, NEW adopted \in BOOLEAN,
             HandlePromise(v, m, adopted)
      PROVE  DurableStep(v)
  <2>1. m.basis \in Bases /\ basis[v] \in Bases
    BY <1>4, Received, MessageTypes, VoterTypes DEF HandlePromise, IInv
  <2>2. Selection(basis[v], m.basis) \in Selections
    BY <2>1, SelectionTypes
  <2> QED BY <1>4, <2>2 DEF HandlePromise, DurableStep
<1>5. ASSUME NEW v \in Voters, NEW m \in msgs, NEW adopted \in BOOLEAN,
             HandleInstall(v, m, adopted)
      PROVE  DurableStep(v)
  <2>1. Selection(m.own, m.peer) \in Selections
    BY <1>5, Received, MessageTypes, SelectionTypes DEF HandleInstall
  <2> QED BY <1>5, <2>1 DEF HandleInstall, DurableStep
<1>6. ASSUME NEW v \in Voters, NEW m \in msgs, HandleInstalled(v, m)
      PROVE  DurableStep(v)
  <2>1. Fresh(v, NoOp) \in Entries /\ selected[v].next \in Entries
    BY FreshTypes DEF IInv, AuthorityTypes, Selections
  <2> QED BY <1>6, <2>1, CommitIsDurable DEF HandleInstalled
<1>7. ASSUME NEW v \in Voters, NEW op \in Ops, Submit(v, op)
      PROVE  DurableStep(v)
  <2>1. Fresh(v, op) \in Entries
    BY FreshTypes DEF IInv
  <2> QED BY <1>7, <2>1, CommitIsDurable DEF Submit
<1>8. ASSUME NEW v \in Voters, NEW m \in msgs,
             HandleAccept(v, m) \/ HandleAccepted(v, m) \/ HandleProof(v, m)
      PROVE  DurableStep(v)
  <2>1. m.ballot \in Ballots /\ m.entry \in Entries
    BY <1>8, Received, MessageTypes DEF HandleAccept, HandleAccepted, HandleProof
  <2> QED BY <1>8, <2>1 DEF HandleAccept, HandleAccepted, HandleProof, DurableStep
<1>9. ASSUME NEW v \in Voters, NEW m \in msgs, HandleProvenCarried(v, m)
      PROVE  DurableStep(v)
  <2>1. Fresh(v, NoOp) \in Entries
    BY FreshTypes DEF IInv
  <2> QED BY <1>9, <2>1, CommitIsDurable DEF HandleProvenCarried
<1>10. ASSUME NEW v \in Voters, NEW m \in msgs, HandleSnapshot(v, m)
       PROVE  DurableStep(v)
  BY <1>10 DEF HandleSnapshot, DurableStep
<1>11. ASSUME NEW v \in Voters,
              (\E m \in msgs : HandleProven(v, m)) \/ OfferSnapshot(v) \/ Abandon(v)
                \/ (\E m \in msgs : HandlePrepareAgain(v, m)) \/ Halted(v)
       PROVE  UNCHANGED durable
  BY <1>11 DEF HandleProven, OfferSnapshot, Abandon, HandlePrepareAgain, Halted
<1> QED BY <1>1, <1>2, <1>3, <1>4, <1>5, <1>6, <1>7, <1>8, <1>9, <1>10, <1>11, HaltedSteps DEF Next, Serve

\* An acceptance is never lost: it is resolved by a proof of its slot, or
\* replaced at its slot by one of a higher ballot.
THEOREM AcceptancesAreKept == Spec => AcceptanceNeverForgotten
<1> DEFINE A == \A v \in Voters : tail[v] # NoTail /\ tail'[v] # tail[v] =>
                  \/ Len(log'[v]) >= Len(tail[v].entry)
                  \/ /\ tail'[v].epoch > tail[v].epoch
                     /\ Len(tail'[v].entry) = Len(tail[v].entry)
<1>1. ASSUME IInv, [Next]_vars PROVE [A]_vars
  <2>1. \A w \in Voters : Remembers(w)
    <3>1. CASE UNCHANGED durable
      BY <3>1 DEF durable, Remembers
    <3>2. ASSUME NEW v \in Voters, DurableStep(v) PROVE \A w \in Voters : Remembers(w)
      BY <1>1, <3>2, DurableRemember DEF DurableStep, IInv
    <3> QED BY <1>1, <3>1, <3>2, OneDurableStep
  <2> QED BY <2>1 DEF Remembers
<1>2. IInv /\ [Next]_vars => [A]_vars
  BY <1>1
<1> QED BY <1>2, Inductive, PTL DEF Spec, AcceptanceNeverForgotten
=============================================================================
