-------------------------- MODULE ReferenceProofs --------------------------
(***************************************************************************)
(* OracleAccepts and ImplementsLog of ReferenceCluster, CommittedKept of   *)
(* ConfiguredHistory and ReadsSafe of ReferenceReads, for every choice of  *)
(* their constants.                                                        *)
(*                                                                         *)
(* The cluster is three voters of a log in ballots.  Its argument is that  *)
(* of ballots everywhere: a ballot proposes a value for a slot only when   *)
(* nothing else was or can still be chosen there below it (Safe), because  *)
(* its two bases show every vote that any quorum can have given.  What is  *)
(* particular here is that the model keeps no history: votes are           *)
(* overwritten by higher ones, receipts are lost, and a campaign is told   *)
(* from the messages and tables that are left.  Proposed, Voted and        *)
(* ProvenBy say what the state still shows, Bound and Retains what the     *)
(* voters of a chosen or answered slot keep.  Frame is what a step may do  *)
(* to all of these; every action is shown to fit it, and the safety        *)
(* invariant is proved once, of the frame (CoreStep).                      *)
(*                                                                         *)
(* The history of the configured leader, in the second part, is simpler: a *)
(* log is one path, a durable proof is for the entry of its own voter, and *)
(* an entry under a durable proof is neither written over nor truncated.   *)
(* Two voters with the proof of a committed entry are enough; the third    *)
(* may have forced an older proof after a truncation, and is then Stray.   *)
(* In the read model, the last part, a strong read is fresh because its    *)
(* barrier is proven after its admission.                                  *)
(***************************************************************************)
EXTENDS ReferenceCluster, ConfiguredHistory, ReferenceReads, FiniteSetTheorems, SequenceTheorems, TLAPS

\* The model as a specification.
ClusterSpec == ClusterInit /\ [][ClusterNext]_clusterVars

-----------------------------------------------------------------------------
(* The sets the state comes from *)

Values == LogValuesHere
Slots  == Nat \ {0}
Marks  == Ballots \X Values
VoteTables == UNION {[D -> Marks] : D \in SUBSET Slots}
BasisSet == [node : Nodes, ballot : Ballots, prefix : Seq(Values), accepted : VoteTables]
RoundSet == [slot : Nat, value : Values \cup {<<>>}, accepts : SUBSET Nodes, proofs : SUBSET Nodes,
             activation : BOOLEAN, read : ReadIds \cup {NoRead}, proof : BOOLEAN]
CampaignSet == [node : Nodes, basis : BasisSet, selected : BOOLEAN, retired : BOOLEAN,
                ready : BOOLEAN, round : RoundSet, quorum : SUBSET Nodes]
VoterSet == [promise : Nat, prefix : Seq(Values), accepted : VoteTables, generation : Nat,
             sealed : BOOLEAN, promises : Nat]
ReadSet == [ballot : Ballots, writes : SUBSET Slots, pin : Seq(Values)]
ReceiptKinds == {"accepted", "proof", "proven"}
MessageSet ==
         [kind : {"prepare"}, target : Nodes, ballot : Ballots]
    \cup [kind : {"promise"}, target : Nodes, ballot : Ballots, basis : BasisSet]
    \cup [kind : {"accept"}, target : Nodes, ballot : Ballots, prefix : Seq(Values), value : Values]
    \cup [kind : ReceiptKinds, target : Nodes, ballot : Ballots, node : Nodes, slot : Slots, value : Values]

ClusterTypes ==
    /\ voters \in [Nodes -> VoterSet]
    /\ campaigns \in [DOMAIN campaigns -> CampaignSet] /\ DOMAIN campaigns \subseteq Ballots
    /\ DOMAIN messages \subseteq MessageSet
    /\ reads \in [DOMAIN reads -> ReadSet] /\ DOMAIN reads \subseteq ReadIds
    /\ pins \in [DOMAIN pins -> Seq(Values)] /\ DOMAIN pins \subseteq ReadIds
    /\ chosen \in Seq(Values)
    /\ selections \in [DOMAIN selections -> Slots \X Values] /\ DOMAIN selections \subseteq Ballots
    /\ answers \subseteq Slots

-----------------------------------------------------------------------------
(* What the state still shows of proposals, votes and proofs *)

Selected(b) == b \in DOMAIN campaigns /\ campaigns[b].selected
Proposer(b) == campaigns[b].node
PairOf(b)   == campaigns[b].quorum
First(b)    == selections[b][1]

\* The slot a campaign has reached.
Top(b) == IF campaigns[b].round.slot = 0 THEN Len(voters[campaigns[b].node].prefix)
          ELSE campaigns[b].round.slot

\* The bases frozen by promises.
Bases == {campaigns[b].basis : b \in DOMAIN campaigns}
         \cup {m.basis : m \in {k \in DOMAIN messages : k.kind = "promise"}}

Marked(table, b, s, v) == s \in DOMAIN table /\ table[s] = <<b, v>>
InRound(b, s, v) == /\ b \in DOMAIN campaigns /\ s # 0
                    /\ campaigns[b].round.slot = s /\ campaigns[b].round.value = v
Says(m, b, s, v) ==
    /\ m.ballot = b
    /\ \/ m.kind = "accept" /\ s = Len(m.prefix) + 1 /\ v = m.value
       \/ m.kind \in ReceiptKinds /\ s = m.slot /\ v = m.value

\* Value v is proposed in slot s of ballot b.
Proposed(b, s, v) ==
    \/ \E n \in Nodes : Marked(voters[n].accepted, b, s, v)
    \/ \E m \in DOMAIN messages : Says(m, b, s, v)
    \/ \E x \in Bases : Marked(x.accepted, b, s, v)
    \/ InRound(b, s, v)
    \/ b \in DOMAIN selections /\ selections[b] = <<s, v>>

\* Voter n has accepted it, as far as the state still shows.
Voted(n, b, s, v) ==
    \/ Marked(voters[n].accepted, b, s, v)
    \/ \E m \in DOMAIN messages : m.kind = "accepted" /\ m.node = n /\ Says(m, b, s, v)
    \/ InRound(b, s, v) /\ n \in campaigns[b].round.accepts

\* Voter n has proven slot s of ballot b.
ProvenBy(n, b, s) ==
    \/ \E m \in DOMAIN messages : m.kind = "proven" /\ m.node = n /\ m.ballot = b /\ m.slot = s
    \/ b \in DOMAIN campaigns /\ s # 0 /\ campaigns[b].round.slot = s /\ n \in campaigns[b].round.proofs

\* A prefix of the chosen values.
Settled(p) == Len(p) <= Len(chosen) /\ \A i \in 1..Len(p) : p[i] = chosen[i]

-----------------------------------------------------------------------------
(* The inductive invariant *)

\* Nothing but v was or can still be chosen in slot s below ballot b.
Safe(b, s, v) ==
    \A k, w : \A i, j \in Nodes :
        /\ k \in Ballots /\ k < b /\ i # j /\ Voted(i, k, s, w)
        /\ voters[j].promise <= k \/ Voted(j, k, s, w)
        => w = v

ProposalInv ==
    /\ \A b, s, v : Proposed(b, s, v) =>
          Selected(b) /\ s \in First(b)..Top(b) /\ v \in Values /\ Safe(b, s, v)
    /\ \A b, s, v, w : Proposed(b, s, v) /\ Proposed(b, s, w) => v = w

\* A vote is on disk until a higher one replaces it, and below the promise.
VoteInv ==
    /\ \A n \in Nodes : \A b, s, v : Voted(n, b, s, v) =>
          s \in DOMAIN voters[n].accepted /\ voters[n].accepted[s][1] >= b
    /\ \A n \in Nodes : \A s \in DOMAIN voters[n].accepted :
          voters[n].accepted[s][1] <= voters[n].promise

\* A basis shows every vote its voter can have given below its ballot.
BasisAt(x) ==
    /\ voters[x.node].promise >= x.ballot /\ Settled(x.prefix)
    /\ \A b, s, v : b < x.ballot /\ s > Len(x.prefix) /\ Voted(x.node, b, s, v) =>
          s \in DOMAIN x.accepted /\ x.accepted[s][1] >= b
    /\ \A s \in DOMAIN x.accepted : x.accepted[s][1] < x.ballot

\* A selection is made by two voters, who had no votes above its slot.
SelectedAt(b) ==
    /\ \E n \in Nodes : n # Proposer(b) /\ PairOf(b) = {Proposer(b), n}
    /\ First(b) <= Top(b)
    /\ \A n \in PairOf(b) :
          /\ voters[n].promise >= b
          /\ \A k, s, v : k < b /\ s > First(b) => ~Voted(n, k, s, v)

\* Voter n keeps its vote for s of ballot b or a higher one, and shows it.
Bound(n, b, s) ==
    /\ s \in DOMAIN voters[n].accepted /\ voters[n].accepted[s][1] >= b
    /\ voters[n].promise >= b
    /\ \A x \in Bases : x.node = n /\ x.ballot > b =>
          s <= Len(x.prefix) \/ (s \in DOMAIN x.accepted /\ x.accepted[s][1] >= b)

\* What makes the value of slot s final, from ballot b on.
ChosenBy(b, s) ==
    /\ Selected(b) /\ Safe(b, s, chosen[s]) /\ s <= Top(b)
    /\ \A k, v : k >= b /\ Proposed(k, s, v) => v = chosen[s]
    /\ \E i, j \in Nodes : i # j /\ Bound(i, b, s) /\ Bound(j, b, s)
    /\ \A k : Selected(k) /\ k > b => s <= First(k)

\* Voter n has proven s in ballot b or earlier, and shows it.
Retains(n, b, s) ==
    /\ voters[n].promise >= b /\ s <= Len(voters[n].prefix)
    /\ \A x \in Bases : x.node = n /\ x.ballot > b => s <= Len(x.prefix)
    /\ \A k : Selected(k) /\ k > b /\ n \in PairOf(k) => s < First(k)

AnsweredBy(b, s) ==
    /\ Selected(b) /\ s <= Len(voters[Proposer(b)].prefix)
    /\ \E i, j \in Nodes : i # j /\ Retains(i, b, s) /\ Retains(j, b, s)

SafetyInv ==
    /\ ProposalInv /\ VoteInv
    /\ \A x \in Bases : BasisAt(x)
    /\ \A n \in Nodes : Settled(voters[n].prefix)
    /\ \A b : Selected(b) => SelectedAt(b)
    /\ \A s \in 1..Len(chosen) : \E b : ChosenBy(b, s)
    /\ \A n \in Nodes : \A b, s : ProvenBy(n, b, s) => Retains(n, b, s)
    /\ \A s \in answers : s <= Len(chosen) /\ \E b : AnsweredBy(b, s)

\* A voter that will not vote for s in ballot b.
Refuses(n, b, s) == voters[n].promise > b /\ \A v : ~Voted(n, b, s, v)

\* The round of a campaign.
RoundAt(b) ==
    LET c == campaigns[b]
        r == c.round
    IN /\ Selected(b) /\ r.value \in Values
       /\ r.slot <= Len(chosen) + 1
       /\ voters[c.node].promise = b => Len(voters[c.node].prefix) <= r.slot
       /\ r.accepts \subseteq c.quorum /\ r.proofs \subseteq c.quorum
       /\ r.proof => r.accepts = c.quorum /\ r.slot <= Len(chosen) /\ chosen[r.slot] = r.value
       /\ r.proofs # {} => r.proof
       /\ r.read # NoRead =>
             /\ r.value = Barrier(b, r.read) /\ r.read \in DOMAIN reads
             /\ reads[r.read].ballot = b /\ reads[r.read].pin = <<>>
             /\ \A s \in reads[r.read].writes : s < r.slot \/ \E n \in c.quorum : Refuses(n, b, r.slot)

CampaignAt(b) ==
    LET c == campaigns[b] IN
    /\ c.basis.ballot = b /\ c.basis.node = c.node
    /\ c.selected <=> b \in DOMAIN selections
    /\ c.ready => c.selected
    /\ c.round.slot = 0 => c.round = NoRound
    /\ c.round.slot # 0 => RoundAt(b)
    /\ ~c.selected /\ voters[c.node].promise = b => voters[c.node].prefix = c.basis.prefix

MessageAt(m) ==
    LET b == m.ballot
        c == campaigns[b]
        counted == /\ m.slot <= Len(chosen) /\ chosen[m.slot] = m.value
                   /\ c.round.slot = m.slot => c.round.proof
    IN /\ b \in DOMAIN campaigns
       /\ m.kind = "prepare" => m.target # c.node
       /\ m.kind = "promise" => m.target = c.node /\ m.basis.ballot = b /\ m.basis.node # c.node
       /\ m.kind = "accept" => Selected(b) /\ m.target \in c.quorum /\ Settled(m.prefix)
       /\ m.kind = "accepted" => Selected(b) /\ m.target = c.node /\ m.node \in c.quorum
       /\ m.kind = "proof" => Selected(b) /\ m.target \in c.quorum /\ counted
       /\ m.kind = "proven" => /\ Selected(b) /\ m.target = c.node /\ m.node \in c.quorum /\ counted
                               /\ m.slot <= Len(voters[m.node].prefix)

\* Sets of slots that have a latest one.
Topped(S) == S = {} \/ \E k \in S : \A j \in S : j <= k

ReadInv ==
    /\ Topped(answers)
    /\ \A r \in DOMAIN reads : Topped(reads[r].writes) /\ reads[r].writes \subseteq answers
    /\ \A r \in DOMAIN pins : r \in DOMAIN reads /\ pins[r] = reads[r].pin

ClusterInv ==
    /\ ClusterTypes
    /\ SafetyInv
    /\ \A b \in DOMAIN campaigns : CampaignAt(b)
    /\ \A m \in DOMAIN messages : MessageAt(m)
    /\ ReadInv
    /\ verdict = "PASS"
-----------------------------------------------------------------------------
(* What a step may do to promises, votes, proofs, bases and proposals *)

\* The arithmetic of the state.
Sized ==
    /\ \A n \in Nodes : /\ voters[n].promise \in Nat /\ Len(voters[n].prefix) \in Nat
                        /\ \A s \in DOMAIN voters[n].accepted : s \in Nat /\ voters[n].accepted[s][1] \in Nat
    /\ \A x \in Bases : /\ x.node \in Nodes /\ x.ballot \in Nat /\ Len(x.prefix) \in Nat
                        /\ \A s \in DOMAIN x.accepted : s \in Nat /\ x.accepted[s][1] \in Nat
    /\ \A b : Selected(b) => b \in Ballots /\ Top(b) \in Nat /\ First(b) \in Nat /\ Proposer(b) \in Nodes
    /\ Len(chosen) \in Nat

PromisesRise == \A n \in Nodes : voters'[n].promise >= voters[n].promise

\* A new vote is of the ballot its voter promised last.
VotesByPromise ==
    \A n \in Nodes : \A k, s, v : Voted(n, k, s, v)' =>
        \/ Voted(n, k, s, v)
        \/ voters[n].promise = k /\ s \in DOMAIN voters'[n].accepted /\ voters'[n].accepted[s][1] >= k

DisksGrow ==
    \A n \in Nodes :
        /\ Len(voters'[n].prefix) >= Len(voters[n].prefix)
        /\ \A s \in DOMAIN voters[n].accepted :
              s \in DOMAIN voters'[n].accepted /\ voters'[n].accepted[s][1] >= voters[n].accepted[s][1]
        /\ \A s \in DOMAIN voters'[n].accepted :
              \/ s \in DOMAIN voters[n].accepted /\ voters'[n].accepted[s] = voters[n].accepted[s]
              \/ voters'[n].accepted[s][1] = voters'[n].promise

LogGrows == Len(chosen') >= Len(chosen) /\ \A i \in 1..Len(chosen) : chosen'[i] = chosen[i]

CampaignsStay ==
    \A b : Selected(b) => /\ Selected(b)' /\ Proposer(b)' = Proposer(b) /\ PairOf(b)' = PairOf(b)
                          /\ First(b)' = First(b) /\ Top(b)' >= Top(b)

\* A basis frozen by this step.
Fresh(x) ==
    LET n == x.node
    IN /\ n \in Nodes /\ x.ballot = voters'[n].promise /\ x.ballot > voters[n].promise
       /\ x.prefix = voters[n].prefix /\ voters'[n].prefix = voters[n].prefix
       /\ voters'[n].accepted = voters[n].accepted
       /\ \A s : s \in DOMAIN x.accepted <=> s \in DOMAIN voters[n].accepted /\ s > Len(x.prefix)
       /\ \A s \in DOMAIN x.accepted : x.accepted[s] = voters[n].accepted[s]
BasesOld == \A x \in Bases' : x \in Bases \/ Fresh(x)

ProofsByPromise ==
    \A n \in Nodes : \A b, s : ProvenBy(n, b, s)' =>
        \/ ProvenBy(n, b, s)
        \/ voters[n].promise = b /\ voters'[n].promise = b /\ s <= Len(voters'[n].prefix)

\* A selected campaign goes on to the next slot with v.
Later(b, s, v) == Selected(b) /\ s \in Nat /\ s > Top(b) /\ s <= Top(b)' /\ v \in Values

\* Ballot b selects v for slot s, from the bases x and y.
Picks(b, s, v, x, y) ==
    /\ ~Selected(b) /\ v \in Values /\ x \in Bases /\ y \in Bases
    /\ x.ballot = b /\ y.ballot = b /\ x.node # y.node
    /\ \A z \in {x, y} :
          /\ Len(z.prefix) < s
          /\ \A i \in DOMAIN z.accepted : i <= s
          /\ s \in DOMAIN z.accepted =>
                \E u \in {x, y} : \E k : Marked(u.accepted, k, s, v) /\ z.accepted[s][1] <= k
    /\ Selected(b)' /\ First(b)' = s /\ Top(b)' = s
    /\ PairOf(b)' = {x.node, y.node} /\ Proposer(b)' \in {x.node, y.node}

\* No proposal is new but v in slot s of ballot b, and no selection but that of b.
OnlyNew(b, s, v) == \A k, i, w : Proposed(k, i, w)' => Proposed(k, i, w) \/ (k = b /\ i = s /\ w = v)
NoneSelected == \A k : Selected(k)' => Selected(k)
SelectedOnly(b) == \A k : Selected(k)' => Selected(k) \/ k = b

Quiet == NoneSelected /\ \A k, i, w : Proposed(k, i, w)' => Proposed(k, i, w)
Continues == \E b, s, v : Later(b, s, v) /\ OnlyNew(b, s, v) /\ NoneSelected
Selects == \E b, s, v, x, y : Picks(b, s, v, x, y) /\ OnlyNew(b, s, v) /\ SelectedOnly(b)

Frame ==
    /\ PromisesRise /\ VotesByPromise /\ DisksGrow /\ LogGrows /\ CampaignsStay
    /\ BasesOld /\ ProofsByPromise
    /\ Quiet \/ Continues \/ Selects

\* Any two pairs of the three voters share one.
LEMMA TwoOfThree ==
    ASSUME NEW i \in Nodes, NEW j \in Nodes, i # j, NEW k \in Nodes, NEW l \in Nodes, k # l
    PROVE  i = k \/ i = l \/ j = k \/ j = l
BY DEF Nodes

\* A vote is for a value that was proposed.
LEMMA VotedProposed ==
    ASSUME NEW n \in Nodes, NEW b, NEW s, NEW v, Voted(n, b, s, v)
    PROVE  Proposed(b, s, v)
BY DEF Voted, Proposed

\* A value that is safe stays safe once two voters have promised the ballot.
LEMMA SafeStays ==
    ASSUME NEW b \in Ballots, NEW s, NEW v, Safe(b, s, v), Sized, Sized', PromisesRise, VotesByPromise,
           NEW i \in Nodes, NEW j \in Nodes, i # j, voters[i].promise >= b, voters[j].promise >= b
    PROVE  Safe(b, s, v)'
<1> SUFFICES ASSUME NEW k \in Ballots, NEW w, NEW p \in Nodes, NEW q \in Nodes,
                    k < b, p # q, Voted(p, k, s, w)', (voters[q].promise <= k)' \/ Voted(q, k, s, w)'
             PROVE  w = v
  BY DEF Safe
<1>0. k \in Int /\ b \in Int BY DEF Ballots
<1>1. (voters[p].promise >= b \/ voters[q].promise >= b)
  BY TwoOfThree
<1>2. Voted(p, k, s, w) \/ voters[p].promise = k BY DEF VotesByPromise
<1>3. (Voted(q, k, s, w) \/ voters[q].promise = k) \/ voters[q].promise <= k
  BY <1>0 DEF VotesByPromise, PromisesRise, Sized
<1>4. CASE voters[p].promise = k
  <2>1. voters[q].promise >= b BY <1>1, <1>4, <1>0
  <2>2. Voted(q, k, s, w) BY <2>1, <1>3, <1>0 DEF Sized
  <2> QED BY <2>2, <1>4, <1>0 DEF Safe
<1>5. CASE Voted(p, k, s, w)
  <2>1. voters[q].promise <= k \/ Voted(q, k, s, w) BY <1>3, <1>0
  <2> QED BY <2>1, <1>5 DEF Safe
<1> QED BY <1>2, <1>4, <1>5

\* Nobody of the quorum of a selection can still vote above its first slot in a lower ballot.
LEMMA SafeAbove ==
    ASSUME SafetyInv, Sized, NEW b, Selected(b), NEW s, s > First(b), NEW v
    PROVE  Safe(b, s, v)
<1> SUFFICES ASSUME NEW k \in Ballots, NEW w, NEW p \in Nodes, NEW q \in Nodes,
                    k < b, p # q, Voted(p, k, s, w), (voters[q].promise <= k) \/ Voted(q, k, s, w)
             PROVE  FALSE
  BY DEF Safe
<1>0. k \in Int /\ b \in Int BY DEF Ballots, Sized
<1>1. SelectedAt(b) BY DEF SafetyInv
<1>2. PICK n \in Nodes : n # Proposer(b) /\ PairOf(b) = {Proposer(b), n} BY <1>1 DEF SelectedAt
<1>3. p \in PairOf(b) \/ q \in PairOf(b) BY <1>2, TwoOfThree DEF Sized
<1>4. \A m \in PairOf(b) : voters[m].promise >= b /\ ~Voted(m, k, s, w) BY <1>1 DEF SelectedAt
<1> QED BY <1>3, <1>4, <1>0 DEF Sized

\* The value of the highest vote that two bases show is safe, and the value of
\* whatever was chosen there.
LEMMA PickedSafe ==
    ASSUME SafetyInv, Sized, NEW b \in Ballots, NEW s, NEW v, NEW x, NEW y, Picks(b, s, v, x, y)
    PROVE  Safe(b, s, v)
<1> SUFFICES ASSUME NEW k \in Ballots, NEW w, NEW p \in Nodes, NEW q \in Nodes,
                    k < b, p # q, Voted(p, k, s, w), (voters[q].promise <= k) \/ Voted(q, k, s, w)
             PROVE  w = v
  BY DEF Safe
<1>0. k \in Int /\ b \in Int BY DEF Ballots
<1>1. /\ x \in Bases /\ y \in Bases /\ x.node \in Nodes /\ y.node \in Nodes /\ x.node # y.node
      /\ x.ballot = b /\ y.ballot = b
  BY DEF Picks, Sized
<1>2. BasisAt(x) /\ BasisAt(y) BY <1>1 DEF SafetyInv
<1>3. PICK z \in {x, y} : Voted(z.node, k, s, w)
  <2>1. p = x.node \/ p = y.node \/ q = x.node \/ q = y.node BY <1>1, TwoOfThree
  <2>2. \A z \in {x, y} : voters[z.node].promise >= b BY <1>1, <1>2 DEF BasisAt
  <2>3. CASE p = x.node \/ p = y.node BY <2>3
  <2>4. CASE q = x.node \/ q = y.node BY <2>2, <2>4, <1>0, <1>1 DEF Sized
  <2> QED BY <2>1, <2>3, <2>4
<1>4. Len(z.prefix) < s /\ BasisAt(z) /\ z.ballot = b /\ Len(z.prefix) \in Nat
  BY <1>1, <1>2 DEF Picks, Sized
<1>a. s \in Int
  <2>1. Proposed(k, s, w) BY <1>1, <1>3, VotedProposed
  <2> QED BY <2>1 DEF SafetyInv, ProposalInv, Sized
<1>5. s \in DOMAIN z.accepted /\ z.accepted[s][1] >= k BY <1>3, <1>4, <1>0, <1>a DEF BasisAt
<1>b. PICK u \in {x, y} : \E t : Marked(u.accepted, t, s, v) /\ z.accepted[s][1] <= t
  BY <1>5 DEF Picks
<1>6. PICK t : Marked(u.accepted, t, s, v) /\ z.accepted[s][1] <= t
  BY <1>b
<1>7. Proposed(t, s, v) /\ Proposed(k, s, w)
  BY <1>1, <1>3, <1>6, VotedProposed DEF Proposed
<1>8. t \in Ballots /\ Safe(t, s, v) BY <1>7 DEF SafetyInv, ProposalInv, Sized
<1>9. z.accepted[s][1] \in Nat BY <1>1, <1>5 DEF Sized
<1>10. t >= k BY <1>5, <1>6, <1>8, <1>9, <1>0 DEF Ballots
<1>11. CASE t = k BY <1>7, <1>11 DEF SafetyInv, ProposalInv
<1>12. CASE t > k BY <1>8, <1>12 DEF Safe
<1> QED BY <1>10, <1>11, <1>12, <1>8, <1>0 DEF Ballots

\* A selection above the ballot that chose slot c reaches c, and keeps its value.
LEMMA PickedBound ==
    ASSUME SafetyInv, Sized, NEW b \in Ballots, NEW s \in Int, NEW v, NEW x, NEW y, Picks(b, s, v, x, y),
           NEW c \in 1..Len(chosen), NEW k \in Int, ChosenBy(k, c), k < b
    PROVE  c <= s /\ (c = s => v = chosen[c])
<1>1. /\ x \in Bases /\ y \in Bases /\ x.node \in Nodes /\ y.node \in Nodes /\ x.node # y.node
      /\ x.ballot = b /\ y.ballot = b
  BY DEF Picks, Sized
<1>2. PICK i \in Nodes, j \in Nodes : i # j /\ Bound(i, k, c) /\ Bound(j, k, c) BY DEF ChosenBy
<1>3. i = x.node \/ i = y.node \/ j = x.node \/ j = y.node BY <1>1, <1>2, TwoOfThree
<1>4. PICK z \in {x, y} : Bound(z.node, k, c) BY <1>2, <1>3
<1>5. c <= Len(z.prefix) \/ (c \in DOMAIN z.accepted /\ z.accepted[c][1] >= k)
  BY <1>1, <1>4 DEF Bound
<1>6. Len(z.prefix) < s /\ Len(z.prefix) \in Nat /\ c \in Int BY <1>1 DEF Picks, Sized
<1>7. c \in DOMAIN z.accepted => c <= s BY DEF Picks
<1>8. CASE c <= Len(z.prefix) BY <1>6, <1>8
<1>9. CASE c \in DOMAIN z.accepted /\ z.accepted[c][1] >= k /\ c = s
  <2>a. PICK u \in {x, y} : \E t : Marked(u.accepted, t, s, v) /\ z.accepted[s][1] <= t
    BY <1>9 DEF Picks
  <2>1. PICK t : Marked(u.accepted, t, s, v) /\ z.accepted[s][1] <= t
    BY <2>a
  <2>2. Proposed(t, s, v) BY <1>1, <2>1 DEF Proposed
  <2>3. t \in Ballots BY <2>2 DEF SafetyInv, ProposalInv, Sized
  <2>4. z.accepted[s][1] \in Nat BY <1>1, <1>9 DEF Sized
  <2>5. t >= k BY <2>1, <2>3, <2>4, <1>9 DEF Ballots
  <2> QED BY <2>2, <2>5, <1>9 DEF ChosenBy
<1> QED BY <1>5, <1>6, <1>7, <1>8, <1>9

-----------------------------------------------------------------------------
(* Each part of the safety invariant under such a step *)

\* Votes stay on disk: promises rise and tables only take higher ballots.
LEMMA VoteStep ==
    ASSUME SafetyInv, Sized, Sized', Frame
    PROVE  VoteInv'
<1>1. ASSUME NEW n \in Nodes, NEW b, NEW s, NEW v, Voted(n, b, s, v)'
      PROVE  s \in DOMAIN voters'[n].accepted /\ voters'[n].accepted[s][1] >= b
  <2>1. CASE Voted(n, b, s, v)
    <3>1. s \in DOMAIN voters[n].accepted /\ voters[n].accepted[s][1] >= b
      BY <2>1 DEF SafetyInv, VoteInv
    <3>2. s \in DOMAIN voters'[n].accepted /\ voters'[n].accepted[s][1] >= voters[n].accepted[s][1]
      BY <3>1 DEF Frame, DisksGrow
    <3>3. b \in Int BY <2>1, VotedProposed DEF SafetyInv, ProposalInv, Sized, Ballots
    <3> QED BY <3>1, <3>2, <3>3 DEF Sized
  <2> QED BY <1>1, <2>1 DEF Frame, VotesByPromise
<1>2. ASSUME NEW n \in Nodes, NEW s \in DOMAIN voters'[n].accepted
      PROVE  voters'[n].accepted[s][1] <= voters'[n].promise
  <2>1. CASE s \in DOMAIN voters[n].accepted /\ voters'[n].accepted[s] = voters[n].accepted[s]
    <3>1. voters[n].accepted[s][1] <= voters[n].promise BY <2>1 DEF SafetyInv, VoteInv
    <3> QED BY <2>1, <3>1 DEF Frame, PromisesRise, Sized
  <2>2. CASE voters'[n].accepted[s][1] = voters'[n].promise BY <2>2 DEF Sized
  <2> QED BY <2>1, <2>2 DEF Frame, DisksGrow
<1> QED BY <1>1, <1>2 DEF VoteInv

\* A prefix of the log stays one while the log grows.
LEMMA SettledStep ==
    ASSUME NEW p, Settled(p), LogGrows, Sized, Sized', Len(p) \in Nat
    PROVE  Settled(p)'
BY DEF Settled, LogGrows, Sized

\* A basis, old or frozen by this step, shows every vote below its ballot.
LEMMA BasisStep ==
    ASSUME SafetyInv, Sized, Sized', Frame, VoteInv', NEW x \in Bases', \A n \in Nodes : Settled(voters[n].prefix)'
    PROVE  BasisAt(x)'
<1>1. CASE x \in Bases
  <2>1. BasisAt(x) BY <1>1 DEF SafetyInv
  <2>2. x.node \in Nodes /\ x.ballot \in Nat /\ Len(x.prefix) \in Nat BY <1>1 DEF Sized
  <2>3. Settled(x.prefix)' BY <2>1, <2>2, SettledStep DEF BasisAt, Frame
  <2>4. voters'[x.node].promise >= x.ballot
    BY <2>1, <2>2 DEF BasisAt, Frame, PromisesRise, Sized
  <2>5. ASSUME NEW b, NEW s, NEW v, b < x.ballot, s > Len(x.prefix), Voted(x.node, b, s, v)'
        PROVE  s \in DOMAIN x.accepted /\ x.accepted[s][1] >= b
    <3>1. voters[x.node].promise # b BY <2>1, <2>2, <2>5 DEF BasisAt, Sized
    <3>2. Voted(x.node, b, s, v) BY <2>2, <2>5, <3>1 DEF Frame, VotesByPromise
    <3> QED BY <2>1, <2>5, <3>2 DEF BasisAt
  <2> QED BY <2>1, <2>3, <2>4, <2>5 DEF BasisAt
<1>2. CASE Fresh(x)
  <2> DEFINE n == x.node
  <2>1. n \in Nodes /\ x.ballot = voters'[n].promise /\ x.ballot > voters[n].promise
        /\ x.prefix = voters'[n].prefix /\ voters'[n].accepted = voters[n].accepted
    BY <1>2 DEF Fresh
  <2>2. Settled(x.prefix)' BY <2>1
  <2>3. ASSUME NEW b, NEW s, NEW v, s > Len(x.prefix), Voted(x.node, b, s, v)'
        PROVE  s \in DOMAIN x.accepted /\ x.accepted[s][1] >= b
    <3>1. s \in DOMAIN voters'[n].accepted /\ voters'[n].accepted[s][1] >= b
      BY <2>1, <2>3 DEF VoteInv
    <3> QED BY <1>2, <2>1, <2>3, <3>1 DEF Fresh
  <2>4. ASSUME NEW s \in DOMAIN x.accepted PROVE x.accepted[s][1] < x.ballot
    <3>1. s \in DOMAIN voters[n].accepted /\ x.accepted[s] = voters[n].accepted[s]
      BY <1>2, <2>4 DEF Fresh
    <3>2. voters[n].accepted[s][1] <= voters[n].promise BY <2>1, <3>1 DEF SafetyInv, VoteInv
    <3> QED BY <2>1, <3>1, <3>2 DEF Sized
  <2> QED BY <2>1, <2>2, <2>3, <2>4 DEF BasisAt, Sized
<1> QED BY <1>1, <1>2 DEF Frame, BasesOld

\* A selection that was there, or the one that this step makes.
LEMMA SelectedCases ==
    ASSUME Frame, NEW b, Selected(b)'
    PROVE  \/ Selected(b)
           \/ \E s, v, x, y : Picks(b, s, v, x, y)
<1>1. CASE Quiet \/ Continues BY <1>1 DEF Quiet, Continues, NoneSelected
<1>2. CASE Selects BY <1>2 DEF Selects, SelectedOnly
<1> QED BY <1>1, <1>2 DEF Frame

\* The pair of a selection has no vote above its slot in a lower ballot.
LEMMA SelectedStep ==
    ASSUME SafetyInv, Sized, Sized', Frame, NEW b, Selected(b)'
    PROVE  SelectedAt(b)'
<1>0. b \in Ballots /\ b \in Int BY DEF Sized, Ballots
<1>1. CASE Selected(b)
  <2>1. SelectedAt(b) BY <1>1 DEF SafetyInv
  <2>2. PairOf(b)' = PairOf(b) /\ Proposer(b)' = Proposer(b) /\ First(b)' = First(b) /\ Top(b)' >= Top(b)
    BY <1>1 DEF Frame, CampaignsStay
  <2>3. PICK m \in Nodes : m # Proposer(b) /\ PairOf(b) = {Proposer(b), m} BY <2>1 DEF SelectedAt
  <2>4. PairOf(b) \subseteq Nodes BY <1>1, <2>3 DEF Sized
  <2>5. ASSUME NEW n \in PairOf(b)
        PROVE  /\ voters'[n].promise >= b
               /\ \A k, s, v : k < b /\ s > First(b) => ~Voted(n, k, s, v)'
    <3>1. voters[n].promise >= b /\ \A k, s, v : k < b /\ s > First(b) => ~Voted(n, k, s, v)
      BY <2>1 DEF SelectedAt
    <3>2. voters'[n].promise >= b BY <2>4, <3>1, <1>0 DEF Frame, PromisesRise, Sized
    <3>3. ASSUME NEW k, NEW s, NEW v, k < b, s > First(b), Voted(n, k, s, v)' PROVE FALSE
      <4>1. voters[n].promise = k BY <3>1, <3>3, <2>4 DEF Frame, VotesByPromise
      <4> QED BY <4>1, <3>1, <3>3, <2>4, <1>0 DEF Sized
    <3> QED BY <3>2, <3>3
  <2>6. First(b)' <= Top(b)' BY <2>1, <2>2, <1>1 DEF SelectedAt, Sized
  <2> QED BY <2>2, <2>3, <2>5, <2>6 DEF SelectedAt
<1>2. CASE \E s, v, x, y : Picks(b, s, v, x, y)
  <2>1. PICK f, u, x, y : Picks(b, f, u, x, y) BY <1>2
  <2>2. /\ x \in Bases /\ y \in Bases /\ x.node \in Nodes /\ y.node \in Nodes /\ x.node # y.node
        /\ x.ballot = b /\ y.ballot = b
    BY <2>1 DEF Picks, Sized
  <2>3. First(b)' = f /\ Top(b)' = f /\ PairOf(b)' = {x.node, y.node} /\ Proposer(b)' \in {x.node, y.node}
    BY <2>1 DEF Picks
  <2>4. First(b)' <= Top(b)' BY <2>3 DEF Sized
  <2>5. ASSUME NEW z \in {x, y}
        PROVE  /\ voters'[z.node].promise >= b
               /\ \A k, s, v : k < b /\ s > f => ~Voted(z.node, k, s, v)'
    <3>1. BasisAt(z) /\ z.node \in Nodes /\ z.ballot = b BY <2>2 DEF SafetyInv
    <3>2. voters'[z.node].promise >= b /\ voters[z.node].promise >= b
      BY <3>1, <1>0 DEF BasisAt, Frame, PromisesRise, Sized
    <3>3. ASSUME NEW k, NEW s, NEW v, k < b, s > f, Voted(z.node, k, s, v)' PROVE FALSE
      <4>1. voters[z.node].promise # k BY <3>1, <3>2, <3>3, <1>0 DEF Sized
      <4>2. Voted(z.node, k, s, v) BY <4>1, <3>1, <3>3 DEF Frame, VotesByPromise
      <4>3. s \in Int BY <4>2, <3>1, VotedProposed DEF SafetyInv, ProposalInv, Sized
      <4>4. Len(z.prefix) < f /\ Len(z.prefix) \in Nat /\ f \in Nat BY <2>1, <2>2, <2>3 DEF Picks, Sized
      <4>5. s \in DOMAIN z.accepted BY <3>1, <3>3, <4>2, <4>3, <4>4 DEF BasisAt
      <4>6. s <= f BY <2>1, <4>5 DEF Picks
      <4> QED BY <4>6, <4>4, <4>3, <3>3
    <3> QED BY <3>2, <3>3
  <2>6. \E n \in Nodes : n # Proposer(b)' /\ PairOf(b)' = {Proposer(b)', n} BY <2>2, <2>3
  <2>7. \A n \in PairOf(b)' : /\ voters'[n].promise >= b
               /\ \A k, s, v : k < b /\ s > First(b)' => ~Voted(n, k, s, v)'
    BY <2>3, <2>5
  <2> QED BY <2>4, <2>6, <2>7 DEF SelectedAt
<1> QED BY <1>1, <1>2, SelectedCases

\* Two voters have promised the ballot of a selection.
LEMMA TwoPromised ==
    ASSUME SafetyInv, Sized, NEW b, Selected(b)
    PROVE  \E i, j \in Nodes : i # j /\ voters[i].promise >= b /\ voters[j].promise >= b
BY DEF SafetyInv, SelectedAt, Sized

\* The values of a selected ballot stay safe.
LEMMA SafeKept ==
    ASSUME SafetyInv, Sized, Sized', Frame, NEW b, Selected(b), NEW s, NEW v, Safe(b, s, v)
    PROVE  Safe(b, s, v)'
<1>1. PICK i \in Nodes, j \in Nodes : i # j /\ voters[i].promise >= b /\ voters[j].promise >= b
  BY TwoPromised
<1>2. b \in Ballots BY DEF Sized
<1> QED BY <1>1, <1>2, SafeStays DEF Frame

\* Every proposal of a ballot is safe, and is its only one for the slot.
LEMMA ProposalStep ==
    ASSUME SafetyInv, Sized, Sized', Frame
    PROVE  ProposalInv'
<1> DEFINE Fine(b, s, v) == Selected(b)' /\ s \in First(b)'..Top(b)' /\ v \in Values /\ Safe(b, s, v)'
<1>1. ASSUME NEW b, NEW s, NEW v, Proposed(b, s, v) PROVE Fine(b, s, v)
  <2>1. Selected(b) /\ s \in First(b)..Top(b) /\ v \in Values /\ Safe(b, s, v)
    BY <1>1 DEF SafetyInv, ProposalInv
  <2>2. Selected(b)' /\ First(b)' = First(b) /\ Top(b)' >= Top(b) BY <2>1 DEF Frame, CampaignsStay
  <2>3. s \in First(b)'..Top(b)' BY <2>1, <2>2 DEF Sized
  <2> QED BY <2>1, <2>2, <2>3, SafeKept
<1>2. ASSUME NEW b, NEW s, NEW v, NEW w, Proposed(b, s, v), Proposed(b, s, w) PROVE v = w
  BY <1>2 DEF SafetyInv, ProposalInv
<1>3. CASE Quiet BY <1>1, <1>2, <1>3 DEF Quiet, ProposalInv
<1>4. CASE Continues
  <2>1. PICK b, s, v : Later(b, s, v) /\ OnlyNew(b, s, v) BY <1>4 DEF Continues
  <2>2. Selected(b) /\ s > Top(b) /\ s <= Top(b)' /\ v \in Values BY <2>1 DEF Later
  <2>3. \A w : ~Proposed(b, s, w) BY <2>2 DEF SafetyInv, ProposalInv, Sized
  <2>4. Selected(b)' /\ First(b)' = First(b) /\ First(b) <= Top(b)
    BY <2>2 DEF Frame, CampaignsStay, SafetyInv, SelectedAt
  <2>a. s \in Int
    BY <2>1, <2>2 DEF Later
  <2>5. Safe(b, s, v)
    <3>1. Top(b) \in Int /\ First(b) \in Int BY <2>2 DEF Sized
    <3>2. s > First(b) BY <2>2, <2>4, <2>a, <3>1
    <3> QED BY <3>2, <2>2, SafeAbove
  <2>6. Fine(b, s, v)
    <3>1. Safe(b, s, v)' BY <2>2, <2>5, SafeKept
    <3>2. Top(b) \in Int /\ First(b) \in Int BY <2>2 DEF Sized
    <3>3. Top(b)' \in Int /\ First(b)' \in Int BY <2>4 DEF Sized
    <3>4. s \in First(b)'..Top(b)' BY <2>2, <2>4, <2>a, <3>2, <3>3
    <3> QED BY <2>2, <2>4, <3>1, <3>4
  <2> QED BY <1>1, <1>2, <2>1, <2>3, <2>6 DEF OnlyNew, ProposalInv
<1>5. CASE Selects
  <2>1. PICK b, s, v, x, y : Picks(b, s, v, x, y) /\ OnlyNew(b, s, v) BY <1>5 DEF Selects
  <2>2. ~Selected(b) /\ Selected(b)' /\ First(b)' = s /\ Top(b)' = s /\ v \in Values BY <2>1 DEF Picks
  <2>3. \A i, w : ~Proposed(b, i, w) BY <2>2 DEF SafetyInv, ProposalInv
  <2>4. b \in Ballots /\ b \in Int /\ s \in Nat BY <2>2 DEF Sized, Ballots
  <2>5. Safe(b, s, v)'
    <3>1. Safe(b, s, v) BY <2>1, <2>4, PickedSafe
    <3>2. /\ x.node \in Nodes /\ y.node \in Nodes /\ x.node # y.node
          /\ voters[x.node].promise >= b /\ voters[y.node].promise >= b
      BY <2>1 DEF Picks, Sized, SafetyInv, BasisAt
    <3> QED BY <3>1, <3>2, <2>4, SafeStays DEF Frame
  <2>6. Fine(b, s, v) BY <2>2, <2>4, <2>5
  <2> QED BY <1>1, <1>2, <2>1, <2>3, <2>6 DEF OnlyNew, ProposalInv
<1> QED BY <1>3, <1>4, <1>5 DEF Frame

\* A voter bound to a chosen slot stays bound.
LEMMA BoundStep ==
    ASSUME SafetyInv, Sized, Sized', Frame, NEW n \in Nodes, NEW b \in Int, NEW s \in Int, Bound(n, b, s)
    PROVE  Bound(n, b, s)'
<1>1. s \in DOMAIN voters[n].accepted /\ voters[n].accepted[s][1] >= b /\ voters[n].promise >= b
  BY DEF Bound
<1>2. s \in DOMAIN voters'[n].accepted /\ voters'[n].accepted[s][1] >= b /\ voters'[n].promise >= b
  BY <1>1 DEF Frame, DisksGrow, PromisesRise, Sized
<1>3. ASSUME NEW x \in Bases', x.node = n, x.ballot > b
      PROVE  s <= Len(x.prefix) \/ (s \in DOMAIN x.accepted /\ x.accepted[s][1] >= b)
  <2>1. CASE x \in Bases BY <1>3, <2>1 DEF Bound
  <2>2. CASE Fresh(x)
    <3>1. s > Len(x.prefix) => s \in DOMAIN x.accepted /\ x.accepted[s] = voters[n].accepted[s]
      BY <1>1, <1>3, <2>2 DEF Fresh
    <3> QED BY <1>1, <1>3, <3>1 DEF Sized
  <2> QED BY <2>1, <2>2 DEF Frame, BasesOld
<1> QED BY <1>2, <1>3 DEF Bound

\* What is chosen stays chosen: a later proposal for its slot is the same value.
LEMMA ChosenStep ==
    ASSUME SafetyInv, Sized, Sized', Frame, NEW s \in 1..Len(chosen), NEW b, ChosenBy(b, s)
    PROVE  ChosenBy(b, s)'
<1>0. Selected(b) /\ b \in Int /\ s \in Int BY DEF ChosenBy, Sized, Ballots
<1>1. chosen'[s] = chosen[s] BY DEF Frame, LogGrows
<1>2. Selected(b)' /\ s <= Top(b)'
  BY <1>0 DEF ChosenBy, Frame, CampaignsStay, Sized
<1>a. Safe(b, s, chosen[s])'
  <2>1. PICK c : c = chosen[s] OBVIOUS
  <2>2. Safe(b, s, c) BY <2>1 DEF ChosenBy
  <2>3. Safe(b, s, c)' BY <1>0, <2>2, SafeKept
  <2> QED BY <1>1, <2>1, <2>3
<1>3. \E i, j \in Nodes : i # j /\ Bound(i, b, s)' /\ Bound(j, b, s)' BY <1>0, BoundStep DEF ChosenBy
<1>4. ASSUME NEW k, NEW v, k >= b, Proposed(k, s, v)' PROVE v = chosen[s]
  <2>1. CASE Proposed(k, s, v) BY <1>4, <2>1 DEF ChosenBy
  <2>2. CASE Later(k, s, v)
    <3>1. Selected(k) /\ k \in Int /\ s > Top(k) BY <2>2 DEF Later, Sized, Ballots
    <3>2. CASE k = b BY <3>1, <3>2, <1>0 DEF ChosenBy, Sized
    <3>3. CASE k > b
      <4>1. s <= First(k) BY <3>1, <3>3 DEF ChosenBy
      <4>2. First(k) <= Top(k) BY <3>1 DEF SafetyInv, SelectedAt
      <4> QED BY <4>1, <4>2, <3>1, <1>0 DEF Sized
    <3> QED BY <1>4, <1>0, <3>1, <3>2, <3>3
  <2>3. ASSUME NEW x, NEW y, Picks(k, s, v, x, y) PROVE v = chosen[s]
    <3>1. k \in Ballots /\ k \in Int /\ k # b BY <2>3, <1>0 DEF Picks, Sized, Ballots
    <3> QED BY <1>0, <1>4, <2>3, <3>1, PickedBound
  <2>4. CASE Continues BY <1>4, <2>1, <2>2, <2>4 DEF Continues, OnlyNew
  <2>5. CASE Selects BY <1>4, <2>1, <2>3, <2>5 DEF Selects, OnlyNew
  <2>6. CASE Quiet BY <1>4, <2>1, <2>6 DEF Quiet
  <2> QED BY <2>4, <2>5, <2>6 DEF Frame
<1>5. ASSUME NEW k, Selected(k)', k > b PROVE s <= First(k)'
  <2>1. CASE Selected(k) BY <1>5, <2>1 DEF ChosenBy, Frame, CampaignsStay
  <2>2. CASE \E f, v, x, y : Picks(k, f, v, x, y)
    <3>1. PICK f, v, x, y : Picks(k, f, v, x, y) BY <2>2
    <3>2. k \in Ballots /\ k \in Int /\ First(k)' = f /\ f \in Int BY <3>1, <1>5 DEF Picks, Sized, Ballots
    <3> QED BY <1>0, <1>5, <3>1, <3>2, PickedBound
  <2> QED BY <1>5, <2>1, <2>2, SelectedCases
<1> QED BY <1>1, <1>2, <1>a, <1>3, <1>4, <1>5 DEF ChosenBy

\* A voter that retains a proven slot keeps retaining it.
LEMMA RetainsStep ==
    ASSUME SafetyInv, Sized, Sized', Frame, NEW n \in Nodes, NEW b \in Int, NEW s \in Int, Retains(n, b, s)
    PROVE  Retains(n, b, s)'
<1>1. voters'[n].promise >= b /\ s <= Len(voters'[n].prefix)
  BY DEF Retains, Frame, PromisesRise, DisksGrow, Sized
<1>2. ASSUME NEW x \in Bases', x.node = n, x.ballot > b PROVE s <= Len(x.prefix)
  <2>1. CASE x \in Bases BY <1>2, <2>1 DEF Retains
  <2>2. CASE Fresh(x) BY <1>2, <2>2 DEF Fresh, Retains
  <2> QED BY <2>1, <2>2 DEF Frame, BasesOld
<1>3. ASSUME NEW k, Selected(k)', k > b, n \in PairOf(k)' PROVE s < First(k)'
  <2>1. CASE Selected(k) BY <1>3, <2>1 DEF Retains, Frame, CampaignsStay
  <2>2. CASE \E f, v, x, y : Picks(k, f, v, x, y)
    <3>1. PICK f, v, x, y : Picks(k, f, v, x, y) BY <2>2
    <3>2. PICK z \in {x, y} : z.node = n BY <3>1, <1>3 DEF Picks
    <3>3. z \in Bases /\ z.ballot = k /\ Len(z.prefix) < f /\ First(k)' = f BY <3>1, <3>2 DEF Picks
    <3>4. s <= Len(z.prefix) BY <1>3, <3>2, <3>3 DEF Retains
    <3> QED BY <1>3, <3>3, <3>4 DEF Sized
  <2> QED BY <1>3, <2>1, <2>2, SelectedCases
<1> QED BY <1>1, <1>2, <1>3 DEF Retains

\* A message or a count of proofs is about a proposal.
LEMMA ProvenProposed ==
    ASSUME SafetyInv, Sized, ClusterTypes, NEW n \in Nodes, NEW b, NEW s, ProvenBy(n, b, s)
    PROVE  b \in Int /\ s \in Int
<1>1. \E v : Proposed(b, s, v)
  <2>1. ASSUME NEW m \in DOMAIN messages, m.kind = "proven", m.ballot = b, m.slot = s PROVE Proposed(b, s, m.value)
    BY <2>1 DEF Proposed, Says, ReceiptKinds
  <2>2. ASSUME b \in DOMAIN campaigns, s # 0, campaigns[b].round.slot = s PROVE Proposed(b, s, campaigns[b].round.value)
    BY <2>2 DEF Proposed, InRound
  <2> QED BY <2>1, <2>2 DEF ProvenBy
<1> QED BY <1>1 DEF SafetyInv, ProposalInv, Sized, Ballots

\* A proof, old or given in this step, is retained by its voter.
LEMMA ProvenStep ==
    ASSUME SafetyInv, Sized, Sized', Frame, ClusterTypes, NEW n \in Nodes, NEW b, NEW s, ProvenBy(n, b, s)', s \in Int
    PROVE  Retains(n, b, s)'
<1>1. CASE ProvenBy(n, b, s)
  <2>1. Retains(n, b, s) BY <1>1 DEF SafetyInv
  <2> QED BY <2>1, <1>1, RetainsStep, ProvenProposed
<1>2. CASE voters[n].promise = b /\ voters'[n].promise = b /\ s <= Len(voters'[n].prefix)
  <2>1. b \in Int BY <1>2 DEF Sized
  <2>2. ASSUME NEW x \in Bases', x.node = n PROVE ~(x.ballot > b)
    <3>1. CASE x \in Bases BY <1>2, <2>1, <2>2, <3>1 DEF SafetyInv, BasisAt, Sized
    <3>2. CASE Fresh(x) BY <1>2, <2>1, <2>2, <3>2 DEF Fresh
    <3> QED BY <3>1, <3>2 DEF Frame, BasesOld
  <2>3. ASSUME NEW k, Selected(k)', n \in PairOf(k)' PROVE ~(k > b)
    <3>1. SelectedAt(k)' BY <2>3, SelectedStep
    <3>2. k \in Int BY <2>3 DEF Sized, Ballots
    <3>3. voters'[n].promise >= k BY <3>1, <2>3 DEF SelectedAt
    <3> QED BY <1>2, <2>1, <3>2, <3>3
  <2> QED BY <1>2, <2>1, <2>2, <2>3 DEF Retains
<1> QED BY <1>1, <1>2 DEF Frame, ProofsByPromise

\* An answered slot stays proven at two voters and at its proposer.
LEMMA AnsweredStep ==
    ASSUME SafetyInv, Sized, Sized', Frame, NEW b, NEW s \in Int, AnsweredBy(b, s)
    PROVE  AnsweredBy(b, s)'
<1>1. Selected(b) /\ b \in Int /\ Proposer(b) \in Nodes BY DEF AnsweredBy, Sized, Ballots
<1>2. Selected(b)' /\ Proposer(b)' = Proposer(b) BY <1>1 DEF Frame, CampaignsStay
<1>3. s <= Len(voters'[Proposer(b)].prefix) BY <1>1 DEF AnsweredBy, Frame, DisksGrow, Sized
<1>4. \E i, j \in Nodes : i # j /\ Retains(i, b, s)' /\ Retains(j, b, s)' BY <1>1, RetainsStep DEF AnsweredBy
<1> QED BY <1>2, <1>3, <1>4 DEF AnsweredBy

\* What a step that is in the frame has still to show.
NewlyChosen  == \A s \in 1..Len(chosen') : s \notin 1..Len(chosen) => \E b : ChosenBy(b, s)'
NewlySettled == \A n \in Nodes : Settled(voters[n].prefix)'
NewlyAnswered == \A s \in answers' : s \in answers \/ (s <= Len(chosen') /\ \E b : AnsweredBy(b, s)')
ProofSlots == \A n \in Nodes : \A b, s : ProvenBy(n, b, s)' => s \in Int

\* The safety invariant, under any step that fits the frame.
LEMMA CoreStep ==
    ASSUME SafetyInv, ClusterTypes, Sized, Sized', Frame, NewlyChosen, NewlySettled, NewlyAnswered, ProofSlots
    PROVE  SafetyInv'
<1>1. ProposalInv' BY ProposalStep
<1>2. VoteInv' BY VoteStep
<1>3. \A x \in Bases' : BasisAt(x)' BY <1>2, BasisStep DEF NewlySettled
<1>4. \A n \in Nodes : Settled(voters[n].prefix)' BY DEF NewlySettled
<1>5. \A b : Selected(b)' => SelectedAt(b)' BY SelectedStep
<1>6. \A s \in 1..Len(chosen') : \E b : ChosenBy(b, s)'
  BY ChosenStep DEF NewlyChosen, SafetyInv
<1>7. \A n \in Nodes : \A b, s : ProvenBy(n, b, s)' => Retains(n, b, s)' BY ProvenStep DEF ProofSlots
<1>8. ASSUME NEW s \in answers' PROVE s <= Len(chosen') /\ \E b : AnsweredBy(b, s)'
  <2>1. CASE s \in answers
    <3>1. s <= Len(chosen) /\ s \in Nat BY <2>1 DEF SafetyInv, ClusterTypes, Slots
    <3>2. \E b : AnsweredBy(b, s) BY <2>1 DEF SafetyInv
    <3> QED BY <3>1, <3>2, AnsweredStep DEF Frame, LogGrows, Sized
  <2> QED BY <2>1 DEF NewlyAnswered
<1> QED BY <1>1, <1>2, <1>3, <1>4, <1>5, <1>6, <1>7, <1>8 DEF SafetyInv

-----------------------------------------------------------------------------
(* Types *)

\* The fields that the messages of each kind have.
LEMMA MessageFields ==
    ASSUME NEW m \in MessageSet
    PROVE  /\ m.target \in Nodes /\ m.ballot \in Ballots
           /\ m.kind = "promise" => m.basis \in BasisSet
           /\ m.kind = "accept" => m.prefix \in Seq(Values) /\ m.value \in Values
           /\ m.kind \in ReceiptKinds => m.node \in Nodes /\ m.slot \in Slots /\ m.value \in Values
BY DEF MessageSet, ReceiptKinds

\* The messages the actions send are messages.
LEMMA SentTypes ==
    ASSUME NEW n \in Nodes, NEW b \in Ballots
    PROVE  /\ Prepare(n, b) \in MessageSet
           /\ \A x \in BasisSet : PromiseMsg(n, b, x) \in MessageSet
           /\ \A p \in Seq(Values), v \in Values : AcceptMsg(n, b, p, v) \in MessageSet
           /\ \A k \in ReceiptKinds, f \in Nodes, s \in Slots, v \in Values : Receipt(k, n, b, f, s, v) \in MessageSet
BY DEF MessageSet, Prepare, PromiseMsg, AcceptMsg, Receipt

\* Cluster.queue adds no message but those it is given; a full queue drops them.
LEMMA QueueDomain ==
    ASSUME NEW bag, NEW ms
    PROVE  DOMAIN Queue(bag, ms) \subseteq DOMAIN bag \cup {ms[i] : i \in DOMAIN ms}
BY DEF Queue

\* Taking a message adds none.
LEMMA RemoveDomain ==
    ASSUME NEW bag, NEW m
    PROVE  DOMAIN Remove(bag, m) \subseteq DOMAIN bag
BY DEF Remove, SetToBag, (-)

\* Queueing one message.
LEMMA QueueOne ==
    ASSUME NEW bag, NEW m
    PROVE  DOMAIN Queue(bag, <<m>>) \subseteq DOMAIN bag \cup {m}
<1>1. {<<m>>[i] : i \in DOMAIN <<m>>} = {m} OBVIOUS
<1> QED BY <1>1, QueueDomain

\* Queueing two messages.
LEMMA QueueTwo ==
    ASSUME NEW bag, NEW m, NEW k
    PROVE  DOMAIN Queue(bag, <<m, k>>) \subseteq DOMAIN bag \cup {m, k}
<1>1. {<<m, k>>[i] : i \in DOMAIN <<m, k>>} = {m, k} OBVIOUS
<1> QED BY <1>1, QueueDomain

\* What a table of votes holds.
LEMMA VoteTableFacts ==
    ASSUME NEW t \in VoteTables
    PROVE  /\ DOMAIN t \subseteq Slots
           /\ \A s \in DOMAIN t : /\ t[s] \in Marks /\ t[s][1] \in Ballots /\ t[s][2] \in Values
                                  /\ t[s] = <<t[s][1], t[s][2]>> /\ s \in Nat /\ t[s][1] \in Nat
<1>1. PICK D \in SUBSET Slots : t \in [D -> Marks] BY DEF VoteTables
<1>2. DOMAIN t \subseteq Slots /\ \A s \in DOMAIN t : t[s] \in Marks BY <1>1
<1>3. \A k \in Ballots : k \in Nat BY ClusterAssumption DEF Ballots
<1> QED BY <1>2, <1>3 DEF Marks, Slots

\* A table with one vote more.
LEMMA VoteTableExtends ==
    ASSUME NEW t \in VoteTables, NEW s \in Slots, NEW b \in Ballots, NEW v \in Values
    PROVE  Extend(t, s, <<b, v>>) \in VoteTables
<1>1. <<b, v>> \in Marks BY DEF Marks
<1>2. DOMAIN t \cup {s} \in SUBSET Slots BY VoteTableFacts
<1>3. Extend(t, s, <<b, v>>) \in [DOMAIN t \cup {s} -> Marks] BY <1>1, VoteTableFacts DEF Extend
<1> QED BY <1>2, <1>3 DEF VoteTables

\* The basis that a promise freezes.
LEMMA BasisTypes ==
    ASSUME ClusterTypes, NEW n \in Nodes, NEW b \in Ballots
    PROVE  BasisOf(n, b) \in BasisSet
<1> DEFINE t == voters[n].accepted
           D == {i \in DOMAIN t : i > Len(voters[n].prefix)}
           u == [s \in D |-> t[s]]
<1>1. voters[n].prefix \in Seq(Values) /\ t \in VoteTables BY DEF ClusterTypes, VoterSet
<1>2. D \in SUBSET Slots /\ u \in [D -> Marks] BY <1>1, VoteTableFacts
<1>3. u \in VoteTables BY <1>2 DEF VoteTables
<1> QED BY <1>1, <1>3 DEF BasisOf, BasisSet

\* A campaign that has selected is in the table of selections.
Recorded == \A b \in DOMAIN campaigns : campaigns[b].selected => b \in DOMAIN selections

\* The arithmetic of a typed state.
LEMMA SizedFrom == ClusterTypes /\ Recorded => Sized
<1> SUFFICES ASSUME ClusterTypes, Recorded PROVE Sized OBVIOUS
<1>1. ASSUME NEW n \in Nodes
      PROVE  /\ voters[n].promise \in Nat /\ Len(voters[n].prefix) \in Nat
             /\ \A s \in DOMAIN voters[n].accepted : s \in Nat /\ voters[n].accepted[s][1] \in Nat
  <2>1. voters[n] \in VoterSet BY DEF ClusterTypes
  <2> QED BY <2>1, VoteTableFacts DEF VoterSet
<1>2. ASSUME NEW x \in Bases
      PROVE  /\ x.node \in Nodes /\ x.ballot \in Nat /\ Len(x.prefix) \in Nat
             /\ \A s \in DOMAIN x.accepted : s \in Nat /\ x.accepted[s][1] \in Nat
  <2>1. x \in BasisSet
    <3>1. ASSUME NEW b \in DOMAIN campaigns PROVE campaigns[b].basis \in BasisSet
      BY DEF ClusterTypes, CampaignSet
    <3>2. ASSUME NEW m \in DOMAIN messages, m.kind = "promise" PROVE m.basis \in BasisSet
      BY <3>2, MessageFields DEF ClusterTypes
    <3> QED BY <3>1, <3>2 DEF Bases
  <2> QED BY <2>1, VoteTableFacts, ClusterAssumption DEF BasisSet, Ballots
<1>3. ASSUME NEW b, Selected(b)
      PROVE  b \in Ballots /\ Top(b) \in Nat /\ First(b) \in Nat /\ Proposer(b) \in Nodes
  <2>1. b \in DOMAIN campaigns /\ b \in Ballots /\ campaigns[b] \in CampaignSet
    BY <1>3 DEF Selected, ClusterTypes
  <2>2. campaigns[b].node \in Nodes /\ campaigns[b].round.slot \in Nat BY <2>1 DEF CampaignSet, RoundSet
  <2>3. b \in DOMAIN selections BY <1>3, <2>1 DEF Selected, Recorded
  <2>4. selections[b] \in Slots \X Values BY <2>3 DEF ClusterTypes
  <2>5. selections[b][1] \in Nat BY <2>4 DEF Slots
  <2> QED BY <2>1, <2>2, <2>5, <1>1 DEF Top, First, Proposer
<1>4. Len(chosen) \in Nat BY DEF ClusterTypes
<1> QED BY <1>1, <1>2, <1>3, <1>4 DEF Sized

\* The same after a step.
LEMMA SizedNext ==
    ASSUME (ClusterTypes /\ Recorded)' PROVE Sized'
BY SizedFrom, PTL

-----------------------------------------------------------------------------
(* Steps that leave some of the state alone *)

CoreSame ==
    \A n \in Nodes : /\ voters'[n].promise = voters[n].promise /\ voters'[n].prefix = voters[n].prefix
                     /\ voters'[n].accepted = voters[n].accepted
NoNew(K) == \A m \in DOMAIN messages' : m.kind \in K => m \in DOMAIN messages
BasesKept == \A b \in DOMAIN campaigns' : b \in DOMAIN campaigns /\ campaigns'[b].basis = campaigns[b].basis
NodesStay ==
    \A b \in DOMAIN campaigns : b \in DOMAIN campaigns' /\ campaigns'[b].node = campaigns[b].node

\* The round of a selected campaign counts on, ends, or is followed by a later one.
Advances(b) ==
    \/ /\ campaigns'[b].round.slot = campaigns[b].round.slot
       /\ campaigns'[b].round.value = campaigns[b].round.value
       /\ campaigns[b].round.proof => campaigns'[b].round.proof
    \/ campaigns'[b].round.slot = 0
    \/ campaigns'[b].round.slot > Top(b)
RoundsMove == \A b : Selected(b) => Advances(b)

\* A proposer's prefix grows no further than its campaign, while its promise is its ballot.
ProposerFrame ==
    \A b \in DOMAIN campaigns :
        LET n == campaigns[b].node
        IN voters'[n].promise = b =>
              /\ voters[n].promise = b
              /\ voters'[n].prefix = voters[n].prefix \/ (Selected(b) /\ Len(voters'[n].prefix) <= Top(b))

\* A campaign that this step leaves as it is, but for its readiness.
Unmoved(b) ==
    /\ b \in DOMAIN campaigns'
    /\ campaigns'[b].node = campaigns[b].node /\ campaigns'[b].basis = campaigns[b].basis
    /\ campaigns'[b].selected = campaigns[b].selected /\ campaigns'[b].quorum = campaigns[b].quorum
    /\ campaigns'[b].round = campaigns[b].round
    /\ campaigns'[b].ready => campaigns[b].ready

\* A step that sends no promise and starts no campaign freezes no basis.
LEMMA BasesSame ==
    ASSUME BasesKept, NoNew({"promise"})
    PROVE  Bases' \subseteq Bases
BY DEF Bases, BasesKept, NoNew

\* A step that leaves the voters alone.
LEMMA VotersStill ==
    ASSUME CoreSame, Sized, ClusterTypes
    PROVE  PromisesRise /\ DisksGrow /\ ProposerFrame
<1>1. PromisesRise BY DEF CoreSame, PromisesRise, Sized
<1>2. DisksGrow BY DEF CoreSame, DisksGrow, Sized
<1>3. ProposerFrame
  BY DEF CoreSame, ProposerFrame, ClusterTypes, CampaignSet
<1> QED BY <1>1, <1>2, <1>3

\* Unchanged prefixes stay prefixes of a growing log.
LEMMA SettledStill ==
    ASSUME CoreSame, LogGrows, SafetyInv, Sized, Sized'
    PROVE  NewlySettled
<1> SUFFICES ASSUME NEW n \in Nodes PROVE Settled(voters[n].prefix)'
  BY DEF NewlySettled
<1>1. PICK p : p = voters[n].prefix OBVIOUS
<1>2. Settled(p) /\ Len(p) \in Nat BY <1>1 DEF SafetyInv, Sized
<1>3. Settled(p)' BY <1>2, SettledStep
<1> QED BY <1>1, <1>3 DEF CoreSame

\* A round of this step counts no more votes than before, or none.
NoMoreVotes ==
    \A b \in DOMAIN campaigns' :
        \/ campaigns'[b].round.accepts = {}
        \/ b \in DOMAIN campaigns /\ campaigns'[b].round.slot = campaigns[b].round.slot
           /\ campaigns'[b].round.value = campaigns[b].round.value
           /\ campaigns'[b].round.accepts \subseteq campaigns[b].round.accepts
NoMoreProofs ==
    \A b \in DOMAIN campaigns' :
        \/ campaigns'[b].round.proofs = {}
        \/ b \in DOMAIN campaigns /\ campaigns'[b].round.slot = campaigns[b].round.slot
           /\ campaigns'[b].round.proofs \subseteq campaigns[b].round.proofs

\* A step that sends no receipt of a vote shows no new vote.
LEMMA VotesStill ==
    ASSUME CoreSame, NoNew({"accepted"}), NoMoreVotes
    PROVE  VotesByPromise
<1> SUFFICES ASSUME NEW n \in Nodes, NEW k, NEW s, NEW v, Voted(n, k, s, v)' PROVE Voted(n, k, s, v)
  BY DEF VotesByPromise
<1>1. CASE Marked(voters[n].accepted, k, s, v)' BY <1>1 DEF CoreSame, Marked, Voted
<1>2. CASE (\E m \in DOMAIN messages : m.kind = "accepted" /\ m.node = n /\ Says(m, k, s, v))'
  <2>1. PICK m \in DOMAIN messages' : m.kind = "accepted" /\ m.node = n /\ Says(m, k, s, v) BY <1>2
  <2>2. m \in DOMAIN messages BY <2>1 DEF NoNew
  <2> QED BY <2>1, <2>2 DEF Voted
<1>3. CASE (InRound(k, s, v) /\ n \in campaigns[k].round.accepts)'
  BY <1>3 DEF InRound, NoMoreVotes, Voted
<1> QED BY <1>1, <1>2, <1>3 DEF Voted

\* A step that sends no receipt of a proof shows no new proof.
LEMMA ProofsStill ==
    ASSUME NoNew({"proven"}), NoMoreProofs
    PROVE  ProofsByPromise
<1> SUFFICES ASSUME NEW n \in Nodes, NEW b, NEW s, ProvenBy(n, b, s)' PROVE ProvenBy(n, b, s)
  BY DEF ProofsByPromise
<1>1. CASE (\E m \in DOMAIN messages : m.kind = "proven" /\ m.node = n /\ m.ballot = b /\ m.slot = s)'
  BY <1>1 DEF NoNew, ProvenBy
<1>2. CASE (b \in DOMAIN campaigns /\ s # 0 /\ campaigns[b].round.slot = s /\ n \in campaigns[b].round.proofs)'
  BY <1>2 DEF NoMoreProofs, ProvenBy
<1> QED BY <1>1, <1>2 DEF ProvenBy

\* Where a new proposal can come from.
LEMMA ProposedCases ==
    ASSUME Bases' \subseteq Bases, selections' = selections, NEW b, NEW s, NEW v, Proposed(b, s, v)'
    PROVE  \/ Proposed(b, s, v)
           \/ \E n \in Nodes : Marked(voters'[n].accepted, b, s, v) /\ ~Marked(voters[n].accepted, b, s, v)
           \/ \E m \in DOMAIN messages' : m \notin DOMAIN messages /\ Says(m, b, s, v)
           \/ InRound(b, s, v)'
<1>1. CASE (\E n \in Nodes : Marked(voters[n].accepted, b, s, v))' BY <1>1 DEF Proposed, Marked
<1>2. CASE (\E m \in DOMAIN messages : Says(m, b, s, v))' BY <1>2 DEF Proposed, Says
<1>3. CASE (\E x \in Bases : Marked(x.accepted, b, s, v))' BY <1>3 DEF Proposed
<1>4. CASE (b \in DOMAIN selections /\ selections[b] = <<s, v>>)' BY <1>4 DEF Proposed
<1> QED BY <1>1, <1>2, <1>3, <1>4 DEF Proposed

-----------------------------------------------------------------------------
(* What stays of messages and campaigns *)

\* What a message in flight says stays true, however late it arrives.
LEMMA MessageKept ==
    ASSUME SafetyInv, ClusterTypes, Sized, Sized', Frame, NodesStay, RoundsMove,
           NEW m \in DOMAIN messages, MessageAt(m)
    PROVE  MessageAt(m)'
<1> DEFINE b == m.ballot
           counted == /\ m.slot <= Len(chosen) /\ chosen[m.slot] = m.value
                      /\ campaigns[b].round.slot = m.slot => campaigns[b].round.proof
           countedNext == /\ m.slot <= Len(chosen') /\ chosen'[m.slot] = m.value
                          /\ campaigns'[b].round.slot = m.slot => campaigns'[b].round.proof
<1>1. m \in MessageSet BY DEF ClusterTypes
<1>2. b \in DOMAIN campaigns BY DEF MessageAt
<1>3. b \in DOMAIN campaigns' /\ campaigns'[b].node = campaigns[b].node BY <1>2 DEF NodesStay
<1>4. Selected(b) => Selected(b)' /\ campaigns'[b].quorum = campaigns[b].quorum
  BY DEF Frame, CampaignsStay, PairOf
<1>5. ASSUME m.kind \in ReceiptKinds, Selected(b), counted PROVE countedNext
  <2>1. Proposed(b, m.slot, m.value) BY <1>5 DEF Proposed, Says
  <2>2. m.slot \in Nat \ {0} BY <1>1, <1>5, MessageFields DEF Slots
  <2>3. m.slot <= Top(b) /\ Top(b) \in Nat BY <2>1, <1>5 DEF SafetyInv, ProposalInv, Sized
  <2>4. m.slot <= Len(chosen') /\ chosen'[m.slot] = m.value BY <1>5, <2>2 DEF Frame, LogGrows, Sized
  <2>5. Advances(b) BY <1>5 DEF RoundsMove
  <2>6. campaigns'[b].round.slot = m.slot => campaigns'[b].round.proof
    BY <1>5, <2>2, <2>3, <2>5 DEF Advances
  <2> QED BY <2>4, <2>6
<1>6. CASE m.kind = "accept"
  <2>1. m.prefix \in Seq(Values) BY <1>1, <1>6, MessageFields
  <2>2. Settled(m.prefix)' BY <2>1, <1>6, SettledStep DEF MessageAt, Frame
  <2> QED BY <1>3, <1>4, <1>6, <2>2 DEF MessageAt
<1>7. CASE m.kind = "proof"
  <2>1. Selected(b) /\ m.target \in campaigns[b].quorum /\ counted BY <1>7 DEF MessageAt
  <2>2. countedNext BY <2>1, <1>5, <1>7 DEF ReceiptKinds
  <2> QED BY <1>3, <1>4, <1>7, <2>1, <2>2 DEF MessageAt
<1>8. CASE m.kind = "proven"
  <2>1. /\ Selected(b) /\ m.target = campaigns[b].node /\ m.node \in campaigns[b].quorum /\ counted
        /\ m.slot <= Len(voters[m.node].prefix)
    BY <1>8 DEF MessageAt
  <2>2. countedNext BY <2>1, <1>5, <1>8 DEF ReceiptKinds
  <2>3. m.node \in Nodes /\ m.slot \in Nat BY <1>1, <1>8, MessageFields DEF ReceiptKinds, Slots
  <2>4. m.slot <= Len(voters'[m.node].prefix) BY <2>1, <2>3 DEF Frame, DisksGrow, Sized
  <2> QED BY <1>3, <1>4, <1>8, <2>1, <2>2, <2>4 DEF MessageAt
<1>9. CASE m.kind \notin {"accept", "proof", "proven"}
  BY <1>3, <1>4, <1>9 DEF MessageAt
<1> QED BY <1>6, <1>7, <1>8, <1>9

\* A voter that refuses a slot of a ballot goes on refusing it.
LEMMA RefusesStep ==
    ASSUME Sized, Sized', PromisesRise, VotesByPromise, NEW n \in Nodes, NEW b \in Int, NEW s, Refuses(n, b, s)
    PROVE  Refuses(n, b, s)'
BY DEF Sized, PromisesRise, VotesByPromise, Refuses

\* What the round of a campaign says of a read.
ReadAt(b) ==
    LET r == campaigns[b].round
    IN r.read # NoRead =>
         /\ r.value = Barrier(b, r.read) /\ r.read \in DOMAIN reads
         /\ reads[r.read].ballot = b /\ reads[r.read].pin = <<>>
         /\ \A s \in reads[r.read].writes : s < r.slot \/ \E n \in campaigns[b].quorum : Refuses(n, b, r.slot)

\* What a round says of its read stays true.
LEMMA ReadKept ==
    ASSUME ClusterTypes, Sized, Sized', PromisesRise, VotesByPromise, NEW b \in DOMAIN campaigns, ReadAt(b),
           campaigns'[b].round.slot = campaigns[b].round.slot, campaigns'[b].round.value = campaigns[b].round.value,
           campaigns'[b].round.read = campaigns[b].round.read, campaigns'[b].quorum = campaigns[b].quorum,
           \A r \in DOMAIN reads : r = campaigns[b].round.read => r \in DOMAIN reads' /\ reads'[r] = reads[r]
    PROVE  ReadAt(b)'
<1> SUFFICES ASSUME campaigns[b].round.read # NoRead PROVE ReadAt(b)'
  BY DEF ReadAt
<1>1. b \in Int /\ campaigns[b].quorum \subseteq Nodes BY DEF ClusterTypes, CampaignSet, Ballots
<1>2. PICK r, i : r = campaigns[b].round.read /\ i = campaigns[b].round.slot OBVIOUS
<1>3. r \in DOMAIN reads /\ r \in DOMAIN reads' /\ reads'[r] = reads[r] BY <1>2 DEF ReadAt
<1>4. \A n \in campaigns[b].quorum : Refuses(n, b, i) => Refuses(n, b, i)' BY <1>1, RefusesStep
<1>5. \A s \in reads[r].writes : s < i \/ \E n \in campaigns'[b].quorum : Refuses(n, b, i)'
  BY <1>2, <1>4 DEF ReadAt
<1>6. reads[r].ballot = b /\ reads[r].pin = <<>> /\ campaigns[b].round.value = Barrier(b, r) BY <1>2 DEF ReadAt
<1> QED BY <1>2, <1>3, <1>5, <1>6 DEF ReadAt, Barrier

\* What is known of a campaign stays true while the step leaves it alone.
LEMMA CampaignKept ==
    ASSUME SafetyInv, ClusterTypes, Sized, Sized', Frame, ProposerFrame,
           NEW b \in DOMAIN campaigns, CampaignAt(b), Unmoved(b),
           b \in DOMAIN selections' <=> b \in DOMAIN selections,
           \A r \in DOMAIN reads : r = campaigns[b].round.read => r \in DOMAIN reads' /\ reads'[r] = reads[r]
    PROVE  CampaignAt(b)'
<1> DEFINE c == campaigns[b]
           d == campaigns'[b]
           n == c.node
<1>1. d.node = n /\ d.basis = c.basis /\ d.selected = c.selected /\ d.quorum = c.quorum /\ d.round = c.round
      /\ (d.ready => c.ready) /\ b \in DOMAIN campaigns' /\ n \in Nodes /\ b \in Int
      /\ c.round.slot \in Nat
  BY DEF Unmoved, ClusterTypes, CampaignSet, RoundSet, Ballots
<1>2. ASSUME c.round.slot # 0 PROVE RoundAt(b)'
  <2>1. RoundAt(b) BY <1>2 DEF CampaignAt
  <2>2. Selected(b)' BY <2>1 DEF RoundAt, Frame, CampaignsStay
  <2>3. ReadAt(b) BY <2>1 DEF RoundAt, ReadAt
  <2>4. ReadAt(b)' BY <1>1, <2>3, ReadKept DEF Frame
  <2>5. c.round.slot <= Len(chosen') + 1 BY <1>1, <2>1 DEF RoundAt, Frame, LogGrows, Sized
  <2>6. c.round.proof => c.round.accepts = c.quorum /\ c.round.slot <= Len(chosen')
                         /\ chosen'[c.round.slot] = c.round.value
    BY <1>1, <1>2, <2>1 DEF RoundAt, Frame, LogGrows, Sized
  <2>7. voters'[n].promise = b => Len(voters'[n].prefix) <= c.round.slot
    BY <1>1, <1>2, <2>1 DEF RoundAt, ProposerFrame, Top
  <2>8. /\ c.round.value \in Values
        /\ c.round.accepts \subseteq c.quorum /\ c.round.proofs \subseteq c.quorum
        /\ c.round.proofs # {} => c.round.proof
    BY <2>1 DEF RoundAt
  <2> QED BY <1>1, <2>2, <2>4, <2>5, <2>6, <2>7, <2>8 DEF RoundAt, ReadAt
<1>3. d.round.slot = 0 => d.round = NoRound BY <1>1 DEF CampaignAt
<1>4. ~d.selected /\ voters'[n].promise = b => voters'[n].prefix = d.basis.prefix
  BY <1>1 DEF CampaignAt, ProposerFrame, Selected
<1>5. d.basis.ballot = b /\ d.basis.node = n /\ (d.selected <=> b \in DOMAIN selections')
      /\ (d.ready => d.selected)
  BY <1>1 DEF CampaignAt
<1> QED BY <1>1, <1>2, <1>3, <1>4, <1>5 DEF CampaignAt

\* The parts of the invariant.
LEMMA InvFacts ==
    ASSUME ClusterInv
    PROVE  /\ ClusterTypes /\ Recorded /\ SafetyInv /\ Sized /\ ReadInv /\ verdict = "PASS"
           /\ \A b \in DOMAIN campaigns : CampaignAt(b)
           /\ \A m \in DOMAIN messages : MessageAt(m)
<1>1. Recorded BY DEF ClusterInv, CampaignAt, Recorded
<1>2. Sized BY <1>1, SizedFrom DEF ClusterInv
<1> QED BY <1>1, <1>2 DEF ClusterInv

\* A campaign that the step leaves alone, in the terms of the frame.
LEMMA UnmovedStays ==
    ASSUME ClusterTypes, Sized, Sized', DisksGrow, NEW b, Selected(b), Unmoved(b), selections'[b] = selections[b]
    PROVE  /\ Selected(b)' /\ Proposer(b)' = Proposer(b) /\ PairOf(b)' = PairOf(b)
           /\ First(b)' = First(b) /\ Top(b)' >= Top(b) /\ Advances(b)
<1>1. b \in DOMAIN campaigns /\ campaigns[b].node \in Nodes /\ campaigns[b].round.slot \in Nat
  BY DEF Selected, ClusterTypes, CampaignSet, RoundSet
<1>2. Selected(b)' /\ Proposer(b)' = Proposer(b) /\ PairOf(b)' = PairOf(b) /\ First(b)' = First(b)
  BY DEF Selected, Unmoved, Proposer, PairOf, First
<1>3. Top(b)' >= Top(b) BY <1>1 DEF Top, Unmoved, DisksGrow, Sized
<1>4. Advances(b) BY DEF Unmoved, Advances
<1> QED BY <1>2, <1>3, <1>4

\* Proven slots are numbers.
LEMMA ProofSlotsFrom ==
    ASSUME ClusterTypes' PROVE ProofSlots
<1> SUFFICES ASSUME NEW n \in Nodes, NEW b, NEW s, ProvenBy(n, b, s)' PROVE s \in Int
  BY DEF ProofSlots
<1>1. CASE (\E m \in DOMAIN messages : m.kind = "proven" /\ m.node = n /\ m.ballot = b /\ m.slot = s)'
  <2>1. PICK m \in DOMAIN messages' : m.kind = "proven" /\ m.slot = s BY <1>1
  <2>2. m \in MessageSet BY DEF ClusterTypes
  <2> QED BY <2>1, <2>2, MessageFields DEF ReceiptKinds, Slots
<1>2. CASE (b \in DOMAIN campaigns /\ s # 0 /\ campaigns[b].round.slot = s)'
  BY <1>2 DEF ClusterTypes, CampaignSet, RoundSet
<1> QED BY <1>1, <1>2 DEF ProvenBy

ReadsKept == \A r \in DOMAIN reads : r \in DOMAIN reads' /\ reads'[r] = reads[r]

\* A step that changes nothing the protocol depends on, but may lose messages.
Still ==
    /\ CoreSame /\ DOMAIN messages' \subseteq DOMAIN messages /\ UNCHANGED <<chosen, selections, answers>> /\ ReadsKept
    /\ DOMAIN campaigns' = DOMAIN campaigns /\ \A b \in DOMAIN campaigns : Unmoved(b)

\* The invariant under a step that only touches messages, reads or restarts.
LEMMA StillStep ==
    ASSUME ClusterInv, Still, ClusterTypes'
    PROVE  /\ SafetyInv'
           /\ \A b \in DOMAIN campaigns' : CampaignAt(b)'
           /\ \A m \in DOMAIN messages' : MessageAt(m)'
<1>1. /\ ClusterTypes /\ Recorded /\ SafetyInv /\ Sized
      /\ \A b \in DOMAIN campaigns : CampaignAt(b)
      /\ \A m \in DOMAIN messages : MessageAt(m)
  BY InvFacts
<1>2. Recorded' BY <1>1 DEF Recorded, Still, Unmoved
<1>3. Sized' BY <1>2, SizedNext
<1>4. PromisesRise /\ DisksGrow /\ ProposerFrame BY <1>1, VotersStill DEF Still
<1>5. NodesStay /\ BasesKept /\ NoMoreVotes /\ NoMoreProofs /\ LogGrows
  BY <1>1 DEF Still, Unmoved, NodesStay, BasesKept, NoMoreVotes, NoMoreProofs, LogGrows, Sized
<1>6. NoNew({"promise"}) /\ NoNew({"accepted"}) /\ NoNew({"proven"}) BY DEF Still, NoNew
<1>7. Bases' \subseteq Bases BY <1>5, <1>6, BasesSame
<1>8. VotesByPromise /\ ProofsByPromise BY <1>5, <1>6, VotesStill, ProofsStill DEF Still
<1>9. CampaignsStay /\ RoundsMove
  BY <1>1, <1>3, <1>4, UnmovedStays DEF CampaignsStay, RoundsMove, Still, Selected
<1>10. Quiet
  <2>1. NoneSelected BY DEF NoneSelected, Selected, Still, Unmoved
  <2>2. ASSUME NEW b, NEW s, NEW v, Proposed(b, s, v)' PROVE Proposed(b, s, v)
    <3>1. ~\E n \in Nodes : Marked(voters'[n].accepted, b, s, v) /\ ~Marked(voters[n].accepted, b, s, v)
      BY DEF Still, CoreSame
    <3>2. InRound(b, s, v)' => Proposed(b, s, v) BY DEF InRound, Still, Unmoved, Proposed
    <3> QED BY <2>2, <1>7, <3>1, <3>2, ProposedCases DEF Still
  <2> QED BY <2>1, <2>2 DEF Quiet
<1>11. Frame BY <1>4, <1>5, <1>7, <1>8, <1>9, <1>10 DEF Frame, BasesOld
<1>12. NewlySettled BY <1>1, <1>3, <1>5, SettledStill DEF Still
<1>13. NewlyChosen /\ NewlyAnswered /\ ProofSlots
  BY ProofSlotsFrom DEF NewlyChosen, NewlyAnswered, Still
<1>14. SafetyInv' BY <1>1, <1>3, <1>11, <1>12, <1>13, CoreStep
<1>15. \A b \in DOMAIN campaigns' : CampaignAt(b)'
  BY <1>1, <1>3, <1>4, <1>11, CampaignKept DEF Still, ReadsKept
<1>16. \A m \in DOMAIN messages' : MessageAt(m)'
  BY <1>1, <1>3, <1>5, <1>9, <1>11, MessageKept DEF Still
<1> QED BY <1>14, <1>15, <1>16

\* The invariant from its parts.
LEMMA InvBuild ==
    ASSUME ClusterTypes', SafetyInv', \A b \in DOMAIN campaigns' : CampaignAt(b)',
           \A m \in DOMAIN messages' : MessageAt(m)', ReadInv', verdict' = "PASS"
    PROVE  ClusterInv'
BY DEF ClusterInv

-----------------------------------------------------------------------------
(* Finished reads and faults *)

\* Cluster.finish_read: the result is the pinned prefix.
LEMMA FinishReadStep ==
    ASSUME ClusterInv, NEW r \in ReadIds, FinishRead(r)
    PROVE  ClusterInv'
<1>1. ClusterTypes /\ ReadInv /\ verdict = "PASS" BY InvFacts
<1>2. /\ r \in DOMAIN pins /\ pins' = [x \in DOMAIN pins \ {r} |-> pins[x]]
      /\ UNCHANGED <<voters, campaigns, messages, reads, chosen, selections, answers, anomalies>>
  BY DEF FinishRead
<1>3. ClusterTypes' BY <1>1, <1>2 DEF ClusterTypes
<1>4. Still BY <1>2 DEF Still, CoreSame, Unmoved, ReadsKept
<1>5. ReadInv' BY <1>1, <1>2 DEF ReadInv, Topped
<1>6. verdict' = "PASS"
  <2>1. pins[r] = reads[r].pin BY <1>1, <1>2 DEF ReadInv
  <2> QED BY <1>1, <2>1 DEF FinishRead, Judge, Rule
<1> QED BY <1>3, <1>4, <1>5, <1>6, StillStep, InvBuild

\* Lost and duplicated messages.
LEMMA MessageFaultStep ==
    ASSUME ClusterInv, DropMessage \/ Duplicate
    PROVE  ClusterInv'
<1>1. ClusterTypes /\ ReadInv /\ verdict = "PASS" BY InvFacts
<1>2. DOMAIN messages' \subseteq DOMAIN messages
  <2>1. CASE DropMessage BY <2>1, RemoveDomain DEF DropMessage
  <2>2. CASE Duplicate BY <2>2, QueueOne DEF Duplicate
  <2> QED BY <2>1, <2>2
<1>3. UNCHANGED <<voters, campaigns, pins, reads, chosen, selections, answers, verdict>>
  BY DEF DropMessage, Duplicate
<1>4. ClusterTypes' BY <1>1, <1>2, <1>3 DEF ClusterTypes
<1>5. Still BY <1>2, <1>3 DEF Still, CoreSame, Unmoved, ReadsKept
<1>6. ReadInv' /\ verdict' = "PASS" BY <1>1, <1>3 DEF ReadInv, Topped
<1> QED BY <1>4, <1>5, <1>6, StillStep, InvBuild

\* A voter after a restart.
LEMMA RestartedVoter ==
    ASSUME NEW w \in VoterSet, NEW s \in BOOLEAN
    PROVE  [w EXCEPT !.generation = w.generation + 1, !.sealed = s] \in VoterSet
<1>1. w.generation + 1 \in Nat BY DEF VoterSet
<1> QED BY <1>1 DEF VoterSet

\* Restarts, with and without loss of the disk: a voter that lost it stays sealed.
LEMMA RestartStep ==
    ASSUME ClusterInv, NEW n \in Nodes, NEW lost \in BOOLEAN, RestartNode(n, lost)
    PROVE  ClusterInv'
<1>1. ClusterTypes /\ ReadInv /\ verdict = "PASS" BY InvFacts
<1>2. UNCHANGED <<messages, pins, reads, chosen, selections, answers, verdict>> BY DEF RestartNode
<1>3. voters \in [Nodes -> VoterSet] /\ voters' = [voters EXCEPT ![n].generation = @ + 1, ![n].sealed = @ /\ ~lost]
  BY <1>1 DEF RestartNode, ClusterTypes
<1>4. voters' \in [Nodes -> VoterSet]
  <2>1. PICK s \in BOOLEAN : s = (voters[n].sealed /\ ~lost) OBVIOUS
  <2>2. voters' = [voters EXCEPT ![n] = [voters[n] EXCEPT !.generation = voters[n].generation + 1, !.sealed = s]]
    BY <1>3, <2>1
  <2>3. voters[n] \in VoterSet BY <1>3
  <2>4. [voters[n] EXCEPT !.generation = voters[n].generation + 1, !.sealed = s] \in VoterSet
    BY <2>3, RestartedVoter
  <2> QED BY <1>3, <2>2, <2>4
<1>5. CoreSame BY <1>3 DEF CoreSame, VoterSet
<1>6. /\ DOMAIN campaigns' = DOMAIN campaigns
      /\ \A b \in DOMAIN campaigns : campaigns'[b] \in CampaignSet /\ Unmoved(b)
  <2>1. campaigns' = [b \in DOMAIN campaigns |->
         IF campaigns[b].node = n THEN [campaigns[b] EXCEPT !.ready = FALSE, !.retired = TRUE] ELSE campaigns[b]]
    BY DEF RestartNode
  <2>2. ASSUME NEW b \in DOMAIN campaigns PROVE campaigns'[b] \in CampaignSet /\ Unmoved(b)
    <3>1. campaigns[b] \in CampaignSet BY <1>1 DEF ClusterTypes
    <3> QED BY <2>1, <3>1 DEF CampaignSet, Unmoved
  <2> QED BY <2>1, <2>2
<1>7. ClusterTypes'
  <2>1. campaigns' \in [DOMAIN campaigns' -> CampaignSet]
    <3>1. campaigns' = [b \in DOMAIN campaigns' |-> campaigns'[b]] BY DEF RestartNode
    <3> QED BY <1>6, <3>1
  <2> QED BY <1>1, <1>2, <1>4, <1>6, <2>1 DEF ClusterTypes
<1>8. Still BY <1>2, <1>5, <1>6 DEF Still, ReadsKept
<1>9. ReadInv' /\ verdict' = "PASS" BY <1>1, <1>2 DEF ReadInv, Topped
<1> QED BY <1>7, <1>8, <1>9, StillStep, InvBuild

-----------------------------------------------------------------------------
(* Promises *)

\* The voters after one of them promised.
LEMMA PreparedVoters ==
    ASSUME ClusterTypes, NEW n \in Nodes, NEW b \in Ballots, voters' = Prepared(n, b)
    PROVE  /\ voters' \in [Nodes -> VoterSet]
           /\ voters'[n].promise = b
           /\ \A k \in Nodes : /\ voters'[k].prefix = voters[k].prefix /\ voters'[k].accepted = voters[k].accepted
                               /\ k # n => voters'[k].promise = voters[k].promise
<1>1. voters \in [Nodes -> VoterSet] /\ b \in Nat BY ClusterAssumption DEF ClusterTypes, Ballots
<1>2. voters' = [voters EXCEPT ![n].promise = b, ![n].promises = @ + 1] BY DEF Prepared
<1>3. voters[n].promises + 1 \in Nat BY <1>1 DEF VoterSet
<1>4. PICK w : w = [voters[n] EXCEPT !.promise = b, !.promises = @ + 1] OBVIOUS
<1>5. voters' = [voters EXCEPT ![n] = w] BY <1>1, <1>2, <1>4
<1>6. /\ w \in VoterSet /\ w.promise = b
      /\ w.prefix = voters[n].prefix /\ w.accepted = voters[n].accepted
  BY <1>1, <1>3, <1>4 DEF VoterSet
<1> QED BY <1>1, <1>5, <1>6

\* A step that is a promise: of voter n to ballot b, with basis x.
Promising(n, b, x) ==
    /\ voters' = Prepared(n, b) /\ b > voters[n].promise /\ x = BasisOf(n, b)
    /\ UNCHANGED <<chosen, selections, answers, reads>>
    /\ \A k \in DOMAIN campaigns : Unmoved(k)
    /\ \A k \in DOMAIN campaigns' : k \notin DOMAIN campaigns =>
          k = b /\ campaigns'[k].basis = x /\ campaigns'[k].round = NoRound /\ ~campaigns'[k].selected
    /\ b \in DOMAIN campaigns => campaigns[b].node # n
    /\ \A m \in DOMAIN messages' : \/ m \in DOMAIN messages
                                   \/ m.kind = "prepare"
                                   \/ m.kind = "promise" /\ m.basis = x

\* A promise is a step of the frame: it freezes a basis and proposes nothing.
LEMMA PromisingFrame ==
    ASSUME ClusterInv, ClusterTypes', NEW n \in Nodes, NEW b \in Ballots, NEW x, Promising(n, b, x)
    PROVE  /\ Sized' /\ Frame /\ NodesStay /\ RoundsMove /\ ProposerFrame /\ NewlySettled
<1>1. /\ ClusterTypes /\ Recorded /\ SafetyInv /\ Sized
      /\ \A k \in DOMAIN campaigns : CampaignAt(k)
  BY InvFacts
<1>2. Recorded' BY <1>1 DEF Recorded, Promising, Unmoved
<1>3. Sized' BY <1>2, SizedNext
<1>4. /\ voters'[n].promise = b
      /\ \A k \in Nodes : /\ voters'[k].prefix = voters[k].prefix /\ voters'[k].accepted = voters[k].accepted
                          /\ k # n => voters'[k].promise = voters[k].promise
  BY <1>1, PreparedVoters DEF Promising
<1>a. b \in Int /\ b > voters[n].promise BY DEF Ballots, Promising
<1>5. PromisesRise BY <1>1, <1>4, <1>a DEF PromisesRise, Sized
<1>6. DisksGrow BY <1>1, <1>4 DEF DisksGrow, Sized
<1>7. ProposerFrame
  <2>1. \A k \in DOMAIN campaigns : campaigns[k].node \in Nodes BY <1>1 DEF ClusterTypes, CampaignSet
  <2> QED BY <2>1, <1>4 DEF ProposerFrame, Promising
<1>8. NodesStay /\ LogGrows
  BY <1>1 DEF Promising, Unmoved, NodesStay, LogGrows, Sized
<1>b. NoMoreVotes /\ NoMoreProofs
  <2>1. \A k \in DOMAIN campaigns' : k \notin DOMAIN campaigns => campaigns'[k].round = NoRound BY DEF Promising
  <2>2. \A k \in DOMAIN campaigns : campaigns'[k].round = campaigns[k].round BY DEF Promising, Unmoved
  <2>3. NoRound.accepts = {} /\ NoRound.proofs = {} BY DEF NoRound
  <2> QED BY <2>1, <2>2, <2>3 DEF NoMoreVotes, NoMoreProofs
<1>9. NoNew({"accepted"}) /\ NoNew({"proven"}) BY DEF Promising, NoNew
<1>10. VotesByPromise
  <2> SUFFICES ASSUME NEW p \in Nodes, NEW k, NEW s, NEW v, Voted(p, k, s, v)' PROVE Voted(p, k, s, v)
    BY DEF VotesByPromise
  <2>1. CASE Marked(voters[p].accepted, k, s, v)' BY <2>1, <1>4 DEF Marked, Voted
  <2>2. CASE (\E m \in DOMAIN messages : m.kind = "accepted" /\ m.node = p /\ Says(m, k, s, v))'
    <3>1. PICK m \in DOMAIN messages' : m.kind = "accepted" /\ m.node = p /\ Says(m, k, s, v) BY <2>2
    <3>2. m \in DOMAIN messages BY <3>1, <1>9 DEF NoNew
    <3> QED BY <3>1, <3>2 DEF Voted
  <2>3. CASE (InRound(k, s, v) /\ p \in campaigns[k].round.accepts)'
    BY <2>3, <1>b DEF InRound, NoMoreVotes, Voted
  <2> QED BY <2>1, <2>2, <2>3 DEF Voted
<1>11. ProofsByPromise BY <1>9, <1>b, ProofsStill
<1>12. CampaignsStay /\ RoundsMove
  BY <1>1, <1>3, <1>6, UnmovedStays DEF CampaignsStay, RoundsMove, Promising, Selected
<1>13. Fresh(x)
  <2>1. x = [node |-> n, ballot |-> b, prefix |-> voters[n].prefix,
             accepted |-> [s \in {i \in DOMAIN voters[n].accepted : i > Len(voters[n].prefix)} |-> voters[n].accepted[s]]]
    BY DEF Promising, BasisOf
  <2>2. x.node = n /\ x.ballot = b /\ x.prefix = voters[n].prefix BY <2>1
  <2>3. x.accepted = [s \in {i \in DOMAIN voters[n].accepted : i > Len(voters[n].prefix)} |-> voters[n].accepted[s]]
    BY <2>1
  <2>4. \A s : s \in DOMAIN x.accepted <=> s \in DOMAIN voters[n].accepted /\ s > Len(x.prefix) BY <2>2, <2>3
  <2>5. \A s \in DOMAIN x.accepted : x.accepted[s] = voters[n].accepted[s] BY <2>3
  <2> QED BY <2>2, <2>4, <2>5, <1>4, <1>a DEF Fresh
<1>14. BasesOld
  <2>1. ASSUME NEW y \in Bases' PROVE y \in Bases \/ y = x
    <3>1. CASE y \in {campaigns'[k].basis : k \in DOMAIN campaigns'}
      BY <3>1 DEF Bases, Promising, Unmoved
    <3>2. CASE y \in {m.basis : m \in {k \in DOMAIN messages' : k.kind = "promise"}}
      BY <3>2 DEF Bases, Promising
    <3> QED BY <3>1, <3>2 DEF Bases
  <2> QED BY <2>1, <1>13 DEF BasesOld
<1>15. Quiet
  <2>1. NoneSelected BY DEF NoneSelected, Selected, Promising, Unmoved
  <2>2. ASSUME NEW k, NEW s, NEW v, Proposed(k, s, v)' PROVE Proposed(k, s, v)
    <3>1. CASE (\E p \in Nodes : Marked(voters[p].accepted, k, s, v))' BY <3>1, <1>4 DEF Marked, Proposed
    <3>2. CASE (\E m \in DOMAIN messages : Says(m, k, s, v))'
      <4>1. PICK m \in DOMAIN messages' : Says(m, k, s, v) BY <3>2 DEF Says
      <4>2. m \in DOMAIN messages BY <4>1 DEF Says, Promising, ReceiptKinds
      <4> QED BY <4>1, <4>2 DEF Proposed
    <3>3. CASE (\E y \in Bases : Marked(y.accepted, k, s, v))'
      <4>1. PICK y \in Bases' : Marked(y.accepted, k, s, v) BY <3>3 DEF Marked
      <4>2. CASE y \in Bases BY <4>1, <4>2 DEF Proposed
      <4>3. CASE Fresh(y) BY <4>1, <4>3 DEF Fresh, Marked, Proposed
      <4> QED BY <4>2, <4>3, <1>14 DEF BasesOld
    <3>4. CASE InRound(k, s, v)'
      <4>1. k \in DOMAIN campaigns' /\ s # 0 /\ campaigns'[k].round.slot = s /\ campaigns'[k].round.value = v
        BY <3>4 DEF InRound
      <4>2. k \in DOMAIN campaigns
        <5>1. NoRound.slot = 0 BY DEF NoRound
        <5> QED BY <4>1, <5>1 DEF Promising
      <4>3. InRound(k, s, v) BY <4>1, <4>2 DEF InRound, Promising, Unmoved
      <4> QED BY <4>3 DEF Proposed
    <3>5. CASE (k \in DOMAIN selections /\ selections[k] = <<s, v>>)' BY <3>5 DEF Promising, Proposed
    <3> QED BY <2>2, <3>1, <3>2, <3>3, <3>4, <3>5 DEF Proposed
  <2> QED BY <2>1, <2>2 DEF Quiet
<1>16. Frame BY <1>5, <1>6, <1>8, <1>10, <1>11, <1>12, <1>14, <1>15 DEF Frame
<1>17. NewlySettled
  <2> SUFFICES ASSUME NEW p \in Nodes PROVE Settled(voters[p].prefix)' BY DEF NewlySettled
  <2>1. PICK q : q = voters[p].prefix OBVIOUS
  <2>2. Settled(q) /\ Len(q) \in Nat BY <1>1, <2>1 DEF SafetyInv, Sized
  <2>3. Settled(q)' BY <1>1, <1>3, <1>8, <2>2, SettledStep
  <2> QED BY <2>1, <2>3, <1>4
<1> QED BY <1>3, <1>16, <1>8, <1>12, <1>7, <1>17

\* The invariant under a promise.
LEMMA PromisingStep ==
    ASSUME ClusterInv, ClusterTypes', NEW n \in Nodes, NEW b \in Ballots, NEW x, Promising(n, b, x)
    PROVE  /\ SafetyInv'
           /\ \A k \in DOMAIN campaigns : CampaignAt(k)'
           /\ \A m \in DOMAIN messages : MessageAt(m)'
<1>1. /\ ClusterTypes /\ SafetyInv /\ Sized
      /\ \A k \in DOMAIN campaigns : CampaignAt(k)
      /\ \A m \in DOMAIN messages : MessageAt(m)
  BY InvFacts
<1>2. Sized' /\ Frame /\ NodesStay /\ RoundsMove /\ ProposerFrame /\ NewlySettled BY PromisingFrame
<1>3. NewlyChosen /\ NewlyAnswered /\ ProofSlots
  BY ProofSlotsFrom DEF NewlyChosen, NewlyAnswered, Promising
<1>4. SafetyInv' BY <1>1, <1>2, <1>3, CoreStep
<1>5. \A k \in DOMAIN campaigns : CampaignAt(k)'
  BY <1>1, <1>2, CampaignKept DEF Promising
<1>6. \A m \in DOMAIN messages : MessageAt(m)'
  BY <1>1, <1>2, MessageKept
<1> QED BY <1>4, <1>5, <1>6

\* A candidate campaigns with a ballot of its own.
LEMMA EpochOwner ==
    ASSUME NEW k \in Nat, NEW n \in Nodes
    PROVE  NextEpoch(k, n) \in Nat /\ NextEpoch(k, n) >= 2 /\ Owner(NextEpoch(k, n)) = n
<1> DEFINE q == IF k = 1 THEN 0 ELSE (k - 2) \div 3 + 1
<1>1. q \in Nat
  <2>1. k \in {0, 1} \/ k >= 2 OBVIOUS
  <2> QED BY <2>1
<1>2. NextEpoch(k, n) = 3 * q + n + 2 BY DEF NextEpoch
<1> HIDE DEF q
<1>3. NextEpoch(k, n) - 2 = 3 * q + n /\ n \in Int BY <1>1, <1>2 DEF Nodes
<1>4. (3 * q + n) % 3 = n
  <2>1. (3 * q + 0) % 3 = 0 /\ (3 * q + 1) % 3 = 1 /\ (3 * q + 2) % 3 = 2 BY <1>1
  <2>2. n = 0 \/ n = 1 \/ n = 2 BY DEF Nodes
  <2> QED BY <2>1, <2>2
<1>5. Owner(NextEpoch(k, n)) = n BY <1>3, <1>4 DEF Owner
<1> QED BY <1>1, <1>2, <1>5 DEF Nodes

\* The greatest of a set that has one.
LEMMA GreatestIn ==
    ASSUME NEW S, \E k \in S : \A j \in S : j <= k
    PROVE  Greatest(S) \in S /\ \A j \in S : j <= Greatest(S)
<1> DEFINE P(k) == k \in S /\ \A j \in S : j <= k
<1>1. \E k : P(k) OBVIOUS
<1>2. P(CHOOSE k : P(k)) BY <1>1, Zenon
<1>3. Greatest(S) = CHOOSE k : P(k) BY DEF Greatest
<1> QED BY <1>2, <1>3

\* The greatest of three numbers.
LEMMA GreatestOfThree ==
    ASSUME NEW i \in Nat, NEW j \in Nat, NEW k \in Nat
    PROVE  Greatest({i, j, k}) \in Nat
<1>1. \E g \in {i, j, k} : i <= g /\ j <= g /\ k <= g OBVIOUS
<1>2. \E g \in {i, j, k} : \A h \in {i, j, k} : h <= g BY <1>1
<1>3. Greatest({i, j, k}) \in {i, j, k} BY <1>2, GreatestIn
<1> QED BY <1>3

\* The greatest promise is a number.
LEMMA GreatestPromise ==
    ASSUME ClusterTypes
    PROVE  Greatest({voters[k].promise : k \in Nodes}) \in Nat
<1> DEFINE S == {voters[k].promise : k \in Nodes}
<1>1. \A k \in Nodes : voters[k].promise \in Nat BY DEF ClusterTypes, VoterSet
<1>2. S = {voters[0].promise, voters[1].promise, voters[2].promise} BY DEF Nodes
<1>3. voters[0].promise \in Nat /\ voters[1].promise \in Nat /\ voters[2].promise \in Nat BY <1>1 DEF Nodes
<1> QED BY <1>2, <1>3, GreatestOfThree

\* A table with one entry set.
LEMMA ExtendFacts ==
    ASSUME NEW f, NEW k, NEW v
    PROVE  /\ DOMAIN Extend(f, k, v) = DOMAIN f \cup {k}
           /\ Extend(f, k, v)[k] = v
           /\ \A x \in DOMAIN f : x # k => Extend(f, k, v)[x] = f[x]
           /\ \A S : f \in [DOMAIN f -> S] /\ v \in S => Extend(f, k, v) \in [DOMAIN f \cup {k} -> S]
BY DEF Extend

\* A campaign between two rounds.
LEMMA NoRoundTypes == NoRound \in RoundSet /\ NoRound.slot = 0
BY DEF NoRound, RoundSet, NoRead

\* Cluster.campaign: the proposer promises its own ballot first.
LEMMA CampaignStep ==
    ASSUME ClusterInv, NEW n \in Nodes, Campaign(n)
    PROVE  ClusterInv'
<1>1. ClusterTypes /\ Recorded /\ SafetyInv /\ Sized /\ ReadInv /\ verdict = "PASS" BY InvFacts
<1>2. PICK b \in {NextEpoch(voters[n].promise, n), NextEpoch(Greatest({voters[k].promise : k \in Nodes}), n)} :
        /\ b <= MaxBallot /\ b \notin DOMAIN campaigns /\ MayPrepare(n, b)
        /\ voters' = Prepared(n, b)
        /\ campaigns' = Extend(campaigns, b,
             [node |-> n, basis |-> BasisOf(n, b), selected |-> FALSE, retired |-> FALSE, ready |-> FALSE,
              round |-> NoRound, quorum |-> {}])
        /\ messages' = Queue(messages, <<Prepare((n + 1) % 3, b), Prepare((n + 2) % 3, b)>>)
        /\ Judge(Rule("I01", Owner(b) = n))
        /\ UNCHANGED <<pins, reads, chosen, selections, answers, anomalies>>
  BY DEF Campaign
<1>3. b \in Ballots /\ Owner(b) = n
  <2>1. voters[n].promise \in Nat BY <1>1 DEF Sized
  <2> QED BY <1>1, <1>2, <2>1, EpochOwner, GreatestPromise, ClusterAssumption DEF Ballots
<1>4. PICK x : x = BasisOf(n, b) OBVIOUS
<1>5. x \in BasisSet /\ x.node = n /\ x.ballot = b /\ x.prefix = voters[n].prefix
  BY <1>1, <1>3, <1>4, BasisTypes DEF BasisOf
<1> DEFINE new == [node |-> n, basis |-> x, selected |-> FALSE, retired |-> FALSE, ready |-> FALSE,
                   round |-> NoRound, quorum |-> {}]
<1>6. new \in CampaignSet BY <1>5, NoRoundTypes DEF CampaignSet
<1>7. /\ campaigns' = Extend(campaigns, b, new) /\ DOMAIN campaigns' = DOMAIN campaigns \cup {b} /\ campaigns'[b] = new
      /\ \A k \in DOMAIN campaigns : campaigns'[k] = campaigns[k]
  <2>1. campaigns' = Extend(campaigns, b, new) BY <1>2, <1>4
  <2>2. b \notin DOMAIN campaigns BY <1>2
  <2> HIDE DEF new
  <2> QED BY <2>1, <2>2 DEF Extend
<1>8. campaigns' \in [DOMAIN campaigns' -> CampaignSet]
  <2>1. campaigns \in [DOMAIN campaigns -> CampaignSet] BY <1>1 DEF ClusterTypes
  <2> HIDE DEF new
  <2> QED BY <1>6, <1>7, <2>1, ExtendFacts
<1>9. (n + 1) % 3 \in Nodes /\ (n + 2) % 3 \in Nodes /\ (n + 1) % 3 # n /\ (n + 2) % 3 # n BY DEF Nodes
<1>10. DOMAIN messages' \subseteq DOMAIN messages \cup {Prepare((n + 1) % 3, b), Prepare((n + 2) % 3, b)}
  BY <1>2, QueueTwo
<1>11. voters' \in [Nodes -> VoterSet] /\ voters'[n].prefix = voters[n].prefix
  BY <1>1, <1>2, <1>3, PreparedVoters
<1>12. ClusterTypes'
  <2>1. DOMAIN messages' \subseteq MessageSet BY <1>1, <1>3, <1>9, <1>10, SentTypes DEF ClusterTypes
  <2>2. DOMAIN campaigns' \subseteq Ballots BY <1>1, <1>3, <1>7 DEF ClusterTypes
  <2> QED BY <1>1, <1>2, <1>8, <1>11, <2>1, <2>2 DEF ClusterTypes
<1>13. \A m \in DOMAIN messages' : m \in DOMAIN messages \/ (m.kind = "prepare" /\ m.ballot = b /\ m.target # n)
  BY <1>9, <1>10 DEF Prepare
<1>14. Promising(n, b, x)
  <2>1. campaigns'[b].basis = x /\ campaigns'[b].round = NoRound /\ ~campaigns'[b].selected BY <1>7
  <2>2. voters' = Prepared(n, b) /\ b > voters[n].promise /\ b \notin DOMAIN campaigns
        /\ UNCHANGED <<chosen, selections, answers, reads>>
    BY <1>2 DEF MayPrepare
  <2>3. \A k \in DOMAIN campaigns : Unmoved(k) BY <1>7 DEF Unmoved
  <2> HIDE DEF new
  <2> QED BY <1>4, <1>7, <1>13, <2>1, <2>2, <2>3 DEF Promising
<1>15. /\ SafetyInv'
       /\ \A k \in DOMAIN campaigns : CampaignAt(k)'
       /\ \A m \in DOMAIN messages : MessageAt(m)'
  BY <1>3, <1>12, <1>14, PromisingStep
<1>16. CampaignAt(b)'
  <2>1. b \notin DOMAIN selections
    <3>1. ASSUME b \in DOMAIN selections PROVE FALSE
      <4>1. selections[b] \in Slots \X Values BY <1>1, <3>1 DEF ClusterTypes
      <4>2. PICK s \in Slots, v \in Values : selections[b] = <<s, v>> BY <4>1
      <4>3. Proposed(b, s, v) BY <3>1, <4>2 DEF Proposed
      <4>4. Selected(b) BY <1>1, <4>3 DEF SafetyInv, ProposalInv
      <4> QED BY <1>2, <4>4 DEF Selected
    <3> QED BY <3>1
  <2>2. b \notin DOMAIN selections' BY <1>2, <2>1
  <2>3. /\ campaigns'[b].basis = x /\ campaigns'[b].node = n /\ campaigns'[b].selected = FALSE
        /\ campaigns'[b].ready = FALSE /\ campaigns'[b].round = NoRound
    BY <1>7
  <2> QED BY <1>5, <1>11, <2>2, <2>3, NoRoundTypes DEF CampaignAt
<1>17. ASSUME NEW m, m.kind = "prepare", m.ballot = b, m.target # n PROVE MessageAt(m)'
  <2>1. b \in DOMAIN campaigns' /\ campaigns'[b].node = n BY <1>7
  <2> QED BY <1>17, <2>1 DEF MessageAt
<1>18. \A k \in DOMAIN campaigns' : CampaignAt(k)' BY <1>7, <1>15, <1>16
<1>19. \A m \in DOMAIN messages' : MessageAt(m)' BY <1>13, <1>15, <1>17
<1>20. ReadInv' BY <1>1, <1>2 DEF ReadInv, Topped
<1>21. verdict' = "PASS" BY <1>1, <1>2, <1>3 DEF Judge, Rule
<1> QED BY <1>12, <1>15, <1>18, <1>19, <1>20, <1>21, InvBuild

\* Delivery of a PREPARE.
LEMMA DeliverPrepareStep ==
    ASSUME ClusterInv, NEW m \in DOMAIN messages, DeliverPrepare(m)
    PROVE  ClusterInv'
<1>1. ClusterTypes /\ Recorded /\ SafetyInv /\ Sized /\ ReadInv /\ verdict = "PASS" /\ MessageAt(m) BY InvFacts
<1> DEFINE n == m.target
           b == m.ballot
<1>2. m \in MessageSet /\ m.kind = "prepare" BY <1>1 DEF ClusterTypes, DeliverPrepare
<1>3. n \in Nodes /\ b \in Ballots /\ b \in DOMAIN campaigns /\ n # campaigns[b].node
  BY <1>1, <1>2, MessageFields DEF MessageAt
<1>4. UNCHANGED <<campaigns, pins, reads, chosen, selections, answers, verdict, anomalies>> BY DEF DeliverPrepare
<1>5. ReadInv' /\ verdict' = "PASS" BY <1>1, <1>4 DEF ReadInv, Topped
<1>6. CASE messages' = Remove(messages, m) /\ UNCHANGED voters
  <2>1. DOMAIN messages' \subseteq DOMAIN messages BY <1>6, RemoveDomain
  <2>2. ClusterTypes' BY <1>1, <1>4, <1>6, <2>1 DEF ClusterTypes
  <2>3. Still BY <1>4, <1>6, <2>1 DEF Still, CoreSame, Unmoved, ReadsKept
  <2> QED BY <1>5, <2>2, <2>3, StillStep, InvBuild
<1>7. CASE /\ MayPrepare(n, b) /\ voters' = Prepared(n, b)
           /\ messages' = Queue(Remove(messages, m), <<PromiseMsg(campaigns[b].node, b, BasisOf(n, b))>>)
  <2>1. PICK x : x = BasisOf(n, b) OBVIOUS
  <2>2. x \in BasisSet /\ x.node = n /\ x.ballot = b BY <1>1, <1>3, <2>1, BasisTypes DEF BasisOf
  <2>3. PICK p : p = campaigns[b].node OBVIOUS
  <2>4. p \in Nodes BY <1>1, <1>3, <2>3 DEF ClusterTypes, CampaignSet
  <2>5. DOMAIN messages' \subseteq DOMAIN messages \cup {PromiseMsg(p, b, x)}
    BY <1>7, <2>1, <2>3, QueueOne, RemoveDomain
  <2>6. ClusterTypes'
    <3>1. DOMAIN messages' \subseteq MessageSet BY <1>1, <1>3, <2>2, <2>4, <2>5, SentTypes DEF ClusterTypes
    <3>2. voters' \in [Nodes -> VoterSet] BY <1>1, <1>3, <1>7, PreparedVoters
    <3> QED BY <1>1, <1>4, <3>1, <3>2 DEF ClusterTypes
  <2>7. \A k \in DOMAIN messages' : k \in DOMAIN messages \/ (k.kind = "promise" /\ k.basis = x /\ k.ballot = b /\ k.target = p)
    BY <2>5 DEF PromiseMsg
  <2>8. Promising(n, b, x)
    BY <1>3, <1>4, <1>7, <2>1, <2>7 DEF Promising, Unmoved, MayPrepare
  <2>9. /\ SafetyInv'
        /\ \A k \in DOMAIN campaigns : CampaignAt(k)'
        /\ \A k \in DOMAIN messages : MessageAt(k)'
    BY <1>3, <2>6, <2>8, PromisingStep
  <2>10. ASSUME NEW k, k.kind = "promise", k.basis = x, k.ballot = b, k.target = p PROVE MessageAt(k)'
    BY <1>3, <1>4, <2>2, <2>3, <2>10 DEF MessageAt
  <2>11. \A k \in DOMAIN messages' : MessageAt(k)' BY <2>7, <2>9, <2>10
  <2> QED BY <1>4, <1>5, <2>6, <2>9, <2>11, InvBuild
<1> QED BY <1>6, <1>7 DEF DeliverPrepare

-----------------------------------------------------------------------------
(* Rounds *)

\* Activations, barriers and commands are values.
LEMMA ValueTypes ==
    /\ \A b \in Ballots : Activation(b) \in Values
    /\ \A b \in Ballots, r \in ReadIds : Barrier(b, r) \in Values
    /\ \A x \in Commands : Command(x) \in Values
BY DEF Values, LogValuesHere

\* Campaign d is campaign c with a new round for v after p.
IsBegun(d, c, p, v, r) ==
    /\ d \in CampaignSet
    /\ d.node = c.node /\ d.basis = c.basis /\ d.selected = c.selected /\ d.quorum = c.quorum /\ d.ready = c.ready
    /\ d.round.slot = Len(p) + 1 /\ d.round.value = v /\ d.round.read = r
    /\ d.round.accepts = {} /\ d.round.proofs = {} /\ d.round.proof = FALSE

\* A campaign whose round begins.
LEMMA BegunFields ==
    ASSUME NEW c \in CampaignSet, NEW p \in Seq(Values), NEW v \in Values, NEW a \in BOOLEAN,
           NEW r \in ReadIds \cup {NoRead}
    PROVE  IsBegun(Begun(c, p, v, a, r), c, p, v, r)
<1> DEFINE d == [NoRound EXCEPT !.slot = Len(p) + 1, !.value = v, !.activation = a, !.read = r]
<1>1. NoRound \in RoundSet /\ NoRound.accepts = {} /\ NoRound.proofs = {} /\ NoRound.proof = FALSE
  BY NoRoundTypes DEF NoRound
<1>2. Len(p) + 1 \in Nat OBVIOUS
<1> HIDE DEF NoRound
<1>3. d \in RoundSet BY <1>1, <1>2 DEF RoundSet
<1>4. Begun(c, p, v, a, r) = [c EXCEPT !.round = d] BY DEF Begun
<1>5. /\ d.slot = Len(p) + 1 /\ d.value = v /\ d.accepts = {} /\ d.proofs = {} /\ d.proof = FALSE /\ d.read = r
  BY <1>1 DEF RoundSet
<1> HIDE DEF d
<1> QED BY <1>3, <1>4, <1>5 DEF CampaignSet, IsBegun

\* An ACCEPT goes to both members of the quorum, the proposer first.
LEMMA AcceptsTwo ==
    ASSUME NEW b, NEW q, NEW n, NEW p, NEW v, n # campaigns[b].node, q = {campaigns[b].node, n}
    PROVE  Accepts(b, q, p, v) = <<AcceptMsg(campaigns[b].node, b, p, v), AcceptMsg(n, b, p, v)>>
<1>1. n = CHOOSE k \in q : k # campaigns[b].node OBVIOUS
<1> QED BY <1>1 DEF Accepts

\* A step that begins the round of v at the end of p, in a campaign that has selected.
Continuing(b, p, v) ==
    /\ Selected(b) /\ CoreSame /\ UNCHANGED <<chosen, selections>>
    /\ DOMAIN campaigns' = DOMAIN campaigns /\ \A k \in DOMAIN campaigns : k # b => campaigns'[k] = campaigns[k]
    /\ campaigns'[b].node = campaigns[b].node /\ campaigns'[b].basis = campaigns[b].basis
    /\ campaigns'[b].selected = campaigns[b].selected /\ campaigns'[b].quorum = campaigns[b].quorum
    /\ campaigns'[b].round.slot = Len(p) + 1 /\ campaigns'[b].round.value = v
    /\ campaigns'[b].round.accepts = {} /\ campaigns'[b].round.proofs = {} /\ campaigns'[b].round.proof = FALSE
    /\ p = voters[campaigns[b].node].prefix /\ Len(p) + 1 > Top(b) /\ v \in Values
    /\ \A m \in DOMAIN messages' :
          \/ m \in DOMAIN messages
          \/ m.kind = "accept" /\ m.ballot = b /\ m.prefix = p /\ m.value = v /\ m.target \in campaigns[b].quorum

\* A further round is a step of the frame: one new proposal, above all earlier ones.
LEMMA ContinuingFrame ==
    ASSUME ClusterInv, ClusterTypes', NEW b, NEW p, NEW v, Continuing(b, p, v)
    PROVE  /\ Sized' /\ Frame /\ ProposerFrame /\ NewlySettled /\ NewlyChosen /\ ProofSlots
           /\ \A m \in DOMAIN messages' : MessageAt(m)'
           /\ Settled(p) /\ Len(p) \in Nat
<1>1. /\ ClusterTypes /\ Recorded /\ SafetyInv /\ Sized
      /\ \A k \in DOMAIN campaigns : CampaignAt(k)
      /\ \A m \in DOMAIN messages : MessageAt(m)
  BY InvFacts
<1>2. Recorded' BY <1>1 DEF Recorded, Continuing
<1>3. Sized' BY <1>2, SizedNext
<1>4. PromisesRise /\ DisksGrow /\ ProposerFrame BY <1>1, VotersStill DEF Continuing
<1>5. b \in DOMAIN campaigns /\ Selected(b) /\ campaigns[b].node \in Nodes
  BY <1>1 DEF Continuing, Selected, ClusterTypes, CampaignSet
<1>6. Settled(p) /\ Len(p) \in Nat BY <1>1, <1>5 DEF Continuing, SafetyInv, Sized
<1>7. NodesStay /\ BasesKept /\ NoMoreVotes /\ NoMoreProofs /\ LogGrows
  <2>1. NodesStay /\ BasesKept BY <1>5 DEF Continuing, NodesStay, BasesKept
  <2>2. NoMoreVotes /\ NoMoreProofs BY DEF Continuing, NoMoreVotes, NoMoreProofs
  <2>3. LogGrows BY <1>1 DEF Continuing, LogGrows, Sized
  <2> QED BY <2>1, <2>2, <2>3
<1>8. NoNew({"promise"}) /\ NoNew({"accepted"}) /\ NoNew({"proven"}) BY DEF Continuing, NoNew
<1>9. Bases' \subseteq Bases BY <1>7, <1>8, BasesSame
<1>10. VotesByPromise /\ ProofsByPromise BY <1>7, <1>8, VotesStill, ProofsStill DEF Continuing
<1>11. Top(b)' = Len(p) + 1 BY <1>6 DEF Continuing, Top
<1>12. CampaignsStay /\ RoundsMove
  <2>1. ASSUME NEW k, Selected(k), k # b
        PROVE  /\ Selected(k)' /\ Proposer(k)' = Proposer(k) /\ PairOf(k)' = PairOf(k)
               /\ First(k)' = First(k) /\ Top(k)' >= Top(k) /\ Advances(k)
    <3>1. Unmoved(k) BY <2>1 DEF Unmoved, Continuing, Selected
    <3> QED BY <1>1, <1>3, <1>4, <2>1, <3>1, UnmovedStays DEF Continuing
  <2>2. /\ Selected(b)' /\ Proposer(b)' = Proposer(b) /\ PairOf(b)' = PairOf(b) /\ First(b)' = First(b)
    BY <1>5 DEF Continuing, Selected, Proposer, PairOf, First
  <2>3. Top(b)' >= Top(b) BY <1>1, <1>3, <1>5, <1>11, <2>2 DEF Continuing, Sized
  <2>4. Advances(b) BY <1>1, <1>5 DEF Advances, Continuing
  <2> QED BY <2>1, <2>2, <2>3, <2>4 DEF CampaignsStay, RoundsMove
<1>13. Continues
  <2> DEFINE s == Len(p) + 1
  <2>1. s \in Nat BY <1>6
  <2>2. Later(b, s, v) BY <1>3, <1>5, <1>11, <1>12, <2>1 DEF Later, Continuing
  <2>3. NoneSelected BY <1>5 DEF NoneSelected, Selected, Continuing
  <2>4. OnlyNew(b, s, v)
    <3> SUFFICES ASSUME NEW k, NEW i, NEW w, Proposed(k, i, w)', ~Proposed(k, i, w) PROVE k = b /\ i = s /\ w = v
      BY DEF OnlyNew
    <3>1. ~\E n \in Nodes : Marked(voters'[n].accepted, k, i, w) /\ ~Marked(voters[n].accepted, k, i, w)
      BY DEF Continuing, CoreSame
    <3>2. CASE InRound(k, i, w)'
      <4>1. k # b => InRound(k, i, w) BY <3>2 DEF InRound, Continuing
      <4>2. k = b BY <4>1 DEF Proposed
      <4> QED BY <3>2, <4>2 DEF InRound, Continuing
    <3>3. CASE \E m \in DOMAIN messages' : m \notin DOMAIN messages /\ Says(m, k, i, w)
      BY <3>3 DEF Says, Continuing, ReceiptKinds
    <3> QED BY <1>9, <3>1, <3>2, <3>3, ProposedCases DEF Continuing
  <2> QED BY <2>2, <2>3, <2>4 DEF Continues
<1>14. Frame BY <1>4, <1>7, <1>9, <1>10, <1>12, <1>13 DEF Frame, BasesOld
<1>15. NewlySettled BY <1>1, <1>3, <1>7, SettledStill DEF Continuing
<1>16. NewlyChosen /\ ProofSlots BY ProofSlotsFrom DEF NewlyChosen, Continuing
<1>17. ASSUME NEW m \in DOMAIN messages' PROVE MessageAt(m)'
  <2>1. CASE m \in DOMAIN messages BY <1>1, <1>3, <1>7, <1>12, <1>14, <2>1, MessageKept
  <2>2. CASE m.kind = "accept" /\ m.ballot = b /\ m.prefix = p /\ m.target \in campaigns[b].quorum
    <3>1. Settled(p)' BY <1>1, <1>3, <1>6, <1>7, SettledStep
    <3>2. b \in DOMAIN campaigns' /\ Selected(b)' /\ m.target \in campaigns'[b].quorum
      BY <1>5, <1>12, <2>2 DEF Continuing, CampaignsStay
    <3> QED BY <2>2, <3>1, <3>2 DEF MessageAt
  <2> QED BY <2>1, <2>2 DEF Continuing
<1> QED BY <1>3, <1>4, <1>6, <1>14, <1>15, <1>16, <1>17

\* The round that begins fits its campaign.
LEMMA ContinuingRound ==
    ASSUME ClusterInv, ClusterTypes', NEW b, NEW p, NEW v, Continuing(b, p, v), ReadAt(b)'
    PROVE  CampaignAt(b)'
<1>1. ClusterTypes /\ Sized /\ \A k \in DOMAIN campaigns : CampaignAt(k) BY InvFacts
<1>2. Sized' /\ Frame /\ Settled(p) /\ Len(p) \in Nat BY ContinuingFrame
<1>3. b \in DOMAIN campaigns /\ Selected(b) /\ campaigns[b].selected /\ campaigns[b].node \in Nodes
  BY <1>1 DEF Continuing, Selected, ClusterTypes, CampaignSet
<1>4. CampaignAt(b) BY <1>1, <1>3
<1>5. Selected(b)' BY <1>2, <1>3 DEF Frame, CampaignsStay
<1>6. /\ campaigns'[b].round.slot = Len(p) + 1 /\ campaigns'[b].round.value = v /\ v \in Values
      /\ campaigns'[b].round.accepts = {} /\ campaigns'[b].round.proofs = {} /\ campaigns'[b].round.proof = FALSE
      /\ campaigns'[b].node = campaigns[b].node /\ campaigns'[b].basis = campaigns[b].basis
      /\ campaigns'[b].selected = campaigns[b].selected
  BY DEF Continuing
<1>7. Len(p) + 1 <= Len(chosen') + 1 BY <1>1, <1>2 DEF Settled, Continuing, Sized
<1>8. Len(voters'[campaigns[b].node].prefix) = Len(p) BY <1>3 DEF Continuing, CoreSame
<1>9. RoundAt(b)' BY <1>2, <1>5, <1>6, <1>7, <1>8 DEF RoundAt, ReadAt
<1>10. b \in DOMAIN selections' BY <1>3, <1>4 DEF CampaignAt, Continuing
<1>11. campaigns[b].basis.ballot = b /\ campaigns[b].basis.node = campaigns[b].node BY <1>4 DEF CampaignAt
<1> QED BY <1>2, <1>3, <1>6, <1>9, <1>10, <1>11 DEF CampaignAt

\* Cluster.submit.
LEMMA SubmitStep ==
    ASSUME ClusterInv, NEW b \in DOMAIN campaigns, NEW x \in Commands, Submit(b, x)
    PROVE  ClusterInv'
<1> DEFINE c == campaigns[b]
           v == Command(x)
<1>1. /\ ClusterTypes /\ Recorded /\ SafetyInv /\ Sized /\ ReadInv /\ verdict = "PASS"
      /\ \A k \in DOMAIN campaigns : CampaignAt(k)
  BY InvFacts
<1>2. PICK p : p = voters[c.node].prefix OBVIOUS
<1>a. PICK a \in BOOLEAN : a = FALSE OBVIOUS
<1>3. /\ c.ready /\ MayBegin(b)
      /\ campaigns' = [campaigns EXCEPT ![b] = Begun(c, p, v, a, NoRead)]
      /\ messages' = Queue(messages, Accepts(b, c.quorum, p, v))
      /\ UNCHANGED <<voters, pins, reads, chosen, selections, answers, verdict, anomalies>>
  BY <1>2, <1>a DEF Submit
<1>4. c \in CampaignSet /\ c.node \in Nodes /\ p \in Seq(Values) /\ v \in Values /\ b \in Ballots
  <2>1. c \in CampaignSet /\ b \in Ballots BY <1>1 DEF ClusterTypes
  <2>2. c.node \in Nodes BY <2>1 DEF CampaignSet
  <2>3. p \in Seq(Values) BY <1>1, <1>2, <2>2 DEF ClusterTypes, VoterSet
  <2> QED BY <2>1, <2>2, <2>3, ValueTypes
<1>5. Selected(b) BY <1>1, <1>3 DEF CampaignAt, Selected
<1>6. SelectedAt(b) BY <1>1, <1>5 DEF SafetyInv
<1>7. PICK n \in Nodes : n # c.node /\ c.quorum = {c.node, n} BY <1>6 DEF SelectedAt, Proposer, PairOf
<1>8. Accepts(b, c.quorum, p, v) = <<AcceptMsg(c.node, b, p, v), AcceptMsg(n, b, p, v)>> BY <1>7, AcceptsTwo
<1>9. DOMAIN messages' \subseteq DOMAIN messages \cup {AcceptMsg(c.node, b, p, v), AcceptMsg(n, b, p, v)}
  BY <1>3, <1>8, QueueTwo
<1>10. IsBegun(Begun(c, p, v, a, NoRead), c, p, v, NoRead) BY <1>4, BegunFields, Zenon
<1>11. ClusterTypes'
  <2>1. DOMAIN messages' \subseteq MessageSet BY <1>1, <1>4, <1>7, <1>9, SentTypes DEF ClusterTypes
  <2>2. campaigns' \in [DOMAIN campaigns' -> CampaignSet] /\ DOMAIN campaigns' = DOMAIN campaigns
    BY <1>1, <1>3, <1>10 DEF ClusterTypes, IsBegun
  <2> QED BY <1>1, <1>3, <2>1, <2>2 DEF ClusterTypes
<1>12. Continuing(b, p, v)
  <2>1. Top(b) = Len(p) BY <1>2, <1>3, NoRoundTypes DEF Top, MayBegin
  <2>2. Len(p) + 1 > Top(b) BY <1>4, <2>1
  <2>3. DOMAIN campaigns' = DOMAIN campaigns /\ campaigns'[b] = Begun(c, p, v, a, NoRead)
        /\ \A k \in DOMAIN campaigns : k # b => campaigns'[k] = campaigns[k]
    BY <1>3
  <2>4. \A m \in DOMAIN messages' :
          \/ m \in DOMAIN messages
          \/ m.kind = "accept" /\ m.ballot = b /\ m.prefix = p /\ m.value = v /\ m.target \in campaigns[b].quorum
    BY <1>7, <1>9 DEF AcceptMsg
  <2>5. CoreSame BY <1>3 DEF CoreSame
  <2> QED BY <1>2, <1>3, <1>4, <1>5, <1>10, <2>2, <2>3, <2>4, <2>5 DEF Continuing, IsBegun
<1>13. /\ Sized' /\ Frame /\ ProposerFrame /\ NewlySettled /\ NewlyChosen /\ ProofSlots
       /\ \A m \in DOMAIN messages' : MessageAt(m)'
  BY <1>11, <1>12, ContinuingFrame
<1>14. NewlyAnswered BY <1>3 DEF NewlyAnswered
<1>15. SafetyInv' BY <1>1, <1>13, <1>14, CoreStep
<1>16. ReadAt(b)'
  <2>1. campaigns'[b].round.read = NoRead BY <1>3, <1>10 DEF IsBegun
  <2> QED BY <2>1 DEF ReadAt
<1>17. CampaignAt(b)' BY <1>11, <1>12, <1>16, ContinuingRound
<1>18. ASSUME NEW k \in DOMAIN campaigns, k # b PROVE CampaignAt(k)'
  <2>1. Unmoved(k) BY <1>3, <1>18 DEF Unmoved
  <2> QED BY <1>1, <1>3, <1>13, <2>1, CampaignKept
<1>19. \A k \in DOMAIN campaigns' : CampaignAt(k)' BY <1>3, <1>17, <1>18
<1>20. ReadInv' /\ verdict' = "PASS" BY <1>1, <1>3 DEF ReadInv, Topped
<1> QED BY <1>11, <1>13, <1>15, <1>19, <1>20, InvBuild

\* An answer is below the next slot of a selected campaign, or the campaign is
\* over: a voter of its quorum has promised a higher ballot and will not vote there.
LEMMA AnswersBehind ==
    ASSUME SafetyInv, Sized, ClusterTypes, NEW b, Selected(b), NEW p, Top(b) = Len(p),
           p = voters[Proposer(b)].prefix, NEW s \in answers
    PROVE  s < Len(p) + 1 \/ \E n \in PairOf(b) : Refuses(n, b, Len(p) + 1)
<1>1. PICK k : AnsweredBy(k, s) BY DEF SafetyInv
<1>2. Selected(k) /\ k \in Int /\ b \in Int /\ s \in Nat /\ Proposer(b) \in Nodes /\ Len(p) \in Nat /\ First(b) \in Nat
      /\ Proposer(k) \in Nodes
  BY <1>1 DEF AnsweredBy, Sized, Ballots, ClusterTypes, Slots
<1>3. SelectedAt(b) /\ SelectedAt(k) BY <1>2 DEF SafetyInv
<1>4. PICK n \in Nodes : n # Proposer(b) /\ PairOf(b) = {Proposer(b), n} BY <1>3 DEF SelectedAt
<1>5. CASE k = b BY <1>1, <1>2, <1>5 DEF AnsweredBy
<1>6. CASE k < b
  <2>1. PICK i \in Nodes, j \in Nodes : i # j /\ Retains(i, k, s) /\ Retains(j, k, s) BY <1>1 DEF AnsweredBy
  <2>2. i \in PairOf(b) \/ j \in PairOf(b) BY <2>1, <1>2, <1>4, TwoOfThree
  <2>3. s < First(b) BY <2>1, <2>2, <1>6 DEF Retains
  <2>4. First(b) <= Top(b) BY <1>3 DEF SelectedAt
  <2> QED BY <2>3, <2>4, <1>2
<1>7. CASE k > b
  <2>1. PICK j \in Nodes : j # Proposer(k) /\ PairOf(k) = {Proposer(k), j} BY <1>3 DEF SelectedAt
  <2>2. PICK i \in PairOf(b) : i \in PairOf(k) BY <1>2, <1>4, <2>1, TwoOfThree
  <2>3. i \in Nodes /\ voters[i].promise >= k BY <1>2, <1>3, <2>1, <2>2 DEF SelectedAt
  <2>4. voters[i].promise > b BY <1>2, <1>7, <2>3 DEF Sized
  <2>5. ASSUME NEW v, Voted(i, b, Len(p) + 1, v) PROVE FALSE
    <3>1. Proposed(b, Len(p) + 1, v) BY <2>3, <2>5, VotedProposed
    <3>2. Len(p) + 1 \in First(b)..Top(b) BY <3>1 DEF SafetyInv, ProposalInv
    <3> QED BY <3>2, <1>2
  <2> QED BY <2>2, <2>4, <2>5 DEF Refuses
<1> QED BY <1>2, <1>5, <1>6, <1>7

\* Cluster.read: the barrier of the read is proposed above every answered slot.
LEMMA ReadStep ==
    ASSUME ClusterInv, NEW b \in DOMAIN campaigns, NEW r \in ReadIds, Read(b, r)
    PROVE  ClusterInv'
<1> DEFINE c == campaigns[b]
           v == Barrier(b, r)
<1>1. /\ ClusterTypes /\ Recorded /\ SafetyInv /\ Sized /\ ReadInv /\ verdict = "PASS"
      /\ \A k \in DOMAIN campaigns : CampaignAt(k)
  BY InvFacts
<1>2. PICK p : p = voters[c.node].prefix OBVIOUS
<1>3. /\ r \notin DOMAIN reads /\ c.ready
      /\ reads' = Extend(reads, r, [ballot |-> b, writes |-> answers, pin |-> <<>>])
      /\ UNCHANGED <<voters, pins, chosen, selections, answers, verdict, anomalies>>
  BY DEF Read
<1>4. c \in CampaignSet /\ c.node \in Nodes /\ p \in Seq(Values) /\ v \in Values /\ b \in Ballots
  <2>1. c \in CampaignSet /\ b \in Ballots BY <1>1 DEF ClusterTypes
  <2>2. c.node \in Nodes BY <2>1 DEF CampaignSet
  <2>3. p \in Seq(Values) BY <1>1, <1>2, <2>2 DEF ClusterTypes, VoterSet
  <2> QED BY <2>1, <2>2, <2>3, ValueTypes
<1>5. Selected(b) BY <1>1, <1>3 DEF CampaignAt, Selected
<1> DEFINE new == [ballot |-> b, writes |-> answers, pin |-> <<>>]
<1>6. new \in ReadSet BY <1>1, <1>4 DEF ClusterTypes, ReadSet
<1>7. /\ DOMAIN reads' = DOMAIN reads \cup {r} /\ reads'[r] = new
      /\ \A k \in DOMAIN reads : reads'[k] = reads[k]
      /\ reads' \in [DOMAIN reads' -> ReadSet]
  <2>1. reads \in [DOMAIN reads -> ReadSet] /\ r \notin DOMAIN reads BY <1>1, <1>3 DEF ClusterTypes
  <2>2. reads' = Extend(reads, r, new) BY <1>3
  <2> HIDE DEF new
  <2> QED BY <1>6, <2>1, <2>2 DEF Extend
<1>8. ReadsKept /\ reads'[r].ballot = b /\ reads'[r].writes = answers /\ reads'[r].pin = <<>>
  BY <1>7 DEF ReadsKept
<1>9. ReadInv'
  <2>1. \A k \in DOMAIN reads' : Topped(reads'[k].writes) /\ reads'[k].writes \subseteq answers'
    BY <1>1, <1>3, <1>7, <1>8 DEF ReadInv
  <2>2. \A k \in DOMAIN pins' : k \in DOMAIN reads' /\ pins'[k] = reads'[k].pin
    BY <1>1, <1>3, <1>7 DEF ReadInv
  <2>3. Topped(answers') BY <1>1, <1>3 DEF ReadInv
  <2> QED BY <2>1, <2>2, <2>3 DEF ReadInv, Topped
<1>10. verdict' = "PASS" BY <1>1, <1>3
<1>11. CASE UNCHANGED <<campaigns, messages>>
  <2>1. ClusterTypes'
    <3>1. DOMAIN reads' \subseteq ReadIds BY <1>1, <1>7 DEF ClusterTypes
    <3> HIDE DEF new
    <3> QED BY <1>1, <1>3, <1>7, <1>11, <3>1 DEF ClusterTypes
  <2>2. Still BY <1>3, <1>8, <1>11 DEF Still, CoreSame, Unmoved
  <2> QED BY <1>9, <1>10, <2>1, <2>2, StillStep, InvBuild
<1>12. CASE /\ MayBegin(b)
            /\ campaigns' = [campaigns EXCEPT ![b] = Begun(c, p, v, FALSE, r)]
            /\ messages' = Queue(messages, Accepts(b, c.quorum, p, v))
  <2>a. PICK a \in BOOLEAN : a = FALSE OBVIOUS
  <2>1. campaigns' = [campaigns EXCEPT ![b] = Begun(c, p, v, a, r)] BY <1>12, <2>a
  <2>6. SelectedAt(b) BY <1>1, <1>5 DEF SafetyInv
  <2>7. PICK n \in Nodes : n # c.node /\ c.quorum = {c.node, n} BY <2>6 DEF SelectedAt, Proposer, PairOf
  <2>8. Accepts(b, c.quorum, p, v) = <<AcceptMsg(c.node, b, p, v), AcceptMsg(n, b, p, v)>> BY <2>7, AcceptsTwo
  <2>9. DOMAIN messages' \subseteq DOMAIN messages \cup {AcceptMsg(c.node, b, p, v), AcceptMsg(n, b, p, v)}
    BY <1>12, <2>8, QueueTwo
  <2>10. IsBegun(Begun(c, p, v, a, r), c, p, v, r)
    <3>1. r \in ReadIds \cup {NoRead} OBVIOUS
    <3> QED BY <1>4, <3>1, BegunFields, Zenon
  <2>11. ClusterTypes'
    <3>1. DOMAIN messages' \subseteq MessageSet BY <1>1, <1>4, <2>7, <2>9, SentTypes DEF ClusterTypes
    <3>2. campaigns' \in [DOMAIN campaigns' -> CampaignSet] /\ DOMAIN campaigns' = DOMAIN campaigns
      BY <1>1, <2>1, <2>10 DEF ClusterTypes, IsBegun
    <3>3. DOMAIN reads' \subseteq ReadIds BY <1>1, <1>7 DEF ClusterTypes
    <3> HIDE DEF new
    <3> QED BY <1>1, <1>3, <1>7, <3>1, <3>2, <3>3 DEF ClusterTypes
  <2>12. Top(b) = Len(p) BY <1>2, <1>12, NoRoundTypes DEF Top, MayBegin
  <2>13. Continuing(b, p, v)
    <3>2. Len(p) + 1 > Top(b) BY <1>4, <2>12
    <3>3. DOMAIN campaigns' = DOMAIN campaigns /\ campaigns'[b] = Begun(c, p, v, a, r)
          /\ \A k \in DOMAIN campaigns : k # b => campaigns'[k] = campaigns[k]
      BY <2>1
    <3>4. \A m \in DOMAIN messages' :
            \/ m \in DOMAIN messages
            \/ m.kind = "accept" /\ m.ballot = b /\ m.prefix = p /\ m.value = v /\ m.target \in campaigns[b].quorum
      BY <2>7, <2>9 DEF AcceptMsg
    <3>5. CoreSame BY <1>3 DEF CoreSame
    <3> QED BY <1>2, <1>3, <1>4, <1>5, <2>10, <3>2, <3>3, <3>4, <3>5 DEF Continuing, IsBegun
  <2>14. /\ Sized' /\ Frame /\ ProposerFrame /\ NewlySettled /\ NewlyChosen /\ ProofSlots
         /\ \A m \in DOMAIN messages' : MessageAt(m)'
    BY <2>11, <2>13, ContinuingFrame
  <2>15. NewlyAnswered BY <1>3 DEF NewlyAnswered
  <2>16. SafetyInv' BY <1>1, <2>14, <2>15, CoreStep
  <2>17. ReadAt(b)'
    <3>1. campaigns'[b].round.read = r /\ campaigns'[b].round.slot = Len(p) + 1 /\ campaigns'[b].round.value = v
          /\ campaigns'[b].quorum = c.quorum
      BY <2>1, <2>10 DEF IsBegun
    <3>2. ASSUME NEW s \in answers
          PROVE  s < Len(p) + 1 \/ \E k \in c.quorum : Refuses(k, b, Len(p) + 1)'
      <4>1. s < Len(p) + 1 \/ \E k \in c.quorum : Refuses(k, b, Len(p) + 1)
        BY <1>1, <1>2, <1>5, <2>12, AnswersBehind DEF Proposer, PairOf
      <4>2. ASSUME NEW k \in c.quorum, Refuses(k, b, Len(p) + 1) PROVE Refuses(k, b, Len(p) + 1)'
        <5>1. k \in Nodes /\ b \in Int BY <1>4, <2>7 DEF Ballots
        <5> QED BY <1>1, <2>14, <4>2, <5>1, RefusesStep DEF Frame
      <4> QED BY <4>1, <4>2
    <3>3. r \in DOMAIN reads' BY <1>7
    <3> QED BY <1>8, <3>1, <3>2, <3>3 DEF ReadAt, Barrier
  <2>18. CampaignAt(b)' BY <2>11, <2>13, <2>17, ContinuingRound
  <2>19. ASSUME NEW k \in DOMAIN campaigns, k # b PROVE CampaignAt(k)'
    <3>1. Unmoved(k) BY <2>1, <2>19 DEF Unmoved
    <3> QED BY <1>1, <1>3, <1>8, <2>14, <3>1, CampaignKept DEF ReadsKept
  <2>20. \A k \in DOMAIN campaigns' : CampaignAt(k)' BY <2>1, <2>18, <2>19
  <2> QED BY <1>9, <1>10, <2>11, <2>14, <2>16, <2>20, InvBuild
<1> QED BY <1>2, <1>11, <1>12 DEF Read

-----------------------------------------------------------------------------
(* Selection *)

\* The longer of the prefixes of two bases.
LEMMA LongestOfTwo ==
    ASSUME NEW x \in BasisSet, NEW y \in BasisSet
    PROVE  /\ LongestPrefix({x, y}) \in {x.prefix, y.prefix}
           /\ Len(x.prefix) <= Len(LongestPrefix({x, y})) /\ Len(y.prefix) <= Len(LongestPrefix({x, y}))
<1> DEFINE P(p) == p \in {z.prefix : z \in {x, y}} /\ \A z \in {x, y} : Len(z.prefix) <= Len(p)
<1>1. Len(x.prefix) \in Nat /\ Len(y.prefix) \in Nat BY DEF BasisSet
<1>2. P(x.prefix) \/ P(y.prefix)
  <2>1. Len(x.prefix) <= Len(y.prefix) \/ Len(y.prefix) <= Len(x.prefix) BY <1>1
  <2>2. Len(x.prefix) <= Len(x.prefix) /\ Len(y.prefix) <= Len(y.prefix) BY <1>1
  <2> QED BY <2>1, <2>2
<1>3. \E p : P(p) BY <1>2
<1>4. P(CHOOSE p : P(p)) BY <1>3, Zenon
<1>5. LongestPrefix({x, y}) = CHOOSE p : P(p) BY DEF LongestPrefix
<1> HIDE DEF P
<1>6. P(LongestPrefix({x, y})) BY <1>4, <1>5
<1> QED BY <1>6 DEF P

\* A set of at most two numbers has a greatest one.
LEMMA MaxOfTwo ==
    ASSUME NEW S, NEW i, NEW j, S \subseteq {i, j}, S # {}, S \subseteq Nat
    PROVE  \E k \in S : \A l \in S : l <= k
<1>1. CASE i \in S /\ j \in S
  <2>1. i \in Nat /\ j \in Nat BY <1>1
  <2>2. i <= j \/ j <= i BY <2>1
  <2>3. i <= i /\ j <= j BY <2>1
  <2> QED BY <1>1, <2>2, <2>3
<1>2. CASE i \notin S
  <2>1. S = {j} /\ j \in Nat BY <1>2
  <2>2. j <= j BY <2>1
  <2> QED BY <2>1, <2>2
<1>3. CASE j \notin S
  <2>1. S = {i} /\ i \in Nat BY <1>3
  <2>2. i <= i BY <2>1
  <2> QED BY <2>1, <2>2
<1> QED BY <1>1, <1>2, <1>3

\* T holds the votes of two bases for slot f.
VotesAt(T, x, y, f) ==
    /\ \A z \in {x, y} : f \in DOMAIN z.accepted => <<f, z.accepted[f]>> \in T
    /\ \A t \in T : \E z \in {x, y} : f \in DOMAIN z.accepted /\ t = <<f, z.accepted[f]>>

\* The highest of them are of ballot k.
TopVotes(T, x, y, f, k) ==
    /\ \E v : v \in HighestValues(T)
    /\ \A v \in HighestValues(T) : v \in Values /\ \E u \in {x, y} : Marked(u.accepted, k, f, v)
    /\ \A z \in {x, y} : f \in DOMAIN z.accepted => z.accepted[f][1] <= k

\* The tails of two bases are their votes at the one slot after the prefix.
LEMMA TailsOfTwo ==
    ASSUME NEW x \in BasisSet, NEW y \in BasisSet, NEW p, NEW f, Len(p) \in Nat, f = Len(p) + 1,
           \A t \in Tails({x, y}, p) : t[1] = f
    PROVE  /\ \A z \in {x, y} : \A i \in DOMAIN z.accepted : i <= f
           /\ VotesAt(Tails({x, y}, p), x, y, f)
<1>1. ASSUME NEW z \in {x, y}, NEW i \in DOMAIN z.accepted, i > Len(p)
      PROVE  <<i, z.accepted[i]>> \in Tails({x, y}, p)
  BY <1>1 DEF Tails
<1>2. ASSUME NEW z \in {x, y}, NEW i \in DOMAIN z.accepted PROVE i <= f /\ i \in Nat
  <2>1. i \in Nat BY <1>2, VoteTableFacts DEF BasisSet
  <2>2. CASE i > Len(p)
    <3>1. <<i, z.accepted[i]>>[1] = f BY <1>1, <2>2
    <3> QED BY <3>1, <2>1
  <2> QED BY <2>1, <2>2
<1>3. ASSUME NEW t \in Tails({x, y}, p) PROVE \E z \in {x, y} : f \in DOMAIN z.accepted /\ t = <<f, z.accepted[f]>>
  <2>1. PICK z \in {x, y} : t \in {<<i, z.accepted[i]>> : i \in {j \in DOMAIN z.accepted : j > Len(p)}} BY DEF Tails
  <2>2. PICK i \in DOMAIN z.accepted : t = <<i, z.accepted[i]>> BY <2>1
  <2>3. t[1] = f BY <1>3
  <2>4. i = f BY <2>2, <2>3
  <2> QED BY <2>2, <2>4
<1>4. \A z \in {x, y} : f \in DOMAIN z.accepted => <<f, z.accepted[f]>> \in Tails({x, y}, p)
  <2>1. f > Len(p) OBVIOUS
  <2> QED BY <1>1, <2>1
<1> QED BY <1>2, <1>3, <1>4 DEF VotesAt

\* The votes of two bases for a slot have a highest ballot.
LEMMA HighestOfTwo ==
    ASSUME NEW x \in BasisSet, NEW y \in BasisSet, NEW f, NEW T, T # {}, VotesAt(T, x, y, f)
    PROVE  \E k : TopVotes(T, x, y, f, k)
<1> DEFINE B == {t[2][1] : t \in T}
<1>1. \A z \in {x, y} : f \in DOMAIN z.accepted =>
         z.accepted[f][1] \in Nat /\ z.accepted[f][2] \in Values /\ z.accepted[f] = <<z.accepted[f][1], z.accepted[f][2]>>
  <2>1. x.accepted \in VoteTables /\ y.accepted \in VoteTables BY DEF BasisSet
  <2> QED BY <2>1, VoteTableFacts
<1>2. ASSUME NEW t \in T PROVE \E z \in {x, y} : f \in DOMAIN z.accepted /\ t[2] = z.accepted[f]
  BY <1>2 DEF VotesAt
<1>3. B \subseteq {x.accepted[f][1], y.accepted[f][1]} /\ B \subseteq Nat /\ B # {} BY <1>1, <1>2
<1>4. \E k \in B : \A l \in B : l <= k
  <2> HIDE DEF B
  <2> QED BY <1>3, MaxOfTwo
<1>5. PICK k : k = Greatest(B) OBVIOUS
<1>6. k \in B /\ \A l \in B : l <= k
  <2> HIDE DEF B
  <2> QED BY <1>4, <1>5, GreatestIn
<1>7. HighestValues(T) = {t[2][2] : t \in {u \in T : u[2][1] = k}} BY <1>5 DEF HighestValues
<1>8. \E v : v \in HighestValues(T) BY <1>6, <1>7
<1>9. ASSUME NEW v \in HighestValues(T) PROVE v \in Values /\ \E u \in {x, y} : Marked(u.accepted, k, f, v)
  <2>1. PICK t \in T : t[2][1] = k /\ t[2][2] = v BY <1>7
  <2>2. PICK u \in {x, y} : f \in DOMAIN u.accepted /\ t[2] = u.accepted[f] BY <1>2
  <2>3. u.accepted[f] = <<k, v>> /\ v \in Values BY <1>1, <2>1, <2>2
  <2> QED BY <2>2, <2>3 DEF Marked
<1>10. ASSUME NEW z \in {x, y}, f \in DOMAIN z.accepted PROVE z.accepted[f][1] <= k
  <2>1. <<f, z.accepted[f]>> \in T BY <1>10 DEF VotesAt
  <2>2. <<f, z.accepted[f]>>[2][1] \in B BY <2>1
  <2> QED BY <2>2, <1>6
<1> QED BY <1>8, <1>9, <1>10 DEF TopVotes

\* What select takes from two bases, and what the result is.
SelectionOf(b, x, y, p, T, f, v) ==
    /\ p = LongestPrefix({x, y}) /\ f = Len(p) + 1 /\ T = Tails({x, y}, p) /\ v = SelectedValue(b, T)
    /\ \A t \in T : t[1] = f
Shows(x, y, p, f, v) ==
    \A z \in {x, y} :
        /\ Len(z.prefix) < f /\ Len(z.prefix) <= Len(p)
        /\ \A i \in DOMAIN z.accepted : i <= f
        /\ f \in DOMAIN z.accepted =>
              \E u \in {x, y} : \E k : Marked(u.accepted, k, f, v) /\ z.accepted[f][1] <= k
SelectionFits(x, y, p, T, f, v) ==
    /\ p \in Seq(Values) /\ p \in {x.prefix, y.prefix} /\ f \in Slots /\ v \in Values
    /\ T # {} => v \in HighestValues(T)
    /\ Shows(x, y, p, f, v)

\* The value that select takes from two bases covers the votes of both.
LEMMA SelectedFacts ==
    ASSUME NEW x \in BasisSet, NEW y \in BasisSet, NEW b \in Ballots, NEW p, NEW f, NEW v, NEW T,
           SelectionOf(b, x, y, p, T, f, v)
    PROVE  SelectionFits(x, y, p, T, f, v)
<1>0. /\ p = LongestPrefix({x, y}) /\ f = Len(p) + 1 /\ T = Tails({x, y}, p) /\ v = SelectedValue(b, T)
      /\ \A t \in T : t[1] = f
  BY DEF SelectionOf
<1>1. p \in {x.prefix, y.prefix} /\ Len(x.prefix) <= Len(p) /\ Len(y.prefix) <= Len(p) BY <1>0, LongestOfTwo
<1>2. x.prefix \in Seq(Values) /\ y.prefix \in Seq(Values) BY DEF BasisSet
<1>3. p \in Seq(Values) /\ Len(p) \in Nat BY <1>1, <1>2
<1>4. f \in Slots BY <1>0, <1>3 DEF Slots
<1>5. \A z \in {x, y} : Len(z.prefix) < f /\ Len(z.prefix) <= Len(p) BY <1>0, <1>1, <1>2, <1>3
<1>6. (\A z \in {x, y} : \A i \in DOMAIN z.accepted : i <= f) /\ VotesAt(T, x, y, f)
  BY <1>0, <1>3, TailsOfTwo
<1>7. CASE T = {}
  <2>1. v = Activation(b) BY <1>0, <1>7 DEF SelectedValue
  <2>2. v \in Values BY <2>1, ValueTypes
  <2> QED BY <1>1, <1>3, <1>4, <1>5, <1>6, <1>7, <2>2 DEF VotesAt, SelectionFits, Shows
<1>8. CASE T # {}
  <2>1. PICK k : TopVotes(T, x, y, f, k) BY <1>6, <1>8, HighestOfTwo
  <2>2. v = CHOOSE w \in HighestValues(T) : TRUE BY <1>0, <1>8 DEF SelectedValue
  <2>3. v \in HighestValues(T) BY <2>1, <2>2 DEF TopVotes
  <2>4. v \in Values /\ \E u \in {x, y} : Marked(u.accepted, k, f, v) BY <2>1, <2>3 DEF TopVotes
  <2> QED BY <1>1, <1>3, <1>4, <1>5, <1>6, <2>1, <2>3, <2>4 DEF TopVotes, SelectionFits, Shows
<1> QED BY <1>7, <1>8

\* The same for a quorum given as a pair.
LEMMA AcceptsPair ==
    ASSUME NEW b, NEW n, NEW p, NEW v, n # campaigns[b].node
    PROVE  Accepts(b, {campaigns[b].node, n}, p, v) = <<AcceptMsg(campaigns[b].node, b, p, v), AcceptMsg(n, b, p, v)>>
BY AcceptsTwo

\* A pair has two members.
LEMMA CardinalityTwo ==
    ASSUME NEW i, NEW j, i # j
    PROVE  Cardinality({i, j}) = 2
<1>1. {i, j} = {i} \cup {j} OBVIOUS
<1>2. IsFiniteSet({i}) /\ Cardinality({i}) = 1 BY FS_Singleton
<1>3. j \notin {i} OBVIOUS
<1> QED BY <1>1, <1>2, <1>3, FS_AddElement

\* A step that selects v for slot f of ballot b, after prefix p, from the bases x and y.
Selecting(b, f, v, p, x, y) ==
    /\ b \in DOMAIN campaigns /\ CoreSame /\ UNCHANGED <<chosen, answers, reads>>
    /\ DOMAIN campaigns' = DOMAIN campaigns /\ \A k \in DOMAIN campaigns : k # b => campaigns'[k] = campaigns[k]
    /\ campaigns'[b].node = campaigns[b].node /\ campaigns'[b].basis = campaigns[b].basis
    /\ campaigns'[b].selected = TRUE /\ campaigns'[b].quorum = {x.node, y.node}
    /\ campaigns'[b].round.slot = f /\ campaigns'[b].round.value = v /\ campaigns'[b].round.read = NoRead
    /\ campaigns'[b].round.accepts = {} /\ campaigns'[b].round.proofs = {} /\ campaigns'[b].round.proof = FALSE
    /\ DOMAIN selections' = DOMAIN selections \cup {b} /\ selections'[b] = <<f, v>>
    /\ \A k \in DOMAIN selections : k # b => selections'[k] = selections[k]
    /\ f = Len(p) + 1 /\ f \in Slots /\ p \in {x.prefix, y.prefix} /\ v \in Values
    /\ ~campaigns[b].selected /\ x = campaigns[b].basis /\ y \in Bases /\ y.ballot = b /\ y.node # campaigns[b].node
    /\ voters[campaigns[b].node].promise = b
    /\ Shows(x, y, p, f, v)
    /\ \A m \in DOMAIN messages' :
          \/ m \in DOMAIN messages
          \/ m.kind = "accept" /\ m.ballot = b /\ m.prefix = p /\ m.value = v /\ m.target \in {x.node, y.node}

\* The invariant under a selection: the one step that starts a ballot.
LEMMA SelectingStep ==
    ASSUME ClusterInv, ClusterTypes', NEW b, NEW f, NEW v, NEW p, NEW x, NEW y, Selecting(b, f, v, p, x, y)
    PROVE  /\ SafetyInv'
           /\ \A k \in DOMAIN campaigns' : CampaignAt(k)'
           /\ \A m \in DOMAIN messages' : MessageAt(m)'
<1>1. /\ ClusterTypes /\ Recorded /\ SafetyInv /\ Sized
      /\ \A k \in DOMAIN campaigns : CampaignAt(k)
      /\ \A m \in DOMAIN messages : MessageAt(m)
  BY InvFacts
<1>2. b \in DOMAIN campaigns /\ ~Selected(b) /\ campaigns[b].node \in Nodes /\ CampaignAt(b) /\ b \in Ballots
  BY <1>1 DEF Selecting, Selected, ClusterTypes, CampaignSet
<1>3. /\ x \in Bases /\ y \in Bases /\ x.ballot = b /\ y.ballot = b /\ x.node = campaigns[b].node
      /\ y.node # campaigns[b].node /\ y.node \in Nodes
  <2>1. x \in Bases BY <1>2 DEF Selecting, Bases
  <2>2. y \in Bases /\ y.node \in Nodes BY <1>1 DEF Selecting, Sized
  <2> QED BY <1>2, <2>1, <2>2 DEF Selecting, CampaignAt
<1>4. Recorded' BY <1>1 DEF Recorded, Selecting
<1>5. Sized' BY <1>4, SizedNext
<1>6. PromisesRise /\ DisksGrow /\ ProposerFrame BY <1>1, VotersStill DEF Selecting
<1>7. NodesStay /\ BasesKept BY DEF Selecting, NodesStay, BasesKept
<1>8. NoMoreVotes /\ NoMoreProofs BY DEF Selecting, NoMoreVotes, NoMoreProofs
<1>9. LogGrows BY <1>1 DEF Selecting, LogGrows, Sized
<1>10. NoNew({"promise"}) /\ NoNew({"accepted"}) /\ NoNew({"proven"}) BY DEF Selecting, NoNew
<1>11. Bases' \subseteq Bases BY <1>7, <1>10, BasesSame
<1>12. VotesByPromise /\ ProofsByPromise BY <1>8, <1>10, VotesStill, ProofsStill DEF Selecting
<1>13. CampaignsStay /\ RoundsMove
  <2>1. ASSUME NEW k, Selected(k)
        PROVE  /\ Selected(k)' /\ Proposer(k)' = Proposer(k) /\ PairOf(k)' = PairOf(k)
               /\ First(k)' = First(k) /\ Top(k)' >= Top(k) /\ Advances(k)
    <3>1. k # b /\ k \in DOMAIN campaigns BY <1>2, <2>1 DEF Selected
    <3>2. Unmoved(k) BY <3>1 DEF Unmoved, Selecting
    <3>3. selections'[k] = selections[k] BY <1>1, <2>1, <3>1 DEF Selecting, Selected, Recorded
    <3> QED BY <1>1, <1>5, <1>6, <2>1, <3>2, <3>3, UnmovedStays
  <2> QED BY <2>1 DEF CampaignsStay, RoundsMove
<1>14. /\ Selected(b)' /\ First(b)' = f /\ Top(b)' = f /\ PairOf(b)' = {x.node, y.node} /\ Proposer(b)' = x.node
  <2>1. f # 0 BY DEF Selecting, Slots
  <2> QED BY <1>2, <1>3, <2>1 DEF Selecting, Selected, First, Top, PairOf, Proposer
<1>15. Picks(b, f, v, x, y) BY <1>2, <1>3, <1>14 DEF Picks, Selecting, Shows
<1>16. SelectedOnly(b) BY DEF SelectedOnly, Selected, Selecting
<1>17. OnlyNew(b, f, v)
  <2> SUFFICES ASSUME NEW k, NEW i, NEW w, Proposed(k, i, w)', ~Proposed(k, i, w) PROVE k = b /\ i = f /\ w = v
    BY DEF OnlyNew
  <2>1. CASE (\E n \in Nodes : Marked(voters[n].accepted, k, i, w))' BY <2>1 DEF Proposed, Marked, Selecting, CoreSame
  <2>2. CASE (\E m \in DOMAIN messages : Says(m, k, i, w))'
    <3>1. PICK m \in DOMAIN messages' : Says(m, k, i, w) BY <2>2 DEF Says
    <3>2. m \notin DOMAIN messages BY <3>1 DEF Proposed
    <3> QED BY <3>1, <3>2 DEF Says, Selecting, ReceiptKinds
  <2>3. CASE (\E z \in Bases : Marked(z.accepted, k, i, w))' BY <2>3, <1>11 DEF Proposed
  <2>4. CASE InRound(k, i, w)'
    <3>1. k # b => InRound(k, i, w) BY <2>4 DEF InRound, Selecting
    <3>2. k = b BY <3>1 DEF Proposed
    <3> QED BY <2>4, <3>2 DEF InRound, Selecting
  <2>5. CASE (k \in DOMAIN selections /\ selections[k] = <<i, w>>)'
    <3>1. k # b => k \in DOMAIN selections /\ selections[k] = <<i, w>> BY <2>5 DEF Selecting
    <3>2. k = b BY <3>1 DEF Proposed
    <3>3. <<i, w>> = <<f, v>> BY <2>5, <3>2 DEF Selecting
    <3> QED BY <3>2, <3>3
  <2> QED BY <2>1, <2>2, <2>3, <2>4, <2>5 DEF Proposed
<1>18. Frame BY <1>6, <1>9, <1>11, <1>12, <1>13, <1>15, <1>16, <1>17 DEF Frame, BasesOld, Selects
<1>19. NewlySettled BY <1>1, <1>5, <1>9, SettledStill DEF Selecting
<1>20. NewlyChosen /\ NewlyAnswered /\ ProofSlots
  BY ProofSlotsFrom DEF NewlyChosen, NewlyAnswered, Selecting
<1>21. SafetyInv' BY <1>1, <1>5, <1>18, <1>19, <1>20, CoreStep
<1>22. Settled(p) /\ Len(p) \in Nat
  <2>1. BasisAt(x) /\ BasisAt(y) BY <1>1, <1>3 DEF SafetyInv
  <2> QED BY <1>1, <1>3, <2>1 DEF BasisAt, Selecting, Sized
<1>23. ASSUME NEW m \in DOMAIN messages' PROVE MessageAt(m)'
  <2>1. CASE m \in DOMAIN messages BY <1>1, <1>5, <1>7, <1>13, <1>18, <2>1, MessageKept
  <2>2. CASE m.kind = "accept" /\ m.ballot = b /\ m.prefix = p /\ m.target \in {x.node, y.node}
    <3>1. Settled(p)' BY <1>1, <1>5, <1>9, <1>22, SettledStep
    <3>2. b \in DOMAIN campaigns' /\ m.target \in campaigns'[b].quorum BY <2>2 DEF Selecting
    <3> QED BY <1>14, <2>2, <3>1, <3>2 DEF MessageAt
  <2> QED BY <2>1, <2>2 DEF Selecting
<1>24. CampaignAt(b)'
  <2>1. voters'[campaigns[b].node].prefix = x.prefix
    BY <1>2 DEF CampaignAt, Selecting, CoreSame
  <2>2. Len(x.prefix) <= f /\ f <= Len(chosen') + 1 /\ f # 0
    <3>1. Len(x.prefix) < f /\ Len(x.prefix) \in Nat BY <1>1, <1>3 DEF Selecting, Sized, Shows
    <3>2. Len(p) <= Len(chosen') BY <1>22 DEF Selecting, Settled
    <3> QED BY <1>1, <1>5, <1>22, <3>1, <3>2 DEF Selecting, Sized
  <2>3. /\ campaigns'[b].round.slot = f /\ campaigns'[b].round.value = v /\ campaigns'[b].round.read = NoRead /\ v \in Values
        /\ campaigns'[b].round.accepts = {} /\ campaigns'[b].round.proofs = {} /\ campaigns'[b].round.proof = FALSE
        /\ campaigns'[b].node = campaigns[b].node /\ campaigns'[b].basis = x /\ campaigns'[b].selected = TRUE
        /\ b \in DOMAIN selections'
    BY DEF Selecting
  <2>4. RoundAt(b)' BY <1>14, <2>1, <2>2, <2>3 DEF RoundAt
  <2> QED BY <1>3, <2>2, <2>3, <2>4 DEF CampaignAt
<1>25. ASSUME NEW k \in DOMAIN campaigns, k # b PROVE CampaignAt(k)'
  <2>1. Unmoved(k) BY <1>25 DEF Unmoved, Selecting
  <2>2. k \in DOMAIN selections' <=> k \in DOMAIN selections BY <1>25 DEF Selecting
  <2>3. \A r \in DOMAIN reads : r \in DOMAIN reads' /\ reads'[r] = reads[r] BY DEF Selecting
  <2> QED BY <1>1, <1>5, <1>6, <1>18, <2>1, <2>2, <2>3, CampaignKept
<1>26. \A k \in DOMAIN campaigns' : CampaignAt(k)' BY <1>24, <1>25 DEF Selecting
<1> QED BY <1>21, <1>23, <1>26

\* Delivery of a PROMISE, which completes a quorum or is dropped.
LEMMA DeliverPromiseStep ==
    ASSUME ClusterInv, NEW m \in DOMAIN messages, DeliverPromise(m)
    PROVE  ClusterInv'
<1> DEFINE b == m.ballot
           c == campaigns[b]
           y == m.basis
<1>1. ClusterTypes /\ Recorded /\ SafetyInv /\ Sized /\ ReadInv /\ verdict = "PASS" /\ MessageAt(m)
      /\ \A k \in DOMAIN campaigns : CampaignAt(k)
  BY InvFacts
<1>2. m \in MessageSet /\ m.kind = "promise" BY <1>1 DEF ClusterTypes, DeliverPromise
<1>3. b \in Ballots /\ b \in DOMAIN campaigns /\ y.ballot = b /\ y.node # c.node /\ y \in BasisSet /\ y \in Bases
  BY <1>1, <1>2, MessageFields DEF MessageAt, Bases
<1>4. PICK x : x = c.basis OBVIOUS
<1>5. c \in CampaignSet /\ c.node \in Nodes /\ x \in BasisSet /\ x.node = c.node /\ x.ballot = b
  BY <1>1, <1>3, <1>4 DEF ClusterTypes, CampaignSet, CampaignAt
<1>6. UNCHANGED <<voters, pins, reads, chosen, answers, anomalies>> BY DEF DeliverPromise
<1>7. ReadInv' BY <1>1, <1>6 DEF ReadInv, Topped
<1>8. CASE messages' = Remove(messages, m) /\ UNCHANGED <<campaigns, selections, verdict>>
  <2>1. DOMAIN messages' \subseteq DOMAIN messages BY <1>8, RemoveDomain
  <2>2. ClusterTypes' BY <1>1, <1>6, <1>8, <2>1 DEF ClusterTypes
  <2>3. Still BY <1>6, <1>8, <2>1 DEF Still, CoreSame, Unmoved, ReadsKept
  <2> QED BY <1>1, <1>7, <1>8, <2>2, <2>3, StillStep, InvBuild
<1> DEFINE bases == {c.basis, m.basis}
           longest == LongestPrefix(bases)
           tails  == Tails(bases, longest)
           value  == SelectedValue(b, tails)
           quorum == {c.node, m.basis.node}
<1>9. CASE /\ Selectable(b, bases)
           /\ campaigns' = [campaigns EXCEPT ![b] =
                    Begun([c EXCEPT !.selected = TRUE, !.quorum = quorum], longest, value, TRUE, NoRead)]
           /\ messages' = Queue(Remove(messages, m), Accepts(b, quorum, longest, value))
           /\ selections' = Extend(selections, b, <<Len(longest) + 1, value>>)
           /\ Judge(   Rule("I05", Cardinality(quorum) = 2 /\ c.basis.ballot = b /\ m.basis.ballot = b)
                        \o Rule("I02", \A z \in bases : IsPrefixOf(z.prefix, longest))
                        \o Rule("I05", tails # {} => value \in HighestValues(tails))
                        \o Rule("I05", b \notin DOMAIN selections))
  <2>1. PICK p, T, v : p = longest /\ T = tails /\ v = value OBVIOUS
  <2> DEFINE f == Len(p) + 1
  <2>2. p = LongestPrefix({x, y}) /\ T = Tails({x, y}, p) /\ v = SelectedValue(b, T) BY <1>4, <2>1
  <2>3. ~c.selected /\ voters[c.node].promise = b /\ (\A z \in {x, y} : IsPrefixOf(z.prefix, p)) /\ \A t \in T : t[1] = f
    BY <1>4, <1>9, <2>1 DEF Selectable
  <2>4. SelectionFits(x, y, p, T, f, v)
    <3>1. SelectionOf(b, x, y, p, T, f, v) BY <2>2, <2>3 DEF SelectionOf
    <3> HIDE DEF y, b, f
    <3> QED BY <1>3, <1>5, <3>1, SelectedFacts
  <2>b. p \in Seq(Values) /\ p \in {x.prefix, y.prefix} /\ f \in Slots /\ v \in Values
        /\ (T # {} => v \in HighestValues(T)) /\ Shows(x, y, p, f, v)
    BY <2>4 DEF SelectionFits
  <2>5. y.node \in Nodes BY <1>3 DEF BasisSet
  <2>6. PICK d : d = [c EXCEPT !.selected = TRUE, !.quorum = {c.node, y.node}] OBVIOUS
  <2>7. d \in CampaignSet /\ d.node = c.node /\ d.basis = c.basis /\ d.selected = TRUE /\ d.quorum = {c.node, y.node}
    BY <1>5, <2>5, <2>6 DEF CampaignSet
  <2>8. PICK a \in BOOLEAN : a = TRUE OBVIOUS
  <2>9. campaigns' = [campaigns EXCEPT ![b] = Begun(d, p, v, a, NoRead)] BY <1>9, <2>1, <2>6, <2>8
  <2>10. IsBegun(Begun(d, p, v, a, NoRead), d, p, v, NoRead)
    <3>1. NoRead \in ReadIds \cup {NoRead} OBVIOUS
    <3> QED BY <2>b, <2>7, <3>1, BegunFields, Zenon
  <2>11. Accepts(b, {c.node, y.node}, p, v) = <<AcceptMsg(c.node, b, p, v), AcceptMsg(y.node, b, p, v)>>
    BY <1>3, AcceptsPair
  <2>12. DOMAIN messages' \subseteq DOMAIN messages \cup {AcceptMsg(c.node, b, p, v), AcceptMsg(y.node, b, p, v)}
    <3>1. messages' = Queue(Remove(messages, m), <<AcceptMsg(c.node, b, p, v), AcceptMsg(y.node, b, p, v)>>)
      BY <1>9, <2>1, <2>11
    <3> QED BY <3>1, QueueTwo, RemoveDomain
  <2>13. selections' = Extend(selections, b, <<f, v>>) BY <1>9, <2>1
  <2>14. /\ DOMAIN selections' = DOMAIN selections \cup {b} /\ selections'[b] = <<f, v>>
         /\ \A k \in DOMAIN selections : k # b => selections'[k] = selections[k]
         /\ selections' \in [DOMAIN selections' -> Slots \X Values]
    <3>1. selections \in [DOMAIN selections -> Slots \X Values] /\ <<f, v>> \in Slots \X Values
      BY <1>1, <2>b DEF ClusterTypes
    <3> HIDE DEF f
    <3> QED BY <2>13, <3>1 DEF Extend
  <2>15. /\ DOMAIN campaigns' = DOMAIN campaigns /\ campaigns'[b] = Begun(d, p, v, a, NoRead)
         /\ \A k \in DOMAIN campaigns : k # b => campaigns'[k] = campaigns[k]
    BY <1>3, <2>9
  <2>16. ClusterTypes'
    <3>1. DOMAIN messages' \subseteq MessageSet BY <1>1, <1>3, <1>5, <2>b, <2>5, <2>12, SentTypes DEF ClusterTypes
    <3>2. campaigns' \in [DOMAIN campaigns' -> CampaignSet]
      BY <1>1, <2>9, <2>10 DEF ClusterTypes, IsBegun
    <3>3. DOMAIN selections' \subseteq Ballots BY <1>1, <1>3, <2>14 DEF ClusterTypes
    <3> QED BY <1>1, <1>6, <2>14, <2>15, <3>1, <3>2, <3>3 DEF ClusterTypes
  <2>17. Selecting(b, f, v, p, x, y)
    <3>1. /\ campaigns'[b].node = campaigns[b].node /\ campaigns'[b].basis = campaigns[b].basis
          /\ campaigns'[b].selected = TRUE /\ campaigns'[b].quorum = {x.node, y.node}
          /\ campaigns'[b].round.slot = f /\ campaigns'[b].round.value = v /\ campaigns'[b].round.read = NoRead
          /\ campaigns'[b].round.accepts = {} /\ campaigns'[b].round.proofs = {} /\ campaigns'[b].round.proof = FALSE
      BY <1>5, <2>7, <2>10, <2>15 DEF IsBegun
    <3>2. \A k \in DOMAIN messages' :
             \/ k \in DOMAIN messages
             \/ k.kind = "accept" /\ k.ballot = b /\ k.prefix = p /\ k.value = v /\ k.target \in {x.node, y.node}
      BY <1>5, <2>12 DEF AcceptMsg
    <3>3. CoreSame BY <1>6 DEF CoreSame
    <3> HIDE DEF y, b
    <3> QED BY <1>3, <1>4, <1>6, <2>3, <2>b, <2>14, <2>15, <3>1, <3>2, <3>3 DEF Selecting
  <2>18. verdict' = "PASS"
    <3>1. Cardinality(quorum) = 2 BY <1>3, CardinalityTwo
    <3>2. b \notin DOMAIN selections BY <1>1, <1>3, <2>3 DEF CampaignAt
    <3>3. c.basis.ballot = b /\ m.basis.ballot = b BY <1>3, <1>4, <1>5
    <3>4. \A z \in bases : IsPrefixOf(z.prefix, longest) BY <1>9 DEF Selectable
    <3>5. tails # {} => value \in HighestValues(tails) BY <2>1, <2>b
    <3> HIDE DEF bases, longest, tails, value, quorum, c, b
    <3> QED BY <1>1, <1>9, <3>1, <3>2, <3>3, <3>4, <3>5 DEF Judge, Rule
  <2>19. /\ SafetyInv'
         /\ \A k \in DOMAIN campaigns' : CampaignAt(k)'
         /\ \A k \in DOMAIN messages' : MessageAt(k)'
    <3> HIDE DEF f, y, b
    <3> QED BY <2>16, <2>17, SelectingStep
  <2> QED BY <1>7, <2>16, <2>18, <2>19, InvBuild
<1> QED BY <1>8, <1>9 DEF DeliverPromise

-----------------------------------------------------------------------------
(* Votes and proofs *)

\* Voter n, whose promise is b, votes for v in slot s or extends its prefix to p.
Writing(n, b, s, v, p) ==
    /\ Selected(b) /\ n \in campaigns[b].quorum /\ voters[n].promise = b /\ Proposed(b, s, v)
    /\ UNCHANGED <<campaigns, chosen, selections, answers, reads>>
    /\ \A k \in Nodes : /\ voters'[k].promise = voters[k].promise
                        /\ k # n => voters'[k].prefix = voters[k].prefix /\ voters'[k].accepted = voters[k].accepted
    /\ \/ voters'[n].prefix = voters[n].prefix
       \/ /\ voters'[n].prefix = p /\ Len(voters[n].prefix) <= Len(p) /\ Len(p) <= Top(b) /\ Settled(p)
          /\ Len(p) \in Nat
    /\ \/ voters'[n].accepted = voters[n].accepted
       \/ /\ voters'[n].accepted = Extend(voters[n].accepted, s, <<b, v>>)
          /\ s \in DOMAIN voters[n].accepted => voters[n].accepted[s][1] <= b
    /\ \A m \in DOMAIN messages' :
          \/ m \in DOMAIN messages
          \/ /\ m.ballot = b /\ m.slot = s /\ m.value = v /\ m.target = campaigns[b].node /\ m.node = n
             /\ \/ m.kind = "accepted" /\ Marked(voters'[n].accepted, b, s, v)
                \/ /\ m.kind = "proven" /\ s <= Len(voters'[n].prefix) /\ s <= Len(chosen) /\ chosen[s] = v
                   /\ campaigns[b].round.slot = s => campaigns[b].round.proof

\* A voter that votes, or settles what is proven, takes a step of the frame.
LEMMA WritingFrame ==
    ASSUME ClusterInv, ClusterTypes', NEW n \in Nodes, NEW b, NEW s, NEW v, NEW p, Writing(n, b, s, v, p)
    PROVE  /\ Sized' /\ Frame /\ NodesStay /\ RoundsMove /\ ProposerFrame /\ NewlySettled
<1>1. /\ ClusterTypes /\ Recorded /\ SafetyInv /\ Sized
      /\ \A k \in DOMAIN campaigns : CampaignAt(k)
  BY InvFacts
<1>2. Recorded' BY <1>1 DEF Recorded, Writing
<1>3. Sized' BY <1>2, SizedNext
<1>4. Selected(b) /\ b \in Int /\ b \in Nat /\ voters[n].promise = b /\ Proposed(b, s, v)
      /\ \A k \in Nodes : /\ voters'[k].promise = voters[k].promise
                          /\ k # n => voters'[k].prefix = voters[k].prefix /\ voters'[k].accepted = voters[k].accepted
  BY <1>1 DEF Writing, Sized
<1>5. PromisesRise BY <1>1, <1>4 DEF PromisesRise, Sized
<1>6. ASSUME NEW i \in DOMAIN voters'[n].accepted
      PROVE  \/ i \in DOMAIN voters[n].accepted /\ voters'[n].accepted[i] = voters[n].accepted[i]
             \/ i = s /\ voters'[n].accepted[i] = <<b, v>>
  BY <1>6 DEF Writing, Extend
<1>7. ASSUME NEW i \in DOMAIN voters[n].accepted
      PROVE  i \in DOMAIN voters'[n].accepted /\ voters'[n].accepted[i][1] >= voters[n].accepted[i][1]
  <2>1. voters[n].accepted[i][1] \in Nat BY <1>1 DEF Sized
  <2>2. CASE voters'[n].accepted = voters[n].accepted BY <2>1, <2>2
  <2>3. CASE /\ voters'[n].accepted = Extend(voters[n].accepted, s, <<b, v>>)
             /\ s \in DOMAIN voters[n].accepted => voters[n].accepted[s][1] <= b
    <3>1. i \in DOMAIN voters'[n].accepted BY <2>3 DEF Extend
    <3>2. CASE i = s BY <1>4, <2>1, <2>3, <3>1, <3>2 DEF Extend
    <3>3. CASE i # s
      <4>1. voters'[n].accepted[i] = voters[n].accepted[i] BY <2>3, <3>3 DEF Extend
      <4> QED BY <2>1, <3>1, <4>1
    <3> QED BY <3>2, <3>3
  <2> QED BY <2>2, <2>3 DEF Writing
<1>8. DisksGrow
  <2>1. ASSUME NEW k \in Nodes, k # n
        PROVE  /\ Len(voters'[k].prefix) >= Len(voters[k].prefix)
               /\ \A i \in DOMAIN voters[k].accepted :
                    i \in DOMAIN voters'[k].accepted /\ voters'[k].accepted[i][1] >= voters[k].accepted[i][1]
               /\ \A i \in DOMAIN voters'[k].accepted :
                    i \in DOMAIN voters[k].accepted /\ voters'[k].accepted[i] = voters[k].accepted[i]
    BY <1>1, <1>4, <2>1 DEF Sized
  <2>2. Len(voters'[n].prefix) >= Len(voters[n].prefix) BY <1>1 DEF Writing, Sized
  <2>3. \A i \in DOMAIN voters'[n].accepted :
              \/ i \in DOMAIN voters[n].accepted /\ voters'[n].accepted[i] = voters[n].accepted[i]
              \/ voters'[n].accepted[i][1] = voters'[n].promise
    BY <1>4, <1>6
  <2> QED BY <2>1, <2>2, <2>3, <1>7 DEF DisksGrow
<1>9. ProposerFrame
  <2> SUFFICES ASSUME NEW k \in DOMAIN campaigns, voters'[campaigns[k].node].promise = k
               PROVE  /\ voters[campaigns[k].node].promise = k
                      /\ \/ voters'[campaigns[k].node].prefix = voters[campaigns[k].node].prefix
                         \/ Selected(k) /\ Len(voters'[campaigns[k].node].prefix) <= Top(k)
    BY DEF ProposerFrame
  <2>1. campaigns[k].node \in Nodes BY <1>1 DEF ClusterTypes, CampaignSet
  <2>2. voters[campaigns[k].node].promise = k BY <1>4, <2>1
  <2>3. CASE campaigns[k].node # n BY <1>4, <2>1, <2>2, <2>3
  <2>4. CASE campaigns[k].node = n
    <3>1. k = b BY <1>4, <2>2, <2>4
    <3> QED BY <2>2, <2>4, <3>1 DEF Writing
  <2> QED BY <2>3, <2>4
<1>10. NodesStay /\ LogGrows /\ BasesKept /\ NoMoreProofs
  BY <1>1 DEF Writing, NodesStay, LogGrows, BasesKept, NoMoreProofs, Sized
<1>11. NoNew({"promise"}) BY DEF NoNew, Writing
<1>12. Bases' \subseteq Bases BY <1>10, <1>11, BasesSame
<1>13. ASSUME NEW i, NEW w, NEW k, Marked(voters'[n].accepted, k, i, w), ~Marked(voters[n].accepted, k, i, w)
       PROVE  k = b /\ i = s /\ w = v
  BY <1>6, <1>13 DEF Marked
<1>14. VotesByPromise
  <2> SUFFICES ASSUME NEW q \in Nodes, NEW k, NEW i, NEW w, Voted(q, k, i, w)', ~Voted(q, k, i, w)
               PROVE  voters[q].promise = k /\ i \in DOMAIN voters'[q].accepted /\ voters'[q].accepted[i][1] >= k
    BY DEF VotesByPromise
  <2>1. CASE Marked(voters'[q].accepted, k, i, w)
    <3>1. q = n BY <2>1, <1>4 DEF Voted
    <3>2. k = b BY <2>1, <3>1, <1>13 DEF Voted
    <3> QED BY <2>1, <3>1, <3>2, <1>4 DEF Marked
  <2>2. CASE (\E m \in DOMAIN messages : m.kind = "accepted" /\ m.node = q /\ Says(m, k, i, w))'
    <3>1. PICK m \in DOMAIN messages' : m.kind = "accepted" /\ m.node = q /\ Says(m, k, i, w) BY <2>2 DEF Says
    <3>2. m \notin DOMAIN messages BY <3>1 DEF Voted
    <3>3. m.ballot = b /\ m.slot = s /\ m.node = n /\ Marked(voters'[n].accepted, b, s, v) BY <3>1, <3>2 DEF Writing
    <3>4. k = b /\ i = s /\ q = n BY <3>1, <3>3 DEF Says
    <3> QED BY <3>3, <3>4, <1>4 DEF Marked
  <2>3. CASE (InRound(k, i, w) /\ q \in campaigns[k].round.accepts)'
    BY <2>3 DEF InRound, Writing, Voted
  <2> QED BY <2>1, <2>2, <2>3 DEF Voted, Marked
<1>15. ProofsByPromise
  <2> SUFFICES ASSUME NEW q \in Nodes, NEW k, NEW i, ProvenBy(q, k, i)', ~ProvenBy(q, k, i)
               PROVE  voters[q].promise = k /\ voters'[q].promise = k /\ i <= Len(voters'[q].prefix)
    BY DEF ProofsByPromise
  <2>1. CASE (\E m \in DOMAIN messages : m.kind = "proven" /\ m.node = q /\ m.ballot = k /\ m.slot = i)'
    <3>1. PICK m \in DOMAIN messages' : m.kind = "proven" /\ m.node = q /\ m.ballot = k /\ m.slot = i BY <2>1
    <3>2. m \notin DOMAIN messages BY <3>1 DEF ProvenBy
    <3>3. m.ballot = b /\ m.slot = s /\ m.node = n /\ s <= Len(voters'[n].prefix) BY <3>1, <3>2 DEF Writing
    <3> QED BY <3>1, <3>3, <1>4
  <2>2. CASE (k \in DOMAIN campaigns /\ i # 0 /\ campaigns[k].round.slot = i /\ q \in campaigns[k].round.proofs)'
    BY <2>2 DEF Writing, ProvenBy
  <2> QED BY <2>1, <2>2 DEF ProvenBy
<1>16. CampaignsStay /\ RoundsMove
  <2>1. \A k : Selected(k) => Unmoved(k) BY DEF Writing, Unmoved, Selected
  <2> QED BY <1>1, <1>3, <1>8, <2>1, UnmovedStays DEF CampaignsStay, RoundsMove, Writing
<1>17. Quiet
  <2>1. NoneSelected BY DEF NoneSelected, Selected, Writing
  <2>2. ASSUME NEW k, NEW i, NEW w, Proposed(k, i, w)' PROVE Proposed(k, i, w)
    <3>1. CASE \E q \in Nodes : Marked(voters'[q].accepted, k, i, w) /\ ~Marked(voters[q].accepted, k, i, w)
      <4>1. PICK q \in Nodes : Marked(voters'[q].accepted, k, i, w) /\ ~Marked(voters[q].accepted, k, i, w) BY <3>1
      <4>2. q = n BY <4>1, <1>4
      <4> QED BY <4>1, <4>2, <1>4, <1>13
    <3>2. CASE \E m \in DOMAIN messages' : m \notin DOMAIN messages /\ Says(m, k, i, w)
      BY <3>2, <1>4 DEF Writing, Says
    <3>3. CASE InRound(k, i, w)' BY <3>3 DEF InRound, Writing, Proposed
    <3> QED BY <2>2, <1>12, <3>1, <3>2, <3>3, ProposedCases DEF Writing
  <2> QED BY <2>1, <2>2 DEF Quiet
<1>18. Frame BY <1>5, <1>8, <1>10, <1>12, <1>14, <1>15, <1>16, <1>17 DEF Frame, BasesOld
<1>19. NewlySettled
  <2> SUFFICES ASSUME NEW q \in Nodes PROVE Settled(voters[q].prefix)' BY DEF NewlySettled
  <2>1. PICK w : w = voters'[q].prefix OBVIOUS
  <2>2. Settled(w) /\ Len(w) \in Nat BY <1>1, <1>4, <2>1 DEF SafetyInv, Sized, Writing
  <2>3. Settled(w)' BY <1>1, <1>3, <1>10, <2>2, SettledStep
  <2> QED BY <2>1, <2>3
<1> QED BY <1>3, <1>18, <1>10, <1>16, <1>9, <1>19

\* The invariant under such a step.
LEMMA WritingStep ==
    ASSUME ClusterInv, ClusterTypes', NEW n \in Nodes, NEW b, NEW s, NEW v, NEW p, Writing(n, b, s, v, p)
    PROVE  /\ SafetyInv'
           /\ \A k \in DOMAIN campaigns' : CampaignAt(k)'
           /\ \A m \in DOMAIN messages' : MessageAt(m)'
<1>1. /\ ClusterTypes /\ SafetyInv /\ Sized
      /\ \A k \in DOMAIN campaigns : CampaignAt(k)
      /\ \A m \in DOMAIN messages : MessageAt(m)
  BY InvFacts
<1>2. Sized' /\ Frame /\ NodesStay /\ RoundsMove /\ ProposerFrame /\ NewlySettled BY WritingFrame
<1>3. NewlyChosen /\ NewlyAnswered /\ ProofSlots
  BY ProofSlotsFrom DEF NewlyChosen, NewlyAnswered, Writing
<1>4. SafetyInv' BY <1>1, <1>2, <1>3, CoreStep
<1>5. \A k \in DOMAIN campaigns : CampaignAt(k)'
  <2>1. \A k \in DOMAIN campaigns : Unmoved(k) BY DEF Writing, Unmoved
  <2>2. \A r \in DOMAIN reads : r \in DOMAIN reads' /\ reads'[r] = reads[r] BY DEF Writing
  <2> QED BY <1>1, <1>2, <2>1, <2>2, CampaignKept DEF Writing
<1>6. ASSUME NEW m \in DOMAIN messages' PROVE MessageAt(m)'
  <2>1. CASE m \in DOMAIN messages BY <1>1, <1>2, <2>1, MessageKept
  <2>2. CASE m \notin DOMAIN messages
    <3>1. Selected(b)' /\ b \in DOMAIN campaigns' /\ n \in campaigns'[b].quorum /\ campaigns' = campaigns /\ chosen' = chosen
      BY DEF Writing, Selected
    <3>2. /\ m.ballot = b /\ m.slot = s /\ m.value = v /\ m.target = campaigns[b].node /\ m.node = n
          /\ \/ m.kind = "accepted"
             \/ /\ m.kind = "proven" /\ s <= Len(voters'[n].prefix) /\ s <= Len(chosen) /\ chosen[s] = v
                /\ campaigns[b].round.slot = s => campaigns[b].round.proof
      BY <2>2 DEF Writing
    <3> QED BY <3>1, <3>2 DEF MessageAt
  <2> QED BY <2>1, <2>2
<1>7. campaigns' = campaigns BY DEF Writing
<1> QED BY <1>4, <1>5, <1>6, <1>7

\* Delivery of an ACCEPT.
LEMMA DeliverAcceptStep ==
    ASSUME ClusterInv, NEW m \in DOMAIN messages, DeliverAccept(m)
    PROVE  ClusterInv'
<1> DEFINE n == m.target
           b == m.ballot
           slot == Len(m.prefix) + 1
           old  == IF slot \in DOMAIN voters[n].accepted THEN voters[n].accepted[slot] ELSE <<0, m.value>>
           fits == ~Ineligible(m) /\ voters[n].promise = m.ballot /\ IsPrefixOf(voters[n].prefix, m.prefix)
           accepts == fits /\ (old[1] < m.ballot \/ old = <<m.ballot, m.value>>)
           selected == selections[m.ballot]
<1>1. ClusterTypes /\ Recorded /\ SafetyInv /\ Sized /\ ReadInv /\ verdict = "PASS" /\ MessageAt(m)
      /\ \A k \in DOMAIN campaigns : CampaignAt(k)
  BY InvFacts
<1>2. m \in MessageSet /\ m.kind = "accept" BY <1>1 DEF ClusterTypes, DeliverAccept
<1>3. PICK p, v : p = m.prefix /\ v = m.value OBVIOUS
<1>4. /\ n \in Nodes /\ b \in Ballots /\ b \in DOMAIN campaigns /\ Selected(b) /\ n \in campaigns[b].quorum
      /\ p \in Seq(Values) /\ v \in Values /\ Settled(p) /\ campaigns[b].node \in Nodes
  BY <1>1, <1>2, <1>3, MessageFields DEF MessageAt, ClusterTypes, CampaignSet
<1>5. /\ UNCHANGED <<campaigns, pins, reads, chosen, selections, answers, anomalies>>
      /\ voters' = [voters EXCEPT
            ![n].prefix   = IF fits THEN p ELSE @,
            ![n].accepted = IF accepts THEN Extend(@, slot, <<b, v>>) ELSE @]
      /\ messages' = IF accepts
                     THEN Queue(Remove(messages, m), <<Receipt("accepted", campaigns[b].node, b, n, slot, v)>>)
                     ELSE Remove(messages, m)
      /\ Judge(   Rule("I07", fits => \A i \in DOMAIN m.prefix : i \in DOMAIN chosen /\ chosen[i] = m.prefix[i])
               \o Rule("I05", accepts => /\ m.ballot \in DOMAIN selections
                                         /\ slot = selected[1] => m.value = selected[2]))
  BY <1>3 DEF DeliverAccept
<1>6. ReadInv' BY <1>1, <1>5 DEF ReadInv, Topped
<1>7. PICK s : s = slot OBVIOUS
<1>8. s \in Slots /\ s = Len(p) + 1 /\ Len(p) \in Nat /\ b \in Nat
  BY <1>3, <1>4, <1>7, ClusterAssumption DEF Slots, Ballots
<1>9. Proposed(b, s, v) BY <1>2, <1>3, <1>7 DEF Proposed, Says
<1>10. s <= Top(b) /\ Top(b) \in Nat BY <1>1, <1>9 DEF SafetyInv, ProposalInv, Sized
<1>11. verdict' = "PASS"
  <2>1. \A i \in DOMAIN m.prefix : i \in DOMAIN chosen /\ chosen[i] = m.prefix[i]
    <3>1. DOMAIN p = 1..Len(p) /\ DOMAIN chosen = 1..Len(chosen) /\ Len(chosen) \in Nat
      BY <1>1, <1>4 DEF ClusterTypes
    <3> QED BY <1>3, <1>4, <1>8, <3>1 DEF Settled
  <2>2. b \in DOMAIN selections BY <1>1, <1>4 DEF Recorded, Selected
  <2>3. PICK i \in Slots, w \in Values : selections[b] = <<i, w>> BY <1>1, <2>2 DEF ClusterTypes
  <2>4. Proposed(b, i, w) BY <2>2, <2>3 DEF Proposed
  <2>5. s = i => v = w BY <1>1, <1>9, <2>4 DEF SafetyInv, ProposalInv
  <2>6. slot = selected[1] => m.value = selected[2] BY <1>3, <1>7, <2>3, <2>5
  <2>7. m.ballot \in DOMAIN selections BY <2>2
  <2> HIDE DEF fits, accepts, slot, selected
  <2> QED BY <1>1, <1>5, <2>1, <2>6, <2>7 DEF Judge, Rule
<1>12. voters[n] \in VoterSet /\ voters[n].accepted \in VoteTables BY <1>1, <1>4 DEF ClusterTypes, VoterSet
<1>13. PICK P, T : /\ P = IF fits THEN p ELSE voters[n].prefix
                   /\ T = IF accepts THEN Extend(voters[n].accepted, s, <<b, v>>) ELSE voters[n].accepted
  OBVIOUS
<1>14. voters' = [voters EXCEPT ![n].prefix = P, ![n].accepted = T] BY <1>5, <1>7, <1>13
<1>15. P \in Seq(Values) /\ T \in VoteTables
  <2>1. Extend(voters[n].accepted, s, <<b, v>>) \in VoteTables BY <1>4, <1>8, <1>12, VoteTableExtends
  <2> QED BY <1>4, <1>12, <1>13, <2>1 DEF VoterSet
<1>16. /\ voters' \in [Nodes -> VoterSet] /\ voters'[n].prefix = P /\ voters'[n].accepted = T
       /\ \A k \in Nodes : /\ voters'[k].promise = voters[k].promise
                           /\ k # n => voters'[k].prefix = voters[k].prefix /\ voters'[k].accepted = voters[k].accepted
  <2>1. voters \in [Nodes -> VoterSet] BY <1>1 DEF ClusterTypes
  <2>2. PICK w : w = [voters[n] EXCEPT !.prefix = P, !.accepted = T] OBVIOUS
  <2>3. voters' = [voters EXCEPT ![n] = w] BY <1>4, <1>14, <2>1, <2>2
  <2>4. /\ w \in VoterSet /\ w.prefix = P /\ w.accepted = T /\ w.promise = voters[n].promise
    BY <1>12, <1>15, <2>2 DEF VoterSet
  <2> QED BY <1>4, <2>1, <2>3, <2>4
<1>17. PICK q : q = campaigns[b].node OBVIOUS
<1>18. \A k \in DOMAIN messages' : k \in DOMAIN messages \/ (accepts /\ k = Receipt("accepted", q, b, n, s, v))
  <2>1. CASE accepts
    <3>1. messages' = Queue(Remove(messages, m), <<Receipt("accepted", q, b, n, s, v)>>) BY <2>1, <1>5, <1>7, <1>17
    <3>2. DOMAIN messages' \subseteq DOMAIN messages \cup {Receipt("accepted", q, b, n, s, v)}
      BY <3>1, QueueOne, RemoveDomain
    <3> HIDE DEF accepts
    <3> QED BY <2>1, <3>2
  <2>2. CASE ~accepts BY <2>2, <1>5, RemoveDomain
  <2> QED BY <2>1, <2>2
<1>19. ClusterTypes'
  <2>1. Receipt("accepted", q, b, n, s, v) \in MessageSet BY <1>4, <1>8, <1>17, SentTypes DEF ReceiptKinds
  <2>2. DOMAIN messages' \subseteq MessageSet BY <1>1, <1>18, <2>1 DEF ClusterTypes
  <2> QED BY <1>1, <1>5, <1>16, <2>2 DEF ClusterTypes
<1>20. CASE ~fits
  <2>1. ~accepts BY <1>20
  <2>2. Still
    <3>1. P = voters[n].prefix /\ T = voters[n].accepted BY <1>13, <1>20, <2>1
    <3>2. CoreSame BY <1>4, <1>16, <3>1 DEF CoreSame
    <3>3. DOMAIN messages' \subseteq DOMAIN messages BY <1>18, <2>1
    <3> QED BY <1>5, <3>2, <3>3 DEF Still, Unmoved, ReadsKept
  <2> QED BY <1>6, <1>11, <1>19, <2>2, StillStep, InvBuild
<1>21. CASE fits
  <2>1. voters[n].promise = b /\ Len(voters[n].prefix) <= Len(p) BY <1>3, <1>21 DEF IsPrefixOf
  <2>2. accepts /\ s \in DOMAIN voters[n].accepted => voters[n].accepted[s][1] <= b
    <3> SUFFICES ASSUME accepts, s \in DOMAIN voters[n].accepted PROVE voters[n].accepted[s][1] <= b OBVIOUS
    <3>1. old = voters[n].accepted[s] BY <1>7
    <3>2. voters[n].accepted[s][1] \in Nat BY <1>1, <1>4 DEF Sized
    <3> HIDE DEF old
    <3> QED BY <1>8, <3>1, <3>2
  <2>3. P = p /\ Len(p) <= Top(b) BY <1>8, <1>10, <1>13, <1>21
  <2>4. \/ T = voters[n].accepted
        \/ T = Extend(voters[n].accepted, s, <<b, v>>) /\ (s \in DOMAIN voters[n].accepted => voters[n].accepted[s][1] <= b)
    BY <1>13, <2>2
  <2>5. ASSUME NEW k \in DOMAIN messages', k \notin DOMAIN messages
        PROVE  /\ k.ballot = b /\ k.slot = s /\ k.value = v /\ k.target = campaigns[b].node /\ k.node = n
               /\ k.kind = "accepted" /\ Marked(voters'[n].accepted, b, s, v)
    <3>1. accepts /\ k = Receipt("accepted", q, b, n, s, v) BY <1>18, <2>5
    <3>2. T = Extend(voters[n].accepted, s, <<b, v>>) BY <1>13, <3>1
    <3>3. Marked(T, b, s, v) BY <3>2 DEF Extend, Marked
    <3> QED BY <1>16, <1>17, <3>1, <3>3 DEF Receipt
  <2>6. Writing(n, b, s, v, p)
    <3> HIDE DEF n, b
    <3> QED BY <1>4, <1>5, <1>8, <1>9, <1>16, <2>1, <2>3, <2>4, <2>5 DEF Writing
  <2>7. /\ SafetyInv'
        /\ \A k \in DOMAIN campaigns' : CampaignAt(k)'
        /\ \A k \in DOMAIN messages' : MessageAt(k)'
    <3> HIDE DEF n, b
    <3> QED BY <1>4, <1>19, <2>6, WritingStep
  <2> QED BY <1>6, <1>11, <1>19, <2>7, InvBuild
<1> QED BY <1>20, <1>21

\* Delivery of a PROOF: the voter settles the slot.
LEMMA DeliverProofStep ==
    ASSUME ClusterInv, NEW m \in DOMAIN messages, DeliverProof(m)
    PROVE  ClusterInv'
<1> DEFINE n == m.target
           b == m.ballot
           forces == /\ ~Ineligible(m) /\ voters[n].promise = m.ballot /\ m.slot = Len(voters[n].prefix) + 1
                     /\ m.slot \in DOMAIN voters[n].accepted /\ voters[n].accepted[m.slot] = <<m.ballot, m.value>>
<1>1. ClusterTypes /\ Recorded /\ SafetyInv /\ Sized /\ ReadInv /\ verdict = "PASS" /\ MessageAt(m)
      /\ \A k \in DOMAIN campaigns : CampaignAt(k)
  BY InvFacts
<1>2. m \in MessageSet /\ m.kind = "proof" BY <1>1 DEF ClusterTypes, DeliverProof
<1>3. PICK s, v : s = m.slot /\ v = m.value OBVIOUS
<1>4. /\ n \in Nodes /\ b \in Ballots /\ b \in DOMAIN campaigns /\ Selected(b) /\ n \in campaigns[b].quorum
      /\ s \in Slots /\ v \in Values /\ campaigns[b].node \in Nodes
      /\ s <= Len(chosen) /\ chosen[s] = v /\ (campaigns[b].round.slot = s => campaigns[b].round.proof)
  BY <1>1, <1>2, <1>3, MessageFields DEF MessageAt, ClusterTypes, CampaignSet, ReceiptKinds
<1>5. /\ UNCHANGED <<campaigns, pins, reads, chosen, selections, answers, anomalies>>
      /\ voters' = [voters EXCEPT ![n].prefix = IF forces THEN Append(@, v) ELSE @]
      /\ messages' = IF forces
                      THEN Queue(Remove(messages, m), <<Receipt("proven", campaigns[b].node, b, n, s, v)>>)
                      ELSE Remove(messages, m)
      /\ Judge(Rule("I04", forces => m.slot \in DOMAIN chosen /\ chosen[m.slot] = m.value))
  BY <1>3 DEF DeliverProof
<1>6. ReadInv' BY <1>1, <1>5 DEF ReadInv, Topped
<1>7. Proposed(b, s, v) BY <1>2, <1>3 DEF Proposed, Says, ReceiptKinds
<1>8. s <= Top(b) /\ Top(b) \in Nat /\ s \in Nat BY <1>1, <1>4, <1>7 DEF SafetyInv, ProposalInv, Sized, Slots
<1>9. verdict' = "PASS"
  <2>1. m.slot \in DOMAIN chosen /\ chosen[m.slot] = m.value BY <1>1, <1>3, <1>4 DEF ClusterTypes, Slots
  <2> HIDE DEF forces
  <2> QED BY <1>1, <1>5, <2>1 DEF Judge, Rule
<1>10. voters[n] \in VoterSet /\ voters[n].prefix \in Seq(Values) BY <1>1, <1>4 DEF ClusterTypes, VoterSet
<1>11. PICK P : P = IF forces THEN Append(voters[n].prefix, v) ELSE voters[n].prefix OBVIOUS
<1>12. voters' = [voters EXCEPT ![n].prefix = P] BY <1>5, <1>11
<1>13. P \in Seq(Values) BY <1>4, <1>10, <1>11
<1>14. /\ voters' \in [Nodes -> VoterSet] /\ voters'[n].prefix = P /\ voters'[n].accepted = voters[n].accepted
       /\ \A k \in Nodes : /\ voters'[k].promise = voters[k].promise
                           /\ k # n => voters'[k].prefix = voters[k].prefix /\ voters'[k].accepted = voters[k].accepted
  <2>1. voters \in [Nodes -> VoterSet] BY <1>1 DEF ClusterTypes
  <2>2. PICK w : w = [voters[n] EXCEPT !.prefix = P] OBVIOUS
  <2>3. voters' = [voters EXCEPT ![n] = w] BY <1>4, <1>12, <2>1, <2>2
  <2>4. w \in VoterSet /\ w.prefix = P /\ w.accepted = voters[n].accepted /\ w.promise = voters[n].promise
    BY <1>10, <1>13, <2>2 DEF VoterSet
  <2> QED BY <1>4, <2>1, <2>3, <2>4
<1>15. PICK q : q = campaigns[b].node OBVIOUS
<1>16. \A k \in DOMAIN messages' : k \in DOMAIN messages \/ (forces /\ k = Receipt("proven", q, b, n, s, v))
  <2>1. CASE forces
    <3>1. messages' = Queue(Remove(messages, m), <<Receipt("proven", q, b, n, s, v)>>) BY <2>1, <1>5, <1>15
    <3>2. DOMAIN messages' \subseteq DOMAIN messages \cup {Receipt("proven", q, b, n, s, v)}
      BY <3>1, QueueOne, RemoveDomain
    <3> HIDE DEF forces
    <3> QED BY <2>1, <3>2
  <2>2. CASE ~forces BY <2>2, <1>5, RemoveDomain
  <2> QED BY <2>1, <2>2
<1>17. ClusterTypes'
  <2>1. Receipt("proven", q, b, n, s, v) \in MessageSet BY <1>4, <1>15, SentTypes DEF ReceiptKinds
  <2>2. DOMAIN messages' \subseteq MessageSet BY <1>1, <1>16, <2>1 DEF ClusterTypes
  <2> QED BY <1>1, <1>5, <1>14, <2>2 DEF ClusterTypes
<1>18. CASE ~forces
  <2>1. Still
    <3>1. P = voters[n].prefix BY <1>11, <1>18
    <3>2. CoreSame BY <1>4, <1>14, <3>1 DEF CoreSame
    <3>3. DOMAIN messages' \subseteq DOMAIN messages BY <1>16, <1>18
    <3> QED BY <1>5, <3>2, <3>3 DEF Still, Unmoved, ReadsKept
  <2> QED BY <1>6, <1>9, <1>17, <2>1, StillStep, InvBuild
<1>19. CASE forces
  <2>1. voters[n].promise = b /\ s = Len(voters[n].prefix) + 1 BY <1>3, <1>19
  <2>2. P = Append(voters[n].prefix, v) BY <1>11, <1>19
  <2>3. Len(P) = s /\ Len(voters[n].prefix) \in Nat BY <1>10, <2>1, <2>2
  <2>4. Settled(P)
    <3>1. Settled(voters[n].prefix) BY <1>1, <1>4 DEF SafetyInv
    <3>2. ASSUME NEW i \in 1..Len(P) PROVE P[i] = chosen[i]
      <4>1. CASE i = s BY <1>4, <1>10, <2>1, <2>2, <4>1
      <4>2. CASE i # s
        <5>1. i \in 1..Len(voters[n].prefix) BY <2>1, <2>3, <4>2
        <5>2. P[i] = voters[n].prefix[i] BY <1>10, <2>2, <5>1
        <5> QED BY <3>1, <5>1, <5>2 DEF Settled
      <4> QED BY <4>1, <4>2
    <3> QED BY <1>4, <2>3, <3>2 DEF Settled
  <2>5. ASSUME NEW k \in DOMAIN messages', k \notin DOMAIN messages
        PROVE  /\ k.ballot = b /\ k.slot = s /\ k.value = v /\ k.target = campaigns[b].node /\ k.node = n
               /\ k.kind = "proven" /\ s <= Len(voters'[n].prefix)
    <3>1. k = Receipt("proven", q, b, n, s, v) BY <1>16, <2>5
    <3>2. s <= Len(voters'[n].prefix) BY <1>8, <1>14, <2>3
    <3> QED BY <1>15, <3>1, <3>2 DEF Receipt
  <2>6. Len(voters[n].prefix) <= Len(P) /\ Len(P) <= Top(b) /\ Len(P) \in Nat BY <1>8, <2>1, <2>3
  <2>7. Writing(n, b, s, v, P)
    <3> HIDE DEF n, b
    <3> QED BY <1>4, <1>5, <1>7, <1>14, <2>1, <2>4, <2>5, <2>6 DEF Writing
  <2>8. /\ SafetyInv'
        /\ \A k \in DOMAIN campaigns' : CampaignAt(k)'
        /\ \A k \in DOMAIN messages' : MessageAt(k)'
    <3> HIDE DEF n, b
    <3> QED BY <1>4, <1>17, <2>7, WritingStep
  <2> QED BY <1>6, <1>9, <1>17, <2>8, InvBuild
<1> QED BY <1>18, <1>19

-----------------------------------------------------------------------------
(* Counted votes *)

\* What two votes of the quorum of b for v in slot s establish.
LEMMA VotesDecide ==
    ASSUME SafetyInv, Sized, NEW b, Selected(b), NEW s \in Nat, NEW v, NEW i \in Nodes, NEW j \in Nodes, i # j,
           PairOf(b) = {i, j}, Voted(i, b, s, v), Voted(j, b, s, v)
    PROVE  /\ Safe(b, s, v)
           /\ \A k, w : k >= b /\ Proposed(k, s, w) => w = v
           /\ Bound(i, b, s) /\ Bound(j, b, s)
           /\ \A k : Selected(k) /\ k > b => s <= First(k)
           /\ s \in 1..Len(chosen) => chosen[s] = v
<1>1. b \in Ballots /\ b \in Int BY DEF Sized, Ballots
<1>2. Proposed(b, s, v) BY VotedProposed
<1>3. Safe(b, s, v) BY <1>2 DEF SafetyInv, ProposalInv
<1>4. ASSUME NEW k, NEW w, k >= b, Proposed(k, s, w) PROVE w = v
  <2>1. Selected(k) /\ Safe(k, s, w) BY <1>4 DEF SafetyInv, ProposalInv
  <2>2. k \in Int BY <2>1 DEF Sized, Ballots
  <2>3. CASE k = b BY <1>2, <1>4, <2>3 DEF SafetyInv, ProposalInv
  <2>4. CASE k > b BY <1>1, <2>1, <2>4 DEF Safe
  <2> QED BY <1>1, <1>4, <2>2, <2>3, <2>4
<1>5. ASSUME NEW n \in {i, j} PROVE Bound(n, b, s)
  <2>1. n \in Nodes /\ Voted(n, b, s, v) BY <1>5
  <2>2. s \in DOMAIN voters[n].accepted /\ voters[n].accepted[s][1] >= b BY <2>1 DEF SafetyInv, VoteInv
  <2>3. voters[n].promise >= b BY <1>5 DEF SafetyInv, SelectedAt
  <2>4. ASSUME NEW x \in Bases, x.node = n, x.ballot > b
        PROVE  s <= Len(x.prefix) \/ (s \in DOMAIN x.accepted /\ x.accepted[s][1] >= b)
    <3>1. BasisAt(x) /\ Len(x.prefix) \in Nat /\ x.ballot \in Nat BY DEF SafetyInv, Sized
    <3>2. s > Len(x.prefix) => s \in DOMAIN x.accepted /\ x.accepted[s][1] >= b
      BY <1>1, <2>1, <2>4, <3>1 DEF BasisAt
    <3> QED BY <3>1, <3>2
  <2> QED BY <2>2, <2>3, <2>4 DEF Bound
<1>6. ASSUME NEW k, Selected(k), k > b PROVE s <= First(k)
  <2>1. SelectedAt(k) /\ First(k) \in Nat /\ Proposer(k) \in Nodes BY <1>6 DEF SafetyInv, Sized
  <2>2. PICK n \in Nodes : n # Proposer(k) /\ PairOf(k) = {Proposer(k), n} BY <2>1 DEF SelectedAt
  <2>3. i \in PairOf(k) \/ j \in PairOf(k) BY <2>1, <2>2, TwoOfThree
  <2>4. k \in Int BY <1>6 DEF Sized, Ballots
  <2>5. ~(s > First(k)) BY <1>1, <1>6, <2>1, <2>3, <2>4 DEF SelectedAt
  <2> QED BY <2>1, <2>5
<1>7. ASSUME s \in 1..Len(chosen) PROVE chosen[s] = v
  <2>1. PICK k : ChosenBy(k, s) BY <1>7 DEF SafetyInv
  <2>2. k \in Int /\ Safe(k, s, chosen[s]) BY <2>1 DEF ChosenBy, Sized, Ballots
  <2>3. CASE b >= k BY <1>2, <2>1, <2>3 DEF ChosenBy
  <2>4. CASE b < k BY <1>1, <2>2, <2>4 DEF Safe
  <2> QED BY <1>1, <2>2, <2>3, <2>4
<1> QED BY <1>3, <1>4, <1>5, <1>6, <1>7

\* The round of b counts the vote of n for v in slot s; with all, v is chosen.
Counting(b, n, s, v) ==
    LET r == campaigns[b].round
        t == campaigns'[b].round
    IN /\ InRound(b, s, v) /\ Voted(n, b, s, v) /\ n \in campaigns[b].quorum
       /\ CoreSame /\ UNCHANGED <<selections, answers, reads>>
       /\ DOMAIN campaigns' = DOMAIN campaigns /\ \A k \in DOMAIN campaigns : k # b => campaigns'[k] = campaigns[k]
       /\ campaigns'[b].node = campaigns[b].node /\ campaigns'[b].basis = campaigns[b].basis
       /\ campaigns'[b].selected = campaigns[b].selected /\ campaigns'[b].quorum = campaigns[b].quorum
       /\ campaigns'[b].ready = campaigns[b].ready
       /\ t.slot = s /\ t.value = v /\ t.read = r.read /\ t.proofs = r.proofs /\ t.accepts = r.accepts \cup {n}
       /\ r.proof => t.proof
       /\ t.proof => t.accepts = campaigns[b].quorum /\ s <= Len(chosen') /\ chosen'[s] = v
       /\ \/ chosen' = chosen
          \/ t.proof /\ s = Len(chosen) + 1 /\ chosen' = Append(chosen, v)
       /\ \A m \in DOMAIN messages' :
             \/ m \in DOMAIN messages
             \/ /\ m.kind = "proof" /\ m.ballot = b /\ m.slot = s /\ m.value = v
                /\ m.target \in campaigns[b].quorum /\ t.proof

\* A counted vote is a step of the frame.
LEMMA CountingFrame ==
    ASSUME ClusterInv, ClusterTypes', NEW b, NEW n \in Nodes, NEW s, NEW v, Counting(b, n, s, v)
    PROVE  /\ Sized' /\ Frame /\ NodesStay /\ RoundsMove /\ ProposerFrame /\ NewlySettled
<1>1. /\ ClusterTypes /\ Recorded /\ SafetyInv /\ Sized
      /\ \A k \in DOMAIN campaigns : CampaignAt(k)
  BY InvFacts
<1>2. Recorded' BY <1>1 DEF Recorded, Counting
<1>3. Sized' BY <1>2, SizedNext
<1>4. PromisesRise /\ DisksGrow /\ ProposerFrame BY <1>1, VotersStill DEF Counting
<1>5. b \in DOMAIN campaigns /\ s # 0 /\ campaigns[b].round.slot = s /\ campaigns[b].round.value = v
  BY DEF Counting, InRound
<1>6. Selected(b) /\ Proposed(b, s, v) BY <1>1, <1>5 DEF CampaignAt, RoundAt, Counting, Proposed
<1>7. NodesStay /\ BasesKept /\ NoMoreProofs
  BY <1>5 DEF Counting, NodesStay, BasesKept, NoMoreProofs
<1>8. LogGrows
  <2>1. chosen \in Seq(Values) /\ v \in Values BY <1>1, <1>6 DEF ClusterTypes, SafetyInv, ProposalInv
  <2>2. CASE chosen' = chosen BY <2>1, <2>2 DEF LogGrows
  <2>3. CASE chosen' = Append(chosen, v) BY <2>1, <2>3 DEF LogGrows
  <2> QED BY <2>2, <2>3 DEF Counting
<1>9. NoNew({"promise"}) /\ NoNew({"accepted"}) /\ NoNew({"proven"}) BY DEF Counting, NoNew
<1>10. Bases' \subseteq Bases BY <1>7, <1>9, BasesSame
<1>11. ProofsByPromise BY <1>7, <1>9, ProofsStill
<1>12. VotesByPromise
  <2> SUFFICES ASSUME NEW q \in Nodes, NEW k, NEW i, NEW w, Voted(q, k, i, w)' PROVE Voted(q, k, i, w)
    BY DEF VotesByPromise
  <2>1. CASE Marked(voters[q].accepted, k, i, w)' BY <2>1 DEF Counting, CoreSame, Marked, Voted
  <2>2. CASE (\E m \in DOMAIN messages : m.kind = "accepted" /\ m.node = q /\ Says(m, k, i, w))'
    <3>1. PICK m \in DOMAIN messages' : m.kind = "accepted" /\ m.node = q /\ Says(m, k, i, w) BY <2>2 DEF Says
    <3>2. m \in DOMAIN messages BY <3>1, <1>9 DEF NoNew
    <3> QED BY <3>1, <3>2 DEF Voted
  <2>3. CASE (InRound(k, i, w) /\ q \in campaigns[k].round.accepts)'
    <3>1. CASE k # b BY <2>3, <3>1 DEF InRound, Counting, Voted
    <3>2. CASE k = b
      <4>1. i = s /\ w = v /\ q \in campaigns[b].round.accepts \cup {n} BY <2>3, <3>2 DEF InRound, Counting
      <4>2. CASE q = n BY <3>2, <4>1, <4>2 DEF Counting
      <4>3. CASE q \in campaigns[b].round.accepts BY <3>2, <4>1, <4>3 DEF Counting, Voted
      <4> QED BY <4>1, <4>2, <4>3
    <3> QED BY <3>1, <3>2
  <2> QED BY <2>1, <2>2, <2>3 DEF Voted
<1>13. CampaignsStay /\ RoundsMove
  <2>1. ASSUME NEW k, Selected(k), k # b
        PROVE  /\ Selected(k)' /\ Proposer(k)' = Proposer(k) /\ PairOf(k)' = PairOf(k)
               /\ First(k)' = First(k) /\ Top(k)' >= Top(k) /\ Advances(k)
    <3>1. Unmoved(k) BY <2>1 DEF Unmoved, Counting, Selected
    <3> QED BY <1>1, <1>3, <1>4, <2>1, <3>1, UnmovedStays DEF Counting
  <2>2. Selected(b)' /\ Proposer(b)' = Proposer(b) /\ PairOf(b)' = PairOf(b) /\ First(b)' = First(b)
    BY <1>5, <1>6 DEF Counting, Selected, Proposer, PairOf, First
  <2>3. Top(b)' = Top(b) BY <1>5 DEF Top, Counting
  <2>4. Top(b)' >= Top(b) BY <1>1, <1>6, <2>3 DEF Sized
  <2>5. Advances(b) BY <1>5 DEF Advances, Counting
  <2> QED BY <2>1, <2>2, <2>4, <2>5 DEF CampaignsStay, RoundsMove
<1>14. Quiet
  <2>1. NoneSelected BY <1>5 DEF NoneSelected, Selected, Counting
  <2>2. ASSUME NEW k, NEW i, NEW w, Proposed(k, i, w)' PROVE Proposed(k, i, w)
    <3>1. ~\E q \in Nodes : Marked(voters'[q].accepted, k, i, w) /\ ~Marked(voters[q].accepted, k, i, w)
      BY DEF Counting, CoreSame
    <3>2. CASE \E m \in DOMAIN messages' : m \notin DOMAIN messages /\ Says(m, k, i, w)
      BY <3>2, <1>6 DEF Counting, Says
    <3>3. CASE InRound(k, i, w)'
      <4>1. k # b => InRound(k, i, w) BY <3>3 DEF InRound, Counting
      <4>2. k = b => i = s /\ w = v BY <3>3 DEF InRound, Counting
      <4> QED BY <1>6, <4>1, <4>2 DEF Proposed
    <3> QED BY <2>2, <1>10, <3>1, <3>2, <3>3, ProposedCases DEF Counting
  <2> QED BY <2>1, <2>2 DEF Quiet
<1>15. Frame BY <1>4, <1>8, <1>10, <1>11, <1>12, <1>13, <1>14 DEF Frame, BasesOld
<1>16. NewlySettled BY <1>1, <1>3, <1>8, SettledStill DEF Counting
<1> QED BY <1>3, <1>4, <1>7, <1>13, <1>15, <1>16

\* A slot that gets its second vote is chosen for good.
LEMMA CountingChosen ==
    ASSUME ClusterInv, ClusterTypes', NEW b, NEW n \in Nodes, NEW s, NEW v, Counting(b, n, s, v)
    PROVE  NewlyChosen
<1> SUFFICES ASSUME NEW i \in 1..Len(chosen'), i \notin 1..Len(chosen) PROVE \E k : ChosenBy(k, i)'
  BY DEF NewlyChosen
<1>1. /\ ClusterTypes /\ Recorded /\ SafetyInv /\ Sized
      /\ \A k \in DOMAIN campaigns : CampaignAt(k)
  BY InvFacts
<1>2. Sized' /\ Frame BY CountingFrame
<1>3. b \in DOMAIN campaigns /\ s # 0 /\ campaigns[b].round.slot = s /\ campaigns[b].round.value = v
  BY DEF Counting, InRound
<1>4. Selected(b) /\ Proposed(b, s, v) /\ campaigns[b].round.accepts \subseteq campaigns[b].quorum
  BY <1>1, <1>3 DEF CampaignAt, RoundAt, Counting, Proposed
<1>5. s \in Nat /\ b \in Int BY <1>1, <1>3 DEF ClusterTypes, CampaignSet, RoundSet, Ballots
<1>6. chosen \in Seq(Values) /\ v \in Values BY <1>1, <1>4 DEF ClusterTypes, SafetyInv, ProposalInv
<1>7. chosen' # chosen OBVIOUS
<1>8. campaigns'[b].round.proof /\ s = Len(chosen) + 1 /\ chosen' = Append(chosen, v) BY <1>7 DEF Counting
<1>9. i = s /\ chosen'[s] = v BY <1>6, <1>8
<1>10. SelectedAt(b) /\ Proposer(b) \in Nodes BY <1>1, <1>4 DEF SafetyInv, Sized
<1>11. PICK j \in Nodes : j # Proposer(b) /\ PairOf(b) = {Proposer(b), j} BY <1>10 DEF SelectedAt
<1>12. \A q \in PairOf(b) : q \in campaigns[b].round.accepts \/ q = n
  BY <1>8 DEF Counting, PairOf
<1>13. \A q \in PairOf(b) : Voted(q, b, s, v) BY <1>12 DEF Counting, Voted
<1>14. PICK l \in Nodes : l = Proposer(b) BY <1>10
<1>15. /\ Safe(b, s, v)
       /\ \A k, w : k >= b /\ Proposed(k, s, w) => w = v
       /\ Bound(l, b, s) /\ Bound(j, b, s)
       /\ \A k : Selected(k) /\ k > b => s <= First(k)
  BY <1>1, <1>4, <1>5, <1>11, <1>13, <1>14, VotesDecide
<1>16. Quiet
  <2>1. UNCHANGED selections /\ CoreSame BY DEF Counting
  <2>2. NoneSelected BY <1>3 DEF NoneSelected, Selected, Counting
  <2>3. ~Selects BY <2>2 DEF Selects, Picks, NoneSelected
  <2>4. ~Continues
    <3>1. ASSUME NEW k, NEW t, NEW w, Later(k, t, w) PROVE FALSE
      <4>1. Selected(k) /\ t \in Nat /\ t > Top(k) /\ t <= Top(k)' BY <3>1 DEF Later
      <4>2. Top(k)' = Top(k)
        <5>1. k \in DOMAIN campaigns /\ campaigns[k].node \in Nodes
          BY <1>1, <4>1 DEF Selected, ClusterTypes, CampaignSet
        <5>2. CASE k = b BY <1>3, <5>2 DEF Top, Counting
        <5>3. CASE k # b BY <5>1, <5>3 DEF Top, Counting, CoreSame
        <5> QED BY <5>2, <5>3
      <4> QED BY <1>1, <4>1, <4>2 DEF Sized
    <3> QED BY <3>1 DEF Continues
  <2> QED BY <1>2, <2>3, <2>4 DEF Frame
<1>17. Safe(b, s, v)' BY <1>1, <1>2, <1>4, <1>15, SafeKept
<1>18. Bound(l, b, s)' /\ Bound(j, b, s)' BY <1>1, <1>2, <1>5, <1>15, BoundStep
<1>19. \A k, w : k >= b /\ Proposed(k, s, w)' => w = v BY <1>15, <1>16 DEF Quiet
<1>20. \A k : Selected(k)' /\ k > b => s <= First(k)'
  BY <1>2, <1>15, <1>16 DEF Quiet, NoneSelected, Frame, CampaignsStay
<1>21. Selected(b)' /\ s <= Top(b)'
  <2>1. Selected(b)' BY <1>2, <1>4 DEF Frame, CampaignsStay
  <2>2. Top(b)' = s BY <1>3 DEF Top, Counting
  <2> QED BY <1>5, <2>1, <2>2
<1>22. Safe(b, s, chosen[s])' BY <1>9, <1>17
<1>23. ChosenBy(b, s)' BY <1>9, <1>11, <1>14, <1>18, <1>19, <1>20, <1>21, <1>22 DEF ChosenBy
<1> QED BY <1>9, <1>23

\* The invariant under a counted vote.
LEMMA CountingStep ==
    ASSUME ClusterInv, ClusterTypes', NEW b, NEW n \in Nodes, NEW s, NEW v, Counting(b, n, s, v)
    PROVE  /\ SafetyInv'
           /\ \A k \in DOMAIN campaigns' : CampaignAt(k)'
           /\ \A m \in DOMAIN messages' : MessageAt(m)'
<1>1. /\ ClusterTypes /\ SafetyInv /\ Sized
      /\ \A k \in DOMAIN campaigns : CampaignAt(k)
      /\ \A m \in DOMAIN messages : MessageAt(m)
  BY InvFacts
<1>2. Sized' /\ Frame /\ NodesStay /\ RoundsMove /\ ProposerFrame /\ NewlySettled BY CountingFrame
<1>3. NewlyChosen BY CountingChosen
<1>4. NewlyAnswered /\ ProofSlots BY ProofSlotsFrom DEF NewlyAnswered, Counting
<1>5. SafetyInv' BY <1>1, <1>2, <1>3, <1>4, CoreStep
<1>6. b \in DOMAIN campaigns /\ s # 0 /\ campaigns[b].round.slot = s /\ campaigns[b].round.value = v
  BY DEF Counting, InRound
<1>7. CampaignAt(b) /\ RoundAt(b) BY <1>1, <1>6 DEF CampaignAt
<1>8. /\ b \in DOMAIN campaigns' /\ UNCHANGED <<selections, reads>> /\ CoreSame
      /\ campaigns'[b].node = campaigns[b].node /\ campaigns'[b].basis = campaigns[b].basis
      /\ campaigns'[b].selected = campaigns[b].selected /\ campaigns'[b].quorum = campaigns[b].quorum
      /\ campaigns'[b].ready = campaigns[b].ready
      /\ campaigns'[b].round.slot = s /\ campaigns'[b].round.value = v
      /\ campaigns'[b].round.read = campaigns[b].round.read /\ campaigns'[b].round.proofs = campaigns[b].round.proofs
      /\ campaigns'[b].round.accepts = campaigns[b].round.accepts \cup {n} /\ n \in campaigns[b].quorum
      /\ campaigns[b].round.proof => campaigns'[b].round.proof
      /\ campaigns'[b].round.proof => /\ campaigns'[b].round.accepts = campaigns[b].quorum
                                      /\ s <= Len(chosen') /\ chosen'[s] = v
  BY <1>6 DEF Counting
<1>9. RoundAt(b)'
  <2>1. Selected(b) /\ Selected(b)' BY <1>2, <1>7 DEF RoundAt, Frame, CampaignsStay
  <2>2. ReadAt(b) BY <1>7 DEF RoundAt, ReadAt
  <2>3. \A r \in DOMAIN reads : r \in DOMAIN reads' /\ reads'[r] = reads[r] BY <1>8
  <2>4. ReadAt(b)' BY <1>1, <1>2, <1>6, <1>8, <2>2, <2>3, ReadKept DEF Frame
  <2>5. campaigns[b].node \in Nodes /\ s \in Nat BY <1>1, <1>6 DEF ClusterTypes, CampaignSet, RoundSet
  <2>6. s <= Len(chosen') + 1 BY <1>1, <1>2, <1>6, <1>7, <2>5 DEF RoundAt, Frame, LogGrows, Sized
  <2>7. voters'[campaigns[b].node].promise = b => Len(voters'[campaigns[b].node].prefix) <= s
    BY <1>6, <1>7, <1>8, <2>5 DEF RoundAt, CoreSame
  <2>8. v \in Values /\ campaigns[b].round.accepts \subseteq campaigns[b].quorum
        /\ campaigns[b].round.proofs \subseteq campaigns[b].quorum
        /\ (campaigns[b].round.proofs # {} => campaigns[b].round.proof)
    BY <1>6, <1>7 DEF RoundAt
  <2> QED BY <1>8, <2>1, <2>4, <2>6, <2>7, <2>8 DEF RoundAt, ReadAt
<1>10. CampaignAt(b)'
  <2>1. /\ campaigns[b].basis.ballot = b /\ campaigns[b].basis.node = campaigns[b].node
        /\ campaigns[b].selected <=> b \in DOMAIN selections
        /\ campaigns[b].ready => campaigns[b].selected
        /\ campaigns[b].selected
    BY <1>7 DEF CampaignAt, RoundAt, Selected
  <2> QED BY <1>6, <1>8, <1>9, <2>1 DEF CampaignAt
<1>11. ASSUME NEW k \in DOMAIN campaigns, k # b PROVE CampaignAt(k)'
  <2>1. Unmoved(k) BY <1>11 DEF Unmoved, Counting
  <2>2. \A r \in DOMAIN reads : r \in DOMAIN reads' /\ reads'[r] = reads[r] BY <1>8
  <2> QED BY <1>1, <1>2, <1>8, <2>1, <2>2, CampaignKept
<1>12. \A k \in DOMAIN campaigns' : CampaignAt(k)' BY <1>10, <1>11 DEF Counting
<1>13. ASSUME NEW m \in DOMAIN messages' PROVE MessageAt(m)'
  <2>1. CASE m \in DOMAIN messages BY <1>1, <1>2, <2>1, MessageKept
  <2>2. CASE m \notin DOMAIN messages
    <3>1. /\ m.kind = "proof" /\ m.ballot = b /\ m.slot = s /\ m.value = v
          /\ m.target \in campaigns[b].quorum /\ campaigns'[b].round.proof
      BY <2>2 DEF Counting
    <3>2. Selected(b)' BY <1>9 DEF RoundAt
    <3> QED BY <1>8, <3>1, <3>2 DEF MessageAt
  <2> QED BY <2>1, <2>2
<1> QED BY <1>5, <1>12, <1>13

\* Two of two are all.
LEMMA CardinalityOfPair ==
    ASSUME NEW i, NEW j, i # j, NEW S, S \subseteq {i, j}, Cardinality(S) = 2
    PROVE  S = {i, j}
<1>1. IsFiniteSet({i, j})
  <2>1. {i, j} = {i} \cup {j} /\ IsFiniteSet({i}) BY FS_Singleton
  <2> QED BY <2>1, FS_AddElement
<1>2. Cardinality({i, j}) = 2 BY CardinalityTwo
<1> QED BY <1>1, <1>2, FS_Subset

\* The log with v in slot s.
LEMMA ExtendLog ==
    ASSUME NEW L \in Seq(Values), NEW s \in Nat, s # 0, s <= Len(L) + 1, NEW v \in Values,
           s \in 1..Len(L) => L[s] = v
    PROVE  \/ s \in 1..Len(L) /\ Extend(L, s, v) = L
           \/ s = Len(L) + 1 /\ Extend(L, s, v) = Append(L, v)
<1>1. Len(L) \in Nat /\ DOMAIN L = 1..Len(L) /\ L = [i \in 1..Len(L) |-> L[i]] OBVIOUS
<1>2. CASE s \in 1..Len(L)
  <2>1. DOMAIN L \cup {s} = 1..Len(L) BY <1>1, <1>2
  <2>2. Extend(L, s, v) = [i \in 1..Len(L) |-> L[i]] BY <1>2, <2>1 DEF Extend
  <2> QED BY <1>1, <1>2, <2>2
<1>3. CASE s = Len(L) + 1
  <2>1. DOMAIN L \cup {s} = 1..(Len(L) + 1) BY <1>1, <1>3
  <2>2. Append(L, v) = [i \in 1..(Len(L) + 1) |-> IF i = Len(L) + 1 THEN v ELSE L[i]]
    <3>1. Append(L, v) \in Seq(Values) /\ Len(Append(L, v)) = Len(L) + 1 OBVIOUS
    <3>2. ASSUME NEW i \in 1..(Len(L) + 1) PROVE Append(L, v)[i] = IF i = Len(L) + 1 THEN v ELSE L[i]
      <4>1. CASE i = Len(L) + 1 BY <4>1
      <4>2. CASE i # Len(L) + 1
        <5>1. i \in 1..Len(L) BY <4>2
        <5> QED BY <4>2, <5>1
      <4> QED BY <4>1, <4>2
    <3>3. PICK A \in Seq(Values) : A = Append(L, v) BY <3>1
    <3>4. A = [i \in 1..Len(A) |-> A[i]] OBVIOUS
    <3> QED BY <3>1, <3>2, <3>3, <3>4
  <2> QED BY <1>3, <2>1, <2>2 DEF Extend
<1> QED BY <1>1, <1>2, <1>3

\* Campaign d is campaign c with the votes h counted.
IsCounted(d, c, h, a) ==
    /\ d \in CampaignSet /\ d.node = c.node /\ d.basis = c.basis /\ d.selected = c.selected
    /\ d.quorum = c.quorum /\ d.ready = c.ready
    /\ d.round.slot = c.round.slot /\ d.round.value = c.round.value /\ d.round.read = c.round.read
    /\ d.round.proofs = c.round.proofs /\ d.round.accepts = h /\ d.round.proof = a

\* A campaign with one vote more.
LEMMA CountedRound ==
    ASSUME NEW c \in CampaignSet, NEW h \in SUBSET Nodes, NEW a \in BOOLEAN
    PROVE  IsCounted([c EXCEPT !.round.accepts = h, !.round.proof = a], c, h, a)
<1> DEFINE d == [c EXCEPT !.round.accepts = h, !.round.proof = a]
<1>1. c.round \in RoundSet BY DEF CampaignSet
<1>2. PICK t : t = [c.round EXCEPT !.accepts = h, !.proof = a] OBVIOUS
<1>3. t \in RoundSet /\ t.slot = c.round.slot /\ t.value = c.round.value /\ t.read = c.round.read
      /\ t.proofs = c.round.proofs /\ t.accepts = h /\ t.proof = a
  BY <1>1, <1>2 DEF RoundSet
<1>4. d = [c EXCEPT !.round = t] BY <1>2
<1>5. IsCounted(d, c, h, a)
  <2> HIDE DEF d
  <2> QED BY <1>3, <1>4 DEF CampaignSet, IsCounted
<1> QED BY <1>5

\* The log is as it was, or has one value more.
Grows == (chosen' = chosen \/ \E v \in Values : chosen' = Append(chosen, v)) /\ UNCHANGED <<answers, reads>>

\* Delivery of an ACCEPTED; the log grows by at most the value of its round.
LEMMA DeliverAcceptedStep ==
    ASSUME ClusterInv, NEW m \in DOMAIN messages, DeliverAccepted(m)
    PROVE  ClusterInv' /\ Grows
<1> DEFINE b == m.ballot
           c == campaigns[b]
           r == c.round
           have == r.accepts \cup {m.node}
           proves == Cardinality(have) = 2 /\ ~r.proof
           other == CHOOSE n \in c.quorum : n # c.node
<1>1. ClusterTypes /\ Recorded /\ SafetyInv /\ Sized /\ ReadInv /\ verdict = "PASS" /\ MessageAt(m)
      /\ \A k \in DOMAIN campaigns : CampaignAt(k)
  BY InvFacts
<1>2. m \in MessageSet /\ m.kind = "accepted" BY <1>1 DEF ClusterTypes, DeliverAccepted
<1>3. PICK n, s, v : n = m.node /\ s = m.slot /\ v = m.value OBVIOUS
<1>4. /\ b \in Ballots /\ b \in DOMAIN campaigns /\ Selected(b) /\ n \in Nodes /\ n \in c.quorum
      /\ s \in Slots /\ v \in Values /\ c \in CampaignSet /\ c.node \in Nodes /\ m.target = c.node
  BY <1>1, <1>2, <1>3, MessageFields DEF MessageAt, ClusterTypes, CampaignSet, ReceiptKinds
<1>5. UNCHANGED <<voters, pins, reads, selections, answers, anomalies>> BY DEF DeliverAccepted
<1>6. ReadInv' BY <1>1, <1>5 DEF ReadInv, Topped
<1>7. CASE messages' = Remove(messages, m) /\ UNCHANGED <<campaigns, chosen, verdict>>
  <2>1. DOMAIN messages' \subseteq DOMAIN messages BY <1>7, RemoveDomain
  <2>2. ClusterTypes' BY <1>1, <1>5, <1>7, <2>1 DEF ClusterTypes
  <2>3. Still BY <1>5, <1>7, <2>1 DEF Still, CoreSame, Unmoved, ReadsKept
  <2>4. Grows BY <1>5, <1>7 DEF Grows
  <2> QED BY <1>1, <1>6, <1>7, <2>2, <2>3, <2>4, StillStep, InvBuild
<1>8. CASE /\ voters[m.target].promise = b /\ r.slot = m.slot /\ r.value = m.value
           /\ campaigns' = [campaigns EXCEPT ![b].round.accepts = have, ![b].round.proof = r.proof \/ proves]
           /\ messages' = IF proves
                              THEN Queue(Remove(messages, m), <<Receipt("proof", c.node, b, c.node, r.slot, r.value),
                                                                Receipt("proof", other, b, c.node, r.slot, r.value)>>)
                              ELSE Remove(messages, m)
           /\ chosen' = IF proves THEN Extend(chosen, r.slot, r.value) ELSE chosen
           /\ Judge(   Rule("I02", proves /\ r.slot \in DOMAIN chosen => chosen[r.slot] = r.value)
                        \o Rule("I02", proves => \A q \in have : /\ r.slot \in DOMAIN voters[q].accepted
                                                                 /\ voters[q].accepted[r.slot][1] >= b))
  <2>1. s = r.slot /\ v = r.value /\ s # 0 /\ s \in Nat BY <1>3, <1>4, <1>8 DEF Slots
  <2>2. RoundAt(b) BY <1>1, <1>4, <2>1 DEF CampaignAt
  <2>3. InRound(b, s, v) BY <1>4, <2>1 DEF InRound
  <2>4. Voted(n, b, s, v) BY <1>2, <1>3 DEF Voted, Says, ReceiptKinds
  <2>5. SelectedAt(b) BY <1>1, <1>4 DEF SafetyInv
  <2>6. PICK o \in Nodes : o # c.node /\ c.quorum = {c.node, o} BY <2>5 DEF SelectedAt, Proposer, PairOf
  <2>7. PICK h : h = have OBVIOUS
  <2>8. h = r.accepts \cup {n} /\ h \subseteq c.quorum /\ h \in SUBSET Nodes
    BY <1>3, <1>4, <2>2, <2>6, <2>7 DEF RoundAt
  <2>9. \A q \in h : Voted(q, b, s, v) BY <2>3, <2>4, <2>8 DEF Voted
  <2>10. proves => h = c.quorum
    <3>1. proves => Cardinality(h) = 2 BY <2>7
    <3>2. PICK l : l = c.node OBVIOUS
    <3>3. l # o /\ h \subseteq {l, o} /\ c.quorum = {l, o} BY <2>6, <2>8, <3>2
    <3>4. Cardinality(h) = 2 => h = {l, o} BY <3>3, CardinalityOfPair
    <3> HIDE DEF proves
    <3> QED BY <3>1, <3>3, <3>4
  <2>11. proves /\ s \in 1..Len(chosen) => chosen[s] = v
    <3> SUFFICES ASSUME proves, s \in 1..Len(chosen) PROVE chosen[s] = v OBVIOUS
    <3>1. PairOf(b) = {c.node, o} /\ Voted(c.node, b, s, v) /\ Voted(o, b, s, v) BY <2>6, <2>9, <2>10 DEF PairOf
    <3>2. PICK l \in Nodes : l = c.node BY <1>4
    <3> HIDE DEF b
    <3> QED BY <1>1, <1>4, <2>1, <2>6, <3>1, <3>2, VotesDecide
  <2>12. chosen \in Seq(Values) /\ s <= Len(chosen) + 1 BY <1>1, <2>1, <2>2 DEF ClusterTypes, RoundAt
  <2>13. /\ chosen' \in Seq(Values)
         /\ chosen' = chosen \/ (s = Len(chosen) + 1 /\ chosen' = Append(chosen, v) /\ proves)
         /\ proves => s <= Len(chosen') /\ chosen'[s] = v
    <3>1. CASE ~proves BY <1>8, <2>12, <3>1
    <3>2. CASE proves
      <4>1. chosen' = Extend(chosen, s, v) BY <1>8, <2>1, <3>2
      <4>2. \/ s \in 1..Len(chosen) /\ chosen' = chosen
            \/ s = Len(chosen) + 1 /\ chosen' = Append(chosen, v)
        <5> HIDE DEF proves
        <5> QED BY <1>4, <2>1, <2>11, <2>12, <3>2, <4>1, ExtendLog
      <4>3. CASE s \in 1..Len(chosen) /\ chosen' = chosen BY <2>11, <2>12, <3>2, <4>3
      <4>4. CASE s = Len(chosen) + 1 /\ chosen' = Append(chosen, v) BY <1>4, <2>12, <3>2, <4>4
      <4> QED BY <4>2, <4>3, <4>4
    <3> QED BY <3>1, <3>2
  <2>14. PICK a \in BOOLEAN : a = (r.proof \/ proves) OBVIOUS
  <2>15. PICK d : d = [c EXCEPT !.round.accepts = h, !.round.proof = a] OBVIOUS
  <2>16. campaigns' = [campaigns EXCEPT ![b] = d]
    <3>1. campaigns' = [campaigns EXCEPT ![b].round.accepts = h, ![b].round.proof = a] BY <1>8, <2>7, <2>14
    <3> HIDE DEF b
    <3> QED BY <2>15, <3>1
  <2>17. /\ d \in CampaignSet /\ d.node = c.node /\ d.basis = c.basis /\ d.selected = c.selected
         /\ d.quorum = c.quorum /\ d.ready = c.ready
         /\ d.round.slot = r.slot /\ d.round.value = r.value /\ d.round.read = r.read
         /\ d.round.proofs = r.proofs /\ d.round.accepts = h /\ d.round.proof = a
    <3>1. IsCounted([c EXCEPT !.round.accepts = h, !.round.proof = a], c, h, a)
      BY <1>4, <2>8, CountedRound, Zenon
    <3> QED BY <2>15, <3>1 DEF IsCounted
  <2>18. DOMAIN campaigns' = DOMAIN campaigns /\ campaigns'[b] = d
         /\ \A k \in DOMAIN campaigns : k # b => campaigns'[k] = campaigns[k]
    BY <1>4, <2>16
  <2>19. \A k \in DOMAIN messages' : \/ k \in DOMAIN messages
                                     \/ proves /\ \E t \in c.quorum : k = Receipt("proof", t, b, c.node, s, v)
    <3>1. CASE proves
      <4>1. other = o BY <2>6
      <4>2. PICK x, y : x = Receipt("proof", c.node, b, c.node, s, v) /\ y = Receipt("proof", o, b, c.node, s, v) OBVIOUS
      <4>3. messages' = Queue(Remove(messages, m), <<x, y>>) BY <1>8, <2>1, <3>1, <4>1, <4>2
      <4>4. DOMAIN messages' \subseteq DOMAIN messages \cup {x, y} BY <4>3, QueueTwo, RemoveDomain
      <4> HIDE DEF proves
      <4> QED BY <2>6, <3>1, <4>2, <4>4
    <3>2. CASE ~proves
      <4>1. messages' = Remove(messages, m) BY <1>8, <3>2
      <4> QED BY <4>1, RemoveDomain
    <3> QED BY <3>1, <3>2
  <2>20. ClusterTypes'
    <3>1. \A t \in c.quorum : Receipt("proof", t, b, c.node, s, v) \in MessageSet
      BY <1>4, <2>6, SentTypes DEF ReceiptKinds
    <3>2. DOMAIN messages' \subseteq MessageSet BY <1>1, <2>19, <3>1 DEF ClusterTypes
    <3>3. campaigns' \in [DOMAIN campaigns' -> CampaignSet] BY <1>1, <2>16, <2>17 DEF ClusterTypes
    <3> QED BY <1>1, <1>5, <2>13, <2>18, <3>2, <3>3 DEF ClusterTypes
  <2>21. Counting(b, n, s, v)
    <3>1. CoreSame BY <1>5 DEF CoreSame
    <3>2. r.proof => a BY <2>14
    <3>3. a => h = c.quorum /\ s <= Len(chosen') /\ chosen'[s] = v
      <4>1. CASE r.proof
        <5>1. ~proves BY <4>1
        <5>2. r.accepts = c.quorum /\ s <= Len(chosen) /\ chosen[s] = v BY <2>1, <2>2, <4>1 DEF RoundAt
        <5>3. chosen' = chosen BY <2>13, <5>1
        <5> QED BY <1>4, <2>8, <5>2, <5>3
      <4>2. CASE proves BY <2>10, <2>13, <4>2
      <4> QED BY <2>14, <4>1, <4>2
    <3>4. chosen' = chosen \/ (a /\ s = Len(chosen) + 1 /\ chosen' = Append(chosen, v)) BY <2>13, <2>14
    <3>5. ASSUME NEW k \in DOMAIN messages', k \notin DOMAIN messages
          PROVE  /\ k.kind = "proof" /\ k.ballot = b /\ k.slot = s /\ k.value = v /\ k.target \in c.quorum /\ a
      <4>1. PICK t \in c.quorum : k = Receipt("proof", t, b, c.node, s, v) BY <2>19, <3>5
      <4>2. a BY <2>14, <2>19, <3>5
      <4> QED BY <4>1, <4>2 DEF Receipt
    <3> HIDE DEF b, proves, have
    <3> QED BY <1>4, <1>5, <2>1, <2>3, <2>4, <2>8, <2>17, <2>18, <3>1, <3>2, <3>3, <3>4, <3>5 DEF Counting
  <2>22. verdict' = "PASS"
    <3>1. proves /\ r.slot \in DOMAIN chosen => chosen[r.slot] = r.value BY <2>1, <2>11, <2>12
    <3>2. proves => \A q \in have : r.slot \in DOMAIN voters[q].accepted /\ voters[q].accepted[r.slot][1] >= b
      <4>1. \A q \in h : q \in Nodes /\ Voted(q, b, s, v) BY <2>8, <2>9
      <4>2. \A q \in h : s \in DOMAIN voters[q].accepted /\ voters[q].accepted[s][1] >= b
        BY <1>1, <4>1 DEF SafetyInv, VoteInv
      <4> QED BY <2>1, <2>7, <4>2
    <3> HIDE DEF proves, have, b, c, r
    <3>3. Rule("I02", proves /\ r.slot \in DOMAIN chosen => chosen[r.slot] = r.value) = <<>> BY <3>1 DEF Rule
    <3>4. Rule("I02", proves => \A q \in have : /\ r.slot \in DOMAIN voters[q].accepted
                                               /\ voters[q].accepted[r.slot][1] >= b) = <<>>
      BY <3>2 DEF Rule
    <3>5. Judge(<<>> \o <<>>) BY <1>8, <3>3, <3>4
    <3> QED BY <1>1, <3>5 DEF Judge
  <2>23. /\ SafetyInv'
         /\ \A k \in DOMAIN campaigns' : CampaignAt(k)'
         /\ \A k \in DOMAIN messages' : MessageAt(k)'
    <3> HIDE DEF b
    <3> QED BY <1>4, <2>20, <2>21, CountingStep
  <2>24. Grows BY <1>4, <1>5, <2>13 DEF Grows
  <2> QED BY <1>6, <2>20, <2>22, <2>23, <2>24, InvBuild
<1> QED BY <1>7, <1>8 DEF DeliverAccepted

-----------------------------------------------------------------------------
(* Counted proofs *)

\* The round of b counts the proof of n for slot s, or ends.
Tallying(b, n, s) ==
    LET r == campaigns[b].round
        t == campaigns'[b].round
    IN /\ b \in DOMAIN campaigns /\ Selected(b) /\ s # 0 /\ r.slot = s /\ ProvenBy(n, b, s)
       /\ CoreSame /\ UNCHANGED <<chosen, selections>> /\ DOMAIN messages' \subseteq DOMAIN messages
       /\ DOMAIN campaigns' = DOMAIN campaigns /\ \A k \in DOMAIN campaigns : k # b => campaigns'[k] = campaigns[k]
       /\ campaigns'[b].node = campaigns[b].node /\ campaigns'[b].basis = campaigns[b].basis
       /\ campaigns'[b].selected = campaigns[b].selected /\ campaigns'[b].quorum = campaigns[b].quorum
       /\ \/ /\ t.slot = s /\ t.value = r.value /\ t.accepts = r.accepts /\ t.proof = r.proof
             /\ t.proofs = r.proofs \cup {n}
          \/ t = NoRound /\ Len(voters[campaigns[b].node].prefix) = s

\* A counted proof is a step of the frame.
LEMMA TallyingFrame ==
    ASSUME ClusterInv, ClusterTypes', NEW b, NEW n \in Nodes, NEW s, Tallying(b, n, s)
    PROVE  /\ Sized' /\ Frame /\ ProposerFrame /\ NewlySettled /\ NewlyChosen /\ ProofSlots
           /\ \A m \in DOMAIN messages' : MessageAt(m)'
<1>1. /\ ClusterTypes /\ Recorded /\ SafetyInv /\ Sized
      /\ \A m \in DOMAIN messages : MessageAt(m)
  BY InvFacts
<1>2. Recorded' BY <1>1 DEF Recorded, Tallying
<1>3. Sized' BY <1>2, SizedNext
<1>4. PromisesRise /\ DisksGrow /\ ProposerFrame BY <1>1, VotersStill DEF Tallying
<1>5. /\ b \in DOMAIN campaigns /\ Selected(b) /\ s # 0 /\ campaigns[b].round.slot = s /\ campaigns[b].node \in Nodes
      /\ NoRound.slot = 0 /\ NoRound.accepts = {} /\ NoRound.proofs = {}
  BY <1>1 DEF Tallying, ClusterTypes, CampaignSet, NoRound
<1>6. NodesStay /\ BasesKept BY <1>5 DEF Tallying, NodesStay, BasesKept
<1>7. NoMoreVotes
  <2>1. \/ campaigns'[b].round.accepts = {}
        \/ /\ campaigns'[b].round.slot = campaigns[b].round.slot /\ campaigns'[b].round.value = campaigns[b].round.value
           /\ campaigns'[b].round.accepts = campaigns[b].round.accepts
    BY <1>5 DEF Tallying
  <2> QED BY <1>5, <2>1 DEF NoMoreVotes, Tallying
<1>8. LogGrows BY <1>1 DEF LogGrows, Sized, Tallying
<1>9. NoNew({"promise"}) /\ NoNew({"accepted"}) /\ NoNew({"proven"}) BY DEF Tallying, NoNew
<1>10. Bases' \subseteq Bases BY <1>6, <1>9, BasesSame
<1>11. VotesByPromise BY <1>7, <1>9, VotesStill DEF Tallying
<1>12. ProofsByPromise
  <2> SUFFICES ASSUME NEW q \in Nodes, NEW k, NEW i, ProvenBy(q, k, i)' PROVE ProvenBy(q, k, i)
    BY DEF ProofsByPromise
  <2>1. CASE (\E m \in DOMAIN messages : m.kind = "proven" /\ m.node = q /\ m.ballot = k /\ m.slot = i)'
    BY <2>1 DEF Tallying, ProvenBy
  <2>2. CASE (k \in DOMAIN campaigns /\ i # 0 /\ campaigns[k].round.slot = i /\ q \in campaigns[k].round.proofs)'
    <3>1. CASE k # b BY <2>2, <3>1 DEF Tallying, ProvenBy
    <3>2. CASE k = b
      <4>1. i = s /\ q \in campaigns[b].round.proofs \cup {n} BY <1>5, <2>2, <3>2 DEF Tallying
      <4>2. CASE q = n BY <3>2, <4>1, <4>2 DEF Tallying
      <4>3. CASE q \in campaigns[b].round.proofs BY <1>5, <3>2, <4>1, <4>3 DEF ProvenBy
      <4> QED BY <4>1, <4>2, <4>3
    <3> QED BY <3>1, <3>2
  <2> QED BY <2>1, <2>2 DEF ProvenBy
<1>13. CampaignsStay /\ RoundsMove
  <2>1. ASSUME NEW k, Selected(k), k # b
        PROVE  /\ Selected(k)' /\ Proposer(k)' = Proposer(k) /\ PairOf(k)' = PairOf(k)
               /\ First(k)' = First(k) /\ Top(k)' >= Top(k) /\ Advances(k)
    <3>1. Unmoved(k) BY <2>1 DEF Unmoved, Tallying, Selected
    <3> QED BY <1>1, <1>3, <1>4, <2>1, <3>1, UnmovedStays DEF Tallying
  <2>2. Selected(b)' /\ Proposer(b)' = Proposer(b) /\ PairOf(b)' = PairOf(b) /\ First(b)' = First(b)
    BY <1>5 DEF Tallying, Selected, Proposer, PairOf, First
  <2>3. Top(b)' = Top(b)
    <3>1. Top(b) = s BY <1>5 DEF Top
    <3>2. CASE campaigns'[b].round.slot = s BY <1>5, <3>1, <3>2 DEF Top
    <3>3. CASE campaigns'[b].round = NoRound /\ Len(voters[campaigns[b].node].prefix) = s
      BY <1>5, <3>1, <3>3 DEF Top, Tallying, CoreSame
    <3> QED BY <3>2, <3>3 DEF Tallying
  <2>4. Top(b)' >= Top(b) BY <1>1, <1>5, <2>3 DEF Sized
  <2>5. Advances(b) BY <1>5 DEF Advances, Tallying
  <2> QED BY <2>1, <2>2, <2>4, <2>5 DEF CampaignsStay, RoundsMove
<1>14. Quiet
  <2>1. NoneSelected BY <1>5 DEF NoneSelected, Selected, Tallying
  <2>2. ASSUME NEW k, NEW i, NEW w, Proposed(k, i, w)' PROVE Proposed(k, i, w)
    <3>1. ~\E q \in Nodes : Marked(voters'[q].accepted, k, i, w) /\ ~Marked(voters[q].accepted, k, i, w)
      BY DEF Tallying, CoreSame
    <3>2. ~\E m \in DOMAIN messages' : m \notin DOMAIN messages BY DEF Tallying
    <3>3. CASE InRound(k, i, w)'
      <4>1. InRound(k, i, w) BY <1>5, <3>3 DEF InRound, Tallying
      <4> QED BY <4>1 DEF Proposed
    <3> QED BY <2>2, <1>10, <3>1, <3>2, <3>3, ProposedCases DEF Tallying
  <2> QED BY <2>1, <2>2 DEF Quiet
<1>15. Frame BY <1>4, <1>8, <1>10, <1>11, <1>12, <1>13, <1>14 DEF Frame, BasesOld
<1>16. NewlySettled BY <1>1, <1>3, <1>8, SettledStill DEF Tallying
<1>17. NewlyChosen /\ ProofSlots BY ProofSlotsFrom DEF NewlyChosen, Tallying
<1>18. \A m \in DOMAIN messages' : MessageAt(m)'
  <2>1. \A m \in DOMAIN messages' : m \in DOMAIN messages BY DEF Tallying
  <2> QED BY <1>1, <1>3, <1>6, <1>13, <1>15, <2>1, MessageKept
<1> QED BY <1>3, <1>4, <1>15, <1>16, <1>17, <1>18

\* What a proof that the round of b counts says of the state.
Completes(m) ==
    LET b == m.ballot
        c == campaigns[b]
        p == voters[c.node].prefix
    IN /\ Len(p) = m.slot /\ p[m.slot] = m.value /\ AnsweredBy(b, m.slot)
       /\ \A w \in 1..Len(p) : p[w] = chosen[w]
       /\ c.round.read # NoRead => \A w \in reads[c.round.read].writes : w < m.slot

\* What a PROVEN that its round counts says of the state.
LEMMA ProvenFacts ==
    ASSUME ClusterInv, NEW m \in DOMAIN messages, m.kind = "proven",
           campaigns[m.ballot].round.slot = m.slot, campaigns[m.ballot].round.value = m.value,
           voters[m.target].promise = m.ballot
    PROVE  /\ m.ballot \in Ballots /\ m.ballot \in DOMAIN campaigns /\ Selected(m.ballot)
           /\ m.node \in Nodes /\ m.node \in campaigns[m.ballot].quorum /\ m.slot \in Slots /\ m.value \in Values
           /\ m.target = campaigns[m.ballot].node /\ m.target \in Nodes
           /\ ProvenBy(m.node, m.ballot, m.slot) /\ RoundAt(m.ballot) /\ campaigns[m.ballot].round.proof
           /\ m.slot <= Len(chosen)
           /\ campaigns[m.ballot].round.proofs \cup {m.node} \subseteq campaigns[m.ballot].quorum
           /\ campaigns[m.ballot].round.proofs \cup {m.node} = campaigns[m.ballot].quorum => Completes(m)
<1> DEFINE b == m.ballot
           c == campaigns[b]
           s == m.slot
           p == voters[c.node].prefix
<1>1. ClusterTypes /\ SafetyInv /\ Sized /\ MessageAt(m) /\ \A k \in DOMAIN campaigns : CampaignAt(k)
  BY InvFacts
<1>2. m \in MessageSet BY <1>1 DEF ClusterTypes
<1>3. /\ b \in Ballots /\ b \in DOMAIN campaigns /\ Selected(b) /\ m.node \in Nodes /\ m.node \in c.quorum
      /\ s \in Slots /\ m.value \in Values /\ m.target = c.node /\ m.target \in Nodes
      /\ s <= Len(chosen) /\ chosen[s] = m.value /\ c.round.proof
  BY <1>1, <1>2, MessageFields DEF MessageAt, ReceiptKinds
<1>4. RoundAt(b) BY <1>1, <1>3 DEF CampaignAt, Slots
<1>5. ProvenBy(m.node, b, s) BY DEF ProvenBy
<1>6. c.round.proofs \cup {m.node} \subseteq c.quorum BY <1>3, <1>4 DEF RoundAt
<1>7. ASSUME c.round.proofs \cup {m.node} = c.quorum PROVE Completes(m)
  <2>1. \A q \in c.quorum : ProvenBy(q, b, s) BY <1>3, <1>5, <1>7 DEF ProvenBy, Slots
  <2>2. SelectedAt(b) BY <1>1, <1>3 DEF SafetyInv
  <2>3. PICK o \in Nodes : o # c.node /\ c.quorum = {c.node, o} BY <2>2 DEF SelectedAt, Proposer, PairOf
  <2>4. Retains(c.node, b, s) /\ Retains(o, b, s)
    <3>1. c.node \in Nodes /\ ProvenBy(c.node, b, s) /\ ProvenBy(o, b, s) BY <1>3, <2>1, <2>3
    <3> HIDE DEF b, s
    <3> QED BY <1>1, <3>1 DEF SafetyInv
  <2>5. s <= Len(p) /\ Len(p) <= s BY <1>3, <1>4, <2>4 DEF Retains, RoundAt
  <2>6. Len(p) \in Nat /\ s \in Nat /\ s # 0 BY <1>1, <1>3 DEF Sized, Slots
  <2>7. Len(p) = s BY <2>5, <2>6
  <2>8. \A w \in 1..Len(p) : p[w] = chosen[w] BY <1>1, <1>3 DEF SafetyInv, Settled
  <2>9. p[s] = m.value BY <1>3, <2>6, <2>7, <2>8
  <2>10. AnsweredBy(b, s)
    <3> HIDE DEF b, s
    <3> QED BY <1>3, <2>3, <2>4, <2>5 DEF AnsweredBy, Proposer
  <2>11. ASSUME c.round.read # NoRead, NEW w \in reads[c.round.read].writes PROVE w < s
    <3>1. w < s \/ \E q \in c.quorum : Refuses(q, b, s) BY <1>4, <2>11 DEF RoundAt
    <3>2. \A q \in c.quorum : Voted(q, b, s, m.value) BY <1>3, <1>4 DEF RoundAt, Voted, InRound, Slots
    <3> QED BY <3>1, <3>2 DEF Refuses
  <2> QED BY <2>7, <2>8, <2>9, <2>10, <2>11 DEF Completes
<1> QED BY <1>3, <1>4, <1>5, <1>6, <1>7

\* The read rd is pinned at p, or none is.
Pinning(rd, p) ==
    \/ UNCHANGED <<pins, reads>>
    \/ /\ rd \in DOMAIN reads /\ p \in Seq(Values)
       /\ pins' = Extend(pins, rd, p) /\ reads' = [reads EXCEPT ![rd].pin = p]

\* A set with a latest slot, and one slot more.
LEMMA ToppedAdd ==
    ASSUME NEW S, S \subseteq Nat, NEW s \in Nat, Topped(S)
    PROVE  Topped(S \cup {s})
<1>1. CASE S = {} BY <1>1 DEF Topped
<1>2. CASE S # {}
  <2>1. PICK k \in S : \A j \in S : j <= k BY <1>2 DEF Topped
  <2>2. k \in Nat /\ (s <= k \/ k <= s) BY <2>1
  <2>3. CASE s <= k BY <2>1, <2>3 DEF Topped
  <2>4. CASE k <= s
    <3>1. \A j \in S \cup {s} : j <= s BY <2>1, <2>2, <2>4
    <3> QED BY <3>1 DEF Topped
  <2> QED BY <2>2, <2>3, <2>4
<1> QED BY <1>1, <1>2

\* The read ledger when a read is pinned and its slot is answered.
LEMMA PinningStep ==
    ASSUME ClusterTypes, ReadInv, NEW s \in Slots, NEW rd, NEW p, Pinning(rd, p), answers' = answers \cup {s}
    PROVE  /\ ReadInv' /\ answers' \subseteq Slots
           /\ reads' \in [DOMAIN reads' -> ReadSet] /\ DOMAIN reads' \subseteq ReadIds
           /\ pins' \in [DOMAIN pins' -> Seq(Values)] /\ DOMAIN pins' \subseteq ReadIds
           /\ \A k \in DOMAIN reads : k # rd => k \in DOMAIN reads' /\ reads'[k] = reads[k]
<1>1. /\ reads \in [DOMAIN reads -> ReadSet] /\ DOMAIN reads \subseteq ReadIds /\ answers \subseteq Slots
      /\ pins \in [DOMAIN pins -> Seq(Values)] /\ DOMAIN pins \subseteq ReadIds
  BY DEF ClusterTypes
<1>2. Topped(answers') /\ answers' \subseteq Slots
  <2>1. answers \subseteq Nat /\ s \in Nat BY <1>1 DEF Slots
  <2>2. Topped(answers) BY DEF ReadInv
  <2> QED BY <1>1, <2>1, <2>2, ToppedAdd
<1>3. CASE UNCHANGED <<pins, reads>>
  <2>1. ReadInv' BY <1>2, <1>3 DEF ReadInv, Topped
  <2> QED BY <1>1, <1>2, <1>3, <2>1
<1>4. CASE /\ rd \in DOMAIN reads /\ p \in Seq(Values)
           /\ pins' = Extend(pins, rd, p) /\ reads' = [reads EXCEPT ![rd].pin = p]
  <2>1. reads[rd] \in ReadSet BY <1>1, <1>4
  <2>2. PICK t : t = [reads[rd] EXCEPT !.pin = p] OBVIOUS
  <2>3. t \in ReadSet /\ t.pin = p /\ t.writes = reads[rd].writes BY <1>4, <2>1, <2>2 DEF ReadSet
  <2>4. reads' = [reads EXCEPT ![rd] = t] BY <1>4, <2>2
  <2>5. /\ reads' \in [DOMAIN reads -> ReadSet] /\ DOMAIN reads' = DOMAIN reads /\ reads'[rd] = t
        /\ \A k \in DOMAIN reads : k # rd => reads'[k] = reads[k]
    BY <1>1, <1>4, <2>3, <2>4
  <2>6. /\ DOMAIN pins' = DOMAIN pins \cup {rd} /\ pins'[rd] = p
        /\ \A k \in DOMAIN pins : k # rd => pins'[k] = pins[k]
        /\ pins' \in [DOMAIN pins' -> Seq(Values)]
    BY <1>1, <1>4 DEF Extend
  <2>7. \A k \in DOMAIN reads' : Topped(reads'[k].writes) /\ reads'[k].writes \subseteq answers'
    <3>1. \A k \in DOMAIN reads : reads'[k].writes = reads[k].writes BY <2>3, <2>5
    <3> QED BY <2>5, <3>1 DEF ReadInv
  <2>8. \A k \in DOMAIN pins' : k \in DOMAIN reads' /\ pins'[k] = reads'[k].pin
    BY <1>4, <2>3, <2>5, <2>6 DEF ReadInv
  <2>9. ReadInv' BY <1>2, <2>7, <2>8 DEF ReadInv, Topped
  <2> QED BY <1>1, <1>2, <1>4, <2>5, <2>6, <2>9
<1> QED BY <1>3, <1>4 DEF Pinning

\* A read is in the round of one campaign.
LEMMA OneReader ==
    ASSUME ClusterInv, NEW b \in DOMAIN campaigns, NEW k \in DOMAIN campaigns, k # b, campaigns[b].round.slot # 0,
           NEW x \in DOMAIN reads, x = campaigns[k].round.read
    PROVE  x # campaigns[b].round.read
<1>1. ClusterTypes /\ CampaignAt(b) /\ CampaignAt(k) BY InvFacts
<1>2. x # NoRead BY <1>1, ClusterAssumption DEF ClusterTypes, NoRead
<1>3. campaigns[k].round.slot # 0
  <2>1. NoRound.read = NoRead BY DEF NoRound, NoRead
  <2> QED BY <1>1, <1>2, <2>1 DEF CampaignAt
<1>4. RoundAt(b) /\ RoundAt(k) BY <1>1, <1>3 DEF CampaignAt
<1> QED BY <1>2, <1>4 DEF RoundAt

\* Delivery of a PROVEN: the last one answers the slot and pins the read.
LEMMA DeliverProvenStep ==
    ASSUME ClusterInv, NEW m \in DOMAIN messages, DeliverProven(m)
    PROVE  ClusterInv'
<1> DEFINE b == m.ballot
           c == campaigns[b]
           v == voters[m.target]
           r == c.round
           have == r.proofs \cup {m.node}
           done == Cardinality(have) = 2
           next == done /\ r.activation /\ r.value # Activation(b)
           pinned == done /\ r.read # NoRead /\ Cardinality(DOMAIN pins) < PinLimit
<1>1. ClusterTypes /\ Recorded /\ SafetyInv /\ Sized /\ ReadInv /\ verdict = "PASS"
      /\ \A k \in DOMAIN campaigns : CampaignAt(k)
  BY InvFacts
<1>2. m.kind = "proven" /\ UNCHANGED <<voters, chosen, selections, anomalies>> BY DEF DeliverProven
<1>3. CoreSame BY <1>2 DEF CoreSame
<1>4. CASE messages' = Remove(messages, m) /\ UNCHANGED <<campaigns, answers, pins, reads, verdict>>
  <2>1. DOMAIN messages' \subseteq DOMAIN messages BY <1>4, RemoveDomain
  <2>2. ClusterTypes' BY <1>1, <1>2, <1>4, <2>1 DEF ClusterTypes
  <2>3. Still BY <1>2, <1>3, <1>4, <2>1 DEF Still, Unmoved, ReadsKept
  <2>4. ReadInv' BY <1>1, <1>4 DEF ReadInv, Topped
  <2> QED BY <1>1, <1>4, <2>2, <2>3, <2>4, StillStep, InvBuild
<1>5. CASE /\ v.promise = b /\ r.slot = m.slot /\ r.value = m.value
           /\ campaigns' = [campaigns EXCEPT ![b] =
                    IF ~done THEN [c EXCEPT !.round.proofs = have]
                    ELSE IF next THEN Begun(c, v.prefix, Activation(b), TRUE, NoRead)
                    ELSE [c EXCEPT !.round = NoRound, !.ready = @ \/ r.activation]]
           /\ messages' = IF next THEN Queue(Remove(messages, m), Accepts(b, c.quorum, v.prefix, Activation(b)))
                              ELSE Remove(messages, m)
           /\ answers' = IF done THEN answers \cup {r.slot} ELSE answers
           /\ pins' = IF pinned THEN Extend(pins, r.read, v.prefix) ELSE pins
           /\ reads' = IF pinned THEN [reads EXCEPT ![r.read].pin = v.prefix] ELSE reads
           /\ Judge(   Rule("I03", done => m.target \in have)
                        \o Rule("I04", done => r.slot <= Len(v.prefix) /\ v.prefix[r.slot] = r.value)
                        \o Rule("I06", pinned => v.prefix[Len(v.prefix)] = Barrier(b, r.read) /\ r.proof)
                        \o Rule("I06", pinned => \A s \in reads[r.read].writes : s <= Len(v.prefix) /\ v.prefix[s] = chosen[s]))
  <2>1. PICK n, s, p : n = m.node /\ s = m.slot /\ p = voters[c.node].prefix OBVIOUS
  <2>a. v.promise = b /\ r.slot = m.slot /\ r.value = m.value BY <1>5
  <2>2. /\ b \in Ballots /\ b \in DOMAIN campaigns /\ Selected(b)
        /\ n \in Nodes /\ n \in c.quorum /\ s \in Slots /\ m.value \in Values
        /\ m.target = c.node /\ c.node \in Nodes /\ ProvenBy(n, b, s) /\ RoundAt(b) /\ r.proof
        /\ s <= Len(chosen) /\ have \subseteq c.quorum
        /\ have = c.quorum => Completes(m)
    BY <1>2, <2>a, <2>1, ProvenFacts
  <2>3. c \in CampaignSet /\ p \in Seq(Values) /\ s \in Nat /\ s # 0 /\ s = r.slot /\ p = v.prefix /\ Len(p) \in Nat
    <3>1. c \in CampaignSet /\ voters[c.node] \in VoterSet BY <1>1, <2>2 DEF ClusterTypes
    <3>2. p \in Seq(Values) BY <2>1, <3>1 DEF VoterSet
    <3>3. s \in Nat /\ s # 0 BY <2>2 DEF Slots
    <3>4. s = r.slot /\ p = v.prefix BY <2>1, <2>2, <2>a
    <3> QED BY <3>1, <3>2, <3>3, <3>4
  <2>4. SelectedAt(b) BY <1>1, <2>2 DEF SafetyInv
  <2>5. PICK o \in Nodes : o # c.node /\ c.quorum = {c.node, o} BY <2>4 DEF SelectedAt, Proposer, PairOf
  <2>6. done => have = c.quorum
    <3>1. PICK l, h : l = c.node /\ h = have OBVIOUS
    <3>2. l # o /\ h \subseteq {l, o} /\ c.quorum = {l, o} BY <2>2, <2>5, <3>1
    <3>3. Cardinality(h) = 2 => h = {l, o} BY <3>2, CardinalityOfPair
    <3> QED BY <3>1, <3>2, <3>3
  <2>7. done => /\ Len(p) = s /\ p[s] = m.value /\ AnsweredBy(b, s)
                /\ \A w \in 1..Len(p) : p[w] = chosen[w]
                /\ r.read # NoRead => \A w \in reads[r.read].writes : w < s
    BY <2>1, <2>2, <2>6 DEF Completes
  <2>8. Pinning(r.read, p)
    <3>1. pinned => r.read \in DOMAIN reads BY <2>2 DEF RoundAt
    <3> HIDE DEF pinned
    <3> QED BY <1>5, <2>3, <3>1 DEF Pinning
  <2>9. verdict' = "PASS"
    <3>1. done => m.target \in have BY <2>2, <2>5, <2>6
    <3>2. done => r.slot <= Len(v.prefix) /\ v.prefix[r.slot] = r.value
      <4>1. done => s <= Len(p) /\ p[s] = r.value BY <2>a, <2>3, <2>7
      <4> HIDE DEF done
      <4> QED BY <2>3, <4>1
    <3>3. pinned => v.prefix[Len(v.prefix)] = Barrier(b, r.read) /\ r.proof
      <4>1. pinned => r.value = Barrier(b, r.read) BY <2>2 DEF RoundAt
      <4> QED BY <2>a, <2>2, <2>3, <2>7, <4>1
    <3>4. pinned => \A w \in reads[r.read].writes : w <= Len(v.prefix) /\ v.prefix[w] = chosen[w]
      <4> SUFFICES ASSUME pinned, NEW w \in reads[r.read].writes PROVE w <= Len(p) /\ p[w] = chosen[w] BY <2>3
      <4>1. w < s /\ Len(p) = s BY <2>7
      <4>2. r.read \in DOMAIN reads BY <2>2 DEF RoundAt
      <4>3. w \in Nat \ {0} BY <1>1, <4>2 DEF ClusterTypes, ReadSet, Slots
      <4>4. w \in 1..Len(p) BY <2>3, <4>1, <4>3
      <4> QED BY <2>7, <4>4
    <3> HIDE DEF done, pinned, have, r, v, b
    <3> QED BY <1>1, <1>5, <3>1, <3>2, <3>3, <3>4 DEF Judge, Rule
  <2>10. ASSUME Sized', Frame, ProposerFrame, NEW k \in DOMAIN campaigns, k # b,
                DOMAIN campaigns' = DOMAIN campaigns, campaigns'[k] = campaigns[k],
                \A x \in DOMAIN reads : x # r.read => x \in DOMAIN reads' /\ reads'[x] = reads[x]
         PROVE  CampaignAt(k)'
    <3>1. Unmoved(k) BY <2>10 DEF Unmoved
    <3>2. \A x \in DOMAIN reads : x = campaigns[k].round.read => x \in DOMAIN reads' /\ reads'[x] = reads[x]
      BY <2>2, <2>3, <2>10, OneReader
    <3> QED BY <1>1, <1>2, <2>10, <3>1, <3>2, CampaignKept
  <2>11. CASE ~done
    <3>1. ~next /\ ~pinned BY <2>11
    <3>2. PICK h : h = have OBVIOUS
    <3>3. /\ campaigns' = [campaigns EXCEPT ![b] = [c EXCEPT !.round.proofs = h]]
          /\ messages' = Remove(messages, m) /\ UNCHANGED <<answers, pins, reads>>
      BY <1>5, <2>11, <3>1, <3>2
    <3>4. h \in SUBSET Nodes /\ h = r.proofs \cup {n} /\ h \subseteq c.quorum BY <2>1, <2>2, <2>5, <3>2
    <3>5. PICK d : d = [c EXCEPT !.round.proofs = h] OBVIOUS
    <3>6. /\ d \in CampaignSet /\ d.node = c.node /\ d.basis = c.basis /\ d.selected = c.selected
          /\ d.quorum = c.quorum /\ d.ready = c.ready
          /\ d.round.slot = r.slot /\ d.round.value = r.value /\ d.round.read = r.read
          /\ d.round.proofs = h /\ d.round.accepts = r.accepts /\ d.round.proof = r.proof
      <4>1. r \in RoundSet BY <2>3 DEF CampaignSet
      <4>2. PICK t : t = [r EXCEPT !.proofs = h] OBVIOUS
      <4>3. t \in RoundSet /\ t.slot = r.slot /\ t.value = r.value /\ t.read = r.read
            /\ t.proofs = h /\ t.accepts = r.accepts /\ t.proof = r.proof
        BY <3>4, <4>1, <4>2 DEF RoundSet
      <4>4. d = [c EXCEPT !.round = t] BY <3>5, <4>2
      <4> QED BY <2>3, <4>3, <4>4 DEF CampaignSet
    <3>7. DOMAIN campaigns' = DOMAIN campaigns /\ campaigns'[b] = d
          /\ (\A k \in DOMAIN campaigns : k # b => campaigns'[k] = campaigns[k])
          /\ campaigns' \in [DOMAIN campaigns' -> CampaignSet]
      <4>1. campaigns' = [campaigns EXCEPT ![b] = d] BY <3>3, <3>5
      <4> QED BY <1>1, <2>2, <3>6, <4>1 DEF ClusterTypes
    <3>8. DOMAIN messages' \subseteq DOMAIN messages BY <3>3, RemoveDomain
    <3>9. ClusterTypes' BY <1>1, <1>2, <3>3, <3>7, <3>8 DEF ClusterTypes
    <3>10. Tallying(b, n, s)
      <4> HIDE DEF b
      <4> QED BY <1>2, <1>3, <2>2, <2>3, <3>4, <3>6, <3>7, <3>8 DEF Tallying
    <3>11. /\ Sized' /\ Frame /\ ProposerFrame /\ NewlySettled /\ NewlyChosen /\ ProofSlots
           /\ \A k \in DOMAIN messages' : MessageAt(k)'
      <4> HIDE DEF b
      <4> QED BY <2>2, <3>9, <3>10, TallyingFrame
    <3>12. SafetyInv'
      <4>1. NewlyAnswered BY <3>3 DEF NewlyAnswered
      <4> QED BY <1>1, <3>11, <4>1, CoreStep
    <3>13. RoundAt(b)'
      <4>1. Selected(b)' BY <2>2, <3>11 DEF Frame, CampaignsStay
      <4>2. ReadAt(b) BY <2>2 DEF RoundAt, ReadAt
      <4>3. \A x \in DOMAIN reads : x \in DOMAIN reads' /\ reads'[x] = reads[x] BY <3>3
      <4>4. ReadAt(b)'
        <5> HIDE DEF b
        <5> QED BY <1>1, <2>2, <3>6, <3>7, <3>11, <4>2, <4>3, ReadKept DEF Frame
      <4>5. /\ r.value \in Values /\ r.slot <= Len(chosen) + 1
            /\ voters[c.node].promise = b => Len(voters[c.node].prefix) <= r.slot
            /\ r.accepts \subseteq c.quorum
            /\ r.accepts = c.quorum /\ r.slot <= Len(chosen) /\ chosen[r.slot] = r.value
        BY <2>2 DEF RoundAt
      <4> HIDE DEF b
      <4> QED BY <1>2, <2>2, <3>4, <3>6, <3>7, <4>1, <4>4, <4>5 DEF RoundAt, ReadAt
    <3>14. CampaignAt(b)'
      <4>1. CampaignAt(b) BY <1>1, <2>2
      <4>2. c.selected BY <2>2 DEF Selected
      <4> HIDE DEF b
      <4> QED BY <1>2, <2>3, <3>6, <3>7, <3>13, <4>1, <4>2 DEF CampaignAt
    <3>15. \A x \in DOMAIN reads : x # r.read => x \in DOMAIN reads' /\ reads'[x] = reads[x] BY <3>3
    <3>16. \A k \in DOMAIN campaigns' : CampaignAt(k)' BY <2>10, <3>7, <3>11, <3>14, <3>15
    <3>17. ReadInv' BY <1>1, <3>3 DEF ReadInv, Topped
    <3> QED BY <2>9, <3>9, <3>11, <3>12, <3>16, <3>17, InvBuild
  <2>12. CASE done
    <3>1. answers' = answers \cup {s} BY <1>5, <2>3, <2>12
    <3>2. /\ ReadInv' /\ answers' \subseteq Slots
          /\ reads' \in [DOMAIN reads' -> ReadSet] /\ DOMAIN reads' \subseteq ReadIds
          /\ pins' \in [DOMAIN pins' -> Seq(Values)] /\ DOMAIN pins' \subseteq ReadIds
          /\ \A k \in DOMAIN reads : k # r.read => k \in DOMAIN reads' /\ reads'[k] = reads[k]
      <4>1. PICK rd : rd = r.read OBVIOUS
      <4>2. Pinning(rd, p) BY <2>8, <4>1
      <4> HIDE DEF r
      <4> QED BY <1>1, <2>2, <3>1, <4>1, <4>2, PinningStep
    <3>3. Len(p) = s /\ AnsweredBy(b, s) BY <2>7, <2>12
    <3>4. Sized' /\ Frame => NewlyAnswered
      <4> SUFFICES ASSUME Sized', Frame PROVE NewlyAnswered OBVIOUS
      <4>1. AnsweredBy(b, s)'
        <5> HIDE DEF b
        <5> QED BY <1>1, <2>3, <3>3, AnsweredStep
      <4>2. s <= Len(chosen') BY <1>2, <2>2
      <4> QED BY <3>1, <4>1, <4>2 DEF NewlyAnswered
    <3>5. CASE ~next
      <4>1. /\ campaigns' = [campaigns EXCEPT ![b] = [c EXCEPT !.round = NoRound, !.ready = @ \/ r.activation]]
            /\ messages' = Remove(messages, m)
        BY <1>5, <2>12, <3>5
      <4>2. PICK a \in BOOLEAN : a = (c.ready \/ r.activation) OBVIOUS
      <4>3. PICK d : d = [c EXCEPT !.round = NoRound, !.ready = a] OBVIOUS
      <4>4. /\ d \in CampaignSet /\ d.node = c.node /\ d.basis = c.basis /\ d.selected = c.selected
            /\ d.quorum = c.quorum /\ d.round = NoRound
        <5>1. NoRound \in RoundSet BY NoRoundTypes
        <5> QED BY <2>3, <4>3, <5>1 DEF CampaignSet
      <4>5. DOMAIN campaigns' = DOMAIN campaigns /\ campaigns'[b] = d
            /\ (\A k \in DOMAIN campaigns : k # b => campaigns'[k] = campaigns[k])
            /\ campaigns' \in [DOMAIN campaigns' -> CampaignSet]
        <5>1. campaigns' = [campaigns EXCEPT ![b] = d] BY <4>1, <4>2, <4>3
        <5> QED BY <1>1, <2>2, <4>4, <5>1 DEF ClusterTypes
      <4>6. DOMAIN messages' \subseteq DOMAIN messages BY <4>1, RemoveDomain
      <4>7. ClusterTypes' BY <1>1, <1>2, <3>2, <4>5, <4>6 DEF ClusterTypes
      <4>8. Tallying(b, n, s)
        <5> HIDE DEF b
        <5> QED BY <1>2, <1>3, <2>1, <2>2, <2>3, <3>3, <4>4, <4>5, <4>6 DEF Tallying
      <4>9. /\ Sized' /\ Frame /\ ProposerFrame /\ NewlySettled /\ NewlyChosen /\ ProofSlots
            /\ \A k \in DOMAIN messages' : MessageAt(k)'
        <5> HIDE DEF b
        <5> QED BY <2>2, <4>7, <4>8, TallyingFrame
      <4>10. SafetyInv' BY <1>1, <3>4, <4>9, CoreStep
      <4>11. CampaignAt(b)'
        <5>1. CampaignAt(b) BY <1>1, <2>2
        <5>2. c.selected BY <2>2 DEF Selected
        <5> HIDE DEF b
        <5> QED BY <1>2, <4>4, <4>5, <5>1, <5>2, NoRoundTypes DEF CampaignAt
      <4>12. \A k \in DOMAIN campaigns' : CampaignAt(k)' BY <2>10, <3>2, <4>5, <4>9, <4>11
      <4> QED BY <2>9, <3>2, <4>7, <4>9, <4>10, <4>12, InvBuild
    <3>6. CASE next
      <4>1. PICK w \in Values : w = Activation(b) BY <2>2, ValueTypes
      <4>2. PICK a \in BOOLEAN : a = TRUE OBVIOUS
      <4>3. /\ campaigns' = [campaigns EXCEPT ![b] = Begun(c, p, w, a, NoRead)]
            /\ messages' = Queue(Remove(messages, m), Accepts(b, c.quorum, p, w))
        BY <1>5, <2>3, <2>12, <3>6, <4>1, <4>2
      <4>4. Accepts(b, c.quorum, p, w) = <<AcceptMsg(c.node, b, p, w), AcceptMsg(o, b, p, w)>>
        <5>1. o # campaigns[b].node /\ c.quorum = {campaigns[b].node, o} BY <2>5
        <5> HIDE DEF b
        <5>2. Accepts(b, {campaigns[b].node, o}, p, w) = <<AcceptMsg(campaigns[b].node, b, p, w), AcceptMsg(o, b, p, w)>>
          BY <5>1, AcceptsPair
        <5> QED BY <5>1, <5>2
      <4>5. DOMAIN messages' \subseteq DOMAIN messages \cup {AcceptMsg(c.node, b, p, w), AcceptMsg(o, b, p, w)}
        <5>1. messages' = Queue(Remove(messages, m), <<AcceptMsg(c.node, b, p, w), AcceptMsg(o, b, p, w)>>)
          BY <4>3, <4>4
        <5> QED BY <5>1, QueueTwo, RemoveDomain
      <4>6. IsBegun(Begun(c, p, w, a, NoRead), c, p, w, NoRead)
        <5>1. NoRead \in ReadIds \cup {NoRead} OBVIOUS
        <5> QED BY <2>3, <5>1, BegunFields, Zenon
      <4>7. DOMAIN campaigns' = DOMAIN campaigns /\ campaigns'[b] = Begun(c, p, w, a, NoRead)
            /\ (\A k \in DOMAIN campaigns : k # b => campaigns'[k] = campaigns[k])
            /\ campaigns' \in [DOMAIN campaigns' -> CampaignSet]
        BY <1>1, <2>2, <4>3, <4>6 DEF ClusterTypes, IsBegun
      <4>8. ClusterTypes'
        <5>1. DOMAIN messages' \subseteq MessageSet BY <1>1, <2>2, <2>3, <2>5, <4>5, SentTypes DEF ClusterTypes
        <5> QED BY <1>1, <1>2, <3>2, <4>7, <5>1 DEF ClusterTypes
      <4>9. Continuing(b, p, w)
        <5>1. Top(b) = s BY <2>3 DEF Top
        <5>2. Len(p) + 1 > Top(b) BY <2>3, <3>3, <5>1
        <5>3. \A k \in DOMAIN messages' :
                \/ k \in DOMAIN messages
                \/ k.kind = "accept" /\ k.ballot = b /\ k.prefix = p /\ k.value = w /\ k.target \in c.quorum
          BY <2>5, <4>5 DEF AcceptMsg
        <5> HIDE DEF b
        <5> QED BY <1>2, <1>3, <2>1, <2>2, <4>6, <4>7, <5>2, <5>3 DEF Continuing, IsBegun
      <4>10. /\ Sized' /\ Frame /\ ProposerFrame /\ NewlySettled /\ NewlyChosen /\ ProofSlots
             /\ \A k \in DOMAIN messages' : MessageAt(k)'
        <5> HIDE DEF b
        <5> QED BY <4>8, <4>9, ContinuingFrame
      <4>11. SafetyInv' BY <1>1, <3>4, <4>10, CoreStep
      <4>12. ReadAt(b)'
        <5>1. campaigns'[b].round.read = NoRead BY <4>6, <4>7 DEF IsBegun
        <5> QED BY <5>1 DEF ReadAt
      <4>13. CampaignAt(b)'
        <5> HIDE DEF b
        <5> QED BY <4>8, <4>9, <4>12, ContinuingRound
      <4>14. \A k \in DOMAIN campaigns' : CampaignAt(k)' BY <2>10, <3>2, <4>7, <4>10, <4>13
      <4> QED BY <2>9, <3>2, <4>8, <4>10, <4>11, <4>14, InvBuild
    <3> QED BY <3>5, <3>6
  <2> QED BY <2>11, <2>12
<1> QED BY <1>4, <1>5 DEF DeliverProven

\* A slot of the log is answered, and a read pinned there that was sent after
\* answers to earlier slots only.
Answers ==
    \/ UNCHANGED <<answers, reads>>
    \/ \E s \in 1..Len(chosen) :
          /\ answers' = answers \cup {s}
          /\ \/ reads' = reads
             \/ \E rd \in DOMAIN reads : \E p \in Seq(Values) :
                   /\ Len(p) = s /\ reads[rd].pin = <<>> /\ reads' = [reads EXCEPT ![rd].pin = p]
                   /\ \A w \in reads[rd].writes : w < s

\* What a PROVEN adds to the answers and the reads.
LEMMA ProvenAnswers ==
    ASSUME ClusterInv, NEW m \in DOMAIN messages, DeliverProven(m)
    PROVE  Answers
<1> DEFINE b == m.ballot
           c == campaigns[b]
           v == voters[m.target]
           r == c.round
           have == r.proofs \cup {m.node}
           done == Cardinality(have) = 2
           pinned == done /\ r.read # NoRead /\ Cardinality(DOMAIN pins) < PinLimit
<1>1. ClusterTypes /\ Recorded /\ SafetyInv /\ Sized BY InvFacts
<1>2. m.kind = "proven" BY DEF DeliverProven
<1>3. CASE UNCHANGED <<answers, reads>> BY <1>3 DEF Answers
<1>4. CASE /\ v.promise = b /\ r.slot = m.slot /\ r.value = m.value
           /\ answers' = IF done THEN answers \cup {r.slot} ELSE answers
           /\ reads' = IF pinned THEN [reads EXCEPT ![r.read].pin = v.prefix] ELSE reads
  <2>1. PICK s, p : s = m.slot /\ p = voters[c.node].prefix OBVIOUS
  <2>a. v.promise = b /\ r.slot = m.slot /\ r.value = m.value BY <1>4
  <2>2. /\ b \in DOMAIN campaigns /\ Selected(b) /\ s \in Slots
        /\ m.target = c.node /\ c.node \in Nodes /\ RoundAt(b)
        /\ s <= Len(chosen) /\ have \subseteq c.quorum
        /\ have = c.quorum => Completes(m)
    BY <1>2, <2>a, <2>1, ProvenFacts
  <2>3. p \in Seq(Values) /\ s \in 1..Len(chosen) /\ s = r.slot /\ p = v.prefix
    <3>1. p \in Seq(Values) BY <1>1, <2>1, <2>2 DEF ClusterTypes, VoterSet
    <3>2. s \in 1..Len(chosen) BY <1>1, <2>2 DEF Sized, Slots
    <3> QED BY <2>1, <2>2, <2>a, <3>1, <3>2
  <2>4. SelectedAt(b) BY <1>1, <2>2 DEF SafetyInv
  <2>5. PICK o \in Nodes : o # c.node /\ c.quorum = {c.node, o} BY <2>4 DEF SelectedAt, Proposer, PairOf
  <2>6. done => have = c.quorum
    <3>1. PICK l, h : l = c.node /\ h = have OBVIOUS
    <3>2. l # o /\ h \subseteq {l, o} /\ c.quorum = {l, o} BY <2>2, <2>5, <3>1
    <3>3. Cardinality(h) = 2 => h = {l, o} BY <3>2, CardinalityOfPair
    <3> QED BY <3>1, <3>2, <3>3
  <2>7. done => Len(p) = s /\ (r.read # NoRead => \A w \in reads[r.read].writes : w < s)
    BY <2>1, <2>2, <2>6 DEF Completes
  <2>8. CASE ~done BY <1>4, <2>8 DEF Answers
  <2>9. CASE done
    <3>1. answers' = answers \cup {s} BY <1>4, <2>3, <2>9
    <3>2. CASE ~pinned
      <4>1. reads' = reads BY <1>4, <3>2
      <4> QED BY <2>3, <3>1, <4>1 DEF Answers
    <3>3. CASE pinned
      <4>1. PICK rd : rd = r.read OBVIOUS
      <4>2. reads' = [reads EXCEPT ![rd].pin = p] BY <1>4, <2>3, <3>3, <4>1
      <4>3. rd \in DOMAIN reads /\ reads[rd].pin = <<>> BY <2>2, <3>3, <4>1 DEF RoundAt
      <4>4. Len(p) = s /\ \A w \in reads[rd].writes : w < s BY <2>7, <3>3, <4>1
      <4> QED BY <2>3, <3>1, <4>2, <4>3, <4>4 DEF Answers
    <3> QED BY <3>2, <3>3
  <2> QED BY <2>8, <2>9
<1> QED BY <1>3, <1>4 DEF DeliverProven

-----------------------------------------------------------------------------
(* Initial states and all steps *)

\* The invariant holds of the initial cluster.
LEMMA ClusterStarts == ClusterInit => ClusterInv
<1> SUFFICES ASSUME ClusterInit PROVE ClusterInv OBVIOUS
<1>1. /\ voters = [n \in Nodes |-> [promise |-> 1, prefix |-> <<>>, accepted |-> <<>>,
                                    generation |-> 1, sealed |-> TRUE, promises |-> 1]]
      /\ campaigns = <<>> /\ DOMAIN messages = {} /\ pins = <<>> /\ reads = <<>>
      /\ chosen = <<>> /\ selections = <<>> /\ answers = {} /\ verdict = "PASS"
  BY DEF ClusterInit, EmptyBag, SetToBag
<1>2. DOMAIN campaigns = {} /\ DOMAIN pins = {} /\ DOMAIN reads = {} /\ DOMAIN selections = {} /\ Len(chosen) = 0
  BY <1>1
<1>3. \A S : <<>> \in [{} -> S] OBVIOUS
<1>4. <<>> \in VoteTables
  <2>1. {} \in SUBSET Slots /\ <<>> \in [{} -> Marks] BY <1>3
  <2> QED BY <2>1 DEF VoteTables
<1>5. ClusterTypes
  <2>1. [promise |-> 1, prefix |-> <<>>, accepted |-> <<>>, generation |-> 1, sealed |-> TRUE, promises |-> 1] \in VoterSet
    BY <1>4 DEF VoterSet
  <2>2. voters \in [Nodes -> VoterSet] BY <1>1, <2>1
  <2>3. chosen \in Seq(Values) BY <1>1
  <2> QED BY <1>1, <1>2, <1>3, <2>2, <2>3 DEF ClusterTypes
<1>6. Bases = {} BY <1>1, <1>2 DEF Bases
<1>7. \A n \in Nodes : DOMAIN voters[n].accepted = {} /\ Len(voters[n].prefix) = 0 BY <1>1
<1>8. \A b, s, v : ~Proposed(b, s, v) BY <1>1, <1>2, <1>6, <1>7 DEF Proposed, Marked, InRound
<1>9. \A n \in Nodes : \A b, s, v : ~Voted(n, b, s, v) BY <1>8, VotedProposed
<1>10. \A n \in Nodes : \A b, s : ~ProvenBy(n, b, s) BY <1>1, <1>2 DEF ProvenBy
<1>11. \A b : ~Selected(b) BY <1>2 DEF Selected
<1>12. ProposalInv BY <1>8 DEF ProposalInv
<1>13. VoteInv BY <1>7, <1>9 DEF VoteInv
<1>14. \A n \in Nodes : Settled(voters[n].prefix) BY <1>2, <1>7 DEF Settled
<1>15. SafetyInv BY <1>1, <1>2, <1>6, <1>10, <1>11, <1>12, <1>13, <1>14 DEF SafetyInv
<1>16. ReadInv BY <1>1, <1>2 DEF ReadInv, Topped
<1> QED BY <1>1, <1>2, <1>5, <1>15, <1>16 DEF ClusterInv

\* Every step keeps the invariant.
LEMMA ClusterSteps == ClusterInv /\ [ClusterNext]_clusterVars => ClusterInv'
<1> SUFFICES ASSUME ClusterInv, [ClusterNext]_clusterVars PROVE ClusterInv' OBVIOUS
<1>1. CASE UNCHANGED clusterVars
  <2>1. UNCHANGED <<voters, campaigns, messages, pins, reads, chosen, selections, answers, verdict>>
    BY <1>1 DEF clusterVars
  <2>2. ClusterTypes /\ ReadInv /\ verdict = "PASS" BY InvFacts
  <2>3. ClusterTypes' BY <2>1, <2>2 DEF ClusterTypes
  <2>4. Still BY <2>1 DEF Still, CoreSame, Unmoved, ReadsKept
  <2>5. ReadInv' /\ verdict' = "PASS" BY <2>1, <2>2 DEF ReadInv, Topped
  <2> QED BY <2>3, <2>4, <2>5, StillStep, InvBuild
<1>2. CASE \E n \in Nodes : Campaign(n) BY <1>2, CampaignStep
<1>3. CASE \E b \in DOMAIN campaigns, x \in Commands : Submit(b, x) BY <1>3, SubmitStep
<1>4. CASE \E b \in DOMAIN campaigns, r \in ReadIds : Read(b, r) BY <1>4, ReadStep
<1>5. CASE \E r \in ReadIds : FinishRead(r) BY <1>5, FinishReadStep
<1>6. CASE DropMessage \/ Duplicate BY <1>6, MessageFaultStep
<1>7. CASE \E n \in Nodes, lost \in BOOLEAN : RestartNode(n, lost) BY <1>7, RestartStep
<1>8. CASE Deliver
  <2>1. PICK m \in DOMAIN messages :
           \/ DeliverPrepare(m) \/ DeliverPromise(m) \/ DeliverAccept(m)
           \/ DeliverAccepted(m) \/ DeliverProof(m) \/ DeliverProven(m)
    BY <1>8 DEF Deliver
  <2> QED BY <2>1, DeliverPrepareStep, DeliverPromiseStep, DeliverAcceptStep,
             DeliverAcceptedStep, DeliverProofStep, DeliverProvenStep
<1> QED BY <1>1, <1>2, <1>3, <1>4, <1>5, <1>6, <1>7, <1>8 DEF ClusterNext

\* The inductive invariant of the reference cluster: what its disks, messages,
\* rounds and the oracle's tables say of each other in every reachable state.
THEOREM ClusterInductive == ClusterSpec => []ClusterInv
BY ClusterStarts, ClusterSteps, PTL DEF ClusterSpec

\* No history of the model breaks a rule of the event oracle.
THEOREM HistoriesAccepted == ClusterSpec => []OracleAccepts
<1>1. ClusterInv => OracleAccepts BY DEF ClusterInv, OracleAccepts
<1> QED BY <1>1, ClusterInductive, PTL

-----------------------------------------------------------------------------
(* The log a client sees *)

\* The chosen values, as the refinement maps them, are the log itself.
LEMMA LogIs ==
    ASSUME NEW L \in Seq(Values)
    PROVE  [i \in 1..Cardinality(DOMAIN L) |-> L[i]] = L
<1>1. Len(L) \in Nat /\ DOMAIN L = 1..Len(L) /\ L = [i \in 1..Len(L) |-> L[i]] OBVIOUS
<1>2. Cardinality(1..Len(L)) = Len(L) BY <1>1, FS_Interval
<1> QED BY <1>1, <1>2

FloorOf(r) == IF r \in DOMAIN reads THEN Greatest(reads[r].writes) ELSE -1
ViewOf(r)  == IF r \in DOMAIN reads /\ reads[r].pin # <<>> THEN Len(reads[r].pin) ELSE -1

\* The step of the abstract log, on what it is mapped to.
LogStep ==
    \/ /\ \E v \in Values : chosen' = Append(chosen, v)
       /\ UNCHANGED answers /\ \A r \in ReadIds : FloorOf(r)' = FloorOf(r) /\ ViewOf(r)' = ViewOf(r)
    \/ /\ chosen' = chosen /\ \E s \in 1..Len(chosen) : answers' = answers \cup {s}
       /\ \A r \in ReadIds : FloorOf(r)' = FloorOf(r) /\ ViewOf(r)' = ViewOf(r)
    \/ /\ chosen' = chosen /\ answers' = answers
       /\ \E r \in ReadIds : /\ FloorOf(r) = -1 /\ FloorOf(r)' = Greatest(answers)
                             /\ \A k \in ReadIds : ViewOf(k)' = ViewOf(k) /\ (k # r => FloorOf(k)' = FloorOf(k))
    \/ /\ chosen' = chosen
       /\ \E r \in ReadIds, s \in 1..Len(chosen) :
             /\ FloorOf(r) # -1 /\ ViewOf(r) = -1 /\ s > FloorOf(r) /\ ViewOf(r)' = s /\ answers' = answers \cup {s}
             /\ \A k \in ReadIds : FloorOf(k)' = FloorOf(k) /\ (k # r => ViewOf(k)' = ViewOf(k))
    \/ /\ chosen' = chosen /\ answers' = answers
       /\ \A r \in ReadIds : FloorOf(r)' = FloorOf(r) /\ ViewOf(r)' = ViewOf(r)

\* A chosen value is appended to the abstract log.
LEMMA GrowsIsLogStep ==
    ASSUME Grows PROVE LogStep
BY DEF Grows, LogStep, FloorOf, ViewOf

\* A slot above every earlier answer is above the greatest of them.
LEMMA GreatestWrite ==
    ASSUME NEW S, S \subseteq Slots, Topped(S)
    PROVE  Greatest(S) \in Nat /\ \A s \in Nat : s # 0 /\ (\A w \in S : w < s) => s > Greatest(S)
<1>1. CASE S = {} BY <1>1 DEF Greatest
<1>2. CASE S # {}
  <2>1. Greatest(S) \in S BY <1>2, GreatestIn DEF Topped
  <2> QED BY <2>1 DEF Slots
<1> QED BY <1>1, <1>2

\* An answer, with or without a pinned read, is a step of the abstract log.
LEMMA AnswersIsLogStep ==
    ASSUME ClusterInv, Answers, chosen' = chosen PROVE LogStep
<1>1. ClusterTypes /\ ReadInv BY InvFacts
<1>2. CASE UNCHANGED <<answers, reads>> BY <1>2 DEF LogStep, FloorOf, ViewOf
<1>3. ASSUME NEW s \in 1..Len(chosen), answers' = answers \cup {s}, reads' = reads PROVE LogStep
  BY <1>3 DEF LogStep, FloorOf, ViewOf
<1>4. ASSUME NEW s \in 1..Len(chosen), answers' = answers \cup {s}, NEW rd \in DOMAIN reads, NEW p \in Seq(Values),
             Len(p) = s, reads[rd].pin = <<>>, reads' = [reads EXCEPT ![rd].pin = p],
             \A w \in reads[rd].writes : w < s
      PROVE  LogStep
  <2>1. reads \in [DOMAIN reads -> ReadSet] /\ rd \in ReadIds /\ reads[rd] \in ReadSet /\ s \in Nat /\ s # 0
    BY <1>1, <1>4 DEF ClusterTypes
  <2>2. Topped(reads[rd].writes) /\ reads[rd].writes \subseteq Slots BY <1>1, <2>1 DEF ReadInv, ReadSet
  <2>3. Greatest(reads[rd].writes) \in Nat /\ s > Greatest(reads[rd].writes) BY <1>4, <2>1, <2>2, GreatestWrite
  <2>4. DOMAIN reads' = DOMAIN reads /\ reads'[rd].pin = p /\ reads'[rd].writes = reads[rd].writes
        /\ \A k \in DOMAIN reads : k # rd => reads'[k] = reads[k]
    BY <1>4, <2>1 DEF ReadSet
  <2>5. p # <<>> BY <1>4, <2>1
  <2>6. FloorOf(rd) # -1 /\ ViewOf(rd) = -1 /\ s > FloorOf(rd) BY <1>4, <2>3 DEF FloorOf, ViewOf
  <2>7. ViewOf(rd)' = s BY <1>4, <2>4, <2>5 DEF ViewOf
  <2>8. \A k \in ReadIds : FloorOf(k)' = FloorOf(k) /\ (k # rd => ViewOf(k)' = ViewOf(k))
    BY <2>4 DEF FloorOf, ViewOf
  <2> QED BY <1>4, <2>1, <2>6, <2>7, <2>8 DEF LogStep
<1> QED BY <1>2, <1>3, <1>4 DEF Answers

\* A read that is sent records the answers before it.
LEMMA ReadIsLogStep ==
    ASSUME ClusterInv, NEW b, NEW r \in ReadIds, Read(b, r) PROVE LogStep
<1>1. PICK t : t = [ballot |-> b, writes |-> answers, pin |-> <<>>] OBVIOUS
<1>2. /\ r \notin DOMAIN reads /\ reads' = Extend(reads, r, t) /\ UNCHANGED <<chosen, answers>>
  BY <1>1 DEF Read
<1>3. DOMAIN reads' = DOMAIN reads \cup {r} /\ reads'[r] = t
      /\ \A k \in DOMAIN reads : k # r => reads'[k] = reads[k]
  BY <1>2 DEF Extend
<1>4. t.writes = answers /\ t.pin = <<>> BY <1>1
<1>5. FloorOf(r) = -1 /\ FloorOf(r)' = Greatest(answers) BY <1>2, <1>3, <1>4 DEF FloorOf
<1>6. \A k \in ReadIds : ViewOf(k)' = ViewOf(k) /\ (k # r => FloorOf(k)' = FloorOf(k))
  BY <1>2, <1>3, <1>4 DEF FloorOf, ViewOf
<1> QED BY <1>2, <1>5, <1>6 DEF LogStep

\* Every step of the cluster is a step of the abstract log or leaves it alone.
LEMMA ClusterLogSteps ==
    ASSUME ClusterInv, [ClusterNext]_clusterVars PROVE LogStep
<1>1. CASE UNCHANGED <<chosen, answers, reads>> BY <1>1 DEF LogStep, FloorOf, ViewOf
<1>2. CASE UNCHANGED clusterVars BY <1>1, <1>2 DEF clusterVars
<1>3. CASE \E n \in Nodes : Campaign(n) BY <1>1, <1>3 DEF Campaign
<1>4. CASE \E b \in DOMAIN campaigns, x \in Commands : Submit(b, x) BY <1>1, <1>4 DEF Submit
<1>5. CASE \E b \in DOMAIN campaigns, r \in ReadIds : Read(b, r) BY <1>5, ReadIsLogStep
<1>6. CASE \E r \in ReadIds : FinishRead(r) BY <1>1, <1>6 DEF FinishRead
<1>7. CASE DropMessage \/ Duplicate BY <1>1, <1>7 DEF DropMessage, Duplicate
<1>8. CASE \E n \in Nodes, lost \in BOOLEAN : RestartNode(n, lost) BY <1>1, <1>8 DEF RestartNode
<1>9. CASE Deliver
  <2>1. PICK m \in DOMAIN messages :
           \/ DeliverPrepare(m) \/ DeliverPromise(m) \/ DeliverAccept(m)
           \/ DeliverAccepted(m) \/ DeliverProof(m) \/ DeliverProven(m)
    BY <1>9 DEF Deliver
  <2>2. CASE DeliverPrepare(m) BY <1>1, <2>2 DEF DeliverPrepare
  <2>3. CASE DeliverPromise(m) BY <1>1, <2>3 DEF DeliverPromise
  <2>4. CASE DeliverAccept(m) BY <1>1, <2>4 DEF DeliverAccept
  <2>5. CASE DeliverProof(m) BY <1>1, <2>5 DEF DeliverProof
  <2>6. CASE DeliverAccepted(m) BY <2>6, DeliverAcceptedStep, GrowsIsLogStep
  <2>7. CASE DeliverProven(m)
    <3>1. chosen' = chosen BY <2>7 DEF DeliverProven
    <3> QED BY <2>7, <3>1, ProvenAnswers, AnswersIsLogStep
  <2> QED BY <2>1, <2>2, <2>3, <2>4, <2>5, <2>6, <2>7
<1> QED BY <1>2, <1>3, <1>4, <1>5, <1>6, <1>7, <1>8, <1>9 DEF ClusterNext

\* The initial cluster is the initial abstract log.
LEMMA LogStarts == ClusterInit => Log!LogInit
<1> SUFFICES ASSUME ClusterInit PROVE Log!LogInit OBVIOUS
<1>1. chosen = <<>> /\ reads = <<>> /\ answers = {} BY DEF ClusterInit
<1>2. chosen \in Seq(Values) /\ DOMAIN reads = {} BY <1>1
<1>3. [i \in 1..Cardinality(DOMAIN chosen) |-> chosen[i]] = <<>>
  <2>1. DOMAIN chosen = {} BY <1>1
  <2>2. Cardinality(DOMAIN chosen) = 0 BY <2>1, FS_EmptySet
  <2>3. 1..Cardinality(DOMAIN chosen) = {} BY <2>2
  <2> QED BY <2>3
<1> QED BY <1>1, <1>2, <1>3 DEF Log!LogInit, Log!NotYet

LogHere   == [i \in 1..Cardinality(DOMAIN chosen) |-> chosen[i]]
FloorHere == [r \in ReadIds |-> IF r \in DOMAIN reads THEN Greatest(reads[r].writes) ELSE -1]
ViewHere  == [r \in ReadIds |-> IF r \in DOMAIN reads /\ reads[r].pin # <<>> THEN Len(reads[r].pin) ELSE -1]

\* The same in the terms of ReferenceLog.
LEMMA LogStepIsNext ==
    ASSUME ClusterTypes, ClusterTypes', LogStep
    PROVE  [Log!LogNext]_<<LogHere, answers, FloorHere, ViewHere>>
<1>1. chosen \in Seq(Values) /\ chosen' \in Seq(Values) BY DEF ClusterTypes
<1>2. LogHere = chosen BY <1>1, LogIs DEF LogHere
<1>3. LogHere' = chosen' BY <1>1, LogIs DEF LogHere
<1>4. FloorHere = [r \in ReadIds |-> FloorOf(r)] /\ ViewHere = [r \in ReadIds |-> ViewOf(r)]
  BY DEF FloorHere, ViewHere, FloorOf, ViewOf
<1>5. FloorHere' = [r \in ReadIds |-> FloorOf(r)'] /\ ViewHere' = [r \in ReadIds |-> ViewOf(r)']
  BY DEF FloorHere, ViewHere, FloorOf, ViewOf
<1>6. CASE /\ \E v \in Values : chosen' = Append(chosen, v)
           /\ UNCHANGED answers /\ \A r \in ReadIds : FloorOf(r)' = FloorOf(r) /\ ViewOf(r)' = ViewOf(r)
  <2>1. UNCHANGED <<FloorHere, ViewHere>> BY <1>4, <1>5, <1>6
  <2>2. PICK v \in Values : chosen' = Append(chosen, v) BY <1>6
  <2>3. LogHere' = Append(LogHere, v) BY <1>2, <1>3, <2>2
  <2>4. Log!Choose(v) BY <1>6, <2>1, <2>3 DEF Log!Choose, LogHere, FloorHere, ViewHere
  <2> QED BY <2>4 DEF Log!LogNext, Values
<1>7. CASE /\ chosen' = chosen /\ \E s \in 1..Len(chosen) : answers' = answers \cup {s}
           /\ \A r \in ReadIds : FloorOf(r)' = FloorOf(r) /\ ViewOf(r)' = ViewOf(r)
  <2>1. UNCHANGED <<LogHere, FloorHere, ViewHere>> BY <1>2, <1>3, <1>4, <1>5, <1>7
  <2>2. PICK s \in 1..Len(chosen) : answers' = answers \cup {s} BY <1>7
  <2>3. s \in 1..Len(LogHere) /\ s \in DOMAIN LogHere BY <1>1, <1>2, <2>2
  <2>4. Log!Answer(s) BY <2>1, <2>2, <2>3 DEF Log!Answer, LogHere, FloorHere, ViewHere
  <2> QED BY <2>3, <2>4 DEF Log!LogNext, LogHere
<1>8. CASE /\ chosen' = chosen /\ answers' = answers
           /\ \E r \in ReadIds : /\ FloorOf(r) = -1 /\ FloorOf(r)' = Greatest(answers)
                                 /\ \A k \in ReadIds : ViewOf(k)' = ViewOf(k) /\ (k # r => FloorOf(k)' = FloorOf(k))
  <2>1. PICK r \in ReadIds : /\ FloorOf(r) = -1 /\ FloorOf(r)' = Greatest(answers)
                             /\ \A k \in ReadIds : ViewOf(k)' = ViewOf(k) /\ (k # r => FloorOf(k)' = FloorOf(k))
    BY <1>8
  <2>2. UNCHANGED <<LogHere, answers, ViewHere>> BY <1>2, <1>3, <1>4, <1>5, <1>8, <2>1
  <2>3. FloorHere[r] = -1 /\ FloorHere' = [FloorHere EXCEPT ![r] = Greatest(answers)] BY <1>4, <1>5, <2>1
  <2>4. Log!SendRead(r)
    <3>1. Log!NotYet = -1 BY DEF Log!NotYet
    <3>2. Log!Longest(answers) = Greatest(answers) BY DEF Log!Longest, Greatest
    <3> QED BY <2>2, <2>3, <3>1, <3>2 DEF Log!SendRead, LogHere, FloorHere, ViewHere
  <2> QED BY <2>4 DEF Log!LogNext
<1>9. CASE /\ chosen' = chosen
           /\ \E r \in ReadIds, s \in 1..Len(chosen) :
                /\ FloorOf(r) # -1 /\ ViewOf(r) = -1 /\ s > FloorOf(r) /\ ViewOf(r)' = s /\ answers' = answers \cup {s}
                /\ \A k \in ReadIds : FloorOf(k)' = FloorOf(k) /\ (k # r => ViewOf(k)' = ViewOf(k))
  <2>1. PICK r \in ReadIds, s \in 1..Len(chosen) :
                /\ FloorOf(r) # -1 /\ ViewOf(r) = -1 /\ s > FloorOf(r) /\ ViewOf(r)' = s /\ answers' = answers \cup {s}
                /\ \A k \in ReadIds : FloorOf(k)' = FloorOf(k) /\ (k # r => ViewOf(k)' = ViewOf(k))
    BY <1>9
  <2>2. UNCHANGED <<LogHere, FloorHere>> BY <1>2, <1>3, <1>4, <1>5, <1>9, <2>1
  <2>3. FloorHere[r] # -1 /\ ViewHere[r] = -1 /\ s > FloorHere[r] /\ ViewHere' = [ViewHere EXCEPT ![r] = s]
    BY <1>4, <1>5, <2>1
  <2>4. s \in 1..Len(LogHere) /\ s \in DOMAIN LogHere BY <1>1, <1>2, <2>1
  <2>5. Log!PinRead(r, s)
    <3>1. Log!NotYet = -1 BY DEF Log!NotYet
    <3> QED BY <2>1, <2>2, <2>3, <2>4, <3>1 DEF Log!PinRead, LogHere, FloorHere, ViewHere
  <2> QED BY <2>4, <2>5 DEF Log!LogNext, LogHere
<1>10. CASE /\ chosen' = chosen /\ answers' = answers
            /\ \A r \in ReadIds : FloorOf(r)' = FloorOf(r) /\ ViewOf(r)' = ViewOf(r)
  <2>1. UNCHANGED <<LogHere, answers, FloorHere, ViewHere>> BY <1>2, <1>3, <1>4, <1>5, <1>10
  <2> QED BY <2>1
<1> QED BY <1>6, <1>7, <1>8, <1>9, <1>10 DEF LogStep

\* The reference cluster implements one growing log with honest answers and
\* reads no older than the answers before them.
THEOREM ClusterImplementsLog == ClusterSpec => ImplementsLog
<1>1. ClusterInv /\ ClusterInv' /\ [ClusterNext]_clusterVars =>
        [Log!LogNext]_<<[i \in 1..Cardinality(DOMAIN chosen) |-> chosen[i]], answers,
             [r \in ReadIds |-> IF r \in DOMAIN reads THEN Greatest(reads[r].writes) ELSE -1],
             [r \in ReadIds |-> IF r \in DOMAIN reads /\ reads[r].pin # <<>> THEN Len(reads[r].pin) ELSE -1]>>
  <2> SUFFICES ASSUME ClusterInv, ClusterInv', [ClusterNext]_clusterVars
               PROVE  [Log!LogNext]_<<LogHere, answers, FloorHere, ViewHere>>
    BY DEF LogHere, FloorHere, ViewHere
  <2>1. ClusterTypes /\ ClusterTypes' BY DEF ClusterInv
  <2> QED BY <2>1, ClusterLogSteps, LogStepIsNext
<1> QED BY <1>1, LogStarts, ClusterInductive, PTL DEF ClusterSpec, ImplementsLog, Log!LogSpec

-----------------------------------------------------------------------------
(* The history of the configured leader *)

\* The model as a specification.
HistorySpec == HistoryInit /\ [][HistoryNext]_historyVars

\* The sets that the records of a voter come from.
Incs   == Incarnations \union {"none"}
Cells  == Nat \X Incs \X Operations
Paths  == Seq(Cells)
Tables == UNION {[D -> Paths] : D \in SUBSET Nat}
Disks  == [epoch : Nat, inc : Incs, log : Tables, proofs : Tables,
           applied : Nat, seq : Nat, snapshot : Nat]

HistoryTypes ==
  /\ disk \in [HVoters -> Disks]
  /\ active \in Nat \X Incs
  /\ commit \in Nat
  /\ prepared \subseteq Paths
  /\ committed \in Seq(Paths)

\* Two voters of S.
Pair(S) == \E a, b \in HVoters : a # b /\ a \in S /\ b \in S

\* A log is one path without a gap.
LogOf(n) ==
  \A i \in DOMAIN disk[n].log :
    /\ i >= 1 /\ Len(disk[n].log[i]) = i
    /\ \A j \in 1..i : Holds(disk[n].log, j, SubSeq(disk[n].log[i], 1, j))

\* A durable proof is for the entry of its voter.
DurableOf(n) ==
  \A k \in DOMAIN disk[n].proofs : Holds(disk[n].log, k, disk[n].proofs[k])

\* What is committed is on two voters, with its proof.
CommitInv ==
  /\ Len(committed) = commit
  /\ \A k \in 1..commit : Pair(Keepers(k))

\* The committed operations up to k that count as application operations.
Added(k) == {i \in 1..k : EntryOp(committed[i]) = "ADD"}

\* A voter whose proofs are all for what is committed applied it, in order and once.
AppliedOf(n) ==
  /\ disk[n].applied <= commit
  /\ disk[n].snapshot <= disk[n].applied
  /\ ~ Stray(n) =>
       /\ \A k \in 1..disk[n].applied : Holds(disk[n].log, k, committed[k])
       /\ disk[n].seq = Cardinality(Added(disk[n].applied))

\* The inductive invariant.
HistoryInv ==
  /\ HistoryTypes
  /\ CommitInv
  /\ \A n \in HVoters : LogOf(n) /\ DurableOf(n) /\ AppliedOf(n)

-----------------------------------------------------------------------------
(* Tables, voters, paths *)

\* What a table is.
LEMMA TableParts ==
  ASSUME NEW f \in Tables
  PROVE  DOMAIN f \subseteq Nat /\ \A k \in DOMAIN f : f[k] \in Paths
<1>1. PICK D \in SUBSET Nat : f \in [D -> Paths]
  BY DEF Tables
<1> QED BY <1>1

\* A function from numbers to paths is a table.
LEMMA TableIs ==
  ASSUME NEW D \in SUBSET Nat, NEW f \in [D -> Paths]
  PROVE  f \in Tables
  BY DEF Tables

\* The empty table.
LEMMA TableEmpty == <<>> \in Tables /\ DOMAIN <<>> = {}
<1>1. <<>> \in Seq(Paths) /\ Len(<<>>) = 0
  BY EmptySeq
<1>2. <<>> \in [1..0 -> Paths] /\ DOMAIN <<>> = 1..0
  BY <1>1, LenProperties
<1>3. 1..0 \in SUBSET Nat /\ 1..0 = {}
  OBVIOUS
<1> QED BY <1>2, <1>3, TableIs

\* What Put does.
LEMMA TablePut ==
  ASSUME NEW f \in Tables, NEW k \in Nat, NEW v \in Paths
  PROVE  /\ Put(f, k, v) \in Tables
         /\ DOMAIN Put(f, k, v) = DOMAIN f \cup {k}
         /\ Put(f, k, v)[k] = v
         /\ \A x \in DOMAIN f : x # k => Put(f, k, v)[x] = f[x]
<1>1. DOMAIN f \cup {k} \in SUBSET Nat /\ \A x \in DOMAIN f : f[x] \in Paths
  BY TableParts
<1>2. Put(f, k, v) \in [DOMAIN f \cup {k} -> Paths]
  BY <1>1 DEF Put
<1>3. Put(f, k, v) \in Tables
  BY <1>1, <1>2, TableIs
<1> QED BY <1>3 DEF Put

\* Table g is table f with v under k.
PutFits(g, f, k, v) ==
  /\ g \in Tables /\ DOMAIN g = DOMAIN f \cup {k} /\ g[k] = v
  /\ \A x \in DOMAIN f : x # k => g[x] = f[x]

\* The same in one word.
LEMMA PutIs ==
  ASSUME NEW f \in Tables, NEW k \in Nat, NEW v \in Paths
  PROVE  PutFits(Put(f, k, v), f, k, v)
BY TablePut DEF PutFits

\* Three voters.
LEMMA VotersFinite == IsFiniteSet(HVoters) /\ Leader \in HVoters
<1>1. IsFiniteSet({"node-1"})
  BY FS_Singleton
<1>2. IsFiniteSet({"node-1"} \cup {"node-2"})
  BY <1>1, FS_AddElement
<1>3. IsFiniteSet(({"node-1"} \cup {"node-2"}) \cup {"node-3"})
  BY <1>2, FS_AddElement
<1>4. ({"node-1"} \cup {"node-2"}) \cup {"node-3"} = HVoters
  BY DEF HVoters
<1> QED BY <1>3, <1>4 DEF HVoters, Leader

\* A quorum is two voters.
LEMMA TwoVoters ==
  ASSUME NEW S, S \subseteq HVoters
  PROVE  /\ Cardinality(S) \in Nat
         /\ Cardinality(S) >= 2 <=> Pair(S)
<1>1. IsFiniteSet(S) /\ Cardinality(S) \in Nat
  BY VotersFinite, FS_Subset, FS_CardinalityType
<1>2. ASSUME Pair(S) PROVE Cardinality(S) >= 2
  <2>1. PICK a, b \in HVoters : a # b /\ a \in S /\ b \in S
    BY <1>2 DEF Pair
  <2>2. Cardinality(S) # 0
    BY <1>1, <2>1, FS_EmptySet
  <2>3. Cardinality(S) # 1
    BY <1>1, <2>1, FS_Singleton
  <2> QED BY <1>1, <2>2, <2>3
<1>3. ASSUME ~ Pair(S) PROVE Cardinality(S) <= 1
  <2>1. CASE S = {}
    BY <2>1, FS_EmptySet
  <2>2. CASE S # {}
    <3>1. PICK a : a \in S
      BY <2>2
    <3>2. S = {a}
      BY <1>3, <3>1 DEF Pair
    <3> QED BY <3>2, FS_Singleton
  <2> QED BY <2>1, <2>2
<1> QED BY <1>1, <1>2, <1>3

\* Two quorums share a voter.
LEMMA PairsMeet ==
  ASSUME NEW S, NEW T, Pair(S), Pair(T)
  PROVE  \E n \in HVoters : n \in S /\ n \in T
  BY DEF Pair, HVoters

\* A larger set of voters is a quorum too.
LEMMA PairGrows ==
  ASSUME NEW S, NEW T, Pair(S), \A n \in HVoters : n \in S => n \in T
  PROVE  Pair(T)
  BY DEF Pair

\* The parts of a path.
LEMMA PathParts ==
  ASSUME NEW e \in Paths
  PROVE  /\ Len(e) \in Nat
         /\ SubSeq(e, 1, Len(e)) = e
         /\ \A i, j \in Nat : j <= i /\ i <= Len(e) =>
              /\ SubSeq(e, 1, i) \in Paths /\ Len(SubSeq(e, 1, i)) = i
              /\ SubSeq(SubSeq(e, 1, i), 1, j) = SubSeq(e, 1, j)
<1>1. Len(e) \in Nat /\ \A i \in 1..Len(e) : e[i] \in Cells
  BY LenProperties DEF Paths
<1>2. SubSeq(e, 1, Len(e)) = e
  BY DEF Paths
<1>3. ASSUME NEW i \in Nat, NEW j \in Nat, j <= i, i <= Len(e)
      PROVE  /\ SubSeq(e, 1, i) \in Paths /\ Len(SubSeq(e, 1, i)) = i
             /\ SubSeq(SubSeq(e, 1, i), 1, j) = SubSeq(e, 1, j)
  <2>1. SubSeq(e, 1, i) \in Paths /\ Len(SubSeq(e, 1, i)) = i
    BY <1>1, <1>3 DEF Paths
  <2>2. SubSeq(SubSeq(e, 1, i), 1, j) = SubSeq(e, 1, j)
    BY <1>1, <1>3, <2>1 DEF Paths
  <2> QED BY <2>1, <2>2
<1> QED BY <1>1, <1>2, <1>3

\* The typed facts of a voter.
LEMMA DiskTypes ==
  ASSUME HistoryTypes, NEW n \in HVoters
  PROVE  /\ disk[n] \in Disks /\ disk[n].epoch \in Nat /\ disk[n].inc \in Incs
         /\ disk[n].log \in Tables /\ disk[n].proofs \in Tables
         /\ disk[n].applied \in Nat /\ disk[n].seq \in Nat /\ disk[n].snapshot \in Nat
         /\ active[1] \in Nat /\ active[2] \in Incs /\ active = <<active[1], active[2]>>
  BY DEF HistoryTypes, Disks

\* What may be sent is a path that is not empty.
LEMMA CandidateTypes ==
  ASSUME HistoryTypes, NEW e \in Candidates
  PROVE  e \in Paths /\ Len(e) >= 1
<1>1. ASSUME NEW n \in HVoters, NEW i \in DOMAIN disk[n].log PROVE disk[n].log[i] \in Paths
  BY DiskTypes, TableParts
<1>2. <<>> \in Paths
  BY EmptySeq DEF Paths
<1>3. \A p \in Paths : p # <<>> => Len(p) >= 1
  BY EmptySeq DEF Paths
<1>4. ASSUME NEW p \in Paths, NEW op \in Operations
      PROVE  /\ Append(p, Cell(active[1], active[2], op)) \in Paths
             /\ Len(Append(p, Cell(active[1], active[2], op))) >= 1
  <2>1. Cell(active[1], active[2], op) \in Cells
    <3>1. active[1] \in Nat /\ active[2] \in Incs
      BY VotersFinite, DiskTypes
    <3> QED BY <3>1 DEF Cells, Cell
  <2> QED BY <2>1, AppendProperties, LenProperties DEF Paths
<1>5. PICK paths : paths = {<<>>} \cup UNION {{disk[n].log[i] : i \in DOMAIN disk[n].log} : n \in HVoters}
  OBVIOUS
<1>6. paths \subseteq Paths
  BY <1>1, <1>2, <1>5
<1>7. \/ e \in paths \ {<<>>}
      \/ \E p \in paths, op \in Operations : e = Append(p, Cell(active[1], active[2], op))
  BY <1>5 DEF Candidates
<1> QED BY <1>3, <1>4, <1>6, <1>7

-----------------------------------------------------------------------------
(* What a step keeps *)

\* No log loses a committed entry, and no voter a proof.
Kept ==
  \A m \in HVoters : \A k, v :
    /\ k \in 1..commit /\ Holds(disk[m].log, k, v) => Holds(disk'[m].log, k, v)
    /\ Holds(disk[m].proofs, k, v) => Holds(disk'[m].proofs, k, v)

\* A log that does not change is still one path.
LEMMA LogKept ==
  ASSUME NEW m \in HVoters, LogOf(m), disk'[m].log = disk[m].log
  PROVE  LogOf(m)'
  BY DEF LogOf

\* Durable proofs that do not change, over a log that only grows.
LEMMA DurableKept ==
  ASSUME NEW m \in HVoters, DurableOf(m), disk'[m].proofs = disk[m].proofs,
         \A k, v : Holds(disk[m].log, k, v) => Holds(disk'[m].log, k, v)
  PROVE  DurableOf(m)'
  BY DEF DurableOf

\* What is committed.
LEMMA CommitKept ==
  ASSUME CommitInv, Kept, commit' = commit, committed' = committed
  PROVE  CommitInv'
<1>1. ASSUME NEW k \in 1..commit PROVE Pair(Keepers(k)')
  <2>1. Pair(Keepers(k))
    BY DEF CommitInv
  <2>2. \A n \in HVoters : n \in Keepers(k) => n \in Keepers(k)'
    BY DEF Keepers, Kept
  <2> QED BY <2>1, <2>2, PairGrows
<1>2. \A k \in 1..commit : Pair(Keepers(k))'
  BY <1>1 DEF Pair
<1> QED BY <1>2 DEF CommitInv

\* A stray voter remains one.
LEMMA StrayKept ==
  ASSUME NEW m \in HVoters, Kept, commit' = commit, committed' = committed, Stray(m)
  PROVE  Stray(m)'
  BY DEF Stray, Kept, Holds

\* What was applied.
LEMMA AppliedKept ==
  ASSUME HistoryTypes, NEW m \in HVoters, AppliedOf(m), Kept, commit' = commit, committed' = committed,
         disk'[m].applied = disk[m].applied, disk'[m].seq = disk[m].seq,
         disk'[m].snapshot = disk[m].snapshot
  PROVE  AppliedOf(m)'
<1>1. disk[m].applied \in Nat /\ commit \in Nat /\ disk[m].applied <= commit
  BY DiskTypes DEF HistoryTypes, AppliedOf
<1>2. \A k \in 1..disk[m].applied : k \in 1..commit
  BY <1>1
<1>3. ~ Stray(m)' => ~ Stray(m)
  BY StrayKept
<1>4. Added(disk[m].applied)' = Added(disk[m].applied)
  BY DEF Added
<1>5. ASSUME ~ Stray(m)'
      PROVE  /\ \A k \in 1..disk[m].applied : Holds(disk'[m].log, k, committed[k])
             /\ disk[m].seq = Cardinality(Added(disk[m].applied))
  BY <1>2, <1>3, <1>5 DEF AppliedOf, Kept
<1> QED BY <1>4, <1>5 DEF AppliedOf

\* A step that leaves the logs and the proofs alone keeps them.
LEMMA KeptSame ==
  ASSUME \A m \in HVoters : disk'[m].log = disk[m].log /\ disk'[m].proofs = disk[m].proofs
  PROVE  Kept
  BY DEF Kept

\* A log is written over: nothing else of a voter changes.
LEMMA DiskLog ==
  ASSUME HistoryTypes, NEW n \in HVoters, NEW M \in Tables,
         disk' = [disk EXCEPT ![n].log = M]
  PROVE  /\ disk' \in [HVoters -> Disks] /\ disk'[n].log = M
         /\ \A m \in HVoters :
              /\ m # n => disk'[m].log = disk[m].log
              /\ disk'[m].epoch = disk[m].epoch /\ disk'[m].inc = disk[m].inc
              /\ disk'[m].proofs = disk[m].proofs /\ disk'[m].applied = disk[m].applied
              /\ disk'[m].seq = disk[m].seq /\ disk'[m].snapshot = disk[m].snapshot
<1>1. disk \in [HVoters -> Disks]
  BY DEF HistoryTypes
<1>2. /\ disk'[n] = [disk[n] EXCEPT !.log = M]
      /\ \A m \in HVoters : m # n => disk'[m] = disk[m]
      /\ DOMAIN disk' = HVoters /\ disk' = [m \in HVoters |-> disk'[m]]
  BY <1>1
<1>3. /\ disk'[n] \in Disks /\ disk'[n].log = M
      /\ disk'[n].epoch = disk[n].epoch /\ disk'[n].inc = disk[n].inc
      /\ disk'[n].proofs = disk[n].proofs /\ disk'[n].applied = disk[n].applied
      /\ disk'[n].seq = disk[n].seq /\ disk'[n].snapshot = disk[n].snapshot
  <2>1. disk[n] \in Disks
    BY <1>1
  <2> QED BY <1>2, <2>1 DEF Disks
<1>4. disk' \in [HVoters -> Disks]
  BY <1>1, <1>2, <1>3
<1> QED BY <1>2, <1>3, <1>4

\* A proof table is written over: nothing else of a voter changes.
LEMMA DiskProofs ==
  ASSUME HistoryTypes, NEW n \in HVoters, NEW M \in Tables,
         disk' = [disk EXCEPT ![n].proofs = M]
  PROVE  /\ disk' \in [HVoters -> Disks] /\ disk'[n].proofs = M
         /\ \A m \in HVoters :
              /\ m # n => disk'[m].proofs = disk[m].proofs
              /\ disk'[m].epoch = disk[m].epoch /\ disk'[m].inc = disk[m].inc
              /\ disk'[m].log = disk[m].log /\ disk'[m].applied = disk[m].applied
              /\ disk'[m].seq = disk[m].seq /\ disk'[m].snapshot = disk[m].snapshot
<1>1. disk \in [HVoters -> Disks]
  BY DEF HistoryTypes
<1>2. /\ disk'[n] = [disk[n] EXCEPT !.proofs = M]
      /\ \A m \in HVoters : m # n => disk'[m] = disk[m]
      /\ DOMAIN disk' = HVoters /\ disk' = [m \in HVoters |-> disk'[m]]
  BY <1>1
<1>3. /\ disk'[n] \in Disks /\ disk'[n].proofs = M
      /\ disk'[n].epoch = disk[n].epoch /\ disk'[n].inc = disk[n].inc
      /\ disk'[n].log = disk[n].log /\ disk'[n].applied = disk[n].applied
      /\ disk'[n].seq = disk[n].seq /\ disk'[n].snapshot = disk[n].snapshot
  <2>1. disk[n] \in Disks
    BY <1>1
  <2> QED BY <1>2, <2>1 DEF Disks
<1>4. disk' \in [HVoters -> Disks]
  BY <1>1, <1>2, <1>3
<1> QED BY <1>2, <1>3, <1>4

-----------------------------------------------------------------------------
(* The steps *)

\* A promise.
LEMMA ActivateStep ==
  ASSUME HistoryInv, NEW epoch \in 1..HMaxEpoch, NEW inc \in Incarnations,
         NEW nodes \in SUBSET HVoters, Activate(epoch, inc, nodes)
  PROVE  HistoryInv'
<1>1. /\ active' = <<epoch, inc>> /\ UNCHANGED <<commit, prepared, committed>>
      /\ \A n \in HVoters :
           disk'[n] = IF n \in nodes THEN [disk[n] EXCEPT !.epoch = epoch, !.inc = inc] ELSE disk[n]
  BY DEF Activate
<1>2. HistoryTypes /\ epoch \in Nat /\ inc \in Incs
  BY HistoryAssumption DEF HistoryInv, Incs
<1>3. \A n \in HVoters :
        /\ disk'[n].log = disk[n].log /\ disk'[n].proofs = disk[n].proofs
        /\ disk'[n].applied = disk[n].applied /\ disk'[n].seq = disk[n].seq
        /\ disk'[n].snapshot = disk[n].snapshot
  BY <1>1, <1>2, DiskTypes DEF Disks
<1>4. HistoryTypes'
  <2>1. \A n \in HVoters : disk'[n] \in Disks
    BY <1>1, <1>2, DiskTypes DEF Disks
  <2>2. disk' \in [HVoters -> Disks]
    BY <2>1 DEF Activate
  <2> QED BY <1>1, <1>2, <2>2 DEF HistoryTypes
<1>5. Kept
  BY <1>3, KeptSame
<1>6. CommitInv'
  BY <1>1, <1>5, CommitKept DEF HistoryInv
<1>7. ASSUME NEW n \in HVoters PROVE LogOf(n)' /\ DurableOf(n)' /\ AppliedOf(n)'
  <2>1. LogOf(n)' /\ DurableOf(n)'
    BY <1>3, LogKept, DurableKept DEF HistoryInv
  <2>2. AppliedOf(n)'
    BY <1>1, <1>3, <1>5, AppliedKept DEF HistoryInv
  <2> QED BY <2>1, <2>2
<1> QED BY <1>4, <1>6, <1>7 DEF HistoryInv

\* A force of an entry.
LEMMA AppendStep ==
  ASSUME HistoryInv, NEW n \in HVoters, NEW e \in Candidates, AppendEntry(n, e)
  PROVE  HistoryInv'
<1>0. PICK L, i : L = disk[n].log /\ i = Len(e)
  OBVIOUS
<1>1. /\ i \in DOMAIN L => L[i] = e
      /\ i > 1 => Holds(L, i - 1, SubSeq(e, 1, i - 1))
      /\ disk' = [disk EXCEPT ![n].log = Put(L, i, e)]
      /\ UNCHANGED <<active, commit, prepared, committed>>
  BY <1>0 DEF AppendEntry
<1>2. HistoryTypes /\ e \in Paths /\ i >= 1 /\ i \in Nat /\ L \in Tables
  BY <1>0, CandidateTypes, PathParts, DiskTypes DEF HistoryInv
<1>3. PICK M : M = Put(L, i, e)
  OBVIOUS
<1>4. /\ M \in Tables /\ DOMAIN M = DOMAIN L \cup {i} /\ M[i] = e
      /\ \A x \in DOMAIN L : M[x] = L[x]
  <2>1. /\ Put(L, i, e) \in Tables /\ DOMAIN Put(L, i, e) = DOMAIN L \cup {i}
        /\ Put(L, i, e)[i] = e /\ \A x \in DOMAIN L : x # i => Put(L, i, e)[x] = L[x]
    BY <1>2, TablePut
  <2>2. i \in DOMAIN L => L[i] = e
    BY <1>1
  <2> QED BY <1>3, <2>1, <2>2
<1>5. /\ disk' \in [HVoters -> Disks] /\ disk'[n].log = M
      /\ \A m \in HVoters :
           /\ m # n => disk'[m].log = disk[m].log
           /\ disk'[m].epoch = disk[m].epoch /\ disk'[m].inc = disk[m].inc
           /\ disk'[m].proofs = disk[m].proofs /\ disk'[m].applied = disk[m].applied
           /\ disk'[m].seq = disk[m].seq /\ disk'[m].snapshot = disk[m].snapshot
  BY <1>1, <1>2, <1>3, <1>4, DiskLog
<1>6. HistoryTypes'
  BY <1>1, <1>2, <1>5 DEF HistoryTypes
<1>7. Kept
  BY <1>0, <1>4, <1>5 DEF Kept, Holds
<1>8. LogOf(n)'
  <2> SUFFICES ASSUME NEW x \in DOMAIN M
               PROVE  /\ x >= 1 /\ Len(M[x]) = x
                      /\ \A j \in 1..x : Holds(M, j, SubSeq(M[x], 1, j))
    BY <1>5 DEF LogOf
  <2>1. LogOf(n)
    BY DEF HistoryInv
  <2>2. CASE x \in DOMAIN L
    <3>1. x >= 1 /\ Len(L[x]) = x /\ \A j \in 1..x : Holds(L, j, SubSeq(L[x], 1, j))
      BY <1>0, <2>1, <2>2 DEF LogOf
    <3> QED BY <1>4, <2>2, <3>1 DEF Holds
  <2>3. CASE x = i
    <3>1. ASSUME NEW j \in 1..i PROVE Holds(M, j, SubSeq(e, 1, j))
      <4>1. CASE j = i
        BY <1>0, <1>2, <1>4, <4>1, PathParts DEF Holds
      <4>2. CASE j < i
        <5>1. Holds(L, i - 1, SubSeq(e, 1, i - 1)) /\ i - 1 \in Nat /\ j \in 1..(i - 1) /\ j \in Nat
          BY <1>1, <1>2, <4>2
        <5>2. Holds(L, j, SubSeq(L[i - 1], 1, j)) /\ L[i - 1] = SubSeq(e, 1, i - 1)
          BY <1>0, <2>1, <5>1 DEF LogOf, Holds
        <5>3. SubSeq(SubSeq(e, 1, i - 1), 1, j) = SubSeq(e, 1, j)
          BY <1>0, <1>2, <5>1, PathParts
        <5> QED BY <1>4, <5>2, <5>3 DEF Holds
      <4> QED BY <1>2, <4>1, <4>2
    <3> QED BY <1>0, <1>2, <1>4, <2>3, <3>1
  <2> QED BY <1>4, <2>2, <2>3
<1>9. \A m \in HVoters : \A k, v : Holds(disk[m].log, k, v) => Holds(disk'[m].log, k, v)
  BY <1>0, <1>4, <1>5 DEF Holds
<1>10. CommitInv'
  BY <1>1, <1>7, CommitKept DEF HistoryInv
<1>11. ASSUME NEW m \in HVoters PROVE LogOf(m)' /\ DurableOf(m)' /\ AppliedOf(m)'
  <2>1. LogOf(m)'
    BY <1>5, <1>8, LogKept DEF HistoryInv
  <2>2. DurableOf(m)'
    BY <1>5, <1>9, DurableKept DEF HistoryInv
  <2>3. AppliedOf(m)'
    BY <1>1, <1>5, <1>7, AppliedKept DEF HistoryInv
  <2> QED BY <2>1, <2>2, <2>3
<1> QED BY <1>6, <1>10, <1>11 DEF HistoryInv

\* The parts of the invariant but the types are about the disks and the commits.
LEMMA SameCommits ==
  ASSUME HistoryInv, disk' = disk, commit' = commit, committed' = committed
  PROVE  CommitInv' /\ \A n \in HVoters : LogOf(n)' /\ DurableOf(n)' /\ AppliedOf(n)'
<1>1. Kept
  BY KeptSame
<1>2. CommitInv'
  BY <1>1, CommitKept DEF HistoryInv
<1>3. ASSUME NEW n \in HVoters PROVE LogOf(n)' /\ DurableOf(n)' /\ AppliedOf(n)'
  <2>1. LogOf(n)' /\ DurableOf(n)'
    BY LogKept, DurableKept DEF HistoryInv
  <2>2. AppliedOf(n)'
    BY <1>1, AppliedKept DEF HistoryInv
  <2> QED BY <2>1, <2>2
<1> QED BY <1>2, <1>3

\* A prepared proof.
LEMMA PrepareProofStep ==
  ASSUME HistoryInv, NEW e \in Candidates, NEW receipts, PrepareProof(e, receipts)
  PROVE  HistoryInv'
<1>1. prepared' = prepared \cup {e} /\ UNCHANGED <<disk, active, commit, committed>>
  BY DEF PrepareProof
<1>2. HistoryTypes /\ e \in Paths
  BY CandidateTypes DEF HistoryInv
<1>3. HistoryTypes'
  BY <1>1, <1>2 DEF HistoryTypes
<1> QED BY <1>1, <1>3, SameCommits DEF HistoryInv

\* A proof becomes durable on a voter that holds its entry, and has no other.
LEMMA ForceProof ==
  ASSUME HistoryInv, NEW n \in HVoters, NEW k \in Nat, NEW v \in Paths,
         Holds(disk[n].log, k, v),
         k \in DOMAIN disk[n].proofs => disk[n].proofs[k] = v,
         disk' = [disk EXCEPT ![n].proofs = Put(disk[n].proofs, k, v)],
         UNCHANGED <<active, commit, prepared, committed>>
  PROVE  HistoryInv'
<1>1. PICK M : M = Put(disk[n].proofs, k, v)
  OBVIOUS
<1>2. HistoryTypes /\ disk[n].proofs \in Tables
  BY DiskTypes DEF HistoryInv
<1>3. /\ M \in Tables /\ DOMAIN M = DOMAIN disk[n].proofs \cup {k} /\ M[k] = v
      /\ \A x \in DOMAIN disk[n].proofs : x # k => M[x] = disk[n].proofs[x]
  <2>1. PutFits(Put(disk[n].proofs, k, v), disk[n].proofs, k, v) BY <1>2, PutIs, Zenon
  <2>2. PutFits(M, disk[n].proofs, k, v) BY <1>1, <2>1, Zenon
  <2> QED BY <2>2, Zenon DEF PutFits
<1>4. disk' = [disk EXCEPT ![n].proofs = M]
  BY <1>1
<1>5. /\ disk' \in [HVoters -> Disks] /\ disk'[n].proofs = M
      /\ \A m \in HVoters :
           /\ m # n => disk'[m].proofs = disk[m].proofs
           /\ disk'[m].epoch = disk[m].epoch /\ disk'[m].inc = disk[m].inc
           /\ disk'[m].log = disk[m].log /\ disk'[m].applied = disk[m].applied
           /\ disk'[m].seq = disk[m].seq /\ disk'[m].snapshot = disk[m].snapshot
  BY <1>2, <1>3, <1>4, DiskProofs
<1>6. HistoryTypes'
  BY <1>2, <1>5 DEF HistoryTypes
<1>7. Kept
  <2>1. \A x \in DOMAIN disk[n].proofs : x \in DOMAIN M /\ M[x] = disk[n].proofs[x]
    BY <1>3
  <2> QED BY <1>5, <2>1 DEF Kept, Holds
<1>8. DurableOf(n)'
  <2> SUFFICES ASSUME NEW x \in DOMAIN M
               PROVE  Holds(disk[n].log, x, M[x])
    BY <1>5 DEF DurableOf
  <2>1. CASE x = k
    BY <1>3, <2>1
  <2>2. CASE x # k
    BY <1>3, <2>2 DEF HistoryInv, DurableOf
  <2> QED BY <2>1, <2>2
<1>9. CommitInv'
  BY <1>7, CommitKept DEF HistoryInv
<1>10. ASSUME NEW m \in HVoters PROVE LogOf(m)' /\ DurableOf(m)' /\ AppliedOf(m)'
  <2>1. LogOf(m)'
    BY <1>5, LogKept DEF HistoryInv
  <2>2. DurableOf(m)'
    BY <1>5, <1>8, DurableKept DEF HistoryInv
  <2>3. AppliedOf(m)'
    BY <1>5, <1>7, AppliedKept DEF HistoryInv
  <2> QED BY <2>1, <2>2, <2>3
<1> QED BY <1>6, <1>9, <1>10 DEF HistoryInv

\* A prepared proof is forced on a voter.
LEMMA PersistStep ==
  ASSUME HistoryInv, NEW n \in HVoters, NEW e \in prepared, PersistProof(n, e)
  PROVE  HistoryInv'
<1>1. e \in Paths /\ Len(e) \in Nat
  BY PathParts DEF HistoryInv, HistoryTypes
<1> QED BY <1>1, ForceProof DEF PersistProof

\* A durable proof is copied to a voter that holds the prefix.  A proof the
\* voter already has there is for the same entry.
LEMMA CopyStep ==
  ASSUME HistoryInv, NEW from \in HVoters, NEW to \in HVoters, NEW k \in 1..HMaxIndex,
         CopyProof(from, to, k)
  PROVE  HistoryInv'
<1>1. /\ k \in DOMAIN disk[from].proofs
      /\ k \in DOMAIN disk[to].log /\ Holds(disk[from].log, k, disk[to].log[k])
      /\ disk' = [disk EXCEPT ![to].proofs = Put(disk[to].proofs, k, disk[from].proofs[k])]
      /\ UNCHANGED <<active, commit, prepared, committed>>
  BY HistoryAssumption DEF CopyProof
<1>2. k \in Nat /\ disk[from].proofs[k] \in Paths
  BY <1>1, HistoryAssumption, DiskTypes, TableParts DEF HistoryInv
<1>3. Holds(disk[from].log, k, disk[from].proofs[k])
  BY <1>1 DEF HistoryInv, DurableOf
<1>4. Holds(disk[to].log, k, disk[from].proofs[k])
  BY <1>1, <1>3 DEF Holds
<1>5. k \in DOMAIN disk[to].proofs => disk[to].proofs[k] = disk[from].proofs[k]
  BY <1>4 DEF HistoryInv, DurableOf, Holds
<1> QED BY <1>1, <1>2, <1>4, <1>5, ForceProof

\* A step that changes nothing.
LEMMA StutterStep ==
  ASSUME HistoryInv, UNCHANGED historyVars
  PROVE  HistoryInv'
<1>1. HistoryTypes'
  BY DEF HistoryInv, historyVars, HistoryTypes
<1> QED BY <1>1, SameCommits DEF HistoryInv, historyVars

\* A proof is at an index, so the index is not zero.
LEMMA ProofIndex ==
  ASSUME HistoryInv, NEW n \in HVoters, NEW k \in DOMAIN disk[n].proofs, k <= commit
  PROVE  k \in 1..commit /\ Holds(disk[n].log, k, disk[n].proofs[k])
<1>1. k \in Nat /\ commit \in Nat
  BY DiskTypes, TableParts DEF HistoryInv, HistoryTypes
<1>2. Holds(disk[n].log, k, disk[n].proofs[k])
  BY DEF HistoryInv, DurableOf
<1>3. k >= 1
  BY <1>2 DEF HistoryInv, LogOf, Holds
<1> QED BY <1>1, <1>2, <1>3

\* A commit: the voters that acknowledge it hold its entry, under its proof.
LEMMA CompleteStep ==
  ASSUME HistoryInv, NEW e \in prepared, NEW acks, CompleteCommit(e, acks)
  PROVE  HistoryInv'
<1>0. PICK k : k = Len(e)
  OBVIOUS
<1>1. /\ acks \subseteq ProofHolders(e) /\ Quorum(acks) /\ k \in {commit, commit + 1}
      /\ commit' = k /\ UNCHANGED <<disk, active, prepared>>
      /\ committed' = IF k > Len(committed) THEN Append(committed, e) ELSE committed
  BY <1>0 DEF CompleteCommit
<1>2. /\ HistoryTypes /\ e \in Paths /\ commit \in Nat /\ committed \in Seq(Paths)
      /\ Len(committed) = commit
  BY DEF HistoryInv, HistoryTypes, CommitInv
<1>3. CASE k = commit
  <2>1. commit' = commit /\ committed' = committed
    BY <1>1, <1>2, <1>3
  <2> QED BY <1>1, <2>1, StutterStep DEF historyVars
<1>4. CASE k = commit + 1
  <2>1. committed' = Append(committed, e)
    BY <1>1, <1>2, <1>4
  <2>2. /\ committed' \in Seq(Paths) /\ Len(committed') = commit'
        /\ committed'[k] = e /\ \A i \in 1..commit : committed'[i] = committed[i]
    BY <1>1, <1>2, <1>4, <2>1, AppendProperties
  <2>3. \A n \in acks : n \in HVoters /\ Holds(disk[n].proofs, k, e) /\ Holds(disk[n].log, k, e)
    BY <1>0, <1>1 DEF ProofHolders, HistoryInv, DurableOf, Holds
  <2>4. Pair(acks)
    BY <1>1, TwoVoters DEF Quorum
  <2>5. disk' = disk /\ commit' = k
    BY <1>1
  <2>6. CommitInv'
    <3>1. ASSUME NEW i \in 1..k PROVE Pair(Keepers(i)')
      <4>1. CASE i = k
        <5>1. \A n \in HVoters : n \in acks => n \in Keepers(i)'
          BY <2>2, <2>3, <2>5, <4>1 DEF Keepers
        <5> QED BY <2>4, <5>1, PairGrows
      <4>2. CASE i # k
        <5>1. i \in 1..commit
          BY <1>2, <1>4, <4>2
        <5>2. Keepers(i)' = Keepers(i)
          BY <2>2, <2>5, <5>1 DEF Keepers
        <5>3. Pair(Keepers(i))
          BY <5>1 DEF HistoryInv, CommitInv
        <5> QED BY <5>2, <5>3
      <4> QED BY <4>1, <4>2
    <3>2. \A i \in 1..k : Pair(Keepers(i))'
      BY <3>1 DEF Pair
    <3> QED BY <2>2, <2>5, <3>2 DEF CommitInv
  <2>7. ASSUME NEW n \in HVoters PROVE AppliedOf(n)'
    <3>1. /\ disk[n].applied \in Nat /\ disk[n].applied <= commit
          /\ disk[n].snapshot <= disk[n].applied
          /\ ~ Stray(n) =>
               /\ \A i \in 1..disk[n].applied : Holds(disk[n].log, i, committed[i])
               /\ disk[n].seq = Cardinality(Added(disk[n].applied))
      BY <1>2, DiskTypes DEF HistoryInv, AppliedOf
    <3>2. disk[n].applied <= k /\ \A i \in 1..disk[n].applied : i \in 1..commit
      BY <1>2, <1>4, <3>1
    <3>3. Added(disk[n].applied)' = Added(disk[n].applied)
      BY <2>2, <2>5, <3>2 DEF Added
    <3>4. ASSUME Stray(n) PROVE Stray(n)'
      <4>1. PICK i \in DOMAIN disk[n].proofs : i <= commit /\ disk[n].proofs[i] # committed[i]
        BY <3>4 DEF Stray
      <4>2. i \in 1..commit
        BY <4>1, ProofIndex
      <4>3. i <= k /\ disk[n].proofs[i] # committed'[i]
        BY <1>2, <1>4, <2>2, <4>1, <4>2
      <4> QED BY <2>5, <4>3 DEF Stray
    <3>5. ASSUME ~ Stray(n)'
          PROVE  /\ \A i \in 1..disk[n].applied : Holds(disk[n].log, i, committed'[i])
                 /\ disk[n].seq = Cardinality(Added(disk[n].applied))
      BY <2>2, <3>1, <3>2, <3>4, <3>5
    <3> QED BY <2>5, <3>1, <3>2, <3>3, <3>5 DEF AppliedOf
  <2>8. HistoryTypes'
    BY <1>1, <1>2, <1>4, <2>2 DEF HistoryTypes
  <2>9. \A n \in HVoters : LogOf(n)' /\ DurableOf(n)'
    BY <2>5 DEF HistoryInv, LogOf, DurableOf
  <2> QED BY <2>6, <2>7, <2>8, <2>9 DEF HistoryInv
<1> QED BY <1>1, <1>3, <1>4

\* The committed operations counted up to a, and those above a up to k.
LEMMA AddedSplit ==
  ASSUME NEW a \in Nat, NEW k \in Nat, a <= k
  PROVE  Cardinality(Added(k))
           = Cardinality(Added(a)) + Cardinality({i \in (a + 1)..k : EntryOp(committed[i]) = "ADD"})
<1>1. PICK T : T = {i \in (a + 1)..k : EntryOp(committed[i]) = "ADD"}
  OBVIOUS
<1>2. IsFiniteSet(1..a) /\ IsFiniteSet((a + 1)..k)
  BY FS_Interval
<1>3. IsFiniteSet(Added(a)) /\ IsFiniteSet(T)
  <2>1. Added(a) \subseteq 1..a /\ T \subseteq (a + 1)..k
    BY <1>1 DEF Added
  <2> QED BY <1>2, <2>1, FS_Subset
<1>4. Added(k) = Added(a) \cup T /\ Added(a) \cap T = {}
  BY <1>1 DEF Added
<1>5. Cardinality(Added(a) \cup T)
        = Cardinality(Added(a)) + Cardinality(T) - Cardinality(Added(a) \cap T)
  BY <1>3, FS_Union
<1>6. Cardinality(Added(a)) \in Nat /\ Cardinality(T) \in Nat
  BY <1>3, FS_CardinalityType
<1>7. Cardinality(Added(a) \cap T) = 0
  BY <1>4, FS_EmptySet
<1> QED BY <1>1, <1>4, <1>5, <1>6, <1>7

\* What is committed is one path: the keepers of two entries share a voter, and
\* its log is one path.
LEMMA CommittedChain ==
  ASSUME HistoryInv, NEW i \in 1..commit, NEW j \in 1..i
  PROVE  committed[j] = SubSeq(committed[i], 1, j)
<1>1. commit \in Nat /\ j \in 1..commit
  BY DEF HistoryInv, HistoryTypes
<1>2. Pair(Keepers(i)) /\ Pair(Keepers(j))
  BY <1>1 DEF HistoryInv, CommitInv
<1>3. PICK n \in HVoters : n \in Keepers(i) /\ n \in Keepers(j)
  BY <1>2, PairsMeet
<1>4. Holds(disk[n].log, i, committed[i]) /\ Holds(disk[n].log, j, committed[j]) /\ LogOf(n)
  BY <1>3 DEF Keepers, HistoryInv
<1>5. Holds(disk[n].log, j, SubSeq(committed[i], 1, j))
  BY <1>4 DEF LogOf, Holds
<1> QED BY <1>4, <1>5 DEF Holds

\* A voter that holds what was committed at i holds it below i too.
LEMMA EntryCovers ==
  ASSUME HistoryInv, NEW n \in HVoters, NEW i \in 1..commit, Holds(disk[n].log, i, committed[i])
  PROVE  \A j \in 1..i : Holds(disk[n].log, j, committed[j])
<1> SUFFICES ASSUME NEW j \in 1..i PROVE Holds(disk[n].log, j, committed[j])
  OBVIOUS
<1>1. Holds(disk[n].log, j, SubSeq(committed[i], 1, j))
  BY DEF HistoryInv, LogOf, Holds
<1> QED BY <1>1, CommittedChain

\* At most one voter strays: below a proof for something else it keeps nothing
\* of what was committed, and two voters keep it.
LEMMA OneStray ==
  ASSUME HistoryInv, NEW a \in HVoters, NEW b \in HVoters, a # b, Stray(a), Stray(b)
  PROVE  FALSE
<1>1. ASSUME NEW n \in HVoters, Stray(n)
      PROVE  \E k \in 1..commit : \A j \in 1..commit : k <= j => n \notin Keepers(j)
  <2>1. PICK k \in DOMAIN disk[n].proofs : k <= commit /\ disk[n].proofs[k] # committed[k]
    BY <1>1 DEF Stray
  <2>2. k \in 1..commit /\ Holds(disk[n].log, k, disk[n].proofs[k])
    BY <2>1, ProofIndex
  <2>3. ASSUME NEW j \in 1..commit, k <= j, n \in Keepers(j) PROVE FALSE
    <3>1. Holds(disk[n].log, j, committed[j])
      BY <2>3 DEF Keepers
    <3>2. k \in 1..j
      BY <2>2, <2>3
    <3>3. Holds(disk[n].log, k, committed[k])
      BY <3>1, <3>2, EntryCovers
    <3> QED BY <2>1, <2>2, <3>3 DEF Holds
  <2> QED BY <2>2, <2>3
<1>2. PICK k \in 1..commit : \A j \in 1..commit : k <= j => a \notin Keepers(j)
  BY <1>1
<1>3. PICK i \in 1..commit : \A j \in 1..commit : i <= j => b \notin Keepers(j)
  BY <1>1
<1>4. PICK j \in 1..commit : k <= j /\ i <= j
  BY <1>2, <1>3
<1>5. a \notin Keepers(j) /\ b \notin Keepers(j) /\ Pair(Keepers(j))
  BY <1>2, <1>3, <1>4 DEF HistoryInv, CommitInv
<1> QED BY <1>5 DEF Pair, HVoters

\* A voter applies a committed prefix.
LEMMA ApplyStep ==
  ASSUME HistoryInv, NEW n \in HVoters, NEW k \in 1..HMaxIndex, Apply(n, k)
  PROVE  HistoryInv'
<1>1. PICK a, s, new, T :
        /\ a = disk[n].applied /\ s = disk[n].seq /\ new = (a + 1)..k
        /\ T = {i \in new : EntryOp(disk[n].log[i]) = "ADD"}
  OBVIOUS
<1>2. /\ a <= k /\ k <= commit /\ new \subseteq DOMAIN disk[n].log
      /\ k > a => \E i \in DOMAIN disk[n].proofs : k <= i /\ i <= commit
      /\ disk' = [disk EXCEPT ![n].applied = k, ![n].seq = s + Cardinality(T)]
      /\ UNCHANGED <<active, commit, prepared, committed>>
  BY <1>1 DEF Apply
<1>3. /\ HistoryTypes /\ disk[n] \in Disks /\ disk \in [HVoters -> Disks]
      /\ a \in Nat /\ s \in Nat /\ k \in Nat /\ k >= 1 /\ commit \in Nat
  BY <1>1, HistoryAssumption, DiskTypes DEF HistoryInv, HistoryTypes
<1>4. /\ disk[n].snapshot <= a
      /\ ~ Stray(n) => /\ s = Cardinality(Added(a))
                       /\ \A j \in 1..a : Holds(disk[n].log, j, committed[j])
  BY <1>1 DEF HistoryInv, AppliedOf
<1>5. ASSUME ~ Stray(n) PROVE \A j \in 1..k : Holds(disk[n].log, j, committed[j])
  <2>1. CASE k = a
    BY <1>4, <1>5, <2>1
  <2>2. CASE k > a
    <3>1. PICK i \in DOMAIN disk[n].proofs : k <= i /\ i <= commit
      BY <1>2, <2>2
    <3>2. i \in 1..commit /\ Holds(disk[n].log, i, disk[n].proofs[i])
      BY <3>1, ProofIndex
    <3>3. disk[n].proofs[i] = committed[i]
      BY <1>5, <3>1 DEF Stray
    <3>4. \A j \in 1..i : Holds(disk[n].log, j, committed[j])
      BY <3>2, <3>3, EntryCovers
    <3> QED BY <1>3, <3>1, <3>2, <3>4
  <2> QED BY <1>2, <1>3, <2>1, <2>2
<1>6. s + Cardinality(T) \in Nat /\ (~ Stray(n) => s + Cardinality(T) = Cardinality(Added(k)))
  <2>1. Cardinality(T) \in Nat
    <3>1. a + 1 \in Int /\ k \in Int
      BY <1>3
    <3>2. IsFiniteSet((a + 1)..k)
      BY <3>1, FS_Interval
    <3>3. T \subseteq (a + 1)..k
      BY <1>1
    <3> QED BY <3>2, <3>3, FS_Subset, FS_CardinalityType
  <2>2. ASSUME ~ Stray(n) PROVE s + Cardinality(T) = Cardinality(Added(k))
    <3>1. \A i \in new : disk[n].log[i] = committed[i]
      BY <1>1, <1>3, <1>5, <2>2 DEF Holds
    <3>2. T = {i \in (a + 1)..k : EntryOp(committed[i]) = "ADD"}
      BY <1>1, <3>1
    <3>3. Cardinality(Added(k)) = Cardinality(Added(a)) + Cardinality(T)
      BY <1>2, <1>3, <3>2, AddedSplit
    <3> QED BY <1>4, <2>2, <3>3
  <2> QED BY <1>3, <2>1, <2>2
<1>7. PICK t : t = s + Cardinality(T) /\ t \in Nat
  BY <1>6
<1>8. /\ disk'[n] = [disk[n] EXCEPT !.applied = k, !.seq = t]
      /\ \A m \in HVoters : m # n => disk'[m] = disk[m]
      /\ DOMAIN disk' = HVoters /\ disk' = [m \in HVoters |-> disk'[m]]
  BY <1>2, <1>3, <1>7
<1>9. /\ disk'[n] \in Disks /\ disk'[n].applied = k /\ disk'[n].seq = t
      /\ disk'[n].epoch = disk[n].epoch /\ disk'[n].inc = disk[n].inc
      /\ disk'[n].log = disk[n].log /\ disk'[n].proofs = disk[n].proofs
      /\ disk'[n].snapshot = disk[n].snapshot
  BY <1>3, <1>7, <1>8 DEF Disks
<1>10. \A m \in HVoters :
         /\ disk'[m] \in Disks
         /\ m # n => disk'[m] = disk[m]
         /\ disk'[m].epoch = disk[m].epoch /\ disk'[m].inc = disk[m].inc
         /\ disk'[m].log = disk[m].log /\ disk'[m].proofs = disk[m].proofs
  BY <1>3, <1>8, <1>9
<1>11. HistoryTypes'
  <2>1. disk' \in [HVoters -> Disks]
    BY <1>8, <1>10
  <2> QED BY <1>2, <1>3, <2>1 DEF HistoryTypes
<1>12. Kept
  BY <1>10, KeptSame
<1>13. AppliedOf(n)'
  <2>1. Added(k)' = Added(k)
    BY <1>2 DEF Added
  <2>2. disk[n].snapshot \in Nat /\ disk[n].snapshot <= k
    BY <1>2, <1>3, <1>4, DiskTypes
  <2>3. ~ Stray(n)' => ~ Stray(n)
    BY <1>2, <1>12, StrayKept
  <2>4. ~ Stray(n) => /\ \A j \in 1..k : Holds(disk[n].log, j, committed[j])
                      /\ t = Cardinality(Added(k))
    BY <1>5, <1>6, <1>7
  <2> QED BY <1>2, <1>9, <2>1, <2>2, <2>3, <2>4 DEF AppliedOf
<1>14. CommitInv'
  BY <1>2, <1>12, CommitKept DEF HistoryInv
<1>15. \A m \in HVoters : LogOf(m)' /\ DurableOf(m)'
  BY <1>10, LogKept, DurableKept DEF HistoryInv
<1>16. \A m \in HVoters : m # n => AppliedOf(m)'
  <2> SUFFICES ASSUME NEW m \in HVoters, m # n PROVE AppliedOf(m)'
    OBVIOUS
  <2>1. disk'[m] = disk[m] /\ AppliedOf(m) /\ commit' = commit /\ committed' = committed
    BY <1>2, <1>10 DEF HistoryInv
  <2> QED BY <1>3, <1>12, <2>1, AppliedKept
<1> QED BY <1>11, <1>13, <1>14, <1>15, <1>16 DEF HistoryInv

\* A voter installs a snapshot of what it applied.
LEMMA SnapshotStep ==
  ASSUME HistoryInv, NEW n \in HVoters, NEW k \in 1..HMaxIndex, InstallSnapshot(n, k)
  PROVE  HistoryInv'
<1>1. /\ k <= disk[n].applied /\ disk' = [disk EXCEPT ![n].snapshot = k]
      /\ UNCHANGED <<active, commit, prepared, committed>>
  BY DEF InstallSnapshot
<1>2. HistoryTypes /\ disk[n] \in Disks /\ disk \in [HVoters -> Disks] /\ k \in Nat
  BY HistoryAssumption, DiskTypes DEF HistoryInv, HistoryTypes
<1>3. /\ disk'[n] = [disk[n] EXCEPT !.snapshot = k]
      /\ \A m \in HVoters : m # n => disk'[m] = disk[m]
      /\ DOMAIN disk' = HVoters /\ disk' = [m \in HVoters |-> disk'[m]]
  BY <1>1, <1>2
<1>4. /\ disk'[n] \in Disks /\ disk'[n].snapshot = k
      /\ disk'[n].epoch = disk[n].epoch /\ disk'[n].inc = disk[n].inc
      /\ disk'[n].log = disk[n].log /\ disk'[n].proofs = disk[n].proofs
      /\ disk'[n].applied = disk[n].applied /\ disk'[n].seq = disk[n].seq
  BY <1>2, <1>3 DEF Disks
<1>5. \A m \in HVoters :
        /\ disk'[m] \in Disks
        /\ disk'[m].epoch = disk[m].epoch /\ disk'[m].inc = disk[m].inc
        /\ disk'[m].log = disk[m].log /\ disk'[m].proofs = disk[m].proofs
  BY <1>2, <1>3, <1>4
<1>6. HistoryTypes'
  <2>1. disk' \in [HVoters -> Disks]
    BY <1>3, <1>5
  <2> QED BY <1>1, <1>2, <2>1 DEF HistoryTypes
<1>7. Kept
  BY <1>5, KeptSame
<1>8. AppliedOf(n)'
  <2>1. Stray(n)' = Stray(n) /\ Added(disk[n].applied)' = Added(disk[n].applied)
    BY <1>1, <1>4 DEF Stray, Added
  <2>2. AppliedOf(n)
    BY DEF HistoryInv
  <2> QED BY <1>1, <1>4, <2>1, <2>2 DEF AppliedOf
<1>9. \A m \in HVoters : m # n => AppliedOf(m)'
  <2> SUFFICES ASSUME NEW m \in HVoters, m # n PROVE AppliedOf(m)'
    OBVIOUS
  <2>1. disk'[m] = disk[m] /\ AppliedOf(m) /\ commit' = commit /\ committed' = committed
    BY <1>1, <1>3 DEF HistoryInv
  <2> QED BY <1>2, <1>7, <2>1, AppliedKept
<1>10. CommitInv'
  BY <1>1, <1>7, CommitKept DEF HistoryInv
<1>11. \A m \in HVoters : LogOf(m)' /\ DurableOf(m)'
  BY <1>5, LogKept, DurableKept DEF HistoryInv
<1> QED BY <1>6, <1>8, <1>9, <1>10, <1>11 DEF HistoryInv

\* A voter drops its log from an index above every durable proof.
LEMMA TruncateStep ==
  ASSUME HistoryInv, NEW n \in HVoters, NEW from \in 1..HMaxIndex,
         Truncate(n, from)
  PROVE  HistoryInv'
<1>1. PICK L, M : L = disk[n].log /\ M = [i \in {j \in DOMAIN L : j < from} |-> L[i]]
  OBVIOUS
<1>2. /\ from > commit /\ \A m \in HVoters : \A i \in DOMAIN disk[m].proofs : from > i
      /\ disk' = [disk EXCEPT ![n].log = M]
      /\ UNCHANGED <<active, commit, prepared, committed>>
  BY <1>1 DEF Truncate
<1>3. HistoryTypes /\ L \in Tables /\ from \in Nat /\ commit \in Nat
  BY <1>1, HistoryAssumption, DiskTypes DEF HistoryInv, HistoryTypes
<1>4. DOMAIN L \subseteq Nat /\ \A i \in DOMAIN L : L[i] \in Paths
  BY <1>3, TableParts
<1>5. /\ M \in Tables /\ DOMAIN M = {j \in DOMAIN L : j < from}
      /\ \A i \in DOMAIN M : M[i] = L[i]
  <2>1. {j \in DOMAIN L : j < from} \in SUBSET Nat
    BY <1>4
  <2>2. M \in [{j \in DOMAIN L : j < from} -> Paths]
    BY <1>1, <1>4
  <2> QED BY <1>1, <2>1, <2>2, TableIs
<1>6. /\ disk' \in [HVoters -> Disks] /\ disk'[n].log = M
      /\ \A m \in HVoters :
           /\ m # n => disk'[m].log = disk[m].log
           /\ disk'[m].epoch = disk[m].epoch /\ disk'[m].inc = disk[m].inc
           /\ disk'[m].proofs = disk[m].proofs /\ disk'[m].applied = disk[m].applied
           /\ disk'[m].seq = disk[m].seq /\ disk'[m].snapshot = disk[m].snapshot
  BY <1>2, <1>3, <1>5, DiskLog
<1>7. HistoryTypes'
  BY <1>2, <1>3, <1>6 DEF HistoryTypes
<1>8. ASSUME NEW m \in HVoters, NEW i, i < from, NEW v, Holds(disk[m].log, i, v)
      PROVE  Holds(disk'[m].log, i, v)
  BY <1>1, <1>5, <1>6, <1>8 DEF Holds
<1>9. Kept
  <2>1. \A k \in 1..commit : k < from
    BY <1>2, <1>3
  <2> QED BY <1>6, <1>8, <2>1 DEF Kept
<1>10. CommitInv'
  BY <1>2, <1>9, CommitKept DEF HistoryInv
<1>11. ASSUME NEW m \in HVoters PROVE AppliedOf(m)'
  BY <1>2, <1>3, <1>6, <1>9, AppliedKept DEF HistoryInv
<1>12. ASSUME NEW m \in HVoters PROVE DurableOf(m)'
  <2> SUFFICES ASSUME NEW k \in DOMAIN disk[m].proofs
               PROVE  Holds(disk'[m].log, k, disk[m].proofs[k])
    BY <1>6 DEF DurableOf
  <2>1. Holds(disk[m].log, k, disk[m].proofs[k])
    BY DEF HistoryInv, DurableOf
  <2>2. k < from
    BY <1>2
  <2> QED BY <1>8, <2>1, <2>2
<1>13. LogOf(n)'
  <2> SUFFICES ASSUME NEW x \in DOMAIN M
               PROVE  /\ x >= 1 /\ Len(M[x]) = x
                      /\ \A j \in 1..x : Holds(M, j, SubSeq(M[x], 1, j))
    BY <1>6 DEF LogOf
  <2>1. /\ x \in DOMAIN L /\ x < from /\ M[x] = L[x] /\ x \in Nat
        /\ x >= 1 /\ Len(L[x]) = x /\ \A j \in 1..x : Holds(L, j, SubSeq(L[x], 1, j))
    BY <1>1, <1>4, <1>5 DEF HistoryInv, LogOf
  <2>2. \A j \in 1..x : j < from
    BY <1>3, <2>1
  <2> QED BY <1>5, <2>1, <2>2 DEF Holds
<1>14. \A m \in HVoters : m # n => LogOf(m)'
  BY <1>6, LogKept DEF HistoryInv
<1> QED BY <1>7, <1>10, <1>11, <1>12, <1>13, <1>14 DEF HistoryInv

-----------------------------------------------------------------------------
(* The theorems *)

\* Three empty disks.
LEMMA InitHistory == HistoryInit => HistoryInv
<1> SUFFICES ASSUME HistoryInit PROVE HistoryInv
  OBVIOUS
<1>1. \A n \in HVoters :
        disk[n] = [epoch |-> 0, inc |-> "none", log |-> <<>>, proofs |-> <<>>,
                   applied |-> 0, seq |-> 0, snapshot |-> 0]
  BY DEF HistoryInit
<1>2. PICK none : none = <<>> /\ none \in Tables /\ DOMAIN none = {}
  BY TableEmpty
<1>3. \A n \in HVoters :
        /\ disk[n].epoch = 0 /\ disk[n].inc = "none" /\ disk[n].log = none
        /\ disk[n].proofs = none /\ disk[n].applied = 0 /\ disk[n].seq = 0
        /\ disk[n].snapshot = 0 /\ disk[n] \in Disks
  BY <1>1, <1>2 DEF Disks, Incs
<1>4. active = <<0, "none">> /\ commit = 0 /\ committed = <<>> /\ prepared = {}
  BY <1>2 DEF HistoryInit
<1>5. committed \in Seq(Paths) /\ Len(committed) = 0
  BY <1>4, EmptySeq
<1>6. HistoryTypes
  <2>1. disk \in [HVoters -> Disks]
    BY <1>3 DEF HistoryInit
  <2> QED BY <1>2, <1>4, <1>5, <2>1 DEF HistoryTypes, Incs
<1>7. CommitInv
  BY <1>4, <1>5 DEF CommitInv
<1>8. ASSUME NEW n \in HVoters PROVE LogOf(n) /\ DurableOf(n) /\ AppliedOf(n)
  <2>1. LogOf(n) /\ DurableOf(n)
    BY <1>2, <1>3 DEF LogOf, DurableOf
  <2>2. Added(0) = {}
    BY DEF Added
  <2>3. Cardinality(Added(0)) = 0
    BY <2>2, FS_EmptySet
  <2> QED BY <1>3, <1>4, <2>1, <2>3 DEF AppliedOf
<1> QED BY <1>6, <1>7, <1>8 DEF HistoryInv

\* Every step, one case for each operation.
LEMMA StepHistory == HistoryInv /\ [HistoryNext]_historyVars => HistoryInv'
<1> SUFFICES ASSUME HistoryInv, [HistoryNext]_historyVars PROVE HistoryInv'
  OBVIOUS
<1>1. CASE \E epoch \in 1..HMaxEpoch, inc \in Incarnations, nodes \in SUBSET HVoters :
             Activate(epoch, inc, nodes)
  BY <1>1, ActivateStep
<1>2. CASE \E e \in Candidates, n \in HVoters : AppendEntry(n, e)
  BY <1>2, AppendStep
<1>3. CASE \E e \in Candidates : \E receipts \in SUBSET EntryHolders(e) : PrepareProof(e, receipts)
  BY <1>3, PrepareProofStep
<1>4. CASE \E e \in prepared, n \in HVoters : PersistProof(n, e)
  BY <1>4, PersistStep
<1>5. CASE \E e \in prepared : \E acks \in SUBSET ProofHolders(e) : CompleteCommit(e, acks)
  BY <1>5, CompleteStep
<1>6. CASE \E n \in HVoters, k \in 1..HMaxIndex : Apply(n, k)
  BY <1>6, ApplyStep
<1>7. CASE \E n \in HVoters, k \in 1..HMaxIndex : InstallSnapshot(n, k)
  BY <1>7, SnapshotStep
<1>8. CASE \E n \in HVoters, k \in 1..HMaxIndex : Truncate(n, k)
  BY <1>8, TruncateStep
<1>9. CASE \E from, to \in HVoters, k \in 1..HMaxIndex : CopyProof(from, to, k)
  BY <1>9, CopyStep
<1>10. CASE UNCHANGED historyVars
  BY <1>10, StutterStep
<1> QED BY <1>1, <1>2, <1>3, <1>4, <1>5, <1>6, <1>7, <1>8, <1>9, <1>10 DEF HistoryNext

\* Among three snapshots there is a second highest, so the floor is one of them.
LEMMA FloorIsSnapshot ==
  ASSUME HistoryTypes
  PROVE  \E n \in HVoters : RecoveryFloor = disk[n].snapshot
<1>1. PICK a, b, c : /\ a = disk["node-1"].snapshot /\ b = disk["node-2"].snapshot
                     /\ c = disk["node-3"].snapshot
  OBVIOUS
<1>2. a \in Nat /\ b \in Nat /\ c \in Nat
  BY <1>1, DiskTypes DEF HVoters
<1>3. \E n \in HVoters :
        /\ Pair({m \in HVoters : disk[m].snapshot >= disk[n].snapshot})
        /\ ~ Pair({m \in HVoters : disk[m].snapshot > disk[n].snapshot})
  <2>1. CASE (b <= a /\ a <= c) \/ (c <= a /\ a <= b)
    <3>1. /\ Pair({m \in HVoters : disk[m].snapshot >= disk["node-1"].snapshot})
          /\ ~ Pair({m \in HVoters : disk[m].snapshot > disk["node-1"].snapshot})
      BY <1>1, <1>2, <2>1 DEF Pair, HVoters
    <3> QED BY <3>1 DEF HVoters
  <2>2. CASE (a <= b /\ b <= c) \/ (c <= b /\ b <= a)
    <3>1. /\ Pair({m \in HVoters : disk[m].snapshot >= disk["node-2"].snapshot})
          /\ ~ Pair({m \in HVoters : disk[m].snapshot > disk["node-2"].snapshot})
      BY <1>1, <1>2, <2>2 DEF Pair, HVoters
    <3> QED BY <3>1 DEF HVoters
  <2>3. CASE (a <= c /\ c <= b) \/ (b <= c /\ c <= a)
    <3>1. /\ Pair({m \in HVoters : disk[m].snapshot >= disk["node-3"].snapshot})
          /\ ~ Pair({m \in HVoters : disk[m].snapshot > disk["node-3"].snapshot})
      BY <1>1, <1>2, <2>3 DEF Pair, HVoters
    <3> QED BY <3>1 DEF HVoters
  <2>4. \/ (b <= a /\ a <= c) \/ (c <= a /\ a <= b)
        \/ (a <= b /\ b <= c) \/ (c <= b /\ b <= a)
        \/ (a <= c /\ c <= b) \/ (b <= c /\ c <= a)
    BY <1>2
  <2> QED BY <2>1, <2>2, <2>3, <2>4, Zenon
<1>4. \A k : /\ Cardinality({m \in HVoters : disk[m].snapshot >= k}) >= 2
                  <=> Pair({m \in HVoters : disk[m].snapshot >= k})
             /\ Cardinality({m \in HVoters : disk[m].snapshot > k}) <= 1
                  <=> ~ Pair({m \in HVoters : disk[m].snapshot > k})
  BY TwoVoters
<1>5. \E k \in {disk[n].snapshot : n \in HVoters} :
        /\ Cardinality({n \in HVoters : disk[n].snapshot >= k}) >= 2
        /\ Cardinality({n \in HVoters : disk[n].snapshot > k}) <= 1
  BY <1>3, <1>4
<1>6. RecoveryFloor \in {disk[n].snapshot : n \in HVoters}
  BY <1>5 DEF RecoveryFloor
<1> QED BY <1>6

\* What the invariant says of what was committed.
LEMMA InvKeepsCommitted ==
  ASSUME HistoryInv
  PROVE  CommittedKept
<1>1. HistoryTypes /\ commit \in Nat /\ committed \in Seq(Paths) /\ Len(committed) = commit
  BY DEF HistoryInv, HistoryTypes, CommitInv
<1>2. ASSUME NEW k \in DOMAIN committed PROVE Cardinality(Keepers(k)) >= 2
  <2>1. k \in 1..commit
    BY <1>1
  <2>2. Pair(Keepers(k)) /\ Keepers(k) \subseteq HVoters
    BY <2>1 DEF HistoryInv, CommitInv, Keepers
  <2> QED BY <2>2, TwoVoters
<1>3. ASSUME NEW n \in HVoters, ~ Stray(n)
      PROVE  /\ \A k \in 1..disk[n].applied : disk[n].log[k] = committed[k]
             /\ disk[n].seq = Cardinality({k \in 1..disk[n].applied : EntryOp(committed[k]) = "ADD"})
  BY <1>3 DEF HistoryInv, AppliedOf, Added, Holds
<1>4. Cardinality({n \in HVoters : Stray(n)}) <= 1
  <2>1. PICK S : S = {n \in HVoters : Stray(n)}
    OBVIOUS
  <2>2. ~ Pair(S) /\ S \subseteq HVoters
    BY <2>1, OneStray DEF Pair
  <2>3. Cardinality(S) \in Nat /\ ~ Cardinality(S) >= 2
    BY <2>2, TwoVoters
  <2>4. Cardinality(S) <= 1
    BY <2>3
  <2> QED BY <2>1, <2>4
<1>5. RecoveryFloor <= commit
  <2>1. PICK n \in HVoters : RecoveryFloor = disk[n].snapshot
    BY <1>1, FloorIsSnapshot
  <2>2. disk[n].snapshot \in Nat /\ disk[n].applied \in Nat
    BY <1>1, DiskTypes
  <2>3. disk[n].snapshot <= disk[n].applied /\ disk[n].applied <= commit
    BY DEF HistoryInv, AppliedOf
  <2> QED BY <1>1, <2>1, <2>2, <2>3
<1> QED BY <1>2, <1>3, <1>4, <1>5 DEF CommittedKept

\* The inductive invariant of the safety model, with truncation as free as
\* truncate_uncommitted leaves it: a log is one path, a durable proof is for the
\* entry of its own voter, and two voters keep what was committed, with its proof.
THEOREM HistoryInductive == HistorySpec => []HistoryInv
<1> QED BY InitHistory, StepHistory, PTL DEF HistorySpec

\* What complete_commit committed stays on two voters with its proof, also when
\* a proof prepared before a truncation is forced after it.  At most one voter
\* then strays; every other one applied exactly what was committed.
THEOREM CommittedStays == HistorySpec => []CommittedKept
<1>1. HistoryInv => CommittedKept
  BY InvKeepsCommitted
<1> QED BY <1>1, HistoryInductive, PTL

-----------------------------------------------------------------------------
(* The read model *)

\* The model as a specification.
ReadsSpec == ReadsInit /\ [][ReadsNext]_readVars

\* The sets that the state comes from.
Policies == {"strong", "minimum", "stale"}
Phases   == {"NEW", "WAIT", "ACTIVE", "RELEASED", "SUCCESS", "REJECTED", "CANCELLED"}
Prefixes == [accepted : Nat, proven : Nat, published : Nat]
NodeSet  == [epoch : Nat \ {0}, role : Roles, quorum : BOOLEAN, closed : BOOLEAN, expired : BOOLEAN]
AskSet   == [policy : Policies, identity : Nat, minimum : Nat, phase : Phases, barrier : Int,
             epoch : Nat, cut : Int, invoked : Nat, cancelled : BOOLEAN, sent : Int]

ReadTypes ==
    /\ prefix \in Prefixes /\ sequence \in Seq(Nat) /\ node \in NodeSet /\ asks \in Seq(AskSet)

PrefixInv ==
    /\ prefix.published <= prefix.proven /\ prefix.accepted \in prefix.proven..(prefix.proven + 1)
    /\ Len(sequence) = prefix.proven + 1 /\ \A k \in 2..Len(sequence) : sequence[k - 1] <= sequence[k]

\* The barrier of a strong read was proven after its admission, in its epoch.
BarrierInv(r) == r.barrier > r.sent /\ r.barrier >= 1 /\ r.epoch >= 1

\* What is known of a read in each phase, where pr is proven and pu published.
AskAt(r, pr, pu) ==
    /\ r.phase = "NEW" => r.cut = -1 /\ r.invoked = 0 /\ r.barrier = -1
    /\ r.phase = "WAIT" =>
         /\ r.cut = -1 /\ r.invoked = 0 /\ r.identity = 0 /\ r.sent >= 0 /\ r.sent <= pr
         /\ r.barrier = -1 \/ BarrierInv(r)
    /\ Captured(r) =>
         /\ 0 <= r.cut /\ r.cut <= pu /\ r.invoked = 1 /\ r.identity = 0
         /\ r.policy = "minimum" => r.cut >= r.minimum
         /\ r.policy = "strong" => BarrierInv(r) /\ r.cut >= r.barrier

AsksInv ==
    /\ \A i \in DOMAIN asks : AskAt(asks[i], prefix.proven, prefix.published)
    /\ \A i, j \in DOMAIN asks : asks[i].phase = "ACTIVE" /\ asks[j].phase = "ACTIVE" => i = j

ReadsInv == ReadTypes /\ PrefixInv /\ AsksInv

\* A read that this step leaves in place, while the prefix grows.
LEMMA AskKept ==
    ASSUME NEW r \in AskSet, NEW p \in Nat, NEW u \in Nat, NEW q \in Nat, NEW w \in Nat,
           AskAt(r, p, u), p <= q, u <= w
    PROVE  AskAt(r, q, w)
BY DEF AskAt, AskSet, BarrierInv, Captured

\* A step of the replica: the prefix grows and no read changes.
LEMMA ReplicaStep ==
    ASSUME ReadsInv, ReadTypes', PrefixInv', UNCHANGED asks,
           prefix.proven <= prefix'.proven, prefix.published <= prefix'.published
    PROVE  ReadsInv'
<1>1. ASSUME NEW i \in DOMAIN asks PROVE AskAt(asks[i], prefix'.proven, prefix'.published)
  <2>1. asks[i] \in AskSet /\ AskAt(asks[i], prefix.proven, prefix.published)
    BY DEF ReadsInv, ReadTypes, AsksInv
  <2>2. /\ prefix.proven \in Nat /\ prefix.published \in Nat
        /\ prefix'.proven \in Nat /\ prefix'.published \in Nat
    BY DEF ReadsInv, ReadTypes, Prefixes
  <2> QED BY <2>1, <2>2, AskKept
<1>2. AsksInv' BY <1>1 DEF ReadsInv, AsksInv
<1> QED BY <1>2 DEF ReadsInv

\* A step of read i, which becomes r; the prefix may grow.
LEMMA AskStep ==
    ASSUME ReadsInv, ReadTypes', PrefixInv', NEW i \in DOMAIN asks, NEW r, asks' = [asks EXCEPT ![i] = r],
           prefix.proven <= prefix'.proven, prefix'.published = prefix.published,
           AskAt(r, prefix'.proven, prefix'.published),
           r.phase = "ACTIVE" => asks[i].phase = "ACTIVE" \/ ~ViewActive
    PROVE  ReadsInv'
<1>1. asks \in Seq(AskSet) BY DEF ReadsInv, ReadTypes
<1>2. DOMAIN asks' = DOMAIN asks /\ asks'[i] = r /\ \A k \in DOMAIN asks : k # i => asks'[k] = asks[k]
  BY <1>1
<1>3. ASSUME NEW k \in DOMAIN asks PROVE AskAt(asks'[k], prefix'.proven, prefix'.published)
  <2>1. asks[k] \in AskSet /\ AskAt(asks[k], prefix.proven, prefix.published)
    BY <1>1 DEF ReadsInv, AsksInv
  <2>2. /\ prefix.proven \in Nat /\ prefix.published \in Nat
        /\ prefix'.proven \in Nat /\ prefix'.published \in Nat
    BY DEF ReadsInv, ReadTypes, Prefixes
  <2>3. CASE k = i BY <1>2, <2>3
  <2>4. CASE k # i BY <1>2, <2>1, <2>2, <2>4, AskKept
  <2> QED BY <2>3, <2>4
<1>4. ASSUME NEW k \in DOMAIN asks, NEW l \in DOMAIN asks, asks'[k].phase = "ACTIVE", asks'[l].phase = "ACTIVE"
      PROVE  k = l
  BY <1>2, <1>4 DEF ReadsInv, AsksInv, ViewActive
<1>5. AsksInv' BY <1>2, <1>3, <1>4 DEF AsksInv
<1> QED BY <1>5 DEF ReadsInv

\* A step that changes read i only.
LEMMA AskOnly ==
    ASSUME ReadsInv, NEW i \in DOMAIN asks, NEW r \in AskSet, Ask(i, r),
           AskAt(r, prefix.proven, prefix.published),
           r.phase = "ACTIVE" => asks[i].phase = "ACTIVE" \/ ~ViewActive
    PROVE  ReadsInv'
<1>1. asks' = [asks EXCEPT ![i] = r] /\ prefix' = prefix /\ sequence' = sequence /\ node' = node BY DEF Ask
<1>2. ReadTypes /\ PrefixInv BY DEF ReadsInv
<1>3. asks' \in Seq(AskSet) BY <1>1, <1>2 DEF ReadTypes
<1>4. ReadTypes' BY <1>1, <1>2, <1>3 DEF ReadTypes
<1>5. PrefixInv' BY <1>1, <1>2 DEF PrefixInv
<1>6. prefix.proven <= prefix'.proven BY <1>1, <1>2 DEF ReadTypes, Prefixes
<1> QED BY <1>1, <1>4, <1>5, <1>6, AskStep

\* A read in the tuple.
LEMMA AskFacts ==
    ASSUME ReadsInv, NEW i \in DOMAIN asks
    PROVE  /\ asks[i] \in AskSet /\ AskAt(asks[i], prefix.proven, prefix.published)
           /\ prefix.proven \in Nat /\ prefix.published \in Nat /\ prefix.published <= prefix.proven
BY DEF ReadsInv, ReadTypes, AsksInv, PrefixInv, Prefixes

\* Admission notes what was proven; a refused read is final at once.
LEMMA AdmitStep ==
    ASSUME ReadsInv, NEW i \in DOMAIN asks, AdmitRead(i)
    PROVE  ReadsInv'
<1> DEFINE r == asks[i]
<1>1. PICK s : s = [r EXCEPT !.phase = IF Refusing(r) THEN "REJECTED" ELSE "WAIT", !.sent = prefix.proven] OBVIOUS
<1>2. r.phase = "NEW" /\ Ask(i, s) BY <1>1 DEF AdmitRead
<1>3. s \in AskSet
  <2>1. asks[i] \in AskSet /\ prefix.proven \in Int BY AskFacts
  <2>2. PICK ph \in Phases : ph = IF Refusing(r) THEN "REJECTED" ELSE "WAIT" BY DEF Phases
  <2>3. s = [asks[i] EXCEPT !.phase = ph, !.sent = prefix.proven] BY <1>1, <2>2
  <2> QED BY <2>1, <2>3 DEF AskSet
<1>4. AskAt(s, prefix.proven, prefix.published)
  <2>1. CASE Refusing(r) BY <1>1, <2>1, AskFacts DEF AskAt, AskSet, Captured
  <2>2. CASE ~Refusing(r)
    <3>1. r.identity = 0 BY <2>2 DEF Refusing
    <3>2. /\ s.phase = "WAIT" /\ s.cut = r.cut /\ s.invoked = r.invoked /\ s.identity = r.identity
          /\ s.sent = prefix.proven /\ s.barrier = r.barrier
      BY <1>1, <2>2, AskFacts DEF AskSet
    <3> QED BY <1>2, <3>1, <3>2, AskFacts DEF AskAt, Captured
  <2> QED BY <2>1, <2>2
<1>5. s.phase # "ACTIVE" BY <1>1, AskFacts DEF AskSet
<1> QED BY <1>2, <1>3, <1>4, <1>5, AskOnly

\* A read that is refused or cancelled, held or released, or completed.
LEMMA PhaseStep ==
    ASSUME ReadsInv, NEW i \in DOMAIN asks, NEW to \in {"REJECTED", "CANCELLED", "RELEASED", "SUCCESS"},
           to \in {"RELEASED", "SUCCESS"} => asks[i].phase \in {"ACTIVE", "RELEASED"},
           Ask(i, [asks[i] EXCEPT !.phase = to])
    PROVE  ReadsInv'
<1>1. PICK s : s = [asks[i] EXCEPT !.phase = to] OBVIOUS
<1>2. s \in AskSet /\ s.phase = to BY <1>1, AskFacts DEF AskSet, Phases
<1>3. /\ s.cut = asks[i].cut /\ s.invoked = asks[i].invoked /\ s.identity = asks[i].identity
      /\ s.policy = asks[i].policy /\ s.minimum = asks[i].minimum
      /\ s.barrier = asks[i].barrier /\ s.sent = asks[i].sent /\ s.epoch = asks[i].epoch
  BY <1>1, AskFacts DEF AskSet
<1>4. AskAt(s, prefix.proven, prefix.published)
  BY <1>2, <1>3, AskFacts DEF AskAt, Captured, BarrierInv
<1> QED BY <1>1, <1>2, <1>4, AskOnly

\* A cancellation that waits for the view to be released.
LEMMA CancelActiveStep ==
    ASSUME ReadsInv, NEW i \in DOMAIN asks, CancelActive(i)
    PROVE  ReadsInv'
<1>1. PICK s : s = [asks[i] EXCEPT !.cancelled = TRUE] OBVIOUS
<1>2. s \in AskSet BY <1>1, AskFacts DEF AskSet
<1>3. /\ s.cut = asks[i].cut /\ s.invoked = asks[i].invoked /\ s.identity = asks[i].identity
      /\ s.policy = asks[i].policy /\ s.minimum = asks[i].minimum /\ s.phase = asks[i].phase
      /\ s.barrier = asks[i].barrier /\ s.sent = asks[i].sent /\ s.epoch = asks[i].epoch
  BY <1>1, AskFacts DEF AskSet
<1>4. AskAt(s, prefix.proven, prefix.published)
  BY <1>3, AskFacts DEF AskAt, Captured, BarrierInv
<1>5. asks[i].phase = "ACTIVE" /\ Ask(i, s) BY <1>1 DEF CancelActive
<1> QED BY <1>2, <1>4, <1>5, AskOnly

\* A capture takes the published prefix, at or above the barrier or the minimum.
LEMMA CaptureStep ==
    ASSUME ReadsInv, NEW i \in DOMAIN asks, CaptureView(i)
    PROVE  ReadsInv'
<1> DEFINE r == asks[i]
<1>1. PICK s : s = [r EXCEPT !.phase = "ACTIVE", !.cut = prefix.published, !.invoked = 1] OBVIOUS
<1>2. /\ r.phase = "WAIT" /\ ~ViewActive /\ Ask(i, s)
      /\ r.policy = "strong" => r.barrier >= 0 /\ prefix.published >= r.barrier
      /\ r.policy = "minimum" => prefix.published >= r.minimum
  BY <1>1 DEF CaptureView
<1>3. s \in AskSet
  <2>1. asks[i] \in AskSet /\ prefix.published \in Int /\ "ACTIVE" \in Phases BY AskFacts DEF Phases
  <2> QED BY <1>1, <2>1 DEF AskSet
<1>4. /\ s.cut = prefix.published /\ s.invoked = 1 /\ s.identity = r.identity
      /\ s.policy = r.policy /\ s.minimum = r.minimum /\ s.phase = "ACTIVE"
      /\ s.barrier = r.barrier /\ s.sent = r.sent /\ s.epoch = r.epoch
  BY <1>1, AskFacts DEF AskSet
<1>5. r.identity = 0 /\ (r.barrier = -1 \/ BarrierInv(r)) BY <1>2, AskFacts DEF AskAt
<1>6. AskAt(s, prefix.proven, prefix.published)
  BY <1>2, <1>4, <1>5, AskFacts DEF AskAt, Captured, BarrierInv
<1> QED BY <1>2, <1>3, <1>6, AskOnly

\* The prefix and the sequences grow by one proven position.
LEMMA ProvenGrows ==
    ASSUME ReadsInv, NEW d \in Nat, prefix.proven + 1 \in Nat, NEW a \in Nat, a = prefix.proven + 1,
           prefix' = [prefix EXCEPT !.accepted = a, !.proven = a],
           sequence' = Append(sequence, sequence[Len(sequence)] + d)
    PROVE  PrefixInv' /\ prefix' \in Prefixes /\ sequence' \in Seq(Nat) /\ prefix'.published = prefix.published
           /\ prefix'.proven = a
<1>1. /\ prefix \in Prefixes /\ sequence \in Seq(Nat) /\ PrefixInv /\ Len(sequence) = prefix.proven + 1
      /\ Len(sequence) \in Nat /\ prefix.published <= prefix.proven /\ prefix.proven \in Nat /\ prefix.published \in Nat
  BY DEF ReadsInv, ReadTypes, PrefixInv, Prefixes
<1>2. /\ prefix' \in Prefixes /\ prefix'.published = prefix.published
      /\ prefix'.proven = a /\ prefix'.accepted = a
  BY <1>1 DEF Prefixes
<1>3. sequence[Len(sequence)] \in Nat BY <1>1
<1>4. PICK e \in Nat : e = sequence[Len(sequence)] + d BY <1>3
<1>5. /\ sequence' = Append(sequence, e) /\ sequence' \in Seq(Nat) /\ Len(sequence') = Len(sequence) + 1
      /\ \A k \in 1..Len(sequence) : sequence'[k] = sequence[k]
      /\ sequence'[Len(sequence) + 1] = e
  BY <1>1, <1>4
<1>6. ASSUME NEW k \in 2..Len(sequence') PROVE sequence'[k - 1] <= sequence'[k]
  <2>0. PICK n \in Nat : n = Len(sequence) BY <1>1
  <2>a. k \in 2..(n + 1) BY <1>5, <2>0
  <2>1. CASE k <= Len(sequence)
    <3>0. k \in 2..n /\ k \in 1..n /\ k - 1 \in 1..n BY <2>0, <2>a, <2>1
    <3>1. k \in 2..Len(sequence) /\ k \in 1..Len(sequence) /\ k - 1 \in 1..Len(sequence) BY <2>0, <3>0
    <3> QED BY <1>1, <1>5, <3>1 DEF PrefixInv
  <2>2. CASE k = Len(sequence) + 1
    <3>1. k - 1 = Len(sequence) /\ k - 1 \in 1..Len(sequence) BY <1>1, <2>2
    <3>2. sequence'[k - 1] = sequence[Len(sequence)] BY <1>5, <3>1
    <3> QED BY <1>3, <1>4, <1>5, <2>2, <3>2
  <2>3. k <= n \/ k = n + 1 BY <2>a
  <2> QED BY <2>0, <2>1, <2>2, <2>3
<1>7. Len(sequence') = a + 1 BY <1>1, <1>5
<1>8. prefix'.published <= prefix'.proven /\ prefix'.accepted \in prefix'.proven..(prefix'.proven + 1) BY <1>1, <1>2
<1> QED BY <1>2, <1>5, <1>6, <1>7, <1>8 DEF PrefixInv

\* An accepted position.
LEMMA AcceptStep ==
    ASSUME ReadsInv, AcceptNext
    PROVE  ReadsInv'
<1>1. /\ prefix \in Prefixes /\ sequence \in Seq(Nat) /\ node \in NodeSet /\ asks \in Seq(AskSet) /\ PrefixInv
  BY DEF ReadsInv, ReadTypes
<1>2. PICK a \in Nat : a = prefix.accepted + 1 BY <1>1 DEF Prefixes
<1>3. /\ prefix.accepted = prefix.proven /\ prefix' = [prefix EXCEPT !.accepted = a]
      /\ UNCHANGED <<sequence, node, asks>>
  BY <1>1, <1>2 DEF AcceptNext, Prefixes
<1>4. /\ prefix' \in Prefixes /\ prefix'.published = prefix.published
      /\ prefix'.proven = prefix.proven /\ prefix'.accepted = a /\ prefix.proven \in Nat /\ prefix.published \in Nat
  BY <1>1, <1>3 DEF Prefixes
<1>5. PrefixInv' BY <1>1, <1>2, <1>3, <1>4 DEF PrefixInv
<1>6. ReadTypes' BY <1>1, <1>3, <1>4 DEF ReadTypes
<1> QED BY <1>3, <1>4, <1>5, <1>6, ReplicaStep

\* A publication, of all that is proven.
LEMMA PublishStep ==
    ASSUME ReadsInv, Publish
    PROVE  ReadsInv'
<1>1. /\ prefix \in Prefixes /\ sequence \in Seq(Nat) /\ node \in NodeSet /\ asks \in Seq(AskSet) /\ PrefixInv
  BY DEF ReadsInv, ReadTypes
<1>2. prefix' = [prefix EXCEPT !.published = prefix.proven] /\ UNCHANGED <<sequence, node, asks>>
  BY DEF Publish
<1>3. /\ prefix' \in Prefixes /\ prefix'.published = prefix.proven
      /\ prefix'.proven = prefix.proven /\ prefix'.accepted = prefix.accepted
      /\ prefix.proven \in Nat /\ prefix.published \in Nat
  BY <1>1, <1>2 DEF Prefixes
<1>4. PrefixInv' BY <1>1, <1>2, <1>3 DEF PrefixInv
<1>5. ReadTypes' BY <1>1, <1>2, <1>3 DEF ReadTypes
<1>6. prefix.published <= prefix'.published BY <1>1, <1>3 DEF PrefixInv
<1> QED BY <1>2, <1>3, <1>4, <1>5, <1>6, ReplicaStep

\* A proof of what is accepted.
LEMMA ProveStep ==
    ASSUME ReadsInv, NEW d \in {0, 1}, ProveNext(d)
    PROVE  ReadsInv'
<1>1. /\ prefix \in Prefixes /\ node \in NodeSet /\ asks \in Seq(AskSet) /\ PrefixInv
      /\ prefix.proven \in Nat /\ prefix.accepted \in Nat
  BY DEF ReadsInv, ReadTypes, Prefixes
<1>2. /\ prefix.accepted > prefix.proven /\ prefix' = [prefix EXCEPT !.proven = prefix.accepted]
      /\ sequence' = Append(sequence, sequence[Len(sequence)] + d) /\ UNCHANGED <<node, asks>>
  BY DEF ProveNext
<1>3. PICK a \in Nat : a = prefix.accepted /\ a = prefix.proven + 1 BY <1>1, <1>2 DEF PrefixInv
<1>4. prefix' = [prefix EXCEPT !.accepted = a, !.proven = a] BY <1>1, <1>2, <1>3 DEF Prefixes
<1>5. /\ PrefixInv' /\ prefix' \in Prefixes /\ sequence' \in Seq(Nat) /\ prefix'.published = prefix.published
      /\ prefix'.proven = a
  BY <1>1, <1>2, <1>3, <1>4, ProvenGrows
<1>6. ReadTypes' BY <1>1, <1>2, <1>5 DEF ReadTypes
<1>7. prefix.proven <= prefix'.proven /\ prefix.published <= prefix'.published
  BY <1>1, <1>3, <1>5 DEF Prefixes
<1> QED BY <1>2, <1>5, <1>6, <1>7, ReplicaStep

\* The barrier of a strong read, above what was proven when it was admitted.
LEMMA BarrierStep ==
    ASSUME ReadsInv, NEW i \in DOMAIN asks, ProveBarrier(i)
    PROVE  ReadsInv'
<1>1. /\ prefix \in Prefixes /\ node \in NodeSet /\ asks \in Seq(AskSet) /\ prefix.proven \in Nat
      /\ prefix.published \in Nat /\ sequence \in Seq(Nat) /\ Len(sequence) = prefix.proven + 1
      /\ node.epoch \in Nat \ {0}
  BY DEF ReadsInv, ReadTypes, Prefixes, PrefixInv, NodeSet
<1>2. PICK a \in Nat : a = prefix.proven + 1 BY <1>1
<1>3. PICK s : s = [asks[i] EXCEPT !.barrier = a, !.epoch = node.epoch] OBVIOUS
<1>4. /\ asks[i].phase = "WAIT" /\ asks' = [asks EXCEPT ![i].barrier = a, ![i].epoch = node.epoch]
      /\ prefix' = [prefix EXCEPT !.accepted = a, !.proven = a]
      /\ sequence' = Append(sequence, sequence[Len(sequence)]) /\ UNCHANGED node
  BY <1>2 DEF ProveBarrier
<1>5. asks' = [asks EXCEPT ![i] = s] BY <1>1, <1>3, <1>4
<1>6. sequence[Len(sequence)] + 0 = sequence[Len(sequence)] BY <1>1
<1>7. /\ PrefixInv' /\ prefix' \in Prefixes /\ sequence' \in Seq(Nat) /\ prefix'.published = prefix.published
      /\ prefix'.proven = a
  BY <1>2, <1>4, <1>6, ProvenGrows
<1>8. asks[i] \in AskSet /\ AskAt(asks[i], prefix.proven, prefix.published) BY AskFacts
<1>9. s \in AskSet
  <2>1. PICK e \in Nat : e = node.epoch BY <1>1
  <2>2. s = [asks[i] EXCEPT !.barrier = a, !.epoch = e] /\ a \in Int BY <1>3, <2>1
  <2> QED BY <1>8, <2>2 DEF AskSet
<1>10. /\ s.cut = asks[i].cut /\ s.invoked = asks[i].invoked /\ s.identity = asks[i].identity
       /\ s.phase = "WAIT" /\ s.barrier = a /\ s.sent = asks[i].sent /\ s.epoch = node.epoch
       /\ asks[i].sent \in Int
  BY <1>3, <1>4, <1>8 DEF AskSet
<1>11. AskAt(s, a, prefix.published)
  <2>1. /\ asks[i].cut = -1 /\ asks[i].invoked = 0 /\ asks[i].identity = 0
        /\ asks[i].sent >= 0 /\ asks[i].sent <= prefix.proven
    BY <1>4, <1>8 DEF AskAt
  <2>2. BarrierInv(s) /\ s.sent <= a
    <3>1. a > asks[i].sent /\ a >= 1 /\ node.epoch >= 1 BY <1>1, <1>2, <1>10, <2>1
    <3> QED BY <1>2, <1>10, <3>1 DEF BarrierInv
  <2>3. ~Captured(s) /\ s.phase # "NEW" BY <1>10 DEF Captured
  <2> QED BY <1>10, <2>1, <2>2, <2>3 DEF AskAt
<1>12. ReadTypes'
  <2>1. asks' \in Seq(AskSet) BY <1>1, <1>5, <1>9
  <2> QED BY <1>1, <1>4, <1>7, <2>1 DEF ReadTypes
<1>13. prefix.proven <= prefix'.proven BY <1>1, <1>2, <1>7
<1> QED BY <1>5, <1>7, <1>10, <1>11, <1>12, <1>13, AskStep

\* What happens to the node itself touches no read.
LEMMA TurnStep ==
    ASSUME ReadsInv, NEW t \in NodeSet, Turn(t)
    PROVE  ReadsInv'
<1>1. ReadTypes /\ PrefixInv /\ node' = t /\ UNCHANGED <<prefix, sequence, asks>> BY DEF Turn, ReadsInv
<1>2. ReadTypes' BY <1>1 DEF ReadTypes
<1>3. PrefixInv' BY <1>1 DEF PrefixInv
<1>4. prefix.proven <= prefix'.proven /\ prefix.published <= prefix'.published
  BY <1>1 DEF ReadTypes, Prefixes
<1> QED BY <1>1, <1>2, <1>3, <1>4, ReplicaStep

\* The invariant holds of the initial replica, with any tuple of reads.
LEMMA ReadsStart == ReadsInit => ReadsInv
<1> SUFFICES ASSUME ReadsInit PROVE ReadsInv OBVIOUS
<1>1. PICK root \in ReadRoots : asks = [i \in DOMAIN root |-> NewRead(root[i])] BY DEF ReadsInit
<1>2. root \in Seq(Policies \X Nat \X Nat) BY ReadsAssumption DEF Policies
<1>3. ASSUME NEW t \in Policies \X Nat \X Nat
      PROVE  NewRead(t) \in AskSet /\ NewRead(t).phase = "NEW" /\ AskAt(NewRead(t), 0, 0)
  BY DEF NewRead, AskSet, AskAt, Captured, Phases
<1>4. asks \in Seq(AskSet) /\ DOMAIN asks = DOMAIN root
  <2>1. DOMAIN root = 1..Len(root) /\ Len(root) \in Nat BY <1>2
  <2>2. asks \in [1..Len(root) -> AskSet] BY <1>1, <1>2, <1>3, <2>1
  <2> QED BY <2>1, <2>2
<1>5. \A i \in DOMAIN asks : asks[i].phase = "NEW" /\ AskAt(asks[i], 0, 0)
  BY <1>1, <1>2, <1>3, <1>4
<1>6. /\ prefix \in Prefixes /\ prefix.proven = 0 /\ prefix.published = 0 /\ prefix.accepted = 0
      /\ sequence = <<0>> /\ node \in NodeSet
  BY DEF ReadsInit, Prefixes, NodeSet, Roles
<1>7. ReadTypes BY <1>4, <1>6 DEF ReadTypes
<1>8. PrefixInv BY <1>6 DEF PrefixInv
<1>9. AsksInv BY <1>5, <1>6 DEF AsksInv
<1> QED BY <1>7, <1>8, <1>9 DEF ReadsInv

\* Every step keeps the invariant.
LEMMA ReadsStep == ReadsInv /\ [ReadsNext]_readVars => ReadsInv'
<1> SUFFICES ASSUME ReadsInv, [ReadsNext]_readVars PROVE ReadsInv' OBVIOUS
<1>0. node \in NodeSet BY DEF ReadsInv, ReadTypes
<1>1. CASE UNCHANGED readVars
  BY <1>1 DEF readVars, ReadsInv, ReadTypes, PrefixInv, AsksInv
<1>2. CASE AcceptNext \/ Publish BY <1>2, AcceptStep, PublishStep
<1>3. CASE PromiseHigher
  <2>1. [node EXCEPT !.epoch = @ + 1, !.role = "follower"] \in NodeSet
    <3>1. PICK e \in Nat \ {0} : e = node.epoch + 1 BY <1>0 DEF NodeSet
    <3>2. [node EXCEPT !.epoch = e, !.role = "follower"] \in NodeSet BY <1>0 DEF NodeSet, Roles
    <3> QED BY <1>0, <3>1, <3>2 DEF NodeSet
  <2> QED BY <1>3, <2>1, TurnStep DEF PromiseHigher
<1>4. CASE FlipQuorum
  <2>1. [node EXCEPT !.quorum = ~@] \in NodeSet
    <3>1. PICK q \in BOOLEAN : q = ~node.quorum OBVIOUS
    <3>2. [node EXCEPT !.quorum = q] \in NodeSet BY <1>0 DEF NodeSet
    <3> QED BY <1>0, <3>1, <3>2
  <2> QED BY <1>4, <2>1, TurnStep DEF FlipQuorum
<1>5. CASE CloseNode
  <2>1. [node EXCEPT !.closed = TRUE] \in NodeSet BY <1>0 DEF NodeSet
  <2> QED BY <1>5, <2>1, TurnStep DEF CloseNode
<1>6. CASE Expire
  <2>1. [node EXCEPT !.expired = TRUE] \in NodeSet BY <1>0 DEF NodeSet
  <2> QED BY <1>6, <2>1, TurnStep DEF Expire
<1>7. CASE \E d \in {0, 1} : ProveNext(d) BY <1>7, ProveStep
<1>8. ASSUME NEW role \in Roles, ChangeRole(role) PROVE ReadsInv'
  <2>1. [node EXCEPT !.role = role] \in NodeSet BY <1>0 DEF NodeSet
  <2> QED BY <1>8, <2>1, TurnStep DEF ChangeRole
<1>9. ASSUME NEW i \in DOMAIN asks, AdmitRead(i) \/ ProveBarrier(i) \/ CaptureView(i) \/ CancelActive(i) PROVE ReadsInv'
  BY <1>9, AdmitStep, BarrierStep, CaptureStep, CancelActiveStep
<1>10. ASSUME NEW i \in DOMAIN asks, CancelWaiting(i) PROVE ReadsInv'
  BY <1>10, PhaseStep DEF CancelWaiting
<1>11. ASSUME NEW i \in DOMAIN asks, RejectRead(i) PROVE ReadsInv'
  BY <1>11, PhaseStep DEF RejectRead
<1>12. ASSUME NEW i \in DOMAIN asks, ReleaseView(i) PROVE ReadsInv'
  <2>1. PICK to \in {"CANCELLED", "RELEASED"} : to = IF asks[i].cancelled THEN "CANCELLED" ELSE "RELEASED" OBVIOUS
  <2> QED BY <1>12, <2>1, PhaseStep DEF ReleaseView
<1>13. ASSUME NEW i \in DOMAIN asks, NEW to \in {"SUCCESS", "CANCELLED"}, CompleteRead(i, to) PROVE ReadsInv'
  BY <1>13, PhaseStep DEF CompleteRead
<1> QED BY <1>1, <1>2, <1>3, <1>4, <1>5, <1>6, <1>7, <1>8, <1>9, <1>10, <1>11, <1>12, <1>13 DEF ReadsNext

\* The invariant gives what the model checks of a state.
LEMMA InvChecked ==
    ASSUME ReadsInv PROVE StateChecked /\ StrongIsFresh
<1>1. Cardinality({i \in DOMAIN asks : asks[i].phase = "ACTIVE"}) <= 1
  <2>1. PICK A : A = {i \in DOMAIN asks : asks[i].phase = "ACTIVE"} OBVIOUS
  <2>2. \A i, j \in A : i = j BY <2>1 DEF ReadsInv, AsksInv
  <2>3. CASE A = {}
    <3>1. Cardinality(A) = 0 BY <2>3, FS_EmptySet
    <3> QED BY <2>1, <3>1
  <2>4. CASE A # {}
    <3>1. PICK i : A = {i} BY <2>2, <2>4
    <3>2. Cardinality(A) = 1 BY <3>1, FS_Singleton
    <3> QED BY <2>1, <3>2
  <2> QED BY <2>3, <2>4
<1>2. /\ 0 <= prefix.published /\ prefix.published <= prefix.proven /\ prefix.proven <= prefix.accepted
      /\ Len(sequence) = prefix.proven + 1 /\ \A k \in 2..Len(sequence) : sequence[k - 1] <= sequence[k]
  BY DEF ReadsInv, ReadTypes, Prefixes, PrefixInv
<1>3. ASSUME NEW i \in DOMAIN asks
      PROVE  LET r == asks[i]
             IN /\ Captured(r) => /\ 0 <= r.cut /\ r.cut <= prefix.published /\ r.invoked = 1 /\ r.identity = 0
                                  /\ r.policy = "minimum" => r.cut >= r.minimum
                                  /\ r.policy = "strong" => r.barrier >= 1 /\ r.cut >= r.barrier /\ r.epoch >= 1
                /\ r.phase = "WAIT" => r.cut = -1 /\ r.invoked = 0
                /\ Captured(r) /\ r.policy = "strong" => r.cut > r.sent
  BY AskFacts DEF AskAt, BarrierInv, AskSet
<1> QED BY <1>1, <1>2, <1>3 DEF StateChecked, StrongIsFresh

\* What the explorer checks of a step.
LEMMA StepFits ==
    ASSUME ReadsInv, [ReadsNext]_readVars PROVE [StepChecked]_readVars
<1> SUFFICES ASSUME ReadsNext PROVE StepChecked OBVIOUS
<1>1. asks \in Seq(AskSet) /\ prefix \in Prefixes BY DEF ReadsInv, ReadTypes
<1>2. CASE asks' = asks /\ (prefix'.published = prefix.published \/ ~ViewActive) BY <1>2 DEF StepChecked
<1>3. ASSUME NEW i \in DOMAIN asks, NEW r, asks' = [asks EXCEPT ![i] = r], prefix'.published = prefix.published,
             asks[i].phase \notin {"SUCCESS", "REJECTED", "CANCELLED"},
             asks[i].phase = "WAIT" /\ r.phase = "ACTIVE" /\ asks[i].policy = "strong" =>
                r.epoch = node.epoch /\ node.role = "leader"
      PROVE  StepChecked
  <2>1. asks'[i] = r /\ \A k \in DOMAIN asks : k # i => asks'[k] = asks[k] BY <1>1, <1>3
  <2> QED BY <1>3, <2>1 DEF StepChecked
<1>4. CASE AcceptNext \/ Publish \/ \E d \in {0, 1} : ProveNext(d)
  BY <1>1, <1>2, <1>4 DEF AcceptNext, Publish, ProveNext, Prefixes
<1>5. CASE PromiseHigher \/ FlipQuorum \/ CloseNode \/ Expire \/ \E role \in Roles : ChangeRole(role)
  BY <1>2, <1>5 DEF PromiseHigher, FlipQuorum, CloseNode, Expire, ChangeRole, Turn
<1>6. ASSUME NEW i \in DOMAIN asks, AdmitRead(i) PROVE StepChecked
  <2>1. PICK s : s = [asks[i] EXCEPT !.phase = IF Refusing(asks[i]) THEN "REJECTED" ELSE "WAIT", !.sent = prefix.proven]
    OBVIOUS
  <2>2. asks[i].phase = "NEW" /\ asks' = [asks EXCEPT ![i] = s] /\ prefix' = prefix BY <1>6, <2>1 DEF AdmitRead, Ask
  <2> QED BY <1>3, <2>2
<1>7. ASSUME NEW i \in DOMAIN asks, NEW to, to # "ACTIVE", Ask(i, [asks[i] EXCEPT !.phase = to]),
             asks[i].phase \in {"WAIT", "ACTIVE", "RELEASED"}
      PROVE  StepChecked
  <2>1. PICK s : s = [asks[i] EXCEPT !.phase = to] OBVIOUS
  <2>2. s.phase = to /\ asks' = [asks EXCEPT ![i] = s] /\ prefix' = prefix BY <1>7, <2>1, AskFacts DEF Ask, AskSet
  <2> QED BY <1>3, <1>7, <2>2
<1>8. ASSUME NEW i \in DOMAIN asks, CancelWaiting(i) \/ RejectRead(i) PROVE StepChecked
  BY <1>7, <1>8 DEF CancelWaiting, RejectRead
<1>9. ASSUME NEW i \in DOMAIN asks, ReleaseView(i) PROVE StepChecked
  <2>1. PICK to \in {"CANCELLED", "RELEASED"} : to = IF asks[i].cancelled THEN "CANCELLED" ELSE "RELEASED" OBVIOUS
  <2> QED BY <1>7, <1>9, <2>1 DEF ReleaseView
<1>10. ASSUME NEW i \in DOMAIN asks, NEW to \in {"SUCCESS", "CANCELLED"}, CompleteRead(i, to) PROVE StepChecked
  BY <1>7, <1>10 DEF CompleteRead
<1>11. ASSUME NEW i \in DOMAIN asks, CancelActive(i) PROVE StepChecked
  <2>1. PICK s : s = [asks[i] EXCEPT !.cancelled = TRUE] OBVIOUS
  <2>2. asks[i].phase = "ACTIVE" /\ asks' = [asks EXCEPT ![i] = s] /\ prefix' = prefix BY <1>11, <2>1 DEF CancelActive, Ask
  <2> QED BY <1>3, <2>2
<1>12. ASSUME NEW i \in DOMAIN asks, CaptureView(i) PROVE StepChecked
  <2>1. PICK s : s = [asks[i] EXCEPT !.phase = "ACTIVE", !.cut = prefix.published, !.invoked = 1] OBVIOUS
  <2>2. /\ asks[i].phase = "WAIT" /\ asks' = [asks EXCEPT ![i] = s] /\ prefix' = prefix /\ ~Fenced(asks[i])
        /\ asks[i].policy = "strong" => asks[i].barrier >= 0
    BY <1>12, <2>1 DEF CaptureView, Ask
  <2>3. s.epoch = asks[i].epoch BY <2>1, AskFacts DEF AskSet
  <2>4. asks[i].policy = "strong" => asks[i].epoch >= 1 /\ asks[i].epoch \in Nat
    BY <2>2, AskFacts DEF AskAt, BarrierInv, AskSet
  <2>5. asks[i].policy = "strong" => s.epoch = node.epoch /\ node.role = "leader"
    BY <2>2, <2>3, <2>4 DEF Fenced
  <2> QED BY <1>3, <2>2, <2>5
<1>13. ASSUME NEW i \in DOMAIN asks, ProveBarrier(i) PROVE StepChecked
  <2>1. PICK s : s = [asks[i] EXCEPT !.barrier = prefix.proven + 1, !.epoch = node.epoch] OBVIOUS
  <2>2. /\ asks[i].phase = "WAIT" /\ asks' = [asks EXCEPT ![i].barrier = prefix.proven + 1, ![i].epoch = node.epoch]
        /\ prefix' = [prefix EXCEPT !.accepted = prefix.proven + 1, !.proven = prefix.proven + 1]
    BY <1>13 DEF ProveBarrier
  <2>3. asks' = [asks EXCEPT ![i] = s] BY <1>1, <2>1, <2>2
  <2>4. prefix'.published = prefix.published BY <1>1, <2>2 DEF Prefixes
  <2>5. s.phase = "WAIT" BY <2>1, <2>2, AskFacts DEF AskSet
  <2> QED BY <1>3, <2>2, <2>3, <2>4, <2>5
<1> QED BY <1>4, <1>5, <1>6, <1>8, <1>9, <1>10, <1>11, <1>12, <1>13 DEF ReadsNext

\* The inductive invariant of the read model: a barrier is proven after the
\* admission of its read, at most one view is held, and a captured prefix is
\* published.
THEOREM ReadsInductive == ReadsSpec => []ReadsInv
BY ReadsStart, ReadsStep, PTL DEF ReadsSpec

\* Every state and every step of the read model passes its own checks, and a
\* strong read returns everything that was proven when it was admitted.
THEOREM ReadsStaySafe == ReadsSpec => ReadsSafe
<1>1. ReadsInv => StateChecked /\ StrongIsFresh BY InvChecked
<1>2. ReadsInv /\ [ReadsNext]_readVars => [StepChecked]_readVars BY StepFits
<1> QED BY <1>1, <1>2, ReadsInductive, PTL DEF ReadsSpec, ReadsSafe
=============================================================================
