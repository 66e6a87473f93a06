-------------------------- MODULE ReferenceCluster --------------------------
(***************************************************************************)
(* The executable logical protocol of the automatic mode (v51/model.py),    *)
(* driven the way explore.py drives it, and the event oracle (history.py)   *)
(* that judges its events.  A transition is one durable action; messages    *)
(* are delivered in any order, lost or duplicated.  The oracle rebuilds     *)
(* promises, acceptances and prefixes from the same events the voters       *)
(* change, so only what it adds (chosen values, selections, answers, reads) *)
(* is state of its own here; its verdict is kept in verdict.                *)
(***************************************************************************)
EXTENDS Integers, FiniteSets, Sequences, Bags

CONSTANTS
    MaxBallot,     \* bound: the largest ballot of a campaign (model.py: 2^63 - 1)
    QueueLimit,    \* Cluster.queue_limit
    PromiseLimit,  \* Cluster.promise_limit
    PinLimit,      \* the pin bound (8 in the code)
    Commands,      \* client values
    MaxSlots,      \* bound: a command is submitted below this slot
    ReadIds,       \* read identities
    MaxEffort      \* bound: campaigns, drops, duplicates, restarts and lost disks together

ASSUME ClusterAssumption ==
    /\ MaxBallot \in Nat /\ QueueLimit \in Nat /\ PromiseLimit \in Nat
    /\ PinLimit \in Nat /\ MaxSlots \in Nat /\ MaxEffort \in Nat
    /\ 0 \notin ReadIds   \* stands for "no read"

VARIABLES
    voters,     \* Voter: promise, prefix, accepted, generation, sealed, promises
    campaigns,  \* ballot -> the campaign of its proposer
    messages,   \* the bag of messages in flight
    pins,       \* read -> the pinned prefix, for reads not yet finished
    reads,      \* read -> its ballot, and what the oracle keeps of it
    chosen,     \* the oracle's chosen values by slot
    selections, \* the oracle's selection by ballot
    answers,    \* the oracle's acknowledged slots
    verdict,    \* "PASS", or the first rule the oracle found broken
    anomalies   \* faults injected so far

clusterVars == <<voters, campaigns, messages, pins, reads, chosen, selections, answers, verdict, anomalies>>

Nodes == 0..2
Ballots == 2..MaxBallot

\* Values: an activation or a read barrier of a ballot, or a command.
Activation(b)     == <<"activation", b, 0>>
Barrier(b, r)     == <<"read", b, r>>
Command(x)        == <<"command", 0, x>>

\* The latest of a set of numbers, zero when there is none.
Greatest(S) == IF S = {} THEN 0 ELSE CHOOSE k \in S : \A j \in S : j <= k
IsPrefixOf(s, t) == Len(s) <= Len(t) /\ SubSeq(t, 1, Len(s)) = s
Extend(f, k, v) == [x \in DOMAIN f \cup {k} |-> IF x = k THEN v ELSE f[x]]

\* next_epoch: the next ballot above maximum that the node of this rank owns.
NextEpoch(maximum, rank) ==
    3 * (IF maximum = 1 THEN 0 ELSE (maximum - 2) \div 3 + 1) + rank + 2
Owner(b) == (b - 2) % 3

NoRound == [slot |-> 0, value |-> <<>>, accepts |-> {}, proofs |-> {}, activation |-> FALSE, read |-> 0, proof |-> FALSE]
NoRead == 0

ClusterInit ==
    /\ voters = [n \in Nodes |-> [promise |-> 1, prefix |-> <<>>, accepted |-> <<>>,
                                  generation |-> 1, sealed |-> TRUE, promises |-> 1]]
    /\ campaigns = <<>> /\ messages = EmptyBag /\ pins = <<>> /\ reads = <<>>
    /\ chosen = <<>> /\ selections = <<>> /\ answers = {} /\ verdict = "PASS" /\ anomalies = 0

-----------------------------------------------------------------------------
(* Messages. *)

Prepare(n, b)          == [kind |-> "prepare", target |-> n, ballot |-> b]
PromiseMsg(n, b, basis) == [kind |-> "promise", target |-> n, ballot |-> b, basis |-> basis]
AcceptMsg(n, b, p, v)  == [kind |-> "accept", target |-> n, ballot |-> b, prefix |-> p, value |-> v]
Receipt(kind, n, b, from, s, v) == [kind |-> kind, target |-> n, ballot |-> b, node |-> from, slot |-> s, value |-> v]

\* queue: refused at the limit; every caller queues last, so what does not fit
\* is the only thing that is left out.
Queue(bag, ms) ==
    LET fit == {i \in DOMAIN ms : i <= QueueLimit - BagCardinality(bag)}
    IN [m \in DOMAIN bag \cup {ms[i] : i \in fit} |->
          (IF m \in DOMAIN bag THEN bag[m] ELSE 0) + Cardinality({i \in fit : ms[i] = m})]
Remove(bag, m) == bag (-) SetToBag({m})

\* The oracle keeps the first rule that fails.
Rule(name, holds) == IF holds THEN <<>> ELSE <<name>>
Judge(broken) == verdict' = IF verdict # "PASS" \/ broken = <<>> THEN verdict ELSE Head(broken)

-----------------------------------------------------------------------------
(* Promises and campaigns. *)

MayPrepare(n, b) ==
    /\ voters[n].sealed
    /\ b > voters[n].promise /\ voters[n].promises < PromiseLimit

\* prepare: the promise is forced, then the basis is frozen.
Prepared(n, b) == [voters EXCEPT ![n].promise = b, ![n].promises = @ + 1]
\* Mutant: acceptances without a proof are not reported.
BasisWithoutTail(n, b) == [node |-> n, ballot |-> b, prefix |-> voters[n].prefix, accepted |-> <<>>]
BasisOf(n, b) ==
    LET v == voters[n]
    IN [node |-> n, ballot |-> b, prefix |-> v.prefix,
        accepted |-> [s \in {i \in DOMAIN v.accepted : i > Len(v.prefix)} |-> v.accepted[s]]]

\* Campaigns and faults share one bound.
InBudget == Cardinality(DOMAIN campaigns) + anomalies < MaxEffort

\* campaign, with the ballot after its own promise or after every promise.
Campaign(n) ==
    \E b \in {NextEpoch(voters[n].promise, n), NextEpoch(Greatest({voters[k].promise : k \in Nodes}), n)} :
        /\ InBudget /\ b <= MaxBallot /\ b \notin DOMAIN campaigns /\ MayPrepare(n, b)
        /\ voters' = Prepared(n, b)
        /\ campaigns' = Extend(campaigns, b,
             [node |-> n, basis |-> BasisOf(n, b), selected |-> FALSE, retired |-> FALSE, ready |-> FALSE,
              round |-> NoRound, quorum |-> {}])
        /\ messages' = Queue(messages, <<Prepare((n + 1) % 3, b), Prepare((n + 2) % 3, b)>>)
        /\ Judge(Rule("I01", Owner(b) = n))
        /\ UNCHANGED <<pins, reads, chosen, selections, answers, anomalies>>

\* begin: one round at a time; the values go to the two voters of the quorum.
Begun(c, prefix, value, activation, read) ==
    [c EXCEPT !.round = [NoRound EXCEPT !.slot = Len(prefix) + 1, !.value = value,
                                        !.activation = activation, !.read = read]]
Accepts(b, quorum, prefix, value) ==
    LET other == CHOOSE n \in quorum : n # campaigns[b].node
    IN <<AcceptMsg(campaigns[b].node, b, prefix, value), AcceptMsg(other, b, prefix, value)>>
MayBegin(b) == campaigns[b].round = NoRound /\ voters[campaigns[b].node].promise = b

\* submit
Submit(b, x) ==
    LET c == campaigns[b]
        prefix == voters[c.node].prefix
    IN /\ c.ready /\ MayBegin(b) /\ Len(prefix) < MaxSlots
       /\ campaigns' = [campaigns EXCEPT ![b] = Begun(c, prefix, Command(x), FALSE, NoRead)]
       /\ messages' = Queue(messages, Accepts(b, c.quorum, prefix, Command(x)))
       /\ UNCHANGED <<voters, pins, reads, chosen, selections, answers, verdict, anomalies>>

\* read: the identity is spent and the invocation recorded before begin, which
\* may still refuse a busy slot.
Read(b, r) ==
    LET c == campaigns[b]
        prefix == voters[c.node].prefix
    IN /\ r \notin DOMAIN reads /\ c.ready
       /\ reads' = Extend(reads, r, [ballot |-> b, writes |-> answers, pin |-> <<>>])
       /\ IF MayBegin(b)
          THEN /\ campaigns' = [campaigns EXCEPT ![b] = Begun(c, prefix, Barrier(b, r), FALSE, r)]
               /\ messages' = Queue(messages, Accepts(b, c.quorum, prefix, Barrier(b, r)))
          ELSE UNCHANGED <<campaigns, messages>>
       /\ UNCHANGED <<voters, pins, chosen, selections, answers, verdict, anomalies>>

\* finish_read: the pinned view is returned, whatever happened since.
FinishRead(r) ==
    /\ r \in DOMAIN pins
    /\ pins' = [x \in DOMAIN pins \ {r} |-> pins[x]]
    /\ Judge(Rule("I06", pins[r] = reads[r].pin))
    /\ UNCHANGED <<voters, campaigns, messages, reads, chosen, selections, answers, anomalies>>
-----------------------------------------------------------------------------
(* deliver, one action per kind.  The message leaves the queue first; a       *)
(* refused need() only leaves a reject event.                                 *)

Ineligible(m) ==
    \/ ~voters[m.target].sealed
    \/ m.kind \in {"promise", "accepted", "proven"} /\ campaigns[m.ballot].retired

DeliverPrepare(m) ==
    /\ m.kind = "prepare"
    /\ IF ~Ineligible(m) /\ MayPrepare(m.target, m.ballot)
       THEN /\ voters' = Prepared(m.target, m.ballot)
            /\ messages' = Queue(Remove(messages, m),
                 <<PromiseMsg(campaigns[m.ballot].node, m.ballot, BasisOf(m.target, m.ballot))>>)
       ELSE messages' = Remove(messages, m) /\ UNCHANGED voters
    /\ UNCHANGED <<campaigns, pins, reads, chosen, selections, answers, verdict, anomalies>>

\* select: the longest proven prefix, then the acceptance of the highest ballot.
LongestPrefix(bases) == CHOOSE p \in {x.prefix : x \in bases} : \A x \in bases : Len(x.prefix) <= Len(p)
Tails(bases, prefix) == UNION {{<<i, x.accepted[i]>> : i \in {j \in DOMAIN x.accepted : j > Len(prefix)}} : x \in bases}
HighestValues(tails) ==
    LET top == Greatest({t[2][1] : t \in tails}) IN {t[2][2] : t \in {u \in tails : u[2][1] = top}}
Selectable(b, bases) ==
    LET prefix == LongestPrefix(bases)
        tails  == Tails(bases, prefix)
    IN /\ ~campaigns[b].selected /\ voters[campaigns[b].node].promise = b
       /\ \A x \in bases : IsPrefixOf(x.prefix, prefix)
       /\ \A t \in tails : t[1] = Len(prefix) + 1
       /\ Cardinality(HighestValues(tails)) <= 1
\* Mutant: a fresh ballot starts with its activation whatever was accepted.
SelectedFresh(b, tails) == Activation(b)
SelectedValue(b, tails) == IF tails = {} THEN Activation(b) ELSE CHOOSE v \in HighestValues(tails) : TRUE

DeliverPromise(m) ==
    LET b == m.ballot
        c == campaigns[b]
        bases  == {c.basis, m.basis}
        prefix == LongestPrefix(bases)
        tails  == Tails(bases, prefix)
        value  == SelectedValue(b, tails)
        quorum == {c.node, m.basis.node}
    IN /\ m.kind = "promise"
       /\ IF ~Ineligible(m) /\ Selectable(b, bases)
          THEN /\ campaigns' = [campaigns EXCEPT ![b] =
                    Begun([c EXCEPT !.selected = TRUE, !.quorum = quorum], prefix, value, TRUE, NoRead)]
               /\ messages' = Queue(Remove(messages, m), Accepts(b, quorum, prefix, value))
               /\ selections' = Extend(selections, b, <<Len(prefix) + 1, value>>)
               /\ Judge(   Rule("I05", Cardinality(quorum) = 2 /\ c.basis.ballot = b /\ m.basis.ballot = b)
                        \o Rule("I02", \A x \in bases : IsPrefixOf(x.prefix, prefix))
                        \o Rule("I05", tails # {} => value \in HighestValues(tails))
                        \o Rule("I05", b \notin DOMAIN selections))
          ELSE /\ messages' = Remove(messages, m)
               /\ UNCHANGED <<campaigns, selections, verdict>>
       /\ UNCHANGED <<voters, pins, reads, chosen, answers, anomalies>>

\* accept: a longer proven prefix is installed, and stays installed even when
\* the acceptance itself is then refused.
DeliverAccept(m) ==
    LET n == m.target
        v == voters[n]
        slot == Len(m.prefix) + 1
        old  == IF slot \in DOMAIN v.accepted THEN v.accepted[slot] ELSE <<0, m.value>>
        fits == ~Ineligible(m) /\ v.promise = m.ballot /\ IsPrefixOf(v.prefix, m.prefix)
        accepts == fits /\ (old[1] < m.ballot \/ old = <<m.ballot, m.value>>)
        selected == selections[m.ballot]
    IN /\ m.kind = "accept"
       /\ voters' = [voters EXCEPT
            ![n].prefix   = IF fits THEN m.prefix ELSE @,
            ![n].accepted = IF accepts THEN Extend(@, slot, <<m.ballot, m.value>>) ELSE @]
       /\ messages' = IF accepts
                      THEN Queue(Remove(messages, m), <<Receipt("accepted", campaigns[m.ballot].node, m.ballot, n, slot, m.value)>>)
                      ELSE Remove(messages, m)
       /\ Judge(   Rule("I07", fits => \A i \in DOMAIN m.prefix : i \in DOMAIN chosen /\ chosen[i] = m.prefix[i])
                \o Rule("I05", accepts => /\ m.ballot \in DOMAIN selections
                                          /\ slot = selected[1] => m.value = selected[2]))
       /\ UNCHANGED <<campaigns, pins, reads, chosen, selections, answers, anomalies>>

\* accepted: the second acceptance makes the proof, once.
DeliverAccepted(m) ==
    LET b == m.ballot
        c == campaigns[b]
        r == c.round
        have == r.accepts \cup {m.node}
        proves == Cardinality(have) = 2 /\ ~r.proof
        other == CHOOSE n \in c.quorum : n # c.node
    IN /\ m.kind = "accepted"
       /\ IF ~Ineligible(m) /\ voters[m.target].promise = b /\ r.slot = m.slot /\ r.value = m.value
          THEN /\ campaigns' = [campaigns EXCEPT ![b].round.accepts = have, ![b].round.proof = r.proof \/ proves]
               /\ messages' = IF proves
                              THEN Queue(Remove(messages, m), <<Receipt("proof", c.node, b, c.node, r.slot, r.value),
                                                                Receipt("proof", other, b, c.node, r.slot, r.value)>>)
                              ELSE Remove(messages, m)
               /\ chosen' = IF proves THEN Extend(chosen, r.slot, r.value) ELSE chosen
               /\ Judge(   Rule("I02", proves /\ r.slot \in DOMAIN chosen => chosen[r.slot] = r.value)
                        \o Rule("I02", proves => \A n \in have : /\ r.slot \in DOMAIN voters[n].accepted
                                                                 /\ voters[n].accepted[r.slot][1] >= b))
          ELSE messages' = Remove(messages, m) /\ UNCHANGED <<campaigns, chosen, verdict>>
       /\ UNCHANGED <<voters, pins, reads, selections, answers, anomalies>>

\* proof: only over its own acceptance, directly after the proven prefix.
DeliverProof(m) ==
    LET n == m.target
        v == voters[n]
        forces == /\ ~Ineligible(m) /\ v.promise = m.ballot /\ m.slot = Len(v.prefix) + 1
                  /\ m.slot \in DOMAIN v.accepted /\ v.accepted[m.slot] = <<m.ballot, m.value>>
    IN /\ m.kind = "proof"
       /\ voters' = [voters EXCEPT ![n].prefix = IF forces THEN Append(@, m.value) ELSE @]
       /\ messages' = IF forces
                      THEN Queue(Remove(messages, m), <<Receipt("proven", campaigns[m.ballot].node, m.ballot, n, m.slot, m.value)>>)
                      ELSE Remove(messages, m)
       /\ Judge(Rule("I04", forces => m.slot \in DOMAIN chosen /\ chosen[m.slot] = m.value))
       /\ UNCHANGED <<campaigns, pins, reads, chosen, selections, answers, anomalies>>

\* proven: the second proof answers the round; a recovered value is followed by
\* the activation, the activation makes the leader ready, a read is pinned.
DeliverProven(m) ==
    LET b == m.ballot
        c == campaigns[b]
        v == voters[m.target]
        r == c.round
        have == r.proofs \cup {m.node}
        done == Cardinality(have) = 2
        next == done /\ r.activation /\ r.value # Activation(b)
        pinned == done /\ r.read # NoRead /\ Cardinality(DOMAIN pins) < PinLimit
    IN /\ m.kind = "proven"
       /\ IF ~Ineligible(m) /\ v.promise = b /\ r.slot = m.slot /\ r.value = m.value
          THEN /\ campaigns' = [campaigns EXCEPT ![b] =
                    IF ~done THEN [c EXCEPT !.round.proofs = have]
                    ELSE IF next THEN Begun(c, v.prefix, Activation(b), TRUE, NoRead)
                    ELSE [c EXCEPT !.round = NoRound, !.ready = @ \/ r.activation]]
               /\ messages' = IF next THEN Queue(Remove(messages, m), Accepts(b, c.quorum, v.prefix, Activation(b)))
                              ELSE Remove(messages, m)
               /\ answers' = IF done THEN answers \cup {r.slot} ELSE answers
               /\ pins' = IF pinned THEN Extend(pins, r.read, v.prefix) ELSE pins
               /\ reads' = IF pinned THEN [reads EXCEPT ![r.read].pin = v.prefix] ELSE reads
               /\ Judge(   Rule("I03", done => m.target \in have)
                        \o Rule("I04", done => r.slot <= Len(v.prefix) /\ v.prefix[r.slot] = r.value)
                        \o Rule("I06", pinned => v.prefix[Len(v.prefix)] = Barrier(b, r.read) /\ r.proof)
                        \o Rule("I06", pinned => \A s \in reads[r.read].writes : s <= Len(v.prefix) /\ v.prefix[s] = chosen[s]))
          ELSE messages' = Remove(messages, m) /\ UNCHANGED <<campaigns, answers, pins, reads, verdict>>
       /\ UNCHANGED <<voters, chosen, selections, anomalies>>

Deliver ==
    \E m \in DOMAIN messages :
        \/ DeliverPrepare(m) \/ DeliverPromise(m) \/ DeliverAccept(m)
        \/ DeliverAccepted(m) \/ DeliverProof(m) \/ DeliverProven(m)

-----------------------------------------------------------------------------
(* Faults. *)

Anomaly == InBudget /\ anomalies' = anomalies + 1

DropMessage ==
    /\ Anomaly
    /\ \E m \in DOMAIN messages : messages' = Remove(messages, m)
    /\ UNCHANGED <<voters, campaigns, pins, reads, chosen, selections, answers, verdict>>

Duplicate ==
    /\ Anomaly
    /\ \E m \in DOMAIN messages : BagCardinality(messages) < QueueLimit /\ messages' = Queue(messages, <<m>>)
    /\ UNCHANGED <<voters, campaigns, pins, reads, chosen, selections, answers, verdict>>

\* restart: durable state survives, the node's campaigns are retired; a lost
\* disk is never a voter again.
RestartNode(n, lost) ==
    /\ Anomaly
    /\ voters' = [voters EXCEPT ![n].generation = @ + 1, ![n].sealed = @ /\ ~lost]
    /\ campaigns' = [b \in DOMAIN campaigns |->
         IF campaigns[b].node = n THEN [campaigns[b] EXCEPT !.ready = FALSE, !.retired = TRUE] ELSE campaigns[b]]
    /\ UNCHANGED <<messages, pins, reads, chosen, selections, answers, verdict>>

ClusterNext ==
    \/ \E n \in Nodes : Campaign(n)
    \/ \E b \in DOMAIN campaigns, x \in Commands : Submit(b, x)
    \/ \E b \in DOMAIN campaigns, r \in ReadIds : Read(b, r)
    \/ \E r \in ReadIds : FinishRead(r)
    \/ Deliver
    \/ DropMessage \/ Duplicate
    \/ \E n \in Nodes, lost \in BOOLEAN : RestartNode(n, lost)

-----------------------------------------------------------------------------
(* Properties. *)

\* The event oracle accepts every history the model can produce: explore.py
\* asserts it within its horizon.
OracleAccepts == verdict = "PASS"

\* The log, the answers and the read bounds a client of the cluster can see.
LogValuesHere ==
    {Activation(b) : b \in Ballots} \cup {Barrier(b, r) : b \in Ballots, r \in ReadIds} \cup {Command(x) : x \in Commands}
Log == INSTANCE ReferenceLog WITH
    LogValues <- LogValuesHere,
    log       <- [i \in 1..Cardinality(DOMAIN chosen) |-> chosen[i]],
    answered  <- answers,
    floor     <- [r \in ReadIds |-> IF r \in DOMAIN reads THEN Greatest(reads[r].writes) ELSE -1],
    view      <- [r \in ReadIds |-> IF r \in DOMAIN reads /\ reads[r].pin # <<>> THEN Len(reads[r].pin) ELSE -1]
\* The cluster implements one growing log with honest answers and fresh reads.
ImplementsLog == Log!LogSpec
=============================================================================
