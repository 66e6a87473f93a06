--------------------------- MODULE ReferenceReads ---------------------------
(***************************************************************************)
(* The finite read and publication model of the read release (v52/model.py) *)
(* with the assertions its explorer makes of every state and every step.    *)
(* One replica is observed; the two other voters are one availability bit.  *)
(***************************************************************************)
EXTENDS Integers, FiniteSets, Sequences

CONSTANTS
    ReadRoots,   \* bound: the initial tuples of reads, as <<policy, identity, minimum>>
    MaxEpoch,    \* bound: epochs (3 in the code)
    MaxPosition, \* bound: positions (3 in the code)
    MaxSequence  \* bound: application sequences (2 in the code)

ASSUME ReadsAssumption ==
    /\ ReadRoots \subseteq Seq({"strong", "minimum", "stale"} \X Nat \X Nat)
    /\ MaxEpoch \in Nat /\ MaxPosition \in Nat /\ MaxSequence \in Nat

VARIABLES
    prefix,   \* accepted, proven and published positions
    sequence, \* the application sequence of each proven position
    node,     \* epoch, role, quorum, closed, expired
    asks      \* the reads; sent is the proven position at admission (observer)

readVars == <<prefix, sequence, node, asks>>

Roles == {"leader", "follower", "recovering"}
NewRead(r) ==
    [policy |-> r[1], identity |-> r[2], minimum |-> r[3], phase |-> "NEW", barrier |-> -1,
     epoch |-> 0, cut |-> -1, invoked |-> 0, cancelled |-> FALSE, sent |-> -1]

ReadsInit ==
    /\ prefix = [accepted |-> 0, proven |-> 0, published |-> 0] /\ sequence = <<0>>
    /\ node = [epoch |-> 1, role |-> "leader", quorum |-> TRUE, closed |-> FALSE, expired |-> FALSE]
    /\ \E root \in ReadRoots : asks = [i \in DOMAIN root |-> NewRead(root[i])]

-----------------------------------------------------------------------------
(* The replica. *)

ViewActive == \E i \in DOMAIN asks : asks[i].phase = "ACTIVE"

AcceptNext ==
    /\ ~node.closed /\ prefix.accepted = prefix.proven /\ prefix.accepted < MaxPosition
    /\ prefix' = [prefix EXCEPT !.accepted = @ + 1] /\ UNCHANGED <<sequence, node, asks>>

\* A proof is a control entry or one application entry.
ProveNext(increment) ==
    /\ ~node.closed /\ prefix.accepted > prefix.proven /\ node.quorum
    /\ sequence[Len(sequence)] + increment <= MaxSequence
    /\ prefix' = [prefix EXCEPT !.proven = prefix.accepted]
    /\ sequence' = Append(sequence, sequence[Len(sequence)] + increment)
    /\ UNCHANGED <<node, asks>>

\* Nothing is published while a view is held.
Publish ==
    /\ ~node.closed /\ prefix.published < prefix.proven /\ ~ViewActive
    /\ prefix' = [prefix EXCEPT !.published = prefix.proven] /\ UNCHANGED <<sequence, node, asks>>

Turn(next) == node' = next /\ UNCHANGED <<prefix, sequence, asks>>
PromiseHigher == ~node.closed /\ node.epoch < MaxEpoch /\ Turn([node EXCEPT !.epoch = @ + 1, !.role = "follower"])
ChangeRole(role) == ~node.closed /\ role # node.role /\ Turn([node EXCEPT !.role = role])
FlipQuorum == ~node.closed /\ Turn([node EXCEPT !.quorum = ~@])
CloseNode == ~node.closed /\ Turn([node EXCEPT !.closed = TRUE])
Expire == ~node.expired /\ Turn([node EXCEPT !.expired = TRUE])

-----------------------------------------------------------------------------
(* A read. *)

Ask(i, r) == asks' = [asks EXCEPT ![i] = r] /\ UNCHANGED <<prefix, sequence, node>>
Refusing(r) == node.closed \/ node.expired \/ node.role = "recovering" \/ r.identity # 0
Fenced(r) == r.policy = "strong" /\ (node.role # "leader" \/ (r.epoch # 0 /\ r.epoch # node.epoch))

AdmitRead(i) ==
    LET r == asks[i]
    IN /\ r.phase = "NEW"
       /\ Ask(i, [r EXCEPT !.phase = IF Refusing(r) THEN "REJECTED" ELSE "WAIT", !.sent = prefix.proven])

CancelWaiting(i) == asks[i].phase = "WAIT" /\ Ask(i, [asks[i] EXCEPT !.phase = "CANCELLED"])

RejectRead(i) ==
    /\ asks[i].phase = "WAIT" /\ (Refusing(asks[i]) \/ Fenced(asks[i]))
    /\ Ask(i, [asks[i] EXCEPT !.phase = "REJECTED"])

\* The barrier of a strong read is accepted and proven in one transition.
ProveBarrier(i) ==
    LET r == asks[i]
    IN /\ r.phase = "WAIT" /\ ~Refusing(r) /\ r.policy = "strong" /\ ~Fenced(r)
       /\ r.barrier < 0 /\ node.quorum /\ prefix.accepted = prefix.proven /\ prefix.proven < MaxPosition
       /\ asks' = [asks EXCEPT ![i].barrier = prefix.proven + 1, ![i].epoch = node.epoch]
       /\ prefix' = [prefix EXCEPT !.accepted = prefix.proven + 1, !.proven = prefix.proven + 1]
       /\ sequence' = Append(sequence, sequence[Len(sequence)])
       /\ UNCHANGED node

\* Mutant: a strong read is served once its barrier is proven, published or not.
CaptureUnpublished(i) ==
    LET r == asks[i]
    IN /\ r.phase = "WAIT" /\ ~Refusing(r) /\ ~Fenced(r) /\ ~ViewActive
       /\ r.policy = "strong" => r.barrier >= 0
       /\ r.policy = "minimum" => prefix.published >= r.minimum
       /\ Ask(i, [r EXCEPT !.phase = "ACTIVE", !.cut = prefix.published, !.invoked = 1])

CaptureView(i) ==
    LET r == asks[i]
    IN /\ r.phase = "WAIT" /\ ~Refusing(r) /\ ~Fenced(r) /\ ~ViewActive
       /\ r.policy = "strong" => r.barrier >= 0 /\ prefix.published >= r.barrier
       /\ r.policy = "minimum" => prefix.published >= r.minimum
       /\ Ask(i, [r EXCEPT !.phase = "ACTIVE", !.cut = prefix.published, !.invoked = 1])

\* Cancellation after capture keeps the view until it is released.
ReleaseView(i) ==
    /\ asks[i].phase = "ACTIVE"
    /\ Ask(i, [asks[i] EXCEPT !.phase = IF asks[i].cancelled THEN "CANCELLED" ELSE "RELEASED"])
CancelActive(i) ==
    asks[i].phase = "ACTIVE" /\ ~asks[i].cancelled /\ Ask(i, [asks[i] EXCEPT !.cancelled = TRUE])

CompleteRead(i, to) ==
    /\ asks[i].phase = "RELEASED" /\ to \in {"SUCCESS", "CANCELLED"}
    /\ Ask(i, [asks[i] EXCEPT !.phase = to])

ReadsNext ==
    \/ AcceptNext \/ Publish \/ PromiseHigher \/ FlipQuorum \/ CloseNode \/ Expire
    \/ \E increment \in {0, 1} : ProveNext(increment)
    \/ \E role \in Roles : ChangeRole(role)
    \/ \E i \in DOMAIN asks :
         \/ AdmitRead(i) \/ CancelWaiting(i) \/ RejectRead(i) \/ ProveBarrier(i)
         \/ CaptureView(i) \/ ReleaseView(i) \/ CancelActive(i)
         \/ \E to \in {"SUCCESS", "CANCELLED"} : CompleteRead(i, to)

-----------------------------------------------------------------------------
(* What check and explore assert. *)

\* check
Captured(r) == r.phase \in {"ACTIVE", "RELEASED", "SUCCESS"}
StateChecked ==
    /\ 0 <= prefix.published /\ prefix.published <= prefix.proven /\ prefix.proven <= prefix.accepted
    /\ Len(sequence) = prefix.proven + 1 /\ \A k \in 2..Len(sequence) : sequence[k - 1] <= sequence[k]
    /\ Cardinality({i \in DOMAIN asks : asks[i].phase = "ACTIVE"}) <= 1
    /\ \A i \in DOMAIN asks :
         LET r == asks[i]
         IN /\ Captured(r) => /\ 0 <= r.cut /\ r.cut <= prefix.published /\ r.invoked = 1 /\ r.identity = 0
                              /\ r.policy = "minimum" => r.cut >= r.minimum
                              /\ r.policy = "strong" => r.barrier >= 1 /\ r.cut >= r.barrier /\ r.epoch >= 1
            /\ r.phase = "WAIT" => r.cut = -1 /\ r.invoked = 0

\* explore: a strong capture is in its own epoch, a held view keeps its
\* publication, and nothing leaves a final phase.
StepChecked ==
    /\ ViewActive => prefix'.published = prefix.published
    /\ \A i \in DOMAIN asks :
         /\ asks[i].phase \in {"SUCCESS", "REJECTED", "CANCELLED"} => asks'[i] = asks[i]
         /\ asks[i].phase = "WAIT" /\ asks'[i].phase = "ACTIVE" /\ asks[i].policy = "strong" =>
              asks'[i].epoch = node.epoch /\ node.role = "leader"

-----------------------------------------------------------------------------
(* Properties. *)

\* Every state passes the model's own check, every step passes the explorer's,
\* and a strong read returns everything that was proven when it was admitted.
StrongIsFresh ==
    \A i \in DOMAIN asks : Captured(asks[i]) /\ asks[i].policy = "strong" => asks[i].cut > asks[i].sent
ReadsSafe == [](StateChecked /\ StrongIsFresh) /\ [][StepChecked]_readVars
=============================================================================
