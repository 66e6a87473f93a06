----------------------- MODULE AutomaticProtocolProofs -----------------------
(***************************************************************************)
(* The inductive invariant of AutomaticProtocol and the theorems that       *)
(* follow from it, for every voter, every set of requests and every bound   *)
(* on epochs, indexes and restarts.                                         *)
(*                                                                         *)
(* The monitor's methods are functions from its value to the next, and one  *)
(* call runs several of them.  So is the proof built: a lemma for each       *)
(* method says that it takes a good value to a good one (Advances), moving  *)
(* nothing back and telling no client of success; a call is their           *)
(* composition.  Only the answer to a publication may tell a success, and   *)
(* ends the publication (Concludes).                                        *)
(*                                                                         *)
(* A field list stands at the start of a lemma wherever a method updates    *)
(* the record; the parts of the invariant then follow from the list alone.  *)
(***************************************************************************)
EXTENDS AutomaticProtocol, TLAPS

\* The fields of the monitor.
Fields == {"state", "fence", "campaign", "promised", "maxEpoch", "quorumPeer", "failedPeer",
           "deferredPeer", "carried", "operation", "preparing", "reconstruction",
           "publication", "continuation", "imageIndex", "publishedIndex", "proven",
           "exchanges", "armed", "quarantined", "tripped", "rebuildFailed", "issued",
           "outcomes"}

\* A value of the monitor has these fields and no other.
Shape(k) == DOMAIN k = Fields

\* The ballots and the indexes.
NumberType(k) ==
  /\ k.fence \in Nat /\ k.campaign \in Nat /\ k.promised \in Nat /\ k.maxEpoch \in Nat
  /\ k.preparing \in Nat /\ k.publishedIndex \in Nat /\ k.proven \in Nat
  /\ k.reconstruction \in Nat \union {NoIndex} /\ k.imageIndex \in Nat \union {NoIndex}

\* The other fields.
FieldType(k) ==
  /\ k.state \in States
  /\ k.quorumPeer \in Peers \union {NoPeer} /\ k.failedPeer \in Peers \union {NoPeer}
  /\ k.deferredPeer \in Peers \union {NoPeer}
  /\ k.carried \in BOOLEAN /\ k.armed \in BOOLEAN
  /\ k.operation \in [index : Nat, request : Requests \union {0}, activating : BOOLEAN,
                       own : BOOLEAN, proved : BOOLEAN]
  /\ k.publication \in [ballot : Nat, index : Nat, local : BOOLEAN]
  /\ k.continuation \in [task : Tasks, ballot : Nat]
  /\ k.continuation.task = "NONE" => k.continuation = NoTask
  /\ k.exchanges \in [Peers -> [Kinds -> Nat]]
  /\ k.issued \in SUBSET Requests
  /\ k.outcomes \in [Requests -> Seq(Outcomes)]

\* The types of all fields, without the bounds of the model.
KernelType(k) == Shape(k) /\ NumberType(k) /\ FieldType(k)

\* The promise is at or below the fence, and the fence at or below the highest
\* epoch seen; a campaign is this voter's own, at the fence, and runs in three
\* states; once a quorum peer is chosen its ballot is durably promised; a voter
\* that serves without a campaign has a timer armed.
EpochInv(k) ==
  /\ 1 <= k.promised /\ k.promised <= k.fence /\ k.fence <= k.maxEpoch
  /\ k.preparing <= k.fence
  /\ k.campaign # 0 =>
       /\ k.campaign = k.fence /\ Owner(k.campaign) = Local /\ k.preparing = 0
  /\ (k.campaign # 0) <=> (k.state \in {"CANDIDATE", "RECOVERING", "LEADER_READY"})
  /\ k.state \in {"RECOVERING", "LEADER_READY"} =>
       k.promised = k.campaign /\ k.quorumPeer \in Peers
  /\ k.state \in {"STOPPED", "STARTING"} => k.preparing = 0
  /\ Serving(k) /\ k.campaign = 0 => k.armed

\* At most one exchange of a kind with a peer, and only in the phase of the
\* campaign that sends it; all but PREPARE and HEARTBEAT go to the quorum peer.
ExchangeInv(k) ==
  \A p \in Peers :
    /\ k.exchanges[p]["HEARTBEAT"] > 0 =>
         k.exchanges[p]["HEARTBEAT"] = 1 /\ k.campaign # 0
    /\ k.exchanges[p]["PREPARE"] > 0 =>
         /\ k.exchanges[p]["PREPARE"] = 1
         /\ k.state = "CANDIDATE" /\ k.promised = k.campaign
    /\ k.exchanges[p]["INSTALL"] > 0 =>
         /\ k.exchanges[p]["INSTALL"] = 1 /\ p = k.quorumPeer
         /\ k.state = "RECOVERING" /\ k.operation = NoOperation
    /\ k.exchanges[p]["ACCEPT"] > 0 =>
         /\ k.exchanges[p]["ACCEPT"] = 1 /\ p = k.quorumPeer
         /\ k.operation # NoOperation /\ ~k.operation.proved
    /\ k.exchanges[p]["PROOF"] > 0 =>
         /\ k.exchanges[p]["PROOF"] = 1 /\ p = k.quorumPeer /\ k.operation.proved

\* The operation in flight: an activation while recovering, a request when
\* ready, at the next index until it is proven and at the proven one after.
OperationInv(k) ==
  k.operation # NoOperation =>
    /\ k.state = IF k.operation.activating THEN "RECOVERING" ELSE "LEADER_READY"
    /\ k.operation.activating = (k.operation.request = 0)
    /\ k.operation.index = IF k.operation.proved THEN k.proven ELSE k.proven + 1

\* No peer still owes the answer to a PROOF.
NoProofDue(k) == \A p \in Peers : k.exchanges[p]["PROOF"] = 0

\* What holds while the continuation c waits for the image, or is run.
Valid(k, c) ==
  /\ k.state \notin {"FAILED", "CLOSED"}
  /\ c.task \in {"START", "CAMPAIGN", "PUBLISH", "LOCAL"} => k.publication = NoPublication
  /\ c.task = "START" => k.state = "STARTING"
  /\ c.task = "CAMPAIGN" =>
       c.ballot = k.campaign /\ k.state = "CANDIDATE" /\ k.promised # k.campaign
  /\ c.task = "PUBLISH" =>
       c.ballot = k.campaign /\ k.operation.proved /\ NoProofDue(k)

\* Everything that is proven is published, and no callback is outstanding.
AtRest(k) ==
  /\ k.publishedIndex = k.proven /\ k.imageIndex = k.proven
  /\ k.publication = NoPublication /\ k.reconstruction = NoIndex

\* The image, the reconstruction and the publication: a reconstruction is
\* outstanding only while the image is behind, a continuation waits for one, a
\* publication under a campaign is that of the operation in flight.
CallbackInv(k) ==
  /\ k.imageIndex <= k.proven
  /\ k.reconstruction # NoIndex => k.imageIndex < k.proven /\ k.reconstruction <= k.proven
  /\ k.continuation.task # "NONE" =>
       k.reconstruction # NoIndex /\ Valid(k, k.continuation)
  /\ k.publishedIndex <= k.proven
  /\ k.publication # NoPublication =>
       /\ k.publishedIndex <= k.publication.index /\ k.publication.index <= k.proven
       /\ k.campaign # 0 =>
            /\ k.operation.proved /\ NoProofDue(k)
            /\ k.publication.index = k.operation.index
            /\ k.imageIndex = k.proven /\ k.reconstruction = NoIndex
  /\ k.state = "STOPPED" => k.reconstruction = NoIndex /\ k.publication = NoPublication
  /\ k.state = "LEADER_READY" /\ k.operation = NoOperation => AtRest(k)

\* A client's outcomes against what was issued and what is in flight.
OutcomeInv(k) ==
  /\ k.operation.request # 0 => k.operation.request \in k.issued
  /\ \A r \in Requests :
       /\ Len(k.outcomes[r]) <= 1
       /\ k.outcomes[r] = <<"NOT_SUBMITTED">> => r \notin k.issued
       /\ r \in k.issued => (k.outcomes[r] = <<>>) = (k.operation.request = r)

\* All parts but the last one.
Base(k) ==
  /\ KernelType(k) /\ ~k.tripped
  /\ EpochInv(k) /\ ExchangeInv(k) /\ OperationInv(k) /\ CallbackInv(k) /\ OutcomeInv(k)

\* If c is the continuation, a PREPARE of the fence is still being worked on.
Awaits(k, c) ==
  Serving(k) /\ k.preparing # 0 /\ k.preparing = k.fence => c = Task("PREPARE", k.fence)

\* The PREPARE of the fence is not forgotten.  Some methods pass through values
\* where only Base holds: withImage has not set the continuation yet.
PrepareInv(k) ==
  Awaits(k, k.continuation)

\* The invariant of the monitor.
Good(k) == Base(k) /\ PrepareInv(k)

\* The inductive invariant of the specification.
IInv == Good(kernel) /\ rejoin \in [ballot : Nat, seen : Nat] /\ starts \in Nat

\* From k to j nothing goes back and no client is told of a success.
Moves(k, j) ==
  /\ j.promised >= k.promised /\ j.proven >= k.proven
  /\ j.fence >= k.fence /\ j.publishedIndex >= k.publishedIndex
  /\ \A r \in Requests : j.outcomes[r] = <<"SUCCESS">> => k.outcomes[r] = <<"SUCCESS">>

-----------------------------------------------------------------------------

\* The maximum of two naturals is the larger one.
LEMMA MaxOfTwo ==
  ASSUME NEW a \in Nat, NEW b \in Nat
  PROVE  /\ Max({a, b}) \in Nat /\ Max({a, b}) >= a /\ Max({a, b}) >= b
         /\ Max({a, b}) \in {a, b}
<1> DEFINE IsMax(x) == \A y \in {a, b} : x >= y
<1>1. \E x \in {a, b} : IsMax(x)
  <2>1. CASE a >= b  BY <2>1
  <2>2. CASE b >= a  BY <2>2
  <2>3. QED  BY <2>1, <2>2
<1>2. Max({a, b}) = CHOOSE x \in {a, b} : IsMax(x)  BY DEF Max
<1>3. Max({a, b}) \in {a, b} /\ IsMax(Max({a, b}))
  <2> HIDE DEF IsMax
  <2>1. QED  BY <1>1, <1>2
<1>4. QED  BY <1>3

\* BallotV2.next: the next epoch of this voter is its own and is above what it
\* has observed.
LEMMA NextEpochAbove ==
  ASSUME NEW o \in Nat
  PROVE  /\ NextEpoch(o) \in Nat /\ NextEpoch(o) > o /\ NextEpoch(o) >= 2
         /\ Owner(NextEpoch(o)) = Local
<1> DEFINE q == IF o = 1 THEN 0 ELSE (o - 2) \div 3 + 1
<1>1. Local \in 0..2  BY LocalAssumption
<1>2. q \in Int /\ q >= 0 /\ 3 * q + 2 > o
  BY DEF q
<1>3. NextEpoch(o) = q * 3 + Local + 2  BY DEF NextEpoch
<1> HIDE DEF q
<1>4. NextEpoch(o) \in Nat /\ NextEpoch(o) > o /\ NextEpoch(o) >= 2  BY <1>1, <1>2, <1>3
<1>5. (NextEpoch(o) - 2) % 3 = Local  BY <1>1, <1>2, <1>3
<1>6. QED  BY <1>4, <1>5 DEF Owner

\* The sequence of one outcome.
LEMMA OneOutcome ==
  ASSUME NEW o \in Outcomes
  PROVE  /\ Append(<<>>, o) = <<o>> /\ Len(<<o>>) = 1 /\ <<o>> # <<>>
         /\ <<o>> \in Seq(Outcomes)
         /\ \A a \in Outcomes : <<a>> = <<o>> => a = o
OBVIOUS

\* The values that stand for nothing have the types of their fields.
LEMMA NoneTyped ==
  /\ NoOperation \in [index : Nat, request : Requests \union {0}, activating : BOOLEAN,
                       own : BOOLEAN, proved : BOOLEAN]
  /\ NoTask \in [task : Tasks, ballot : Nat]
  /\ NoPublication \in [ballot : Nat, index : Nat, local : BOOLEAN]
  /\ NoExchanges \in [Peers -> [Kinds -> Nat]]
BY DEF NoOperation, NoTask, NoPublication, NoExchanges, Tasks

\* The outcomes when the client in flight, if there is one, is told o.
ToldOf(k, o) ==
  IF k.operation.request = 0 THEN k.outcomes
  ELSE [k.outcomes EXCEPT ![k.operation.request] = Append(@, o)]

\* Telling it is honest: the client had no outcome and its request was issued.
LEMMA Told ==
  ASSUME NEW k, Base(k), NEW o \in {"SUCCESS", "INDETERMINATE", "LOST"}
  PROVE  /\ ToldOf(k, o) \in [Requests -> Seq(Outcomes)]
         /\ \A r \in Requests :
              /\ Len(ToldOf(k, o)[r]) <= 1
              /\ ToldOf(k, o)[r] = <<"NOT_SUBMITTED">> => r \notin k.issued
              /\ r \in k.issued => ToldOf(k, o)[r] # <<>>
              /\ ToldOf(k, o)[r] = <<"SUCCESS">> /\ k.outcomes[r] # <<"SUCCESS">> =>
                   o = "SUCCESS" /\ r = k.operation.request
<1> DEFINE q == k.operation.request
           out == ToldOf(k, o)
<1>1. FieldType(k) /\ OutcomeInv(k)  BY DEF Base, KernelType
<1>2. q \in Requests \union {0} /\ k.outcomes \in [Requests -> Seq(Outcomes)]
  BY <1>1 DEF FieldType
<1>3. 0 \notin Requests  BY RequestsAssumption
<1>4. \A r \in Requests : r # q =>
        /\ Len(k.outcomes[r]) <= 1
        /\ k.outcomes[r] = <<"NOT_SUBMITTED">> => r \notin k.issued
        /\ r \in k.issued => k.outcomes[r] # <<>>
  BY <1>1 DEF OutcomeInv
<1>5. CASE q = 0
  <2>1. out = k.outcomes  BY <1>5 DEF ToldOf
  <2>2. QED  BY <2>1, <1>2, <1>3, <1>4, <1>5
<1>6. CASE q # 0
  <2>1. q \in Requests /\ q \in k.issued /\ k.outcomes[q] = <<>>
    BY <1>1, <1>2, <1>6 DEF OutcomeInv
  <2>2. o \in Outcomes /\ o # "NOT_SUBMITTED"  BY DEF Outcomes
  <2>3. /\ out \in [Requests -> Seq(Outcomes)] /\ out[q] = <<o>>
        /\ \A r \in Requests \ {q} : out[r] = k.outcomes[r]
    <3>1. Append(<<>>, o) = <<o>> /\ <<o>> \in Seq(Outcomes)  BY <2>2, OneOutcome
    <3>2. QED  BY <3>1, <2>1, <1>2, <1>6 DEF ToldOf
  <2>4. /\ Len(<<o>>) = 1 /\ <<o>> # <<>>
        /\ <<o>> # <<"NOT_SUBMITTED">> /\ (<<o>> = <<"SUCCESS">> => o = "SUCCESS")
    BY <2>2, OneOutcome DEF Outcomes
  <2> HIDE DEF q, out
  <2>5. ASSUME NEW r \in Requests
        PROVE  /\ Len(out[r]) <= 1
               /\ out[r] = <<"NOT_SUBMITTED">> => r \notin k.issued
               /\ r \in k.issued => out[r] # <<>>
               /\ out[r] = <<"SUCCESS">> /\ k.outcomes[r] # <<"SUCCESS">> =>
                    o = "SUCCESS" /\ r = q
    <3>1. CASE r = q
      <4>1. Len(out[r]) = 1 /\ out[r] # <<"NOT_SUBMITTED">> /\ out[r] # <<>>
            /\ (out[r] = <<"SUCCESS">> => o = "SUCCESS")
        BY <3>1, <2>3, <2>4, Zenon
      <4>2. QED  BY <3>1, <4>1
    <3>2. CASE r # q
      <4>1. out[r] = k.outcomes[r]  BY <3>2, <2>3
      <4>2. QED  BY <4>1, <3>2, <1>4, Zenon
    <3>3. QED  BY <3>1, <3>2
  <2>6. QED  BY <2>3, <2>5 DEF out, q
<1>7. QED  BY <1>5, <1>6

\* abandon, field by field.
LEMMA AbandonFields ==
  ASSUME NEW k, Shape(k), NEW u
  PROVE  LET j == Abandon(k, u)
         IN  /\ Shape(j)
             /\ j.state = "UNAVAILABLE" /\ j.campaign = 0 /\ j.armed = TRUE
             /\ j.operation = NoOperation /\ j.continuation = NoTask
             /\ j.exchanges = NoExchanges
             /\ j.fence = k.fence /\ j.maxEpoch = k.maxEpoch /\ j.preparing = k.preparing
             /\ j.promised = k.promised /\ j.proven = k.proven
             /\ j.publication = k.publication /\ j.reconstruction = k.reconstruction
             /\ j.imageIndex = k.imageIndex /\ j.publishedIndex = k.publishedIndex
             /\ j.tripped = k.tripped /\ j.issued = k.issued
             /\ j.outcomes = ToldOf(k, "INDETERMINATE")
             /\ j.quorumPeer = NoPeer /\ j.deferredPeer = NoPeer /\ j.carried = FALSE
             /\ j.failedPeer \in {k.quorumPeer, k.failedPeer}
BY ZenonT(30) DEF Shape, Fields, Abandon, Completed, ToldOf

\* abandon, without the local name.
LEMMA AbandonClears ==
  ASSUME NEW k, Shape(k), NEW u
  PROVE  /\ Abandon(k, u).state = "UNAVAILABLE" /\ Abandon(k, u).operation = NoOperation
         /\ Abandon(k, u).continuation = NoTask /\ Abandon(k, u).campaign = 0
         /\ Abandon(k, u).publication = k.publication /\ Shape(Abandon(k, u))
         /\ Abandon(k, u).fence = k.fence /\ Abandon(k, u).preparing = k.preparing
         /\ Abandon(k, u).reconstruction = k.reconstruction
BY ZenonT(30), AbandonFields

\* abandon keeps Base: what waits for the campaign goes with it.
LEMMA AbandonGood ==
  ASSUME NEW k, Base(k), NEW u
  PROVE  /\ Base(Abandon(k, u)) /\ Moves(k, Abandon(k, u))
<1> DEFINE j == Abandon(k, u)
<1>1. /\ Shape(k) /\ NumberType(k) /\ FieldType(k) /\ ~k.tripped /\ EpochInv(k)
      /\ CallbackInv(k) /\ OutcomeInv(k)
  BY DEF Base, KernelType
<1> HIDE DEF j
<1>2. /\ Shape(j)
      /\ j.state = "UNAVAILABLE" /\ j.campaign = 0 /\ j.armed = TRUE
      /\ j.operation = NoOperation /\ j.continuation = NoTask
      /\ j.exchanges = NoExchanges
      /\ j.fence = k.fence /\ j.maxEpoch = k.maxEpoch /\ j.preparing = k.preparing
      /\ j.promised = k.promised /\ j.proven = k.proven
      /\ j.publication = k.publication /\ j.reconstruction = k.reconstruction
      /\ j.imageIndex = k.imageIndex /\ j.publishedIndex = k.publishedIndex
      /\ j.tripped = k.tripped /\ j.issued = k.issued
      /\ j.outcomes = ToldOf(k, "INDETERMINATE")
      /\ j.quorumPeer = NoPeer /\ j.deferredPeer = NoPeer /\ j.carried = FALSE
      /\ j.failedPeer \in {k.quorumPeer, k.failedPeer}
  BY <1>1, AbandonFields DEF j
<1>3. /\ j.outcomes \in [Requests -> Seq(Outcomes)]
      /\ \A r \in Requests :
           /\ Len(j.outcomes[r]) <= 1
           /\ j.outcomes[r] = <<"NOT_SUBMITTED">> => r \notin k.issued
           /\ r \in k.issued => j.outcomes[r] # <<>>
           /\ j.outcomes[r] = <<"SUCCESS">> => k.outcomes[r] = <<"SUCCESS">>
  BY <1>2, Told
<1>4. NumberType(j)  BY <1>1, <1>2 DEF NumberType
<1>5. FieldType(j)
  <2>1. "UNAVAILABLE" \in States  BY DEF States
  <2>2. QED  BY <1>1, <1>2, <1>3, <2>1, NoneTyped DEF FieldType
<1>6. EpochInv(j)  BY <1>1, <1>2 DEF EpochInv, Serving
<1>7. ExchangeInv(j) /\ OperationInv(j)
  BY <1>2 DEF ExchangeInv, NoExchanges, OperationInv, Kinds
<1>8. CallbackInv(j)  BY <1>1, <1>2 DEF CallbackInv, NoTask
<1>9. OutcomeInv(j)
  BY <1>2, <1>3, RequestsAssumption DEF OutcomeInv, NoOperation
<1>10. Moves(k, j)  BY <1>1, <1>2, <1>3 DEF Moves, NumberType
<1>11. Base(j)
  BY <1>1, <1>2, <1>4, <1>5, <1>6, <1>7, <1>8, <1>9 DEF Base, KernelType
<1>12. QED  BY <1>10, <1>11 DEF j

\* The parts of the invariant, by name.
LEMMA Parts ==
  ASSUME NEW k
  PROVE  Base(k) <=> /\ Shape(k) /\ NumberType(k) /\ FieldType(k) /\ ~k.tripped
                     /\ EpochInv(k) /\ ExchangeInv(k) /\ OperationInv(k)
                     /\ CallbackInv(k) /\ OutcomeInv(k)
BY DEF Base, KernelType

\* Fields that no part of the invariant reads may be set.
LEMMA MarkGood ==
  ASSUME NEW k, Base(k), NEW f \in {"quarantined", "rebuildFailed", "carried"}, NEW b \in BOOLEAN
  PROVE  LET j == [k EXCEPT ![f] = b]
         IN  /\ Base(j) /\ Moves(k, j) /\ (Good(k) => Good(j))
             /\ \A g \in Fields \ {f} : j[g] = k[g]
<1> DEFINE j == [k EXCEPT ![f] = b]
<1>1. /\ Shape(k) /\ NumberType(k) /\ FieldType(k) /\ ~k.tripped /\ EpochInv(k)
      /\ ExchangeInv(k) /\ OperationInv(k) /\ CallbackInv(k) /\ OutcomeInv(k)
  BY Parts
<1>2. Shape(j) /\ \A g \in Fields \ {f} : j[g] = k[g]
  BY <1>1 DEF Shape
<1>3. j.carried \in BOOLEAN
  BY <1>1 DEF Shape, Fields, FieldType
<1> HIDE DEF j
<1>4. /\ j.state = k.state /\ j.campaign = k.campaign /\ j.armed = k.armed
      /\ j.operation = k.operation /\ j.continuation = k.continuation
      /\ j.exchanges = k.exchanges
      /\ j.fence = k.fence /\ j.maxEpoch = k.maxEpoch /\ j.preparing = k.preparing
      /\ j.promised = k.promised /\ j.proven = k.proven
      /\ j.publication = k.publication /\ j.reconstruction = k.reconstruction
      /\ j.imageIndex = k.imageIndex /\ j.publishedIndex = k.publishedIndex
      /\ j.tripped = k.tripped /\ j.issued = k.issued /\ j.outcomes = k.outcomes
      /\ j.quorumPeer = k.quorumPeer /\ j.deferredPeer = k.deferredPeer
      /\ j.failedPeer = k.failedPeer
  BY <1>2 DEF Fields
<1>5. NumberType(j) /\ FieldType(j)
  BY <1>1, <1>3, <1>4 DEF NumberType, FieldType
<1>6. EpochInv(j)  BY <1>1, <1>4 DEF EpochInv, Serving
<1>7. ExchangeInv(j)  BY <1>1, <1>4 DEF ExchangeInv
<1>8. OperationInv(j) /\ OutcomeInv(j)  BY <1>1, <1>4 DEF OperationInv, OutcomeInv
<1>9. CallbackInv(j)  BY <1>1, <1>4 DEF CallbackInv, Valid, AtRest, NoProofDue
<1>10. Base(j)  BY <1>1, <1>2, <1>4, <1>5, <1>6, <1>7, <1>8, <1>9, Parts
<1>11. Moves(k, j)  BY <1>1, <1>4 DEF Moves, NumberType
<1>12. Good(k) => Good(j)  BY <1>4, <1>10 DEF Good, PrepareInv, Awaits, Serving
<1>13. QED  BY <1>2, <1>10, <1>11, <1>12 DEF j

\* An abandoned voter may be marked failed or closed.
LEMMA HaltGood ==
  ASSUME NEW k, Base(k), k.state = "UNAVAILABLE", k.operation = NoOperation,
         k.continuation = NoTask, NEW s \in {"FAILED", "CLOSED"}, NEW b \in {k.preparing, 0}
  PROVE  LET j == [k EXCEPT !.preparing = b, !.state = s, !.armed = FALSE]
         IN  Good(j) /\ Moves(k, j) /\ j.publication = k.publication
<1> DEFINE j == [k EXCEPT !.preparing = b, !.state = s, !.armed = FALSE]
<1>1. /\ Shape(k) /\ NumberType(k) /\ FieldType(k) /\ ~k.tripped /\ EpochInv(k)
      /\ ExchangeInv(k) /\ OperationInv(k) /\ CallbackInv(k) /\ OutcomeInv(k)
  BY Parts
<1>2. /\ Shape(j) /\ j.preparing = b /\ j.state = s /\ j.armed = FALSE
      /\ j.campaign = k.campaign
      /\ j.operation = k.operation /\ j.continuation = k.continuation
      /\ j.exchanges = k.exchanges
      /\ j.fence = k.fence /\ j.maxEpoch = k.maxEpoch
      /\ j.promised = k.promised /\ j.proven = k.proven
      /\ j.publication = k.publication /\ j.reconstruction = k.reconstruction
      /\ j.imageIndex = k.imageIndex /\ j.publishedIndex = k.publishedIndex
      /\ j.tripped = k.tripped /\ j.issued = k.issued /\ j.outcomes = k.outcomes
      /\ j.quorumPeer = k.quorumPeer /\ j.deferredPeer = k.deferredPeer
      /\ j.failedPeer = k.failedPeer /\ j.carried = k.carried
  BY <1>1 DEF Shape, Fields
<1> HIDE DEF j
<1>3. NumberType(j)  BY <1>1, <1>2 DEF NumberType
<1>4. FieldType(j)
  <2>1. s \in States  BY DEF States
  <2>2. QED  BY <1>1, <1>2, <2>1 DEF FieldType
<1>5. EpochInv(j)  BY <1>1, <1>2 DEF EpochInv, Serving, NumberType
<1>6. ExchangeInv(j)  BY <1>1, <1>2 DEF ExchangeInv, NoOperation, EpochInv
<1>7. OperationInv(j) /\ OutcomeInv(j)  BY <1>1, <1>2 DEF OperationInv, OutcomeInv
<1>8. CallbackInv(j)  BY <1>1, <1>2 DEF CallbackInv, NoTask, EpochInv
<1>9. Base(j)  BY <1>1, <1>2, <1>3, <1>4, <1>5, <1>6, <1>7, <1>8, Parts
<1>10. Moves(k, j)  BY <1>1, <1>2 DEF Moves, NumberType
<1>11. PrepareInv(j)  BY <1>2 DEF PrepareInv, Awaits, Serving
<1>12. QED  BY <1>2, <1>9, <1>10, <1>11 DEF Good, j

\* Moves is transitive ...
LEMMA MovesTrans ==
  ASSUME NEW a, NEW b, NEW c, NumberType(a), NumberType(b), NumberType(c),
         Moves(a, b), Moves(b, c)
  PROVE  Moves(a, c)
BY DEF Moves, NumberType

\* ... and reflexive.
LEMMA MovesSelf ==
  ASSUME NEW k, NumberType(k)
  PROVE  Moves(k, k)
BY DEF Moves, NumberType

\* fail, and a store that fails, lead to a good value.
LEMMA FailGood ==
  ASSUME NEW k, Base(k)
  PROVE  /\ Good(Fail(k)) /\ Moves(k, Fail(k)) /\ Fail(k).publication = k.publication
         /\ Good(StoreFails(k)) /\ Moves(k, StoreFails(k))
         /\ StoreFails(k).publication = k.publication
<1> DEFINE a == Abandon(k, FALSE)
           h == [a EXCEPT !.preparing = a.preparing, !.state = "FAILED", !.armed = FALSE]
           j == Fail(k)
<1>1. Base(a) /\ Moves(k, a)  BY AbandonGood
<1>2. Shape(k) /\ NumberType(k)  BY Parts
<1>3. /\ a.state = "UNAVAILABLE" /\ a.operation = NoOperation /\ a.continuation = NoTask
      /\ a.publication = k.publication /\ Shape(a)
  BY <1>2, AbandonClears
<1> HIDE DEF a
<1>4. Good(h) /\ Moves(a, h) /\ h.publication = a.publication  BY <1>1, <1>3, HaltGood
<1>5. h = [a EXCEPT !.state = "FAILED", !.armed = FALSE]
  BY <1>3 DEF Shape, Fields
<1>6. j = h  BY <1>5 DEF Fail, a
<1> HIDE DEF h, j
<1>7. NumberType(a) /\ NumberType(j)  BY <1>1, <1>4, <1>6, Parts DEF Good
<1>8. Good(j) /\ Moves(k, j) /\ j.publication = k.publication
  <2>1. Good(j) /\ Moves(a, j) /\ j.publication = k.publication
    BY <1>3, <1>4, <1>6
  <2>2. Moves(k, j)  BY <2>1, <1>1, <1>2, <1>7, MovesTrans
  <2>3. QED  BY <2>1, <2>2
<1> DEFINE m == [j EXCEPT !["quarantined"] = TRUE]
<1>9. Base(j)  BY <1>8 DEF Good
<1>10. Base(m) /\ Good(m) /\ Moves(j, m) /\ \A g \in Fields \ {"quarantined"} : m[g] = j[g]
  BY <1>8, <1>9, MarkGood
<1>11. StoreFails(k) = m  BY DEF StoreFails, j
<1> HIDE DEF m
<1>12. Moves(k, m)
  <2>1. NumberType(m)  BY <1>10, Parts
  <2>2. QED  BY <2>1, <1>2, <1>7, <1>8, <1>10, MovesTrans
<1>13. m.publication = k.publication  BY <1>8, <1>10 DEF Fields
<1>14. QED  BY <1>8, <1>10, <1>11, <1>12, <1>13 DEF j

\* quiesce leads to a good value, and keeps the publication.
LEMMA QuiesceGood ==
  ASSUME NEW k, Good(k)
  PROVE  Good(Quiesce(k)) /\ Moves(k, Quiesce(k)) /\ Quiesce(k).publication = k.publication
<1> DEFINE a == Abandon(k, FALSE)
           h == [a EXCEPT !.preparing = 0, !.state = "CLOSED", !.armed = FALSE]
<1>0. Base(k)  BY DEF Good
<1>1. Base(a) /\ Moves(k, a)  BY <1>0, AbandonGood
<1>2. Shape(k) /\ NumberType(k)  BY <1>0, Parts
<1>3. /\ a.state = "UNAVAILABLE" /\ a.operation = NoOperation /\ a.continuation = NoTask
      /\ a.publication = k.publication /\ Shape(a)
  BY <1>2, AbandonClears
<1> HIDE DEF a
<1>4. Good(h) /\ Moves(a, h) /\ h.publication = a.publication  BY <1>1, <1>3, HaltGood
<1>5. NumberType(a) /\ NumberType(h)  BY <1>1, <1>4, Parts DEF Good
<1>6. Quiesce(k) = IF k.state = "CLOSED" THEN k ELSE h  BY DEF Quiesce, a
<1> HIDE DEF h
<1>7. Moves(k, h)  BY <1>1, <1>2, <1>4, <1>5, MovesTrans
<1>8. Moves(k, k)  BY <1>2, MovesSelf
<1>9. QED  BY <1>3, <1>4, <1>6, <1>7, <1>8

\* An abandoned voter may raise its fence and the highest epoch it has seen.
LEMMA RaiseGood ==
  ASSUME NEW k, Base(k), k.state = "UNAVAILABLE", k.operation = NoOperation,
         k.continuation = NoTask, NEW e \in Nat, e > k.fence, NEW b \in {k.preparing, 0}
  PROVE  LET j == [k EXCEPT !.fence = e, !.maxEpoch = Max({@, e}), !.preparing = b]
         IN  /\ Good(j) /\ Moves(k, j) /\ j.publication = k.publication /\ j.fence = e
             /\ j.state = "UNAVAILABLE" /\ j.preparing = b /\ j.reconstruction = k.reconstruction
             /\ j.armed = k.armed
<1> DEFINE j == [k EXCEPT !.fence = e, !.maxEpoch = Max({@, e}), !.preparing = b]
<1>1. /\ Shape(k) /\ NumberType(k) /\ FieldType(k) /\ ~k.tripped /\ EpochInv(k)
      /\ ExchangeInv(k) /\ OperationInv(k) /\ CallbackInv(k) /\ OutcomeInv(k)
  BY Parts
<1>2. /\ Shape(j) /\ j.preparing = b /\ j.fence = e /\ j.maxEpoch = Max({k.maxEpoch, e})
      /\ j.state = k.state /\ j.armed = k.armed /\ j.campaign = k.campaign
      /\ j.operation = k.operation /\ j.continuation = k.continuation
      /\ j.exchanges = k.exchanges
      /\ j.promised = k.promised /\ j.proven = k.proven
      /\ j.publication = k.publication /\ j.reconstruction = k.reconstruction
      /\ j.imageIndex = k.imageIndex /\ j.publishedIndex = k.publishedIndex
      /\ j.tripped = k.tripped /\ j.issued = k.issued /\ j.outcomes = k.outcomes
      /\ j.quorumPeer = k.quorumPeer /\ j.deferredPeer = k.deferredPeer
      /\ j.failedPeer = k.failedPeer /\ j.carried = k.carried
  BY <1>1 DEF Shape, Fields
<1> HIDE DEF j
<1>3. j.maxEpoch \in Nat /\ j.maxEpoch >= e
  BY <1>1, <1>2, MaxOfTwo DEF NumberType
<1>4. NumberType(j)  BY <1>1, <1>2, <1>3 DEF NumberType
<1>5. FieldType(j)  BY <1>1, <1>2 DEF FieldType
<1>6. k.campaign = 0  BY <1>1 DEF EpochInv
<1>7. EpochInv(j)  BY <1>1, <1>2, <1>3, <1>6 DEF EpochInv, Serving, NumberType
<1>8. ExchangeInv(j)  BY <1>1, <1>2 DEF ExchangeInv
<1>9. OperationInv(j) /\ OutcomeInv(j)  BY <1>1, <1>2 DEF OperationInv, OutcomeInv
<1>10. CallbackInv(j)  BY <1>1, <1>2, <1>6 DEF CallbackInv, NoTask
<1>11. Base(j)  BY <1>1, <1>2, <1>4, <1>5, <1>7, <1>8, <1>9, <1>10, Parts
<1>12. Moves(k, j)  BY <1>1, <1>2 DEF Moves, NumberType
<1>13. PrepareInv(j)
  BY <1>1, <1>2 DEF PrepareInv, Awaits, EpochInv, NumberType
<1>14. QED  BY <1>2, <1>11, <1>12, <1>13 DEF Good, j

\* observePromise keeps the invariant; a campaign that it fences is abandoned.
LEMMA ObservePromiseGood ==
  ASSUME NEW k, Good(k), NEW e \in Nat
  PROVE  /\ Good(ObservePromise(k, e)) /\ Moves(k, ObservePromise(k, e))
         /\ ObservePromise(k, e).publication = k.publication
<1> DEFINE a == Abandon(k, FALSE)
           h == [a EXCEPT !.fence = e, !.maxEpoch = Max({@, e}), !.preparing = a.preparing]
<1>0. Base(k)  BY DEF Good
<1>1. Base(a) /\ Moves(k, a)  BY <1>0, AbandonGood
<1>2. Shape(k) /\ NumberType(k)  BY <1>0, Parts
<1>3. /\ a.state = "UNAVAILABLE" /\ a.operation = NoOperation /\ a.continuation = NoTask
      /\ a.publication = k.publication /\ Shape(a) /\ a.fence = k.fence
  BY <1>2, AbandonClears
<1>4. CASE e <= k.fence
  <2>1. ObservePromise(k, e) = k  BY <1>4 DEF ObservePromise
  <2>2. QED  BY <2>1, <1>2, MovesSelf
<1>5. CASE ~(e <= k.fence)
  <2>1. ObservePromise(k, e) = [a EXCEPT !.fence = e, !.maxEpoch = Max({@, e})]
    BY <1>5 DEF ObservePromise
  <2> HIDE DEF a
  <2>2. e > a.fence  BY <1>2, <1>3, <1>5 DEF NumberType
  <2>3. Good(h) /\ Moves(a, h) /\ h.publication = a.publication
    BY <1>1, <1>3, <2>2, RaiseGood
  <2>4. h = [a EXCEPT !.fence = e, !.maxEpoch = Max({@, e})]
    BY <1>3 DEF Shape, Fields
  <2>5. ObservePromise(k, e) = h  BY <2>1, <2>4
  <2> HIDE DEF h
  <2>6. NumberType(a) /\ NumberType(h)  BY <1>1, <2>3, Parts DEF Good
  <2>7. Moves(k, h)  BY <1>1, <1>2, <2>3, <2>6, MovesTrans
  <2>8. QED  BY <1>3, <2>3, <2>5, <2>7
<1>6. QED  BY <1>4, <1>5

\* j differs from k in the exchanges only.
Elsewhere(k, j) ==
  /\ Shape(j)
  /\ j.state = k.state /\ j.campaign = k.campaign /\ j.armed = k.armed
  /\ j.operation = k.operation /\ j.continuation = k.continuation
  /\ j.fence = k.fence /\ j.maxEpoch = k.maxEpoch /\ j.preparing = k.preparing
  /\ j.promised = k.promised /\ j.proven = k.proven
  /\ j.publication = k.publication /\ j.reconstruction = k.reconstruction
  /\ j.imageIndex = k.imageIndex /\ j.publishedIndex = k.publishedIndex
  /\ j.tripped = k.tripped /\ j.issued = k.issued /\ j.outcomes = k.outcomes
  /\ j.quorumPeer = k.quorumPeer /\ j.deferredPeer = k.deferredPeer
  /\ j.failedPeer = k.failedPeer /\ j.carried = k.carried
  /\ j.quarantined = k.quarantined /\ j.rebuildFailed = k.rebuildFailed

\* If only the exchanges change, ExchangeInv and the PROOF that is due matter.
LEMMA ExchangesGood ==
  ASSUME NEW k, Base(k), NEW j, Elsewhere(k, j),
         j.exchanges \in [Peers -> [Kinds -> Nat]], ExchangeInv(j),
         \/ NoProofDue(j)
         \/ ~NoProofDue(k)
         \/ k.continuation.task # "PUBLISH" /\ k.publication = NoPublication
  PROVE  Base(j) /\ Moves(k, j) /\ (Good(k) => Good(j))
<1>1. /\ Shape(k) /\ NumberType(k) /\ FieldType(k) /\ ~k.tripped /\ EpochInv(k)
      /\ ExchangeInv(k) /\ OperationInv(k) /\ CallbackInv(k) /\ OutcomeInv(k)
  BY Parts
<1>2. NumberType(j)  BY <1>1 DEF Elsewhere, NumberType
<1>3. FieldType(j)  BY <1>1 DEF Elsewhere, FieldType
<1>4. EpochInv(j)  BY <1>1 DEF Elsewhere, EpochInv, Serving
<1>5. OperationInv(j) /\ OutcomeInv(j)  BY <1>1 DEF Elsewhere, OperationInv, OutcomeInv
<1>6. CallbackInv(j)  BY <1>1 DEF Elsewhere, CallbackInv, Valid, AtRest
<1>7. Base(j)
  <2>1. Shape(j) /\ ~j.tripped  BY <1>1 DEF Elsewhere
  <2>2. QED  BY <2>1, <1>2, <1>3, <1>4, <1>5, <1>6, Parts
<1>8. Moves(k, j)  BY <1>1 DEF Elsewhere, Moves, NumberType
<1>9. Good(k) => Good(j)  BY <1>7 DEF Elsewhere, Good, PrepareInv, Awaits, Serving
<1>10. QED  BY <1>7, <1>8, <1>9

\* An exchange that ends keeps the invariant.
LEMMA OverGood ==
  ASSUME NEW k, Base(k), NEW p \in Peers, NEW kind \in Kinds, k.exchanges[p][kind] > 0
  PROVE  /\ Base(Over(k, p, kind)) /\ (Good(k) => Good(Over(k, p, kind)))
         /\ Moves(k, Over(k, p, kind)) /\ Elsewhere(k, Over(k, p, kind))
         /\ \A q \in Peers : \A h \in Kinds :
              Over(k, p, kind).exchanges[q][h]
                = IF q = p /\ h = kind THEN k.exchanges[q][h] - 1 ELSE k.exchanges[q][h]
<1> DEFINE j == Over(k, p, kind)
<1>1. /\ Shape(k) /\ FieldType(k) /\ ExchangeInv(k)  BY Parts
<1>2. k.exchanges \in [Peers -> [Kinds -> Nat]]  BY <1>1 DEF FieldType
<1>3. Elsewhere(k, j)  BY <1>1 DEF Over, Elsewhere, Shape, Fields
<1>4. j.exchanges = [k.exchanges EXCEPT ![p][kind] = @ - 1]
  BY <1>1 DEF Over, Shape, Fields
<1> HIDE DEF j
<1>5. j.exchanges \in [Peers -> [Kinds -> Nat]]  BY <1>2, <1>4
<1>6. \A q \in Peers : \A h \in Kinds :
        j.exchanges[q][h] = IF q = p /\ h = kind THEN k.exchanges[q][h] - 1 ELSE k.exchanges[q][h]
  BY <1>2, <1>4
<1>7. \A q \in Peers : \A h \in Kinds :
        /\ k.exchanges[q][h] \in Nat /\ j.exchanges[q][h] \in Nat
        /\ j.exchanges[q][h] <= k.exchanges[q][h]
  BY <1>2, <1>5, <1>6
<1>8. ASSUME NEW q \in Peers, NEW h \in Kinds, j.exchanges[q][h] > 0, k.exchanges[q][h] = 1
      PROVE  j.exchanges[q][h] = 1
  BY <1>6, <1>7, <1>8
<1>9. ExchangeInv(j)
  <2>1. {"PREPARE", "INSTALL", "ACCEPT", "PROOF", "HEARTBEAT"} \subseteq Kinds  BY DEF Kinds
  <2>2. QED  BY <1>1, <1>3, <1>7, <1>8, <2>1 DEF ExchangeInv, Elsewhere
<1>10. NoProofDue(j) \/ ~NoProofDue(k)
  BY <1>7 DEF NoProofDue, Kinds
<1>11. QED  BY <1>3, <1>5, <1>6, <1>9, <1>10, ExchangesGood DEF j

\* The phase in which an exchange of this kind may be sent to these peers.
Fit(k, to, kind) ==
  /\ to \subseteq Peers
  /\ \A p \in to : k.exchanges[p][kind] = 0
  /\ kind = "HEARTBEAT" => k.campaign # 0
  /\ kind = "PREPARE" => k.state = "CANDIDATE" /\ k.promised = k.campaign
  /\ kind = "INSTALL" =>
       to = {k.quorumPeer} /\ k.state = "RECOVERING" /\ k.operation = NoOperation
  /\ kind = "ACCEPT" =>
       /\ to = {k.quorumPeer} /\ k.operation # NoOperation /\ ~k.operation.proved
  /\ kind = "PROOF" =>
       /\ to = {k.quorumPeer} /\ k.operation.proved
       /\ k.continuation.task # "PUBLISH" /\ k.publication = NoPublication

\* j is k with these exchanges sent.
Sent(k, to, kind, j) ==
  /\ Elsewhere(k, j)
  /\ \A q \in Peers : \A h \in Kinds :
       j.exchanges[q][h] = IF q \in to /\ h = kind THEN 1 ELSE k.exchanges[q][h]

\* In its phase an exchange finds at most one other outstanding with its peer:
\* the limit of send is not reached.
LEMMA LoadFits ==
  ASSUME NEW k, Base(k), NEW kind \in Kinds, NEW to, Fit(k, to, kind), NEW p \in to
  PROVE  Load(k, p) < 2
<1>1. /\ FieldType(k) /\ ExchangeInv(k) /\ EpochInv(k) /\ OperationInv(k)  BY Parts
<1>2. k.exchanges \in [Peers -> [Kinds -> Nat]] /\ p \in Peers
  BY <1>1 DEF FieldType, Fit
<1>3. /\ k.exchanges[p]["PREPARE"] \in Nat /\ k.exchanges[p]["INSTALL"] \in Nat
      /\ k.exchanges[p]["ACCEPT"] \in Nat /\ k.exchanges[p]["PROOF"] \in Nat
      /\ k.exchanges[p]["HEARTBEAT"] \in Nat
  BY <1>2 DEF Kinds
<1>4. ~NoOperation.proved  BY DEF NoOperation
<1>5. k.exchanges[p][kind] = 0  BY DEF Fit
<1> DEFINE a == k.exchanges[p]["PREPARE"]
           b == k.exchanges[p]["INSTALL"]
           c == k.exchanges[p]["ACCEPT"]
           d == k.exchanges[p]["PROOF"]
           e == k.exchanges[p]["HEARTBEAT"]
<1>6. /\ a > 0 => a = 1 /\ k.state = "CANDIDATE"
      /\ b > 0 => b = 1 /\ k.state = "RECOVERING" /\ k.operation = NoOperation
      /\ c > 0 => c = 1 /\ k.operation # NoOperation /\ ~k.operation.proved
      /\ d > 0 => d = 1 /\ k.operation.proved
      /\ e > 0 => e = 1
  BY <1>1, <1>2 DEF ExchangeInv
<1>7. k.operation # NoOperation => k.state \in {"RECOVERING", "LEADER_READY"}
  BY <1>1 DEF OperationInv
<1>8. Load(k, p) = a + b + c + d + e  BY DEF Load
<1>9. /\ kind = "HEARTBEAT" => e = 0
      /\ kind = "PREPARE" => a = 0 /\ b = 0 /\ c = 0 /\ d = 0
      /\ kind = "INSTALL" => a = 0 /\ b = 0 /\ c = 0 /\ d = 0
      /\ kind = "ACCEPT" => a = 0 /\ b = 0 /\ c = 0 /\ d = 0
      /\ kind = "PROOF" => a = 0 /\ b = 0 /\ c = 0 /\ d = 0
  BY <1>3, <1>4, <1>5, <1>6, <1>7 DEF Fit
<1>10. a + b + c + d <= 1
  BY <1>3, <1>4, <1>6, <1>7
<1>11. e = 0 \/ (e = 1 /\ a = 0 /\ b = 0 /\ c = 0 /\ d = 0)
  BY <1>3, <1>6, <1>9 DEF Kinds
<1>12. a \in Nat /\ b \in Nat /\ c \in Nat /\ d \in Nat /\ e \in Nat  BY <1>3
<1> HIDE DEF a, b, c, d, e
<1>13. QED  BY <1>8, <1>10, <1>11, <1>12

\* send, in the right phase, keeps the invariant and never trips its check.
LEMMA SendGood ==
  ASSUME NEW k, Base(k), NEW kind \in Kinds, NEW to, Fit(k, to, kind)
  PROVE  /\ Base(Send(k, to, kind)) /\ (Good(k) => Good(Send(k, to, kind)))
         /\ Moves(k, Send(k, to, kind)) /\ Sent(k, to, kind, Send(k, to, kind))
<1> DEFINE j == Send(k, to, kind)
<1>1. /\ Shape(k) /\ FieldType(k) /\ ExchangeInv(k)  BY Parts
<1>2. k.exchanges \in [Peers -> [Kinds -> Nat]]  BY <1>1 DEF FieldType
<1>3. to \subseteq Peers /\ \A p \in to : k.exchanges[p][kind] = 0  BY DEF Fit
<1>4. ~(\E p \in to : Load(k, p) >= 2)
  <2>1. ASSUME NEW p \in to PROVE Load(k, p) \in Int
    <3>1. p \in Peers  BY <1>3
    <3>2. QED  BY <3>1, <1>2 DEF Load, Kinds
  <2>2. QED  BY <2>1, LoadFits
<1> DEFINE n == [p \in Peers |-> [h \in Kinds |->
                    IF p \in to /\ h = kind THEN k.exchanges[p][h] + 1 ELSE k.exchanges[p][h]]]
<1>5. Elsewhere(k, j)  BY <1>1, <1>4 DEF Send, Elsewhere, Shape, Fields
<1>6. j.exchanges = n  BY <1>1, <1>4 DEF Send, Shape, Fields
<1>7. Elsewhere(k, j) /\ j.exchanges = n  BY <1>5, <1>6
<1> HIDE DEF j
<1>8. n \in [Peers -> [Kinds -> Nat]]  BY <1>2
<1>9. \A q \in Peers : \A h \in Kinds :
        n[q][h] = IF q \in to /\ h = kind THEN 1 ELSE k.exchanges[q][h]
  BY <1>2, <1>3
<1> HIDE DEF n
<1>10. Sent(k, to, kind, j)  BY <1>7, <1>9 DEF Sent
<1>11. ExchangeInv(j)
  <2>1. {"PREPARE", "INSTALL", "ACCEPT", "PROOF", "HEARTBEAT"} \subseteq Kinds  BY DEF Kinds
  <2>2. QED  BY <1>1, <1>7, <1>9, <2>1 DEF ExchangeInv, Elsewhere, Fit
<1>12. \/ NoProofDue(j) \/ ~NoProofDue(k)
       \/ k.continuation.task # "PUBLISH" /\ k.publication = NoPublication
  BY <1>7, <1>9 DEF NoProofDue, Kinds, Fit
<1>13. Base(j) /\ Moves(k, j) /\ (Good(k) => Good(j))
  BY <1>7, <1>8, <1>11, <1>12, ExchangesGood
<1>14. QED  BY <1>10, <1>13 DEF j

\* The outstanding publication is the same.
Keeps(k, j) == j.publication = k.publication

\* commit keeps the invariant: its check of the ballot never fails, and the
\* request is issued before the store is called.
LEMMA CommitGood ==
  ASSUME NEW k, Good(k), k.operation = NoOperation, k.publication = NoPublication,
         NEW request \in Requests \union {0}, NEW activating \in BOOLEAN,
         NEW own \in BOOLEAN, NEW ok \in BOOLEAN,
         \/ request = 0 /\ activating = TRUE /\ k.state = "RECOVERING"
         \/ request # 0 /\ activating = FALSE /\ k.state = "LEADER_READY",
         \A p \in Peers : k.exchanges[p]["INSTALL"] = 0,
         request # 0 => request \notin k.issued /\ k.outcomes[request] = <<>>
  PROVE  /\ Good(Commit(k, request, activating, own, ok))
         /\ Moves(k, Commit(k, request, activating, own, ok))
         /\ Keeps(k, Commit(k, request, activating, own, ok))
<1> DEFINE op == [index |-> k.proven + 1, request |-> request, activating |-> activating,
                  own |-> own, proved |-> FALSE]
           is == IF request = 0 THEN k.issued ELSE k.issued \union {request}
           j == [k EXCEPT !.operation = op, !.issued = is]
<1>1. /\ Shape(k) /\ NumberType(k) /\ FieldType(k) /\ ~k.tripped /\ EpochInv(k)
      /\ ExchangeInv(k) /\ OperationInv(k) /\ CallbackInv(k) /\ OutcomeInv(k) /\ Base(k)
      /\ PrepareInv(k)
  BY Parts DEF Good
<1>0. /\ activating = (request = 0)
      /\ k.state = IF activating THEN "RECOVERING" ELSE "LEADER_READY"
      /\ k.state \in {"RECOVERING", "LEADER_READY"}
  OBVIOUS
<1>2. /\ op \in [index : Nat, request : Requests \union {0}, activating : BOOLEAN,
                 own : BOOLEAN, proved : BOOLEAN]
      /\ op.index = k.proven + 1 /\ op.request = request /\ op.activating = activating
      /\ op.proved = FALSE /\ op # NoOperation
  <2>1. k.proven \in Nat  BY <1>1 DEF NumberType
  <2>2. op.index = k.proven + 1 /\ NoOperation.index = 0  BY DEF NoOperation
  <2>3. QED  BY <2>1, <2>2
<1>3. is \in SUBSET Requests /\ k.issued \subseteq is /\ (request # 0 => request \in is)
      /\ \A r \in is : r \in k.issued \/ r = request
  BY <1>1 DEF FieldType
<1>4. /\ Shape(j) /\ j.operation = op /\ j.issued = is
      /\ j.state = k.state /\ j.campaign = k.campaign /\ j.armed = k.armed
      /\ j.continuation = k.continuation /\ j.exchanges = k.exchanges
      /\ j.fence = k.fence /\ j.maxEpoch = k.maxEpoch /\ j.preparing = k.preparing
      /\ j.promised = k.promised /\ j.proven = k.proven
      /\ j.publication = k.publication /\ j.reconstruction = k.reconstruction
      /\ j.imageIndex = k.imageIndex /\ j.publishedIndex = k.publishedIndex
      /\ j.tripped = k.tripped /\ j.outcomes = k.outcomes
      /\ j.quorumPeer = k.quorumPeer /\ j.deferredPeer = k.deferredPeer
      /\ j.failedPeer = k.failedPeer /\ j.carried = k.carried
  BY <1>1 DEF Shape, Fields
<1>5. Commit(k, request, activating, own, ok)
        = IF ok THEN Send(j, {k.quorumPeer}, "ACCEPT") ELSE StoreFails(j)
  <2>1. k.campaign = k.fence /\ k.campaign = k.promised  BY <1>0, <1>1 DEF EpochInv
  <2>2. QED  BY <2>1 DEF Commit
<1> HIDE DEF op, is, j
<1>6. NumberType(j) /\ FieldType(j)  BY <1>1, <1>2, <1>3, <1>4 DEF NumberType, FieldType
<1>7. EpochInv(j)  BY <1>1, <1>4 DEF EpochInv, Serving
<1>8. ~NoOperation.proved /\ NoOperation.request = 0  BY DEF NoOperation
<1>9. \A p \in Peers : /\ ~(k.exchanges[p]["INSTALL"] > 0) /\ ~(k.exchanges[p]["ACCEPT"] > 0)
                       /\ ~(k.exchanges[p]["PROOF"] > 0)
  BY <1>1, <1>8 DEF ExchangeInv
<1>10. ExchangeInv(j)  BY <1>1, <1>4, <1>9 DEF ExchangeInv
<1>11. OperationInv(j)  BY <1>0, <1>2, <1>4 DEF OperationInv
<1>12. CallbackInv(j)  BY <1>1, <1>2, <1>4, <1>8 DEF CallbackInv, Valid
<1>13. OutcomeInv(j)
  <2>1. 0 \notin Requests  BY RequestsAssumption
  <2>2. ASSUME NEW r \in Requests
        PROVE  /\ Len(k.outcomes[r]) <= 1
               /\ k.outcomes[r] = <<"NOT_SUBMITTED">> => r \notin is
               /\ r \in is => (k.outcomes[r] = <<>>) = (request = r)
    <3>1. /\ Len(k.outcomes[r]) <= 1
          /\ k.outcomes[r] = <<"NOT_SUBMITTED">> => r \notin k.issued
          /\ r \in k.issued => (k.outcomes[r] = <<>>) = (k.operation.request = r)
      BY <1>1 DEF OutcomeInv
    <3>2. r \in k.issued => k.outcomes[r] # <<>>  BY <3>1, <2>1, <1>8
    <3>3. <<"NOT_SUBMITTED">> # <<>>  BY OneOutcome DEF Outcomes
    <3>4. CASE r = request
      <4>1. k.outcomes[r] = <<>> /\ request # 0  BY <3>4, <2>1
      <4>2. QED  BY <3>1, <3>3, <3>4, <4>1
    <3>5. CASE r # request
      <4>1. r \in is => r \in k.issued  BY <3>5, <1>3
      <4>2. QED  BY <3>1, <3>2, <3>5, <4>1
    <3>6. QED  BY <3>4, <3>5
  <2>3. request # 0 => request \in is  BY <1>3
  <2>4. QED  BY <2>2, <2>3, <1>2, <1>4 DEF OutcomeInv
<1>14. Base(j)
  BY <1>1, <1>4, <1>6, <1>7, <1>10, <1>11, <1>12, <1>13, Parts
<1>15. Good(j)  BY <1>1, <1>4, <1>14 DEF Good, PrepareInv, Awaits, Serving
<1>16. Moves(k, j)  BY <1>1, <1>4 DEF Moves, NumberType
<1>17. CASE ok
  <2>1. k.quorumPeer \in Peers /\ k.exchanges[k.quorumPeer]["ACCEPT"] = 0
    <3>1. k.quorumPeer \in Peers  BY <1>0, <1>1 DEF EpochInv
    <3>2. k.exchanges[k.quorumPeer]["ACCEPT"] \in Nat  BY <3>1, <1>1 DEF FieldType, Kinds
    <3>3. QED  BY <3>1, <3>2, <1>9
  <2>2. Fit(j, {k.quorumPeer}, "ACCEPT")  BY <2>1, <1>2, <1>4 DEF Fit
  <2>3. "ACCEPT" \in Kinds  BY DEF Kinds
  <2> DEFINE m == Send(j, {k.quorumPeer}, "ACCEPT")
  <2>4. Good(m) /\ Moves(j, m) /\ Sent(j, {k.quorumPeer}, "ACCEPT", m)
    BY <2>2, <2>3, <1>14, <1>15, SendGood
  <2> HIDE DEF m
  <2>5. m.publication = k.publication  BY <2>4, <1>4 DEF Sent, Elsewhere
  <2>6. NumberType(m)  BY <2>4, Parts DEF Good
  <2>7. Moves(k, m)  BY <2>4, <2>6, <1>1, <1>6, <1>16, MovesTrans
  <2>8. QED  BY <2>4, <2>5, <2>7, <1>5, <1>17 DEF m, Keeps
<1>18. CASE ~ok
  <2> DEFINE m == StoreFails(j)
  <2>1. Good(m) /\ Moves(j, m) /\ m.publication = j.publication  BY <1>14, FailGood
  <2> HIDE DEF m
  <2>2. NumberType(m)  BY <2>1, Parts DEF Good
  <2>3. Moves(k, m)  BY <2>1, <2>2, <1>1, <1>6, <1>16, MovesTrans
  <2>4. QED  BY <2>1, <2>3, <1>4, <1>5, <1>18 DEF m, Keeps
<1>19. QED  BY <1>17, <1>18

\* A method that leads to a good value, moves nothing back, tells no success
\* and leaves an outstanding publication alone.
Advances(k, j) ==
  /\ Good(j) /\ Moves(k, j)
  /\ k.publication # NoPublication => j.publication = k.publication

\* The continuation c may be run, or may begin to wait for the image.
Ready(k, c) ==
  /\ Base(k) /\ Valid(k, c) /\ Awaits(k, c)
  /\ c \in [task : Tasks, ballot : Nat] /\ c.task # "NONE"

\* A continuation that finds itself stale leaves everything as it is.
LEMMA StayGood ==
  ASSUME NEW k, NEW c, Ready(k, c), k.continuation = NoTask,
         c.task # "PREPARE" \/ k.preparing # c.ballot \/ k.fence # c.ballot
  PROVE  Advances(k, k)
<1>1. NumberType(k) /\ Base(k) /\ Awaits(k, c)  BY Parts DEF Ready
<1>2. Moves(k, k)  BY <1>1, MovesSelf
<1>3. PrepareInv(k)
  <2>1. SUFFICES ASSUME Serving(k) /\ k.preparing # 0 /\ k.preparing = k.fence
                 PROVE  FALSE
    BY DEF PrepareInv, Awaits
  <2>2. c = Task("PREPARE", k.fence)  BY <2>1, <1>1 DEF Awaits
  <2>3. c.task = "PREPARE" /\ c.ballot = k.fence  BY <2>2 DEF Task
  <2>4. QED  BY <2>1, <2>3
<1>4. QED  BY <1>1, <1>2, <1>3 DEF Advances, Good

\* A failing voter keeps its publication outstanding.
LEMMA StoppedGood ==
  ASSUME NEW k, Base(k)
  PROVE  Advances(k, StoreFails(k)) /\ Advances(k, Fail(k))
BY FailGood DEF Advances

\* The continuation of start.
LEMMA RunStart ==
  ASSUME NEW k, NEW c, Ready(k, c), k.continuation = NoTask, c.task = "START", NEW ok \in BOOLEAN
  PROVE  Advances(k, Run(k, c, ok))
<1> DEFINE j == [k EXCEPT !.state = "FOLLOWER", !.armed = TRUE]
<1>1. /\ Shape(k) /\ NumberType(k) /\ FieldType(k) /\ ~k.tripped /\ EpochInv(k)
      /\ ExchangeInv(k) /\ OperationInv(k) /\ CallbackInv(k) /\ OutcomeInv(k) /\ Base(k)
      /\ k.state = "STARTING"
  BY Parts DEF Ready, Valid
<1>2. Run(k, c, ok) = IF ok THEN j ELSE StoreFails(k)  BY DEF Run
<1>3. k.campaign = 0 /\ k.preparing = 0 /\ k.operation = NoOperation
  BY <1>1 DEF EpochInv, OperationInv
<1>4. /\ Shape(j) /\ j.operation = k.operation /\ j.issued = k.issued
      /\ j.state = "FOLLOWER" /\ j.campaign = k.campaign /\ j.armed = TRUE
      /\ j.continuation = k.continuation /\ j.exchanges = k.exchanges
      /\ j.fence = k.fence /\ j.maxEpoch = k.maxEpoch /\ j.preparing = k.preparing
      /\ j.promised = k.promised /\ j.proven = k.proven
      /\ j.publication = k.publication /\ j.reconstruction = k.reconstruction
      /\ j.imageIndex = k.imageIndex /\ j.publishedIndex = k.publishedIndex
      /\ j.tripped = k.tripped /\ j.outcomes = k.outcomes
      /\ j.quorumPeer = k.quorumPeer /\ j.deferredPeer = k.deferredPeer
      /\ j.failedPeer = k.failedPeer /\ j.carried = k.carried
  BY <1>1 DEF Shape, Fields
<1> HIDE DEF j
<1>5. NumberType(j) /\ FieldType(j)  BY <1>1, <1>4 DEF NumberType, FieldType, States
<1>6. EpochInv(j)  BY <1>1, <1>3, <1>4 DEF EpochInv, Serving
<1>7. ExchangeInv(j)  BY <1>1, <1>4 DEF ExchangeInv
<1>8. OperationInv(j) /\ OutcomeInv(j)  BY <1>1, <1>3, <1>4 DEF OperationInv, OutcomeInv
<1>9. CallbackInv(j)  BY <1>1, <1>3, <1>4 DEF CallbackInv, NoTask
<1>10. Base(j)  BY <1>1, <1>4, <1>5, <1>6, <1>7, <1>8, <1>9, Parts
<1>11. Good(j)  BY <1>3, <1>4, <1>10 DEF Good, PrepareInv, Awaits
<1>12. Moves(k, j)  BY <1>1, <1>4 DEF Moves, NumberType
<1>13. Advances(k, j)  BY <1>4, <1>11, <1>12 DEF Advances
<1>14. QED  BY <1>1, <1>2, <1>13, StoppedGood

\* The continuation of beginCampaign: the promise is forced, then PREPARE sent.
LEMMA RunCampaign ==
  ASSUME NEW k, NEW c, Ready(k, c), k.continuation = NoTask, c.task = "CAMPAIGN",
         NEW ok \in BOOLEAN
  PROVE  /\ Advances(k, Run(k, c, ok))
         /\ Run(k, c, ok).publication = k.publication
<1> DEFINE j == [k EXCEPT !.promised = c.ballot, !.deferredPeer = k.failedPeer]
           to == Peers \ {k.failedPeer}
<1>1. /\ Shape(k) /\ NumberType(k) /\ FieldType(k) /\ ~k.tripped /\ EpochInv(k)
      /\ ExchangeInv(k) /\ OperationInv(k) /\ CallbackInv(k) /\ OutcomeInv(k) /\ Base(k)
      /\ c.ballot = k.campaign /\ k.state = "CANDIDATE" /\ k.promised # k.campaign
  BY Parts DEF Ready, Valid
<1>2. k.campaign = k.fence /\ k.promised <= k.fence /\ k.preparing = 0 /\ k.campaign # 0
      /\ k.operation = NoOperation
  BY <1>1 DEF EpochInv, OperationInv
<1>3. Run(k, c, ok) = IF ok THEN Send(j, to, "PREPARE") ELSE StoreFails(k)
  <2>1. ~(k.promised > c.ballot)  BY <1>1, <1>2 DEF NumberType
  <2>2. QED  BY <2>1, <1>1 DEF Run
<1>4. /\ Shape(j) /\ j.operation = k.operation /\ j.issued = k.issued
      /\ j.state = k.state /\ j.campaign = k.campaign /\ j.armed = k.armed
      /\ j.continuation = k.continuation /\ j.exchanges = k.exchanges
      /\ j.fence = k.fence /\ j.maxEpoch = k.maxEpoch /\ j.preparing = k.preparing
      /\ j.promised = c.ballot /\ j.proven = k.proven
      /\ j.publication = k.publication /\ j.reconstruction = k.reconstruction
      /\ j.imageIndex = k.imageIndex /\ j.publishedIndex = k.publishedIndex
      /\ j.tripped = k.tripped /\ j.outcomes = k.outcomes
      /\ j.quorumPeer = k.quorumPeer /\ j.deferredPeer = k.failedPeer
      /\ j.failedPeer = k.failedPeer /\ j.carried = k.carried
  BY <1>1 DEF Shape, Fields
<1> HIDE DEF j
<1>5. NumberType(j) /\ FieldType(j)  BY <1>1, <1>4 DEF NumberType, FieldType
<1>6. EpochInv(j)  BY <1>1, <1>2, <1>4 DEF EpochInv, Serving, NumberType
<1>7. ExchangeInv(j)  BY <1>1, <1>4 DEF ExchangeInv
<1>8. OperationInv(j) /\ OutcomeInv(j)  BY <1>1, <1>4 DEF OperationInv, OutcomeInv
<1>9. CallbackInv(j)  BY <1>1, <1>4 DEF CallbackInv, NoTask, AtRest, NoProofDue
<1>10. Base(j)  BY <1>1, <1>4, <1>5, <1>6, <1>7, <1>8, <1>9, Parts
<1>11. Good(j)  BY <1>2, <1>4, <1>10 DEF Good, PrepareInv, Awaits
<1>12. Moves(k, j)  BY <1>1, <1>2, <1>4 DEF Moves, NumberType
<1>13. CASE ok
  <2>1. \A p \in Peers : k.exchanges[p]["PREPARE"] = 0
    <3>1. \A p \in Peers : k.exchanges[p]["PREPARE"] \in Nat  BY <1>1 DEF FieldType, Kinds
    <3>2. QED  BY <3>1, <1>1 DEF ExchangeInv
  <2>2. Fit(j, to, "PREPARE")  BY <2>1, <1>1, <1>4 DEF Fit
  <2>3. "PREPARE" \in Kinds  BY DEF Kinds
  <2> DEFINE m == Send(j, to, "PREPARE")
  <2> HIDE DEF to
  <2>4. Good(m) /\ Moves(j, m) /\ Sent(j, to, "PREPARE", m)
    BY <2>2, <2>3, <1>10, <1>11, SendGood
  <2> HIDE DEF m
  <2>5. m.publication = k.publication  BY <2>4, <1>4 DEF Sent, Elsewhere
  <2>6. NumberType(m)  BY <2>4, Parts DEF Good
  <2>7. Moves(k, m)  BY <2>4, <2>6, <1>1, <1>5, <1>12, MovesTrans
  <2>8. QED  BY <2>4, <2>5, <2>7, <1>3, <1>13 DEF m, Advances, to
<1>14. CASE ~ok  BY <1>1, <1>3, <1>14, StoppedGood, FailGood
<1>15. QED  BY <1>13, <1>14

\* The continuation of prepare: the promise is forced and the request answered.
LEMMA RunPrepare ==
  ASSUME NEW k, NEW c, Ready(k, c), k.continuation = NoTask, c.task = "PREPARE",
         NEW ok \in BOOLEAN
  PROVE  Advances(k, Run(k, c, ok))
<1> DEFINE j == [k EXCEPT !.promised = c.ballot, !.preparing = 0, !.armed = TRUE]
           i == [k EXCEPT !.preparing = 0]
<1>1. /\ Shape(k) /\ NumberType(k) /\ FieldType(k) /\ ~k.tripped /\ EpochInv(k)
      /\ ExchangeInv(k) /\ OperationInv(k) /\ CallbackInv(k) /\ OutcomeInv(k) /\ Base(k)
  BY Parts DEF Ready
<1>2. CASE k.preparing # c.ballot \/ k.fence # c.ballot
  <2>1. Run(k, c, ok) = k  BY <1>2 DEF Run
  <2>2. QED  BY <2>1, <1>2, StayGood
<1>3. CASE k.preparing = c.ballot /\ k.fence = c.ballot
  <2>1. k.campaign = 0 /\ k.promised <= c.ballot /\ c.ballot >= 1 /\ k.operation = NoOperation
    BY <1>1, <1>3 DEF EpochInv, NumberType, OperationInv
  <2>2. Run(k, c, ok) = IF ok THEN j ELSE StoreFails(i)
    <3>1. ~(k.promised > c.ballot)  BY <1>1, <1>3, <2>1 DEF NumberType
    <3>2. QED  BY <3>1, <1>3 DEF Run
  <2>3. /\ Shape(j) /\ j.operation = k.operation /\ j.issued = k.issued
        /\ j.state = k.state /\ j.campaign = k.campaign /\ j.armed = TRUE
        /\ j.continuation = k.continuation /\ j.exchanges = k.exchanges
        /\ j.fence = k.fence /\ j.maxEpoch = k.maxEpoch /\ j.preparing = 0
        /\ j.promised = c.ballot /\ j.proven = k.proven
        /\ j.publication = k.publication /\ j.reconstruction = k.reconstruction
        /\ j.imageIndex = k.imageIndex /\ j.publishedIndex = k.publishedIndex
        /\ j.tripped = k.tripped /\ j.outcomes = k.outcomes
        /\ j.quorumPeer = k.quorumPeer /\ j.deferredPeer = k.deferredPeer
        /\ j.failedPeer = k.failedPeer /\ j.carried = k.carried
    BY <1>1 DEF Shape, Fields
  <2>4. /\ Shape(i) /\ i.operation = k.operation /\ i.issued = k.issued
        /\ i.state = k.state /\ i.campaign = k.campaign /\ i.armed = k.armed
        /\ i.continuation = k.continuation /\ i.exchanges = k.exchanges
        /\ i.fence = k.fence /\ i.maxEpoch = k.maxEpoch /\ i.preparing = 0
        /\ i.promised = k.promised /\ i.proven = k.proven
        /\ i.publication = k.publication /\ i.reconstruction = k.reconstruction
        /\ i.imageIndex = k.imageIndex /\ i.publishedIndex = k.publishedIndex
        /\ i.tripped = k.tripped /\ i.outcomes = k.outcomes
        /\ i.quorumPeer = k.quorumPeer /\ i.deferredPeer = k.deferredPeer
        /\ i.failedPeer = k.failedPeer /\ i.carried = k.carried
    BY <1>1 DEF Shape, Fields
  <2> HIDE DEF i, j
  <2>5. Base(j) /\ Good(j) /\ Moves(k, j)
    <3>0. NumberType(j)
      <4>1. c.ballot \in Nat  BY <1>1, <1>3 DEF NumberType
      <4>2. QED  BY <1>1, <2>3, <4>1 DEF NumberType
    <3>1. NumberType(j) /\ FieldType(j)  BY <1>1, <2>3, <3>0 DEF FieldType
    <3>2. EpochInv(j)  BY <1>1, <1>3, <2>1, <2>3 DEF EpochInv, Serving, NumberType
    <3>3. ExchangeInv(j)  BY <1>1, <2>1, <2>3 DEF ExchangeInv, EpochInv
    <3>4. OperationInv(j) /\ OutcomeInv(j)  BY <1>1, <2>3 DEF OperationInv, OutcomeInv
    <3>5. CallbackInv(j)  BY <1>1, <2>3 DEF CallbackInv, NoTask, AtRest, NoProofDue
    <3>6. Base(j)  BY <1>1, <2>3, <3>1, <3>2, <3>3, <3>4, <3>5, Parts
    <3>7. Good(j)  BY <2>3, <3>6 DEF Good, PrepareInv, Awaits
    <3>8. Moves(k, j)  BY <1>1, <1>3, <2>1, <2>3 DEF Moves, NumberType
    <3>9. QED  BY <3>6, <3>7, <3>8
  <2>6. Base(i) /\ Moves(k, i)
    <3>0. NumberType(i)  BY <1>1, <2>4 DEF NumberType
    <3>1. NumberType(i) /\ FieldType(i)  BY <1>1, <2>4, <3>0 DEF FieldType
    <3>2. EpochInv(i)  BY <1>1, <2>1, <2>4 DEF EpochInv, Serving, NumberType
    <3>3. ExchangeInv(i)  BY <1>1, <2>4 DEF ExchangeInv
    <3>4. OperationInv(i) /\ OutcomeInv(i)  BY <1>1, <2>4 DEF OperationInv, OutcomeInv
    <3>5. CallbackInv(i)  BY <1>1, <2>4 DEF CallbackInv, NoTask, AtRest, NoProofDue
    <3>6. Base(i)  BY <1>1, <2>4, <3>1, <3>2, <3>3, <3>4, <3>5, Parts
    <3>7. Moves(k, i)  BY <1>1, <2>4 DEF Moves, NumberType
    <3>8. QED  BY <3>6, <3>7
  <2>7. CASE ok  BY <2>2, <2>3, <2>5, <2>7 DEF Advances
  <2>8. CASE ~ok
    <3> DEFINE m == StoreFails(i)
    <3>1. Good(m) /\ Moves(i, m) /\ m.publication = i.publication  BY <2>6, FailGood
    <3> HIDE DEF m
    <3>2. NumberType(m) /\ NumberType(i)  BY <2>6, <3>1, Parts DEF Good
    <3>3. Moves(k, m)  BY <2>6, <3>1, <3>2, <1>1, MovesTrans
    <3>4. QED  BY <2>2, <2>4, <2>8, <3>1, <3>3 DEF m, Advances
  <2>9. QED  BY <2>7, <2>8
<1>4. QED  BY <1>2, <1>3

\* The continuations of the two publications.
LEMMA PublicationGood ==
  ASSUME NEW k, Base(k), PrepareInv(k), k.imageIndex = k.proven, k.publication = NoPublication,
         NEW b \in Nat, NEW l \in BOOLEAN,
         IF l THEN k.state \in {"FOLLOWER", "UNAVAILABLE"}
              ELSE k.campaign # 0 /\ b = k.campaign /\ k.operation.proved /\ NoProofDue(k)
  PROVE  Advances(k, [k EXCEPT !.publication = [ballot |-> b, index |-> k.proven, local |-> l]])
<1> DEFINE v == [ballot |-> b, index |-> k.proven, local |-> l]
           j == [k EXCEPT !.publication = v]
<1>1. /\ Shape(k) /\ NumberType(k) /\ FieldType(k) /\ ~k.tripped /\ EpochInv(k)
      /\ ExchangeInv(k) /\ OperationInv(k) /\ CallbackInv(k) /\ OutcomeInv(k)
  BY Parts
<1>2. k.proven \in Nat  BY <1>1 DEF NumberType
<1>3. v \in [ballot : Nat, index : Nat, local : BOOLEAN] /\ v.index = k.proven
  BY <1>2
<1>4. k.reconstruction = NoIndex  BY <1>1, <1>2 DEF CallbackInv
<1>5. /\ Shape(j) /\ j.operation = k.operation /\ j.issued = k.issued
      /\ j.state = k.state /\ j.campaign = k.campaign /\ j.armed = k.armed
      /\ j.continuation = k.continuation /\ j.exchanges = k.exchanges
      /\ j.fence = k.fence /\ j.maxEpoch = k.maxEpoch /\ j.preparing = k.preparing
      /\ j.promised = k.promised /\ j.proven = k.proven
      /\ j.publication = v /\ j.reconstruction = k.reconstruction
      /\ j.imageIndex = k.imageIndex /\ j.publishedIndex = k.publishedIndex
      /\ j.tripped = k.tripped /\ j.outcomes = k.outcomes
      /\ j.quorumPeer = k.quorumPeer /\ j.deferredPeer = k.deferredPeer
      /\ j.failedPeer = k.failedPeer /\ j.carried = k.carried
  BY <1>1 DEF Shape, Fields
<1> HIDE DEF j, v
<1>6. NumberType(j) /\ FieldType(j)  BY <1>1, <1>3, <1>5 DEF NumberType, FieldType
<1>7. EpochInv(j)  BY <1>1, <1>5 DEF EpochInv, Serving
<1>8. ExchangeInv(j)  BY <1>1, <1>5 DEF ExchangeInv
<1>9. OperationInv(j) /\ OutcomeInv(j)  BY <1>1, <1>5 DEF OperationInv, OutcomeInv
<1>10. CallbackInv(j)
  <2>1. ~NoOperation.proved  BY DEF NoOperation
  <2>2. k.continuation.task = "NONE"  BY <1>1, <1>4 DEF CallbackInv
  <2>3. l => k.campaign = 0  BY <1>1 DEF EpochInv
  <2>4. k.operation # NoOperation \/ l  BY <2>1
  <2>5. k.state # "STOPPED" /\ (l => k.state # "LEADER_READY")
    BY <1>1 DEF EpochInv
  <2>6. k.operation.proved => k.operation.index = k.proven
    BY <1>1, <2>1 DEF OperationInv
  <2>7. NoProofDue(k) => NoProofDue(j)  BY <1>5 DEF NoProofDue
  <2>8. k.publishedIndex <= v.index /\ v.index <= k.proven
    BY <1>1, <1>2, <1>3 DEF CallbackInv
  <2>9. QED
    BY <1>1, <1>3, <1>4, <1>5, <2>2, <2>3, <2>4, <2>5, <2>6, <2>7, <2>8 DEF CallbackInv
<1>11. Base(j)  BY <1>1, <1>5, <1>6, <1>7, <1>8, <1>9, <1>10, Parts
<1>12. Good(j)  BY <1>5, <1>11 DEF Good, PrepareInv, Awaits, Serving
<1>13. Moves(k, j)  BY <1>1, <1>5 DEF Moves, NumberType
<1>14. QED  BY <1>12, <1>13 DEF Advances, j, v

\* Every continuation keeps the invariant.
LEMMA RunGood ==
  ASSUME NEW k, NEW c, Ready(k, c), k.continuation = NoTask, k.imageIndex = k.proven,
         NEW ok \in BOOLEAN
  PROVE  Advances(k, Run(k, c, ok))
<1>1. c.task \in {"START", "CAMPAIGN", "PREPARE", "PUBLISH", "LOCAL"} /\ c.ballot \in Nat
  BY DEF Ready, Tasks
<1>2. CASE c.task = "START"  BY <1>2, RunStart
<1>3. CASE c.task = "CAMPAIGN"  BY <1>3, RunCampaign
<1>4. CASE c.task = "PREPARE"  BY <1>4, RunPrepare
<1>5. CASE c.task = "PUBLISH"
  <2>1. Advances(k, k)  BY <1>5, StayGood
  <2>2. PrepareInv(k) /\ Base(k)  BY <2>1 DEF Advances, Good
  <2>3. EpochInv(k) /\ NumberType(k)  BY <2>2, Parts
  <2>4. k.publication = NoPublication /\ k.operation.proved /\ NoProofDue(k)
    BY <1>5 DEF Ready, Valid
  <2> DEFINE j == [k EXCEPT !.publication = [ballot |-> c.ballot, index |-> k.proven, local |-> FALSE]]
  <2>5. ASSUME k.campaign = c.ballot, k.fence = c.ballot
        PROVE  Advances(k, j)
    <3>1. k.campaign # 0  BY <2>3, <2>5 DEF EpochInv, NumberType
    <3>2. QED  BY <1>1, <2>2, <2>4, <2>5, <3>1, PublicationGood
  <2>6. Run(k, c, ok) = IF k.operation = NoOperation \/ k.campaign # c.ballot
                             \/ k.fence # c.ballot THEN k ELSE j
    BY <1>5 DEF Run
  <2> HIDE DEF j
  <2>7. QED  BY <2>1, <2>5, <2>6
<1>6. CASE c.task = "LOCAL"
  <2>1. Advances(k, k)  BY <1>6, StayGood
  <2>2. PrepareInv(k) /\ Base(k)  BY <2>1 DEF Advances, Good
  <2>4. k.publication = NoPublication  BY <1>6 DEF Ready, Valid
  <2> DEFINE j == [k EXCEPT !.publication = [ballot |-> c.ballot, index |-> k.proven, local |-> TRUE]]
  <2>5. ASSUME k.state \in {"FOLLOWER", "UNAVAILABLE"}
        PROVE  Advances(k, j)
    BY <1>1, <2>2, <2>4, <2>5, PublicationGood
  <2>6. Run(k, c, ok) = IF k.campaign # 0 \/ k.preparing # 0 \/ k.fence # c.ballot
                             \/ k.state \notin {"FOLLOWER", "UNAVAILABLE"} THEN k ELSE j
    BY <1>6 DEF Run
  <2> HIDE DEF j
  <2>7. QED  BY <2>1, <2>5, <2>6
<1>7. QED  BY <1>1, <1>2, <1>3, <1>4, <1>5, <1>6

\* withImage keeps the invariant, whether it runs its continuation or waits.
LEMMA WithImageGood ==
  ASSUME NEW k, NEW c, Ready(k, c), k.state # "STOPPED", NEW ok \in BOOLEAN
  PROVE  Advances(k, WithImage(k, c, ok))
<1>1. /\ Shape(k) /\ NumberType(k) /\ FieldType(k) /\ ~k.tripped /\ EpochInv(k)
      /\ ExchangeInv(k) /\ OperationInv(k) /\ CallbackInv(k) /\ OutcomeInv(k) /\ Base(k)
      /\ Valid(k, c) /\ Awaits(k, c) /\ c \in [task : Tasks, ballot : Nat] /\ c.task # "NONE"
  BY Parts DEF Ready
<1>2. ASSUME NEW d \in [task : Tasks, ballot : Nat], NEW r \in Nat \union {NoIndex},
             \/ d = NoTask /\ r = k.reconstruction
             \/ d = c /\ r # NoIndex /\ r <= k.proven /\ k.imageIndex # k.proven
      PROVE  LET j == [k EXCEPT !.continuation = d, !.reconstruction = r]
             IN  /\ Base(j) /\ Moves(k, j) /\ j.publication = k.publication
                 /\ (d = c => Good(j))
                 /\ Valid(j, c) /\ Awaits(j, c) /\ j.continuation = d
                 /\ j.imageIndex = k.imageIndex /\ j.proven = k.proven
  <2> DEFINE j == [k EXCEPT !.continuation = d, !.reconstruction = r]
  <2>1. /\ Shape(j) /\ j.operation = k.operation /\ j.issued = k.issued
        /\ j.state = k.state /\ j.campaign = k.campaign /\ j.armed = k.armed
        /\ j.continuation = d /\ j.exchanges = k.exchanges
        /\ j.fence = k.fence /\ j.maxEpoch = k.maxEpoch /\ j.preparing = k.preparing
        /\ j.promised = k.promised /\ j.proven = k.proven
        /\ j.publication = k.publication /\ j.reconstruction = r
        /\ j.imageIndex = k.imageIndex /\ j.publishedIndex = k.publishedIndex
        /\ j.tripped = k.tripped /\ j.outcomes = k.outcomes
        /\ j.quorumPeer = k.quorumPeer /\ j.deferredPeer = k.deferredPeer
        /\ j.failedPeer = k.failedPeer /\ j.carried = k.carried
    BY <1>1 DEF Shape, Fields
  <2> HIDE DEF j
  <2>0. d.task = "NONE" => d = NoTask  BY <1>1, <1>2
  <2>2. NumberType(j) /\ FieldType(j)  BY <1>1, <2>0, <2>1 DEF NumberType, FieldType
  <2>3. EpochInv(j)  BY <1>1, <2>1 DEF EpochInv, Serving
  <2>4. ExchangeInv(j)  BY <1>1, <2>1 DEF ExchangeInv
  <2>5. OperationInv(j) /\ OutcomeInv(j)  BY <1>1, <2>1 DEF OperationInv, OutcomeInv
  <2>6. Valid(j, c) /\ Awaits(j, c)
    BY <1>1, <2>1 DEF Valid, Awaits, Serving, NoProofDue
  <2>7. CallbackInv(j)
    <3>1. CASE d = NoTask /\ r = k.reconstruction
      BY <1>1, <2>1, <3>1 DEF CallbackInv, NoTask, AtRest, NoProofDue
    <3>2. CASE d = c /\ r # NoIndex /\ r <= k.proven /\ k.imageIndex # k.proven
      <4>1. k.imageIndex < k.proven  BY <1>1, <3>2 DEF CallbackInv, NumberType, NoIndex
      <4>2. ~(k.publication # NoPublication /\ k.campaign # 0)
        BY <1>1, <3>2 DEF CallbackInv
      <4>3. ~(k.state = "LEADER_READY" /\ k.operation = NoOperation)
        BY <1>1, <3>2 DEF CallbackInv, AtRest
      <4>4. QED  BY <1>1, <2>1, <2>6, <3>2, <4>1, <4>2, <4>3 DEF CallbackInv
    <3>3. QED  BY <1>2, <3>1, <3>2
  <2>8. Base(j)  BY <1>1, <2>1, <2>2, <2>3, <2>4, <2>5, <2>7, Parts
  <2>9. Moves(k, j)  BY <1>1, <2>1 DEF Moves, NumberType
  <2>10. d = c => Good(j)  BY <2>1, <2>6, <2>8 DEF Good, PrepareInv
  <2>11. QED  BY <2>1, <2>6, <2>8, <2>9, <2>10 DEF j
<1>3. k.reconstruction \in Nat \union {NoIndex} /\ k.proven \in Nat  BY <1>1 DEF NumberType
<1>4. CASE k.imageIndex = k.proven
  <2> DEFINE j == [k EXCEPT !.continuation = NoTask, !.reconstruction = k.reconstruction]
  <2>1. /\ Base(j) /\ Moves(k, j) /\ j.publication = k.publication
        /\ Valid(j, c) /\ Awaits(j, c) /\ j.continuation = NoTask
        /\ j.imageIndex = k.imageIndex /\ j.proven = k.proven
    BY <1>2, <1>3, NoneTyped
  <2>2. j = [k EXCEPT !.continuation = NoTask]  BY <1>1 DEF Shape, Fields
  <2>3. WithImage(k, c, ok) = Run(j, c, ok)  BY <1>4, <2>2 DEF WithImage
  <2> HIDE DEF j
  <2> DEFINE m == Run(j, c, ok)
  <2>4. Ready(j, c)  BY <1>1, <2>1 DEF Ready
  <2>5. Advances(j, m)  BY <1>4, <2>1, <2>4, RunGood
  <2> HIDE DEF m
  <2>6. NumberType(j) /\ NumberType(m)  BY <2>1, <2>5, Parts DEF Advances, Good
  <2>7. Moves(k, m)  BY <1>1, <2>1, <2>5, <2>6, MovesTrans DEF Advances
  <2>8. QED  BY <2>1, <2>3, <2>5, <2>7 DEF m, Advances
<1>5. CASE k.imageIndex # k.proven
  <2>1. k.proven # NoIndex /\ k.proven <= k.proven  BY <1>3 DEF NoIndex
  <2> DEFINE a == [k EXCEPT !.continuation = c, !.reconstruction = k.proven]
             b == [k EXCEPT !.continuation = c, !.reconstruction = k.reconstruction]
  <2>2. b = [k EXCEPT !.continuation = c]  BY <1>1 DEF Shape, Fields
  <2>3. WithImage(k, c, ok) = IF k.reconstruction = NoIndex THEN a ELSE b
    BY <1>5, <2>2 DEF WithImage
  <2>4. Good(a) /\ Moves(k, a) /\ a.publication = k.publication
    BY <1>1, <1>2, <1>3, <1>5, <2>1
  <2>5. ASSUME k.reconstruction # NoIndex
        PROVE  Good(b) /\ Moves(k, b) /\ b.publication = k.publication
    <3>1. k.reconstruction <= k.proven  BY <1>1, <2>5 DEF CallbackInv
    <3>2. QED  BY <1>1, <1>2, <1>3, <1>5, <2>5, <3>1
  <2> HIDE DEF a, b
  <2>6. QED  BY <2>3, <2>4, <2>5 DEF Advances
<1>6. QED  BY <1>4, <1>5

\* Advances is transitive ...
LEMMA AdvancesTrans ==
  ASSUME NEW a, NEW b, NEW c, Good(a), Advances(a, b), Advances(b, c)
  PROVE  Advances(a, c)
<1>1. NumberType(a) /\ NumberType(b) /\ NumberType(c)  BY Parts DEF Advances, Good
<1>2. Moves(a, c)  BY <1>1, MovesTrans DEF Advances
<1>3. QED  BY <1>2 DEF Advances

\* ... and reflexive on good values.
LEMMA AdvancesSelf ==
  ASSUME NEW k, Good(k)
  PROVE  Advances(k, k)
<1>1. NumberType(k)  BY Parts DEF Good
<1>2. QED  BY <1>1, MovesSelf DEF Advances

\* An exchange is outstanding only under a campaign, with no PREPARE taken in.
LEMMA Outstands ==
  ASSUME NEW k, Base(k), NEW p \in Peers, NEW kind \in Kinds, k.exchanges[p][kind] > 0
  PROVE  k.campaign # 0 /\ k.preparing = 0
<1>1. ExchangeInv(k) /\ OperationInv(k) /\ EpochInv(k)  BY Parts
<1>2. ~NoOperation.proved  BY DEF NoOperation
<1>3. k.operation # NoOperation => k.campaign # 0  BY <1>1 DEF OperationInv, EpochInv
<1>4. k.campaign # 0  BY <1>1, <1>2, <1>3 DEF ExchangeInv, EpochInv, Kinds
<1>5. QED  BY <1>1, <1>4 DEF EpochInv

\* abandon, called under a campaign, keeps the whole invariant.
LEMMA AbandonCampaign ==
  ASSUME NEW k, Good(k), k.campaign # 0 \/ k.operation # NoOperation, NEW u
  PROVE  Advances(k, Abandon(k, u))
<1> DEFINE j == Abandon(k, u)
<1>1. Base(k) /\ EpochInv(k) /\ OperationInv(k) /\ Shape(k)  BY Parts DEF Good
<1>2. k.preparing = 0  BY <1>1 DEF EpochInv, OperationInv
<1>3. j.preparing = k.preparing /\ j.publication = k.publication  BY <1>1, AbandonClears
<1>4. Base(j) /\ Moves(k, j)  BY <1>1, AbandonGood
<1> HIDE DEF j
<1>5. PrepareInv(j)  BY <1>2, <1>3 DEF PrepareInv, Awaits
<1>6. QED  BY <1>3, <1>4, <1>5 DEF Advances, Good, j

\* The heartbeats of tick.
LEMMA HeartbeatsGood ==
  ASSUME NEW k, Good(k)
  PROVE  Advances(k, Heartbeats(k))
<1> DEFINE to == {p \in Peers : k.exchanges[p]["HEARTBEAT"] = 0}
           j == Send(k, to, "HEARTBEAT")
<1>1. CASE k.campaign = 0
  <2>1. Heartbeats(k) = k  BY <1>1 DEF Heartbeats
  <2>2. QED  BY <2>1, AdvancesSelf
<1>2. CASE k.campaign # 0
  <2>1. Heartbeats(k) = j  BY <1>2 DEF Heartbeats
  <2>2. Fit(k, to, "HEARTBEAT") /\ "HEARTBEAT" \in Kinds  BY <1>2 DEF Fit, Kinds
  <2> HIDE DEF to
  <2>3. Good(j) /\ Moves(k, j) /\ Sent(k, to, "HEARTBEAT", j)
    BY <2>2, SendGood DEF Good
  <2> HIDE DEF j
  <2>4. j.publication = k.publication  BY <2>3 DEF Sent, Elsewhere
  <2>5. QED  BY <2>1, <2>3, <2>4 DEF Advances
<1>3. QED  BY <1>1, <1>2

\* A proven prefix that grows makes the image stale.
LEMMA ForgetImage ==
  ASSUME NEW k, Base(k), NEW cut \in Nat, cut >= k.proven, k.campaign = 0 \/ k.state = "CANDIDATE"
  PROVE  LET j == [k EXCEPT !.proven = cut, !.imageIndex = NoIndex]
         IN  /\ Base(j) /\ Moves(k, j) /\ (Good(k) => Good(j))
             /\ j = [k EXCEPT !.proven = cut, !.imageIndex = NoIndex] /\ Shape(j)
             /\ j.state = k.state /\ j.preparing = k.preparing /\ j.publication = k.publication
             /\ j.fence = k.fence /\ j.exchanges = k.exchanges /\ j.promised = k.promised
             /\ j.campaign = k.campaign /\ j.operation = k.operation
             /\ j.continuation = k.continuation
             /\ j.quorumPeer = k.quorumPeer
<1> DEFINE j == [k EXCEPT !.proven = cut, !.imageIndex = NoIndex]
<1>1. /\ Shape(k) /\ NumberType(k) /\ FieldType(k) /\ ~k.tripped /\ EpochInv(k)
      /\ ExchangeInv(k) /\ OperationInv(k) /\ CallbackInv(k) /\ OutcomeInv(k)
  BY Parts
<1>2. k.operation = NoOperation /\ k.state # "LEADER_READY"
  BY <1>1 DEF EpochInv, OperationInv
<1>3. /\ Shape(j) /\ j.operation = k.operation /\ j.issued = k.issued
      /\ j.state = k.state /\ j.campaign = k.campaign /\ j.armed = k.armed
      /\ j.continuation = k.continuation /\ j.exchanges = k.exchanges
      /\ j.fence = k.fence /\ j.maxEpoch = k.maxEpoch /\ j.preparing = k.preparing
      /\ j.promised = k.promised /\ j.proven = cut
      /\ j.publication = k.publication /\ j.reconstruction = k.reconstruction
      /\ j.imageIndex = NoIndex /\ j.publishedIndex = k.publishedIndex
      /\ j.tripped = k.tripped /\ j.outcomes = k.outcomes
      /\ j.quorumPeer = k.quorumPeer /\ j.deferredPeer = k.deferredPeer
      /\ j.failedPeer = k.failedPeer /\ j.carried = k.carried
  BY <1>1 DEF Shape, Fields
<1> HIDE DEF j
<1>4. NumberType(j) /\ FieldType(j)  BY <1>1, <1>3 DEF NumberType, FieldType
<1>5. EpochInv(j)  BY <1>1, <1>3 DEF EpochInv, Serving
<1>6. ExchangeInv(j)  BY <1>1, <1>3 DEF ExchangeInv
<1>7. OperationInv(j) /\ OutcomeInv(j)  BY <1>1, <1>2, <1>3 DEF OperationInv, OutcomeInv
<1>8. CallbackInv(j)
  <2>1. ~NoOperation.proved  BY DEF NoOperation
  <2>2. ~(k.publication # NoPublication /\ k.campaign # 0)
    BY <1>1, <1>2, <2>1 DEF CallbackInv
  <2>3. Valid(k, k.continuation) => Valid(j, k.continuation)
    BY <1>3 DEF Valid, NoProofDue
  <2>4. /\ k.publishedIndex \in Nat /\ k.proven \in Nat /\ k.publication.index \in Nat
        /\ k.reconstruction \in Nat \union {NoIndex} /\ NoIndex < cut /\ NoIndex <= cut
    BY <1>1 DEF NumberType, FieldType, NoIndex
  <2>5. k.reconstruction # NoIndex => k.reconstruction <= cut
    BY <1>1, <2>4 DEF CallbackInv
  <2>6. k.publishedIndex <= cut  BY <1>1, <2>4 DEF CallbackInv
  <2>7. k.publication # NoPublication =>
          k.publishedIndex <= k.publication.index /\ k.publication.index <= cut
    BY <1>1, <2>4 DEF CallbackInv
  <2>8. QED  BY <1>1, <1>2, <1>3, <2>2, <2>3, <2>4, <2>5, <2>6, <2>7 DEF CallbackInv
<1>9. Base(j)  BY <1>1, <1>3, <1>4, <1>5, <1>6, <1>7, <1>8, Parts
<1>10. Moves(k, j)  BY <1>1, <1>3 DEF Moves, NumberType
<1>11. Good(k) => Good(j)  BY <1>3, <1>9 DEF Good, PrepareInv, Awaits, Serving
<1>12. QED  BY <1>3, <1>9, <1>10, <1>11 DEF j

\* The local publication of tick.
LEMMA LocalPublicationGood ==
  ASSUME NEW k, Good(k)
  PROVE  Advances(k, LocalPublication(k))
<1> DEFINE c == Task("LOCAL", k.fence)
           j == [k EXCEPT !.proven = k.proven, !.imageIndex = NoIndex]
           due == /\ k.state \in {"FOLLOWER", "UNAVAILABLE"}
                  /\ k.campaign = 0 /\ k.preparing = 0 /\ k.operation = NoOperation
                  /\ k.publication = NoPublication /\ k.reconstruction = NoIndex
                  /\ k.publishedIndex < k.proven
<1>1. Base(k) /\ Shape(k) /\ NumberType(k)  BY Parts DEF Good
<1>2. j = [k EXCEPT !.imageIndex = NoIndex]  BY <1>1 DEF Shape, Fields
<1>3. LocalPublication(k) = IF due THEN WithImage(j, c, TRUE) ELSE k
  BY <1>2 DEF LocalPublication
<1>4. CASE ~due
  BY <1>3, <1>4, AdvancesSelf
<1>5. CASE due
  <2>1. /\ Good(j) /\ Moves(k, j) /\ Base(j) /\ j.preparing = 0 /\ j.state = k.state
        /\ j.publication = k.publication
    <3>1. k.proven \in Nat /\ k.proven >= k.proven  BY <1>1 DEF NumberType
    <3>2. QED  BY <1>1, <1>5, <3>1, ForgetImage
  <2>2. c \in [task : Tasks, ballot : Nat] /\ c.task = "LOCAL"
    BY <1>1 DEF Task, Tasks, NumberType
  <2> HIDE DEF c, j
  <2>3. Ready(j, c)  BY <1>5, <2>1, <2>2 DEF Ready, Valid, Awaits
  <2>4. Advances(j, WithImage(j, c, TRUE))  BY <1>5, <2>1, <2>3, WithImageGood
  <2>5. Advances(k, j)  BY <2>1 DEF Advances
  <2>6. Advances(k, WithImage(j, c, TRUE))  BY <2>4, <2>5, AdvancesTrans
  <2>7. QED  BY <1>3, <1>5, <2>6
<1>6. QED  BY <1>4, <1>5

\* beginCampaign: the new ballot is above everything promised or fenced.
LEMMA BeginCampaignGood ==
  ASSUME NEW k, Good(k), Serving(k), k.campaign = 0, k.preparing = 0,
         k.publication = NoPublication, NEW ok \in BOOLEAN
  PROVE  Advances(k, BeginCampaign(k, ok))
<1> DEFINE b == NextEpoch(Max({k.maxEpoch, k.promised}))
           c == Task("CAMPAIGN", b)
           j == [k EXCEPT !.campaign = b, !.fence = b, !.maxEpoch = b,
                          !.state = "CANDIDATE", !.armed = FALSE]
<1>1. /\ Shape(k) /\ NumberType(k) /\ FieldType(k) /\ ~k.tripped /\ EpochInv(k)
      /\ ExchangeInv(k) /\ OperationInv(k) /\ CallbackInv(k) /\ OutcomeInv(k)
      /\ PrepareInv(k)
  BY Parts DEF Good
<1>2. b \in Nat /\ b > k.maxEpoch /\ b > k.promised /\ b >= 2 /\ Owner(b) = Local
  <2>1. k.maxEpoch \in Nat /\ k.promised \in Nat  BY <1>1 DEF NumberType
  <2> DEFINE m == Max({k.maxEpoch, k.promised})
  <2>2. m \in Nat /\ m >= k.maxEpoch /\ m >= k.promised  BY <2>1, MaxOfTwo
  <2> HIDE DEF m
  <2>3. NextEpoch(m) \in Nat /\ NextEpoch(m) > m /\ NextEpoch(m) >= 2 /\ Owner(NextEpoch(m)) = Local
    BY <2>2, NextEpochAbove
  <2>4. b = NextEpoch(m)  BY DEF m
  <2> HIDE DEF b
  <2>5. QED  BY <2>1, <2>2, <2>3, <2>4
<1>3. BeginCampaign(k, ok) = WithImage(j, c, ok)  BY DEF BeginCampaign
<1>4. c \in [task : Tasks, ballot : Nat] /\ c.task = "CAMPAIGN" /\ c.ballot = b
  BY <1>2 DEF Task, Tasks
<1> HIDE DEF b
<1>5. /\ Shape(j) /\ j.operation = k.operation /\ j.issued = k.issued
      /\ j.state = "CANDIDATE" /\ j.campaign = b /\ j.armed = FALSE
      /\ j.continuation = k.continuation /\ j.exchanges = k.exchanges
      /\ j.fence = b /\ j.maxEpoch = b /\ j.preparing = k.preparing
      /\ j.promised = k.promised /\ j.proven = k.proven
      /\ j.publication = k.publication /\ j.reconstruction = k.reconstruction
      /\ j.imageIndex = k.imageIndex /\ j.publishedIndex = k.publishedIndex
      /\ j.tripped = k.tripped /\ j.outcomes = k.outcomes
      /\ j.quorumPeer = k.quorumPeer /\ j.deferredPeer = k.deferredPeer
      /\ j.failedPeer = k.failedPeer /\ j.carried = k.carried
  BY <1>1 DEF Shape, Fields
<1> HIDE DEF j, c
<1>6. NumberType(j)  BY <1>1, <1>2, <1>5 DEF NumberType
<1>7. FieldType(j)  BY <1>1, <1>5 DEF FieldType, States
<1>8. EpochInv(j)
  <2>1. /\ 1 <= k.promised /\ k.promised <= b /\ b # 0 /\ k.preparing <= b
    BY <1>1, <1>2 DEF EpochInv, NumberType
  <2>2. QED  BY <1>2, <1>5, <2>1 DEF EpochInv, Serving
<1>9. \A p \in Peers : \A h \in Kinds : ~(k.exchanges[p][h] > 0)
  BY Outstands DEF Good
<1>10. ExchangeInv(j)  BY <1>5, <1>9 DEF ExchangeInv, Kinds
<1>11. k.operation = NoOperation  BY <1>1 DEF OperationInv, EpochInv
<1>12. OperationInv(j) /\ OutcomeInv(j)  BY <1>1, <1>5, <1>11 DEF OperationInv, OutcomeInv
<1>13. CallbackInv(j)
  <2>1. ~NoOperation.proved  BY DEF NoOperation
  <2>2. k.continuation.task \notin {"START", "CAMPAIGN", "PUBLISH"}
        \/ k.continuation.task = "NONE"
    BY <1>1, <1>11, <2>1 DEF CallbackInv, Valid, EpochInv, Serving
  <2>3. k.continuation.task # "NONE" => Valid(j, k.continuation)
    BY <1>5, <2>2 DEF Valid
  <2>4. QED  BY <1>1, <1>5, <2>3 DEF CallbackInv
<1>14. Base(j)  BY <1>1, <1>5, <1>6, <1>7, <1>8, <1>10, <1>12, <1>13, Parts
<1>15. Good(j)  BY <1>5, <1>14 DEF Good, PrepareInv, Awaits
<1>16. Moves(k, j)
  BY <1>1, <1>2, <1>5 DEF Moves, NumberType, EpochInv
<1>17. Advances(k, j)  BY <1>15, <1>16 DEF Advances
<1>18. Ready(j, c)
  <2>1. k.promised # b  BY <1>1, <1>2 DEF NumberType
  <2>2. QED  BY <1>4, <1>5, <1>14, <2>1 DEF Ready, Valid, Awaits
<1>19. Advances(j, WithImage(j, c, ok))  BY <1>5, <1>18, WithImageGood
<1>20. QED  BY <1>3, <1>17, <1>19, AdvancesTrans

\* The deferred peer may be forgotten.
LEMMA DeferredGood ==
  ASSUME NEW k, Good(k)
  PROVE  LET j == [k EXCEPT !.deferredPeer = NoPeer]
         IN  Good(j) /\ Moves(k, j) /\ j.state = k.state /\ j.promised = k.promised
             /\ j.campaign = k.campaign /\ j.exchanges = k.exchanges
             /\ j.publication = k.publication
<1> DEFINE j == [k EXCEPT !.deferredPeer = NoPeer]
<1>1. /\ Shape(k) /\ NumberType(k) /\ FieldType(k) /\ ~k.tripped /\ EpochInv(k)
      /\ ExchangeInv(k) /\ OperationInv(k) /\ CallbackInv(k) /\ OutcomeInv(k)
      /\ PrepareInv(k)
  BY Parts DEF Good
<1>2. /\ Shape(j) /\ j.operation = k.operation /\ j.issued = k.issued
      /\ j.state = k.state /\ j.campaign = k.campaign /\ j.armed = k.armed
      /\ j.continuation = k.continuation /\ j.exchanges = k.exchanges
      /\ j.fence = k.fence /\ j.maxEpoch = k.maxEpoch /\ j.preparing = k.preparing
      /\ j.promised = k.promised /\ j.proven = k.proven
      /\ j.publication = k.publication /\ j.reconstruction = k.reconstruction
      /\ j.imageIndex = k.imageIndex /\ j.publishedIndex = k.publishedIndex
      /\ j.tripped = k.tripped /\ j.outcomes = k.outcomes
      /\ j.quorumPeer = k.quorumPeer /\ j.deferredPeer = NoPeer
      /\ j.failedPeer = k.failedPeer /\ j.carried = k.carried
  BY <1>1 DEF Shape, Fields
<1> HIDE DEF j
<1>3. NumberType(j) /\ FieldType(j)  BY <1>1, <1>2 DEF NumberType, FieldType
<1>4. EpochInv(j) /\ ExchangeInv(j)  BY <1>1, <1>2 DEF EpochInv, ExchangeInv, Serving
<1>5. OperationInv(j) /\ OutcomeInv(j)  BY <1>1, <1>2 DEF OperationInv, OutcomeInv
<1>6. CallbackInv(j)  BY <1>1, <1>2 DEF CallbackInv, Valid, AtRest, NoProofDue
<1>7. Base(j)  BY <1>1, <1>2, <1>3, <1>4, <1>5, <1>6, Parts
<1>8. Good(j)  BY <1>1, <1>2, <1>7 DEF Good, PrepareInv, Awaits, Serving
<1>9. Moves(k, j)  BY <1>1, <1>2 DEF Moves, NumberType
<1>10. QED  BY <1>2, <1>8, <1>9 DEF j

\* exchangeFailed, in each of its four cases.
LEMMA ExchangeFailedGood ==
  ASSUME NEW k, Good(k), NEW p \in Peers, NEW kind \in Kinds, k.exchanges[p][kind] > 0,
         NEW late \in BOOLEAN
  PROVE  Advances(k, ExchangeFailed(k, p, kind, late))
<1> DEFINE over == Over(k, p, kind)
           j == [over EXCEPT !.deferredPeer = NoPeer]
           last == /\ kind = "PREPARE" /\ over.deferredPeer # NoPeer
                   /\ over.state = "CANDIDATE" /\ ~late
                   /\ \A q \in Peers : over.exchanges[q]["PREPARE"] = 0
<1>1. Base(k) /\ ExchangeInv(k)  BY Parts DEF Good
<1>2. /\ Good(over) /\ Moves(k, over) /\ Elsewhere(k, over)
  BY <1>1, OverGood
<1>3. ExchangeFailed(k, p, kind, late) \in
        {over, Abandon(over, TRUE)} \union
        (IF last THEN {Send(j, {over.deferredPeer}, "PREPARE")} ELSE {})
  <2> HIDE DEF over
  <2>1. CASE kind = "HEARTBEAT"  BY <2>1 DEF ExchangeFailed, over
  <2>2. CASE kind = "PREPARE" /\ \E q \in Peers : over.exchanges[q]["PREPARE"] > 0
    <3>1. ~last  BY <2>2
    <3>2. kind # "HEARTBEAT"  BY <2>2
    <3>3. ExchangeFailed(k, p, kind, late) = over  BY <2>2, <3>1, <3>2 DEF ExchangeFailed, over
    <3>4. QED  BY <3>3
  <2>3. CASE last  BY <2>3 DEF ExchangeFailed, over
  <2>4. CASE ~(kind = "HEARTBEAT")
             /\ ~(kind = "PREPARE" /\ \E q \in Peers : over.exchanges[q]["PREPARE"] > 0)
             /\ ~last
    <3>1. ExchangeFailed(k, p, kind, late) = Abandon(over, TRUE)
      BY <2>4 DEF ExchangeFailed, over
    <3>2. QED  BY <3>1
  <2>5. QED  BY <2>1, <2>2, <2>3, <2>4
<1> HIDE DEF over
<1>4. Advances(k, over)  BY <1>2 DEF Advances, Elsewhere
<1>5. Advances(k, Abandon(over, TRUE))
  <2>1. over.campaign # 0  BY <1>1, <1>2, Outstands DEF Elsewhere
  <2>2. Advances(over, Abandon(over, TRUE))  BY <1>2, <2>1, AbandonCampaign
  <2>3. QED  BY <1>4, <2>2, AdvancesTrans
<1>6. ASSUME last
      PROVE  Advances(k, Send(j, {over.deferredPeer}, "PREPARE"))
  <2>1. over.promised = over.campaign  BY <1>1, <1>2, <1>6 DEF ExchangeInv, Elsewhere
  <2>2. over.deferredPeer \in Peers
    <3>1. FieldType(over)  BY <1>2, Parts DEF Good
    <3>2. QED  BY <1>6, <3>1 DEF FieldType
  <2>3. /\ Good(j) /\ Moves(over, j) /\ j.state = over.state /\ j.promised = over.promised
        /\ j.campaign = over.campaign /\ j.exchanges = over.exchanges
        /\ j.publication = over.publication
    BY <1>2, DeferredGood
  <2> HIDE DEF j
  <2> DEFINE to == {over.deferredPeer}
             m == Send(j, to, "PREPARE")
  <2>4. Fit(j, to, "PREPARE") /\ "PREPARE" \in Kinds
    BY <1>6, <2>1, <2>2, <2>3 DEF Fit, Kinds
  <2>5. Base(j)  BY <2>3 DEF Good
  <2> HIDE DEF to
  <2>6. Good(m) /\ Moves(j, m) /\ Sent(j, to, "PREPARE", m)  BY <2>3, <2>4, <2>5, SendGood
  <2> HIDE DEF m
  <2>7. m.publication = j.publication  BY <2>6 DEF Sent, Elsewhere
  <2>8. Advances(over, j) /\ Advances(j, m)  BY <2>3, <2>6, <2>7 DEF Advances
  <2>9. Advances(k, m)  BY <1>2, <1>4, <2>3, <2>8, AdvancesTrans
  <2>10. QED  BY <2>9 DEF m, to
<1> HIDE DEF j, last
<1>7. QED  BY <1>3, <1>4, <1>5, <1>6

-----------------------------------------------------------------------------

\* A method that runs through a value where only Base holds.
LEMMA AdvancesVia ==
  ASSUME NEW k, NEW j, NEW m, Good(k), Base(j), Moves(k, j), j.publication = k.publication,
         Advances(j, m)
  PROVE  Advances(k, m)
<1>1. NumberType(k) /\ NumberType(j) /\ NumberType(m)  BY Parts DEF Advances, Good
<1>2. Moves(k, m)  BY <1>1, MovesTrans DEF Advances
<1>3. QED  BY <1>2 DEF Advances

\* The quarantine of the store may be set after a method.
LEMMA QuarantinedGood ==
  ASSUME NEW k, NEW j, Good(k), Advances(k, j)
  PROVE  /\ Advances(k, [j EXCEPT !.quarantined = TRUE])
         /\ Advances(k, [j EXCEPT !.rebuildFailed = TRUE])
<1>1. Good(j) /\ Base(j) /\ Moves(k, j)  BY DEF Advances, Good
<1> DEFINE a == [j EXCEPT !["quarantined"] = TRUE]
           b == [j EXCEPT !["rebuildFailed"] = TRUE]
<1>2. Good(a) /\ Moves(j, a) /\ \A g \in Fields \ {"quarantined"} : a[g] = j[g]
  BY <1>1, MarkGood
<1>3. Good(b) /\ Moves(j, b) /\ \A g \in Fields \ {"rebuildFailed"} : b[g] = j[g]
  BY <1>1, MarkGood
<1> HIDE DEF a, b
<1>4. a.publication = j.publication /\ b.publication = j.publication
  BY <1>2, <1>3 DEF Fields
<1>5. Advances(j, a) /\ Advances(j, b)  BY <1>2, <1>3, <1>4 DEF Advances
<1>6. NumberType(k) /\ Good(k)  BY Parts DEF Good
<1>7. QED  BY <1>5, <1>6, AdvancesTrans DEF a, b

\* restored.
LEMMA StepRestored ==
  ASSUME Good(kernel), Restored
  PROVE  Advances(kernel, kernel')
<1> DEFINE k == kernel
           j == [kernel EXCEPT !.imageIndex = kernel.proven, !.publishedIndex = kernel.proven]
<1>1. /\ Shape(k) /\ NumberType(k) /\ FieldType(k) /\ ~k.tripped /\ EpochInv(k)
      /\ ExchangeInv(k) /\ OperationInv(k) /\ CallbackInv(k) /\ OutcomeInv(k)
      /\ PrepareInv(k)
  BY Parts DEF Good
<1>2. kernel' = j /\ k.state = "STOPPED"  BY DEF Restored
<1>3. /\ Shape(j) /\ j.operation = k.operation /\ j.issued = k.issued
      /\ j.state = k.state /\ j.campaign = k.campaign /\ j.armed = k.armed
      /\ j.continuation = k.continuation /\ j.exchanges = k.exchanges
      /\ j.fence = k.fence /\ j.maxEpoch = k.maxEpoch /\ j.preparing = k.preparing
      /\ j.promised = k.promised /\ j.proven = k.proven
      /\ j.publication = k.publication /\ j.reconstruction = k.reconstruction
      /\ j.imageIndex = k.proven /\ j.publishedIndex = k.proven
      /\ j.tripped = k.tripped /\ j.outcomes = k.outcomes
      /\ j.quorumPeer = k.quorumPeer /\ j.deferredPeer = k.deferredPeer
      /\ j.failedPeer = k.failedPeer /\ j.carried = k.carried
  BY <1>1 DEF Shape, Fields
<1> HIDE DEF j, k
<1>4. NumberType(j) /\ FieldType(j)  BY <1>1, <1>3 DEF NumberType, FieldType
<1>5. EpochInv(j) /\ ExchangeInv(j)  BY <1>1, <1>3 DEF EpochInv, ExchangeInv, Serving
<1>6. OperationInv(j) /\ OutcomeInv(j)  BY <1>1, <1>3 DEF OperationInv, OutcomeInv
<1>7. k.reconstruction = NoIndex /\ k.publication = NoPublication
  BY <1>1, <1>2 DEF CallbackInv
<1>8. CallbackInv(j)
  BY <1>1, <1>2, <1>3, <1>7 DEF CallbackInv, NumberType
<1>9. Base(j)  BY <1>1, <1>3, <1>4, <1>5, <1>6, <1>8, Parts
<1>10. Good(j)  BY <1>1, <1>3, <1>9 DEF Good, PrepareInv, Awaits, Serving
<1>11. Moves(k, j)  BY <1>1, <1>3 DEF Moves, NumberType, CallbackInv
<1>12. Advances(k, j)  BY <1>3, <1>10, <1>11 DEF Advances
<1>13. QED  BY <1>2, <1>12 DEF k

\* start.
LEMMA StepStart ==
  ASSUME Good(kernel), NEW ok \in BOOLEAN, Start(ok)
  PROVE  Advances(kernel, kernel')
<1> DEFINE k == kernel
           j == [kernel EXCEPT !.state = "STARTING"]
           c == Task("START", 0)
           q == Quiesce(kernel)
<1>1. /\ Shape(k) /\ NumberType(k) /\ FieldType(k) /\ ~k.tripped /\ EpochInv(k)
      /\ ExchangeInv(k) /\ OperationInv(k) /\ CallbackInv(k) /\ OutcomeInv(k)
      /\ PrepareInv(k)
  BY Parts DEF Good
<1>2. /\ k.state = "STOPPED"
      /\ kernel' = IF k.imageIndex = k.proven /\ ~ok THEN [q EXCEPT !.quarantined = TRUE]
                   ELSE WithImage(j, c, ok)
  BY DEF Start
<1>3. Advances(kernel, q)  BY QuiesceGood DEF Advances
<1>4. Advances(kernel, [q EXCEPT !.quarantined = TRUE])
  <2> HIDE DEF q
  <2>1. QED  BY <1>3, QuarantinedGood
<1>5. /\ Shape(j) /\ j.operation = k.operation /\ j.issued = k.issued
      /\ j.state = "STARTING" /\ j.campaign = k.campaign /\ j.armed = k.armed
      /\ j.continuation = k.continuation /\ j.exchanges = k.exchanges
      /\ j.fence = k.fence /\ j.maxEpoch = k.maxEpoch /\ j.preparing = k.preparing
      /\ j.promised = k.promised /\ j.proven = k.proven
      /\ j.publication = k.publication /\ j.reconstruction = k.reconstruction
      /\ j.imageIndex = k.imageIndex /\ j.publishedIndex = k.publishedIndex
      /\ j.tripped = k.tripped /\ j.outcomes = k.outcomes
      /\ j.quorumPeer = k.quorumPeer /\ j.deferredPeer = k.deferredPeer
      /\ j.failedPeer = k.failedPeer /\ j.carried = k.carried
  BY <1>1 DEF Shape, Fields
<1>6. c \in [task : Tasks, ballot : Nat] /\ c.task = "START"  BY DEF Task, Tasks
<1> HIDE DEF j, k, c, q
<1>7. NumberType(j) /\ FieldType(j)  BY <1>1, <1>5 DEF NumberType, FieldType, States
<1>8. k.campaign = 0 /\ k.preparing = 0 /\ k.operation = NoOperation
  BY <1>1, <1>2 DEF EpochInv, OperationInv
<1>9. EpochInv(j)  BY <1>1, <1>2, <1>5, <1>8 DEF EpochInv, Serving
<1>10. ExchangeInv(j)  BY <1>1, <1>2, <1>5 DEF ExchangeInv
<1>11. OperationInv(j) /\ OutcomeInv(j)  BY <1>1, <1>5, <1>8 DEF OperationInv, OutcomeInv
<1>12. k.publication = NoPublication /\ k.continuation.task = "NONE"
  BY <1>1, <1>2 DEF CallbackInv
<1>13. CallbackInv(j)  BY <1>1, <1>5, <1>12 DEF CallbackInv
<1>14. Base(j)  BY <1>1, <1>5, <1>7, <1>9, <1>10, <1>11, <1>13, Parts
<1>15. Moves(k, j)  BY <1>1, <1>5 DEF Moves, NumberType
<1>16. Ready(j, c)  BY <1>5, <1>6, <1>8, <1>12, <1>14 DEF Ready, Valid, Awaits
<1>17. Advances(j, WithImage(j, c, ok))  BY <1>5, <1>16, WithImageGood
<1>18. Advances(k, WithImage(j, c, ok))
  <2>1. Good(k)  BY DEF k
  <2>2. QED  BY <2>1, <1>5, <1>14, <1>15, <1>17, AdvancesVia
<1>19. QED  BY <1>2, <1>4, <1>18 DEF k

\* close.
LEMMA StepClose ==
  ASSUME Good(kernel), Close
  PROVE  Advances(kernel, kernel')
BY QuiesceGood DEF Close, Advances

\* tick: deadline, heartbeats, election and local publication in this order.
LEMMA StepTick ==
  ASSUME Good(kernel), NEW due \in Due, NEW ok \in BOOLEAN, Tick(due, ok)
  PROVE  Advances(kernel, kernel')
<1> DEFINE k1 == IF "DEADLINE" \in due /\ Timed(kernel) THEN Abandon(kernel, TRUE) ELSE kernel
           k2 == IF "HEARTBEAT" \in due THEN Heartbeats(k1) ELSE k1
           k3 == IF "ELECTION" \in due /\ MayCampaign(kernel) THEN BeginCampaign(k2, ok) ELSE k2
<1>1. Serving(kernel) /\ kernel' = LocalPublication(k3)  BY DEF Tick
<1>2. Advances(kernel, k1)
  <2>1. Advances(kernel, kernel)  BY AdvancesSelf
  <2>2. ASSUME Timed(kernel) PROVE Advances(kernel, Abandon(kernel, TRUE))
    BY <2>2, AbandonCampaign DEF Timed
  <2>3. QED  BY <2>1, <2>2
<1>3. Timed(kernel) => kernel.campaign # 0
  <2>1. EpochInv(kernel) /\ OperationInv(kernel)  BY Parts DEF Good
  <2>2. QED  BY <2>1 DEF Timed, EpochInv, OperationInv
<1>4. kernel.campaign = 0 => k1 = kernel /\ k2 = kernel
  BY <1>3 DEF Heartbeats
<1> HIDE DEF k1
<1>5. Advances(k1, k2)
  <2>1. Good(k1)  BY <1>2 DEF Advances
  <2>2. QED  BY <2>1, HeartbeatsGood, AdvancesSelf
<1>6. Advances(kernel, k2)  BY <1>2, <1>5, AdvancesTrans
<1> HIDE DEF k2
<1>7. Advances(kernel, k3)
  <2>1. ASSUME MayCampaign(kernel) PROVE Advances(kernel, BeginCampaign(k2, ok))
    <3>1. kernel.campaign = 0 /\ kernel.preparing = 0 /\ kernel.publication = NoPublication
      BY <2>1 DEF MayCampaign
    <3>2. k2 = kernel  BY <1>4, <3>1
    <3>3. QED  BY <1>1, <3>1, <3>2, BeginCampaignGood
  <2>2. QED  BY <2>1, <1>6
<1> HIDE DEF k3
<1>8. Advances(k3, LocalPublication(k3))
  <2>1. Good(k3)  BY <1>7 DEF Advances
  <2>2. QED  BY <2>1, LocalPublicationGood
<1>9. Advances(kernel, LocalPublication(k3))  BY <1>7, <1>8, AdvancesTrans
<1>10. QED  BY <1>1, <1>9

\* tick, with an exchange that is past its deadline.
LEMMA StepTickExpired ==
  ASSUME Good(kernel), NEW p \in Peers, NEW kind \in Kinds, NEW late \in BOOLEAN,
         NEW beat \in BOOLEAN, TickExpired(p, kind, late, beat)
  PROVE  Advances(kernel, kernel')
<1> DEFINE k1 == ExchangeFailed(kernel, p, kind, late)
           k2 == IF beat THEN Heartbeats(k1) ELSE k1
<1>1. kernel.exchanges[p][kind] > 0 /\ kernel' = LocalPublication(k2)  BY DEF TickExpired
<1>2. Advances(kernel, k1)  BY <1>1, ExchangeFailedGood
<1> HIDE DEF k1
<1>3. Advances(k1, k2)
  <2>1. Good(k1)  BY <1>2 DEF Advances
  <2>2. QED  BY <2>1, HeartbeatsGood, AdvancesSelf
<1> HIDE DEF k2
<1>4. Advances(kernel, k2)  BY <1>2, <1>3, AdvancesTrans
<1>5. Advances(k2, LocalPublication(k2))
  <2>1. Good(k2)  BY <1>4 DEF Advances
  <2>2. QED  BY <2>1, LocalPublicationGood
<1>6. Advances(kernel, LocalPublication(k2))  BY <1>4, <1>5, AdvancesTrans
<1>7. QED  BY <1>1, <1>6

\* A PREPARE of the fence is taken in.
LEMMA TakePrepare ==
  ASSUME NEW k, Base(k), Serving(k), k.campaign = 0, NEW b, b = k.fence,
         NEW j, j = [k EXCEPT !.state = "FOLLOWER", !.preparing = b]
  PROVE  /\ Base(j) /\ Moves(k, j) /\ j.publication = k.publication
         /\ j.state = "FOLLOWER" /\ Ready(j, Task("PREPARE", b))
<1> DEFINE c == Task("PREPARE", b)
<1>1. /\ Shape(k) /\ NumberType(k) /\ FieldType(k) /\ ~k.tripped /\ EpochInv(k)
      /\ ExchangeInv(k) /\ OperationInv(k) /\ CallbackInv(k) /\ OutcomeInv(k)
  BY Parts
<1>2. /\ Shape(j) /\ j.operation = k.operation /\ j.issued = k.issued
      /\ j.state = "FOLLOWER" /\ j.campaign = k.campaign /\ j.armed = k.armed
      /\ j.continuation = k.continuation /\ j.exchanges = k.exchanges
      /\ j.fence = k.fence /\ j.maxEpoch = k.maxEpoch /\ j.preparing = b
      /\ j.promised = k.promised /\ j.proven = k.proven
      /\ j.publication = k.publication /\ j.reconstruction = k.reconstruction
      /\ j.imageIndex = k.imageIndex /\ j.publishedIndex = k.publishedIndex
      /\ j.tripped = k.tripped /\ j.outcomes = k.outcomes
      /\ j.quorumPeer = k.quorumPeer /\ j.deferredPeer = k.deferredPeer
      /\ j.failedPeer = k.failedPeer /\ j.carried = k.carried
  BY <1>1 DEF Shape, Fields
<1>3. b \in Nat  BY <1>1 DEF NumberType
<1>4. c \in [task : Tasks, ballot : Nat] /\ c.task = "PREPARE"  BY <1>3 DEF Task, Tasks
<1>5. NumberType(j) /\ FieldType(j)
  BY <1>1, <1>2, <1>3 DEF NumberType, FieldType, States
<1>6. k.operation = NoOperation /\ k.state \notin {"CANDIDATE", "RECOVERING", "LEADER_READY"}
  BY <1>1 DEF EpochInv, OperationInv
<1>7. EpochInv(j)  BY <1>1, <1>2, <1>3, <1>6 DEF EpochInv, Serving, NumberType
<1>8. ExchangeInv(j)  BY <1>1, <1>2, <1>6 DEF ExchangeInv
<1>9. OperationInv(j) /\ OutcomeInv(j)  BY <1>1, <1>2, <1>6 DEF OperationInv, OutcomeInv
<1>10. CallbackInv(j)
  <2>1. k.continuation.task # "NONE" => Valid(j, k.continuation)
    BY <1>1, <1>2, <1>6 DEF CallbackInv, Valid, Serving, NoProofDue
  <2>2. QED  BY <1>1, <1>2, <1>6, <2>1 DEF CallbackInv
<1>11. Base(j)  BY <1>1, <1>2, <1>5, <1>7, <1>8, <1>9, <1>10, Parts
<1>12. Moves(k, j)  BY <1>1, <1>2 DEF Moves, NumberType
<1>13. Ready(j, c)
  <2>1. Valid(j, c)  BY <1>2, <1>4 DEF Valid
  <2>2. Awaits(j, c)  BY <1>2 DEF Awaits
  <2>3. QED  BY <1>4, <1>11, <2>1, <2>2 DEF Ready
<1>14. QED  BY <1>2, <1>11, <1>12, <1>13

\* A PREPARE above the fence abandons what the voter was doing.
LEMMA PrepareRaises ==
  ASSUME NEW k, Good(k), Serving(k), NEW b \in Nat, ~(b <= k.fence)
  PROVE  LET j == [Abandon(k, FALSE) EXCEPT !.fence = b, !.maxEpoch = Max({@, b}), !.preparing = 0]
         IN  /\ Good(j) /\ Moves(k, j) /\ j.publication = k.publication
             /\ Serving(j) /\ j.fence = b /\ j.campaign = 0
<1> DEFINE a == Abandon(k, FALSE)
           j == [a EXCEPT !.fence = b, !.maxEpoch = Max({@, b}), !.preparing = 0]
<1>1. Base(k) /\ Shape(k) /\ NumberType(k)  BY Parts DEF Good
<1>2. Base(a) /\ Moves(k, a)  BY <1>1, AbandonGood
<1>3. /\ a.state = "UNAVAILABLE" /\ a.operation = NoOperation /\ a.continuation = NoTask
      /\ a.publication = k.publication /\ a.fence = k.fence /\ Shape(a)
  BY <1>1, AbandonClears
<1> HIDE DEF a
<1>4. b > a.fence  BY <1>1, <1>3 DEF NumberType
<1>5. j.fence = b /\ j.state = "UNAVAILABLE" /\ j.publication = a.publication
  BY <1>3 DEF Shape, Fields
<1>6. Good(j) /\ Moves(a, j)
  <2>1. PICK z \in {a.preparing, 0} : z = 0  OBVIOUS
  <2> DEFINE h == [a EXCEPT !.fence = b, !.maxEpoch = Max({@, b}), !.preparing = z]
  <2>2. h = j  BY <2>1
  <2>3. Good(h) /\ Moves(a, h)  BY <1>2, <1>3, <1>4, RaiseGood
  <2> HIDE DEF h, j
  <2>4. QED  BY <2>2, <2>3
<1> HIDE DEF j
<1>7. NumberType(a) /\ NumberType(j) /\ EpochInv(j)  BY <1>2, <1>6, Parts DEF Good
<1>8. Moves(k, j)  BY <1>1, <1>2, <1>6, <1>7, MovesTrans
<1>9. j.campaign = 0 /\ Serving(j)  BY <1>5, <1>7 DEF EpochInv, Serving
<1>10. QED  BY <1>3, <1>5, <1>6, <1>8, <1>9 DEF a, j

\* prepare.
LEMMA StepHandlePrepare ==
  ASSUME Good(kernel), NEW b \in Nat, NEW ok \in BOOLEAN, HandlePrepare(b, ok)
  PROVE  Advances(kernel, kernel')
<1> DEFINE lifted == [Abandon(kernel, FALSE) EXCEPT
                        !.fence = b, !.maxEpoch = Max({@, b}), !.preparing = 0]
           raised == IF b <= kernel.fence THEN kernel ELSE lifted
           j == [raised EXCEPT !.state = "FOLLOWER", !.preparing = b]
           c == Task("PREPARE", b)
<1>1. /\ Serving(kernel) /\ Owner(b) # Local
      /\ kernel' = IF b < kernel.fence \/ raised.preparing # 0 THEN raised
                   ELSE WithImage(j, c, ok)
  BY DEF HandlePrepare
<1>2. Base(kernel) /\ Shape(kernel) /\ NumberType(kernel) /\ EpochInv(kernel)
  BY Parts DEF Good
<1>3. /\ Good(raised) /\ Moves(kernel, raised) /\ raised.publication = kernel.publication
      /\ Serving(raised) /\ (b >= kernel.fence => raised.fence = b /\ raised.campaign = 0)
  <2>1. CASE b <= kernel.fence
    <3>1. Moves(kernel, kernel)  BY <1>2, MovesSelf
    <3>2. b >= kernel.fence => kernel.fence = b  BY <1>2, <2>1 DEF NumberType
    <3>3. b = kernel.fence => kernel.campaign = 0  BY <1>1, <1>2 DEF EpochInv
    <3>4. QED  BY <1>1, <2>1, <3>1, <3>2, <3>3
  <2>2. CASE ~(b <= kernel.fence)
    <3>1. /\ Good(lifted) /\ Moves(kernel, lifted) /\ lifted.publication = kernel.publication
          /\ Serving(lifted) /\ lifted.fence = b /\ lifted.campaign = 0
      BY <1>1, <2>2, PrepareRaises
    <3> HIDE DEF lifted
    <3>2. raised = lifted  BY <2>2
    <3>3. QED  BY <3>1, <3>2
  <2>3. QED  BY <2>1, <2>2
<1> HIDE DEF raised
<1>4. Advances(kernel, raised)  BY <1>3 DEF Advances
<1>5. ASSUME ~(b < kernel.fence) PROVE Advances(kernel, WithImage(j, c, ok))
  <2>1. raised.fence = b /\ raised.campaign = 0  BY <1>2, <1>3, <1>5 DEF NumberType
  <2>2. Base(raised)  BY <1>3 DEF Good
  <2>3. /\ Base(j) /\ Moves(raised, j) /\ j.publication = raised.publication
        /\ j.state = "FOLLOWER" /\ Ready(j, c)
    <3>1. j = [raised EXCEPT !.state = "FOLLOWER", !.preparing = b]  OBVIOUS
    <3>2. Serving(raised)  BY <1>3
    <3> HIDE DEF j, lifted
    <3>3. QED  BY <2>1, <2>2, <3>1, <3>2, TakePrepare, Zenon
  <2> HIDE DEF j, c
  <2>4. Advances(j, WithImage(j, c, ok))  BY <2>3, WithImageGood
  <2>5. Advances(raised, WithImage(j, c, ok))  BY <1>3, <2>3, <2>4, AdvancesVia
  <2>6. QED  BY <1>4, <2>5, AdvancesTrans
<1>6. QED  BY <1>1, <1>4, <1>5

\* A voter that follows has no campaign and no operation.
LEMMA AtFollower ==
  ASSUME Good(kernel), Follows(kernel)
  PROVE  /\ kernel.campaign = 0 /\ kernel.operation = NoOperation
         /\ kernel.state \in {"FOLLOWER", "UNAVAILABLE"}
         /\ Base(kernel) /\ Shape(kernel) /\ NumberType(kernel)
<1>1. EpochInv(kernel) /\ OperationInv(kernel) /\ FieldType(kernel) /\ Base(kernel)
      /\ Shape(kernel) /\ NumberType(kernel)
  BY Parts DEF Good
<1>2. kernel.campaign = 0  BY <1>1 DEF EpochInv, Follows
<1>3. kernel.operation = NoOperation  BY <1>1, <1>2 DEF EpochInv, OperationInv
<1>4. kernel.state \in {"FOLLOWER", "UNAVAILABLE"}
  BY <1>1, <1>2 DEF EpochInv, FieldType, States, Follows, Serving
<1>5. QED  BY <1>1, <1>2, <1>3, <1>4

\* adopt, with a longer prefix or without.
LEMMA AdoptGood ==
  ASSUME NEW k, Base(k), k.campaign = 0 \/ k.state = "CANDIDATE", NEW prefix \in Nat
  PROVE  /\ Base(Adopt(k, prefix)) /\ Moves(k, Adopt(k, prefix))
         /\ (Good(k) => Good(Adopt(k, prefix)))
         /\ Adopt(k, prefix).publication = k.publication
         /\ Adopt(k, prefix).state = k.state /\ Adopt(k, prefix).promised = k.promised
         /\ Adopt(k, prefix).campaign = k.campaign
         /\ Adopt(k, prefix).exchanges = k.exchanges
         /\ Adopt(k, prefix).continuation = k.continuation
         /\ Adopt(k, prefix).quorumPeer = k.quorumPeer
<1> DEFINE j == [k EXCEPT !.proven = prefix, !.imageIndex = NoIndex]
<1>1. NumberType(k)  BY Parts
<1>2. CASE prefix > k.proven
  <2>1. Adopt(k, prefix) = j  BY <1>2 DEF Adopt
  <2>2. prefix >= k.proven  BY <1>1, <1>2 DEF NumberType
  <2>3. /\ Base(j) /\ Moves(k, j) /\ (Good(k) => Good(j))
        /\ j.state = k.state /\ j.publication = k.publication
        /\ j.exchanges = k.exchanges /\ j.promised = k.promised
        /\ j.campaign = k.campaign /\ j.continuation = k.continuation
        /\ j.quorumPeer = k.quorumPeer
    BY <2>2, ForgetImage
  <2> HIDE DEF j
  <2>4. QED  BY <2>1, <2>3
<1>3. CASE ~(prefix > k.proven)
  <2>1. Adopt(k, prefix) = k  BY <1>3 DEF Adopt
  <2>2. QED  BY <1>1, <2>1, MovesSelf
<1>4. QED  BY <1>2, <1>3

\* A follower proves one more entry.
LEMMA ProofGood ==
  ASSUME NEW k, Good(k), k.campaign = 0, k.state \in {"FOLLOWER", "UNAVAILABLE"}
  PROVE  Advances(k, [k EXCEPT !.proven = @ + 1])
<1> DEFINE j == [k EXCEPT !.proven = @ + 1]
<1>1. /\ Shape(k) /\ NumberType(k) /\ FieldType(k) /\ ~k.tripped /\ EpochInv(k)
      /\ ExchangeInv(k) /\ OperationInv(k) /\ CallbackInv(k) /\ OutcomeInv(k) /\ PrepareInv(k)
  BY Parts DEF Good
<1>2. k.operation = NoOperation  BY <1>1 DEF OperationInv
<1>3. /\ Shape(j) /\ j.operation = k.operation /\ j.issued = k.issued
      /\ j.state = k.state /\ j.campaign = k.campaign /\ j.armed = k.armed
      /\ j.continuation = k.continuation /\ j.exchanges = k.exchanges
      /\ j.fence = k.fence /\ j.maxEpoch = k.maxEpoch /\ j.preparing = k.preparing
      /\ j.promised = k.promised /\ j.proven = k.proven + 1
      /\ j.publication = k.publication /\ j.reconstruction = k.reconstruction
      /\ j.imageIndex = k.imageIndex /\ j.publishedIndex = k.publishedIndex
      /\ j.tripped = k.tripped /\ j.outcomes = k.outcomes
      /\ j.quorumPeer = k.quorumPeer /\ j.deferredPeer = k.deferredPeer
      /\ j.failedPeer = k.failedPeer /\ j.carried = k.carried
  BY <1>1 DEF Shape, Fields
<1> HIDE DEF j
<1>4. NumberType(j) /\ FieldType(j)
  <2>1. NumberType(j)
    <3>1. k.proven + 1 \in Nat  BY <1>1 DEF NumberType
    <3>2. QED  BY <1>1, <1>3, <3>1 DEF NumberType
  <2>2. FieldType(j)  BY <1>1, <1>3 DEF FieldType
  <2>3. QED  BY <2>1, <2>2
<1>5. EpochInv(j)  BY <1>1, <1>3 DEF EpochInv, Serving
<1>6. ExchangeInv(j)  BY <1>1, <1>3 DEF ExchangeInv
<1>7. OperationInv(j) /\ OutcomeInv(j)  BY <1>1, <1>2, <1>3 DEF OperationInv, OutcomeInv
<1>8. CallbackInv(j)
  <2>1. Valid(k, k.continuation) => Valid(j, k.continuation)
    BY <1>3 DEF Valid, NoProofDue
  <2>2. /\ k.publishedIndex \in Nat /\ k.proven \in Nat /\ k.publication.index \in Nat
        /\ k.reconstruction \in Nat \union {NoIndex} /\ k.imageIndex \in Nat \union {NoIndex}
    BY <1>1 DEF NumberType, FieldType
  <2>3. k.imageIndex \in Int /\ k.reconstruction \in Int  BY <2>2 DEF NoIndex
  <2>4. /\ k.imageIndex <= k.proven + 1 /\ k.publishedIndex <= k.proven + 1
        /\ k.imageIndex < k.proven + 1
    BY <1>1, <2>2, <2>3 DEF CallbackInv
  <2>5. k.reconstruction # NoIndex => k.reconstruction <= k.proven + 1
    BY <1>1, <2>2, <2>3 DEF CallbackInv
  <2>6. k.publication # NoPublication => k.publication.index <= k.proven + 1
    BY <1>1, <2>2 DEF CallbackInv
  <2>7. QED  BY <1>1, <1>3, <2>1, <2>4, <2>5, <2>6 DEF CallbackInv
<1>9. Base(j)  BY <1>1, <1>3, <1>4, <1>5, <1>6, <1>7, <1>8, Parts
<1>10. Good(j)  BY <1>1, <1>3, <1>9 DEF Good, PrepareInv, Awaits, Serving
<1>11. Moves(k, j)  BY <1>1, <1>3 DEF Moves, NumberType
<1>12. QED  BY <1>3, <1>10, <1>11 DEF Advances, j

\* install.
LEMMA StepHandleInstall ==
  ASSUME Good(kernel), NEW prefix \in Nat, NEW free \in BOOLEAN, NEW ok \in BOOLEAN,
         HandleInstall(prefix, free, ok)
  PROVE  Advances(kernel, kernel')
<1>1. Follows(kernel) /\ kernel' \in {StoreFails(kernel), Adopt(kernel, prefix), kernel}
  BY DEF HandleInstall
<1>2. kernel.campaign = 0 /\ Base(kernel)  BY <1>1, AtFollower
<1>3. Advances(kernel, Adopt(kernel, prefix))  BY <1>2, AdoptGood DEF Advances
<1>4. QED  BY <1>1, <1>2, <1>3, StoppedGood, AdvancesSelf

\* accept.
LEMMA StepHandleAccept ==
  ASSUME Good(kernel), NEW ok \in BOOLEAN, HandleAccept(ok)
  PROVE  Advances(kernel, kernel')
<1>1. kernel' \in {StoreFails(kernel), kernel}  BY DEF HandleAccept
<1>2. Base(kernel)  BY DEF Good
<1>3. QED  BY <1>1, <1>2, StoppedGood, AdvancesSelf

\* proof.
LEMMA StepHandleProof ==
  ASSUME Good(kernel), NEW ok \in BOOLEAN, HandleProof(ok)
  PROVE  Advances(kernel, kernel')
<1> DEFINE j == [kernel EXCEPT !.proven = @ + 1]
<1>1. Follows(kernel) /\ kernel' = IF ok THEN j ELSE StoreFails(kernel)
  BY DEF HandleProof
<1>2. kernel.campaign = 0 /\ kernel.state \in {"FOLLOWER", "UNAVAILABLE"} /\ Base(kernel)
  BY <1>1, AtFollower
<1>3. Advances(kernel, j)  BY <1>2, ProofGood
<1> HIDE DEF j
<1>4. QED  BY <1>1, <1>2, <1>3, StoppedGood

\* rejoin.
LEMMA StepRejoin ==
  ASSUME Good(kernel), NEW cut \in Nat, Rejoin(cut)
  PROVE  Advances(kernel, kernel')
<1> DEFINE j == [kernel EXCEPT !.proven = cut, !.imageIndex = NoIndex]
<1>1. /\ Follows(kernel) /\ cut >= kernel.proven
      /\ kernel' = [kernel EXCEPT !.proven = cut, !.imageIndex = NoIndex, !.armed = TRUE]
  BY DEF Rejoin
<1>2. kernel.campaign = 0 /\ Base(kernel) /\ Shape(kernel)  BY <1>1, AtFollower
<1>3. kernel.armed = TRUE
  <2>1. EpochInv(kernel) /\ FieldType(kernel)  BY Parts DEF Good
  <2>2. QED  BY <1>1, <1>2, <2>1 DEF EpochInv, FieldType, Follows
<1>4. kernel' = j  BY <1>1, <1>2, <1>3 DEF Shape, Fields
<1>5. Good(j) /\ Moves(kernel, j) /\ j.publication = kernel.publication
  BY <1>1, <1>2, ForgetImage
<1> HIDE DEF j
<1>6. QED  BY <1>4, <1>5 DEF Advances

\* An answer that refuses.
LEMMA StepRefused ==
  ASSUME Good(kernel), NEW p \in Peers, NEW kind \in Kinds, NEW late \in BOOLEAN,
         Refused(p, kind, late)
  PROVE  Advances(kernel, kernel')
BY ExchangeFailedGood DEF Refused, Outstanding

\* An answer past its deadline.
LEMMA StepAnsweredLate ==
  ASSUME Good(kernel), NEW p \in Peers, NEW kind \in Kinds, AnsweredLate(p, kind)
  PROVE  Advances(kernel, kernel')
<1>1. kernel.campaign # 0 \/ kernel.operation # NoOperation  BY DEF AnsweredLate, Timed
<1>2. QED  BY <1>1, AbandonCampaign DEF AnsweredLate

\* An answer that reports a higher promise.
LEMMA StepFenced ==
  ASSUME Good(kernel), NEW p \in Peers, NEW kind \in Kinds, NEW epoch \in Nat,
         Fenced(p, kind, epoch)
  PROVE  Advances(kernel, kernel')
BY ObservePromiseGood DEF Fenced, Advances

\* A request of the maintenance worker that is refused with a higher promise.
LEMMA StepRequestRefused ==
  ASSUME Good(kernel), NEW epoch \in Nat, RequestRefused(epoch)
  PROVE  Advances(kernel, kernel')
BY ObservePromiseGood DEF RequestRefused, Advances

\* The worker's report of a promise, late as it may be.
LEMMA StepReportPromise ==
  ASSUME Good(kernel), rejoin \in [ballot : Nat, seen : Nat], ReportPromise
  PROVE  Advances(kernel, kernel')
<1> DEFINE j == ObservePromise(kernel, rejoin.seen)
<1>1. kernel' \in {j, Quiesce(j)}  BY DEF ReportPromise
<1>2. rejoin.seen \in Nat  OBVIOUS
<1>3. Advances(kernel, j)  BY <1>2, ObservePromiseGood DEF Advances
<1> HIDE DEF j
<1>4. Good(j)  BY <1>3 DEF Advances
<1>5. Advances(j, Quiesce(j))  BY <1>4, QuiesceGood DEF Advances
<1>6. Advances(kernel, Quiesce(j))  BY <1>3, <1>5, AdvancesTrans
<1>7. QED  BY <1>1, <1>3, <1>6

\* A maintenance task that fails.
LEMMA StepMaintenanceFails ==
  ASSUME Good(kernel), MaintenanceFails
  PROVE  Advances(kernel, kernel')
<1> DEFINE j == [kernel EXCEPT !.quarantined = TRUE]
<1>1. kernel' \in {Fail(j), Quiesce(j)}  BY DEF MaintenanceFails
<1>2. Advances(kernel, j)  BY AdvancesSelf, QuarantinedGood
<1> HIDE DEF j
<1>3. Good(j) /\ Base(j)  BY <1>2 DEF Advances, Good
<1>4. Advances(j, Quiesce(j)) /\ Advances(j, Fail(j))
  BY <1>3, QuiesceGood, StoppedGood DEF Advances
<1>5. Advances(kernel, Quiesce(j)) /\ Advances(kernel, Fail(j))
  BY <1>2, <1>4, AdvancesTrans
<1>6. QED  BY <1>1, <1>5

\* cancel.
LEMMA StepCancel ==
  ASSUME Good(kernel), NEW r \in Requests, Cancel(r)
  PROVE  Advances(kernel, kernel')
<1>1. kernel.operation.request # 0  BY RequestsAssumption DEF Cancel
<1>2. kernel.operation # NoOperation  BY <1>1 DEF NoOperation
<1>3. QED  BY <1>2, AbandonCampaign DEF Cancel

\* The answer to a heartbeat.
LEMMA StepHeartbeatAnswered ==
  ASSUME Good(kernel), NEW p \in Peers, HeartbeatAnswered(p)
  PROVE  Advances(kernel, kernel')
<1> DEFINE j == Over(kernel, p, "HEARTBEAT")
<1>1. kernel.exchanges[p]["HEARTBEAT"] > 0 /\ kernel' = j /\ "HEARTBEAT" \in Kinds
  BY DEF HeartbeatAnswered, Outstanding, Kinds
<1>2. Good(j) /\ Moves(kernel, j) /\ Elsewhere(kernel, j)  BY <1>1, OverGood DEF Good
<1> HIDE DEF j
<1>3. QED  BY <1>1, <1>2 DEF Advances, Elsewhere

\* The first promise chooses the quorum peer; the other PREPARE is over.
Chosen(k, p, carried) ==
  [k EXCEPT !.quorumPeer = p, !.deferredPeer = NoPeer, !.carried = carried,
            !.exchanges = [q \in Peers |-> [k.exchanges[q] EXCEPT !["PREPARE"] = 0]]]

\* Choosing it keeps the invariant.
LEMMA ChooseGood ==
  ASSUME NEW k, Good(k), k.state = "CANDIDATE", k.promised = k.campaign,
         NEW p \in Peers, NEW carried \in BOOLEAN
  PROVE  LET j == Chosen(k, p, carried)
         IN  /\ Good(j) /\ Moves(k, j) /\ j.publication = k.publication
             /\ j.state = k.state /\ j.promised = k.promised /\ j.campaign = k.campaign
             /\ j.quorumPeer = p /\ \A q \in Peers : j.exchanges[q]["PREPARE"] = 0
<1> DEFINE n == [q \in Peers |-> [k.exchanges[q] EXCEPT !["PREPARE"] = 0]]
           j == [k EXCEPT !.quorumPeer = p, !.deferredPeer = NoPeer, !.carried = carried,
                          !.exchanges = n]
<1>1. /\ Shape(k) /\ NumberType(k) /\ FieldType(k) /\ ~k.tripped /\ EpochInv(k)
      /\ ExchangeInv(k) /\ OperationInv(k) /\ CallbackInv(k) /\ OutcomeInv(k) /\ PrepareInv(k)
  BY Parts DEF Good
<1>2. k.exchanges \in [Peers -> [Kinds -> Nat]]  BY <1>1 DEF FieldType
<1>3. n \in [Peers -> [Kinds -> Nat]]  BY <1>2
<1>4. \A q \in Peers : \A h \in Kinds :
        n[q][h] = IF h = "PREPARE" THEN 0 ELSE k.exchanges[q][h]
  BY <1>2
<1> HIDE DEF n
<1>5. /\ Shape(j) /\ j.operation = k.operation /\ j.issued = k.issued
      /\ j.state = k.state /\ j.campaign = k.campaign /\ j.armed = k.armed
      /\ j.continuation = k.continuation /\ j.exchanges = n
      /\ j.fence = k.fence /\ j.maxEpoch = k.maxEpoch /\ j.preparing = k.preparing
      /\ j.promised = k.promised /\ j.proven = k.proven
      /\ j.publication = k.publication /\ j.reconstruction = k.reconstruction
      /\ j.imageIndex = k.imageIndex /\ j.publishedIndex = k.publishedIndex
      /\ j.tripped = k.tripped /\ j.outcomes = k.outcomes
      /\ j.quorumPeer = p /\ j.deferredPeer = NoPeer
      /\ j.failedPeer = k.failedPeer /\ j.carried = carried
  BY <1>1 DEF Shape, Fields
<1> HIDE DEF j
<1>6. k.operation = NoOperation /\ ~NoOperation.proved
  BY <1>1 DEF OperationInv, NoOperation
<1>7. NumberType(j) /\ FieldType(j)  BY <1>1, <1>3, <1>5 DEF NumberType, FieldType
<1>8. EpochInv(j)  BY <1>1, <1>5 DEF EpochInv, Serving
<1>9. ExchangeInv(j)
  <2>1. {"PREPARE", "INSTALL", "ACCEPT", "PROOF", "HEARTBEAT"} \subseteq Kinds  BY DEF Kinds
  <2>2. ASSUME NEW q \in Peers
        PROVE  /\ n[q]["PREPARE"] = 0 /\ n[q]["HEARTBEAT"] = k.exchanges[q]["HEARTBEAT"]
               /\ n[q]["INSTALL"] = k.exchanges[q]["INSTALL"]
               /\ n[q]["ACCEPT"] = k.exchanges[q]["ACCEPT"]
               /\ n[q]["PROOF"] = k.exchanges[q]["PROOF"]
    BY <1>4, <2>1
  <2>3. QED  BY <1>1, <1>5, <1>6, <2>2 DEF ExchangeInv
<1>10. OperationInv(j) /\ OutcomeInv(j)  BY <1>1, <1>5 DEF OperationInv, OutcomeInv
<1>11. CallbackInv(j)  BY <1>1, <1>5, <1>6 DEF CallbackInv, Valid
<1>12. Base(j)  BY <1>1, <1>5, <1>7, <1>8, <1>9, <1>10, <1>11, Parts
<1>13. Good(j)  BY <1>1, <1>5, <1>12 DEF Good, PrepareInv, Awaits, Serving
<1>14. Moves(k, j)  BY <1>1, <1>5 DEF Moves, NumberType
<1>15. \A q \in Peers : j.exchanges[q]["PREPARE"] = 0  BY <1>4, <1>5 DEF Kinds
<1>16. QED  BY <1>5, <1>13, <1>14, <1>15 DEF j, n, Chosen

\* recover: the INSTALL is sent to the quorum peer.
LEMMA RecoverGood ==
  ASSUME NEW k, Good(k), k.state = "CANDIDATE", k.promised = k.campaign,
         k.quorumPeer \in Peers, \A q \in Peers : k.exchanges[q]["PREPARE"] = 0
  PROVE  LET j == [k EXCEPT !.state = "RECOVERING"]
         IN  Advances(k, Send(j, {k.quorumPeer}, "INSTALL"))
<1> DEFINE j == [k EXCEPT !.state = "RECOVERING"]
           to == {k.quorumPeer}
           m == Send(j, to, "INSTALL")
<1>1. /\ Shape(k) /\ NumberType(k) /\ FieldType(k) /\ ~k.tripped /\ EpochInv(k)
      /\ ExchangeInv(k) /\ OperationInv(k) /\ CallbackInv(k) /\ OutcomeInv(k) /\ PrepareInv(k)
  BY Parts DEF Good
<1>2. /\ Shape(j) /\ j.operation = k.operation /\ j.issued = k.issued
      /\ j.state = "RECOVERING" /\ j.campaign = k.campaign /\ j.armed = k.armed
      /\ j.continuation = k.continuation /\ j.exchanges = k.exchanges
      /\ j.fence = k.fence /\ j.maxEpoch = k.maxEpoch /\ j.preparing = k.preparing
      /\ j.promised = k.promised /\ j.proven = k.proven
      /\ j.publication = k.publication /\ j.reconstruction = k.reconstruction
      /\ j.imageIndex = k.imageIndex /\ j.publishedIndex = k.publishedIndex
      /\ j.tripped = k.tripped /\ j.outcomes = k.outcomes
      /\ j.quorumPeer = k.quorumPeer /\ j.deferredPeer = k.deferredPeer
      /\ j.failedPeer = k.failedPeer /\ j.carried = k.carried
  BY <1>1 DEF Shape, Fields
<1> HIDE DEF j
<1>3. k.operation = NoOperation /\ ~NoOperation.proved
  BY <1>1 DEF OperationInv, NoOperation
<1>4. NumberType(j) /\ FieldType(j)  BY <1>1, <1>2 DEF NumberType, FieldType, States
<1>5. EpochInv(j)  BY <1>1, <1>2 DEF EpochInv, Serving
<1>6. ExchangeInv(j)  BY <1>1, <1>2, <1>3 DEF ExchangeInv
<1>7. OperationInv(j) /\ OutcomeInv(j)  BY <1>1, <1>2, <1>3 DEF OperationInv, OutcomeInv
<1>8. CallbackInv(j)
  <2>1. k.continuation.task # "NONE" => Valid(j, k.continuation)
    BY <1>1, <1>2, <1>3 DEF CallbackInv, Valid
  <2>2. QED  BY <1>1, <1>2, <1>3, <2>1 DEF CallbackInv
<1>9. Base(j)  BY <1>1, <1>2, <1>4, <1>5, <1>6, <1>7, <1>8, Parts
<1>10. Good(j)  BY <1>1, <1>2, <1>9 DEF Good, PrepareInv, Awaits, Serving
<1>11. Moves(k, j)  BY <1>1, <1>2 DEF Moves, NumberType
<1>12. Advances(k, j)  BY <1>2, <1>10, <1>11 DEF Advances
<1>13. Fit(j, to, "INSTALL") /\ "INSTALL" \in Kinds
  <2>1. k.exchanges[k.quorumPeer]["INSTALL"] \in Nat  BY <1>1 DEF FieldType, Kinds
  <2>2. k.exchanges[k.quorumPeer]["INSTALL"] = 0  BY <1>1, <2>1 DEF ExchangeInv
  <2>3. QED  BY <1>2, <1>3, <2>2 DEF Fit, Kinds
<1> HIDE DEF to
<1>14. Good(m) /\ Moves(j, m) /\ Sent(j, to, "INSTALL", m)  BY <1>9, <1>10, <1>13, SendGood
<1> HIDE DEF m
<1>15. Advances(j, m)  BY <1>14 DEF Advances, Sent, Elsewhere
<1>16. Advances(k, m)  BY <1>12, <1>15, AdvancesTrans
<1>17. QED  BY <1>16 DEF m, to, j

\* A promise is taken over: choose, adopt the longer prefix, recover.
LEMMA PromisedGood ==
  ASSUME NEW k, Good(k), NEW p \in Peers, k.exchanges[p]["PREPARE"] > 0, NEW prefix \in Nat,
         NEW carried \in BOOLEAN
  PROVE  LET over == Over(k, p, "PREPARE")
             chosen == Chosen(over, p, carried)
         IN  /\ Base(over) /\ Advances(k, over) /\ over.state = "CANDIDATE"
             /\ Advances(k, Abandon(chosen, FALSE))
             /\ Advances(k, Send([Adopt(chosen, prefix) EXCEPT !.state = "RECOVERING"],
                                 {p}, "INSTALL"))
<1> DEFINE over == Over(k, p, "PREPARE")
           chosen == Chosen(over, p, carried)
           a == Adopt(chosen, prefix)
           j == [a EXCEPT !.state = "RECOVERING"]
<1>1. "PREPARE" \in Kinds /\ Base(k) /\ ExchangeInv(k)  BY Parts DEF Kinds, Good
<1>2. Good(over) /\ Moves(k, over) /\ Elsewhere(k, over)  BY <1>1, OverGood
<1>3. k.state = "CANDIDATE" /\ k.promised = k.campaign /\ k.campaign # 0
  <2>1. k.state = "CANDIDATE" /\ k.promised = k.campaign  BY <1>1 DEF ExchangeInv
  <2>2. QED  BY <1>1, <2>1, Outstands
<1> HIDE DEF over
<1>4. over.state = "CANDIDATE" /\ over.promised = over.campaign /\ over.campaign # 0
      /\ over.publication = k.publication
  BY <1>2, <1>3 DEF Elsewhere
<1>5. Base(over) /\ Advances(k, over)  BY <1>2, <1>4 DEF Advances, Good
<1>6. /\ Good(chosen) /\ Moves(over, chosen) /\ chosen.publication = over.publication
      /\ chosen.state = over.state /\ chosen.promised = over.promised
      /\ chosen.campaign = over.campaign
      /\ chosen.quorumPeer = p /\ \A q \in Peers : chosen.exchanges[q]["PREPARE"] = 0
  BY <1>2, <1>4, ChooseGood
<1> HIDE DEF chosen
<1>7. Advances(over, chosen)  BY <1>6 DEF Advances
<1>8. Advances(k, chosen)  BY <1>5, <1>7, AdvancesTrans
<1>9. Advances(k, Abandon(chosen, FALSE))
  <2>1. Advances(chosen, Abandon(chosen, FALSE))  BY <1>4, <1>6, AbandonCampaign
  <2>2. QED  BY <1>8, <2>1, AdvancesTrans
<1>10. /\ Good(a) /\ Moves(chosen, a) /\ a.publication = chosen.publication
       /\ a.state = "CANDIDATE" /\ a.promised = a.campaign /\ a.quorumPeer = p
       /\ a.exchanges = chosen.exchanges
  <2>1. Base(chosen)  BY <1>6 DEF Good
  <2>2. QED  BY <1>4, <1>6, <2>1, AdoptGood
<1> HIDE DEF a
<1>11. Advances(chosen, a)  BY <1>10 DEF Advances
<1>12. Advances(a, Send(j, {a.quorumPeer}, "INSTALL"))  BY <1>6, <1>10, RecoverGood
<1> HIDE DEF j
<1>13. Advances(a, Send(j, {p}, "INSTALL"))  BY <1>10, <1>12
<1>14. Advances(k, a)  BY <1>8, <1>11, AdvancesTrans
<1>15. Advances(k, Send(j, {p}, "INSTALL"))  BY <1>13, <1>14, AdvancesTrans
<1>16. QED  BY <1>4, <1>5, <1>9, <1>15 DEF j, a, chosen, over

\* The answer to a PREPARE.
LEMMA StepPromised ==
  ASSUME Good(kernel), NEW p \in Peers, NEW prefix \in Nat, NEW carried \in BOOLEAN,
         NEW free \in BOOLEAN, NEW ok \in BOOLEAN, Promised(p, prefix, carried, free, ok)
  PROVE  Advances(kernel, kernel')
<1> DEFINE over == Over(kernel, p, "PREPARE")
           chosen == Chosen(over, p, carried)
           asked == Send([Adopt(chosen, prefix) EXCEPT !.state = "RECOVERING"], {p}, "INSTALL")
           dropped == Abandon(chosen, FALSE)
<1>1. /\ kernel.exchanges[p]["PREPARE"] > 0
      /\ kernel' = IF over.state # "CANDIDATE" THEN over
                   ELSE IF ~ok THEN StoreFails(over)
                   ELSE IF ~free /\ prefix > over.proven THEN dropped ELSE asked
  BY DEF Promised, Outstanding, Chosen
<1>2. /\ Base(over) /\ Advances(kernel, over) /\ Advances(kernel, dropped)
      /\ Advances(kernel, asked)
  BY <1>1, PromisedGood
<1> HIDE DEF over, dropped, asked
<1>3. Advances(kernel, StoreFails(over))
  <2>1. Advances(over, StoreFails(over))  BY <1>2, StoppedGood
  <2>2. QED  BY <1>2, <2>1, AdvancesTrans
<1>4. QED  BY <1>1, <1>2, <1>3

\* The commit of an activation, or of the entry carried over.
LEMMA ActivationGood ==
  ASSUME NEW k, Good(k), k.operation = NoOperation, k.publication = NoPublication,
         NEW own \in BOOLEAN, NEW ok \in BOOLEAN, k.state = "RECOVERING",
         \A p \in Peers : k.exchanges[p]["INSTALL"] = 0
  PROVE  /\ Good(Commit(k, 0, TRUE, own, ok)) /\ Moves(k, Commit(k, 0, TRUE, own, ok))
         /\ Keeps(k, Commit(k, 0, TRUE, own, ok))
<1>1. PICK request \in Requests \union {0} : request = 0  OBVIOUS
<1>2. PICK activating \in BOOLEAN : activating = TRUE  OBVIOUS
<1>3. /\ Good(Commit(k, request, activating, own, ok))
      /\ Moves(k, Commit(k, request, activating, own, ok))
      /\ Keeps(k, Commit(k, request, activating, own, ok))
  BY <1>1, <1>2, CommitGood
<1>4. QED  BY <1>1, <1>2, <1>3

\* The answer to an INSTALL.
LEMMA StepInstalled ==
  ASSUME Good(kernel), NEW p \in Peers, NEW ok \in BOOLEAN, Installed(p, ok)
  PROVE  Advances(kernel, kernel')
<1> DEFINE k == kernel
           over == Over(k, p, "INSTALL")
<1>1. /\ k.exchanges[p]["INSTALL"] > 0
      /\ kernel' = IF over.state # "RECOVERING" THEN Trip(over)
                   ELSE Commit(over, 0, TRUE, ~over.carried, ok)
  BY DEF Installed, Outstanding
<1>2. /\ "INSTALL" \in Kinds /\ Base(k) /\ ExchangeInv(k) /\ CallbackInv(k) /\ FieldType(k)
      /\ Good(k)
  BY Parts DEF Kinds, Good
<1> HIDE DEF k
<1>3. /\ Good(over) /\ Moves(k, over) /\ Elsewhere(k, over)
      /\ \A q \in Peers : \A h \in Kinds :
           over.exchanges[q][h]
             = IF q = p /\ h = "INSTALL" THEN k.exchanges[q][h] - 1 ELSE k.exchanges[q][h]
  BY <1>1, <1>2, OverGood
<1> HIDE DEF over
<1>4. k.state = "RECOVERING" /\ k.operation = NoOperation
  BY <1>1, <1>2 DEF ExchangeInv
<1>5. \A q \in Peers : over.exchanges[q]["INSTALL"] = 0
  <2>1. \A q \in Peers : k.exchanges[q]["INSTALL"] \in Nat  BY <1>2 DEF FieldType
  <2>2. \A q \in Peers : k.exchanges[q]["INSTALL"] > 0 =>
          k.exchanges[q]["INSTALL"] = 1 /\ q = k.quorumPeer
    BY <1>2 DEF ExchangeInv
  <2>3. p = k.quorumPeer /\ k.exchanges[p]["INSTALL"] = 1  BY <1>1, <2>2
  <2>4. QED  BY <1>2, <1>3, <2>1, <2>2, <2>3
<1>6. k.publication = NoPublication
  <2>1. k.campaign # 0  BY <1>1, <1>2, Outstands
  <2>2. QED  BY <1>2, <1>4, <2>1 DEF CallbackInv, NoOperation
<1>7. /\ over.state = "RECOVERING" /\ over.operation = NoOperation
      /\ over.publication = NoPublication
  BY <1>3, <1>4, <1>6 DEF Elsewhere
<1> DEFINE own == ~over.carried
           m == Commit(over, 0, TRUE, own, ok)
<1>8. kernel' = m  BY <1>1, <1>7
<1>9. own \in BOOLEAN  OBVIOUS
<1> HIDE DEF own
<1>10. Good(m) /\ Moves(over, m) /\ Keeps(over, m)
  BY <1>3, <1>5, <1>7, <1>9, ActivationGood
<1> HIDE DEF m
<1>11. Advances(k, over) /\ Advances(over, m)
  BY <1>3, <1>6, <1>10 DEF Advances, Elsewhere, Keeps
<1>12. Advances(k, m)  BY <1>2, <1>11, AdvancesTrans
<1>13. QED  BY <1>8, <1>12 DEF k

\* The entry is proven locally and its PROOF sent.
LEMMA AcceptGood ==
  ASSUME NEW k, Good(k), k.operation # NoOperation, ~k.operation.proved,
         \A q \in Peers : k.exchanges[q]["ACCEPT"] = 0
  PROVE  LET j == [k EXCEPT !.operation.proved = TRUE, !.proven = @ + 1]
         IN  Advances(k, Send(j, {k.quorumPeer}, "PROOF"))
<1> DEFINE j == [k EXCEPT !.operation.proved = TRUE, !.proven = @ + 1]
           op == [k.operation EXCEPT !.proved = TRUE]
           to == {k.quorumPeer}
           m == Send(j, to, "PROOF")
<1>1. /\ Shape(k) /\ NumberType(k) /\ FieldType(k) /\ ~k.tripped /\ EpochInv(k)
      /\ ExchangeInv(k) /\ OperationInv(k) /\ CallbackInv(k) /\ OutcomeInv(k) /\ PrepareInv(k)
  BY Parts DEF Good
<1>2. /\ Shape(j) /\ j.operation = op /\ j.issued = k.issued
      /\ j.state = k.state /\ j.campaign = k.campaign /\ j.armed = k.armed
      /\ j.continuation = k.continuation /\ j.exchanges = k.exchanges
      /\ j.fence = k.fence /\ j.maxEpoch = k.maxEpoch /\ j.preparing = k.preparing
      /\ j.promised = k.promised /\ j.proven = k.proven + 1
      /\ j.publication = k.publication /\ j.reconstruction = k.reconstruction
      /\ j.imageIndex = k.imageIndex /\ j.publishedIndex = k.publishedIndex
      /\ j.tripped = k.tripped /\ j.outcomes = k.outcomes
      /\ j.quorumPeer = k.quorumPeer /\ j.deferredPeer = k.deferredPeer
      /\ j.failedPeer = k.failedPeer /\ j.carried = k.carried
  BY <1>1 DEF Shape, Fields
<1>3. /\ op \in [index : Nat, request : Requests \union {0}, activating : BOOLEAN,
                 own : BOOLEAN, proved : BOOLEAN]
      /\ op.proved = TRUE /\ op.index = k.operation.index /\ op.request = k.operation.request
      /\ op.activating = k.operation.activating
  BY <1>1 DEF FieldType
<1>4. op # NoOperation /\ ~NoOperation.proved
  <2>1. NoOperation.proved = FALSE  BY DEF NoOperation
  <2> HIDE DEF op
  <2>2. QED  BY <1>3, <2>1
<1> HIDE DEF j, op
<1>5. NumberType(j) /\ FieldType(j)
  <2>1. NumberType(j)  BY <1>1, <1>2 DEF NumberType
  <2>2. FieldType(j)  BY <1>1, <1>2, <1>3 DEF FieldType
  <2>3. QED  BY <2>1, <2>2
<1>6. EpochInv(j)  BY <1>1, <1>2 DEF EpochInv, Serving
<1>7. k.state \in {"RECOVERING", "LEADER_READY"} /\ k.campaign # 0 /\ k.preparing = 0
      /\ k.quorumPeer \in Peers
  BY <1>1 DEF OperationInv, EpochInv
<1>8. ExchangeInv(j)
  <2>1. \A p \in Peers : k.exchanges[p]["ACCEPT"] = 0 /\ ~(0 > 0)  OBVIOUS
  <2>2. \A p \in Peers : ~(k.exchanges[p]["INSTALL"] > 0)  BY <1>1 DEF ExchangeInv
  <2>3. QED  BY <1>1, <1>2, <1>3, <2>1, <2>2 DEF ExchangeInv
<1>9. OperationInv(j)
  BY <1>1, <1>2, <1>3, <1>4 DEF OperationInv
<1>10. OutcomeInv(j)  BY <1>1, <1>2, <1>3 DEF OutcomeInv
<1>11. k.publication = NoPublication /\ k.continuation.task # "PUBLISH"
  BY <1>1, <1>7 DEF CallbackInv, Valid
<1>12. CallbackInv(j)
  <2>1. k.continuation.task # "NONE" => Valid(j, k.continuation)
    BY <1>1, <1>2, <1>11 DEF CallbackInv, Valid
  <2>2. /\ k.publishedIndex \in Nat /\ k.proven \in Nat
        /\ k.reconstruction \in Nat \union {NoIndex} /\ k.imageIndex \in Nat \union {NoIndex}
    BY <1>1 DEF NumberType
  <2>3. k.imageIndex \in Int /\ k.reconstruction \in Int  BY <2>2 DEF NoIndex
  <2>4. /\ k.imageIndex <= k.proven + 1 /\ k.publishedIndex <= k.proven + 1
        /\ k.imageIndex < k.proven + 1
    BY <1>1, <2>2, <2>3 DEF CallbackInv
  <2>5. k.reconstruction # NoIndex => k.reconstruction <= k.proven + 1
    BY <1>1, <2>2, <2>3 DEF CallbackInv
  <2>6. QED  BY <1>1, <1>2, <1>4, <1>7, <1>11, <2>1, <2>4, <2>5 DEF CallbackInv
<1>13. Base(j)  BY <1>1, <1>2, <1>5, <1>6, <1>8, <1>9, <1>10, <1>12, Parts
<1>14. Good(j)  BY <1>1, <1>2, <1>13 DEF Good, PrepareInv, Awaits, Serving
<1>15. Moves(k, j)  BY <1>1, <1>2 DEF Moves, NumberType
<1>16. Advances(k, j)  BY <1>2, <1>14, <1>15 DEF Advances
<1>17. Fit(j, to, "PROOF") /\ "PROOF" \in Kinds
  <2>1. k.exchanges[k.quorumPeer]["PROOF"] \in Nat  BY <1>1, <1>7 DEF FieldType, Kinds
  <2>2. k.exchanges[k.quorumPeer]["PROOF"] = 0  BY <1>1, <1>7, <2>1 DEF ExchangeInv
  <2>3. QED  BY <1>2, <1>3, <1>7, <1>11, <2>2 DEF Fit, Kinds
<1> HIDE DEF to
<1>18. Good(m) /\ Moves(j, m) /\ Sent(j, to, "PROOF", m)  BY <1>13, <1>14, <1>17, SendGood
<1> HIDE DEF m
<1>19. Advances(j, m)  BY <1>18 DEF Advances, Sent, Elsewhere
<1>20. Advances(k, m)  BY <1>16, <1>19, AdvancesTrans
<1>21. QED  BY <1>20 DEF m, to, j

\* The answer to an ACCEPT.
LEMMA StepAccepted ==
  ASSUME Good(kernel), NEW p \in Peers, NEW ok \in BOOLEAN, Accepted(p, ok)
  PROVE  Advances(kernel, kernel')
<1> DEFINE k == kernel
           over == Over(k, p, "ACCEPT")
           sent == Send([over EXCEPT !.operation.proved = TRUE, !.proven = @ + 1], {p}, "PROOF")
<1>1. /\ k.exchanges[p]["ACCEPT"] > 0
      /\ kernel' = IF over.operation = NoOperation \/ over.operation.proved \/ p # over.quorumPeer
                     THEN Trip(over)
                   ELSE IF ok THEN sent ELSE StoreFails(over)
  BY DEF Accepted, Outstanding
<1>2. /\ "ACCEPT" \in Kinds /\ Base(k) /\ ExchangeInv(k) /\ FieldType(k) /\ Good(k)
  BY Parts DEF Kinds, Good
<1> HIDE DEF k
<1>3. /\ Good(over) /\ Moves(k, over) /\ Elsewhere(k, over)
      /\ \A q \in Peers : \A h \in Kinds :
           over.exchanges[q][h]
             = IF q = p /\ h = "ACCEPT" THEN k.exchanges[q][h] - 1 ELSE k.exchanges[q][h]
  BY <1>1, <1>2, OverGood
<1> HIDE DEF over
<1>4. k.operation # NoOperation /\ ~k.operation.proved /\ p = k.quorumPeer
  BY <1>1, <1>2 DEF ExchangeInv
<1>5. \A q \in Peers : over.exchanges[q]["ACCEPT"] = 0
  <2>1. \A q \in Peers : k.exchanges[q]["ACCEPT"] \in Nat  BY <1>2 DEF FieldType
  <2>2. \A q \in Peers : k.exchanges[q]["ACCEPT"] > 0 =>
          k.exchanges[q]["ACCEPT"] = 1 /\ q = k.quorumPeer
    BY <1>2 DEF ExchangeInv
  <2>3. k.exchanges[p]["ACCEPT"] = 1  BY <1>1, <2>2
  <2>4. QED  BY <1>2, <1>3, <1>4, <2>1, <2>2, <2>3
<1>6. over.operation # NoOperation /\ ~over.operation.proved /\ p = over.quorumPeer
  BY <1>3, <1>4 DEF Elsewhere
<1>7. Advances(k, over) /\ Base(over)  BY <1>3 DEF Advances, Elsewhere, Good
<1>8. Advances(over, sent)  BY <1>3, <1>5, <1>6, AcceptGood
<1> HIDE DEF sent
<1>9. Advances(k, sent)  BY <1>2, <1>7, <1>8, AdvancesTrans
<1>10. Advances(k, StoreFails(over))
  <2>1. Advances(over, StoreFails(over))  BY <1>7, StoppedGood
  <2>2. QED  BY <1>2, <1>7, <2>1, AdvancesTrans
<1>11. QED  BY <1>1, <1>6, <1>9, <1>10 DEF k

\* The answer to a PROOF: the publication is made, or waits for the image.
LEMMA StepProved ==
  ASSUME Good(kernel), NEW p \in Peers, NEW ok \in BOOLEAN, Proved(p, ok)
  PROVE  Advances(kernel, kernel')
<1> DEFINE k == kernel
           over == Over(k, p, "PROOF")
           c == Task("PUBLISH", over.campaign)
<1>1. /\ k.exchanges[p]["PROOF"] > 0
      /\ kernel' = IF ~over.operation.proved \/ p # over.quorumPeer THEN Trip(over)
                   ELSE WithImage(over, c, ok)
  BY DEF Proved, Outstanding
<1>2. /\ "PROOF" \in Kinds /\ Base(k) /\ ExchangeInv(k) /\ FieldType(k) /\ CallbackInv(k)
      /\ Good(k)
  BY Parts DEF Kinds, Good
<1> HIDE DEF k
<1>3. /\ Good(over) /\ Moves(k, over) /\ Elsewhere(k, over)
      /\ \A q \in Peers : \A h \in Kinds :
           over.exchanges[q][h]
             = IF q = p /\ h = "PROOF" THEN k.exchanges[q][h] - 1 ELSE k.exchanges[q][h]
  BY <1>1, <1>2, OverGood
<1> HIDE DEF over
<1>4. k.operation.proved /\ p = k.quorumPeer  BY <1>1, <1>2 DEF ExchangeInv
<1>5. NoProofDue(over)
  <2>1. \A q \in Peers : k.exchanges[q]["PROOF"] \in Nat  BY <1>2 DEF FieldType
  <2>2. \A q \in Peers : k.exchanges[q]["PROOF"] > 0 =>
          k.exchanges[q]["PROOF"] = 1 /\ q = k.quorumPeer
    BY <1>2 DEF ExchangeInv
  <2>3. k.exchanges[p]["PROOF"] = 1  BY <1>1, <2>2
  <2>4. QED  BY <1>2, <1>3, <1>4, <2>1, <2>2, <2>3 DEF NoProofDue
<1>6. k.campaign # 0 /\ k.preparing = 0  BY <1>1, <1>2, Outstands
<1>7. k.publication = NoPublication
  <2>1. k.exchanges[p]["PROOF"] # 0  BY <1>1
  <2>2. QED  BY <1>2, <1>6, <2>1 DEF CallbackInv, NoProofDue
<1>8. /\ over.operation.proved /\ p = over.quorumPeer /\ over.campaign # 0
      /\ over.preparing = 0 /\ over.publication = NoPublication
  BY <1>3, <1>4, <1>6, <1>7 DEF Elsewhere
<1>9. EpochInv(over) /\ NumberType(over) /\ Base(over)  BY <1>3, Parts DEF Good
<1>10. over.state \in {"CANDIDATE", "RECOVERING", "LEADER_READY"}  BY <1>8, <1>9 DEF EpochInv
<1>11. c \in [task : Tasks, ballot : Nat] /\ c.task = "PUBLISH" /\ c.ballot = over.campaign
  BY <1>9 DEF Task, Tasks, NumberType
<1> HIDE DEF c
<1>12. Ready(over, c)  BY <1>5, <1>8, <1>9, <1>10, <1>11 DEF Ready, Valid, Awaits
<1>13. Advances(over, WithImage(over, c, ok))  BY <1>10, <1>12, WithImageGood
<1>14. Advances(k, over)  BY <1>3 DEF Advances, Elsewhere
<1>15. Advances(k, WithImage(over, c, ok))  BY <1>2, <1>13, <1>14, AdvancesTrans
<1>16. QED  BY <1>1, <1>8, <1>15 DEF k

\* A reconstruction that nothing waits for may end.
LEMMA DropGood ==
  ASSUME NEW k, Good(k), k.continuation = NoTask
  PROVE  Advances(k, [k EXCEPT !.reconstruction = NoIndex])
<1> DEFINE j == [k EXCEPT !.reconstruction = NoIndex]
<1>1. /\ Shape(k) /\ NumberType(k) /\ FieldType(k) /\ ~k.tripped /\ EpochInv(k)
      /\ ExchangeInv(k) /\ OperationInv(k) /\ CallbackInv(k) /\ OutcomeInv(k) /\ PrepareInv(k)
  BY Parts DEF Good
<1>2. /\ Shape(j) /\ j.operation = k.operation /\ j.issued = k.issued
      /\ j.state = k.state /\ j.campaign = k.campaign /\ j.armed = k.armed
      /\ j.continuation = k.continuation /\ j.exchanges = k.exchanges
      /\ j.fence = k.fence /\ j.maxEpoch = k.maxEpoch /\ j.preparing = k.preparing
      /\ j.promised = k.promised /\ j.proven = k.proven
      /\ j.publication = k.publication /\ j.reconstruction = NoIndex
      /\ j.imageIndex = k.imageIndex /\ j.publishedIndex = k.publishedIndex
      /\ j.tripped = k.tripped /\ j.outcomes = k.outcomes
      /\ j.quorumPeer = k.quorumPeer /\ j.deferredPeer = k.deferredPeer
      /\ j.failedPeer = k.failedPeer /\ j.carried = k.carried
  BY <1>1 DEF Shape, Fields
<1> HIDE DEF j
<1>3. NumberType(j) /\ FieldType(j)  BY <1>1, <1>2 DEF NumberType, FieldType
<1>4. EpochInv(j)  BY <1>1, <1>2 DEF EpochInv, Serving
<1>5. ExchangeInv(j)  BY <1>1, <1>2 DEF ExchangeInv
<1>6. OperationInv(j) /\ OutcomeInv(j)  BY <1>1, <1>2 DEF OperationInv, OutcomeInv
<1>7. CallbackInv(j)  BY <1>1, <1>2 DEF CallbackInv, NoTask, AtRest, NoProofDue
<1>8. Base(j)  BY <1>1, <1>2, <1>3, <1>4, <1>5, <1>6, <1>7, Parts
<1>9. Good(j)  BY <1>1, <1>2, <1>8 DEF Good, PrepareInv, Awaits, Serving
<1>10. Moves(k, j)  BY <1>1, <1>2 DEF Moves, NumberType
<1>11. QED  BY <1>2, <1>9, <1>10 DEF Advances, j

\* The image of the reconstructed index is kept, if it is still that of the
\* proven prefix.
LEMMA ImageGood ==
  ASSUME NEW k, Good(k), k.reconstruction # NoIndex, k.state \notin {"CLOSED", "FAILED"},
         NEW ok \in BOOLEAN
  PROVE  LET over == [k EXCEPT !.reconstruction = NoIndex]
             next == [over EXCEPT !.imageIndex = k.reconstruction, !.continuation = NoTask]
         IN  Advances(k, IF k.continuation = NoTask THEN next
                         ELSE WithImage(next, k.continuation, ok))
<1> DEFINE over == [k EXCEPT !.reconstruction = NoIndex]
           j == [over EXCEPT !.imageIndex = k.reconstruction, !.continuation = NoTask]
           c == k.continuation
<1>1. /\ Shape(k) /\ NumberType(k) /\ FieldType(k) /\ ~k.tripped /\ EpochInv(k)
      /\ ExchangeInv(k) /\ OperationInv(k) /\ CallbackInv(k) /\ OutcomeInv(k) /\ PrepareInv(k)
  BY Parts DEF Good
<1>2. /\ Shape(j) /\ j.operation = k.operation /\ j.issued = k.issued
      /\ j.state = k.state /\ j.campaign = k.campaign /\ j.armed = k.armed
      /\ j.continuation = NoTask /\ j.exchanges = k.exchanges
      /\ j.fence = k.fence /\ j.maxEpoch = k.maxEpoch /\ j.preparing = k.preparing
      /\ j.promised = k.promised /\ j.proven = k.proven
      /\ j.publication = k.publication /\ j.reconstruction = NoIndex
      /\ j.imageIndex = k.reconstruction /\ j.publishedIndex = k.publishedIndex
      /\ j.tripped = k.tripped /\ j.outcomes = k.outcomes
      /\ j.quorumPeer = k.quorumPeer /\ j.deferredPeer = k.deferredPeer
      /\ j.failedPeer = k.failedPeer /\ j.carried = k.carried
  BY <1>1 DEF Shape, Fields
<1> HIDE DEF over, j
<1>3. NumberType(j)  BY <1>1, <1>2 DEF NumberType
<1>4. FieldType(j)  BY <1>1, <1>2, NoneTyped DEF FieldType
<1>5. EpochInv(j)  BY <1>1, <1>2 DEF EpochInv, Serving
<1>6. ExchangeInv(j)  BY <1>1, <1>2 DEF ExchangeInv
<1>7. OperationInv(j) /\ OutcomeInv(j)  BY <1>1, <1>2 DEF OperationInv, OutcomeInv
<1>8. CallbackInv(j)
  <2>1. ~(k.publication # NoPublication /\ k.campaign # 0)  BY <1>1 DEF CallbackInv
  <2>2. ~(k.state = "LEADER_READY" /\ k.operation = NoOperation)
    BY <1>1 DEF CallbackInv, AtRest
  <2>3. k.state # "STOPPED"  BY <1>1 DEF CallbackInv
  <2>4. QED  BY <1>1, <1>2, <2>1, <2>2, <2>3 DEF CallbackInv, NoTask
<1>9. Base(j)  BY <1>1, <1>2, <1>3, <1>4, <1>5, <1>6, <1>7, <1>8, Parts
<1>10. Moves(k, j)  BY <1>1, <1>2 DEF Moves, NumberType
<1>11. Awaits(j, c)  BY <1>1, <1>2 DEF PrepareInv, Awaits, Serving
<1>12. CASE c = NoTask
  <2>1. Good(j)  BY <1>2, <1>9, <1>11, <1>12 DEF Good, PrepareInv
  <2>2. Advances(k, j)  BY <1>2, <1>10, <2>1 DEF Advances
  <2>3. QED  BY <1>12, <2>2 DEF j, over
<1>13. CASE c # NoTask
  <2>1. c \in [task : Tasks, ballot : Nat] /\ c.task # "NONE"
    BY <1>1, <1>13 DEF FieldType
  <2>2. Valid(k, c)  BY <1>1, <2>1 DEF CallbackInv
  <2>3. Valid(j, c)  BY <1>2, <2>2 DEF Valid, NoProofDue
  <2>4. Ready(j, c)  BY <1>9, <1>11, <2>1, <2>3 DEF Ready
  <2>5. j.state # "STOPPED"  BY <1>1, <1>2 DEF CallbackInv
  <2>6. Advances(j, WithImage(j, c, ok))  BY <2>4, <2>5, WithImageGood
  <2>7. Advances(k, WithImage(j, c, ok))  BY <1>2, <1>9, <1>10, <2>6, AdvancesVia
  <2>8. QED  BY <1>13, <2>7 DEF j, over
<1>14. QED  BY <1>12, <1>13

\* fail and the end of the reconstruction commute.
LEMMA FailDrops ==
  ASSUME NEW k, Shape(k)
  PROVE  Fail([k EXCEPT !.reconstruction = NoIndex]) = [Fail(k) EXCEPT !.reconstruction = NoIndex]
<1> DEFINE o == [k EXCEPT !.reconstruction = NoIndex]
           Tell(h) == IF h.operation.request = 0 THEN h
                      ELSE Completed(h, h.operation.request, "INDETERMINATE")
           Drop(h, v) == [h EXCEPT
              !.failedPeer = v, !.deferredPeer = NoPeer, !.operation = NoOperation,
              !.campaign = 0, !.quorumPeer = NoPeer, !.carried = FALSE,
              !.continuation = NoTask, !.exchanges = NoExchanges, !.state = "UNAVAILABLE",
              !.armed = TRUE]
           Stop(h, v) == [Drop(h, v) EXCEPT !.state = "FAILED", !.armed = FALSE]
           t == Tell(k)
           s == [t EXCEPT !.reconstruction = NoIndex]
<1>1. Shape(o) /\ o.operation = k.operation /\ o.outcomes = k.outcomes  BY DEF Shape, Fields
<1>2. Tell(o) = s /\ Shape(t) /\ Shape(s)
  <2>1. CASE k.operation.request = 0  BY <1>1, <2>1 DEF Shape
  <2>2. CASE k.operation.request # 0
    BY <1>1, <2>2 DEF Completed, Shape, Fields
  <2>3. QED  BY <2>1, <2>2
<1>3. s.failedPeer = t.failedPeer  BY <1>2 DEF Shape, Fields
<1> HIDE DEF t, s
<1>4. Fail(k) = Stop(t, t.failedPeer)
  <2>1. Abandon(k, FALSE) = Drop(t, t.failedPeer)  BY DEF Abandon, t
  <2>2. QED  BY <2>1 DEF Fail
<1>5. Fail(o) = Stop(s, s.failedPeer)
  <2> HIDE DEF o
  <2>1. Abandon(o, FALSE) = Drop(Tell(o), Tell(o).failedPeer)  BY DEF Abandon
  <2>2. Abandon(o, FALSE) = Drop(s, s.failedPeer)  BY <1>2, <2>1
  <2>3. QED  BY <2>2 DEF Fail
<1>6. Stop(s, t.failedPeer) = [Stop(t, t.failedPeer) EXCEPT !.reconstruction = NoIndex]
  BY ZenonT(30), <1>2 DEF s, Shape, Fields
<1> HIDE DEF Stop
<1>7. QED  BY <1>3, <1>4, <1>5, <1>6

\* The application answers a reconstruction.
LEMMA StepReconstructed ==
  ASSUME Good(kernel), NEW error \in BOOLEAN, NEW ok \in BOOLEAN, Reconstructed(error, ok)
  PROVE  Advances(kernel, kernel')
<1> DEFINE k == kernel
           over == [k EXCEPT !.reconstruction = NoIndex]
           next == [over EXCEPT !.imageIndex = k.reconstruction, !.continuation = NoTask]
           run == IF k.continuation = NoTask THEN next ELSE WithImage(next, k.continuation, ok)
           f == Fail(k)
<1>1. /\ k.reconstruction # NoIndex
      /\ kernel' = IF k.state \in {"CLOSED", "FAILED"} THEN over
                   ELSE IF error THEN [Fail(over) EXCEPT !.rebuildFailed = TRUE]
                   ELSE run
  BY DEF Reconstructed
<1>2. Good(k) /\ Base(k) /\ Shape(k) /\ CallbackInv(k) /\ FieldType(k)  BY Parts DEF Good
<1> HIDE DEF k
<1>3. CASE k.state \in {"CLOSED", "FAILED"}
  <2>1. k.continuation = NoTask  BY <1>2, <1>3 DEF CallbackInv, Valid, FieldType
  <2>2. Advances(k, over)  BY <1>2, <2>1, DropGood
  <2> HIDE DEF over
  <2>3. QED  BY <1>1, <1>3, <2>2 DEF k
<1>4. CASE k.state \notin {"CLOSED", "FAILED"} /\ error
  <2>1. Advances(k, f)  BY <1>2, StoppedGood
  <2>2. Fail(over) = [f EXCEPT !.reconstruction = NoIndex]  BY <1>2, FailDrops
  <2>3. f.continuation = NoTask
    BY <1>2 DEF Fail, Abandon, Completed, Shape, Fields
  <2> HIDE DEF f
  <2>4. Good(f)  BY <2>1 DEF Advances
  <2>5. Advances(f, Fail(over))  BY <2>2, <2>3, <2>4, DropGood
  <2> DEFINE g == Fail(over)
  <2>6. Advances(k, g)  BY <1>2, <2>1, <2>5, AdvancesTrans
  <2>7. kernel' = [g EXCEPT !.rebuildFailed = TRUE]  BY <1>1, <1>4
  <2> HIDE DEF g
  <2>8. Advances(k, [g EXCEPT !.rebuildFailed = TRUE])  BY <1>2, <2>6, QuarantinedGood
  <2>9. QED  BY <2>7, <2>8 DEF k
<1>5. CASE k.state \notin {"CLOSED", "FAILED"} /\ ~error
  <2>1. Advances(k, run)  BY <1>1, <1>2, <1>5, ImageGood
  <2> HIDE DEF run
  <2>2. QED  BY <1>1, <1>5, <2>1 DEF k
<1>6. QED  BY <1>3, <1>4, <1>5

\* A client that is refused before commit is told so.
LEMMA RefuseGood ==
  ASSUME NEW k, Good(k), NEW r \in Requests, k.outcomes[r] = <<>>, r \notin k.issued
  PROVE  Advances(k, Completed(k, r, "NOT_SUBMITTED"))
<1> DEFINE j == Completed(k, r, "NOT_SUBMITTED")
           out == [k.outcomes EXCEPT ![r] = <<"NOT_SUBMITTED">>]
<1>1. /\ Shape(k) /\ NumberType(k) /\ FieldType(k) /\ ~k.tripped /\ EpochInv(k)
      /\ ExchangeInv(k) /\ OperationInv(k) /\ CallbackInv(k) /\ OutcomeInv(k) /\ PrepareInv(k)
  BY Parts DEF Good
<1>2. k.outcomes \in [Requests -> Seq(Outcomes)]  BY <1>1 DEF FieldType
<1>3. /\ Append(<<>>, "NOT_SUBMITTED") = <<"NOT_SUBMITTED">>
      /\ <<"NOT_SUBMITTED">> \in Seq(Outcomes) /\ Len(<<"NOT_SUBMITTED">>) = 1
      /\ <<"NOT_SUBMITTED">> # <<>> /\ <<"NOT_SUBMITTED">> # <<"SUCCESS">>
  BY OneOutcome DEF Outcomes
<1>4. /\ Shape(j) /\ j.operation = k.operation /\ j.issued = k.issued
      /\ j.state = k.state /\ j.campaign = k.campaign /\ j.armed = k.armed
      /\ j.continuation = k.continuation /\ j.exchanges = k.exchanges
      /\ j.fence = k.fence /\ j.maxEpoch = k.maxEpoch /\ j.preparing = k.preparing
      /\ j.promised = k.promised /\ j.proven = k.proven
      /\ j.publication = k.publication /\ j.reconstruction = k.reconstruction
      /\ j.imageIndex = k.imageIndex /\ j.publishedIndex = k.publishedIndex
      /\ j.tripped = k.tripped
      /\ j.quorumPeer = k.quorumPeer /\ j.deferredPeer = k.deferredPeer
      /\ j.failedPeer = k.failedPeer /\ j.carried = k.carried
  BY <1>1 DEF Completed, Shape, Fields
<1>5. j.outcomes = out
  <2>1. j.outcomes = [k.outcomes EXCEPT ![r] = Append(@, "NOT_SUBMITTED")]
    BY <1>1 DEF Completed, Shape, Fields
  <2> HIDE DEF j
  <2>2. [k.outcomes EXCEPT ![r] = Append(@, "NOT_SUBMITTED")] = out  BY <1>2, <1>3
  <2>3. QED  BY <2>1, <2>2
<1>6. out \in [Requests -> Seq(Outcomes)] /\ out[r] = <<"NOT_SUBMITTED">>
      /\ \A x \in Requests \ {r} : out[x] = k.outcomes[x]
  BY <1>2, <1>3
<1> HIDE DEF j, out
<1>7. NumberType(j) /\ FieldType(j)  BY <1>1, <1>4, <1>5, <1>6 DEF NumberType, FieldType
<1>8. EpochInv(j)  BY <1>1, <1>4 DEF EpochInv, Serving
<1>9. ExchangeInv(j) /\ OperationInv(j)  BY <1>1, <1>4 DEF ExchangeInv, OperationInv
<1>10. CallbackInv(j)  BY <1>1, <1>4 DEF CallbackInv, Valid, AtRest, NoProofDue
<1>11. OutcomeInv(j)
  <2>1. ASSUME NEW x \in Requests
        PROVE  /\ Len(out[x]) <= 1
               /\ out[x] = <<"NOT_SUBMITTED">> => x \notin k.issued
               /\ x \in k.issued => (out[x] = <<>>) = (k.operation.request = x)
    <3>1. CASE x = r
      <4>1. Len(out[x]) = 1 /\ x \notin k.issued  BY <1>3, <1>6, <3>1, Zenon
      <4>2. QED  BY <4>1
    <3>2. CASE x # r
      <4>1. out[x] = k.outcomes[x]  BY <1>6, <3>2
      <4>2. QED  BY <1>1, <4>1, Zenon DEF OutcomeInv
    <3>3. QED  BY <3>1, <3>2
  <2>2. k.operation.request # 0 => k.operation.request \in k.issued  BY <1>1 DEF OutcomeInv
  <2>3. QED  BY <1>4, <1>5, <2>1, <2>2 DEF OutcomeInv
<1>12. Base(j)  BY <1>1, <1>4, <1>7, <1>8, <1>9, <1>10, <1>11, Parts
<1>13. Good(j)  BY <1>1, <1>4, <1>12 DEF Good, PrepareInv, Awaits, Serving
<1>14. \A x \in Requests : j.outcomes[x] = <<"SUCCESS">> => k.outcomes[x] = <<"SUCCESS">>
  <2>1. SUFFICES ASSUME NEW x \in Requests, out[x] = <<"SUCCESS">>
                 PROVE  k.outcomes[x] = <<"SUCCESS">>
    BY <1>5, Zenon
  <2>2. x # r  BY <1>3, <1>6, <2>1, Zenon
  <2>3. QED  BY <1>6, <2>1, <2>2
<1>15. Moves(k, j)  BY <1>1, <1>4, <1>14 DEF Moves, NumberType
<1>16. QED  BY <1>4, <1>13, <1>15 DEF Advances, j

\* submit.
LEMMA StepSubmit ==
  ASSUME Good(kernel), NEW r \in Requests, NEW fits \in BOOLEAN, NEW ok \in BOOLEAN,
         Submit(r, fits, ok)
  PROVE  Advances(kernel, kernel')
<1> DEFINE k == kernel
           m == Commit(k, r, FALSE, TRUE, ok)
           admitted == /\ k.state = "LEADER_READY" /\ k.operation = NoOperation
                       /\ k.publication = NoPublication /\ fits
<1>1. /\ k.outcomes[r] = <<>> /\ r \notin k.issued
      /\ kernel' = IF admitted THEN m ELSE Completed(k, r, "NOT_SUBMITTED")
  BY DEF Submit
<1>2. Good(k) /\ ExchangeInv(k) /\ FieldType(k)  BY Parts DEF Good
<1> HIDE DEF k
<1>3. Advances(k, Completed(k, r, "NOT_SUBMITTED"))  BY <1>1, <1>2, RefuseGood
<1>4. ASSUME admitted PROVE Advances(k, m)
  <2>1. \A p \in Peers : k.exchanges[p]["INSTALL"] = 0
    <3>1. \A p \in Peers : k.exchanges[p]["INSTALL"] \in Nat  BY <1>2 DEF FieldType, Kinds
    <3>2. QED  BY <1>2, <1>4, <3>1 DEF ExchangeInv
  <2>2. r # 0  BY RequestsAssumption
  <2>3. PICK request \in Requests \union {0} : request = r  OBVIOUS
  <2>4. PICK activating \in BOOLEAN : activating = FALSE  OBVIOUS
  <2>5. PICK own \in BOOLEAN : own = TRUE  OBVIOUS
  <2>6. /\ Good(Commit(k, request, activating, own, ok))
        /\ Moves(k, Commit(k, request, activating, own, ok))
        /\ Keeps(k, Commit(k, request, activating, own, ok))
    BY <1>1, <1>2, <1>4, <2>1, <2>2, <2>3, <2>4, CommitGood
  <2>7. m = Commit(k, request, activating, own, ok)  BY <2>3, <2>4, <2>5
  <2> HIDE DEF m
  <2>8. QED  BY <2>6, <2>7 DEF Advances, Keeps
<1> HIDE DEF m, admitted
<1>5. QED  BY <1>1, <1>3, <1>4 DEF k

\* The first half of Moves.
Progresses(k, j) ==
  /\ j.promised >= k.promised /\ j.proven >= k.proven
  /\ j.fence >= k.fence /\ j.publishedIndex >= k.publishedIndex

\* What AcknowledgedIsPublished says of two values of the monitor.
Acknowledges(k, j) ==
  \A r \in Requests :
    j.outcomes[r] = <<"SUCCESS">> /\ k.outcomes[r] # <<"SUCCESS">> =>
      /\ k.operation.request = r /\ k.operation.proved
      /\ \A p \in Peers : k.exchanges[p]["PROOF"] = 0
      /\ k.publication.index = k.operation.index
      /\ j.publishedIndex = k.operation.index
      /\ k.fence = k.promised

\* The publication is over.
Concludes(k, j) ==
  Good(j) /\ Progresses(k, j) /\ Acknowledges(k, j) /\ j.publication = NoPublication

\* A value without a publication that moves nothing back concludes it.
LEMMA MovesConcludes ==
  ASSUME NEW k, NEW j, Good(j), Moves(k, j), j.publication = NoPublication
  PROVE  Concludes(k, j)
BY DEF Concludes, Moves, Progresses, Acknowledges

\* j is k after its publication of index i, but for the operation, the state,
\* the outcomes and the peer to be avoided, of which this says nothing.
Rested(k, j, i) ==
  /\ Shape(j)
  /\ j.publication = NoPublication /\ j.publishedIndex = i
  /\ j.campaign = k.campaign /\ j.armed = k.armed /\ j.continuation = k.continuation
  /\ j.fence = k.fence /\ j.maxEpoch = k.maxEpoch /\ j.preparing = k.preparing
  /\ j.promised = k.promised /\ j.proven = k.proven /\ j.exchanges = k.exchanges
  /\ j.reconstruction = k.reconstruction /\ j.imageIndex = k.imageIndex
  /\ j.tripped = k.tripped /\ j.issued = k.issued /\ j.carried = k.carried
  /\ j.quorumPeer = k.quorumPeer /\ j.deferredPeer = k.deferredPeer

\* The end of a publication that is not the operation's keeps the invariant.
LEMMA RestedGood ==
  ASSUME NEW k, Good(k), k.publication # NoPublication, NEW i \in Nat,
         k.publishedIndex <= i, i <= k.proven,
         NEW j, Rested(k, j, i), j.state = k.state, j.operation = k.operation,
         j.outcomes = k.outcomes, j.failedPeer = k.failedPeer
  PROVE  Good(j) /\ Concludes(k, j) /\ Moves(k, j)
<1>1. /\ Shape(k) /\ NumberType(k) /\ FieldType(k) /\ ~k.tripped /\ EpochInv(k)
      /\ ExchangeInv(k) /\ OperationInv(k) /\ CallbackInv(k) /\ OutcomeInv(k) /\ PrepareInv(k)
  BY Parts DEF Good
<1>2. NumberType(j)  BY <1>1 DEF NumberType, Rested
<1>3. FieldType(j)  BY <1>1, NoneTyped DEF FieldType, Rested
<1>4. EpochInv(j)  BY <1>1 DEF EpochInv, Serving, Rested
<1>5. ExchangeInv(j)  BY <1>1 DEF ExchangeInv, Rested
<1>6. OperationInv(j) /\ OutcomeInv(j)  BY <1>1 DEF OperationInv, OutcomeInv, Rested
<1>7. CallbackInv(j)
  <2>1. k.continuation.task # "NONE" => Valid(j, k.continuation)
    BY <1>1 DEF CallbackInv, Valid, Rested, NoProofDue
  <2>2. ~(k.state = "LEADER_READY" /\ k.operation = NoOperation)
    BY <1>1 DEF CallbackInv, AtRest
  <2>3. QED  BY <1>1, <2>1, <2>2 DEF CallbackInv, Rested
<1>8. Base(j)  BY <1>1, <1>2, <1>3, <1>4, <1>5, <1>6, <1>7, Parts DEF Rested
<1>9. Good(j)  BY <1>1, <1>8 DEF Good, PrepareInv, Awaits, Serving, Rested
<1>10. Moves(k, j)  BY <1>1 DEF Moves, NumberType, Rested
<1>11. j.publication = NoPublication  BY DEF Rested
<1>12. QED  BY <1>9, <1>10, <1>11, MovesConcludes

\* The end of the operation's own publication tells its client of success, and
\* rightly so.
LEMMA SettledGood ==
  ASSUME NEW k, Good(k), k.publication # NoPublication, k.operation # NoOperation,
         NEW j, Rested(k, j, k.publication.index), j.operation = NoOperation,
         j.outcomes = ToldOf(k, "SUCCESS"), j.failedPeer \in {k.failedPeer, NoPeer},
         j.state \in {k.state, "LEADER_READY"}
  PROVE  Concludes(k, j) /\ \A p \in Peers : j.exchanges[p]["INSTALL"] = 0
<1>1. /\ Shape(k) /\ NumberType(k) /\ FieldType(k) /\ ~k.tripped /\ EpochInv(k) /\ Base(k)
      /\ ExchangeInv(k) /\ OperationInv(k) /\ CallbackInv(k) /\ OutcomeInv(k) /\ PrepareInv(k)
  BY Parts DEF Good
<1>2. k.state \in {"RECOVERING", "LEADER_READY"} /\ k.campaign # 0 /\ k.preparing = 0
      /\ k.promised = k.campaign /\ k.fence = k.campaign
  BY <1>1 DEF OperationInv, EpochInv
<1>3. /\ k.operation.proved /\ NoProofDue(k) /\ k.publication.index = k.operation.index
      /\ k.imageIndex = k.proven /\ k.reconstruction = NoIndex /\ k.operation.index = k.proven
      /\ k.continuation.task = "NONE"
  <2>1. /\ k.operation.proved /\ NoProofDue(k) /\ k.publication.index = k.operation.index
        /\ k.imageIndex = k.proven /\ k.reconstruction = NoIndex
    BY <1>1, <1>2 DEF CallbackInv
  <2>2. k.operation.index = k.proven  BY <1>1, <2>1 DEF OperationInv
  <2>3. k.continuation.task = "NONE"  BY <1>1, <2>1 DEF CallbackInv
  <2>4. QED  BY <2>1, <2>2, <2>3
<1>4. /\ ToldOf(k, "SUCCESS") \in [Requests -> Seq(Outcomes)]
      /\ \A r \in Requests :
           /\ Len(ToldOf(k, "SUCCESS")[r]) <= 1
           /\ ToldOf(k, "SUCCESS")[r] = <<"NOT_SUBMITTED">> => r \notin k.issued
           /\ r \in k.issued => ToldOf(k, "SUCCESS")[r] # <<>>
           /\ ToldOf(k, "SUCCESS")[r] = <<"SUCCESS">> /\ k.outcomes[r] # <<"SUCCESS">> =>
                r = k.operation.request
  BY <1>1, Told
<1>5. NumberType(j)  BY <1>1, <1>3 DEF NumberType, Rested
<1>6. FieldType(j)  BY SMTT(30), <1>1, <1>4, NoneTyped DEF FieldType, Rested, States
<1>7. EpochInv(j)  BY <1>1, <1>2 DEF EpochInv, Serving, Rested
<1>8. \A p \in Peers : /\ ~(k.exchanges[p]["INSTALL"] > 0) /\ ~(k.exchanges[p]["ACCEPT"] > 0)
                       /\ ~(k.exchanges[p]["PROOF"] > 0) /\ ~(k.exchanges[p]["PREPARE"] > 0)
  BY <1>1, <1>2, <1>3 DEF ExchangeInv, NoProofDue
<1>9. ExchangeInv(j)  BY <1>1, <1>8 DEF ExchangeInv, Rested
<1>10. OperationInv(j)  BY DEF OperationInv
<1>11. OutcomeInv(j)
  <2>1. j.operation.request = 0 /\ 0 \notin Requests  BY RequestsAssumption DEF NoOperation
  <2>2. j.issued = k.issued  BY DEF Rested
  <2>3. QED  BY <1>4, <2>1, <2>2, Zenon DEF OutcomeInv
<1>12. CallbackInv(j)
  <2>1. j.continuation.task = "NONE" /\ j.publication = NoPublication
        /\ j.reconstruction = NoIndex /\ j.imageIndex = j.proven /\ j.publishedIndex = j.proven
        /\ j.proven = k.proven
    BY <1>3 DEF Rested
  <2>2. j.state # "STOPPED"  BY <1>2
  <2>3. j.proven \in Nat  BY <1>1, <2>1 DEF NumberType
  <2>4. QED  BY <2>1, <2>2, <2>3 DEF CallbackInv, AtRest
<1>13. Base(j)  BY <1>1, <1>5, <1>6, <1>7, <1>9, <1>10, <1>11, <1>12, Parts DEF Rested
<1>14. Good(j)  BY <1>2, <1>13 DEF Good, PrepareInv, Awaits, Rested
<1>15. Progresses(k, j)  BY <1>1, <1>3 DEF Progresses, NumberType, Rested, CallbackInv
<1>16. Acknowledges(k, j)
  <2>1. SUFFICES ASSUME NEW r \in Requests, j.outcomes[r] = <<"SUCCESS">>,
                        k.outcomes[r] # <<"SUCCESS">>
                 PROVE  /\ k.operation.request = r /\ k.operation.proved
                        /\ \A p \in Peers : k.exchanges[p]["PROOF"] = 0
                        /\ k.publication.index = k.operation.index
                        /\ j.publishedIndex = k.operation.index /\ k.fence = k.promised
    BY DEF Acknowledges
  <2>2. r = k.operation.request  BY <1>4, <2>1, Zenon
  <2>3. j.publishedIndex = k.operation.index  BY <1>3 DEF Rested
  <2>4. QED  BY <1>2, <1>3, <2>2, <2>3 DEF NoProofDue
<1>17. j.publication = NoPublication  BY DEF Rested
<1>18. \A p \in Peers : j.exchanges[p]["INSTALL"] = 0
  <2>1. \A p \in Peers : k.exchanges[p]["INSTALL"] \in Nat  BY <1>1 DEF FieldType, Kinds
  <2>2. QED  BY <1>8, <2>1 DEF Rested
<1>19. QED  BY <1>14, <1>15, <1>16, <1>17, <1>18 DEF Concludes

\* A method that follows a conclusion, telling no further success.
LEMMA QuietConcludes ==
  ASSUME NEW k, NEW j, NEW m, NumberType(k), Concludes(k, j), Good(m), Moves(j, m),
         m.publication = NoPublication, \A r \in Requests : j.outcomes[r] = k.outcomes[r]
  PROVE  Concludes(k, m)
<1>1. NumberType(j) /\ NumberType(m)  BY Parts DEF Concludes, Good
<1>2. Progresses(k, m)  BY <1>1 DEF Concludes, Progresses, Moves, NumberType
<1>3. Acknowledges(k, m)  BY DEF Acknowledges, Moves
<1>4. QED  BY <1>2, <1>3 DEF Concludes

\* A conclusion that follows a method.
LEMMA ConcludesMoves ==
  ASSUME NEW k, NEW j, NEW m, Good(k), Good(j), Moves(k, j), j.publication = NoPublication,
         Good(m), Moves(j, m), m.publication = j.publication
  PROVE  Concludes(k, m)
<1>1. NumberType(k) /\ NumberType(j) /\ NumberType(m)  BY Parts DEF Good
<1>2. Moves(k, m)  BY <1>1, MovesTrans
<1>3. QED  BY <1>2, MovesConcludes

\* The application answers a publication: stale, failed, late or in time.
LEMMA StepPublished ==
  ASSUME Good(kernel), NEW error \in BOOLEAN, NEW late \in BOOLEAN, NEW ok \in BOOLEAN,
         Published(error, late, ok)
  PROVE  Concludes(kernel, kernel')
<1> DEFINE k == kernel
           done == k.publication
           over == [k EXCEPT !.publication = NoPublication]
           cut == [over EXCEPT !.publishedIndex = done.index]
           next == [cut EXCEPT !.operation = NoOperation]
           ready == [next EXCEPT !.state = "LEADER_READY", !.failedPeer = NoPeer]
           told == Completed(next, over.operation.request, "SUCCESS")
           stopped == [Quiesce(next) EXCEPT !.quarantined = TRUE]
           more == Commit(next, 0, TRUE, TRUE, TRUE)
<1>1. /\ done # NoPublication
      /\ kernel' =
          IF k.state \in {"CLOSED", "FAILED"} THEN over
          ELSE IF error THEN Fail(over)
          ELSE IF done.local
            THEN IF over.publishedIndex <= done.index /\ done.index <= over.proven
                   THEN cut ELSE Trip(over)
          ELSE IF over.operation = NoOperation \/ over.campaign # done.ballot
                    \/ over.fence # done.ballot \/ over.promised # done.ballot THEN over
          ELSE IF late THEN Abandon(over, TRUE)
          ELSE IF ~over.operation.activating THEN told
          ELSE IF over.operation.own THEN ready
          ELSE IF ok THEN more
          ELSE stopped
  BY DEF Published
<1>2. Good(k)  OBVIOUS
<1> HIDE DEF k
<1>3. /\ Shape(k) /\ NumberType(k) /\ FieldType(k) /\ CallbackInv(k) /\ OperationInv(k)
  BY <1>2, Parts DEF Good
<1>4. k.publishedIndex <= done.index /\ done.index <= k.proven /\ done.index \in Nat
      /\ k.publishedIndex \in Nat /\ k.publishedIndex <= k.publishedIndex
      /\ k.publishedIndex <= k.proven
  BY <1>1, <1>3 DEF CallbackInv, NumberType, FieldType
<1>5. /\ Rested(k, over, k.publishedIndex) /\ over.state = k.state
      /\ over.operation = k.operation /\ over.outcomes = k.outcomes
      /\ over.failedPeer = k.failedPeer
  BY <1>3 DEF Rested, Shape, Fields
<1>6. /\ Rested(k, cut, done.index) /\ cut.state = k.state
      /\ cut.operation = k.operation /\ cut.outcomes = k.outcomes
      /\ cut.failedPeer = k.failedPeer
  BY <1>3 DEF Rested, Shape, Fields
<1>7. /\ Rested(k, next, done.index) /\ next.state = k.state
      /\ next.operation = NoOperation /\ next.outcomes = k.outcomes
      /\ next.failedPeer = k.failedPeer
  BY <1>3 DEF Rested, Shape, Fields
<1>8. /\ Rested(k, ready, done.index) /\ ready.state = "LEADER_READY"
      /\ ready.operation = NoOperation /\ ready.outcomes = k.outcomes
      /\ ready.failedPeer = NoPeer
  BY <1>3 DEF Rested, Shape, Fields
<1>9. over.operation.request # 0 =>
        /\ Rested(k, told, done.index) /\ told.state = k.state
        /\ told.operation = NoOperation /\ told.failedPeer = k.failedPeer
        /\ told.outcomes = ToldOf(k, "SUCCESS")
  <2>1. over.operation.request = k.operation.request  BY <1>5
  <2> HIDE DEF over
  <2>2. Shape(next) /\ next.outcomes = k.outcomes  BY <1>7 DEF Rested
  <2> HIDE DEF next
  <2>3. /\ Rested(k, told, done.index) /\ told.state = next.state
        /\ told.operation = next.operation /\ told.failedPeer = next.failedPeer
    BY <1>7, <2>2 DEF Completed, Rested, Shape, Fields
  <2>4. told.outcomes
          = [next.outcomes EXCEPT ![k.operation.request] = Append(@, "SUCCESS")]
    BY <2>1, <2>2 DEF Completed, Shape, Fields
  <2> HIDE DEF told
  <2>5. k.operation.request # 0 => told.outcomes = ToldOf(k, "SUCCESS")
    BY <2>2, <2>4 DEF ToldOf
  <2>6. QED  BY <1>7, <2>1, <2>3, <2>5
<1> HIDE DEF over, cut, next, ready, told, done
<1>10. Good(over) /\ Concludes(k, over) /\ Moves(k, over) /\ over.publication = NoPublication
  <2>1. over.publication = NoPublication  BY <1>5 DEF Rested
  <2>2. k.publication # NoPublication  BY <1>1 DEF done
  <2>3. QED  BY <1>2, <1>4, <1>5, <2>1, <2>2, RestedGood
<1>11. Concludes(k, cut)
  <2>1. k.publication # NoPublication  BY <1>1 DEF done
  <2>2. QED  BY <1>2, <1>4, <1>6, <2>1, RestedGood
<1>12. Concludes(k, Fail(over))
  <2>1. Base(over)  BY <1>10 DEF Good
  <2>2. Good(Fail(over)) /\ Moves(over, Fail(over)) /\ Fail(over).publication = over.publication
    BY <2>1, FailGood
  <2>3. QED  BY <1>2, <1>10, <2>2, ConcludesMoves
<1>13. ASSUME over.operation # NoOperation PROVE Concludes(k, Abandon(over, TRUE))
  <2> DEFINE a == Abandon(over, TRUE)
  <2>1. Advances(over, a)  BY <1>10, <1>13, AbandonCampaign
  <2>2. a.publication = over.publication
    <3>1. Shape(over)  BY <1>5 DEF Rested
    <3>2. QED  BY <3>1, AbandonClears
  <2> HIDE DEF a
  <2>3. Concludes(k, a)  BY <1>2, <1>10, <2>1, <2>2, ConcludesMoves DEF Advances
  <2>4. QED  BY <2>3 DEF a
<1>14. ASSUME over.operation # NoOperation
       PROVE  /\ ~over.operation.activating => Concludes(k, told)
              /\ over.operation.activating => Concludes(k, ready)
              /\ over.operation.activating => Concludes(k, more) /\ Concludes(k, stopped)
  <2>1. k.publication # NoPublication /\ k.operation # NoOperation
        /\ over.operation = k.operation
    BY <1>1, <1>5, <1>14 DEF done
  <2>2. (k.operation.activating <=> k.operation.request = 0)
        /\ (k.operation.activating => k.state = "RECOVERING")
    BY <1>3, <2>1 DEF OperationInv, FieldType
  <2>3. ASSUME ~over.operation.activating PROVE Concludes(k, told)
    <3>1. over.operation.request # 0  BY <2>1, <2>2, <2>3
    <3>2. QED  BY <1>2, <1>9, <2>1, <3>1, SettledGood DEF done
  <2>4. ASSUME over.operation.activating
        PROVE  Concludes(k, ready) /\ Concludes(k, more) /\ Concludes(k, stopped)
    <3>1. ToldOf(k, "SUCCESS") = k.outcomes  BY <2>1, <2>2, <2>4 DEF ToldOf
    <3>2. Concludes(k, ready)  BY <1>2, <1>8, <2>1, <3>1, SettledGood DEF done
    <3>3. Concludes(k, next) /\ \A p \in Peers : next.exchanges[p]["INSTALL"] = 0
      BY <1>2, <1>7, <2>1, <3>1, SettledGood DEF done
    <3>4. next.state = "RECOVERING" /\ next.operation = NoOperation /\ Good(next)
          /\ next.publication = NoPublication /\ Shape(next)
      BY <1>7, <2>1, <2>2, <2>4, <3>3 DEF Concludes, Rested
    <3>5. Concludes(k, more)
      <4>1. Good(more) /\ Moves(next, more) /\ Keeps(next, more)
        BY <3>3, <3>4, ActivationGood
      <4>2. \A r \in Requests : next.outcomes[r] = k.outcomes[r]  BY <1>7
      <4> HIDE DEF more
      <4>3. more.publication = NoPublication  BY <3>4, <4>1 DEF Keeps
      <4>4. QED  BY <1>2, <1>3, <3>3, <4>1, <4>2, <4>3, QuietConcludes
    <3>6. Concludes(k, stopped)
      <4> DEFINE q == Quiesce(next)
      <4>1. Advances(next, q)  BY <3>4, QuiesceGood DEF Advances
      <4>2. q.publication = NoPublication /\ Shape(q)
        <5>1. q.publication = next.publication  BY <3>4, QuiesceGood
        <5>2. Shape(q)  BY <4>1, Parts DEF Advances, Good
        <5>3. QED  BY <3>4, <5>1, <5>2
      <4> HIDE DEF q
      <4>3. Advances(next, [q EXCEPT !.quarantined = TRUE])  BY <3>4, <4>1, QuarantinedGood
      <4> DEFINE s == [q EXCEPT !.quarantined = TRUE]
      <4>4. s.publication = NoPublication  BY <4>2 DEF Shape, Fields
      <4>5. stopped = s  BY DEF q
      <4> HIDE DEF s
      <4>6. \A r \in Requests : next.outcomes[r] = k.outcomes[r]  BY <1>7
      <4>7. Concludes(k, s)
        BY <1>2, <1>3, <3>3, <4>3, <4>4, <4>6, QuietConcludes DEF Advances, s
      <4>8. QED  BY <4>5, <4>7
    <3>7. QED  BY <3>2, <3>5, <3>6
  <2>5. QED  BY <2>3, <2>4
<1>15. over.publishedIndex <= done.index /\ done.index <= over.proven
  BY <1>4, <1>5 DEF Rested
<1>16. Concludes(k, kernel')
  <2> HIDE DEF more, stopped
  <2>1. QED  BY <1>1, <1>10, <1>11, <1>12, <1>13, <1>14, <1>15
<1>17. QED  BY <1>16 DEF k

\* Outcomes in which no issued request is in flight any more.
Answered(is, out) ==
  /\ is \in SUBSET Requests /\ out \in [Requests -> Seq(Outcomes)]
  /\ \A r \in Requests : /\ Len(out[r]) <= 1
                         /\ out[r] = <<"NOT_SUBMITTED">> => r \notin is
                         /\ r \in is => out[r] # <<>>

\* The monitor of a new process, with what earlier clients were told.
Reopened(promised, proven, is, out) ==
  [Opened(promised, proven) EXCEPT !.issued = is, !.outcomes = out]

\* A process that starts on the files of the earlier one is good.
LEMMA OpenedGood ==
  ASSUME NEW promised \in Nat, promised >= 1, NEW proven \in Nat,
         NEW is, NEW out, Answered(is, out),
         NEW j, j = Reopened(promised, proven, is, out)
  PROVE  Good(j) /\ j.promised = promised /\ j.proven = proven /\ j.outcomes = out
<1>1. /\ Shape(j) /\ j.state = "STOPPED" /\ j.fence = promised /\ j.campaign = 0
      /\ j.promised = promised /\ j.maxEpoch = promised /\ j.quorumPeer = NoPeer
      /\ j.failedPeer = NoPeer /\ j.deferredPeer = NoPeer /\ j.carried = FALSE
      /\ j.operation = NoOperation /\ j.preparing = 0 /\ j.reconstruction = NoIndex
      /\ j.publication = NoPublication /\ j.continuation = NoTask /\ j.imageIndex = NoIndex
      /\ j.publishedIndex = 0 /\ j.proven = proven /\ j.exchanges = NoExchanges
      /\ j.armed = FALSE /\ j.tripped = FALSE /\ j.issued = is /\ j.outcomes = out
  BY DEF Reopened, Opened, Shape, Fields
<1>2. NumberType(j)  BY <1>1 DEF NumberType
<1>3. FieldType(j)  BY <1>1, NoneTyped DEF FieldType, Answered, States
<1>4. EpochInv(j)  BY <1>1 DEF EpochInv, Serving
<1>5. ExchangeInv(j)  BY <1>1 DEF ExchangeInv, NoExchanges, Kinds
<1>6. OperationInv(j)  BY <1>1 DEF OperationInv
<1>7. CallbackInv(j)  BY <1>1 DEF CallbackInv, NoTask, NoIndex
<1>8. OutcomeInv(j)
  <2>1. j.operation.request = 0 /\ 0 \notin Requests
    BY <1>1, RequestsAssumption DEF NoOperation
  <2>2. QED  BY <1>1, <2>1, Zenon DEF OutcomeInv, Answered
<1>9. Base(j)  BY <1>1, <1>2, <1>3, <1>4, <1>5, <1>6, <1>7, <1>8, Parts
<1>10. Good(j)  BY <1>1, <1>9 DEF Good, PrepareInv, Awaits
<1>11. QED  BY <1>1, <1>10

\* The process ends and starts again.
LEMMA StepRestart ==
  ASSUME Good(kernel), Restart
  PROVE  /\ Good(kernel') /\ Acknowledges(kernel, kernel')
         /\ kernel'.promised = kernel.promised /\ kernel'.proven = kernel.proven
<1> DEFINE k == kernel
           told == IF k.operation.request = 0 THEN k
                   ELSE Completed(k, k.operation.request, "LOST")
           out == ToldOf(k, "LOST")
           j == Reopened(k.promised, k.proven, k.issued, out)
<1>1. kernel' = [Opened(k.promised, k.proven) EXCEPT
                   !.issued = told.issued, !.outcomes = told.outcomes]
  BY DEF Restart
<1>2. /\ Base(k) /\ Shape(k) /\ NumberType(k) /\ FieldType(k) /\ EpochInv(k)
  BY Parts DEF Good
<1> HIDE DEF k
<1>3. told.issued = k.issued /\ told.outcomes = out
  BY <1>2 DEF Completed, ToldOf, Shape, Fields
<1> HIDE DEF told
<1>4. kernel' = j  BY <1>1, <1>3 DEF Reopened
<1>5. Answered(k.issued, out)
  <2>1. k.issued \in SUBSET Requests  BY <1>2 DEF FieldType
  <2>2. QED  BY <1>2, <2>1, Told DEF Answered
<1>6. \A r \in Requests : ~(out[r] = <<"SUCCESS">> /\ k.outcomes[r] # <<"SUCCESS">>)
  <2>1. "LOST" # "SUCCESS"  OBVIOUS
  <2>2. QED  BY <1>2, <2>1, Told
<1>7. k.promised \in Nat /\ k.promised >= 1 /\ k.proven \in Nat
  BY <1>2 DEF NumberType, EpochInv
<1> HIDE DEF out
<1>8. Good(j) /\ j.promised = k.promised /\ j.proven = k.proven /\ j.outcomes = out
  <2>1. j = Reopened(k.promised, k.proven, k.issued, out)  OBVIOUS
  <2> HIDE DEF j
  <2>2. QED  BY <1>5, <1>7, <2>1, OpenedGood
<1> HIDE DEF j
<1>9. Acknowledges(k, j)  BY <1>6, <1>8 DEF Acknowledges
<1>10. QED  BY <1>4, <1>8, <1>9 DEF k

-----------------------------------------------------------------------------

\* What every step of the specification does to the monitor.
Steps ==
  \/ Advances(kernel, kernel') /\ UNCHANGED starts
  \/ Concludes(kernel, kernel') /\ UNCHANGED starts
  \/ /\ Good(kernel') /\ Acknowledges(kernel, kernel') /\ starts' = starts + 1
     /\ kernel'.promised = kernel.promised /\ kernel'.proven = kernel.proven

\* The monitor in every step of the specification, one case per call.
LEMMA NextSteps ==
  ASSUME IInv, Next
  PROVE  Steps /\ rejoin' \in [ballot : Nat, seen : Nat]
<1>1. Good(kernel) /\ rejoin \in [ballot : Nat, seen : Nat]  BY DEF IInv
<1>2. NoCycle \in [ballot : Nat, seen : Nat]  BY DEF NoCycle
<1>3. /\ \A e \in 2..MaxEpoch : e \in Nat
      /\ \A i \in 0..MaxIndex : i \in Nat
  BY KernelBoundsAssumption
<1>4. CASE Restored
  BY <1>1, <1>4, StepRestored DEF Steps, Restored, Same
<1>5. CASE \E ok \in BOOLEAN : Start(ok)
  BY <1>1, <1>5, StepStart DEF Steps, Start, Same
<1>6. CASE Close
  BY <1>1, <1>6, StepClose DEF Steps, Close, Same
<1>7. CASE Restart
  BY <1>1, <1>2, <1>7, StepRestart DEF Steps, Restart
<1>8. CASE \E due \in Due, ok \in BOOLEAN : Tick(due, ok)
  BY <1>1, <1>8, StepTick DEF Steps, Tick, Same
<1>9. CASE \E p \in Peers, kind \in Kinds, late, beat \in BOOLEAN : TickExpired(p, kind, late, beat)
  BY <1>1, <1>9, StepTickExpired DEF Steps, TickExpired, Same
<1>10. CASE \E b \in 2..MaxEpoch, ok \in BOOLEAN : HandlePrepare(b, ok)
  BY <1>1, <1>3, <1>10, StepHandlePrepare DEF Steps, HandlePrepare, Same
<1>11. CASE \E prefix \in 0..MaxIndex, free, ok \in BOOLEAN : HandleInstall(prefix, free, ok)
  BY <1>1, <1>3, <1>11, StepHandleInstall DEF Steps, HandleInstall, Same
<1>12. CASE \E ok \in BOOLEAN : HandleAccept(ok)
  BY <1>1, <1>12, StepHandleAccept DEF Steps, HandleAccept, Same
<1>13. CASE \E ok \in BOOLEAN : HandleProof(ok)
  BY <1>1, <1>13, StepHandleProof DEF Steps, HandleProof, Same
<1>14. CASE \E p \in Peers, kind \in Kinds, late \in BOOLEAN : Refused(p, kind, late)
  BY <1>1, <1>14, StepRefused DEF Steps, Refused, Same
<1>15. CASE \E p \in Peers, kind \in Kinds : AnsweredLate(p, kind)
  BY <1>1, <1>15, StepAnsweredLate DEF Steps, AnsweredLate, Same
<1>16. CASE \E p \in Peers, kind \in Kinds, epoch \in 2..MaxEpoch : Fenced(p, kind, epoch)
  BY <1>1, <1>3, <1>16, StepFenced DEF Steps, Fenced, Same
<1>17. CASE \E p \in Peers, prefix \in 0..MaxIndex, carried, free, ok \in BOOLEAN :
              Promised(p, prefix, carried, free, ok)
  <2>1. PICK p \in Peers, prefix \in 0..MaxIndex, carried \in BOOLEAN, free \in BOOLEAN,
             ok \in BOOLEAN : Promised(p, prefix, carried, free, ok)
    BY <1>17
  <2>2. Advances(kernel, kernel')  BY <1>1, <1>3, <2>1, StepPromised
  <2>3. QED  BY <1>1, <2>1, <2>2 DEF Steps, Promised, Same
<1>18. CASE \E p \in Peers, ok \in BOOLEAN : Installed(p, ok)
  BY <1>1, <1>18, StepInstalled DEF Steps, Installed, Same
<1>19. CASE \E p \in Peers, ok \in BOOLEAN : Accepted(p, ok)
  BY <1>1, <1>19, StepAccepted DEF Steps, Accepted, Same
<1>20. CASE \E p \in Peers, ok \in BOOLEAN : Proved(p, ok)
  BY <1>1, <1>20, StepProved DEF Steps, Proved, Same
<1>21. CASE \E p \in Peers : HeartbeatAnswered(p)
  BY <1>1, <1>21, StepHeartbeatAnswered DEF Steps, HeartbeatAnswered, Same
<1>22. CASE \E error, ok \in BOOLEAN : Reconstructed(error, ok)
  BY <1>1, <1>22, StepReconstructed DEF Steps, Reconstructed, Same
<1>23. CASE \E error, late, ok \in BOOLEAN : Published(error, late, ok)
  BY <1>1, <1>23, StepPublished DEF Steps, Published, Same
<1>24. CASE \E r \in Requests, fits, ok \in BOOLEAN : Submit(r, fits, ok)
  BY <1>1, <1>24, StepSubmit DEF Steps, Submit, Same
<1>25. CASE \E r \in Requests : Cancel(r)
  BY <1>1, <1>25, StepCancel DEF Steps, Cancel, Same
<1>26. CASE \E epoch \in 2..MaxEpoch : ProbeAnswered(epoch)
  BY <1>1, <1>3, <1>26, AdvancesSelf DEF Steps, ProbeAnswered
<1>27. CASE Cycle
  <2>1. kernel.promised \in Nat  BY <1>1, Parts DEF Good, NumberType
  <2>2. QED  BY <1>1, <1>27, <2>1, AdvancesSelf DEF Steps, Cycle
<1>28. CASE ReportPromise
  BY <1>1, <1>2, <1>28, StepReportPromise DEF Steps, ReportPromise
<1>29. CASE CycleEnds
  BY <1>1, <1>2, <1>29, AdvancesSelf DEF Steps, CycleEnds
<1>30. CASE \E epoch \in 2..MaxEpoch : RequestRefused(epoch)
  BY <1>1, <1>3, <1>30, StepRequestRefused DEF Steps, RequestRefused, Same
<1>31. CASE \E cut \in 0..MaxIndex : Rejoin(cut)
  BY <1>1, <1>3, <1>31, StepRejoin DEF Steps, Rejoin, Same
<1>32. CASE MaintenanceFails
  BY <1>1, <1>32, StepMaintenanceFails DEF Steps, MaintenanceFails, Same
<1>33. QED
  BY <1>4, <1>5, <1>6, <1>7, <1>8, <1>9, <1>10, <1>11, <1>12, <1>13, <1>14, <1>15, <1>16,
     <1>17, <1>18, <1>19, <1>20, <1>21, <1>22, <1>23, <1>24, <1>25, <1>26, <1>27, <1>28,
     <1>29, <1>30, <1>31, <1>32 DEF Next


\* The first process is good.
LEMMA InitGood == Init => IInv
<1> SUFFICES ASSUME Init PROVE IInv  OBVIOUS
<1> DEFINE none == [r \in Requests |-> <<>>]
           j == Reopened(1, 0, {}, none)
<1>1. Answered({}, none)  BY DEF Answered, Outcomes
<1>2. j = Opened(1, 0)
  <2> DEFINE o == Opened(1, 0)
  <2>1. o.issued = {} /\ o.outcomes = none  BY DEF Opened
  <2>2. o = [x \in DOMAIN o |-> o[x]]  BY DEF Opened
  <2>3. j = [o EXCEPT !.issued = {}, !.outcomes = none]  BY DEF Reopened
  <2> HIDE DEF j, o, none
  <2>4. j = o  BY <2>1, <2>2, <2>3
  <2>5. QED  BY <2>4 DEF o
<1>3. PICK one \in Nat : one = 1  OBVIOUS
<1>4. PICK zero \in Nat : zero = 0  OBVIOUS
<1>5. one >= 1 /\ j = Reopened(one, zero, {}, none)  BY <1>3, <1>4
<1> HIDE DEF j, none
<1>6. Good(j)  BY <1>1, <1>5, OpenedGood
<1>7. rejoin \in [ballot : Nat, seen : Nat]  BY DEF Init, NoCycle
<1>8. QED  BY <1>2, <1>6, <1>7 DEF Init, IInv

\* Every step keeps the inductive invariant.
LEMMA StepGood == IInv /\ [Next]_vars => IInv'
<1> SUFFICES ASSUME IInv, [Next]_vars PROVE IInv'  OBVIOUS
<1>1. CASE Next
  <2>1. Steps /\ rejoin' \in [ballot : Nat, seen : Nat]  BY <1>1, NextSteps
  <2>2. Good(kernel')  BY <2>1 DEF Steps, Advances, Concludes
  <2>3. starts' \in Nat  BY <2>1 DEF Steps, IInv
  <2>4. QED  BY <2>1, <2>2, <2>3 DEF IInv
<1>2. CASE UNCHANGED vars  BY <1>2 DEF vars, IInv
<1>3. QED  BY <1>1, <1>2

\* The inductive invariant holds in every reachable state, for every number of
\* requests, epochs, indexes and starts.
THEOREM Inductive == Spec => []IInv
<1>1. QED  BY InitGood, StepGood, PTL DEF Spec

\* No check of the kernel's own (need, the capacity of send, the order of its
\* phases) ever fails, in whatever order answers, callbacks, timeouts and
\* reports arrive.
THEOREM KernelChecksHold == Spec => []ChecksHold
<1>1. IInv => ChecksHold  BY DEF IInv, Good, Base, ChecksHold
<1>2. QED  BY <1>1, Inductive, PTL

\* LEADER_READY means that the campaign is the fence and the durable promise;
\* and at rest all that is proven is published and no callback is outstanding.
THEOREM ReadyLeaderIsCurrent == Spec => []ReadyIsCurrent
<1>1. IInv => ReadyIsCurrent
  <2> SUFFICES ASSUME IInv, kernel.state = "LEADER_READY" PROVE ReadyIsCurrent
    BY DEF ReadyIsCurrent
  <2>1. EpochInv(kernel) /\ CallbackInv(kernel)  BY Parts DEF IInv, Good
  <2>2. kernel.campaign # 0 /\ kernel.promised = kernel.campaign  BY <2>1 DEF EpochInv
  <2>3. kernel.campaign = kernel.fence /\ Owner(kernel.campaign) = Local
    BY <2>1, <2>2 DEF EpochInv
  <2>4. kernel.operation = NoOperation => AtRest(kernel)  BY <2>1 DEF CallbackInv
  <2>5. QED  BY <2>2, <2>3, <2>4 DEF ReadyIsCurrent, AtRest
<1>2. QED  BY <1>1, Inductive, PTL

\* A client is told one outcome at most, NOT_SUBMITTED only if nothing was
\* issued, and an issued request is either in flight or answered.
THEOREM OutcomesStayHonest == Spec => []OutcomesHonest
<1>1. IInv => OutcomesHonest
  <2> SUFFICES ASSUME IInv PROVE OutcomesHonest  OBVIOUS
  <2>1. OutcomeInv(kernel)  BY Parts DEF IInv, Good
  <2>2. QED  BY <2>1, Zenon DEF OutcomeInv, OutcomesHonest
<1>2. QED  BY <1>1, Inductive, PTL

\* A serving voter without a campaign has its election timer armed, and a
\* PREPARE of the fence keeps its continuation and the reconstruction it needs.
THEOREM NothingIsForgotten == Spec => []NothingForgotten
<1>1. IInv => NothingForgotten
  <2> SUFFICES ASSUME IInv, Serving(kernel) PROVE NothingForgotten  BY DEF NothingForgotten
  <2>1. EpochInv(kernel) /\ CallbackInv(kernel) /\ PrepareInv(kernel)
    BY Parts DEF IInv, Good
  <2>2. kernel.campaign = 0 => kernel.armed  BY <2>1 DEF EpochInv
  <2>3. ASSUME kernel.preparing # 0, kernel.preparing = kernel.fence
        PROVE  /\ kernel.continuation = Task("PREPARE", kernel.fence)
               /\ kernel.reconstruction # NoIndex
    <3>1. kernel.continuation = Task("PREPARE", kernel.fence)
      BY <2>1, <2>3 DEF PrepareInv, Awaits
    <3>2. kernel.continuation.task # "NONE"  BY <3>1 DEF Task
    <3>3. QED  BY <2>1, <3>1, <3>2 DEF CallbackInv
  <2>4. QED  BY <2>2, <2>3 DEF NothingForgotten
<1>2. QED  BY <1>1, Inductive, PTL

\* SUCCESS is reported only in the step in which the application's publication
\* of the request's own entry, proven here and at the quorum peer, ends.
THEOREM AcknowledgedWasPublished == Spec => AcknowledgedIsPublished
<1>1. IInv /\ [Next]_vars => [Acknowledges(kernel, kernel')]_vars
  <2> SUFFICES ASSUME IInv, Next PROVE Acknowledges(kernel, kernel')  OBVIOUS
  <2>1. Steps  BY NextSteps
  <2>2. ASSUME Advances(kernel, kernel') PROVE Acknowledges(kernel, kernel')
    BY <2>2 DEF Advances, Moves, Acknowledges
  <2>3. QED  BY <2>1, <2>2 DEF Steps, Concludes
<1>2. Spec => [][Acknowledges(kernel, kernel')]_vars
  BY <1>1, Inductive, PTL DEF Spec
<1>3. QED  BY <1>2 DEF AcknowledgedIsPublished, Acknowledges

\* What NothingGoesBack says of a step.
Forward ==
  /\ kernel'.promised >= kernel.promised /\ kernel'.proven >= kernel.proven
  /\ starts' = starts =>
       /\ kernel'.fence >= kernel.fence
       /\ kernel'.publishedIndex >= kernel.publishedIndex
       /\ kernel.publication # NoPublication =>
            kernel'.publication \in {kernel.publication, NoPublication}

\* In one process the fence and the published index never go back and an
\* outstanding publication is not replaced; over restarts the promise and the
\* proven index never go back.
THEOREM NothingEverGoesBack == Spec => NothingGoesBack
<1>1. IInv /\ [Next]_vars => [Forward]_vars
  <2> SUFFICES ASSUME IInv, Next PROVE Forward  OBVIOUS
  <2>1. Steps  BY NextSteps
  <2>2. CASE Advances(kernel, kernel') /\ UNCHANGED starts
    BY <2>2 DEF Advances, Moves, Forward
  <2>3. CASE Concludes(kernel, kernel') /\ UNCHANGED starts
    BY <2>3 DEF Concludes, Progresses, Forward
  <2>4. CASE /\ starts' = starts + 1
             /\ kernel'.promised = kernel.promised /\ kernel'.proven = kernel.proven
    <3>1. starts' # starts  BY <2>4 DEF IInv
    <3>2. NumberType(kernel)  BY Parts DEF IInv, Good
    <3>3. QED  BY <2>4, <3>1, <3>2 DEF Forward, NumberType
  <2>5. QED  BY <2>1, <2>2, <2>3, <2>4 DEF Steps
<1>2. Spec => [][Forward]_vars  BY <1>1, Inductive, PTL DEF Spec
<1>3. QED  BY <1>2 DEF NothingGoesBack, Forward
=============================================================================
