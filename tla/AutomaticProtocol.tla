------------------------- MODULE AutomaticProtocol -------------------------
(***************************************************************************)
(* The transition kernel of one voter of the automatic group, the monitor  *)
(* AutomaticProtocol: its lifecycle, its campaign, the exchanges it waits   *)
(* for, the two application callbacks (reconstruction and publication) and *)
(* the outcome it reports for each client request.                         *)
(*                                                                         *)
(* Everything else is environment: peers answer, refuse or stay silent, the *)
(* clock passes deadlines, the application answers or fails, the rejoin     *)
(* worker reports promises it has seen and installs snapshots.  What the    *)
(* store keeps and what messages carry is AutomaticAuthority's subject;     *)
(* here a ballot is its epoch (OneBallotPerEpoch) and a proven prefix its   *)
(* length.                                                                  *)
(*                                                                         *)
(* One method of the monitor may run several others in sequence.  So the   *)
(* monitor is one record, kernel, the methods are functions from its value  *)
(* to the next, and an action is one call from outside.                     *)
(***************************************************************************)
EXTENDS Integers, Sequences, FiniteSetsExt

CONSTANTS
  Local,      \* the rank of this voter in the manifest
  Requests,   \* the identities of client requests
  MaxEpoch,   \* bound on epochs
  MaxIndex,   \* bound on the index of an entry
  MaxStarts   \* bound on the number of times the process is started

ASSUME LocalAssumption == Local \in 0..2
ASSUME RequestsAssumption == Requests \subseteq Nat \ {0}
ASSUME KernelBoundsAssumption == {MaxEpoch, MaxIndex, MaxStarts} \subseteq Nat

VARIABLES
  kernel,  \* the fields of the monitor, and the store's promise and proven index
  rejoin,  \* the cut the maintenance worker is catching peers up to, and what it saw
  starts   \* how often the process was started

vars == <<kernel, rejoin, starts>>

-----------------------------------------------------------------------------
(* Values *)

Peers == (0..2) \ {Local}
NoPeer == 3
NoIndex == -1
Kinds == {"PREPARE", "INSTALL", "ACCEPT", "PROOF", "HEARTBEAT"}
Tasks == {"NONE", "START", "CAMPAIGN", "PREPARE", "PUBLISH", "LOCAL"}
States == {"STOPPED", "STARTING", "FOLLOWER", "CANDIDATE", "RECOVERING",
           "LEADER_READY", "UNAVAILABLE", "FAILED", "CLOSED"}

\* LOST is not reported: the client's process ended with the kernel's.
Outcomes == {"SUCCESS", "NOT_SUBMITTED", "INDETERMINATE", "LOST"}

Owner(epoch) == (epoch - 2) % 3
NextEpoch(observed) ==
  (IF observed = 1 THEN 0 ELSE (observed - 2) \div 3 + 1) * 3 + Local + 2

NoOperation   == [index |-> 0, request |-> 0, activating |-> FALSE, own |-> FALSE,
                  proved |-> FALSE]
NoPublication == [ballot |-> 0, index |-> 0, local |-> FALSE]
NoCycle       == [ballot |-> 0, seen |-> 0]
NoTask        == [task |-> "NONE", ballot |-> 0]
NoExchanges   == [p \in Peers |-> [kind \in Kinds |-> 0]]

Task(task, ballot) == [task |-> task, ballot |-> ballot]

\* A voter that takes part: not before start, not after a failure or close.
Serving(k) == k.state \notin {"STOPPED", "STARTING", "FAILED", "CLOSED"}

\* The constructor, over the promise and the proven prefix found on disk.
Opened(promised, proven) ==
  [state |-> "STOPPED", fence |-> promised, campaign |-> 0, promised |-> promised,
   maxEpoch |-> promised, quorumPeer |-> NoPeer, failedPeer |-> NoPeer,
   deferredPeer |-> NoPeer, carried |-> FALSE, operation |-> NoOperation,
   preparing |-> 0, reconstruction |-> NoIndex, publication |-> NoPublication,
   continuation |-> NoTask, imageIndex |-> NoIndex, publishedIndex |-> 0,
   proven |-> proven, exchanges |-> NoExchanges, armed |-> FALSE,
   quarantined |-> FALSE, tripped |-> FALSE, rebuildFailed |-> FALSE,
   issued |-> {}, outcomes |-> [r \in Requests |-> <<>>]]

-----------------------------------------------------------------------------
(* The private methods of the monitor *)

Completed(k, request, outcome) ==
  [k EXCEPT !.outcomes[request] = Append(@, outcome)]

\* Mutants of abandon: the operation stays; no election is scheduled.
AbandonKeepingOperation(k, unanswered) ==
  LET told == IF k.operation.request = 0 THEN k
              ELSE Completed(k, k.operation.request, "INDETERMINATE")
  IN [told EXCEPT
        !.failedPeer = IF k.state = "RECOVERING" /\ k.quorumPeer # NoPeer /\ unanswered
                         THEN k.quorumPeer ELSE @,
        !.deferredPeer = NoPeer, !.campaign = 0, !.quorumPeer = NoPeer,
        !.carried = FALSE, !.continuation = NoTask, !.exchanges = NoExchanges,
        !.state = "UNAVAILABLE", !.armed = TRUE]

\* abandon: the campaign and everything that waits for it is dropped; a client
\* whose entry was issued is told that its outcome is not known.
Abandon(k, unanswered) ==
  LET told == IF k.operation.request = 0 THEN k
              ELSE Completed(k, k.operation.request, "INDETERMINATE")
  IN [told EXCEPT
        !.failedPeer = IF k.state = "RECOVERING" /\ k.quorumPeer # NoPeer /\ unanswered
                         THEN k.quorumPeer ELSE @,
        !.deferredPeer = NoPeer, !.operation = NoOperation, !.campaign = 0,
        !.quorumPeer = NoPeer, !.carried = FALSE, !.continuation = NoTask,
        !.exchanges = NoExchanges, !.state = "UNAVAILABLE", !.armed = TRUE]

Fail(k) ==
  [Abandon(k, FALSE) EXCEPT !.state = "FAILED", !.armed = FALSE]

\* A store whose I/O failed is quarantined: each later call of it throws.
StoreFails(k) == [Fail(k) EXCEPT !.quarantined = TRUE]

\* A check of the kernel itself (need, capacity) fails.
Trip(k) == [Fail(k) EXCEPT !.tripped = TRUE]

Quiesce(k) ==
  IF k.state = "CLOSED" THEN k
  ELSE [Abandon(k, FALSE) EXCEPT !.preparing = 0, !.state = "CLOSED", !.armed = FALSE]

\* Mutants of observePromise: the leader stays; the epoch is not remembered.
ObservePromiseUnnoticed(k, epoch) ==
  [k EXCEPT !.fence = Max({@, epoch}), !.maxEpoch = Max({@, epoch})]

ObservePromiseForgotten(k, epoch) ==
  IF epoch <= k.fence THEN k ELSE [Abandon(k, FALSE) EXCEPT !.fence = epoch]

\* A higher promise than the fence, learnt from an answer or by the rejoin worker.
ObservePromise(k, epoch) ==
  IF epoch <= k.fence THEN k
  ELSE [Abandon(k, FALSE) EXCEPT !.fence = epoch, !.maxEpoch = Max({@, epoch})]

\* send: at most two exchanges with a peer are outstanding.
Load(k, p) ==
  k.exchanges[p]["PREPARE"] + k.exchanges[p]["INSTALL"] + k.exchanges[p]["ACCEPT"]
    + k.exchanges[p]["PROOF"] + k.exchanges[p]["HEARTBEAT"]
Send(k, to, kind) ==
  IF \E p \in to : Load(k, p) >= 2 THEN Trip(k)
  ELSE [k EXCEPT !.exchanges = [p \in Peers |-> [h \in Kinds |->
                    IF p \in to /\ h = kind THEN k.exchanges[p][h] + 1 ELSE k.exchanges[p][h]]]]

\* The exchange is over: it is no longer retried, and its answer is ignored.
Over(k, p, kind) == [k EXCEPT !.exchanges[p][kind] = @ - 1]

\* exchangeFailed: a heartbeat may fail, and one of two PREPAREs; after both,
\* the peer that was held back gets its PREPARE if the campaign has time left.
ExchangeFailed(k, p, kind, late) ==
  LET over == Over(k, p, kind)
  IN CASE kind = "HEARTBEAT" -> over
       [] kind = "PREPARE" /\ \E q \in Peers : over.exchanges[q]["PREPARE"] > 0 -> over
       [] /\ kind = "PREPARE" /\ over.deferredPeer # NoPeer
          /\ over.state = "CANDIDATE" /\ ~late
          /\ \A q \in Peers : over.exchanges[q]["PREPARE"] = 0
          -> Send([over EXCEPT !.deferredPeer = NoPeer], {over.deferredPeer}, "PREPARE")
       [] OTHER -> Abandon(over, TRUE)

\* commit: accept the next entry locally, then ask the quorum peer to.  From
\* here on the request has been issued, whatever the store answers.
Commit(k, request, activating, own, ok) ==
  LET issued == [k EXCEPT
        !.operation = [index |-> k.proven + 1, request |-> request,
                       activating |-> activating, own |-> own, proved |-> FALSE],
        !.issued = IF request = 0 THEN @ ELSE @ \union {request}]
  IN IF ~(k.campaign = k.fence /\ k.campaign = k.promised /\ k.operation = NoOperation)
       THEN Trip(k)
     ELSE IF ok THEN Send(issued, {k.quorumPeer}, "ACCEPT")
     ELSE StoreFails(issued)

\* The continuations given to withImage.  Each checks that what it was made for
\* is still current; ok says whether the store's own step succeeds.
Run(k, c, ok) ==
  CASE c.task = "START" ->
         IF ok THEN [k EXCEPT !.state = "FOLLOWER", !.armed = TRUE] ELSE StoreFails(k)
    [] c.task = "CAMPAIGN" ->
         IF k.campaign # c.ballot THEN k
         ELSE IF k.promised > c.ballot THEN Trip(k)
         ELSE IF ok THEN Send([k EXCEPT !.promised = c.ballot, !.deferredPeer = k.failedPeer],
                              Peers \ {k.failedPeer}, "PREPARE")
         ELSE StoreFails(k)
    [] c.task = "PREPARE" ->
         IF k.preparing # c.ballot \/ k.fence # c.ballot THEN k
         ELSE IF k.promised > c.ballot THEN Trip(k)
         ELSE IF ok THEN [k EXCEPT !.promised = c.ballot, !.preparing = 0, !.armed = TRUE]
         ELSE StoreFails([k EXCEPT !.preparing = 0])
    [] c.task = "PUBLISH" ->
         IF k.operation = NoOperation \/ k.campaign # c.ballot \/ k.fence # c.ballot THEN k
         ELSE [k EXCEPT !.publication =
                 [ballot |-> c.ballot, index |-> k.proven, local |-> FALSE]]
    [] c.task = "LOCAL" ->
         IF k.campaign # 0 \/ k.preparing # 0 \/ k.fence # c.ballot
              \/ k.state \notin {"FOLLOWER", "UNAVAILABLE"} THEN k
         ELSE [k EXCEPT !.publication =
                 [ballot |-> c.ballot, index |-> k.proven, local |-> TRUE]]

\* withImage: run c on the image of the proven prefix.  At most one
\* reconstruction is outstanding; a later c takes the place of an earlier one.
WithImage(k, c, ok) ==
  IF k.imageIndex = k.proven THEN Run([k EXCEPT !.continuation = NoTask], c, ok)
  ELSE IF k.reconstruction = NoIndex
    THEN [k EXCEPT !.continuation = c, !.reconstruction = k.proven]
  ELSE [k EXCEPT !.continuation = c]

BeginCampaign(k, ok) ==
  LET b == NextEpoch(Max({k.maxEpoch, k.promised}))
  IN WithImage([k EXCEPT !.campaign = b, !.fence = b, !.maxEpoch = b,
                         !.state = "CANDIDATE", !.armed = FALSE], Task("CAMPAIGN", b), ok)

\* adopt: a selected prefix that is longer replaces the local one.
Adopt(k, prefix) ==
  IF prefix > k.proven THEN [k EXCEPT !.proven = prefix, !.imageIndex = NoIndex] ELSE k

-----------------------------------------------------------------------------
(* The lifecycle *)

Init ==
  /\ kernel = Opened(1, 0)
  /\ rejoin = NoCycle
  /\ starts = 1

Same == UNCHANGED <<rejoin, starts>>

\* restored: the public engine publishes the proven prefix before it starts.
Restored ==
  /\ kernel.state = "STOPPED"
  /\ kernel' = [kernel EXCEPT !.imageIndex = kernel.proven, !.publishedIndex = kernel.proven]
  /\ Same

\* start: an error without a reconstruction reaches the driver, which quiesces.
Start(ok) ==
  /\ kernel.state = "STOPPED"
  /\ kernel' = IF kernel.imageIndex = kernel.proven /\ ~ok
                 THEN [Quiesce(kernel) EXCEPT !.quarantined = TRUE]
               ELSE WithImage([kernel EXCEPT !.state = "STARTING"], Task("START", 0), ok)
  /\ Same

Close == kernel.state # "CLOSED" /\ kernel' = Quiesce(kernel) /\ Same

\* The process ends, at any point, and is started again on the same files.
Restart ==
  /\ starts < MaxStarts
  /\ starts' = starts + 1
  /\ rejoin' = NoCycle
  /\ LET told == IF kernel.operation.request = 0 THEN kernel
                 ELSE Completed(kernel, kernel.operation.request, "LOST")
     IN kernel' = [Opened(kernel.promised, kernel.proven) EXCEPT
                     !.issued = told.issued, !.outcomes = told.outcomes]

-----------------------------------------------------------------------------
(* tick *)

\* Mutants of the deadlines: one of them is not checked.
TimedCampaign(k) == k.campaign # 0 /\ k.state # "LEADER_READY" /\ k.operation = NoOperation
TimedOperation(k) == k.operation # NoOperation

\* The operation, or the campaign that is not ready yet, has a deadline.
Timed(k) == k.operation # NoOperation \/ (k.campaign # 0 /\ k.state # "LEADER_READY")

\* Mutant of tick: a pending heartbeat does not hold back the next.
HeartbeatsAlways(k) == IF k.campaign = 0 THEN k ELSE Send(k, Peers, "HEARTBEAT")

Heartbeats(k) ==
  IF k.campaign = 0 THEN k
  ELSE Send(k, {p \in Peers : k.exchanges[p]["HEARTBEAT"] = 0}, "HEARTBEAT")

MayCampaign(k) ==
  /\ k.armed /\ k.campaign = 0 /\ k.preparing = 0 /\ k.publication = NoPublication
  /\ NextEpoch(Max({k.maxEpoch, k.promised})) <= MaxEpoch

\* Mutant of tick: it does not wait for a PREPARE or a reconstruction.
LocalPublicationEager(k) ==
  IF /\ k.state \in {"FOLLOWER", "UNAVAILABLE"}
     /\ k.campaign = 0 /\ k.operation = NoOperation /\ k.publication = NoPublication
     /\ k.publishedIndex < k.proven
    THEN WithImage([k EXCEPT !.imageIndex = NoIndex], Task("LOCAL", k.fence), TRUE)
    ELSE k

\* A follower that is to serve reads publishes what it has proven.
LocalPublication(k) ==
  IF /\ k.state \in {"FOLLOWER", "UNAVAILABLE"}
     /\ k.campaign = 0 /\ k.preparing = 0 /\ k.operation = NoOperation
     /\ k.publication = NoPublication /\ k.reconstruction = NoIndex
     /\ k.publishedIndex < k.proven
    THEN WithImage([k EXCEPT !.imageIndex = NoIndex], Task("LOCAL", k.fence), TRUE)
    ELSE k

\* tick, with what the clock says is due.  The election timer is one that was
\* armed before this tick.  Of several exchanges that are past their deadline,
\* the next tick finds the next.
Tick(due, ok) ==
  LET k1 == IF "DEADLINE" \in due /\ Timed(kernel) THEN Abandon(kernel, TRUE) ELSE kernel
      k2 == IF "HEARTBEAT" \in due THEN Heartbeats(k1) ELSE k1
      k3 == IF "ELECTION" \in due /\ MayCampaign(kernel) THEN BeginCampaign(k2, ok) ELSE k2
  IN /\ Serving(kernel)
     /\ kernel' = LocalPublication(k3)
     /\ Same

TickExpired(p, kind, late, beat) ==
  LET k1 == ExchangeFailed(kernel, p, kind, late)
      k2 == IF beat THEN Heartbeats(k1) ELSE k1
  IN /\ Serving(kernel)
     /\ kernel.exchanges[p][kind] > 0
     /\ kernel' = LocalPublication(k2)
     /\ Same

-----------------------------------------------------------------------------
(* Requests of the peers *)

\* prepare: a higher ballot ends what this voter was doing; one PREPARE at a
\* time waits for the image, another one of the same ballot is refused.
HandlePrepare(b, ok) ==
  LET raised == IF b <= kernel.fence THEN kernel
                ELSE [Abandon(kernel, FALSE) EXCEPT
                        !.fence = b, !.maxEpoch = Max({@, b}), !.preparing = 0]
  IN /\ Serving(kernel)
     /\ Owner(b) # Local
     /\ kernel' = IF b < kernel.fence \/ raised.preparing # 0 THEN raised
                  ELSE WithImage([raised EXCEPT !.state = "FOLLOWER", !.preparing = b],
                                 Task("PREPARE", b), ok)
     /\ Same

\* The other requests are those of the promised ballot's proposer.
Follows(k) ==
  Serving(k) /\ k.fence = k.promised /\ k.promised > 1 /\ Owner(k.promised) # Local

\* INSTALL is refused when no generation is free for a longer prefix.
HandleInstall(prefix, free, ok) ==
  /\ Follows(kernel)
  /\ kernel' = IF ~ok THEN StoreFails(kernel)
               ELSE IF free \/ prefix <= kernel.proven THEN Adopt(kernel, prefix)
               ELSE kernel
  /\ Same

HandleAccept(ok) ==
  Follows(kernel) /\ kernel' = (IF ok THEN kernel ELSE StoreFails(kernel)) /\ Same

HandleProof(ok) ==
  /\ Follows(kernel)
  /\ kernel.proven < MaxIndex
  /\ kernel' = IF ok THEN [kernel EXCEPT !.proven = @ + 1] ELSE StoreFails(kernel)
  /\ Same

-----------------------------------------------------------------------------
(* Answers of the peers *)

\* An answer counts only while its exchange is outstanding.
Outstanding(p, kind) == kernel.exchanges[p][kind] > 0

\* The peer refuses, or the exchange cannot be tried again.
Refused(p, kind, late) ==
  Outstanding(p, kind) /\ kernel' = ExchangeFailed(kernel, p, kind, late) /\ Same

\* The answer comes after the deadline of the operation or of the campaign.
AnsweredLate(p, kind) ==
  Outstanding(p, kind) /\ Timed(kernel) /\ kernel' = Abandon(kernel, TRUE) /\ Same

\* The answer tells of a higher promise.
Fenced(p, kind, epoch) ==
  /\ Outstanding(p, kind)
  /\ epoch > kernel.fence
  /\ kernel' = ObservePromise(kernel, epoch)
  /\ Same

\* The first basis: select, adopt the selected prefix, ask to install it.
Promised(p, prefix, carried, free, ok) ==
  LET over == Over(kernel, p, "PREPARE")
      chosen == [over EXCEPT
        !.quorumPeer = p, !.deferredPeer = NoPeer, !.carried = carried,
        !.exchanges = [q \in Peers |-> [over.exchanges[q] EXCEPT !["PREPARE"] = 0]]]
  IN /\ Outstanding(p, "PREPARE")
     /\ kernel' =
          IF over.state # "CANDIDATE" THEN over
          ELSE IF ~ok THEN StoreFails(over)
          ELSE IF ~free /\ prefix > over.proven THEN Abandon(chosen, FALSE)
          ELSE Send([Adopt(chosen, prefix) EXCEPT !.state = "RECOVERING"], {p}, "INSTALL")
     /\ Same

Installed(p, ok) ==
  LET over == Over(kernel, p, "INSTALL")
  IN /\ Outstanding(p, "INSTALL")
     /\ kernel.proven + (IF over.carried THEN 2 ELSE 1) <= MaxIndex
     /\ kernel' = IF over.state # "RECOVERING" THEN Trip(over)
                  ELSE Commit(over, 0, TRUE, ~over.carried, ok)
     /\ Same

\* Mutant of accepted: it does not wait for the peer's proof.
AcceptedAndPublished(p, ok) ==
  LET over == Over(kernel, p, "ACCEPT")
      proved == Send([over EXCEPT !.operation.proved = TRUE, !.proven = @ + 1], {p}, "PROOF")
  IN /\ Outstanding(p, "ACCEPT")
     /\ kernel' = IF ok THEN WithImage(proved, Task("PUBLISH", proved.campaign), ok)
                  ELSE StoreFails(over)
     /\ Same

\* accepted: with two acceptances the entry is proven, first here.
Accepted(p, ok) ==
  LET over == Over(kernel, p, "ACCEPT")
  IN /\ Outstanding(p, "ACCEPT")
     /\ kernel' =
          IF over.operation = NoOperation \/ over.operation.proved \/ p # over.quorumPeer
            THEN Trip(over)
          ELSE IF ok
            THEN Send([over EXCEPT !.operation.proved = TRUE, !.proven = @ + 1], {p}, "PROOF")
          ELSE StoreFails(over)
     /\ Same

\* proved: with two proofs the entry may be published.
Proved(p, ok) ==
  LET over == Over(kernel, p, "PROOF")
  IN /\ Outstanding(p, "PROOF")
     /\ kernel' = IF ~over.operation.proved \/ p # over.quorumPeer THEN Trip(over)
                  ELSE WithImage(over, Task("PUBLISH", over.campaign), ok)
     /\ Same

HeartbeatAnswered(p) ==
  Outstanding(p, "HEARTBEAT") /\ kernel' = Over(kernel, p, "HEARTBEAT") /\ Same

-----------------------------------------------------------------------------
(* The application *)

\* Mutant of reconstructed: an image that is no longer current is given up.
ReconstructedOnce(error, ok) ==
  LET over == [kernel EXCEPT !.reconstruction = NoIndex]
      next == [over EXCEPT !.imageIndex = kernel.reconstruction, !.continuation = NoTask]
  IN /\ kernel.reconstruction # NoIndex
     /\ kernel' = IF kernel.state \in {"CLOSED", "FAILED"} THEN over
                  ELSE IF error THEN [Fail(over) EXCEPT !.rebuildFailed = TRUE]
                  ELSE IF kernel.continuation = NoTask \/ kernel.reconstruction # kernel.proven
                    THEN next
                  ELSE WithImage(next, kernel.continuation, ok)
     /\ Same

Reconstructed(error, ok) ==
  LET over == [kernel EXCEPT !.reconstruction = NoIndex]
      next == [over EXCEPT !.imageIndex = kernel.reconstruction, !.continuation = NoTask]
  IN /\ kernel.reconstruction # NoIndex
     /\ kernel' = IF kernel.state \in {"CLOSED", "FAILED"} THEN over
                  ELSE IF error THEN [Fail(over) EXCEPT !.rebuildFailed = TRUE]
                  ELSE IF kernel.continuation = NoTask THEN next
                  ELSE WithImage(next, kernel.continuation, ok)
     /\ Same

\* published: a local publication only moves the index.  The leader's counts
\* if its operation is still current: an activation by an own NOOP makes the
\* leader ready, a carried entry is followed by such a NOOP, a client's entry
\* is acknowledged.  An error of that NOOP reaches the driver, which quiesces.
Published(error, late, ok) ==
  LET done == kernel.publication
      over == [kernel EXCEPT !.publication = NoPublication]
      cut == [over EXCEPT !.publishedIndex = done.index]
      next == [cut EXCEPT !.operation = NoOperation]
  IN /\ done # NoPublication
     /\ kernel' =
          IF kernel.state \in {"CLOSED", "FAILED"} THEN over
          ELSE IF error THEN Fail(over)
          ELSE IF done.local
            THEN IF over.publishedIndex <= done.index /\ done.index <= over.proven
                   THEN cut ELSE Trip(over)
          ELSE IF over.operation = NoOperation \/ over.campaign # done.ballot
                    \/ over.fence # done.ballot \/ over.promised # done.ballot THEN over
          ELSE IF late THEN Abandon(over, TRUE)
          ELSE IF ~over.operation.activating
            THEN Completed(next, over.operation.request, "SUCCESS")
          ELSE IF over.operation.own
            THEN [next EXCEPT !.state = "LEADER_READY", !.failedPeer = NoPeer]
          ELSE IF ok THEN Commit(next, 0, TRUE, TRUE, TRUE)
          ELSE [Quiesce(next) EXCEPT !.quarantined = TRUE]
     /\ Same

-----------------------------------------------------------------------------
(* Clients *)

\* submit: refused before anything was issued, or committed.  An entry that
\* does not fit a frame is refused; a failed store leaves the outcome open.
Submit(r, fits, ok) ==
  /\ kernel.outcomes[r] = <<>>
  /\ r \notin kernel.issued
  /\ kernel.proven < MaxIndex
  /\ kernel' = IF /\ kernel.state = "LEADER_READY" /\ kernel.operation = NoOperation
                  /\ kernel.publication = NoPublication /\ fits
                 THEN Commit(kernel, r, FALSE, TRUE, ok)
                 ELSE Completed(kernel, r, "NOT_SUBMITTED")
  /\ Same

Cancel(r) ==
  kernel.operation.request = r /\ kernel' = Abandon(kernel, FALSE) /\ Same

-----------------------------------------------------------------------------
(* The rejoin worker *)

MaintenanceCurrent(k) == Serving(k) /\ k.fence = k.promised

\* cycle: the worker takes the cut of a ready leader that is at rest.
Cycle ==
  /\ rejoin = NoCycle
  /\ kernel.state = "LEADER_READY" /\ kernel.operation = NoOperation
  /\ kernel.publication = NoPublication /\ kernel.reconstruction = NoIndex
  /\ rejoin' = [ballot |-> kernel.promised, seen |-> 0]
  /\ UNCHANGED <<kernel, starts>>

\* catchup: its probe is answered with a higher promise.  A first task of the
\* control loop has checked that the cut's ballot is current, ...
ProbeAnswered(epoch) ==
  /\ rejoin # NoCycle /\ rejoin.seen = 0
  /\ MaintenanceCurrent(kernel) /\ kernel.promised = rejoin.ballot
  /\ epoch > rejoin.ballot
  /\ rejoin' = [rejoin EXCEPT !.seen = epoch]
  /\ UNCHANGED <<kernel, starts>>

\* ... and a second one reports it, in whatever state the kernel is by then.  A
\* driver that is closing takes no more tasks, and close() undoes one it drains.
\* On a quarantined store the driver's next look at the kernel throws: it quiesces.
ReportPromise ==
  /\ rejoin.seen # 0
  /\ kernel.state # "CLOSED"
  /\ LET observed == ObservePromise(kernel, rejoin.seen)
     IN kernel' = IF kernel.quarantined /\ observed # kernel THEN Quiesce(observed) ELSE observed
  /\ rejoin' = NoCycle
  /\ UNCHANGED starts

CycleEnds == rejoin # NoCycle /\ rejoin' = NoCycle /\ UNCHANGED <<kernel, starts>>

\* request: a refused request of the worker reports in the same task as it checks.
RequestRefused(epoch) ==
  MaintenanceCurrent(kernel) /\ kernel' = ObservePromise(kernel, epoch) /\ Same

\* rejoin: install the leader's proven snapshot on a follower that is at rest.
Rejoin(cut) ==
  /\ Follows(kernel)
  /\ kernel.campaign = 0 /\ kernel.preparing = 0
  /\ kernel.reconstruction = NoIndex /\ kernel.publication = NoPublication
  /\ cut >= kernel.proven
  /\ kernel' = [kernel EXCEPT !.proven = cut, !.imageIndex = NoIndex, !.armed = TRUE]
  /\ Same

\* I/O of the worker's (a checkpoint, a snapshot, the recovery floor, its
\* cleanup) fails.  The driver's next look at the kernel throws, unless a task
\* before it has met the failure itself.
MaintenanceFails ==
  /\ Serving(kernel)
  /\ LET broken == [kernel EXCEPT !.quarantined = TRUE]
     IN kernel' \in {Fail(broken), Quiesce(broken)}
  /\ Same

-----------------------------------------------------------------------------
Due == SUBSET {"DEADLINE", "HEARTBEAT", "ELECTION"}

Next ==
  \/ Restored
  \/ \E ok \in BOOLEAN : Start(ok)
  \/ Close
  \/ Restart
  \/ \E due \in Due, ok \in BOOLEAN : Tick(due, ok)
  \/ \E p \in Peers, kind \in Kinds, late, beat \in BOOLEAN :
       TickExpired(p, kind, late, beat)
  \/ \E b \in 2..MaxEpoch, ok \in BOOLEAN : HandlePrepare(b, ok)
  \/ \E prefix \in 0..MaxIndex, free, ok \in BOOLEAN : HandleInstall(prefix, free, ok)
  \/ \E ok \in BOOLEAN : HandleAccept(ok)
  \/ \E ok \in BOOLEAN : HandleProof(ok)
  \/ \E p \in Peers, kind \in Kinds, late \in BOOLEAN : Refused(p, kind, late)
  \/ \E p \in Peers, kind \in Kinds : AnsweredLate(p, kind)
  \/ \E p \in Peers, kind \in Kinds, epoch \in 2..MaxEpoch : Fenced(p, kind, epoch)
  \/ \E p \in Peers, prefix \in 0..MaxIndex, carried, free, ok \in BOOLEAN :
       Promised(p, prefix, carried, free, ok)
  \/ \E p \in Peers, ok \in BOOLEAN : Installed(p, ok)
  \/ \E p \in Peers, ok \in BOOLEAN : Accepted(p, ok)
  \/ \E p \in Peers, ok \in BOOLEAN : Proved(p, ok)
  \/ \E p \in Peers : HeartbeatAnswered(p)
  \/ \E error, ok \in BOOLEAN : Reconstructed(error, ok)
  \/ \E error, late, ok \in BOOLEAN : Published(error, late, ok)
  \/ \E r \in Requests, fits, ok \in BOOLEAN : Submit(r, fits, ok)
  \/ \E r \in Requests : Cancel(r)
  \/ \E epoch \in 2..MaxEpoch : ProbeAnswered(epoch)
  \/ Cycle
  \/ ReportPromise
  \/ CycleEnds
  \/ \E epoch \in 2..MaxEpoch : RequestRefused(epoch)
  \/ \E cut \in 0..MaxIndex : Rejoin(cut)
  \/ MaintenanceFails

\* The control loop calls tick at least every 20 ms and the clock goes on (a
\* deadline writes nothing, so ok does not matter); the application's callbacks end.
Fairness ==
  /\ WF_vars(Timed(kernel) /\ Tick({"DEADLINE"}, TRUE))
  /\ WF_vars(\E error, ok \in BOOLEAN : Reconstructed(error, ok))

Spec == Init /\ [][Next]_vars
FairSpec == Spec /\ Fairness

-----------------------------------------------------------------------------
(* Properties *)

Epochs0  == 0..MaxEpoch
Indexes0 == NoIndex..MaxIndex

\* The types of the monitor's fields.
TypeOK ==
  /\ kernel \in
       [state : States, fence : Epochs0, campaign : Epochs0, promised : Epochs0,
        maxEpoch : Epochs0, quorumPeer : 0..3, failedPeer : 0..3, deferredPeer : 0..3,
        carried : BOOLEAN,
        operation : [index : 0..MaxIndex, request : Requests \union {0},
                     activating : BOOLEAN, own : BOOLEAN, proved : BOOLEAN],
        preparing : Epochs0, reconstruction : Indexes0,
        publication : [ballot : Epochs0, index : 0..MaxIndex, local : BOOLEAN],
        continuation : [task : Tasks, ballot : Epochs0], imageIndex : Indexes0,
        publishedIndex : 0..MaxIndex, proven : 0..MaxIndex,
        exchanges : [Peers -> [Kinds -> 0..2]], armed : BOOLEAN, rebuildFailed : BOOLEAN,
        tripped : BOOLEAN, quarantined : BOOLEAN, issued : SUBSET Requests, outcomes : [Requests -> Seq(Outcomes)]]
  /\ rejoin \in [ballot : Epochs0, seen : Epochs0]
  /\ starts \in 1..MaxStarts

\* No order of answers, callbacks, timeouts and reports makes the kernel fail
\* one of its own checks: two exchanges per peer, one proposal at a time, each
\* answer in its phase, no ballot below the promise, a local publication
\* between the published and the proven index.
ChecksHold == ~kernel.tripped

\* A ready leader's authority is its own durable promise; when it is at rest it
\* has published all that it has proven, and the application owes it nothing.
ReadyIsCurrent ==
  kernel.state = "LEADER_READY" =>
    /\ kernel.campaign = kernel.fence /\ kernel.campaign = kernel.promised
    /\ Owner(kernel.campaign) = Local
    /\ kernel.operation = NoOperation =>
         /\ kernel.publishedIndex = kernel.proven /\ kernel.imageIndex = kernel.proven
         /\ kernel.publication = NoPublication /\ kernel.reconstruction = NoIndex

\* A client gets one outcome.  NOT_SUBMITTED means that nothing was issued; an
\* issued request is in flight or has an outcome, never both.
OutcomesHonest ==
  \A r \in Requests :
    /\ Len(kernel.outcomes[r]) <= 1
    /\ kernel.outcomes[r] = <<"NOT_SUBMITTED">> => r \notin kernel.issued
    /\ r \in kernel.issued =>
         (kernel.outcomes[r] = <<>>) = (kernel.operation.request = r)

\* Nothing is forgotten while the voter serves: a timer is armed whenever no
\* campaign runs, so it never stops suspecting its leader; and a PREPARE of the
\* fence that was taken in is being worked on, its continuation and the
\* reconstruction it waits for still there.
NothingForgotten ==
  Serving(kernel) =>
    /\ kernel.campaign = 0 => kernel.armed
    /\ kernel.preparing # 0 /\ kernel.preparing = kernel.fence =>
         /\ kernel.reconstruction # NoIndex
         /\ kernel.continuation = Task("PREPARE", kernel.fence)

\* A request is acknowledged only when its own entry is proven here and at the
\* quorum peer and is what the application has just published, in a campaign
\* that nothing has fenced.
AcknowledgedIsPublished ==
  [][\A r \in Requests :
       kernel'.outcomes[r] = <<"SUCCESS">> /\ kernel.outcomes[r] # <<"SUCCESS">> =>
         /\ kernel.operation.request = r /\ kernel.operation.proved
         /\ \A p \in Peers : kernel.exchanges[p]["PROOF"] = 0
         /\ kernel.publication.index = kernel.operation.index
         /\ kernel'.publishedIndex = kernel.operation.index
         /\ kernel.fence = kernel.promised]_vars

\* While the process lives the fence and the published index never go back and
\* an application callback that is outstanding is not replaced by another; the
\* promise and the proven index never go back at all.
NothingGoesBack ==
  [][/\ kernel'.promised >= kernel.promised /\ kernel'.proven >= kernel.proven
     /\ starts' = starts =>
          /\ kernel'.fence >= kernel.fence
          /\ kernel'.publishedIndex >= kernel.publishedIndex
          /\ kernel.publication # NoPublication =>
               kernel'.publication \in {kernel.publication, NoPublication}]_vars

\* A client whose request was issued is told an outcome.
RequestsAnswered ==
  \A r \in Requests : (r \in kernel.issued) ~> (kernel.outcomes[r] # <<>>)

\* A campaign, always of an epoch of this voter, becomes ready or is given up.
CampaignsEnd ==
  \A b \in {e \in 2..MaxEpoch : Owner(e) = Local} :
    (kernel.campaign = b) ~> (kernel.campaign # b \/ kernel.state = "LEADER_READY")

\* A PREPARE of the fence, which is a peer's, is decided, unless the voter fails
\* or closes.
PreparesEnd ==
  \A b \in {e \in 2..MaxEpoch : Owner(e) # Local} :
    (kernel.preparing = b) ~> \/ kernel.preparing # b \/ kernel.fence # b
                              \/ ~Serving(kernel)

\* "Failed application reconstruction or ambiguous storage I/O prevents
\* readiness" (docs/v5x/v5.1/PHASE_3_PROTOCOL.md): a process in which either has
\* happened is not ready again.
FailurePreventsReadiness ==
  kernel.rebuildFailed \/ kernel.quarantined => kernel.state # "LEADER_READY"
=============================================================================
