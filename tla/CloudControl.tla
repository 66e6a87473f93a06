---------------------------- MODULE CloudControl ----------------------------
(***************************************************************************)
(* Ownership of the paid resources of one V5.2 cloud attempt: the lease    *)
(* and the ledger in the control bucket, the insertion of resources, the   *)
(* heartbeat, the cleanup that the owner's close and the operator's        *)
(* dispatch of v52-manual-cleanup share (nothing schedules it), and the    *)
(* completion that makes an attempt count.                                 *)
(*                                                                         *)
(* scripts/v52/cloud_control.py, cloud_authority.py, cloud_provider.py,    *)
(* cloud_wire_policy.py, cloud_native_runner.py, cloud_retention.py,       *)
(* cloud_member.py, cloud_member_seal.py and v51/cloud_runner.py.          *)
(*                                                                         *)
(* A store generation is represented by the set of processes that hold    *)
(* it: a process in fresh knows the current generation of the lease, and  *)
(* every write empties the set down to its writer.                         *)
(***************************************************************************)
EXTENDS Naturals, FiniteSets

CONSTANTS
    Attempts,       \* request identities, numbered in the order of admission
    Reconcilers,    \* runs of the manual cleanup workflow, one after the other
    Rows,           \* resources of an attempt, in provisioning order
    Parts,          \* evidence objects besides the manifest
    MaxFaults,      \* lost replies, lost requests and crashes in a run
    None

ASSUME ControlAssumption ==
    /\ Rows \in Nat \ {0} /\ Parts \in Nat /\ MaxFaults \in Nat
    /\ Attempts \subseteq Nat /\ Attempts \cap Reconcilers = {}

Procs == Attempts \cup Reconcilers

Row == 1..Rows

\* The values of active.json; None stands for an object that is absent.
Leases == [own : Attempts, phase : {"ACQUIRING", "ACTIVE", "CLEANING"},
           tried : 0..Rows, ids : SUBSET Row]

ASSUME NoneAssumption == None \notin Leases /\ None \notin {"PENDING", "PASS", "FAIL"}

VARIABLES
    lease,        \* active.json: None or a lease value
    fresh,        \* processes holding its current generation
    age,          \* the lease's age: current, expired, lapsed (grace over)
    ledger,       \* ledger.json: status of every attempt
    ledgerFresh,  \* processes holding its current generation
    marker,       \* retained -submitted.json objects
    proof,        \* retained -unsubmitted.json objects
    receipt,      \* retained operation receipts
    cleanups,     \* retained cleanup outcomes, content addressed
    completion,   \* retained completion.json of every attempt
    evidence,     \* evidence objects retained for every attempt
    op,           \* the provider's insert operation of every row
    live,         \* the resources that exist
    pc,           \* where every process stands
    mine,         \* the lease value a process last read or wrote
    own,          \* a runner's memory: tickets, dispatches, certificate
    cl,           \* a cleaner's progress through the rows
    sealed,       \* attempts whose session published its original seal
    faults

store == <<lease, fresh, age, ledger, ledgerFresh, marker, proof, receipt,
           cleanups, completion, evidence>>
provider == <<op, live>>
vars == <<store, provider, pc, mine, own, cl, sealed, faults>>

(***************************************************************************)
(* Records.                                                                *)
(***************************************************************************)

\* A lease value: rows 1..tried carry intents, so there is no intent gap.
LeaseValue(a, phase, tried, ids) ==
    [own |-> a, phase |-> phase, tried |-> tried, ids |-> ids]

\* lease(): the first value written for a request.
InitialLease(a) == LeaseValue(a, "ACQUIRING", 0, {})

\* validate_lease(): identified rows were attempted, and nothing is
\* attempted before the reservation was charged.
ValidLease(l) ==
    /\ l.own \in Attempts /\ l.phase \in {"ACQUIRING", "ACTIVE", "CLEANING"}
    /\ l.tried \in 0..Rows /\ l.ids \subseteq 1..l.tried
    /\ l.phase = "ACQUIRING" => l.tried = 0

\* inspect_ledger() over the abstract ledger: one unresolved attempt.
ValidLedger(led) ==
    /\ \A a \in Attempts : led[a] \in {None, "PENDING", "PASS", "FAIL"}
    /\ Cardinality({a \in Attempts : led[a] = "PENDING"}) =< 1

\* reserve(): the attempt is new and no other one is unresolved.
Reservable(a) == ledger[a] = None /\ ValidLedger([ledger EXCEPT ![a] = "PENDING"])

\* reservation(): resources were attempted only under a retained charge.
Reservation(l) == ValidLease(l) /\ (ledger[l.own] = None => l.tried = 0)

\* resource_claim(): a complete active allocation.
Claimed(l) == l.phase = "ACTIVE" /\ l.ids = Row

(***************************************************************************)
(* The scoped wire policy in front of every write.                         *)
(***************************************************************************)

\* Policy.object() and route(): a process names only its own request's
\* objects, resources and operations; a reconciler's request is the lease's.
InScope(p, a) == p \in Attempts => p = a

\* Plan.inspect() and describe(): the resource of this exact intent, or none.
Described(a, r) == <<a, r>> \in live

\* Policy.current(): the stored lease is this request's (active, charged).
Current(a, active, charged) ==
    /\ lease # None /\ lease.own = a
    /\ active => lease.phase = "ACTIVE" /\ age = "current"
    /\ charged => ledger[a] = "PENDING"

\* An operation of row r is over for its observers, with or without an id.
HasId(a, r) == op[a][r] \in {"done", "partial"}
Resolved(a, r) == <<a, r>> \in receipt \/ <<a, r>> \in proof

\* Policy.validate_lease_write(): the transitions a role may write.
WireLease(p, val) ==
    LET runner == p \in Attempts IN
    /\ ValidLease(val) /\ InScope(p, val.own)
    /\ IF lease = None
       THEN runner /\ val = InitialLease(p) /\ Reservable(p)
       ELSE /\ lease.own = val.own
            /\ \/ /\ val = [lease EXCEPT !.phase = "CLEANING"]
                  /\ runner \/ lease.phase = "CLEANING" \/ age = "lapsed"
               \/ /\ runner /\ lease.phase = "ACQUIRING"
                  /\ val = [lease EXCEPT !.phase = "ACTIVE"]
                  /\ Current(p, FALSE, TRUE)
               \/ /\ runner /\ Current(p, TRUE, TRUE) /\ val = lease
               \/ /\ runner /\ Current(p, TRUE, TRUE)
                  /\ lease.ids = 1..lease.tried
                  /\ val = [lease EXCEPT !.tried = @ + 1]
               \/ /\ lease.phase = "CLEANING" \/ (runner /\ Current(p, TRUE, TRUE))
                  /\ \E r \in 1..lease.tried :
                        /\ HasId(lease.own, r)
                        /\ val = [lease EXCEPT !.ids = @ \cup {r}]

\* control.put() of the lease: submitted once; a lost reply is accepted only
\* when a later generation holds exactly the value that was written.
PutLease(p, val, newAge, Done, Raised) ==
    LET admitted == p \in fresh /\ WireLease(p, val) IN
    \/ /\ admitted
       /\ lease' = val /\ fresh' = {p} /\ age' = newAge
       /\ mine' = [mine EXCEPT ![p] = val]
       /\ Done /\ UNCHANGED faults
    \/ /\ admitted /\ faults > 0 /\ faults' = faults - 1
       /\ lease' = val /\ fresh' = {} /\ age' = newAge
       /\ Raised
    \/ /\ IF admitted THEN faults > 0 /\ faults' = faults - 1 ELSE UNCHANGED faults
       /\ Raised /\ UNCHANGED <<lease, age>>
       /\ fresh' = IF mine'[p] = None THEN fresh \ {p} ELSE fresh
    \/ /\ p \notin fresh /\ lease = val /\ faults > 0 /\ faults' = faults - 1
       /\ fresh' = fresh \cup {p} /\ mine' = [mine EXCEPT ![p] = val]
       /\ Done /\ UNCHANGED <<lease, age>>

\* Policy.before() of a ledger write: a reservation while acquiring, the
\* terminal event of the retained completion while cleaning.
LedgerAdmitted(a, phase) ==
    /\ Current(a, FALSE, FALSE) /\ lease.phase = phase
    /\ IF phase = "ACQUIRING" THEN Reservable(a) ELSE completion[a] # None

\* control.put() of the ledger, under the same rule and a generation of its own.
PutLedger(p, led, Done, Raised) ==
    \/ /\ p \in ledgerFresh /\ ledger' = led /\ ledgerFresh' = {}
       /\ Done /\ UNCHANGED faults
    \/ /\ p \in ledgerFresh /\ faults > 0 /\ faults' = faults - 1
       /\ ledger' = led /\ ledgerFresh' = {} /\ Raised
    \/ /\ IF p \in ledgerFresh THEN faults > 0 /\ faults' = faults - 1 ELSE UNCHANGED faults
       /\ Raised /\ UNCHANGED <<ledger, ledgerFresh>>

Goto(p, where) == pc' = [pc EXCEPT ![p] = where]

\* What a process forgets when its run is over.
NoMemory == [tickets |-> {}, sent |-> {}, cert |-> FALSE, beat |-> TRUE]
NoWork == [row |-> 0, resolved |-> {}, errors |-> FALSE, pass |-> FALSE]

\* The end of a process's run: a runner's for good, a reconciler's until
\* the next dispatch.
Leave(p) ==
    /\ Goto(p, IF p \in Attempts THEN "ended" ELSE "idle")
    /\ mine' = [mine EXCEPT ![p] = None]
    /\ own' = IF p \in Attempts THEN [own EXCEPT ![p] = NoMemory] ELSE own
    /\ cl' = [cl EXCEPT ![p] = NoWork]

\* failed() then close(): an owner that learnt no generation has nothing to
\* clean; any other failure of its enters the shared cleanup.
Fail(a) ==
    IF mine[a] = None THEN Leave(a) ELSE Goto(a, "claim") /\ UNCHANGED <<mine, own, cl>>

Proceed(a, where) == Goto(a, where) /\ UNCHANGED <<own, cl>>

(***************************************************************************)
(* The owner: admission, acquisition, provisioning.                        *)
(***************************************************************************)

Init ==
    /\ lease = None /\ fresh = {} /\ age = "current"
    /\ ledger = [a \in Attempts |-> None] /\ ledgerFresh = {}
    /\ marker = {} /\ proof = {} /\ receipt = {} /\ cleanups = {}
    /\ completion = [a \in Attempts |-> None]
    /\ evidence = [a \in Attempts |-> 0]
    /\ op = [a \in Attempts |-> [r \in Row |-> "none"]]
    /\ live = {}
    /\ pc = [p \in Procs |-> IF p \in Attempts THEN "new" ELSE "idle"]
    /\ mine = [p \in Procs |-> None]
    /\ own = [a \in Attempts |-> NoMemory]
    /\ cl = [p \in Procs |-> NoWork]
    /\ sealed = {} /\ faults = MaxFaults

\* The admission factory observes the control objects: no lease, no
\* unresolved attempt, and the ledger generation the charge is planned on.
\* The workflow's concurrency group runs one runner process at a time.
Admit(a) ==
    /\ pc[a] = "new" 
    /\ \A b \in Attempts : pc[b] \in {"new", "ended"} /\ (b < a => pc[b] = "ended")
    /\ lease = None /\ Reservable(a)
    /\ fresh' = fresh \cup {a} /\ ledgerFresh' = ledgerFresh \cup {a}
    /\ Goto(a, "admitted")
    /\ UNCHANGED <<lease, age, ledger, marker, proof, receipt, cleanups, completion,
                   evidence, provider, mine, own, cl, sealed, faults>>

\* _OwnedLifecycle.acquire(), first half: context retained, then LEASE at 0.
Acquire(a) ==
    /\ pc[a] = "admitted"
    /\ IF lease = None /\ a \in ledgerFresh
       THEN PutLease(a, InitialLease(a), "current", Proceed(a, "acquired"), Fail(a))
       ELSE Fail(a) /\ UNCHANGED <<lease, fresh, age, faults>>
    /\ UNCHANGED <<ledger, ledgerFresh, marker, proof, receipt, cleanups, completion,
                   evidence, provider, sealed>>

\* acquire(), second half: the charge, admitted by the wire policy only while
\* the stored lease is this owner's and still acquiring.
Reserve(a) ==
    /\ pc[a] = "acquired"
    /\ IF LedgerAdmitted(a, "ACQUIRING")
       THEN PutLedger(a, [ledger EXCEPT ![a] = "PENDING"], Proceed(a, "charged") /\ UNCHANGED mine, Fail(a))
       ELSE Fail(a) /\ UNCHANGED <<ledger, ledgerFresh, faults>>
    /\ UNCHANGED <<lease, fresh, age, marker, proof, receipt, cleanups, completion,
                   evidence, provider, sealed>>

\* acquire(), last: the lease becomes ACTIVE and the heartbeat starts.
Activate(a) ==
    /\ pc[a] = "charged"
    /\ PutLease(a, [mine[a] EXCEPT !.phase = "ACTIVE"], age, Proceed(a, "intend"), Fail(a))
    /\ UNCHANGED <<ledger, ledgerFresh, marker, proof, receipt, cleanups, completion,
                   evidence, provider, sealed>>

\* NativeOwner.checkpoint(): renewal has not failed, the lease is the one this
\* owner wrote, active and unexpired, and the charge is pending.
Checkpoint(a) ==
    /\ own[a].beat /\ mine[a] # None /\ mine[a].phase = "ACTIVE"
    /\ a \in fresh /\ age = "current" /\ ledger[a] = "PENDING"

Working == {"intend", "check", "mark", "confirm", "send", "wait", "adopt",
            "ready", "publish", "part", "certify"}

\* _Heartbeat.run() and renew(): between the owner's locked sections.
Renew(a) ==
    /\ pc[a] \in Working /\ own[a].beat /\ age # "lapsed"
    /\ LET stop == own' = [own EXCEPT ![a].beat = FALSE] IN
       IF Checkpoint(a)
       THEN PutLease(a, mine[a], "current", UNCHANGED own, stop /\ UNCHANGED mine)
       ELSE stop /\ UNCHANGED <<lease, fresh, age, mine, faults>>
    /\ UNCHANGED <<ledger, ledgerFresh, marker, proof, receipt, cleanups, completion,
                   evidence, provider, pc, cl, sealed>>

\* provision(): the durable intent of the next row.
Intend(a) ==
    LET r == mine[a].tried + 1 IN
    /\ pc[a] = "intend" /\ mine[a].tried < Rows
    /\ IF Checkpoint(a) /\ ~Described(a, r) /\ op[a][r] = "none"
       THEN PutLease(a, [mine[a] EXCEPT !.tried = r], age, Proceed(a, "check"), Fail(a))
       ELSE Fail(a) /\ UNCHANGED <<lease, fresh, age, faults>>
    /\ UNCHANGED <<ledger, ledgerFresh, marker, proof, receipt, cleanups, completion,
                   evidence, provider, sealed>>

\* Provider.owned_insert(): what the stored lease and ledger say, whoever
\* wrote them last.
OwnedInsert(a, r) ==
    /\ Current(a, TRUE, TRUE)
    /\ r =< lease.tried /\ r \notin lease.ids

\* Provider.create(): the checks before the submission marker.
CheckInsert(a) ==
    LET r == mine[a].tried IN
    /\ pc[a] = "check"
    /\ IF OwnedInsert(a, r) /\ <<a, r>> \notin marker
       THEN Goto(a, "mark") ELSE Goto(a, "claim")
    /\ UNCHANGED <<store, provider, mine, own, cl, sealed, faults>>

\* create(): the marker is put, late or not; a lost reply abandons the insert.
PutMarker(a) ==
    LET r == mine[a].tried
        ticket == own' = [own EXCEPT ![a].tickets = @ \cup {r}] IN
    /\ pc[a] = "mark"
    /\ \/ marker' = marker \cup {<<a, r>>} /\ Goto(a, "confirm") /\ ticket /\ UNCHANGED faults
       \/ /\ faults > 0 /\ faults' = faults - 1 /\ Goto(a, "claim") /\ ticket
          /\ marker' \in {marker, marker \cup {<<a, r>>}}
    /\ UNCHANGED <<lease, fresh, age, ledger, ledgerFresh, proof, receipt, cleanups,
                   completion, evidence, provider, mine, cl, sealed>>

\* create(): ownership is checked once more with the marker retained.
ConfirmInsert(a) ==
    /\ pc[a] = "confirm"
    /\ IF OwnedInsert(a, mine[a].tried) THEN Goto(a, "send") ELSE Goto(a, "claim")
    /\ UNCHANGED <<store, provider, mine, own, cl, sealed, faults>>

\* create(): POST, sent once. The checks before it may be stale by now.
Post(a) ==
    LET r == mine[a].tried IN
    /\ pc[a] = "send"
    /\ op' = [op EXCEPT ![a][r] = "sent"]
    /\ own' = [own EXCEPT ![a].sent = @ \cup {r}]
    /\ Goto(a, "wait")
    /\ UNCHANGED <<store, live, mine, cl, sealed, faults>>

\* wait() sees the operation DONE: the receipt is retained, and a success is
\* described by its id; a rejected insert or a deadline fails the owner.
AwaitInsert(a) ==
    LET r == mine[a].tried IN
    /\ pc[a] = "wait"
    /\ \/ /\ op[a][r] \in {"done", "partial", "failed"}
          /\ receipt' = receipt \cup {<<a, r>>}
          /\ IF op[a][r] = "done" /\ Described(a, r) THEN Goto(a, "adopt") ELSE Goto(a, "claim")
          /\ UNCHANGED faults
       \/ /\ faults > 0 /\ faults' = faults - 1 /\ Goto(a, "claim") /\ UNCHANGED receipt
    /\ UNCHANGED <<lease, fresh, age, ledger, ledgerFresh, marker, proof, cleanups,
                   completion, evidence, provider, mine, own, cl, sealed>>

\* provision(): the inserted id is persisted in the lease.
Adopt(a) ==
    /\ pc[a] = "adopt"
    /\ IF Checkpoint(a)
       THEN PutLease(a, [mine[a] EXCEPT !.ids = @ \cup {mine[a].tried}], age,
                     Proceed(a, IF mine[a].tried = Rows THEN "ready" ELSE "intend"), Fail(a))
       ELSE Fail(a) /\ UNCHANGED <<lease, fresh, age, faults>>
    /\ UNCHANGED <<ledger, ledgerFresh, marker, proof, receipt, cleanups, completion,
                   evidence, provider, sealed>>

(***************************************************************************)
(* The member's run and the retention of its evidence.                     *)
(***************************************************************************)

\* cloud_member.run(): every history is replayed under the same claim and the
\* guests are closed before the capture exists; any failure raises.
RunMember(a) ==
    /\ pc[a] = "ready"
    /\ \/ Checkpoint(a) /\ Claimed(mine[a]) /\ Goto(a, "publish")
       \/ Goto(a, "claim")
    /\ UNCHANGED <<store, provider, mine, own, cl, sealed, faults>>

\* cloud_retention.publish(): manifest, then every part, each under an
\* unchanged claim; a lost reply raises and leaves no certificate.
Publish(a) ==
    /\ pc[a] \in {"publish", "part"} /\ evidence[a] =< Parts
    /\ IF Checkpoint(a) /\ Claimed(mine[a])
       THEN \/ /\ evidence' = [evidence EXCEPT ![a] = @ + 1] /\ UNCHANGED faults
               /\ Goto(a, IF evidence[a] = Parts THEN "certify" ELSE "part")
            \/ /\ faults > 0 /\ faults' = faults - 1 /\ Goto(a, "claim")
               /\ evidence' \in {evidence, [evidence EXCEPT ![a] = @ + 1]}
       ELSE Goto(a, "claim") /\ UNCHANGED <<evidence, faults>>
    /\ UNCHANGED <<lease, fresh, age, ledger, ledgerFresh, marker, proof, receipt, cleanups,
                   completion, provider, mine, own, cl, sealed>>

\* publish(), last: the capability to complete with PASS.
Certify(a) ==
    /\ pc[a] = "certify"
    /\ IF Checkpoint(a) /\ Claimed(mine[a])
       THEN own' = [own EXCEPT ![a].cert = TRUE] ELSE UNCHANGED own
    /\ Goto(a, "claim")
    /\ UNCHANGED <<store, provider, mine, cl, sealed, faults>>

(***************************************************************************)
(* Cleanup: owner's close and the reconciler of an expired lease converge. *)
(***************************************************************************)

\* reconcile(): nothing to do without a lease; an unexpired one is waited for.
Reconcile(w) ==
    /\ pc[w] = "idle" /\ lease # None /\ Reservation(lease)
    /\ lease.phase = "CLEANING" \/ age = "lapsed"
    /\ mine' = [mine EXCEPT ![w] = lease] /\ fresh' = fresh \cup {w}
    /\ Goto(w, "claim")
    /\ UNCHANGED <<lease, age, ledger, ledgerFresh, marker, proof, receipt, cleanups,
                   completion, evidence, provider, own, cl, sealed, faults>>

\* clean(): the fence, a CLEANING lease written over the read generation.
ClaimCleanup(p) ==
    /\ pc[p] = "claim"
    /\ IF Reservation(mine[p])
       THEN PutLease(p, [mine[p] EXCEPT !.phase = "CLEANING"], age,
                     /\ Goto(p, "resolve")
                     /\ cl' = [cl EXCEPT ![p] = [row |-> mine[p].tried, resolved |-> {},
                                                 errors |-> FALSE, pass |-> FALSE]]
                     /\ UNCHANGED own,
                     Leave(p))
       ELSE Leave(p) /\ UNCHANGED <<lease, fresh, age, faults>>
    /\ UNCHANGED <<ledger, ledgerFresh, marker, proof, receipt, cleanups, completion,
                   evidence, provider, sealed>>

\* Policy.can_prove_unsubmitted(): only the process that put the marker knows
\* it never dispatched the insert.
NeverDispatched(p, a, r) == p = a /\ r \in own[a].tickets /\ r \notin own[a].sent

\* Mutant of NotSubmitted: an unlisted operation behind the fence is enough.
NotSubmittedUnmarked(p, a, r) == lease # None /\ lease.own = a /\ lease.phase = "CLEANING"

\* Provider.not_submitted(): behind the fence an absent marker proves that
\* the insert was never sent.
NotSubmitted(p, a, r) ==
    /\ lease # None /\ lease.own = a /\ lease.phase = "CLEANING"
    /\ \/ <<a, r>> \in proof
       \/ <<a, r>> \notin marker
       \/ NeverDispatched(p, a, r)

\* Provider.operation(): a retained receipt, the listed operation, or a proof.
Operation(p, a, r) ==
    IF op[a][r] \in {"done", "partial", "failed"} THEN "DONE"
    ELSE IF op[a][r] = "running" THEN "PENDING"
    ELSE IF NotSubmitted(p, a, r) THEN "UNSUBMITTED" ELSE "UNKNOWN"

\* cleanup(), the delete phase of one row: resolve the operation even when the
\* resource is absent, adopt its id, persist, then delete.
ResolveRow(p) ==
    LET a == mine[p].own
        r == cl[p].row
        state == Operation(p, a, r)
        next == [cl EXCEPT ![p].row = @ - 1]
        good == [next EXCEPT ![p].resolved = @ \cup {r}]
        bad == [next EXCEPT ![p].errors = TRUE]
        value == IF state = "DONE" /\ op[a][r] # "failed"
                 THEN [mine[p] EXCEPT !.ids = @ \cup {r}] ELSE mine[p] IN
    /\ pc[p] = "resolve" /\ r > 0
    /\ receipt' = IF state = "DONE" THEN receipt \cup {<<a, r>>} ELSE receipt
    /\ proof' = IF state = "UNSUBMITTED" THEN proof \cup {<<a, r>>} ELSE proof
    /\ IF state \in {"DONE", "UNSUBMITTED"}
       THEN PutLease(p, value, age,
                     IF Described(a, r)
                     THEN Goto(p, "delete") /\ cl' = [cl EXCEPT ![p].resolved = @ \cup {r}]
                     ELSE cl' = good /\ UNCHANGED pc,
                     cl' = bad /\ UNCHANGED <<pc, mine>>)
       ELSE cl' = bad /\ UNCHANGED <<lease, fresh, age, faults, pc, mine>>
    /\ UNCHANGED <<ledger, ledgerFresh, marker, cleanups, completion,
                   evidence, provider, own, sealed>>

\* Provider.delete(): by exact id, under a CLEANING lease that names it.
DeleteRow(p) ==
    LET a == mine[p].own
        r == cl[p].row
        next == [cl EXCEPT ![p].row = @ - 1] IN
    /\ pc[p] = "delete" /\ Goto(p, "resolve")
    /\ \/ /\ lease # None /\ lease.own = a /\ lease.phase = "CLEANING" /\ r \in lease.ids
          /\ live' = live \ {<<a, r>>} /\ cl' = next /\ UNCHANGED faults
       \/ /\ ~(lease # None /\ lease.own = a /\ r \in lease.ids) \/ faults > 0
          /\ IF lease # None /\ lease.own = a /\ r \in lease.ids
             THEN faults' = faults - 1 /\ live' \in {live, live \ {<<a, r>>}}
             ELSE UNCHANGED <<faults, live>>
          /\ cl' = [next EXCEPT ![p].errors = TRUE]
    /\ UNCHANGED <<store, op, mine, own, sealed>>

\* Policy.cleanup_value(): PASS says every attempted row was resolved and
\* then observed absent, without an error on the way.
CleanupPass(p) ==
    /\ ~cl[p].errors
    /\ \A r \in 1..mine[p].tried : r \in cl[p].resolved /\ ~Described(mine[p].own, r)

\* cleanup(), the absence phase, and the record of its outcome.
CheckAbsence(p) ==
    LET a == mine[p].own
        pass == CleanupPass(p) IN
    /\ pc[p] = "resolve" /\ cl[p].row = 0
    /\ cl' = [cl EXCEPT ![p].pass = pass]
    /\ cleanups' = cleanups \cup {<<a, pass>>}
    /\ Goto(p, "conclude")
    /\ UNCHANGED <<lease, fresh, age, ledger, ledgerFresh, marker, proof, receipt, completion,
                   evidence, provider, mine, own, sealed, faults>>

\* Mutant of Outcome: a passed cleanup completes the attempt.
OutcomeUncertified(p) == IF p \in Attempts /\ cl[p].pass THEN "PASS" ELSE "FAIL"

\* cloud_retention.completion(): PASS needs this process's certificate and a
\* passed cleanup; everything else completes as FAIL.
Outcome(p) ==
    IF p \in Attempts /\ own[p].cert /\ cl[p].pass THEN "PASS" ELSE "FAIL"

\* clean(): the immutable completion; one that is already retained is kept.
Conclude(p) ==
    LET a == mine[p].own
        go == /\ ledgerFresh' = ledgerFresh \cup {p}
              /\ Goto(p, "finish") /\ UNCHANGED <<mine, own, cl, fresh>> IN
    /\ pc[p] = "conclude"
    /\ IF completion[a] = None
       THEN \/ completion' = [completion EXCEPT ![a] = Outcome(p)] /\ go /\ UNCHANGED faults
            \/ /\ faults > 0 /\ faults' = faults - 1
               /\ completion' \in {completion, [completion EXCEPT ![a] = Outcome(p)]}
               /\ Leave(p) /\ fresh' = fresh \ {p} /\ UNCHANGED ledgerFresh
       ELSE go /\ UNCHANGED <<completion, faults>>
    /\ UNCHANGED <<lease, age, ledger, marker, proof, receipt, cleanups, evidence,
                   provider, sealed>>

\* Mutant of Finish: a lease whose charge was never written is an error.
FinishCharged(p) ==
    LET a == mine[p].own
        quit == Leave(p) /\ fresh' = fresh \ {p} IN
    /\ pc[p] = "finish"
    /\ IF ledger[a] = "PENDING" /\ Current(a, FALSE, FALSE)
       THEN PutLedger(p, [ledger EXCEPT ![a] = completion[a]],
                      IF cl[p].pass THEN Goto(p, "release") /\ UNCHANGED <<mine, own, cl, fresh>> ELSE quit,
                      quit)
       ELSE /\ IF ledger[a] = completion[a] /\ cl[p].pass
               THEN Goto(p, "release") /\ UNCHANGED <<mine, own, cl, fresh>> ELSE quit
            /\ UNCHANGED <<ledger, ledgerFresh, faults>>
    /\ UNCHANGED <<lease, age, marker, proof, receipt, cleanups, completion, evidence,
                   provider, sealed>>

\* clean(): the terminal ledger event, or agreement with the retained one.
Finish(p) ==
    LET a == mine[p].own
        quit == Leave(p) /\ fresh' = fresh \ {p}
        next == IF cl[p].pass THEN Goto(p, "release") /\ UNCHANGED <<mine, own, cl, fresh>>
                ELSE quit IN
    /\ pc[p] = "finish"
    /\ IF ledger[a] = "PENDING"
       THEN IF LedgerAdmitted(a, "CLEANING")
            THEN PutLedger(p, [ledger EXCEPT ![a] = completion[a]], next, quit)
            ELSE quit /\ UNCHANGED <<ledger, ledgerFresh, faults>>
       ELSE /\ IF ledger[a] \in {None, completion[a]} THEN next ELSE quit
            /\ UNCHANGED <<ledger, ledgerFresh, faults>>
    /\ UNCHANGED <<lease, age, marker, proof, receipt, cleanups, completion, evidence,
                   provider, sealed>>

\* The release fence of Policy.before(): completion retained, no pending
\* charge, and absence observed again.
ReleaseAdmitted(p) ==
    /\ p \in fresh /\ lease # None /\ lease = mine[p] /\ lease.phase = "CLEANING"
    /\ completion[lease.own] # None /\ ledger[lease.own] # "PENDING"
    /\ \A r \in 1..lease.tried : ~Described(lease.own, r) /\ Resolved(lease.own, r)

\* cloud_member_seal.capture(): only inside the original close, with its
\* certificate, a passed result and no failed renewal.
Sealable(p) == p \in Attempts /\ own[p].cert /\ own[p].beat /\ completion[p] = "PASS"

\* release() and, for the owner, the seal captured inside its close.
Release(p) ==
    LET a == mine[p].own IN
    /\ pc[p] = "release" /\ Leave(p)
    /\ IF ReleaseAdmitted(p)
       THEN \/ /\ lease' = None /\ fresh' = {} /\ age' = "current" /\ UNCHANGED faults
               /\ sealed' = IF Sealable(p) THEN sealed \cup {a} ELSE sealed
            \/ /\ faults > 0 /\ faults' = faults - 1 /\ UNCHANGED sealed
               /\ \/ lease' = None /\ fresh' = {} /\ age' = "current"
                  \/ fresh' = fresh \ {p} /\ UNCHANGED <<lease, age>>
       ELSE fresh' = fresh \ {p} /\ UNCHANGED <<lease, age, sealed, faults>>
    /\ UNCHANGED <<ledger, ledgerFresh, marker, proof, receipt, cleanups, completion,
                   evidence, provider>>

(***************************************************************************)
(* The environment: the provider, the clock, and a process that stops.     *)
(***************************************************************************)

\* An insert that was sent is accepted, and runs to success, to an error, or
\* to an error that left a resource behind; a lost one is never listed.
ProviderStep(a, r) ==
    /\ \/ op[a][r] = "sent" /\ op' = [op EXCEPT ![a][r] = "running"] /\ UNCHANGED <<live, faults>>
       \/ /\ op[a][r] = "sent" /\ faults > 0 /\ faults' = faults - 1
          /\ op' = [op EXCEPT ![a][r] = "dropped"] /\ UNCHANGED live
       \/ /\ op[a][r] = "running" /\ UNCHANGED faults
          /\ \E result \in {"done", "failed", "partial"} :
                /\ op' = [op EXCEPT ![a][r] = result]
                /\ live' = IF result = "failed" THEN live ELSE live \cup {<<a, r>>}
    /\ UNCHANGED <<store, pc, mine, own, cl, sealed>>

\* The wall clock passes the expiry, then the grace period.
Tick ==
    /\ lease # None
    /\ \/ age = "current" /\ age' = "expired"
       \/ age = "expired" /\ age' = "lapsed"
    /\ UNCHANGED <<lease, fresh, ledger, ledgerFresh, marker, proof, receipt, cleanups,
                   completion, evidence, provider, pc, mine, own, cl, sealed, faults>>

\* A process stops anywhere: a runner for good, a reconciler until the next
\* dispatch.
Stop(p) ==
    /\ faults > 0 /\ faults' = faults - 1
    /\ pc[p] \notin {"new", "idle", "ended"}
    /\ Leave(p) /\ fresh' = fresh \ {p} /\ ledgerFresh' = ledgerFresh \ {p}
    /\ UNCHANGED <<lease, age, ledger, marker, proof, receipt, cleanups, completion,
                   evidence, provider, sealed>>

Owner(a) ==
    \/ Acquire(a) \/ Reserve(a) \/ Activate(a) \/ Intend(a) \/ CheckInsert(a) \/ PutMarker(a)
    \/ ConfirmInsert(a) \/ Post(a) \/ AwaitInsert(a) \/ Adopt(a) \/ RunMember(a)
    \/ Publish(a) \/ Certify(a)

Cleaner(p) ==
    \/ ClaimCleanup(p) \/ ResolveRow(p) \/ DeleteRow(p) \/ CheckAbsence(p)
    \/ Conclude(p) \/ Finish(p) \/ Release(p)

Next ==
    \/ \E a \in Attempts : Admit(a) \/ Owner(a) \/ Renew(a)
    \/ \E w \in Reconcilers : Reconcile(w)
    \/ \E p \in Procs : Cleaner(p) \/ Stop(p)
    \/ \E a \in Attempts, r \in Row : ProviderStep(a, r)
    \/ Tick

Spec == Init /\ [][Next]_vars

\* A started runner or reconciler goes on with its own work and then with its
\* cleanup, the provider finishes what it accepted, time passes.  Nothing makes
\* an operator dispatch a reconciler.
Fairness ==
    /\ \A a \in Attempts : WF_vars(Owner(a) \/ Cleaner(a))
    /\ \A w \in Reconcilers : WF_vars(Cleaner(w))
    /\ WF_vars(\E a \in Attempts, r \in Row : ProviderStep(a, r))
    /\ WF_vars(Tick)

FairSpec == Spec /\ Fairness

(***************************************************************************)
(* Properties.                                                             *)
(***************************************************************************)

\* No paid resource and no insert under way escapes the lease: whatever was
\* sent by a runner that stalled, stopped or was fenced is still an intent of
\* the retained lease, so a released lease leaves nothing behind
\* (cloud_provider.create against clean and release).  A pending charge has its
\* lease too: reconcile() never meets an orphan reservation that would block
\* the next attempt.
NothingLeaks ==
    \A a \in Attempts :
        /\ ledger[a] = "PENDING" => lease # None /\ lease.own = a
        /\ \A r \in Row :
             <<a, r>> \in live \/ op[a][r] \in {"sent", "running"} =>
                 lease # None /\ lease.own = a /\ r =< lease.tried

\* An attempt that the ledger counts as passed retained all its evidence,
\* had a passed cleanup and owns no resource; a sealed one also gave its
\* lease back.
PassIsQualified ==
    /\ \A a \in Attempts : ledger[a] = "PASS" =>
          /\ evidence[a] = Parts + 1 /\ <<a, TRUE>> \in cleanups
          /\ \A r \in Row : <<a, r>> \notin live
    /\ \A a \in sealed : ledger[a] = "PASS" /\ (lease # None => lease.own # a)

\* For an operator who keeps dispatching the manual cleanup while a lease may
\* need it, every lease is given back in the end, by its owner or by reconcile(),
\* unless an insert whose marker is retained never reached the provider: that
\* one the code refuses to guess about.  So the lease is free again and again.
\* Without the operator a lease whose runner stopped stays.
OperatorDispatches == \A w \in Reconcilers : WF_vars(Reconcile(w))
Unresolvable(a) ==
    \E r \in Row : <<a, r>> \in marker \ proof /\ op[a][r] \in {"none", "dropped"}
LeaseReturns ==
    OperatorDispatches => []<>(lease = None \/ Unresolvable(lease.own))
=============================================================================
