-------------------------- MODULE ConfiguredRemote --------------------------
(***************************************************************************)
(* The remote execution of the configured-leader workload (V5.0): the probe *)
(* that drives one voter on each of three machines, the runner that owns    *)
(* every resource it creates, and the sequence of five runs.  A process     *)
(* number stands for a pid with its start ticks, a time is in seconds.      *)
(***************************************************************************)
EXTENDS ConfiguredWorkload

-----------------------------------------------------------------------------
(* RemoteProbe, RemoteWorker and the guest: the processes of one run. *)

RemoteGenerations == 1..2       \* at most 32 in the code
FaultUpdates == 3               \* ten updates in the code
FaultedCells == <<"unavailable", "slow", "incremental", "snapshot">>
VoterNumber(w) == CHOOSE k \in 1..3 : VoterAt(k) = w
\* The leader of the first generation is killed at a barrier; every other process is closed.
KilledAtBarrier(w, g) == w = "n1" /\ g = 1
ProcessOf(w, g) == (2 * VoterNumber(w)) + g

GuestPrepared(w) ==
    [k \in 1..3 |-> Prop(<<"VM", "BOOT", "ADDRESS">>[k], w, VoterNumber(w))] \o <<SeenO("DISTRIBUTION", w, "PINNED"), SeenO("SHAPE", w, "WATCHED"), Frame("ENDPOINT", "hosts", VoterNumber(w), VoterNumber(w))>>
\* A volume is first mounted at the first voter, and then at its own.
Mounted(w, g) == <<Frame("MOUNT_HOST", w, g, IF g = 1 THEN 1 ELSE VoterNumber(w)), Frame("MOUNT_DISK", w, g, VoterNumber(w))>>
\* start_all: every process is launched before the first one is awaited.
Launched(g) == [k \in 1..3 |-> Frame("WORKER", VoterAt(k), g, ProcessOf(VoterAt(k), g))] \o [k \in 1..3 |-> Obs("row", "MEMBER", VoterAt(k), g, "BOUND", ProcessOf(VoterAt(k), g))]
Closed(w, g) ==
    <<Obs("row", "STOP", w, g, IF KilledAtBarrier(w, g) THEN "KILLED" ELSE "EXITED", ProcessOf(w, g)), Frame("FORCED", w, g, IF KilledAtBarrier(w, g) THEN 1 ELSE 0), Frame("MEMBER_VM", w, g, VoterNumber(w)), Frame("MEMBER_BOOT", w, g, VoterNumber(w))>>
\* fault_cell: a write every second while the follower is isolated or slow.
FaultCell(c) ==
    <<Frame("COMMIT", c, 1, 2), Obs("row", "FAULT_ON", c, 1, IF c = "slow" THEN "slow" ELSE "block-node-3", 0)>> \o [i \in 1..FaultUpdates |-> Frame("UPDATE", c, i, i - 1)]
      \o <<Frame("COMMIT", c, 2, IF c = "slow" THEN 3 ELSE 2), Obs("row", "HEALED", c, 1, "none", FaultUpdates), Try("CATCHUP", c)>>
\* collect: the archive that arrived is the one the guest described, with its own files only.
CollectedFrom(w) == <<Frame("ARCHIVE", w, 1, VoterNumber(w)), Frame("ARCHIVE", w, 2, VoterNumber(w)), SeenO("NAMESPACE", w, "OWN")>>
RemoteScript ==
    LET each(f(_)) == FlattenSeq([k \in 1..3 |-> f(VoterAt(k))])
    IN each(GuestPrepared) \o each(LAMBDA w : Mounted(w, 1)) \o Mounted("n2", 2) \o Mounted("n3", 2) \o Launched(1) \o FlattenSeq([k \in DOMAIN FaultedCells |-> FaultCell(FaultedCells[k])])
         \o each(LAMBDA w : Closed(w, 1)) \o Launched(2) \o each(LAMBDA w : Closed(w, 2)) \o each(CollectedFrom) \o <<SeenO("REQUEST", "hosts", "VALID"), SeenO("BUNDLE", "hosts", "PINNED")>>

\* provenance: three machines, and each process is the one its guest started and stopped.
ProvenanceKept(rows) ==
    /\ Exact(rows, SeenO("REQUEST", "hosts", "VALID")) /\ Exact(rows, SeenO("BUNDLE", "hosts", "PINNED"))
    /\ \A e \in {"VM", "BOOT", "ADDRESS"} : Cardinality({Value(rows, e, w) : w \in ThreeVoters}) = 3
    /\ \A k \in 1..3 : Epoch(rows, "ENDPOINT", "hosts", k) = Value(rows, "ADDRESS", VoterAt(k))
    /\ \A w \in ThreeVoters :
         /\ Exact(rows, SeenO("DISTRIBUTION", w, "PINNED")) /\ Exact(rows, SeenO("SHAPE", w, "WATCHED"))
         /\ 1 \in Indices(rows, "MOUNT_HOST", w) /\ (w = "n1" \/ 2 \in Indices(rows, "MOUNT_HOST", w))
         /\ \A g \in Indices(rows, "MOUNT_HOST", w) : Epoch(rows, "MOUNT_HOST", w, g) = Value(rows, "VM", IF g = 1 THEN "n1" ELSE w) /\ Epoch(rows, "MOUNT_DISK", w, g) = Epoch(rows, "MOUNT_DISK", w, 1)
         /\ LET members == Indices(rows, "MEMBER", w)
            IN members # {} /\ members = 1..Top(members) /\ \A g \in members :
                 /\ Has(rows, Obs("row", "MEMBER", w, g, "BOUND", Epoch(rows, "WORKER", w, g)))
                 /\ Epoch(rows, "MEMBER_VM", w, g) = Value(rows, "VM", w) /\ Epoch(rows, "MEMBER_BOOT", w, g) = Value(rows, "BOOT", w)
                 /\ Has(rows, Obs("row", "STOP", w, g, IF Epoch(rows, "FORCED", w, g) = 1 THEN "KILLED" ELSE "EXITED", Epoch(rows, "WORKER", w, g)))
\* validate_raw: the writes of a fault are spread over its whole interval.
FaultsKept(rows) ==
    \A k \in DOMAIN FaultedCells :
        LET c == FaultedCells[k]
            at(i) == Epoch(rows, "UPDATE", c, i)
        IN /\ Outcomes(rows, Seen("FAULT_ON", c)) = {IF c = "slow" THEN "slow" ELSE "block-node-3"} /\ Outcomes(rows, Seen("HEALED", c)) = {"none"}
           /\ Value(rows, "HEALED", c) - Value(rows, "FAULT_ON", c) >= FaultUpdates
           /\ Indices(rows, "UPDATE", c) = 1..FaultUpdates /\ \A i \in 1..FaultUpdates : Outcomes(rows, Frame("UPDATE", c, i, 0)) = {"OK"}
           /\ \A i \in 2..FaultUpdates : at(i) - at(i - 1) >= 1
           /\ c # "slow" => Epoch(rows, "COMMIT", c, 1) = Epoch(rows, "COMMIT", c, 2)
RemoteValid(rows) ==
    /\ ProvenanceKept(rows) /\ FaultsKept(rows)
    /\ \A w \in ThreeVoters : Epoch(rows, "ARCHIVE", w, 2) = Epoch(rows, "ARCHIVE", w, 1) /\ Exact(rows, SeenO("NAMESPACE", w, "OWN"))
RemoteBreaches ==
    {Turn(Seen("REQUEST", "hosts"), "OTHER"), Turn(Seen("BUNDLE", "hosts"), "DIRTY"), Renumber(Seen("VM", "n2"), 1), Renumber(Seen("BOOT", "n3"), 2), Renumber(Seen("ADDRESS", "n3"), 1), Renumber(Frame("ENDPOINT", "hosts", 2, 0), 3), Turn(Seen("DISTRIBUTION", "n2"), "OTHER"),
     Turn(Seen("SHAPE", "n1"), "UNWATCHED"), Renumber(Frame("MOUNT_HOST", "n3", 1, 0), 3), Drop(Frame("MOUNT_HOST", "n2", 2, 0)), Renumber(Frame("MOUNT_DISK", "n3", 2, 0), 2), Drop(Frame("MEMBER", "n1", 1, 0)), Renumber(Frame("MEMBER", "n2", 2, 0), 1),
     Turn(Frame("MEMBER", "n3", 1, 0), "OTHER_STREAM"), Renumber(Frame("MEMBER_BOOT", "n1", 2, 0), 2), Renumber(Frame("STOP", "n1", 1, 0), 9), Turn(Frame("STOP", "n1", 1, 0), "EXITED"), Turn(Frame("STOP", "n2", 2, 0), "KILLED"), Renumber(Frame("FORCED", "n3", 1, 0), 1),
     Turn(Seen("FAULT_ON", "slow"), "block-node-3"), Drop(Frame("UPDATE", "snapshot", 3, 0)), Turn(Frame("UPDATE", "slow", 2, 0), "REFUSED"), Renumber(Frame("UPDATE", "incremental", 2, 0), 0), Renumber(Seen("HEALED", "unavailable"), 2), Renumber(Frame("COMMIT", "unavailable", 2, 0), 3),
     Renumber(Frame("ARCHIVE", "n2", 2, 0), 3), Turn(Seen("NAMESPACE", "n3"), "FOREIGN")}

-----------------------------------------------------------------------------
(* exercise: the time of each part is charged to one of its reservations. *)

ReservedSetup == 2
ReservedControl == 2
ReservedWarmup == 3
ReservedTail == 2
MeasuredSeconds == 4
FaultSeconds == 2
TimeAt(name, t) == Prop("AT", name, t)
TimedScript ==
    <<TimeAt("begin", 0), TimeAt("control-from", 1), TimeAt("control-to", 2), TimeAt("warmup-from", 3), TimeAt("warmup-to", 4), TimeAt("healthy-from", 4), Frame("WINDOW", "healthy", 1, 2), Frame("WINDOW", "healthy", 2, 2), TimeAt("healthy-to", 9), Prop("MEASURED", "healthy", 4),
      Prop("OVERHEAD", "healthy", 1), TimeAt("restart-from", 9), TimeAt("restart-to", 11), TimeAt("restore-from", 11), TimeAt("restore-to", 12), TimeAt("end", 13)>>
TimedValid(rows) ==
    LET at(name) == Value(rows, "AT", name)
        span(from, to) == at(to) - at(from)
        control == span("control-from", "control-to")
        restore == span("restore-from", "restore-to")
        active == Epoch(rows, "WINDOW", "healthy", 1) + Epoch(rows, "WINDOW", "healthy", 2)
        spare == span("healthy-from", "healthy-to") - active
        charged == Value(rows, "OVERHEAD", "healthy")
    IN /\ control + restore \in 1..ReservedControl /\ span("begin", "warmup-from") - control \in 1..ReservedSetup
       /\ at("healthy-from") >= at("warmup-to") /\ at("restart-from") >= at("healthy-to")
       /\ active = MeasuredSeconds /\ Value(rows, "MEASURED", "healthy") = active /\ charged \in 0..spare /\ spare - charged < 1
       /\ span("restart-from", "restart-to") \in FaultSeconds..(FaultSeconds + 1)
       /\ span("warmup-from", "warmup-to") > 0
       /\ span("warmup-from", "warmup-to") + span("warmup-to", "healthy-from") + span("healthy-to", "restart-from") + spare <= ReservedWarmup
       /\ span("restart-to", "end") - restore \in 1..ReservedTail
TimedBreaches ==
    {Renumber(Seen("AT", "restore-to"), 13), Renumber(Seen("AT", "warmup-from"), 6), Renumber(Seen("AT", "warmup-to"), 7), Renumber(Seen("AT", "healthy-from"), 3), Renumber(Seen("AT", "restart-from"), 8), Renumber(Seen("OVERHEAD", "healthy"), 2), Renumber(Seen("OVERHEAD", "healthy"), 0),
     Renumber(Seen("MEASURED", "healthy"), 5), Renumber(Frame("WINDOW", "healthy", 2, 0), 1), Renumber(Seen("AT", "restart-to"), 13), Renumber(Seen("AT", "end"), 15), Renumber(Seen("AT", "end"), 12)}

-----------------------------------------------------------------------------
(* Runner: every resource is an intent of the lease before it is created. *)

OwnedInventory == <<"firewall", "data-1", "data-2", "data-3", "vm-1", "vm-2", "vm-3", "data-3-g2", "data-1-g2">>
InitialResources == 7           \* 13 in the code
InventoryAt(name) == CHOOSE i \in DOMAIN OwnedInventory : OwnedInventory[i] = name
\* create: the name is free, the attempt is persisted, then the insert.
Created(name) ==
    <<Seen("ABSENT", name), Prop("INTENT", name, InventoryAt(name)), Prop("REQUEST_ID", name, InventoryAt(name)), Obs("row", "INSERTED", name, 1, "FINISHED", InventoryAt(name)), Prop("OBSERVED", name, InventoryAt(name))>>
\* replace_data_disk: the old disk is preserved and gone before the new one is allocated.
DiskReplaced(old, new, source, from, to) ==
    <<Prop("PRESERVED", old, 5), Prop("RETIRED", old, InventoryAt(old))>> \o Created(new)
      \o <<Obs("row", "REPLACED", new, 1, "ADMITTED", source), Frame("REPLACED_MOUNT", new, 1, InventoryAt(from)), Frame("REPLACED_MOUNT", new, 2, InventoryAt(to)), Frame("REPLACED_DISK", new, 1, InventoryAt(new)), Frame("REPLACED_DISK", new, 2, InventoryAt(new))>>
\* deletion_order: machines before disks before firewalls.
OwnedDeletions == <<"vm-3", "vm-2", "vm-1", "data-1-g2", "data-3-g2", "data-2", "firewall">>
OwnedScript ==
    <<Seen("LEASE", "run"), Prop("SEQUENCE_REQUEST", "run", 1), Prop("BUDGET_REQUEST", "run", 1), Prop("BUDGET_APPROVAL", "run", 2), Prop("APPROVAL", "run", 2)>>
      \o FlattenSeq([i \in 1..InitialResources |-> Created(OwnedInventory[i])])
      \o DiskReplaced("data-3", "data-3-g2", 1, "vm-1", "vm-3") \o DiskReplaced("data-1", "data-1-g2", 2, "vm-2", "vm-1")
      \o [i \in DOMAIN OwnedDeletions |-> Seen("DELETED", OwnedDeletions[i])] \o [i \in DOMAIN OwnedInventory |-> Obs("row", "CHECK", OwnedInventory[i], 1, "ABSENT", i)]
      \o FlattenSeq([k \in 1..3 |-> <<Prop("GUEST_VM", VoterAt(k), 4 + k), Prop("GUEST_DISK", VoterAt(k), 1 + k)>>]) \o <<Prop("LOST_FILES", "data-3", 5), Prop("LOST_FILES", "data-1", 5)>>
      \o <<Prop("RESULT", "bundle", 3), Prop("RESULT", "lifecycle", 3), Prop("REQUEST", "run", 1), SeenO("CLEANUP", "run", "PASS"), SeenO("RETENTION", "run", "VERIFIED"), Obs("row", "STATUS", "run", 1, "PASS", 0), Seen("LEASE_RELEASED", "run")>>

\* validate: what the completion record must say of each resource.
ResourcesKept(rows) ==
    /\ \A i \in DOMAIN OwnedInventory :
         LET name == OwnedInventory[i]
         IN /\ Exact(rows, Prop("INTENT", name, i)) /\ Exact(rows, Obs("row", "INSERTED", name, 1, "FINISHED", Value(rows, "OBSERVED", name)))
            /\ Exact(rows, Obs("row", "CHECK", name, 1, "ABSENT", Value(rows, "INSERTED", name)))
    /\ \A e \in {"INSERTED", "REQUEST_ID"} : Cardinality({Value(rows, e, n) : n \in Range(OwnedInventory)}) = Len(OwnedInventory)
DiskReplacementKept(rows, old, new, source, from, to) ==
    /\ Value(rows, "RETIRED", old) = Value(rows, "INSERTED", old) /\ Value(rows, "INSERTED", old) # Value(rows, "INSERTED", new)
    /\ Exact(rows, Obs("row", "REPLACED", new, 1, "ADMITTED", source)) /\ Value(rows, "PRESERVED", old) = Value(rows, "LOST_FILES", old)
    /\ \A g \in 1..2 : Epoch(rows, "REPLACED_DISK", new, g) = Value(rows, "INSERTED", new) /\ Epoch(rows, "REPLACED_MOUNT", new, g) = Value(rows, "INSERTED", IF g = 1 THEN from ELSE to)
OwnedValid(rows) ==
    /\ Exact(rows, SeenO("STATUS", "run", "PASS")) /\ Exact(rows, SeenO("CLEANUP", "run", "PASS")) /\ Exact(rows, SeenO("RETENTION", "run", "VERIFIED"))
    /\ ResourcesKept(rows) /\ DiskReplacementKept(rows, "data-3", "data-3-g2", 1, "vm-1", "vm-3") /\ DiskReplacementKept(rows, "data-1", "data-1-g2", 2, "vm-2", "vm-1")
    /\ \A k \in 1..3 : Value(rows, "GUEST_VM", VoterAt(k)) = Value(rows, "INSERTED", <<"vm-1", "vm-2", "vm-3">>[k]) /\ Value(rows, "GUEST_DISK", VoterAt(k)) = Value(rows, "INSERTED", <<"data-1", "data-2", "data-3">>[k])
    /\ Agree(rows, "RESULT", {"bundle", "lifecycle"}) /\ Value(rows, "BUDGET_REQUEST", "run") = Value(rows, "REQUEST", "run") /\ Value(rows, "BUDGET_APPROVAL", "run") = Value(rows, "APPROVAL", "run")
OwnedBreaches ==
    {Turn(Seen("STATUS", "run"), "FAIL"), Renumber(Seen("STATUS", "run"), 1), Turn(Seen("CLEANUP", "run"), "FAIL"), Turn(Seen("RETENTION", "run"), "INCOMPLETE"), Drop(Seen("INTENT", "firewall")), Renumber(Seen("INTENT", "data-3-g2"), 9), Turn(Seen("INSERTED", "vm-2"), "UNRESOLVED"),
     Renumber(Seen("OBSERVED", "data-2"), 1), Turn(Seen("CHECK", "vm-3"), "PRESENT"), Renumber(Seen("CHECK", "data-1"), 3), Drop(Seen("CHECK", "data-1-g2")), Renumber(Seen("REQUEST_ID", "vm-1"), 1), Renumber(Seen("RETIRED", "data-3"), 2), Renumber(Seen("REPLACED", "data-1-g2"), 1),
     Turn(Seen("REPLACED", "data-3-g2"), "REFUSED"), Renumber(Seen("LOST_FILES", "data-1"), 4), Renumber(Frame("REPLACED_MOUNT", "data-3-g2", 2, 0), 5), Renumber(Frame("REPLACED_DISK", "data-1-g2", 1, 0), 2), Renumber(Seen("GUEST_VM", "n2"), 5), Renumber(Seen("GUEST_DISK", "n1"), 3),
     Renumber(Seen("RESULT", "bundle"), 4), Renumber(Seen("BUDGET_REQUEST", "run"), 2), Renumber(Seen("APPROVAL", "run"), 3)}

-----------------------------------------------------------------------------
(* The sequence of five runs: experiment 1, drill 2, canonical 3 to 5. *)

SequenceOrders == [first \in {"experiment-first", "canonical-first"} |-> IF first = "experiment-first" THEN <<1, 2, 3, 4, 5>> ELSE <<3, 4, 5, 1, 2>>]
SequenceCeiling == 5
InSet(e, i, k) == Frame(e, "set", i, k)
SequenceScript(first) ==
    FlattenSeq([i \in 1..5 |-> <<InSet("RESERVED", i, SequenceOrders[first][i]), InSet("REQUESTED", i, i), InSet("SOURCE", i, 1), InSet("OWNER", i, i), InSet("PREVIOUS_COST", i, i - 1), InSet("COST", i, 1), InSet("STARTED_AT", i, (2 * i) - 1),
                                 InSet("FINISHED_AT", i, 2 * i), InSet("ARTIFACTS", i, 1), Obs("row", "COMPLETED", "set", i, "PASS", i), Obs("row", "LEDGER", "set", i, "PASS", i)>>])
\* reserve_budget: the approval knew what was spent, and the request was never paid before.
BudgetReservable(rows, i) ==
    LET spent == FoldLeft(LAMBDA s, j : s + Epoch(rows, "COST", "set", j), 0, [j \in 1..(i - 1) |-> j])
    IN /\ Epoch(rows, "PREVIOUS_COST", "set", i) = spent /\ Epoch(rows, "COST", "set", i) > 0 /\ spent + Epoch(rows, "COST", "set", i) <= SequenceCeiling
       /\ \A j \in 1..(i - 1) : Epoch(rows, "REQUESTED", "set", j) # Epoch(rows, "REQUESTED", "set", i)
\* reserve_sequence: every earlier run of the sequence is completed, retained and cleaned.
RunReservable(rows, i) ==
    LET reserved == InSet("RESERVED", i, 0)
    IN /\ \E first \in DOMAIN SequenceOrders : [j \in 1..i |-> Epoch(rows, "RESERVED", "set", j)] = SubSeq(SequenceOrders[first], 1, i)
       /\ \A j \in 1..(i - 1) :
            /\ Exact(rows, Obs("row", "LEDGER", "set", j, "PASS", Epoch(rows, "COMPLETED", "set", j))) /\ Outcomes(rows, InSet("COMPLETED", j, 0)) = {"PASS"}
            /\ First(rows, InSet("LEDGER", j, 0)) < First(rows, reserved) /\ Epoch(rows, "SOURCE", "set", j) = Epoch(rows, "SOURCE", "set", i)
       /\ BudgetReservable(rows, i)
\* validate_set.
SequenceValid(rows) ==
    /\ Indices(rows, "RESERVED", "set") = 1..5 /\ \A i \in 1..5 : RunReservable(rows, i) /\ Outcomes(rows, InSet("COMPLETED", i, 0)) = {"PASS"}
    /\ Cardinality({Epoch(rows, "SOURCE", "set", i) : i \in 1..5}) = 1 /\ Cardinality({Epoch(rows, "OWNER", "set", i) : i \in 1..5}) = 5 /\ Cardinality({Epoch(rows, "ARTIFACTS", "set", i) : i \in 1..5}) = 1
    /\ \A i \in 1..4 : Epoch(rows, "FINISHED_AT", "set", i) <= Epoch(rows, "STARTED_AT", "set", i + 1)
SequenceBreaches ==
    {Drop(InSet("RESERVED", 4, 0)), Early(InSet("RESERVED", 3, 0)), Renumber(InSet("RESERVED", 2, 0), 3), Renumber(InSet("REQUESTED", 5, 0), 1), Renumber(InSet("SOURCE", 3, 0), 2), Renumber(InSet("OWNER", 2, 0), 1), Renumber(InSet("COST", 5, 0), 2), Renumber(InSet("PREVIOUS_COST", 4, 0), 2),
     Turn(InSet("LEDGER", 2, 0), "RUNNING"), Renumber(InSet("LEDGER", 1, 0), 2), Drop(InSet("LEDGER", 3, 0)), Turn(InSet("COMPLETED", 5, 0), "FAIL"), Renumber(InSet("STARTED_AT", 3, 0), 3), Renumber(InSet("ARTIFACTS", 4, 0), 2)}

-----------------------------------------------------------------------------
(* The remote runs as cases of the matrix. *)

RemoteRuns == {"probe", "timed", "owned", "experiment-first", "canonical-first"}
RemoteCases == {Case("conf-remote", x) : x \in RemoteRuns}
RemoteRunScript(x) == CASE x = "probe" -> RemoteScript [] x = "timed" -> TimedScript [] x = "owned" -> OwnedScript [] OTHER -> SequenceScript(x)
RemoteRunValid(x, rows) == CASE x = "probe" -> RemoteValid(rows) [] x = "timed" -> TimedValid(rows) [] x = "owned" -> OwnedValid(rows) [] OTHER -> SequenceValid(rows)
RemoteRunBreaches(x) == CASE x = "probe" -> RemoteBreaches [] x = "timed" -> TimedBreaches [] x = "owned" -> OwnedBreaches [] OTHER -> SequenceBreaches
=============================================================================
