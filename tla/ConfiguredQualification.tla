----------------------- MODULE ConfiguredQualification -----------------------
(***************************************************************************)
(* Qualification of the configured-leader group (V5.0): the replay of a     *)
(* fake cloud's lifecycle and of three owned JVMs, and the public runtime   *)
(* gate with its reader of the sealed 1.1 files.                            *)
(***************************************************************************)
EXTENDS ConfiguredAdmission

-----------------------------------------------------------------------------
(* evidence: the bundle. *)

MemberLimit == 4        \* 1 MiB in the code
FileLimit == 6          \* 64 members in the code

\* write_bundle, write_harness: every member with its digest.
BundleOf(members) ==
    [i \in 1..Len(members) |-> Prop("MEMBER", members[i], i)] \o [i \in 1..Len(members) |-> Prop("SIZE", members[i], 1)]
      \o [i \in 1..Len(members) |-> Prop("CHECKSUM", members[i], i)]
\* validate: the inventory is exact, inside its bounds, and every digest matches.
BundleRead(rows, members, claim) ==
    LET named(e) == {rows[i].who : i \in {j \in DOMAIN rows : rows[j].ev = e}}
    IN /\ named("MEMBER") = members /\ named("CHECKSUM") = members /\ Cardinality(members) <= FileLimit
       /\ \A m \in members : One(rows, Seen("CHECKSUM", m)) /\ Value(rows, "CHECKSUM", m) = Value(rows, "MEMBER", m) /\ Value(rows, "SIZE", m) <= MemberLimit
       /\ Exact(rows, SeenO("CLAIM", "document", claim)) /\ Exact(rows, SeenO("SOURCE_COMMIT", "document", "SHA"))

-----------------------------------------------------------------------------
(* evidence: the lifecycle of the fake cloud, replayed. *)

LifecycleProfiles == {"canonical", "provision-node-2", "run-node-1"}
Repeats == 2            \* topologies of a canonical run (3 in the code)
TopologyParts == <<"firewall", "n1-data-disk", "n1-vm", "n2-data-disk", "n2-vm", "n3-data-disk", "n3-vm">>
PartsExpected == Range(TopologyParts)
LifecycleActions == {"begin", "create", "start", "measure", "stop", "fault", "delete", "delete-failed", "end"}
Did(action, part, repetition) == Frame(action, part, repetition, 0)

\* run of fake_cloud_lane, one topology: parts are deleted in reverse, after every
\* voter stopped.  The third drill leaves a disk and raises: no passing run.
Topology(p, t) ==
    LET made(k) == [i \in 1..k |-> Did("create", TopologyParts[i], t)]
        gone(k) == [i \in 1..k |-> Did("delete", TopologyParts[k + 1 - i], t)]
        up   == [i \in 1..3 |-> Did("start", VoterAt(i), t)] \o <<Did("measure", "voters", t)>>
        down == [i \in 1..3 |-> Did("stop", VoterAt(i), t)]
        end(o) == <<[Did("end", "topology", t) EXCEPT !.out = o]>>
    IN <<Did("begin", "topology", t)>> \o
       CASE p = "provision-node-2" -> made(4) \o <<Did("fault", p, t)>> \o gone(4) \o end("FAIL")
         [] p = "run-node-1" -> made(7) \o up \o <<Did("fault", p, t)>> \o down \o gone(7) \o end("FAIL")
         [] OTHER -> made(7) \o up \o down \o gone(7) \o end("PASS")
CloudLifecycleScript(p) ==
    (IF p = "canonical" THEN Topology(p, 1) \o Topology(p, 2) ELSE Topology(p, 1))
      \o <<SeenO("RUN_STATUS", "document", IF p = "canonical" THEN "PASS" ELSE "FAIL"), SeenO("PLAN", "document", "REVIEWED"),
           Prop("RECEIPTS", "cleanup", CASE p = "canonical" -> 14 [] p = "provision-node-2" -> 4 [] OTHER -> 7), SeenO("CLEANUP_STATUS", "document", "PASS"), SeenO("CLAIM", "document", "fake-control-plane-only"), SeenO("SOURCE_COMMIT", "document", "SHA")>>
      \o BundleOf(<<"evidence">>)

LifecycleStart == [active |-> 0, live |-> {}, up |-> {}, made |-> {}, gone |-> {}, done |-> 0, measured |-> FALSE, fault |-> "none", ok |-> TRUE]
\* One event: what must hold before it, and what it changes.  The caps on CPUs and
\* disks follow from creating only expected parts.
LifecycleEvent(p, s, r) ==
    LET here == s.active = r.gen /\ s.active # 0
        part == <<r.gen, r.who>>
        holds ==
            CASE r.ev = "begin"   -> s.active = 0 /\ s.live = {} /\ s.up = {} /\ s.fault = "none" /\ r.gen = s.done + 1 /\ r.gen <= (IF p = "canonical" THEN Repeats ELSE 1)
              [] r.ev = "create"  -> here /\ r.who \in PartsExpected /\ part \notin s.made /\ s.fault = "none"
              [] r.ev = "start"   -> here /\ r.who \in ThreeVoters \ s.up /\ s.live = PartsExpected /\ s.fault = "none"
              [] r.ev = "measure" -> here /\ ~s.measured /\ s.up = ThreeVoters
              [] r.ev = "stop"    -> here /\ r.who \in s.up
              [] r.ev = "fault"   -> /\ here /\ r.who = p /\ s.fault = "none"
                                     /\ IF p = "provision-node-2" THEN ~s.measured /\ s.up = {} /\ "n2-data-disk" \in s.live /\ "n2-vm" \notin s.live ELSE s.measured
              [] r.ev = "delete"  -> here /\ s.up = {} /\ r.who \in s.live
              [] r.ev = "delete-failed" -> here /\ s.up = {} /\ r.who \in s.live /\ s.fault = "cleanup-node-2-data-disk" /\ r.who = "n2-data-disk"
              [] OTHER            -> here /\ s.up = {} /\ (s.measured \/ s.fault = "provision-node-2") /\ r.out = (IF s.fault = "none" THEN "PASS" ELSE "FAIL")
        next ==
            CASE r.ev = "begin"   -> [s EXCEPT !.active = r.gen, !.measured = FALSE]
              [] r.ev = "create"  -> [s EXCEPT !.live = @ \cup {r.who}, !.made = @ \cup {part}]
              [] r.ev = "start"   -> [s EXCEPT !.up = @ \cup {r.who}]
              [] r.ev = "measure" -> [s EXCEPT !.measured = TRUE]
              [] r.ev = "stop"    -> [s EXCEPT !.up = @ \ {r.who}]
              [] r.ev = "fault"   -> [s EXCEPT !.fault = r.who]
              [] r.ev = "delete"  -> [s EXCEPT !.live = @ \ {r.who}, !.gone = @ \cup {part}]
              [] r.ev = "end"     -> [s EXCEPT !.active = 0, !.done = @ + 1]
              [] OTHER            -> s
    IN [next EXCEPT !.ok = s.ok /\ holds]
LifecycleReplayed(p, rows) ==
    FoldLeft(LAMBDA s, r : LifecycleEvent(p, s, r), LifecycleStart, SelectSeq(rows, LAMBDA r : r.ev \in LifecycleActions))

\* _validate_cloud.
CloudLifecycleValid(p, rows) ==
    LET s == LifecycleReplayed(p, rows)
    IN /\ BundleRead(rows, {"evidence"}, "fake-control-plane-only") /\ Exact(rows, SeenO("PLAN", "document", "REVIEWED"))
       /\ s.ok /\ s.active = 0 /\ s.done = (IF p = "canonical" THEN Repeats ELSE 1)
       /\ s.fault = (IF p = "canonical" THEN "none" ELSE p) /\ Exact(rows, SeenO("RUN_STATUS", "document", IF p = "canonical" THEN "PASS" ELSE "FAIL"))
       /\ Value(rows, "RECEIPTS", "cleanup") = Cardinality(s.gone) /\ s.live = {} /\ s.made = s.gone /\ Exact(rows, SeenO("CLEANUP_STATUS", "document", "PASS"))
CloudLifecycleBreaches(p) ==
    {Drop(Did("begin", "topology", 1)), Drop(Did("create", "n2-data-disk", 1)), Early(Did("delete", "n1-vm", 1)), Drop(Did("delete", "n2-data-disk", 1)), Add(Did("create", "n2-data-disk", 1), Did("delete-failed", "n2-data-disk", 1)), Renumber(Seen("RECEIPTS", "cleanup"), 9),
     Turn(Did("end", "topology", 1), "OTHER"), Drop(Did("end", "topology", 1)), Add(Did("create", "n1-vm", 1), Did("create", "n1-vm", 1)), Turn(Seen("RUN_STATUS", "document"), "OTHER"),
     Turn(Seen("PLAN", "document"), "CHANGED"), Renumber(Seen("CHECKSUM", "evidence"), 2), Renumber(Seen("SIZE", "evidence"), 5), Add(Seen("MEMBER", "evidence"), Prop("MEMBER", "other", 2)), Turn(Seen("CLAIM", "document"), "cloud")}
      \cup (IF p = "provision-node-2" THEN {Add(Did("create", "n2-data-disk", 1), Did("create", "n2-vm", 1)), Add(Did("fault", p, 1), Did("create", "firewall", 1))}
            ELSE {Drop(Did("measure", "voters", 1)), Drop(Did("start", "n2", 1)), Drop(Did("stop", "n1", 1)), Early(Did("stop", "n2", 1)), Add(Did("start", "n1", 1), Did("start", "n1", 1))})
      \cup (IF p = "canonical" THEN {Drop(Did("begin", "topology", 2)), Early(Did("begin", "topology", 2)), Add(Did("end", "topology", 1), Did("create", "n1-vm", 1))}
            ELSE {Drop(Did("fault", p, 1)), Add(Did("fault", p, 1), Did("fault", p, 1)), Add(Did("end", "topology", 1), Did("begin", "topology", 2))})

-----------------------------------------------------------------------------
(* evidence: three owned JVMs, one killed and one that lost its storage. *)

ProcessExits == {"crash", "storage-fault", "cleanup"}
Pid(w, g) == (CASE w = "n1" -> 1 [] w = "n2" -> 2 [] OTHER -> 3) + 10 * g
Readied(w, g) == <<Frame("ready", w, g, Pid(w, g)), Frame("LOGGED_READY", w, g, Pid(w, g))>>
Left(action, w, g, code) == Obs("row", action, w, g, code, Pid(w, g))
\* A window sees the pids that are live: its generation numbers it.
ConcurrentWindow(k, last) == [i \in 1..3 |-> Frame("LIVE_PID", VoterAt(i), k, Pid(VoterAt(i), last[i]))] \o <<Frame("concurrent", "group", k, 0)>>
ProcessMembers == <<"evidence", "process-events", "n1-log", "n2-log", "n3-log", "n3-fault">>
ProcessScript ==
    Readied("n1", 1) \o Readied("n2", 1) \o Readied("n3", 1) \o ConcurrentWindow(1, <<1, 1, 1>>)
      \o <<Left("crash", "n1", 1, "137"), Left("storage-fault", "n3", 1, "20"), Frame("LOGGED_FAULT", "n3", 1, Pid("n3", 1)), Frame("FAULT_RECEIPT", "n3", 1, Pid("n3", 1))>>
      \o Readied("n1", 2) \o Readied("n3", 2) \o ConcurrentWindow(2, <<2, 1, 2>>)
      \o <<Left("cleanup", "n1", 2, "137"), Left("cleanup", "n2", 1, "137"), Left("cleanup", "n3", 2, "137"),
           Frame("FINAL_READY", "n1", 2, Pid("n1", 2)), Frame("FINAL_READY", "n2", 1, Pid("n2", 1)), Frame("FINAL_READY", "n3", 2, Pid("n3", 2)),
           SeenO("CLAIM", "document", "fixture-only"), SeenO("SOURCE_COMMIT", "document", "SHA")>>
      \o BundleOf(ProcessMembers)

RestartedOnce == [w \in ThreeVoters |-> IF w = "n2" THEN 1 ELSE 2]
ProcessStart == [live |-> [w \in ThreeVoters |-> 0], gens |-> [w \in ThreeVoters |-> 0], pids |-> {}, exits |-> <<>>, windows |-> 0, ok |-> TRUE]
ProcessEvent(rows, s, r) ==
    LET holds ==
            CASE r.ev = "concurrent" -> /\ \A w \in ThreeVoters : s.live[w] # 0 /\ Has(rows, Frame("LIVE_PID", w, r.gen, s.live[w]))
                                        /\ r.gen = s.windows + 1 /\ s.gens = (IF s.windows = 0 THEN [w \in ThreeVoters |-> 1] ELSE RestartedOnce)
              [] r.ev = "ready" -> s.live[r.who] = 0 /\ r.n > 0 /\ r.n \notin s.pids /\ r.gen = s.gens[r.who] + 1 /\ Has(rows, Frame("LOGGED_READY", r.who, r.gen, r.n))
              [] OTHER -> /\ s.windows >= 1 /\ s.live[r.who] = r.n /\ s.gens[r.who] = r.gen /\ (r.ev = "cleanup" => s.windows = 2)
                          /\ r.out = (IF r.ev = "storage-fault" THEN "20" ELSE "137")
        next ==
            CASE r.ev = "concurrent" -> [s EXCEPT !.windows = @ + 1]
              [] r.ev = "ready" -> [s EXCEPT !.live[r.who] = r.n, !.gens[r.who] = r.gen, !.pids = @ \cup {r.n}]
              [] OTHER -> [s EXCEPT !.live[r.who] = 0, !.exits = IF r.ev = "cleanup" THEN @ ELSE Append(@, <<r.ev, r.who, r.gen>>)]
    IN [next EXCEPT !.ok = s.ok /\ holds]
\* _validate_process.
ProcessValid(rows) ==
    LET s == FoldLeft(LAMBDA a, r : ProcessEvent(rows, a, r), ProcessStart, SelectSeq(rows, LAMBDA r : r.ev \in ProcessExits \cup {"ready", "concurrent"}))
        faulted == NumberOf(rows, Frame("storage-fault", "n3", 1, 0))
    IN /\ BundleRead(rows, Range(ProcessMembers), "fixture-only")
       /\ s.ok /\ s.windows = 2 /\ s.gens = RestartedOnce /\ \A w \in ThreeVoters : s.live[w] = 0
       /\ s.exits = <<<<"crash", "n1", 1>>, <<"storage-fault", "n3", 1>>>>
       /\ \A w \in ThreeVoters : Has(rows, Frame("FINAL_READY", w, s.gens[w], NumberOf(rows, Frame("ready", w, s.gens[w], 0))))
       /\ \A e \in {"LOGGED_FAULT", "FAULT_RECEIPT"} : Has(rows, Frame(e, "n3", 1, faulted))
ProcessBreaches ==
    {Drop(Frame("ready", "n3", 2, 0)), Renumber(Frame("ready", "n1", 2, 0), 11), Renumber(Frame("LOGGED_READY", "n2", 1, 0), 9), Renumber(Frame("LIVE_PID", "n2", 2, 0), 9),
     Early(Frame("cleanup", "n2", 1, 0)), Early(Frame("crash", "n1", 1, 0)), Turn(Frame("crash", "n1", 1, 0), "0"), Turn(Frame("storage-fault", "n3", 1, 0), "137"), Drop(Frame("crash", "n1", 1, 0)),
     Drop(Frame("concurrent", "group", 2, 0)), Drop(Frame("cleanup", "n3", 2, 0)), Renumber(Frame("FINAL_READY", "n1", 2, 0), 11), Renumber(Frame("FAULT_RECEIPT", "n3", 1, 0), 23), Drop(Frame("LOGGED_FAULT", "n3", 1, 0)),
     Early(Frame("storage-fault", "n3", 1, 0)), Renumber(Seen("CHECKSUM", "n1-log"), 2), Drop(Seen("CHECKSUM", "n3-fault")), Drop(Seen("MEMBER", "n3-log")), Turn(Seen("CLAIM", "document"), "cloud"), Turn(Seen("SOURCE_COMMIT", "document"), "OTHER")}

-----------------------------------------------------------------------------
(* replica_fixture: a frozen manifest, log, proof and snapshot. *)

FrozenReplicaFiles == {"manifest", "log", "commit-proof", "snapshot"}
FrozenReplicaScript ==
    <<Prop("VOTERS", "manifest", 3), Prop("FLOOR", "manifest", 2), Frame("PAYLOAD", "log", 1, 1), Frame("PAYLOAD", "log", 2, 2), Frame("PAYLOAD", "log", 3, 3),
      Frame("PAYLOAD_DIGEST", "log", 1, 1), Frame("PAYLOAD_DIGEST", "log", 2, 2), Frame("PAYLOAD_DIGEST", "log", 3, 3), Prop("COMMIT", "commit-proof", 2), Prop("QUORUM", "commit-proof", 2),
      Prop("ENTRY_DIGEST", "commit-proof", 2), Prop("APPLIED", "snapshot", 2)>> \o BundleOf(<<"manifest", "log", "commit-proof", "snapshot">>)
\* inspect: proof, snapshot and floor name one committed entry of a contiguous log.
FrozenReplicaValid(rows) ==
    LET log == Indices(rows, "PAYLOAD", "log")
        commit == Value(rows, "COMMIT", "commit-proof")
    IN /\ \A m \in FrozenReplicaFiles : One(rows, Seen("CHECKSUM", m)) /\ Value(rows, "CHECKSUM", m) = Value(rows, "MEMBER", m) /\ Value(rows, "SIZE", m) \in 1..MemberLimit
       /\ Exact(rows, Prop("VOTERS", "manifest", 3)) /\ log = 1..Cardinality(log) /\ \A i \in log : Epoch(rows, "PAYLOAD_DIGEST", "log", i) = Epoch(rows, "PAYLOAD", "log", i)
       /\ commit \in log /\ Exact(rows, Prop("QUORUM", "commit-proof", 2)) /\ Value(rows, "ENTRY_DIGEST", "commit-proof") = Epoch(rows, "PAYLOAD_DIGEST", "log", commit)
       /\ Exact(rows, Prop("APPLIED", "snapshot", commit)) /\ Exact(rows, Prop("FLOOR", "manifest", commit))
FrozenReplicaBreaches ==
    {Renumber(Seen("COMMIT", "commit-proof"), 3), Renumber(Seen("COMMIT", "commit-proof"), 0), Drop(Frame("PAYLOAD", "log", 2, 0)), Renumber(Frame("PAYLOAD", "log", 3, 0), 9), Renumber(Seen("APPLIED", "snapshot"), 3),
     Renumber(Seen("FLOOR", "manifest"), 1), Renumber(Seen("QUORUM", "commit-proof"), 1), Renumber(Seen("ENTRY_DIGEST", "commit-proof"), 3), Drop(Seen("CHECKSUM", "log")), Renumber(Seen("SIZE", "log"), 0)}

-----------------------------------------------------------------------------
(* runtime_format: the sealed 1.1 files of a closed voter. *)

TornTail(w, e) == SeenO("TORN", w, e)

\* journal: whole frames after an identity; only the entries may end in a torn one.
JournalsRead(rows, w) == FramesRead(rows, w) /\ Outcomes(rows, Seen("TORN", w)) \subseteq {"ENTRY"}
\* proof: of an entry there is, by two or three sorted voters.
ProofRead(rows, w, i, last) == i \in 1..last /\ ProofStands(Epoch(rows, "PROOF", w, i))
EpochAt(rows, w, i) ==
    IF i = 0 THEN 1 ELSE IF i <= Top(Indices(rows, "ANCESTOR", w)) THEN Epoch(rows, "ANCESTOR", w, i) ELSE Epoch(rows, "ENTRY", w, i)
\* chain: entries continue the snapshot under a promise; proofs only go forward.
ChainRead(rows, w) ==
    LET base == Top(Indices(rows, "ANCESTOR", w))
        log == Indices(rows, "ENTRY", w)
        last == base + Cardinality(log)
        promised == {Epoch(rows, "PROMISE", w, k) : k \in Indices(rows, "PROMISE", w)}
        epoch(i) == EpochAt(rows, w, i)
    IN /\ SnapshotRead(rows, w) \/ base = 0
       /\ log = (base + 1)..last
       /\ \A i \in log : /\ epoch(i) >= 2 /\ epoch(i) >= epoch(i - 1)
                         /\ epoch(i) \in promised \/ (base > 0 /\ epoch(i) < Max(promised))
       /\ \A j \in RowsAt(rows, "PROOF", w) : rows[j].gen > base /\ ProofRead(rows, w, rows[j].gen, last)
       /\ \A j, k \in RowsAt(rows, "PROOF", w) : j < k => rows[j].gen < rows[k].gen
CommittedOf(rows, w) == Top({0} \cup Indices(rows, "PROOF", w) \cup Indices(rows, "ANCESTOR", w))
\* Every epoch begins with an entry that is not the application's.
SequenceOf(rows, w, imported) ==
    LET c == CommittedOf(rows, w)
    IN imported + c - Cardinality({EpochAt(rows, w, i) : i \in 1..c})
\* inspect: the node's seal and preparation, its promises from the first on, the
\* selected generation and the floor.
RuntimeInspected(rows, w) ==
    /\ Value(rows, "NODE", w) = Value(rows, "MANIFEST", w) /\ Exact(rows, SeenO("SEALED", w, w)) /\ Value(rows, "PREPARED", w) = Value(rows, "SEAL_RECEIPT", w)
    /\ Epoch(rows, "PROMISE", w, 1) = 1
    /\ \A k \in Indices(rows, "PROMISE", w) : k > 1 => Epoch(rows, "PROMISE", w, k) > Epoch(rows, "PROMISE", w, k - 1)
    /\ JournalsRead(rows, w) /\ ChainRead(rows, w)
    /\ Value(rows, "FLOOR", w) <= CommittedOf(rows, w)

RuntimeFiles(w, epochs, proofs) ==
    <<Prop("MANIFEST", w, 1), Prop("NODE", w, 1), SeenO("SEALED", w, w), Prop("SEAL_RECEIPT", w, 1), Prop("PREPARED", w, 1), PromiseFrame(w, 1, 1), PromiseFrame(w, 2, 2)>>
      \o (IF 3 \in Range(epochs) THEN <<PromiseFrame(w, 3, 3)>> ELSE <<>>)
      \o [i \in DOMAIN epochs |-> Logged(w, i, epochs[i])] \o [i \in 1..proofs |-> Proven(w, i, 2)] \o <<Prop("FLOOR", w, 0)>>
\* A replaced voter holds the transferred snapshot in place of the entries.
InstalledFiles(w, epochs) ==
    <<Prop("MANIFEST", w, 1), Prop("NODE", w, 1), SeenO("SEALED", w, w), Prop("SEAL_RECEIPT", w, 1), Prop("PREPARED", w, 1), PromiseFrame(w, 1, 1), PromiseFrame(w, 2, Max(Range(epochs)))>>
      \o [i \in DOMAIN epochs |-> Ancestor(w, i, epochs[i])] \o <<Frame("TERMINAL", w, Len(epochs), 2), Seen("APPLICATION", w), Prop("FLOOR", w, 0)>>

-----------------------------------------------------------------------------
(* runtime_harness. *)

\* capture: every owner closed, the bytes untouched, no two committed prefixes that differ.
CaptureBefore(label) == <<Prop("INVENTORY", label, 1)>>
CaptureAfter(label) == <<Prop("INVENTORY_AFTER", label, 1), SeenO("WIRE_FRAMES", label, "VALID")>>
CaptureClosed(rows, label) == Value(rows, "INVENTORY_AFTER", label) = Value(rows, "INVENTORY", label) /\ Exact(rows, SeenO("WIRE_FRAMES", label, "VALID"))
RuntimeCaptured(rows, label) ==
    /\ CaptureClosed(rows, label) /\ \A w \in ThreeVoters : RuntimeInspected(rows, w)
    /\ \A v, w \in ThreeVoters : \A i \in 1..(IF CommittedOf(rows, v) < CommittedOf(rows, w) THEN CommittedOf(rows, v) ELSE CommittedOf(rows, w)) :
          EpochAt(rows, v, i) = EpochAt(rows, w, i)
\* A later capture, as the reports it leaves.
Recaptured(label, g) == <<Prop("INVENTORY", label, 1)>> \o [i \in 1..3 |-> Frame("PREFIX", VoterAt(i), g, 1)] \o CaptureAfter(label)
RecapturedValid(rows, label, g) == CaptureClosed(rows, label) /\ \A v, w \in ThreeVoters : Epoch(rows, "PREFIX", v, g) = Epoch(rows, "PREFIX", w, g)
CaptureBreaches ==
    {Renumber(Logged("n2", 1, 0), 1), Drop(Logged("n1", 1, 0)), Renumber(PromiseFrame("n2", 1, 0), 2), Turn(Seen("SEALED", "n3"), "n2"), Renumber(Seen("PREPARED", "n1"), 2),
     Renumber(Proven("n1", 1, 0), 1), Turn(Logged("n1", 1, 0), "PREDECESSOR"), Add(Seen("FLOOR", "n1"), TornTail("n1", "PROOF")), Renumber(Seen("FLOOR", "n2"), 9), Drop(PromiseFrame("n2", 2, 0))}

ImportedPrefix == 4
Worked == 6         \* after the two mutations of the workload
RoundtripMinors == {"roundtrip-1", "roundtrip-2"}
\* Three refused steps without a quorum, and every committed read unchanged.
RoundtripScript(c) ==
    StartVoters \o [i \in 1..3 |-> Obs("row", "STATUS", VoterAt(i), 1, "CATCHING_UP", ImportedPrefix)] \o [i \in 1..3 |-> Prop("APPLIED", VoterAt(i), 0)]
      \o <<SeenO("FOLLOWER_READ", "n2", "NOT_CONFIGURED_LEADER"), Frame("ACTIVATED", "n1", 1, 5), Frame("ACTIVATED", "n1", 2, 5),
           Prop("SEMANTICS", "control-created", ImportedPrefix), Prop("SEMANTICS", "imported", ImportedPrefix), Prop("SEMANTICS", "control-continued", Worked), Prop("SEMANTICS", "worked", Worked),
           Prop("HISTORY", "decision", 1), Prop("HISTORY", "backup", 1), Prop("SEMANTICS", "backup", Worked), Prop("SEMANTICS", "restored", Worked), Stop("n2", "0"), Stop("n3", "0"),
           Obs("row", "CHECKPOINT", "n1", 1, "OK", 0), Obs("row", "CHECKPOINT", "n1", 2, "CAPACITY_EXCEEDED", 0), SeenO("WRITE", "isolated", "REFUSED"), Prop("SEMANTICS", "isolated", Worked),
           Obs("row", "CHECKPOINT", "n1", 3, "CONFLICTING_HISTORY", 0), Stop("n1", "0")>>
      \o CaptureBefore("isolated") \o RuntimeFiles("n1", <<2, 2, 2, 2>>, 3) \o RuntimeFiles("n2", <<2, 2, 2>>, 3) \o RuntimeFiles("n3", <<2, 2, 2>>, 3) \o CaptureAfter("isolated")
      \o <<Prop("SEMANTICS", "recovered", Worked)>> \o Recaptured("recovered", 2)
      \o (IF c = "roundtrip-1" THEN <<>>
          ELSE Recaptured("follower-replaced", 3)
                 \o <<SeenO("REPLACED", "activate", "CONFLICTING_HISTORY"), SeenO("REPLACED", "one-survivor", "QUORUM_UNAVAILABLE"), SeenO("REPLACED", "two-survivors", "OK"), Prop("SEMANTICS", "replaced", Worked)>>
                 \o Recaptured("leader-replaced", 4))
RoundtripValid(c, rows) ==
    /\ \A w \in ThreeVoters : Exact(rows, Obs("row", "STATUS", w, 1, "CATCHING_UP", Value(rows, "SEMANTICS", "control-created"))) /\ Exact(rows, Prop("APPLIED", w, 0))
    /\ Exact(rows, SeenO("FOLLOWER_READ", "n2", "NOT_CONFIGURED_LEADER")) /\ Epoch(rows, "ACTIVATED", "n1", 1) = Epoch(rows, "ACTIVATED", "n1", 2)
    /\ Agree(rows, "SEMANTICS", {"control-created", "imported"}) /\ Agree(rows, "SEMANTICS", {"control-continued", "worked", "backup", "restored", "isolated", "recovered"})
    /\ Agree(rows, "HISTORY", {"decision", "backup"})
    /\ \A k \in 1..3 : Exact(rows, Obs("row", "CHECKPOINT", "n1", k, <<"OK", "CAPACITY_EXCEEDED", "CONFLICTING_HISTORY">>[k], 0))
    /\ Exact(rows, SeenO("WRITE", "isolated", "REFUSED")) /\ \A w \in ThreeVoters : Some(rows, Stop(w, "0")) /\ First(rows, Stop(w, "0")) < First(rows, Seen("INVENTORY", "isolated"))
    /\ RuntimeCaptured(rows, "isolated") /\ RecapturedValid(rows, "recovered", 2)
    /\ c = "roundtrip-2" =>
         /\ RecapturedValid(rows, "follower-replaced", 3) /\ RecapturedValid(rows, "leader-replaced", 4) /\ Agree(rows, "SEMANTICS", {"control-continued", "replaced"})
         /\ Exact(rows, SeenO("REPLACED", "activate", "CONFLICTING_HISTORY")) /\ Exact(rows, SeenO("REPLACED", "one-survivor", "QUORUM_UNAVAILABLE")) /\ Exact(rows, SeenO("REPLACED", "two-survivors", "OK"))
RoundtripBreaches(c) ==
    CaptureBreaches \cup
    {Turn(Seen("STATUS", "n2"), "READY"), Renumber(Seen("APPLIED", "n3"), 1), Turn(Seen("FOLLOWER_READ", "n2"), "OK"), Renumber(Frame("ACTIVATED", "n1", 2, 0), 6), Renumber(Seen("SEMANTICS", "imported"), 3),
     Renumber(Seen("SEMANTICS", "worked"), 5), Renumber(Seen("HISTORY", "backup"), 2), Renumber(Seen("SEMANTICS", "restored"), 5), Turn(Obs("row", "CHECKPOINT", "n1", 2, "OK", 0), "OK"),
     Turn(Obs("row", "CHECKPOINT", "n1", 3, "OK", 0), "OK"), Turn(Seen("WRITE", "isolated"), "ACCEPTED"), Renumber(Seen("SEMANTICS", "isolated"), 7), Renumber(Seen("SEMANTICS", "recovered"), 5),
     Renumber(Seen("INVENTORY_AFTER", "isolated"), 2), Drop(Stop("n1", "0")), Renumber(Frame("PREFIX", "n3", 2, 0), 2), Renumber(Logged("n3", 3, 0), 3)}
      \cup (IF c = "roundtrip-1" THEN {} ELSE {Turn(Seen("REPLACED", "activate"), "OK"), Turn(Seen("REPLACED", "one-survivor"), "OK"), Renumber(Seen("SEMANTICS", "replaced"), 5), Renumber(Frame("PREFIX", "n1", 4, 0), 2)})

\* A response is lost once: the retry neither repeats the entry nor the transfer.
LostMutations == {"APPEND", "COMMIT_PROOF"}
LostResponseScript(k) ==
    StartVoters \o <<Prop("SEMANTICS", "control-created", ImportedPrefix), Prop("ATTEMPTS", "peer", 2)>>
      \o (IF k \in LostMutations
          THEN <<Prop("ADDED", "n1", ImportedPrefix + 1), Prop("LAST_INDEX", "n1", 2)>> \o CaptureBefore("after") \o RuntimeFiles("n1", <<2, 2>>, 2) \o RuntimeFiles("n2", <<2, 2>>, 2) \o RuntimeFiles("n3", <<2>>, 1)
          ELSE CaptureBefore("after") \o RuntimeFiles("n1", <<2, 3>>, 2) \o RuntimeFiles("n2", <<2, 3>>, 2) \o InstalledFiles("n3", <<2, 3>>)) \o CaptureAfter("after")
HighestSequence(rows, imported) == Max({SequenceOf(rows, w, imported) : w \in ThreeVoters})
LostResponseValid(k, rows) ==
    LET imported == Value(rows, "SEMANTICS", "control-created")
        expected == imported + (IF k \in LostMutations THEN 1 ELSE 0)
    IN /\ k \in LostMutations => Exact(rows, Prop("ADDED", "n1", expected)) /\ Exact(rows, Prop("LAST_INDEX", "n1", 2))
       /\ RuntimeCaptured(rows, "after") /\ HighestSequence(rows, imported) = expected /\ Exact(rows, Prop("ATTEMPTS", "peer", 2))
LostResponseBreaches(k) ==
    CaptureBreaches \cup {Renumber(Seen("ATTEMPTS", "peer"), 1), Renumber(Seen("INVENTORY_AFTER", "after"), 2)}
      \cup (IF k \in LostMutations THEN {Renumber(Seen("LAST_INDEX", "n1"), 3), Renumber(Seen("ADDED", "n1"), ImportedPrefix + 2), Add(Logged("n1", 2, 0), Logged("n1", 4, 2))} ELSE {Add(Logged("n1", 1, 0), Logged("n1", 3, 2)), Drop(Ancestor("n3", 1, 0)), Renumber(Ancestor("n3", 2, 0), 2), Drop(Seen("APPLICATION", "n3"))})

\* A cut at one of fourteen barriers: what was proven before the kill is recovered.
RuntimeRecoveryCuts == {"STAGE_CREATE", "SNAPSHOT_FILE_FORCE", "ENTRIES_FORCE", "PROOFS_FORCE", "POINTER_PUBLISH", "POINTER_RENAME", "POINTER_FORCE"}
RuntimeCuts == LeaderCuts \cup RuntimeRecoveryCuts
RuntimeHeld(b) == IF b \in LeaderCuts THEN HeldBy(b) ELSE {}
RuntimeProven(b) == IF b \in LeaderCuts THEN ProvenBy(b) ELSE {}
RuntimeCutScript(b) ==
    LET files(w) == RuntimeFiles(w, IF w \in RuntimeHeld(b) THEN <<2, 2>> ELSE <<2>>, IF w \in RuntimeProven(b) THEN 2 ELSE 1)
    IN StartVoters \o <<Prop("SEMANTICS", "control-created", ImportedPrefix), SeenO("BARRIER", "n1", b), Stop("n1", "-9"), Stop("n2", "0"), Stop("n3", "0")>> \o CaptureBefore("before")
         \o files("n1") \o files("n2") \o files("n3") \o CaptureAfter("before") \o <<Prop("RECOVERED", "n1", ImportedPrefix + (IF RuntimeProven(b) = {} THEN 0 ELSE 1))>> \o Recaptured("after", 2)
RuntimeCutValid(b, rows) ==
    LET imported == Value(rows, "SEMANTICS", "control-created")
        protected == HighestSequence(rows, imported)
    IN /\ Exact(rows, SeenO("BARRIER", "n1", b)) /\ Exact(rows, Stop("n1", "-9")) /\ RuntimeCaptured(rows, "before") /\ RecapturedValid(rows, "after", 2)
       /\ Exact(rows, Prop("RECOVERED", "n1", protected)) /\ protected >= imported
RuntimeCutBreaches(b) ==
    CaptureBreaches \cup {Turn(Seen("BARRIER", "n1"), "OTHER"), Turn(Seen("STOPPED", "n1"), "0"), Renumber(Seen("RECOVERED", "n1"), ImportedPrefix - 1), Renumber(Seen("RECOVERED", "n1"), ImportedPrefix + 2), Renumber(Frame("PREFIX", "n2", 2, 0), 2)}
      \cup (IF RuntimeProven(b) = {} THEN {} ELSE {Renumber(Seen("RECOVERED", "n1"), ImportedPrefix)})
\* A killed process may leave a torn entry behind its last whole one.
RuntimeCutNoise(b) == IF b \in LeaderCuts THEN {[after |-> Seen("INVENTORY", "before"), row |-> [TornTail("n1", "ENTRY") EXCEPT !.do = "once"]]} ELSE {}

\* The Java gate: jars and reports not older than what they were built from.
JavaGates == {"runtime", "lifecycle", "fixtures", "inventory"}
JavaGateScript ==
    <<Prop("CONTROL_JAR", "artifact", 1), Prop("SOURCES", "core", 3), Prop("JAR", "core", 4), Prop("SOURCES", "replication", 5), Prop("JAR", "replication", 6), Prop("TEST_SOURCES", "replication", 5)>>
      \o SetToSeq({Prop("REPORT", t, 7) : t \in JavaGates}) \o SetToSeq({Prop("TESTS", t, 2) : t \in JavaGates}) \o SetToSeq({Prop("UNSUCCESSFUL", t, 0) : t \in JavaGates})
JavaGateValid(rows) ==
    /\ Exact(rows, Prop("CONTROL_JAR", "artifact", 1))
    /\ \A j \in {"core", "replication"} : Value(rows, "SOURCES", j) <= Value(rows, "JAR", j)
    /\ \A t \in JavaGates : /\ Value(rows, "TESTS", t) > 0 /\ Exact(rows, Prop("UNSUCCESSFUL", t, 0))
                             /\ Value(rows, "SOURCES", "replication") <= Value(rows, "REPORT", t) /\ Value(rows, "TEST_SOURCES", "replication") <= Value(rows, "REPORT", t)
JavaGateBreaches ==
    {Renumber(Seen("CONTROL_JAR", "artifact"), 2), Renumber(Seen("JAR", "core"), 2), Renumber(Seen("JAR", "replication"), 4), Renumber(Seen("REPORT", "lifecycle"), 4), Renumber(Seen("TESTS", "inventory"), 0),
     Renumber(Seen("UNSUCCESSFUL", "fixtures"), 1), Drop(Seen("REPORT", "runtime")), Renumber(Seen("TEST_SOURCES", "replication"), 8)}
=============================================================================
