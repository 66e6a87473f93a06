------------------------- MODULE ConfiguredAdmission -------------------------
(***************************************************************************)
(* The independent byte oracle of configured admission (V5.0, format 1.1)   *)
(* and the fixtures it is tried on: genesis, manifest, plan, receipt, the   *)
(* three sealed roots, the operation journal, the administrative records,   *)
(* snapshots and wire frames.  A FILE row's outcome names the first check   *)
(* of its frame that fails and its number stands for its digest; an OF_X    *)
(* row is the digest of X that the file embeds.                             *)
(***************************************************************************)
EXTENDS ConfiguredGroup

AdmissionBases == {"empty", "import", "near-overflow"}
LastSequence == 9       \* 2^63 - 1 in the code
GenesisBase(b) == CASE b = "empty" -> 0 [] b = "import" -> 4 [] OTHER -> LastSequence - 1
FromBackup(b) == b # "empty"
File(f) == Prop("FILE", f, 1)
Binds(x, f) == Prop(x, f, 1)
Bound(rows, x, f, target) == One(rows, Seen(x, f)) /\ Value(rows, x, f) = Value(rows, "FILE", target)

\* record: version, kind, flags, length and digest of one frame.
RecordRead(rows, f) == One(rows, Seen("FILE", f)) /\ Outcomes(rows, Seen("FILE", f)) = {"OK"}

\* The operations of a snapshot's three entries: one of the application's, then two of
\* control, which advance no sequence.
Operations3 == <<1, 9, 10>>
SnapshotRows(name, b, count) ==
    <<File(name), Binds("OF_MANIFEST", name), Prop("BASE", name, GenesisBase(b)), Prop("CLAIMED", name, GenesisBase(b) + (IF count = 0 THEN 0 ELSE 1))>>
      \o [i \in 1..count |-> Frame("ANCHOR", name, i, Operations3[i])] \o [i \in 1..count |-> Frame("ANCHOR_EPOCH", name, i, 2)]
      \o (IF count = 0 THEN <<>> ELSE <<Frame("TERMINAL", name, count, 2)>>) \o <<Prop("STATE", name, IF count = 0 THEN 1 ELSE 2)>>

\* wire: sixteen kinds with an exact payload for each; three stand for them:
\* an empty one, one with an embedded entry, and an activation.
WireKinds == {"HANDSHAKE", "APPEND", "ACTIVATE_EPOCH"}
WireRows(k) == <<File(k), Binds("OF_MANIFEST", k), Prop("SENDER", k, 1), Prop("RECIPIENT", k, 2), Prop("EPOCH", k, 2), SeenO("PAYLOAD", k, "EXACT")>>
                 \o (IF k = "APPEND" THEN <<Prop("EMBEDDED_EPOCH", k, 2)>> ELSE <<>>)
WirePayload(k) == CASE k = "APPEND" -> "entry" [] k = "ACTIVATE_EPOCH" -> "recovery" [] OTHER -> "empty"

\* make: the files of one bootstrap, sealed at three nodes, with a cleanup of its
\* uncommitted fork and a replacement prepared from its second node.
NodeRows(k) ==
    LET w == VoterAt(k)
    IN <<Prop("LOCAL", w, k), Prop("CODEC", w, 1), Prop("TARGET_PATH", w, 2 + k), Prop("RETAINED", w, 12), Prop("INVENTORY", w, 1),
         Prop("RECEIVED", w, k), Binds("PREPARED_PLAN", w), Prop("PREPARED_INVENTORY", w, 1), Prop("PREPARED_AT", w, k),
         Prop("PAYLOAD", w, 1), Binds("OF_GENESIS", w), Binds("OF_MANIFEST", w), Prop("ROLE", w, 0), Prop("FIRST_PROMISE", w, 1), SeenO("JOURNALS", w, "EMPTY"),
         SeenO("READY", w, "BOUND"), Prop("SEALED_AS", w, k), Binds("SEAL", w)>>
AdmissionScript(b) ==
    <<File("genesis"), Prop("SOURCE", "genesis", IF FromBackup(b) THEN 1 ELSE 0), Prop("BASE", "genesis", GenesisBase(b)), Prop("SEQUENCE", "source", GenesisBase(b)),
      Prop("HISTORY", "genesis", 1), Prop("HISTORY", "derived", 1), Prop("HISTORY", "source", IF FromBackup(b) THEN 2 ELSE 0), Prop("DOCUMENTS", "genesis", IF FromBackup(b) THEN 2 ELSE 0),
      Prop("STATE", "genesis", 1), Prop("BYTES", "source", IF FromBackup(b) THEN 3 ELSE 0), Prop("INVENTORY", "source", 1), Prop("PAYLOAD", "source", 1),
      File("manifest"), Binds("OF_GENESIS", "manifest"), Prop("BASE", "manifest", GenesisBase(b)), Prop("HISTORY", "manifest", 1), Prop("VOTERS", "manifest", 3), Prop("CODEC", "manifest", 1),
      File("plan"), Binds("OF_MANIFEST", "plan"), Prop("SOURCE_BOUND", "plan", 5), Prop("OPERATION_BOUND", "plan", 60), Prop("PATH", "operation", 1), Prop("PATH", "source", 2),
      File("receipt"), Binds("OF_PLAN", "receipt")>>
      \o NodeRows(1) \o NodeRows(2) \o NodeRows(3)
      \o [i \in 1..4 |-> Frame("JOURNAL", "operation", i, i)] \o <<Binds("DECISION", "operation")>>
      \o <<Prop("ABORT_AFTER", "cleanup", 2), Prop("ABORT_PHASE", "cleanup", 5), Prop("PATH", "cleanup", 1), Prop("DELETES", "cleanup", 4), Prop("PROTECTED", "cleanup", 0), SeenO("DELETED_LAST", "cleanup", "OPERATION")>>
      \o <<Binds("OF_RECEIPT", "replacement"), Binds("OF_GENESIS", "replacement"), Prop("INVENTORY", "replacement", 1), SeenO("POLICY", "replacement", "SAME"), Prop("PATH", "replacement", 7),
           Prop("ROLE", "replacement", 1), Seen("REBUILDING", "replacement"), Prop("ROW", "replacement", 1), Frame("ROW", "replacement", 2, 2)>>
      \o SnapshotRows("snapshot-0", b, 0) \o SnapshotRows("snapshot-3", b, 3) \o WireRows("HANDSHAKE") \o WireRows("APPEND") \o WireRows("ACTIVATE_EPOCH")

\* source and genesis: an empty group has no source and no document; an import keeps
\* the source's sequence, under a history of its own.
GenesisRead(rows) ==
    /\ RecordRead(rows, "genesis") /\ Value(rows, "BASE", "genesis") < LastSequence /\ Value(rows, "BASE", "genesis") = Value(rows, "SEQUENCE", "source")
    /\ Agree(rows, "HISTORY", {"genesis", "derived"}) /\ Value(rows, "HISTORY", "genesis") # Value(rows, "HISTORY", "source")
    /\ IF Value(rows, "SOURCE", "genesis") = 0 THEN Value(rows, "DOCUMENTS", "genesis") = 0 /\ Value(rows, "HISTORY", "source") = 0 ELSE Value(rows, "HISTORY", "source") # 0
\* manifest: three voters, bound to the genesis.
ManifestRead(rows) ==
    /\ RecordRead(rows, "manifest") /\ Exact(rows, Prop("VOTERS", "manifest", 3)) /\ Bound(rows, "OF_GENESIS", "manifest", "genesis")
    /\ Value(rows, "BASE", "manifest") = Value(rows, "BASE", "genesis") /\ Agree(rows, "HISTORY", {"manifest", "genesis"})
\* plan: local configurations in voter order that agree with the manifest, and paths
\* none of which is, or lies in, another.
PlanRead(rows) ==
    LET paths == {<<"PATH", "operation">>, <<"PATH", "source">>} \cup {<<"TARGET_PATH", w>> : w \in ThreeVoters}
    IN /\ RecordRead(rows, "plan") /\ Bound(rows, "OF_MANIFEST", "plan", "manifest") /\ Value(rows, "SOURCE_BOUND", "plan") >= 1 /\ Value(rows, "OPERATION_BOUND", "plan") >= 1
       /\ \A k \in 1..3 : Exact(rows, Prop("LOCAL", VoterAt(k), k)) /\ Value(rows, "CODEC", VoterAt(k)) = Value(rows, "CODEC", "manifest")
       /\ \A p, q \in paths : p # q => Value(rows, p[1], p[2]) # Value(rows, q[1], q[2])
\* receipt: one preparation per node, in order, of this plan and this inventory.
ReceiptRead(rows) ==
    /\ RecordRead(rows, "receipt") /\ Bound(rows, "OF_PLAN", "receipt", "plan")
    /\ \A k \in 1..3 : LET w == VoterAt(k)
                       IN Exact(rows, Prop("RECEIVED", w, k)) /\ Bound(rows, "PREPARED_PLAN", w, "plan") /\ Value(rows, "PREPARED_INVENTORY", w) = Value(rows, "INVENTORY", w)
\* initial_root: a voter with an empty journal after the promise of epoch one.
RootRead(rows, k) ==
    LET w == VoterAt(k)
    IN /\ Exact(rows, Prop("PREPARED_AT", w, k)) /\ Value(rows, "PAYLOAD", w) = Value(rows, "INVENTORY", w)
       /\ Bound(rows, "OF_GENESIS", w, "genesis") /\ Bound(rows, "OF_MANIFEST", w, "manifest")
       /\ Exact(rows, Prop("ROLE", w, 0)) /\ Exact(rows, Prop("FIRST_PROMISE", w, 1)) /\ Exact(rows, SeenO("JOURNALS", w, "EMPTY")) /\ Exact(rows, SeenO("READY", w, "BOUND"))
       /\ Exact(rows, Prop("SEALED_AS", w, k)) /\ Bound(rows, "SEAL", w, "receipt")
\* journal: the four phases, chained, the last with the decision.
JournalRead(rows) ==
    /\ Indices(rows, "JOURNAL", "operation") = 1..4
    /\ \A i \in 1..4 : Epoch(rows, "JOURNAL", "operation", i) = i /\ \A j \in RowsAt(rows, "JOURNAL", "operation") : rows[j].out = "OK"
    /\ Bound(rows, "DECISION", "operation", "receipt")
\* validate: the bytes an operation needs at most, while a seal is pending, and the
\* bytes a node retains.  A root is 8 units, a preparation, seal or record one.
CapacityKept(rows) ==
    LET projected == 3 * 8 + 3 + 3 + 1 + 1 + 4 + 2
    IN /\ Value(rows, "BYTES", "source") <= Value(rows, "SOURCE_BOUND", "plan") /\ Value(rows, "PAYLOAD", "source") = Value(rows, "INVENTORY", "source")
       /\ projected <= Value(rows, "OPERATION_BOUND", "plan") /\ \A w \in ThreeVoters : 8 + 1 + 2 <= Value(rows, "RETAINED", w)

\* administrative_records: a cleanup follows a row before the decision and deletes
\* everything the plan owns, nothing of the source and its marker last; a
\* replacement is prepared, never committed, and does not vote.
AdministrationRead(rows) ==
    /\ Exact(rows, Prop("ABORT_AFTER", "cleanup", 2)) /\ Exact(rows, Prop("ABORT_PHASE", "cleanup", 5)) /\ Value(rows, "PATH", "cleanup") = Value(rows, "PATH", "operation")
    /\ Exact(rows, Prop("DELETES", "cleanup", 4)) /\ Exact(rows, Prop("PROTECTED", "cleanup", 0)) /\ Exact(rows, SeenO("DELETED_LAST", "cleanup", "OPERATION"))
    /\ Bound(rows, "OF_RECEIPT", "replacement", "receipt") /\ Bound(rows, "OF_GENESIS", "replacement", "genesis") /\ Value(rows, "INVENTORY", "replacement") = Value(rows, "PAYLOAD", "n2")
    /\ Exact(rows, SeenO("POLICY", "replacement", "SAME")) /\ Exact(rows, Prop("ROLE", "replacement", 1)) /\ One(rows, Seen("REBUILDING", "replacement"))
    /\ Value(rows, "PATH", "replacement") \notin {Value(rows, "PATH", "operation"), Value(rows, "TARGET_PATH", "n2")}
    /\ Indices(rows, "ROW", "replacement") = 1..2 /\ \A i \in 1..2 : Epoch(rows, "ROW", "replacement", i) = i

\* snapshot: the claimed sequence counts application entries only and stays in
\* range; without an entry the state is the genesis.
SnapshotAdmitted(rows, name) ==
    LET anchors == Indices(rows, "ANCHOR", name)
        last == Top(anchors)
        advanced == Cardinality({i \in anchors : Epoch(rows, "ANCHOR", name, i) <= 8})
    IN /\ RecordRead(rows, name) /\ Bound(rows, "OF_MANIFEST", name, "manifest") /\ Value(rows, "BASE", name) = Value(rows, "BASE", "genesis")
       /\ anchors = 1..last /\ Indices(rows, "ANCHOR_EPOCH", name) = anchors
       /\ \A i \in anchors : Epoch(rows, "ANCHOR", name, i) \in 1..10 /\ Epoch(rows, "ANCHOR_EPOCH", name, i) >= (IF i = 1 THEN 2 ELSE Epoch(rows, "ANCHOR_EPOCH", name, i - 1))
       /\ Value(rows, "BASE", name) + advanced <= LastSequence /\ Value(rows, "CLAIMED", name) = Value(rows, "BASE", name) + advanced
       /\ Indices(rows, "TERMINAL", name) = (IF last = 0 THEN {} ELSE {last}) /\ (last > 0 => ProofStands(Epoch(rows, "TERMINAL", name, last)) /\ \A j \in RowsAt(rows, "TERMINAL", name) : rows[j].out = "OK")
       /\ last = 0 => Value(rows, "STATE", name) = Value(rows, "STATE", "genesis")

\* wire: two different members, a nonzero epoch outside a handshake, the payload of
\* its kind, and an embedded record of the envelope's own epoch.
WireRead(rows, k) ==
    /\ RecordRead(rows, k) /\ Bound(rows, "OF_MANIFEST", k, "manifest") /\ {Value(rows, "SENDER", k), Value(rows, "RECIPIENT", k)} \subseteq 1..3 /\ Value(rows, "SENDER", k) # Value(rows, "RECIPIENT", k)
    /\ Value(rows, "EPOCH", k) = 0 => k = "HANDSHAKE"
    /\ Exact(rows, SeenO("PAYLOAD", k, "EXACT")) /\ (WirePayload(k) = "entry" => One(rows, Seen("EMBEDDED_EPOCH", k)) /\ Value(rows, "EMBEDDED_EPOCH", k) = Value(rows, "EPOCH", k))

AdmissionValid(rows) ==
    /\ GenesisRead(rows) /\ ManifestRead(rows) /\ PlanRead(rows) /\ ReceiptRead(rows) /\ \A k \in 1..3 : RootRead(rows, k)
    /\ JournalRead(rows) /\ CapacityKept(rows) /\ AdministrationRead(rows)
    /\ \A s \in {"snapshot-0", "snapshot-3"} : SnapshotAdmitted(rows, s)
    /\ \A k \in WireKinds : WireRead(rows, k)

\* generate: the cases that must be refused.
AdmissionBreaches(b) ==
    {Turn(Seen("FILE", "genesis"), "CHECKSUM"), Turn(Seen("FILE", "genesis"), "TRUNCATED"), Turn(Seen("FILE", "manifest"), "VERSION"), Renumber(Seen("HISTORY", "genesis"), 0),
     Renumber(Seen("BASE", "genesis"), LastSequence), Renumber(Seen("OF_GENESIS", "manifest"), 2), Drop(Seen("SEAL", "n2")), Renumber(Seen("SEALED_AS", "n2"), 1),
     Renumber(Seen("PREPARED_AT", "n2"), 1), Renumber(Seen("PAYLOAD", "source"), 2), Renumber(Seen("OF_GENESIS", "n3"), 2), Drop(Frame("JOURNAL", "operation", 4, 4)),
     Turn(Frame("JOURNAL", "operation", 4, 4), "TORN"), Turn(Frame("JOURNAL", "operation", 4, 4), "CHAIN"), Renumber(Seen("RECEIVED", "n2"), 1), Renumber(Seen("PREPARED_INVENTORY", "n1"), 2),
     Renumber(Seen("BASE", "snapshot-3"), 3), Renumber(Seen("CLAIMED", "snapshot-3"), 7), Renumber(Frame("ANCHOR", "snapshot-3", 2, 9), 1), Turn(Frame("TERMINAL", "snapshot-3", 3, 2), "CONFLICT"),
     Renumber(Seen("STATE", "snapshot-0"), 3), Renumber(Seen("OF_MANIFEST", "HANDSHAKE"), 2), Drop(Seen("OF_MANIFEST", "HANDSHAKE")), Turn(Seen("PAYLOAD", "HANDSHAKE"), "UNKNOWN_FIELD"),
     Renumber(Seen("RECIPIENT", "HANDSHAKE"), 4), Turn(Seen("FILE", "HANDSHAKE"), "VERSION"), Renumber(Seen("FILE", "plan"), 2), Renumber(Seen("SOURCE_BOUND", "plan"), 0),
     Renumber(Seen("LOCAL", "n1"), 3), Renumber(Seen("PATH", "operation"), 3), Renumber(Seen("CODEC", "n3"), 2), Renumber(Seen("HISTORY", "source"), 1), Renumber(Seen("EMBEDDED_EPOCH", "APPEND"), 1),
     Turn(Seen("PAYLOAD", "ACTIVATE_EPOCH"), "NO_RECOVERY"), Renumber(Seen("PROTECTED", "cleanup"), 1), Renumber(Seen("ABORT_AFTER", "cleanup"), 4),
     Renumber(Seen("INVENTORY", "replacement"), 2), Renumber(Seen("ROLE", "replacement"), 0), Renumber(Frame("ROW", "replacement", 2, 2), 4), Renumber(Seen("OPERATION_BOUND", "plan"), 20), Renumber(Seen("RETAINED", "n2"), 10)}
      \cup (IF FromBackup(b) THEN {} ELSE {Renumber(Seen("DOCUMENTS", "genesis"), 2)})
      \cup (IF b = "near-overflow" THEN {Renumber(Frame("ANCHOR", "snapshot-3", 3, 10), 1)} ELSE {})
=============================================================================
