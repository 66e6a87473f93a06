--------------------------- MODULE ConfiguredDisk ---------------------------
(***************************************************************************)
(* The files of a configured-leader voter (V5.0) as its independent readers *)
(* see them, and the harnesses that kill a process between two writes of    *)
(* them: storage, recovery generations and offline authority.  A frame is a *)
(* row of its journal: the generation is its index (or the capture it was   *)
(* seen in), the number its epoch, quorum or digest, and the outcome names  *)
(* the first check of the reader it fails.                                  *)
(***************************************************************************)
EXTENDS LaneSets, FiniteSetsExt

Frame(e, w, i, k) == Obs("row", e, w, i, "OK", k)
PromiseFrame(w, i, epoch) == Frame("PROMISE", w, i, epoch)
Logged(w, i, epoch)  == Frame("ENTRY", w, i, epoch)
Proven(w, i, count)  == Frame("PROOF", w, i, count)
Ancestor(w, i, epoch) == Frame("ANCESTOR", w, i, epoch)

RowsAt(rows, e, w)  == {j \in DOMAIN rows : rows[j].ev = e /\ rows[j].who = w}
Indices(rows, e, w) == {rows[j].gen : j \in RowsAt(rows, e, w)}
Epoch(rows, e, w, i) == NumberOf(rows, Frame(e, w, i, 0))
Top(s) == IF s = {} THEN 0 ELSE Max(s)

Journals == {"PROMISE", "ENTRY", "PROOF"}
Selectors == {"REBUILDING", "GENERATION_STARTED", "CURRENT", "SEAL", "SNAPSHOT", "TERMINAL", "APPLICATION", "ANCESTOR", "FLOOR"}
RootFiles == {"MANIFEST", "NODE", "READY"}

-----------------------------------------------------------------------------
(* The readers. *)

\* read_frame, for every frame of the voter: family, version, kind, bound,
\* checksum.
FramesRead(rows, w) ==
    \A e \in Journals \cup Selectors \cup RootFiles : \A j \in RowsAt(rows, e, w) : rows[j].out = "OK"

\* parse_proof: two or three sorted, distinct receipts of an entry there is.
ProofStands(count) == count \in 2..3

\* snapshot: ancestors in epoch order, and a terminal proof of the last one.
SnapshotRead(rows, w) ==
    LET ancestors == Indices(rows, "ANCESTOR", w)
        last == Top(ancestors)
    IN /\ ancestors = 1..last
       /\ \A i \in ancestors : /\ Epoch(rows, "ANCESTOR", w, i) >= 2
                               /\ i > 1 => Epoch(rows, "ANCESTOR", w, i) >= Epoch(rows, "ANCESTOR", w, i - 1)
       /\ Indices(rows, "TERMINAL", w) = (IF last = 0 THEN {} ELSE {last})
       /\ last > 0 => ProofStands(Epoch(rows, "TERMINAL", w, last))
       /\ One(rows, Seen("APPLICATION", w))

\* select: without a selector nothing may have been installed; with one, the
\* slot, its seal, its snapshot and the floor belong together.
GenerationSelected(rows, w) ==
    LET floor == Value(rows, "FLOOR", w)
        last == Top(Indices(rows, "ANCESTOR", w))
    IN IF ~Some(rows, Seen("CURRENT", w))
       THEN ~Some(rows, Seen("GENERATION_STARTED", w)) /\ ~Some(rows, Seen("FLOOR", w))
       ELSE /\ One(rows, Seen("SEAL", w)) /\ Value(rows, "SEAL", w) = Value(rows, "CURRENT", w)
            /\ One(rows, Seen("SNAPSHOT", w)) /\ Value(rows, "SNAPSHOT", w) = Value(rows, "SEAL", w)
            /\ ~Some(rows, Seen("UNKNOWN_MEMBER", w)) /\ SnapshotRead(rows, w)
            /\ Some(rows, Seen("FLOOR", w)) => floor <= last

\* _inspect_locked: contiguous entries under a promise (or, behind a snapshot,
\* an older epoch), proofs of entries there are, in increasing order.
VoterInspected(rows, w) ==
    LET base == Top(Indices(rows, "ANCESTOR", w))
        log == Indices(rows, "ENTRY", w)
        last == base + Cardinality(log)
        promises == {Epoch(rows, "PROMISE", w, k) : k \in Indices(rows, "PROMISE", w)}
        newest == Top(promises \cup {1})
        epoch(i) == IF i = 0 THEN 1 ELSE IF i <= base THEN Epoch(rows, "ANCESTOR", w, i) ELSE Epoch(rows, "ENTRY", w, i)
    IN /\ FramesRead(rows, w) /\ \A e \in RootFiles : One(rows, Seen(e, w))
       /\ Value(rows, "NODE", w) = Value(rows, "MANIFEST", w) /\ Value(rows, "READY", w) = Value(rows, "MANIFEST", w)
       /\ GenerationSelected(rows, w)
       /\ \A k \in Indices(rows, "PROMISE", w) : Epoch(rows, "PROMISE", w, k) > (IF k = 1 THEN 1 ELSE Epoch(rows, "PROMISE", w, k - 1))
       /\ log = (base + 1)..last
       /\ \A i \in log : /\ epoch(i) >= epoch(i - 1)
                         /\ epoch(i) \in promises \/ (Some(rows, Seen("CURRENT", w)) /\ epoch(i) < newest)
       /\ \A i \in Indices(rows, "PROOF", w) : i \in (base + 1)..last /\ ProofStands(Epoch(rows, "PROOF", w, i))
       /\ epoch(base) <= newest

PromisedEpoch(rows, w) == Top({1} \cup {Epoch(rows, "PROMISE", w, k) : k \in Indices(rows, "PROMISE", w)})
LastLogIndex(rows, w) == Top(Indices(rows, "ENTRY", w) \cup Indices(rows, "ANCESTOR", w))
CommitIndex(rows, w)  == Top(Indices(rows, "PROOF", w) \cup Indices(rows, "ANCESTOR", w))

\* generate of storage_format: three entries, the second proven.
StoredFiles(w) ==
    <<Prop("MANIFEST", w, 1), Prop("NODE", w, 1), PromiseFrame(w, 1, 2), Logged(w, 1, 2), Logged(w, 2, 2), Logged(w, 3, 2), Proven(w, 2, 2), Prop("READY", w, 1)>>
\* generate of recovery_format: the first two behind a generation.
GenerationFiles(w) ==
    <<Prop("MANIFEST", w, 1), Prop("NODE", w, 1), PromiseFrame(w, 1, 2), Prop("GENERATION_STARTED", w, 1), Prop("CURRENT", w, 4), Prop("SEAL", w, 4),
      Prop("SNAPSHOT", w, 4), Ancestor(w, 1, 2), Ancestor(w, 2, 2), Frame("TERMINAL", w, 2, 2), Prop("APPLICATION", w, 1),
      Prop("FLOOR", w, 2), Logged(w, 3, 2), Prop("READY", w, 1)>>

\* corruption_cases: one edit of each kind; both readers refuse it.
StorageCorruptions(w) ==
    {Turn(Logged(w, 1, 2), "MAJOR"), Turn(Logged(w, 1, 2), "LENGTH"), Turn(Logged(w, 1, 2), "OPERATION"), Turn(Logged(w, 1, 2), "PAYLOAD"),
     Turn(Logged(w, 1, 2), "PREDECESSOR"), Renumber(Logged(w, 1, 2), 3), Turn(Proven(w, 2, 2), "RECEIPT"), Drop(Seen("READY", w)),
     Turn(Logged(w, 1, 2), "MAGIC"), Drop(Logged(w, 2, 2)), Renumber(Proven(w, 2, 2), 1), Renumber(PromiseFrame(w, 1, 2), 1),
     Add(Proven(w, 2, 2), Proven(w, 4, 2)), Renumber(Seen("NODE", w), 2)}
\* corruptions of the recovery harness, and what else its reader refuses.
GenerationCorruptions(w) ==
    {Turn(Seen("CURRENT", w), "CHECKSUM"), Turn(Seen("SNAPSHOT", w), "CHECKSUM"), Drop(Seen("CURRENT", w)), Turn(Seen("FLOOR", w), "ANCESTRY"),
     Turn(Seen("SNAPSHOT", w), "TRUNCATED"), Add(Seen("SEAL", w), Seen("UNKNOWN_MEMBER", w)), Renumber(Seen("FLOOR", w), 3),
     Renumber(Seen("SEAL", w), 5), Drop(Frame("TERMINAL", w, 2, 2)), Renumber(Ancestor(w, 2, 2), 3), Add(Logged(w, 3, 2), Proven(w, 2, 2)),
     Turn(Seen("APPLICATION", w), "DUPLICATE_KEY"), Renumber(Ancestor(w, 1, 2), 3)}

-----------------------------------------------------------------------------
(* storage_harness: one process is killed at a write or force of one voter. *)

StorageOps == {"PROMISE", "ENTRY", "PROOF"}
StorageCuts ==
    {"BEFORE_PROMISE_WRITE", "AFTER_PROMISE_WRITE_CHUNK", "BEFORE_PROMISE_FORCE", "AFTER_PROMISE_FORCE", "BEFORE_PROMISE_ACK",
     "BEFORE_ENTRY_WRITE", "AFTER_ENTRY_WRITE_CHUNK", "BEFORE_ENTRY_FORCE", "AFTER_ENTRY_FORCE", "BEFORE_ENTRY_ACK",
     "BEFORE_PROOF_WRITE", "AFTER_PROOF_WRITE_CHUNK", "BEFORE_PROOF_FORCE", "AFTER_PROOF_FORCE", "BEFORE_PROOF_ACK",
     "INIT_MANIFEST_CHUNK", "INIT_ENTRIES_FORCE", "INIT_READY_CHUNK", "INIT_READY_FORCED"}
Initializing(b) == b \in {"INIT_MANIFEST_CHUNK", "INIT_ENTRIES_FORCE", "INIT_READY_CHUNK", "INIT_READY_FORCED"}
TornFrame(b) == b \in {"AFTER_PROMISE_WRITE_CHUNK", "AFTER_ENTRY_WRITE_CHUNK", "AFTER_PROOF_WRITE_CHUNK", "INIT_MANIFEST_CHUNK", "INIT_READY_CHUNK"}
\* How many of promise, entry and proof are wholly written at the cut.
Written(b) ==
    CASE Initializing(b) \/ b \in {"BEFORE_PROMISE_WRITE", "AFTER_PROMISE_WRITE_CHUNK"} -> 0
      [] b \in {"BEFORE_PROMISE_FORCE", "AFTER_PROMISE_FORCE", "BEFORE_PROMISE_ACK", "BEFORE_ENTRY_WRITE", "AFTER_ENTRY_WRITE_CHUNK"} -> 1
      [] b \in {"BEFORE_ENTRY_FORCE", "AFTER_ENTRY_FORCE", "BEFORE_ENTRY_ACK", "BEFORE_PROOF_WRITE", "AFTER_PROOF_WRITE_CHUNK"} -> 2
      [] OTHER -> 3
\* A killed process keeps the page cache: what was written is there, forced or
\* not, and what was cut short is a torn frame.
CutFiles(b, w) ==
    LET torn(r) == [r EXCEPT !.out = "TORN"]
        root == <<Prop("MANIFEST", w, 1), Prop("NODE", w, 1)>>
        journals == <<PromiseFrame(w, 1, 2), Logged(w, 1, 2), Proven(w, 1, 2)>>
    IN CASE b = "INIT_MANIFEST_CHUNK" -> <<torn(Prop("MANIFEST", w, 1))>>
         [] b = "INIT_ENTRIES_FORCE"  -> root
         [] b = "INIT_READY_CHUNK"    -> root \o <<torn(Prop("READY", w, 1))>>
         [] OTHER -> root \o <<Prop("READY", w, 1)>> \o SubSeq(journals, 1, Written(b))
                       \o (IF TornFrame(b) THEN <<torn(journals[Written(b) + 1])>> ELSE <<>>)

CutAccepted(b) == ~TornFrame(b) /\ (Initializing(b) => b = "INIT_READY_FORCED")
CutState(b) == [promised |-> IF Written(b) >= 1 THEN 2 ELSE 1, last |-> IF Written(b) >= 2 THEN 1 ELSE 0, commit |-> IF Written(b) = 3 THEN 1 ELSE 0]

\* stopped_process and crash_case: the barrier is the child's own and no
\* acknowledgement preceded it; both readers see the same prefix, unchanged.
StorageCutScript(b) ==
    LET verdict == IF CutAccepted(b) THEN "ACCEPTED" ELSE "REFUSED"
        state(reader) == IF ~CutAccepted(b) THEN <<>>
                         ELSE <<Prop("PROMISED", reader, CutState(b).promised), Prop("LAST", reader, CutState(b).last), Prop("COMMIT", reader, CutState(b).commit)>>
    IN <<Start("n2", 1), SeenO("BARRIER", "n2", b), SeenO("ACK", "n2", "NONE"), Stop("n2", "-9"), Prop("DIGEST", "before", 1)>> \o CutFiles(b, "n2")
         \o <<SeenO("READER", "python", verdict), SeenO("READER", "java", verdict)>> \o state("python") \o state("java") \o <<Prop("DIGEST", "after", 1)>>
StorageCutValid(b, rows) ==
    /\ Exact(rows, SeenO("BARRIER", "n2", b)) /\ Exact(rows, SeenO("ACK", "n2", "NONE")) /\ Exact(rows, Stop("n2", "-9"))
    /\ Agree(rows, "DIGEST", {"before", "after"})
    /\ Outcomes(rows, Seen("READER", "python")) = {IF VoterInspected(rows, "n2") THEN "ACCEPTED" ELSE "REFUSED"}
    /\ Outcomes(rows, Seen("READER", "java")) = Outcomes(rows, Seen("READER", "python"))
    /\ VoterInspected(rows, "n2") = CutAccepted(b)
    /\ CutAccepted(b) =>
         /\ PromisedEpoch(rows, "n2") = CutState(b).promised
         /\ LastLogIndex(rows, "n2") = CutState(b).last /\ CommitIndex(rows, "n2") = CutState(b).commit
         /\ \A r \in {"python", "java"} :
              /\ Exact(rows, Prop("PROMISED", r, CutState(b).promised))
              /\ Exact(rows, Prop("LAST", r, CutState(b).last)) /\ Exact(rows, Prop("COMMIT", r, CutState(b).commit))
StorageCutBreaches(b) ==
    {Turn(Seen("ACK", "n2"), "RETURNED"), Turn(Seen("BARRIER", "n2"), "OTHER"), Renumber(Seen("DIGEST", "after"), 2),
     Turn(Seen("READER", "java"), "OTHER"), Turn(Stop("n2", "-9"), "0"), Drop(Seen("MANIFEST", "n2"))}
      \cup (IF CutAccepted(b) THEN {Drop(Seen("READY", "n2")), Renumber(Seen("COMMIT", "java"), 9), Add(Seen("READY", "n2"), Logged("n2", 2, 2))} ELSE {})
      \cup (IF Written(b) > 0 /\ ~TornFrame(b) THEN {Drop(PromiseFrame("n2", 1, 2))} ELSE {})
\* A torn manifest missing altogether is refused as well.
StorageCutBroken(b) == IF CutAccepted(b) THEN StorageCutBreaches(b) ELSE StorageCutBreaches(b) \ {Drop(Seen("MANIFEST", "n2"))}

\* ownership_case: while a process owns the directory both readers are refused.
OwnershipScript ==
    <<Start("n2", 1), Prop("DIGEST", "before", 1), SeenO("READER", "python", "OWNED"), SeenO("READER", "java", "STORAGE_FAILURE"), SeenO("ALIVE", "n2", "TRUE"),
      Stop("n2", "-9"), SeenO("READER", "after", "ACCEPTED"), Prop("DIGEST", "after", 1)>>
OwnershipValid(rows) ==
    /\ Exact(rows, SeenO("READER", "python", "OWNED")) /\ Exact(rows, SeenO("READER", "java", "STORAGE_FAILURE")) /\ Exact(rows, SeenO("ALIVE", "n2", "TRUE"))
    /\ InOrder(rows, <<Seen("READER", "java"), Stop("n2", "-9"), Seen("READER", "after")>>)
    /\ Exact(rows, SeenO("READER", "after", "ACCEPTED")) /\ Agree(rows, "DIGEST", {"before", "after"})
OwnershipBreaches ==
    {Turn(Seen("READER", "python"), "ACCEPTED"), Turn(Seen("READER", "java"), "ACCEPTED"), Turn(Seen("READER", "after"), "OWNED"),
     Turn(Seen("ALIVE", "n2"), "FALSE"), Renumber(Seen("DIGEST", "after"), 2), Early(Seen("READER", "after"))}

\* run: the two writers agree on the bytes, and each reader on the other's.
WritersScript ==
    StoredFiles("n2") \o <<Prop("DIGEST", "python", 1), Prop("DIGEST", "java", 1), SeenO("READER", "java", "ACCEPTED"), SeenO("WRITER", "java", "ACCEPTED")>>
WritersValid(rows) ==
    /\ VoterInspected(rows, "n2") /\ Agree(rows, "DIGEST", {"python", "java"})
    /\ Exact(rows, SeenO("READER", "java", "ACCEPTED")) /\ Exact(rows, SeenO("WRITER", "java", "ACCEPTED"))
WritersBreaches ==
    StorageCorruptions("n2") \cup {Renumber(Seen("DIGEST", "java"), 2), Turn(Seen("READER", "java"), "REFUSED"), Turn(Seen("WRITER", "java"), "REFUSED")}
GenerationScript == GenerationFiles("n2") \o <<Prop("DIGEST", "python", 1), Prop("DIGEST", "golden", 1), SeenO("READER", "java", "ACCEPTED")>>
GenerationValid(rows) ==
    VoterInspected(rows, "n2") /\ Agree(rows, "DIGEST", {"python", "golden"}) /\ Exact(rows, SeenO("READER", "java", "ACCEPTED"))
GenerationBreaches == GenerationCorruptions("n2") \cup {Renumber(Seen("DIGEST", "python"), 2), Turn(Seen("READER", "java"), "REFUSED")}

-----------------------------------------------------------------------------
(* offline_harness: bootstrap, its cleanup, and a replacement, each killed   *)
(* at a cut and resumed.  A row carries the capture it was seen in.          *)

ThreeVoters == {"n1", "n2", "n3"}
VoterAt(k) == <<"n1", "n2", "n3">>[k]
InCapture(g, rs) == [i \in DOMAIN rs |-> Gen(rs[i], g)]
ForVoters(e, count) == [k \in 1..count |-> Seen(e, VoterAt(k))]

\* The cuts of a bootstrap that leave different files behind: of each target's
\* writes one stands for all.
BootstrapCuts ==
    {"PLAN_FORCED", "PREPARING_FORCED", "TARGET_CREATED", "PREPARATION_FORCED", "PREPARED_FORCED", "COMMITTING_FORCED", "RECEIPT_PENDING_FORCED",
     "RECEIPT_RENAMED", "COMMITTED_FORCED", "SEAL_PENDING_FORCED", "SEAL_FORCED"}
PhaseAt(b) ==
    CASE b = "PLAN_FORCED" -> 0 [] b \in {"PREPARING_FORCED", "TARGET_CREATED", "PREPARATION_FORCED"} -> 1 [] b = "PREPARED_FORCED" -> 2
      [] b \in {"COMMITTING_FORCED", "RECEIPT_PENDING_FORCED", "RECEIPT_RENAMED"} -> 3 [] OTHER -> 4
OperationFiles(phase, receipt, targets, prepared, seals) ==
    <<Prop("PHASE", "operation", phase)>> \o (IF receipt = "NONE" THEN <<>> ELSE <<SeenO(receipt, "operation", "BOUND")>>)
      \o ForVoters("TARGET", targets) \o ForVoters("PREPARED", prepared) \o ForVoters("SEAL", seals)
KilledFiles(b) ==
    CASE b = "TARGET_CREATED" -> <<Prop("PHASE", "operation", 1), SeenO("TARGET", "n1", "PARTIAL")>>
      [] b = "PREPARATION_FORCED" -> OperationFiles(1, "NONE", 3, 3, 0) [] b = "PREPARED_FORCED" -> OperationFiles(2, "NONE", 3, 3, 0)
      [] b = "COMMITTING_FORCED" -> OperationFiles(3, "NONE", 3, 3, 0) [] b = "RECEIPT_PENDING_FORCED" -> OperationFiles(3, "PENDING", 3, 3, 0)
      [] b = "RECEIPT_RENAMED" -> OperationFiles(3, "RECEIPT", 3, 3, 0) [] b = "COMMITTED_FORCED" -> OperationFiles(4, "RECEIPT", 3, 3, 0)
      [] b = "SEAL_PENDING_FORCED" -> OperationFiles(4, "RECEIPT", 3, 3, 0) \o <<Seen("SEAL_PENDING", "n1")>>
      [] b = "SEAL_FORCED" -> OperationFiles(4, "RECEIPT", 3, 3, 1) [] OTHER -> OperationFiles(PhaseAt(b), "NONE", 0, 0, 0)

\* bootstrap: the journal is a chain of phases, the receipt appears in the
\* third and stays, payloads are complete from the second on, and no node is
\* sealed before the decision is committed.
BootstrapInspected(rows, g) ==
    LET at(e, w) == SeenG(e, w, g)
        phase == NumberOf(rows, at("PHASE", "operation"))
        bound(e) == Some(rows, at(e, "operation"))
    IN /\ One(rows, at("PHASE", "operation")) /\ Outcomes(rows, at("PHASE", "operation")) = {"OK"}
       /\ bound("RECEIPT") => phase \in {3, 4} /\ Outcomes(rows, at("RECEIPT", "operation")) = {"BOUND"}
       /\ bound("PENDING") => phase = 3 /\ Outcomes(rows, at("PENDING", "operation")) = {"BOUND"}
       /\ phase = 4 => bound("RECEIPT")
       /\ \A w \in ThreeVoters :
            /\ phase >= 2 => Passed(rows, at("TARGET", w)) /\ Passed(rows, at("PREPARED", w))
            /\ (Some(rows, at("SEAL", w)) \/ Some(rows, at("SEAL_PENDING", w))) => phase = 4
       /\ ~Some(rows, at("SOURCE_LOST", "operation")) \/ phase >= 3
SealedNodes(rows, g) == {w \in ThreeVoters : Some(rows, SeenG("SEAL", w, g))}

\* A killed bootstrap admits no reader of an uncommitted node, resumes to the
\* same decision, and resuming again changes nothing.
BootstrapScript(b) ==
    <<Prop("PLAN", "first", 1), Prop("PLAN", "second", 1), Start("worker", 1), SeenO("BARRIER", "worker", b), Stop("worker", "-9"), Prop("DIGEST", "before", 1)>>
      \o KilledFiles(b) \o <<Prop("DIGEST", "after", 1)>>
      \o (IF PhaseAt(b) \in 1..3 /\ b # "PREPARING_FORCED" THEN <<SeenO("READER", "n1", "REFUSED")>> ELSE <<>>)
      \o <<Prop("DECISION", "first", 7)>> \o InCapture(2, OperationFiles(4, "RECEIPT", 3, 3, 3)) \o <<Prop("DECISION", "again", 7)>>
BootstrapValid(b, rows) ==
    /\ Agree(rows, "PLAN", {"first", "second"}) /\ Exact(rows, SeenO("BARRIER", "worker", b)) /\ Exact(rows, Stop("worker", "-9"))
    /\ BootstrapInspected(rows, 1) /\ BootstrapInspected(rows, 2) /\ Agree(rows, "DIGEST", {"before", "after"})
    /\ NumberOf(rows, Seen("PHASE", "operation")) < 4 => \A w \in ThreeVoters : "ACCEPTED" \notin Outcomes(rows, Seen("READER", w))
    /\ NumberOf(rows, SeenG("PHASE", "operation", 2)) = 4 /\ SealedNodes(rows, 2) = ThreeVoters
    /\ Agree(rows, "DECISION", {"first", "again"})
BootstrapBreaches(b) ==
    {Renumber(Seen("PLAN", "second"), 2), Renumber(Seen("DIGEST", "after"), 2), Drop(SeenG("SEAL", "n3", 2)), Drop(SeenG("RECEIPT", "operation", 2)),
     Renumber(Seen("DECISION", "again"), 8), Renumber(SeenG("PHASE", "operation", 2), 3), Turn(Seen("PHASE", "operation"), "BROKEN_CHAIN"),
     Turn(Stop("worker", "-9"), "0")}
      \cup (IF PhaseAt(b) < 4 THEN {Add(Seen("PHASE", "operation"), Seen("SEAL", "n2"))} ELSE {Drop(Seen("RECEIPT", "operation"))})
      \cup (IF PhaseAt(b) < 3 THEN {Add(Seen("PHASE", "operation"), SeenO("RECEIPT", "operation", "BOUND")), Add(Seen("PHASE", "operation"), Seen("SOURCE_LOST", "operation"))} ELSE {})
      \cup (IF PhaseAt(b) >= 2 THEN {Drop(Seen("PREPARED", "n2")), Turn(Seen("TARGET", "n3"), "PARTIAL")} ELSE {})
      \cup (IF PhaseAt(b) \in 1..3 /\ b # "PREPARING_FORCED" THEN {Turn(Seen("READER", "n1"), "ACCEPTED")} ELSE {})

\* cleanup: of an uncommitted bootstrap; what the plan owns is deleted in the
\* plan's order, children first and the coordinator last, so a cut leaves a prefix.
CleanupCuts == {"CLEANUP_PLAN_FORCED", "CLEANUP_ABORTING_FORCED", "CLEANUP_DELETE_FORCED", "CLEANUP_LAST_DELETED"}
Owned == <<"n1", "n2", "n3", "operation">>
DeletedAt(b) == CASE b = "CLEANUP_DELETE_FORCED" -> 2 [] b = "CLEANUP_LAST_DELETED" -> 4 [] OTHER -> 0
CleanupScript(b) ==
    <<Prop("CLEANUP_PLAN", "first", 1), Start("worker", 1), SeenO("BARRIER", "worker", b), Stop("worker", "-9")>>
      \o (IF b = "CLEANUP_LAST_DELETED" THEN <<>>
          ELSE <<Prop("PHASE", "operation", IF b = "CLEANUP_PLAN_FORCED" THEN 2 ELSE 5)>>
                 \o [k \in 1..(4 - DeletedAt(b)) |-> Seen("LEFT", Owned[DeletedAt(b) + k])] \o <<Prop("CLEANUP_PLAN", "again", 1)>>)
      \o <<Prop("LEFTOVERS", "workspace", 0), Seen("SOURCE", "kept")>>
CleanupInspected(rows) ==
    LET left == {k \in 1..4 : Some(rows, Seen("LEFT", Owned[k]))}
        phase == Value(rows, "PHASE", "operation")
    IN /\ left = (5 - Cardinality(left))..4
       /\ phase = 5 \/ (phase \in {1, 2} /\ left = 1..4)
       /\ \A k \in left : Outcomes(rows, Seen("LEFT", Owned[k])) = {"OK"}
       /\ Agree(rows, "CLEANUP_PLAN", {"first", "again"})
CleanupValid(b, rows) ==
    /\ Exact(rows, SeenO("BARRIER", "worker", b)) /\ Exact(rows, Stop("worker", "-9"))
    /\ Some(rows, Seen("PHASE", "operation")) => CleanupInspected(rows)
    /\ Exact(rows, Prop("LEFTOVERS", "workspace", 0))
CleanupBreaches(b) ==
    {Renumber(Seen("LEFTOVERS", "workspace"), 1), Turn(Seen("BARRIER", "worker"), "OTHER")}
      \cup (IF b = "CLEANUP_LAST_DELETED" THEN {}
            ELSE {Drop(Seen("LEFT", "operation")), Renumber(Seen("CLEANUP_PLAN", "again"), 2), Turn(Seen("LEFT", "n3"), "CHANGED"), Renumber(Seen("PHASE", "operation"), 3)})

\* replacement: two preparation rows, never a commit; the target cannot vote.
VoterReplacementCuts == {"REPLACEMENT_PLAN_FORCED", "REPLACEMENT_PREPARING_FORCED", "REPLACEMENT_NODE_FORCED", "REPLACEMENT_PREPARED_FORCED"}
VoterReplacementFiles(phase, node) ==
    <<Prop("PHASE", "replacement", phase)>> \o (IF node THEN <<SeenO("ORIGIN", "replacement", "REBUILDING"), Seen("MARKER", "replacement")>> ELSE <<>>)
      \o (IF phase = 2 THEN <<SeenO("COMPLETION", "replacement", "BOUND")>> ELSE <<>>)
VoterReplacementScript(b) ==
    <<Prop("DIGEST", "before", 1), Start("worker", 1), SeenO("BARRIER", "worker", b), Stop("worker", "-9")>>
      \o VoterReplacementFiles(CASE b = "REPLACEMENT_PLAN_FORCED" -> 0 [] b = "REPLACEMENT_PREPARED_FORCED" -> 2 [] OTHER -> 1, b \in {"REPLACEMENT_NODE_FORCED", "REPLACEMENT_PREPARED_FORCED"})
      \o InCapture(2, VoterReplacementFiles(2, TRUE)) \o <<Prop("DIGEST", "after", 1)>>
VoterReplacementInspected(rows, g) ==
    LET at(e) == SeenG(e, "replacement", g)
    IN /\ One(rows, at("PHASE")) /\ NumberOf(rows, at("PHASE")) <= 2
       /\ Some(rows, at("ORIGIN")) => Outcomes(rows, at("ORIGIN")) = {"REBUILDING"} /\ One(rows, at("MARKER"))
       /\ NumberOf(rows, at("PHASE")) = 2 => Some(rows, at("ORIGIN")) /\ Outcomes(rows, at("COMPLETION")) = {"BOUND"}
VoterReplacementValid(b, rows) ==
    /\ Exact(rows, SeenO("BARRIER", "worker", b)) /\ VoterReplacementInspected(rows, 1) /\ VoterReplacementInspected(rows, 2)
    /\ NumberOf(rows, SeenG("PHASE", "replacement", 2)) = 2 /\ Agree(rows, "DIGEST", {"before", "after"})
VoterReplacementBreaches(b) ==
    {Turn(SeenG("ORIGIN", "replacement", 2), "VOTER"), Drop(SeenG("MARKER", "replacement", 2)), Renumber(SeenG("PHASE", "replacement", 2), 3),
     Renumber(Seen("DIGEST", "after"), 2), Turn(SeenG("COMPLETION", "replacement", 2), "OTHER"), Renumber(Seen("PHASE", "replacement"), 4)}

\* The semantic cases: a published backup imported, exported in each format
\* and restored by the published release.
PublishedImportScript ==
    <<SeenO("CONTROL", "origin", "PINNED"), Prop("SEQUENCE", "control", 3), Prop("SEMANTICS", "control", 5), Prop("DIGEST", "before", 1),
      Prop("SEQUENCE", "import", 3), Prop("SEMANTICS", "import", 5), Prop("DIGEST", "after", 1),
      Prop("SEMANTICS", "export-0", 5), Prop("SEMANTICS", "export-1", 5), Prop("SEMANTICS", "export-2", 5)>>
PublishedImportValid(rows) ==
    /\ Exact(rows, SeenO("CONTROL", "origin", "PINNED")) /\ Agree(rows, "SEQUENCE", {"control", "import"}) /\ Agree(rows, "DIGEST", {"before", "after"})
    /\ Agree(rows, "SEMANTICS", {"control", "import", "export-0", "export-1", "export-2"})
PublishedImportBreaches ==
    {Turn(Seen("CONTROL", "origin"), "BUILD"), Renumber(Seen("SEQUENCE", "import"), 2), Renumber(Seen("SEMANTICS", "import"), 4),
     Renumber(Seen("SEMANTICS", "export-2"), 4), Renumber(Seen("DIGEST", "after"), 2)}

\* The gate before the cases: current jars, Java tests run, sources compiled.
GateScript ==
    <<SeenO("CONTROL", "jar", "PINNED"), SeenO("JARS", "build", "CURRENT"), SeenO("TESTS", "build", "RUN"), SeenO("COMPILED", "consumer", "PASS"),
      SeenO("COMPILED", "worker", "PASS"), SeenO("COMPILED", "control", "PASS"), SeenO("STATUS", "receipt", "PASS")>>
GateValid(rows) ==
    /\ Exact(rows, SeenO("CONTROL", "jar", "PINNED")) /\ Exact(rows, SeenO("JARS", "build", "CURRENT")) /\ Exact(rows, SeenO("TESTS", "build", "RUN"))
    /\ \A c \in {"consumer", "worker", "control"} : Exact(rows, SeenO("COMPILED", c, "PASS"))
GateBreaches ==
    {Turn(Seen("JARS", "build"), "STALE"), Turn(Seen("TESTS", "build"), "SKIPPED"), Turn(Seen("CONTROL", "jar"), "OTHER"), Turn(Seen("COMPILED", "worker"), "FAIL")}
=============================================================================
