---------------------------- MODULE DurableStore ----------------------------
(***************************************************************************)
(* The durable single-node store: the files one process writes (write-ahead *)
(* log generations, checkpoints, the manifest, the derived catalog), the    *)
(* operations that copy it (backup, restore, migration, cleanup of their    *)
(* remnants), and the independent Python inspectors and crash harnesses     *)
(* that judge the files after the process was killed.                       *)
(*                                                                          *)
(* A crash is the end of the process (the harnesses halt or SIGKILL it), so *)
(* the page cache survives and the image is every write made so far.  Bytes *)
(* are abstracted: a WAL generation is the sequence of its first frame, its *)
(* complete frames and the shape of its tail, once its header is whole; a   *)
(* checkpoint file is named by the generation of its cut; checksums and     *)
(* digests are equality.  A fresh store is taken as created.                *)
(***************************************************************************)
EXTENDS EvidenceBase, FiniteSetsExt, TLC

CONSTANTS
    MaxSeq,      \* bound: the last sequence number the writers allocate
    MaxGroup,    \* bound: mutations in one commit group
    MaxCuts,     \* bound: WAL generations after the first
    MaxCrashes,  \* bound: process deaths
    MaxFaults,   \* bound: I/O failures
    Minors,      \* the live formats 1.0, 1.1, 1.2 a store may have
    Components   \* derived index components of a checkpoint

\* What a copy may hold, the manifest also under the name it is staged with.
MemberNames == {"metadata", "checkpoint", "wal", "manifest.staging", "manifest"}

\* The absent value is none of the records that stand beside it.
ASSUME DurableBounds ==
    /\ {MaxSeq, MaxGroup, Components} \subseteq Nat \ {0}
    /\ {MaxCuts, MaxCrashes, MaxFaults} \subseteq Nat
    /\ Minors \subseteq 0..2
    /\ None \notin [seq : Nat, gen : Nat] \cup [gen : Nat, n : Nat]
    /\ None \notin [at : {"refresh"}, seq : Nat, gen : Nat, backup : BOOLEAN, n : Nat]
    /\ None \notin [minor : 0..2, seq : Nat, members : SUBSET MemberNames, listed : SUBSET MemberNames]

VARIABLES
    store,    \* the files of the engine directory
    proc,     \* the process that owns it: writer and checkpoint executor
    pin,      \* the checkpoint a running backup holds, or None
    xfer,     \* the running copy: its kind, its next step and its sequence
    rem,      \* per kind: the operation marker and the staging directory
    target,   \* per kind: what the published target holds, or None
    acked,    \* the last sequence a caller was told is durable
    died,     \* where the last process stopped, and what it had begun
    deaths,   \* process deaths so far
    faults    \* I/O failures so far

durableVars == <<store, proc, pin, xfer, rem, target, acked, died, deaths, faults>>

Kinds == {"backup", "restore", "migration"}

-----------------------------------------------------------------------------
(* The image, and what reads it. *)

LastSeq(w) == w.first + w.n - 1

Newest(s) == Max(DOMAIN s.wal)

\* The generations are consecutive and each starts where the one before ended.
Contiguous(s) ==
    \A g \in DOMAIN s.wal :
        /\ g # Min(DOMAIN s.wal) => /\ g - 1 \in DOMAIN s.wal
                                    /\ s.wal[g].first = LastSeq(s.wal[g - 1]) + 1
        /\ g = 1 => s.wal[g].first = 1

\* The manifest's checkpoint exists and its WAL starts just after it.
ManifestBound(s) ==
    s.man # None => /\ s.man \in s.cps
                    /\ s.man.gen \in DOMAIN s.wal
                    /\ s.wal[s.man.gen].first = s.man.seq + 1

\* inspect_metadata, inspect_manifest, inspect_checkpoint and inspect_wal on
\* every member: a terminal partial frame is accepted, a gap is not, and neither
\* is a generation whose header is not whole.
Inspected(s) ==
    /\ DOMAIN s.wal # {} /\ ~s.bare
    /\ Contiguous(s)
    /\ ManifestBound(s)
    /\ LET lead == Min(DOMAIN s.wal)
       IN lead # 1 => s.man # None /\ lead <= s.man.gen

DurableSequence(s) ==
    Max({LastSeq(s.wal[g]) : g \in DOMAIN s.wal}
          \cup {IF s.man = None THEN 0 ELSE s.man.seq})

\* The engine's own opening: only the newest generation may be torn, and its
\* header may not.
Opens(s) ==
    /\ DOMAIN s.wal # {} /\ ~s.bare
    /\ Contiguous(s)
    /\ ManifestBound(s)
    /\ s.man # None => Min(DOMAIN s.wal) <= s.man.gen
    /\ \A g \in DOMAIN s.wal \ {Newest(s)} : s.wal[g].tail = "none"

\* Replay applies the records after the checkpoint, each exactly once.
Replayed(s) ==
    LET from == IF s.man = None THEN 0 ELSE s.man.seq
    IN from + Cardinality({q \in (from + 1)..MaxSeq :
                              \E g \in DOMAIN s.wal :
                                  q \in s.wal[g].first..LastSeq(s.wal[g])})

\* Format 1.2 alone has derived state: usable only when its catalog is bound to
\* the manifest's checkpoint and every component it names is there.
Derived(s) ==
    IF s.minor < 2 THEN "NOT_APPLICABLE"
    ELSE IF s.man = None \/ s.cat = None THEN "ABSENT"
    ELSE IF s.cat.gen # s.man.gen THEN "STALE"
    ELSE IF s.cat.n < Components THEN "PARTIAL" ELSE "VALID"

\* A generation whose header is written.
EmptyWal(first) == [first |-> first, n |-> 0, tail |-> "none"]

EmptyStore(minor) ==
    [minor |-> minor,
     wal |-> [g \in {1} |-> EmptyWal(1)], bare |-> FALSE,
     cps |-> {}, man |-> None, stage |-> {}, cat |-> None]

Idle(seq) ==
    [up |-> TRUE, pc |-> "idle", left |-> 0, base |-> seq, alloc |-> seq,
     pub |-> seq, ck |-> None, terminal |-> FALSE]

NoRemnant == [marker |-> FALSE, dir |-> FALSE, members |-> {}, cp |-> None,
              listed |-> {}]

DInit ==
    /\ \E minor \in Minors : store = EmptyStore(minor)
    /\ proc = Idle(0)
    /\ pin = None
    /\ xfer = None
    /\ rem = [k \in Kinds |-> NoRemnant]
    /\ target = [k \in Kinds |-> None]
    /\ acked = 0
    /\ died = None
    /\ deaths = 0
    /\ faults = 0

Transfers == <<xfer, rem, target>>
Counters  == <<died, deaths, faults>>

-----------------------------------------------------------------------------
(* The commit group: allocate, write every frame, force, publish, answer. *)

Allocate(k) ==
    /\ proc.up /\ proc.pc = "idle" /\ ~proc.terminal
    /\ proc.alloc + k <= MaxSeq
    /\ proc' = [proc EXCEPT !.pc = "write", !.left = k, !.alloc = @ + k]
    /\ UNCHANGED <<store, pin, Transfers, acked, Counters>>

NextTail == [none |-> "header", header |-> "frame", frame |-> "none"]

\* One write call of a frame: part of its header, part of its payload or
\* trailer, then the rest.
WriteFrame ==
    /\ proc.up /\ proc.pc = "write" /\ proc.left > 0
    /\ LET g    == Newest(store)
           next == NextTail[store.wal[g].tail]
           done == IF next = "none" THEN 1 ELSE 0
       IN /\ store' = [store EXCEPT !.wal[g] = [@ EXCEPT !.tail = next, !.n = store.wal[g].n + done]]
          /\ proc' = [proc EXCEPT !.left = @ - done]
    /\ UNCHANGED <<pin, Transfers, acked, Counters>>

ForceGroup ==
    /\ proc.up /\ proc.pc = "write" /\ proc.left = 0
    /\ proc' = [proc EXCEPT !.pc = "forced"]
    /\ UNCHANGED <<store, pin, Transfers, acked, Counters>>

PublishGroup ==
    /\ proc.up /\ proc.pc = "forced"
    /\ proc' = [proc EXCEPT !.pc = "published", !.pub = proc.alloc]
    /\ UNCHANGED <<store, pin, Transfers, acked, Counters>>

CompleteFutures ==
    /\ proc.up /\ proc.pc = "published"
    /\ acked' = proc.pub
    /\ proc' = [proc EXCEPT !.pc = "idle", !.base = proc.pub]
    /\ UNCHANGED <<store, pin, Transfers, Counters>>

\* A write or a force that throws leaves the bytes and makes the writer terminal.
AppendFails ==
    /\ proc.up /\ proc.pc = "write" /\ faults < MaxFaults
    /\ proc' = [proc EXCEPT !.pc = "failed", !.terminal = TRUE]
    /\ faults' = faults + 1
    /\ UNCHANGED <<store, pin, Transfers, acked, died, deaths>>

-----------------------------------------------------------------------------
(* Checkpoints: the cut is the writer's, publication the executor's. *)

\* cutGeneration under way, for a checkpoint and for a backup.
Cuts == {"cut", "backup-cut"}

CanCut(backup) ==
    /\ proc.up /\ proc.pc = "idle" /\ ~proc.terminal /\ proc.ck = None
    /\ proc.pub = proc.alloc
    /\ Newest(store) <= MaxCuts
    /\ backup => xfer = None /\ pin = None /\ rem["backup"] = NoRemnant
                  /\ target["backup"] = None

\* The old generation is forced and the file of the next one created under its
\* final name, without its header.
CreateGeneration(backup) ==
    /\ CanCut(backup)
    /\ store' = [store EXCEPT !.bare = TRUE]
    /\ proc' = [proc EXCEPT !.pc = IF backup THEN "backup-cut" ELSE "cut"]
    /\ UNCHANGED <<pin, Transfers, acked, Counters>>

WithGeneration(g) ==
    [store EXCEPT !.bare = FALSE,
                  !.wal = [h \in DOMAIN @ \cup {g} |-> IF h = g THEN EmptyWal(proc.pub + 1) ELSE @[h]]]

\* Its header and the directory are forced, the writer goes on in it and the
\* executor takes the checkpoint.  A backup's cut differs only in what follows
\* the publication.
HeadGeneration ==
    /\ proc.up /\ proc.pc \in Cuts
    /\ LET g == Newest(store) + 1
       IN /\ store' = WithGeneration(g)
          /\ proc' = [proc EXCEPT !.pc = "idle",
                                  !.ck = [at |-> "begin", seq |-> proc.pub, gen |-> g,
                                          backup |-> proc.pc = "backup-cut", n |-> 0]]
    /\ UNCHANGED <<pin, Transfers, acked, Counters>>

\* A cut that throws is terminal and removes nothing: no file when the force of
\* the old generation or the creation failed, a file without a header when the
\* header did, a generation when the force of the directory did.
CutFails ==
    /\ faults < MaxFaults
    /\ \/ store' = store /\ \E backup \in BOOLEAN : CanCut(backup)
       \/ store' \in {store, WithGeneration(Newest(store) + 1)} /\ proc.up /\ proc.pc \in Cuts
    /\ proc' = [proc EXCEPT !.pc = "failed", !.terminal = TRUE]
    /\ faults' = faults + 1
    /\ UNCHANGED <<pin, Transfers, acked, died, deaths>>

Ck == [seq |-> proc.ck.seq, gen |-> proc.ck.gen]

\* The staged data file: an old staged manifest is removed first.
StageData ==
    /\ proc.up /\ proc.ck # None /\ proc.ck.at = "begin"
    /\ store' = [store EXCEPT !.stage = {"data"}]
    /\ proc' = [proc EXCEPT !.ck.at = "staged"]
    /\ UNCHANGED <<pin, Transfers, acked, Counters>>

PublishData ==
    /\ proc.up /\ proc.ck # None /\ proc.ck.at = "staged"
    /\ store' = [store EXCEPT !.cps = @ \cup {Ck}, !.stage = @ \ {"data"}]
    /\ proc' = [proc EXCEPT !.ck.at = "data"]
    /\ UNCHANGED <<pin, Transfers, acked, Counters>>

StageManifest ==
    /\ proc.up /\ proc.ck # None /\ proc.ck.at = "data"
    /\ store' = [store EXCEPT !.stage = @ \cup {"manifest"}]
    /\ proc' = [proc EXCEPT !.ck.at = "manifest-staged"]
    /\ UNCHANGED <<pin, Transfers, acked, Counters>>

ReplaceManifest ==
    /\ proc.up /\ proc.ck # None /\ proc.ck.at = "manifest-staged"
    /\ store' = [store EXCEPT !.man = Ck, !.stage = @ \ {"manifest"}]
    /\ proc' = [proc EXCEPT !.ck.at = "replaced"]
    /\ UNCHANGED <<pin, Transfers, acked, Counters>>

ForceDirectory ==
    /\ proc.up /\ proc.ck # None /\ proc.ck.at = "replaced"
    /\ proc' = [proc EXCEPT !.ck.at = "cleaning"]
    /\ UNCHANGED <<store, pin, Transfers, acked, Counters>>

\* One deletion of cleanupAfterPublication.  The directory is walked in name
\* order: checkpoint files before log generations, generations oldest first.
\*
\* Mutant: a checkpoint a backup still copies is removed.
DoomedPinned == {c \in store.cps : c # Ck}

Doomed == {c \in store.cps : c # Ck /\ c.gen # pin}
OldWals == {g \in DOMAIN store.wal : g < proc.ck.gen}

WithoutWal(g) ==
    [store EXCEPT !.wal = [h \in DOMAIN store.wal \ {g} |-> store.wal[h]]]

\* Mutant: the newest of the old generations goes first.
CleanNewestFirst ==
    IF Doomed # {} \/ store.stage # {}
      THEN [store EXCEPT !.cps = @ \ Doomed, !.stage = {}]
      ELSE WithoutWal(Max(OldWals))

CleanNext ==
    IF Doomed # {} \/ store.stage # {}
      THEN [store EXCEPT !.cps = @ \ Doomed, !.stage = {}]
      ELSE WithoutWal(Min(OldWals))

CleanAfterPublication ==
    /\ proc.up /\ proc.ck # None /\ proc.ck.at = "cleaning"
    /\ Doomed # {} \/ store.stage # {} \/ OldWals # {}
    /\ store' = CleanNext
    /\ UNCHANGED <<proc, pin, Transfers, acked, Counters>>

\* Publication is over: a backup pins the checkpoint and starts to copy it, an
\* ordinary checkpoint goes on to refresh the derived state.
AfterPublication ==
    /\ IF proc.ck.backup
         THEN /\ pin' = proc.ck.gen
              /\ xfer' = [kind |-> "backup", at |-> 1, seq |-> proc.ck.seq,
                          gen |-> proc.ck.gen]
              /\ proc' = [proc EXCEPT !.ck = None]
         ELSE /\ proc' = IF store.minor = 2 THEN [proc EXCEPT !.ck.at = "refresh"]
                                           ELSE [proc EXCEPT !.ck = None]
              /\ UNCHANGED <<pin, xfer>>
    /\ UNCHANGED <<store, rem, target, acked, died, deaths>>

FinishPublication ==
    /\ proc.up /\ proc.ck # None /\ proc.ck.at = "cleaning"
    /\ Doomed = {} /\ store.stage = {} /\ OldWals = {}
    /\ AfterPublication /\ UNCHANGED faults

\* A deletion that fails ends the cleanup, is reported, and the publication
\* goes on.
CleanupFails ==
    /\ proc.up /\ proc.ck # None /\ proc.ck.at = "cleaning" /\ faults < MaxFaults
    /\ AfterPublication /\ faults' = faults + 1

\* A component is written, validated and renamed; then the catalog replaces
\* the one before it.
WriteComponent ==
    /\ proc.up /\ proc.ck # None /\ proc.ck.at = "refresh"
    /\ proc.ck.n < Components
    /\ proc' = [proc EXCEPT !.ck.n = @ + 1]
    /\ UNCHANGED <<store, pin, Transfers, acked, Counters>>

PublishCatalog ==
    /\ proc.up /\ proc.ck # None /\ proc.ck.at = "refresh"
    /\ proc.ck.n = Components
    /\ store' = [store EXCEPT !.cat = [gen |-> proc.ck.gen, n |-> proc.ck.n]]
    /\ proc' = [proc EXCEPT !.ck = None]
    /\ UNCHANGED <<pin, Transfers, acked, Counters>>

\* A failure before the manifest is replaced abandons the checkpoint; between
\* the rename and the directory force it is terminal; the refresh swallows its
\* own.
CheckpointFails ==
    /\ proc.up /\ proc.ck # None /\ proc.ck.at # "cleaning" /\ faults < MaxFaults
    /\ proc' = [proc EXCEPT !.ck = None,
                            !.terminal = @ \/ proc.ck.at = "replaced"]
    /\ faults' = faults + 1
    /\ UNCHANGED <<store, pin, Transfers, acked, died, deaths>>

-----------------------------------------------------------------------------
(* Death and recovery. *)

Crash ==
    /\ proc.up /\ deaths < MaxCrashes
    /\ proc' = [proc EXCEPT !.up = FALSE]
    /\ died' = [xfer |-> xfer]
    /\ deaths' = deaths + 1
    /\ pin' = None
    /\ xfer' = None
    /\ UNCHANGED <<store, rem, target, acked, faults>>

\* A graceful close waits for the writer, the checkpoint and the backup.
Close ==
    /\ proc.up /\ proc.pc = "idle" /\ proc.ck = None /\ xfer = None
    /\ proc' = [proc EXCEPT !.up = FALSE]
    /\ UNCHANGED <<store, pin, Transfers, acked, Counters>>

\* Bound: one restore or migration per behaviour, after the last process; no
\* process reads what they write.
NoToolYet ==
    \A k \in {"restore", "migration"} : rem[k] = NoRemnant /\ target[k] = None

\* The next process: truncate the torn tail, replay, refresh what is derived.
Recover ==
    /\ ~proc.up /\ xfer = None /\ NoToolYet
    /\ Opens(store)
    /\ store' = [store EXCEPT !.wal[Newest(store)].tail = "none"]
    /\ proc' = [Idle(Replayed(store)) EXCEPT
                  !.pc = "opening",
                  !.ck = IF Derived(store) \in {"ABSENT", "STALE", "PARTIAL"}
                               /\ store.man # None
                           THEN [at |-> "refresh", seq |-> store.man.seq,
                                 gen |-> store.man.gen, backup |-> FALSE, n |-> 0]
                           ELSE None]
    /\ died' = None
    /\ UNCHANGED <<pin, Transfers, acked, deaths, faults>>

Ready ==
    /\ proc.up /\ proc.pc = "opening" /\ proc.ck = None
    /\ proc' = [proc EXCEPT !.pc = "idle"]
    /\ UNCHANGED <<store, pin, Transfers, acked, Counters>>

-----------------------------------------------------------------------------
(* Copies: every kind stages its members, verifies them and renames once. *)

Steps(kind) ==
    IF kind = "backup"
      THEN <<"marker", "dir", "metadata", "checkpoint", "manifest.staging",
             "manifest", "publish", "unmark">>
      ELSE <<"marker", "dir", "metadata", "checkpoint", "wal", "manifest.staging",
             "manifest", "publish", "unmark">>

MembersOf(kind) == {"metadata", "checkpoint", "manifest"}
                    \cup (IF kind = "backup" THEN {} ELSE {"wal"})

Payloads(kind) == MembersOf(kind) \ {"manifest"}

\* The remnant after a step.  The manifest lists the digests of the members
\* staged before it, then takes its final name.
Staged(r, step, seq) ==
    CASE step = "marker"   -> [r EXCEPT !.marker = TRUE]
      [] step = "dir"      -> [r EXCEPT !.dir = TRUE]
      [] step = "manifest" -> [r EXCEPT !.members = (@ \ {"manifest.staging"})
                                                       \cup {"manifest"}]
      [] step = "publish"  -> [NoRemnant EXCEPT !.marker = r.marker]
      [] step = "unmark"   -> [r EXCEPT !.marker = FALSE]
      [] OTHER             ->
           [r EXCEPT !.members = @ \cup {step},
                     !.cp = IF step = "checkpoint" THEN seq ELSE @,
                     !.listed = IF step = "manifest.staging" THEN r.members ELSE @]

\* The source the copy reads: the pinned checkpoint, the published backup, or
\* the closed store.
SourceHolds(x) ==
    /\ x.kind = "backup"    => [seq |-> x.seq, gen |-> x.gen] \in store.cps
    /\ x.kind = "restore"   => target["backup"] # None /\ target["backup"].seq = x.seq
    /\ x.kind = "migration" => Opens(store) /\ Replayed(store) = x.seq

Bundle(r) == [minor |-> store.minor, seq |-> r.cp, members |-> r.members,
              listed |-> r.listed]

CopyStep ==
    /\ xfer # None
    /\ LET k    == xfer.kind
           step == Steps(k)[xfer.at]
           last == xfer.at = Len(Steps(k))
       IN /\ step = "checkpoint" => SourceHolds(xfer)
          /\ step = "publish" => target[k] = None
          /\ rem' = [rem EXCEPT ![k] = Staged(@, step, xfer.seq)]
          /\ target' = IF step = "publish"
                         THEN [target EXCEPT ![k] = Bundle(rem[k])] ELSE target
          /\ xfer' = IF last THEN None ELSE [xfer EXCEPT !.at = @ + 1]
          /\ pin' = IF last THEN None ELSE pin
    /\ UNCHANGED <<store, proc, acked, Counters>>

\* A copy that fails removes its staging and marker unless it has published.
CopyFails ==
    /\ xfer # None /\ faults < MaxFaults
    /\ LET k == xfer.kind
       IN rem' = IF Steps(k)[xfer.at] = "unmark"
                   THEN rem ELSE [rem EXCEPT ![k] = NoRemnant]
    /\ pin' = None
    /\ xfer' = None
    /\ faults' = faults + 1
    /\ UNCHANGED <<store, proc, target, acked, died, deaths>>

\* The operator tools run on a store no process owns.
Begin(k) ==
    /\ k \in {"restore", "migration"}
    /\ ~proc.up /\ xfer = None
    /\ NoToolYet
    /\ k = "restore" => target["backup"] # None
    /\ k = "migration" => Opens(store)
    /\ xfer' = [kind |-> k, at |-> 1, gen |-> 0,
                seq |-> IF k = "restore" THEN target["backup"].seq
                                         ELSE Replayed(store)]
    /\ died' = None
    /\ UNCHANGED <<store, proc, pin, rem, target, acked, deaths, faults>>

\* The tool dies at a barrier.
ToolCrash ==
    /\ xfer # None /\ xfer.kind # "backup" /\ deaths < MaxCrashes
    /\ died' = [xfer |-> xfer]
    /\ deaths' = deaths + 1
    /\ xfer' = None
    /\ UNCHANGED <<store, proc, pin, rem, target, acked, faults>>

\* One deletion of the plan-bound cleanup: members, then the directory, then
\* the marker that binds them.
Remaining(r) ==
    IF r.members # {} THEN [r EXCEPT !.members = @ \ {CHOOSE m \in @ : TRUE}]
    ELSE IF r.dir     THEN [r EXCEPT !.dir = FALSE]
                      ELSE [r EXCEPT !.marker = FALSE]

CleanRemnant(k) ==
    /\ ~proc.up /\ xfer = None
    /\ rem[k].marker
    /\ ~(rem[k].dir /\ target[k] # None)
    /\ rem' = [rem EXCEPT ![k] = Remaining(@)]
    /\ died' = None
    /\ UNCHANGED <<store, proc, pin, xfer, target, acked, deaths, faults>>

-----------------------------------------------------------------------------

DNext ==
    \/ \E k \in 1..MaxGroup : Allocate(k)
    \/ WriteFrame \/ ForceGroup \/ PublishGroup \/ CompleteFutures \/ AppendFails
    \/ \E b \in BOOLEAN : CreateGeneration(b)
    \/ HeadGeneration \/ CutFails
    \/ StageData \/ PublishData \/ StageManifest \/ ReplaceManifest
    \/ ForceDirectory \/ CleanAfterPublication \/ FinishPublication
    \/ CleanupFails \/ WriteComponent \/ PublishCatalog \/ CheckpointFails
    \/ Crash \/ Close \/ Recover \/ Ready
    \/ CopyStep \/ CopyFails \/ ToolCrash
    \/ \E k \in Kinds : Begin(k) \/ CleanRemnant(k)

-----------------------------------------------------------------------------
(* What the harnesses expect at the barrier where the process died. *)

\* expected_wal_sequence, for the group of one mutation the harness submits:
\* nothing until the frame is whole, the mutation from then on.
ExpectedSequence(p) ==
    IF p.pc = "write" /\ p.left > 0 THEN p.base ELSE p.alloc

\* run_case: the inspected and the recovered prefix are the expected one.  No
\* barrier stands between the file of a generation and its header.
WalCase ==
    (proc.alloc - proc.base <= 1 /\ ~proc.terminal /\ proc.pc \notin Cuts) =>
        /\ DurableSequence(store) = ExpectedSequence(proc)
        /\ Replayed(store) = ExpectedSequence(proc)

\* The repeated-crash harness: at its three barriers the cycle's mutation is in.
RepeatCase ==
    (\/ proc.pc = "published"
     \/ proc.pc = "idle" /\ proc.ck # None /\ proc.ck.at = "cleaning") =>
        DurableSequence(store) = proc.alloc /\ Replayed(store) = proc.alloc

\* The final hardening harness: a close leaves nothing in flight, and a stop of
\* any kind leaves a store from which the next sequence continues.
StopCase ==
    (died = None /\ ~proc.terminal) =>
        /\ store.wal[Newest(store)].tail = "none"
        /\ DurableSequence(store) = proc.alloc

\* run_case, phase 4: the manifest names the new checkpoint exactly from its
\* rename on.
CheckpointCase ==
    (proc.ck # None /\ proc.ck.at # "refresh") =>
        ((store.man = Ck) <=> (proc.ck.at \in {"replaced", "cleaning"}))

\* The content identity covers every payload and nothing else.
ContentIdentity(b, k) == b.listed = Payloads(k)

\* The three bundle formats, each with its own independent parser: an exact
\* inventory, the payloads the manifest lists, and the sequence of the cut.
BackupV10(b, seq) ==
    b.minor = 0 /\ b.members = MembersOf("backup") /\ b.seq = seq
        /\ ContentIdentity(b, "backup")

BackupV11(b, seq) ==
    b.minor = 1 /\ b.members = MembersOf("backup") /\ b.seq = seq
        /\ ContentIdentity(b, "backup")

BackupV12(b, seq) ==
    b.minor = 2 /\ b.members = MembersOf("backup") /\ b.seq = seq
        /\ ContentIdentity(b, "backup")

\* A restored or migrated store: one checkpoint, one empty generation after it,
\* and a manifest that agrees with both.
InspectStore(b, seq) ==
    /\ b.members = MembersOf("migration")
    /\ ContentIdentity(b, "migration")
    /\ b.seq = seq

PublishedWhole(k, seq) ==
    IF k = "backup"
      THEN \/ BackupV10(target[k], seq)
           \/ BackupV11(target[k], seq)
           \/ BackupV12(target[k], seq)
      ELSE InspectStore(target[k], seq)

\* inspect_crash: the target exists exactly from the final rename on, and a
\* staged manifest never stands without the members it lists.
BackupCase(x) ==
    LET final == Steps("backup")[x.at] = "unmark"
    IN /\ (target["backup"] # None) <=> final
       /\ final => ~rem["backup"].dir /\ PublishedWhole("backup", x.seq)
       /\ "manifest" \in rem["backup"].members =>
             rem["backup"].members = MembersOf("backup") /\ rem["backup"].cp = x.seq

\* inspect_restore_crash: the source bundle is whole, the target is published
\* exactly from the final rename on and holds the bundle's sequence.
RestoreCase(x) ==
    LET final == Steps("restore")[x.at] = "unmark"
    IN /\ PublishedWhole("backup", x.seq)
       /\ (target["restore"] # None) <=> final
       /\ final => ~rem["restore"].dir /\ PublishedWhole("restore", x.seq)

\* The table of the migration harness: which remnant each barrier leaves.
ExpectedRemnant(x) ==
    LET step == Steps("migration")[x.at]
    IN  IF step = "marker" THEN "ABSENT"
        ELSE IF step \in {"dir", "unmark"} THEN "MARKER" ELSE "STAGING"

RemnantOf(r) ==
    IF r.dir THEN "STAGING" ELSE IF r.marker THEN "MARKER" ELSE "ABSENT"

MigrationCase(x) ==
    /\ RemnantOf(rem["migration"]) = ExpectedRemnant(x)
    /\ (target["migration"] # None) <=> (Steps("migration")[x.at] = "unmark")
    /\ target["migration"] # None => PublishedWhole("migration", Replayed(store))

CopyCase(x) ==
    /\ x.kind = "backup"    => BackupCase(x)
    /\ x.kind = "restore"   => RestoreCase(x)
    /\ x.kind = "migration" => MigrationCase(x)

\* The cleanup planner and inspector: whatever is left is bound by its marker,
\* so that the next plan can still remove it, and never beside a target.
CleanupCase ==
    \A k \in Kinds :
        /\ (rem[k].dir \/ rem[k].members # {}) => rem[k].marker
        /\ ~(rem[k].dir /\ target[k] # None)

\* The derived-image harness: a reopened 1.2 store has a complete generation.
DerivedCase ==
    /\ Derived(store) # "PARTIAL"
    /\ (proc.pc = "opening" /\ proc.ck = None /\ store.man # None
          /\ store.minor = 2 /\ faults = 0) => Derived(store) = "VALID"

-----------------------------------------------------------------------------
(* Properties. *)

\* The store without the file of a generation that has no header yet.
Headed(s) == [s EXCEPT !.bare = FALSE]

\* Whenever the process may be killed - inside a frame, between the frames of a
\* group, anywhere in a checkpoint's publication or in the deletions after it -
\* the files hold exactly one prefix of the history: every acknowledged mutation,
\* nothing never allocated, each record once.  The independent inspector and the
\* engine's own opening accept them, but for the file of a generation whose cut
\* was killed or failed before its header; no later step leaves such a file.
DurablePrefix ==
    /\ Inspected(Headed(store)) /\ Opens(Headed(store))
    /\ store.bare => proc.pc \in Cuts \/ proc.terminal
    /\ Replayed(store) = DurableSequence(store)
    /\ acked <= DurableSequence(store)
    /\ DurableSequence(store) <= proc.alloc

\* A store whose process was killed or has failed before the manifest was
\* published is recovered from the old checkpoint and the generations that are
\* left, as docs/v4/CHECKPOINTS.md says.
CrashRecovers == ~proc.up => Inspected(store) /\ Opens(store)

\* Every verdict of the crash harnesses is PASS at every barrier: the expected
\* sequence and manifest of a store case, the published target and the remnant
\* of a backup, restore or migration case, the binding that lets a cleanup go
\* on, the refreshed derived image - and a running backup never loses the
\* checkpoint it copies to the cleanup of a later one.
CasesPass ==
    /\ ~proc.up => WalCase /\ CheckpointCase /\ RepeatCase
    /\ (~proc.up /\ deaths = 0) => StopCase
    /\ (died # None /\ died.xfer # None) => CopyCase(died.xfer)
    /\ (xfer # None /\ xfer.kind = "backup") => SourceHolds(xfer)
    /\ CleanupCase
    /\ DerivedCase
=============================================================================
