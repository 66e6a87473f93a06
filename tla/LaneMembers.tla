---------------------------- MODULE LaneMembers ----------------------------
(***************************************************************************)
(* The members of the durable release lanes (V4.0 to V4.4): what one paid   *)
(* or local run does on its hosts, the properties its stages leave, and the *)
(* validator that turns them into a passing bundle.  A row is a stage's     *)
(* property: its number stands for a sequence, a checksum, a history, an    *)
(* identity or a measured size.  The lifecycle a bundle lists is a constant *)
(* of the code, whatever the run did, and is left out.                      *)
(***************************************************************************)
EXTENDS HarnessBase

Places == {"local", "cloud"}

\* One numbered property of a stage, and the stages that agree on it.
Prop(key, w, k) == SeenN(key, w, k)
Agree(rows, key, ws) == \E k \in 0..9 : \A w \in ws : Exact(rows, SeenN(key, w, k))
Value(rows, key, w)  == NumberOf(rows, Seen(key, w))
Measured(rows, keys, w) == \A key \in keys : One(rows, Seen(key, w)) /\ Value(rows, key, w) > 0
ContinuedSteps == 2      \* batches of the continued mutations
Gone(rows, ws) == \A w \in ws : Exact(rows, Stop(w, "deleted"))

-----------------------------------------------------------------------------
(* V4.0: one JVM measures the durable engine beside the in-memory one.       *)

LongRun == {"READS", "WRITES", "CHECKPOINTS"}
RecoverySources == [w \in {"wal", "checkpoint", "both"} |->
    CASE w = "wal" -> "WAL_ONLY" [] w = "checkpoint" -> "CHECKPOINT_ONLY" [] OTHER -> "CHECKPOINT_AND_WAL"]

\* run_probe: the probe's cells, its exit, the removal of its workspace.
DurableProbe ==
    <<Start("probe", 1), Prop("CHECKSUM", "memory", 1), Prop("CHECKSUM", "durable", 1),
      Prop("LATENCY", "memory", 1), Prop("LATENCY", "durable", 1), Prop("UNITS", "producers", 2),
      Prop("FORCE_GROUPS", "durable", 1), Prop("UNITS", "durable", 2), Prop("LARGEST_GROUP", "durable", 2),
      Prop("ENCODED", "durable", 1), Prop("RETAINED", "durable", 1), Prop("TEMPORARY_PEAK", "durable", 2),
      SeenO("RECOVERED", "wal", "WAL_ONLY"), SeenO("RECOVERED", "checkpoint", "CHECKPOINT_ONLY"),
      SeenO("RECOVERED", "both", "CHECKPOINT_AND_WAL"), SeenO("LONG_RUN", "durable", "OPEN"),
      Prop("READS", "durable", 1), Prop("WRITES", "durable", 1), Prop("CHECKPOINTS", "durable", 1),
      Stop("probe", "0"), SeenO("CLEANED", "probe", "PASS")>>

\* validate_properties: the two engines hold the same documents, every forced
\* unit was submitted, the checkpoint never shrank below what it kept, each
\* recovery came from its source, and the long run moved and stayed open.
DurableProperties(rows) ==
    LET groups == Value(rows, "FORCE_GROUPS", "durable")
        units  == Value(rows, "UNITS", "durable")
    IN /\ Agree(rows, "CHECKSUM", {"memory", "durable"})
       /\ \A w \in {"memory", "durable"} : Measured(rows, {"LATENCY"}, w)
       /\ 0 < groups /\ groups <= units /\ Agree(rows, "UNITS", {"producers", "durable"})
       /\ Value(rows, "LARGEST_GROUP", "durable") \in 1..units
       /\ Measured(rows, {"ENCODED"}, "durable")
       /\ Value(rows, "TEMPORARY_PEAK", "durable") >= Value(rows, "RETAINED", "durable")
       /\ \A w \in DOMAIN RecoverySources : Passed(rows, SeenO("RECOVERED", w, RecoverySources[w]))
       /\ Passed(rows, SeenO("LONG_RUN", "durable", "OPEN"))
       /\ Measured(rows, LongRun, "durable")

\* A failed probe, or a workspace that stays, retains a FAIL bundle, which
\* validate_performance_bundle refuses.
DurableMember(rows) ==
    Exact(rows, Stop("probe", "0")) /\ DurableProperties(rows) /\ Exact(rows, SeenO("CLEANED", "probe", "PASS"))

DurableBreaches ==
    {Renumber(Seen("CHECKSUM", "durable"), 2), Renumber(Seen("UNITS", "durable"), 1),
     Renumber(Seen("FORCE_GROUPS", "durable"), 3), Renumber(Seen("LARGEST_GROUP", "durable"), 3),
     Renumber(Seen("TEMPORARY_PEAK", "durable"), 0), Turn(Seen("RECOVERED", "both"), "WAL_ONLY"),
     Turn(Seen("LONG_RUN", "durable"), "FAILED"), Renumber(Seen("CHECKPOINTS", "durable"), 0),
     Turn(Stop("probe", "0"), "1"), Turn(Seen("CLEANED", "probe"), "FAIL")}

\* writer and recover: a JVM halts at the WAL barrier on one machine, the disk
\* moves to a replacement, which inspects it and recovers.
DrillScript ==
    <<Seen("DISK_CREATED", "disk"), Start("writer", 1), Seen("BARRIER", "writer"),
      SeenO("HALTED", "writer", "86"), Prop("INSPECTED", "writer", 1), Prop("RESULT", "writer", 1),
      Stop("writer", "deleted"), Start("recovery", 1), Prop("INSPECTED", "recovery", 1),
      Prop("RECOVERED", "recovery", 1), Seen("REOPENED", "recovery"), Stop("recovery", "deleted")>>

\* writer refuses a prefix that is not one; recover refuses a result of other
\* sources, another exit, another prefix or another recovered sequence.
DrillValid(rows) ==
    /\ Passed(rows, SeenO("HALTED", "writer", "86"))
    /\ Exact(rows, Prop("INSPECTED", "writer", 1)) /\ Exact(rows, Prop("INSPECTED", "recovery", 1))
    /\ Exact(rows, Prop("RESULT", "writer", 1)) /\ Exact(rows, Prop("RECOVERED", "recovery", 1))

DrillBreaches ==
    {Turn(Seen("HALTED", "writer"), "0"), Renumber(Seen("INSPECTED", "writer"), 0),
     Renumber(Seen("INSPECTED", "recovery"), 0), Renumber(Seen("RECOVERED", "recovery"), 0),
     Drop(Seen("RESULT", "writer"))}

-----------------------------------------------------------------------------
(* V4.1: a backup outlives its source host and is restored on another.       *)

\* The source stage: sequence 1 is the cut, one mutation follows it.
OperationalSource ==
    <<Prop("MUTATED", "source", 1), Prop("BACKUP", "source", 1), Prop("CONTENT", "source", 1),
      Prop("HISTORY", "source", 1), Prop("CHECKSUM", "source", 1), Prop("BYTES_BEFORE", "source", 1),
      Prop("PEAK", "source", 2), SeenO("STRUCTURE", "source", "VALID"), SeenO("SEMANTICS", "source", "VALID"),
      Prop("AFTER_CUT", "source", 2)>>

\* The restore stage, on the replacement.
OperationalRestore ==
    <<SeenO("STRUCTURE", "replacement", "VALID"), SeenO("SEMANTICS", "replacement", "VALID"),
      Prop("RESTORED", "replacement", 1), Prop("OLD_HISTORY", "replacement", 1),
      Prop("HISTORY", "replacement", 2), Prop("CHECKSUM", "replacement", 1),
      Prop("CONTINUED", "replacement", 2), Prop("CHECKPOINT", "replacement", 1),
      Prop("SECOND_OPEN", "replacement", 1), Prop("MEASURED_SECONDS", "replacement", 1)>>

\* The member's runner, and run_local: the source host and its disk are gone
\* before the restore begins.
OperationalScript(p) ==
    IF p = "cloud"
    THEN <<Seen("DISK_CREATED", "source"), Start("source", 1)>> \o OperationalSource
           \o <<Seen("UPLOADED", "bundle"), Stop("source", "deleted"), Stop("source-disk", "deleted"),
                Seen("UNAVAILABLE", "source"), Seen("DOWNLOADED", "bundle"), Prop("CONTENT", "inspected", 1),
                Prop("BACKUP", "inspected", 1), Seen("DISK_CREATED", "replacement"), Start("replacement", 1)>>
           \o OperationalRestore
           \o <<Seen("RETAINED", "evidence"), Stop("replacement", "deleted"), Stop("replacement-disk", "deleted"),
                Stop("bundle", "deleted")>>
    ELSE <<Start("source", 1)>> \o OperationalSource
           \o <<Prop("CONTENT", "inspected", 1), Prop("BACKUP", "inspected", 1), Stop("source", "deleted"),
                Seen("UNAVAILABLE", "source"), Start("replacement", 1)>>
           \o OperationalRestore \o <<Stop("replacement", "deleted"), Stop("bundle", "deleted")>>

\* validate_properties.
OperationalProperties(rows) ==
    LET cut == Value(rows, "BACKUP", "source")
    IN /\ Measured(rows, {"MUTATED", "BACKUP", "PEAK"}, "source")
       /\ \A w \in {"source", "replacement"}, k \in {"STRUCTURE", "SEMANTICS"} : Passed(rows, SeenO(k, w, "VALID"))
       /\ Value(rows, "PEAK", "source") >= Value(rows, "BYTES_BEFORE", "source")
       /\ Exact(rows, Prop("AFTER_CUT", "source", cut + 1))
       /\ Measured(rows, {"CHECKPOINT", "SECOND_OPEN", "MEASURED_SECONDS"}, "replacement")
       /\ Exact(rows, Prop("RESTORED", "replacement", cut))
       /\ Exact(rows, Prop("CONTINUED", "replacement", cut + 1))
       /\ Agree(rows, "CHECKSUM", {"source", "replacement"})
       /\ Value(rows, "HISTORY", "source") = Value(rows, "OLD_HISTORY", "replacement")
       /\ Value(rows, "OLD_HISTORY", "replacement") # Value(rows, "HISTORY", "replacement")

\* build_document: the bundle inspected independently is the one the source
\* reported; a paid member deleted everything it created.
OperationalDocument(p, rows) ==
    /\ OperationalProperties(rows)
    /\ Agree(rows, "CONTENT", {"source", "inspected"}) /\ Agree(rows, "BACKUP", {"source", "inspected"})
    /\ p = "cloud" => Gone(rows, {"source", "source-disk", "replacement", "replacement-disk", "bundle"})

OperationalBreaches(p) ==
    {Renumber(Seen("AFTER_CUT", "source"), 3), Renumber(Seen("RESTORED", "replacement"), 2),
     Renumber(Seen("CONTINUED", "replacement"), 3), Renumber(Seen("CHECKSUM", "replacement"), 2),
     Renumber(Seen("OLD_HISTORY", "replacement"), 3), Renumber(Seen("HISTORY", "replacement"), 1),
     Renumber(Seen("PEAK", "source"), 0), Renumber(Seen("CONTENT", "inspected"), 2),
     Renumber(Seen("BACKUP", "inspected"), 2), Turn(Seen("SEMANTICS", "replacement"), "CORRUPT"),
     Turn(Seen("STRUCTURE", "source"), "CORRUPT"), Renumber(Seen("SECOND_OPEN", "replacement"), 0)}
      \cup (IF p = "local" THEN {}
            ELSE {Turn(Stop(w, "deleted"), "left") : w \in {"source-disk", "replacement", "bundle"}})

-----------------------------------------------------------------------------
(* V4.2: a store is migrated to a new directory; the old one stays as it was *)
(* and the published release reopens it.                                     *)

\* run_local, and the runner: source, migration, target, rollback, in order.
MigrationScript(p) ==
    <<Start("source", 1), Prop("SEQUENCE", "source", 1), Prop("BACKUP", "source", 1), Prop("CONTENT", "source", 1),
      Prop("DIRECTORY", "source", 1), Prop("CHECKSUM", "source", 1), Prop("HISTORY", "source", 1),
      Prop("PLANNED", "migration", 1), Prop("DIRECTORY", "migration", 1), Prop("SEQUENCE", "migration", 1),
      Prop("SEQUENCE", "target", 1), Prop("HISTORY", "target", 2)>>
      \o (IF p = "cloud" THEN <<Stop("source", "deleted"), Start("target", 1)>> ELSE <<>>)
      \o <<Prop("CONTINUED", "target", 1 + ContinuedSteps), Prop("SECOND_OPEN", "target", 1),
           Prop("MEASURED_SECONDS", "target", 1)>>
      \o (IF p = "cloud" THEN <<Stop("target", "deleted"), Start("rollback", 1)>> ELSE <<>>)
      \o <<Prop("DIRECTORY", "rollback", 1), Prop("SEQUENCE", "rollback", 1), Prop("CHECKSUM", "rollback", 1),
           Prop("CONTENT", "inspected", 1), Prop("BACKUP", "inspected", 1)>>
      \o (IF p = "cloud"
          THEN <<Stop("rollback", "deleted"), Stop("source-disk", "deleted"), Stop("target-disk", "deleted"),
                 Stop("bundle", "deleted")>>
          ELSE <<Stop("source", "deleted")>>)

\* validate_properties: the migration left the source directory as it was,
\* started a new history at its sequence, and the published release found it.
MigrationProperties(rows) ==
    /\ Measured(rows, {"SEQUENCE"}, "source") /\ Measured(rows, {"PLANNED"}, "migration")
    /\ Value(rows, "BACKUP", "source") = Value(rows, "SEQUENCE", "source")
    /\ Agree(rows, "DIRECTORY", {"source", "migration", "rollback"})
    /\ Agree(rows, "SEQUENCE", {"source", "migration", "target", "rollback"})
    /\ Agree(rows, "CHECKSUM", {"source", "rollback"})
    /\ Value(rows, "HISTORY", "source") # Value(rows, "HISTORY", "target")
    /\ Measured(rows, {"SECOND_OPEN", "MEASURED_SECONDS"}, "target")
    /\ Exact(rows, Prop("CONTINUED", "target", Value(rows, "SEQUENCE", "target") + ContinuedSteps))

MigrationDocument(p, rows) ==
    /\ MigrationProperties(rows)
    /\ Agree(rows, "CONTENT", {"source", "inspected"}) /\ Agree(rows, "BACKUP", {"source", "inspected"})
    /\ p = "cloud" => Gone(rows, {"source", "target", "rollback", "source-disk", "target-disk", "bundle"})

MigrationBreaches(p) ==
    {Renumber(Seen("DIRECTORY", w), 2) : w \in {"migration", "rollback"}}
      \cup {Renumber(Seen("SEQUENCE", w), 2) : w \in {"migration", "target", "rollback"}}
      \cup {Renumber(Seen("BACKUP", "source"), 2), Renumber(Seen("CONTENT", "inspected"), 2),
            Renumber(Seen("CHECKSUM", "rollback"), 2), Renumber(Seen("HISTORY", "target"), 1),
            Renumber(Seen("CONTINUED", "target"), 1), Renumber(Seen("SECOND_OPEN", "target"), 0)}
      \cup (IF p = "local" THEN {}
            ELSE {Turn(Stop(w, "deleted"), "left") : w \in {"source", "rollback", "target-disk", "bundle"}})

-----------------------------------------------------------------------------
(* V4.3: warm reopening against a forced rebuild; V4.4 inherits the stages.  *)
(* Times are in units: a forced rebuild takes 4, so a ratio is in quarters   *)
(* and the member threshold of 0.65 lets a warm open take 2.                 *)

\* The store was opened from its derived image, or rebuilt beside it.
PublishedStage == <<Prop("OPEN", "published", 4), Prop("CHECKSUM", "published", 1)>>
ReopenSource ==
    <<Prop("SEQUENCE", "source", 1), Prop("CHECKSUM", "source", 1), Prop("BACKUP", "source", 1),
      Prop("CONTENT", "source", 1), Prop("OPEN", "forced", 4), Prop("MEDIAN", "forced", 4),
      Prop("CHECKSUM", "forced", 1), Prop("OPEN", "warm", 2), Prop("MEDIAN", "warm", 2),
      Prop("RATIO", "warm", 2), Prop("CHECKSUM", "warm", 1), SeenO("COLD", "restore", "FULL_FALLBACK"),
      SeenO("WARM", "restore", "COMPLETE_WARM"), Prop("CHECKSUM", "restore", 1),
      SeenO("COLD", "migrated", "FULL_FALLBACK"), Prop("CHECKSUM", "migrated", 1),
      Prop("CANONICAL", "source", 2), Prop("DERIVED", "source", 1), Prop("DIRECTORY", "source", 3),
      Prop("PEAK", "source", 3)>>
ReopenReplacement ==
    <<Prop("CHECKSUM", "primary", 1), Prop("LOADED", "structured", 3), Prop("REBUILT", "structured", 1),
      Prop("CHECKSUM", "structured", 1), Prop("LOADED", "text", 3), Prop("REBUILT", "text", 1),
      Prop("CHECKSUM", "text", 1), Prop("REBUILT", "catalog", 4), Prop("CHECKSUM", "catalog", 1),
      Prop("SEQUENCE", "wal", 2), Prop("CHECKSUM", "wal", 2), Prop("SEQUENCE", "lifecycle", 3),
      Prop("CHECKSUM", "lifecycle", 2), Prop("MEASURED_SECONDS", "replacement", 1),
      Prop("CANONICAL", "replacement", 2), Prop("DERIVED", "replacement", 1), Prop("DIRECTORY", "replacement", 3)>>

ReopenScript(p) ==
    <<Start("source", 1)>> \o PublishedStage \o ReopenSource
      \o (IF p = "cloud" THEN <<Stop("source", "deleted"), Start("replacement", 1)>> ELSE <<>>)
      \o ReopenReplacement \o <<Prop("CONTENT", "inspected", 1), Prop("BACKUP", "inspected", 1)>>
      \o (IF p = "cloud"
          THEN <<Stop("replacement", "deleted"), Stop("primary-disk", "deleted"), Stop("target-disk", "deleted"),
                 Stop("bundle", "deleted")>>
          ELSE <<Stop("source", "deleted")>>)

\* validate_properties: each median is a sample, the ratio is that of the
\* medians, every reopening shows the same documents, a lost component costs
\* its own rebuild only, and the mutations that follow are kept.
ReopenProperties(rows) ==
    /\ \A w \in {"forced", "warm"} : Value(rows, "MEDIAN", w) = Value(rows, "OPEN", w) /\ Value(rows, "OPEN", w) > 0
    /\ Value(rows, "OPEN", "published") > 0
    /\ Value(rows, "RATIO", "warm") * Value(rows, "MEDIAN", "forced") = 4 * Value(rows, "MEDIAN", "warm")
    /\ Value(rows, "BACKUP", "source") = Value(rows, "SEQUENCE", "source")
    /\ Passed(rows, SeenO("COLD", "restore", "FULL_FALLBACK"))
    /\ Passed(rows, SeenO("WARM", "restore", "COMPLETE_WARM"))
    /\ Passed(rows, SeenO("COLD", "migrated", "FULL_FALLBACK"))
    /\ Agree(rows, "CHECKSUM", {"published", "source", "forced", "warm", "restore", "migrated"})
    /\ \A w \in {"structured", "text"} : Exact(rows, Prop("LOADED", w, 3)) /\ Exact(rows, Prop("REBUILT", w, 1))
    /\ Exact(rows, Prop("REBUILT", "catalog", 4))
    /\ Agree(rows, "CHECKSUM", {"source", "primary", "structured", "text", "catalog"})
    /\ Agree(rows, "CHECKSUM", {"wal", "lifecycle"})
    /\ Value(rows, "CHECKSUM", "wal") # Value(rows, "CHECKSUM", "source")
    /\ Measured(rows, {"MEASURED_SECONDS"}, "replacement")

\* build_document: the independent inspection, and the canonical threshold.
ReopenDocument(p, rows) ==
    /\ ReopenProperties(rows)
    /\ Agree(rows, "CONTENT", {"source", "inspected"}) /\ Agree(rows, "BACKUP", {"source", "inspected"})
    /\ p = "cloud" => 100 * Value(rows, "RATIO", "warm") <= 65 * 4

\* validate_fast_reopen_bundle: bytes add up, the log moved past the backup
\* and the index lifecycle past the log; everything owned is gone.
ReopenBundle(p, rows) ==
    /\ ReopenDocument(p, rows)
    /\ \A w \in {"source", "replacement"} :
         Value(rows, "DIRECTORY", w) = Value(rows, "CANONICAL", w) + Value(rows, "DERIVED", w)
    /\ Value(rows, "PEAK", "source") >= Value(rows, "DIRECTORY", "source")
    /\ Value(rows, "SEQUENCE", "source") < Value(rows, "SEQUENCE", "wal")
    /\ Value(rows, "SEQUENCE", "wal") < Value(rows, "SEQUENCE", "lifecycle")
    /\ p = "cloud" => Gone(rows, {"source", "replacement", "primary-disk", "target-disk", "bundle"})

ReopenBreaches ==
    {Renumber(Seen("CHECKSUM", w), 3) :
        w \in {"published", "warm", "restore", "migrated", "structured", "catalog", "wal"}}
      \cup {Renumber(Seen("MEDIAN", "warm"), 1), Renumber(Seen("RATIO", "warm"), 1),
            Renumber(Seen("BACKUP", "source"), 2), Turn(Seen("COLD", "restore"), "COMPLETE_WARM"),
            Turn(Seen("WARM", "restore"), "PARTIAL_FALLBACK"), Renumber(Seen("REBUILT", "text"), 2),
            Renumber(Seen("REBUILT", "catalog"), 3), Renumber(Seen("CONTENT", "inspected"), 2)}

\* What only the final bundle check of V4.3 notices.
ReopenBundleBreaches(p) ==
    {Renumber(Seen("SEQUENCE", "lifecycle"), 2), Renumber(Seen("SEQUENCE", "wal"), 1),
     Renumber(Seen("DIRECTORY", "replacement"), 2), Renumber(Seen("PEAK", "source"), 2)}
      \cup (IF p = "local" THEN {}
            ELSE {Turn(Stop(w, "deleted"), "left") : w \in {"source", "primary-disk", "bundle"}})

\* V4.4: the same stages, beside the published 4.3 on the same machine; writes
\* and reopenings take 10 there and 12 here, within 1.35 of them.
FinalScript ==
    <<Prop("WRITE", "published43", 10), Prop("REOPEN", "published43", 10), Prop("SEMANTICS", "published43", 1),
      Prop("WRITE", "current", 12), Prop("REOPEN", "current", 12), Prop("SEMANTICS", "current", 1)>>
      \o ReopenScript("cloud")

FinalDocument(rows) ==
    /\ ReopenProperties(rows)
    /\ Agree(rows, "CONTENT", {"source", "inspected"}) /\ Agree(rows, "BACKUP", {"source", "inspected"})
    /\ Agree(rows, "SEMANTICS", {"published43", "current"})
    /\ \A k \in {"WRITE", "REOPEN"} :
         /\ Value(rows, k, "current") > 0 /\ Value(rows, k, "published43") > 0
         /\ 100 * Value(rows, k, "current") <= 135 * Value(rows, k, "published43")
    /\ Gone(rows, {"source", "replacement", "primary-disk", "target-disk", "bundle"})

FinalBreaches ==
    ReopenBreaches
      \cup {Renumber(Seen("SEMANTICS", "current"), 2), Renumber(Seen("WRITE", "current"), 14),
            Renumber(Seen("REOPEN", "current"), 14)}
      \cup {Turn(Stop(w, "deleted"), "left") : w \in {"replacement", "target-disk", "bundle"}}

-----------------------------------------------------------------------------
(* The members as cases of the matrix. *)

MemberCases ==
    {Case("v40", "probe"), Case("v40", "drill"), Case("v44", "cloud")}
      \cup {Case(v, p) : v \in {"v41", "v42", "v43"}, p \in Places}
MemberFamilies == {c.family : c \in MemberCases}

MemberScript(c) ==
    CASE c.family = "v41" -> OperationalScript(c.cut)
      [] c.family = "v42" -> MigrationScript(c.cut)
      [] c.family = "v43" -> ReopenScript(c.cut)
      [] c.family = "v44" -> FinalScript
      [] OTHER            -> IF c.cut = "probe" THEN DurableProbe ELSE DrillScript

MemberValid(c, rows) ==
    CASE c.family = "v41" -> OperationalDocument(c.cut, rows)
      [] c.family = "v42" -> MigrationDocument(c.cut, rows)
      [] c.family = "v43" -> ReopenBundle(c.cut, rows)
      [] c.family = "v44" -> FinalDocument(rows)
      [] OTHER            -> IF c.cut = "probe" THEN DurableMember(rows) ELSE DrillValid(rows)

MemberBreaches(c) ==
    CASE c.family = "v41" -> OperationalBreaches(c.cut)
      [] c.family = "v42" -> MigrationBreaches(c.cut)
      [] c.family = "v43" -> ReopenBreaches \cup ReopenBundleBreaches(c.cut)
      [] c.family = "v44" -> FinalBreaches
      [] OTHER            -> IF c.cut = "probe" THEN DurableBreaches ELSE DrillBreaches
=============================================================================
