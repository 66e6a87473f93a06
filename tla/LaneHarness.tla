---------------------------- MODULE LaneHarness ----------------------------
(***************************************************************************)
(* The local harnesses and frozen records of the durable release lanes: the *)
(* crash scaffolds and the cutover of V4.2 and V4.3, and V4.4's hardening   *)
(* probe, replacement probe, local matrix and reproducible artifacts.  A    *)
(* row is what a process or a file showed; its number stands for a digest,  *)
(* a sequence or a count.                                                   *)
(***************************************************************************)
EXTENDS LaneMembers

-----------------------------------------------------------------------------
(* The crash scaffolds: a child dies at a barrier before anything is written *)
(* but the source, and another process looks at what is left.                *)

ScaffoldExits(v) == IF v = "v42" THEN {"88", "-9"} ELSE {"89", "-9"}

\* run_case of both scaffolds: barrier, digest, death, separate verifier,
\* digest again, removal.
ScaffoldScript(v, exit) ==
    <<Start("child", 1), SeenO("BARRIER", "child", "NOTHING_CREATED"), Prop("DIGEST", "before", 1),
      Stop("child", exit), SeenO("VERIFIED", "source", "VALID"), SeenO("VERIFIED", "target", "ABSENT"),
      Prop("DIGEST", "after", 1), SeenO("CLEANED", "workspace", "PASS")>>

ScaffoldValid(exit, rows) ==
    /\ Exact(rows, SeenO("BARRIER", "child", "NOTHING_CREATED"))
    /\ Exact(rows, Stop("child", exit))
    /\ Agree(rows, "DIGEST", {"before", "after"})
    /\ Exact(rows, SeenO("VERIFIED", "source", "VALID")) /\ Exact(rows, SeenO("VERIFIED", "target", "ABSENT"))

\* V4.2 checks that source and target are gone; V4.3 only removes the store.
MigrationScaffold(exit, rows) == ScaffoldValid(exit, rows) /\ Exact(rows, SeenO("CLEANED", "workspace", "PASS"))

ScaffoldBreaches(v) ==
    {Turn(Seen("BARRIER", "child"), "CREATED"), Turn(Stop("child", "-9"), "0"),
     Turn(Seen("VERIFIED", "source"), "CHANGED"), Turn(Seen("VERIFIED", "target"), "PRESENT"),
     Renumber(Seen("DIGEST", "after"), 2)}
      \cup (IF v = "v42" THEN {Turn(Seen("CLEANED", "workspace"), "FAIL")} ELSE {})

\* lifecycle: the cutover window.  The target goes on, the source stays.
CutoverScript ==
    <<SeenO("PREPARED", "source", "PASS"), Prop("DIGEST", "before", 1), SeenO("APPLIED", "target", "PASS"),
      Prop("DIGEST", "migrated", 2), SeenO("EXERCISED", "target", "PASS"), Prop("DIGEST", "after", 1),
      Prop("DIGEST", "continued", 3)>>
CutoverValid(rows) ==
    /\ Exact(rows, SeenO("PREPARED", "source", "PASS")) /\ Exact(rows, SeenO("APPLIED", "target", "PASS"))
    /\ Exact(rows, SeenO("EXERCISED", "target", "PASS"))
    /\ Agree(rows, "DIGEST", {"before", "after"})
    /\ Value(rows, "DIGEST", "migrated") # Value(rows, "DIGEST", "continued")
CutoverBreaches ==
    {Turn(Seen("EXERCISED", "target"), "FAIL"), Turn(Seen("APPLIED", "target"), "FAIL"),
     Renumber(Seen("DIGEST", "after"), 2), Renumber(Seen("DIGEST", "continued"), 2)}

-----------------------------------------------------------------------------
(* The failure record of the V4.0 harness: a case that fails once it owns    *)
(* its workspace removes the engine directory and retains a FAIL bundle that *)
(* claims no oracle, no inspection and no recovery.                          *)

FailedScript ==
    <<Seen("WORKSPACE", "harness"), SeenO("PRIMARY_FAILURE", "harness", "RECORDED"),
      Seen("CLEANED", "engine"), SeenO("BUNDLE", "evidence", "FAIL"), SeenO("ORACLE", "evidence", "NOT_EVALUATED")>>
FailedValid(rows) ==
    /\ Exact(rows, SeenO("BUNDLE", "evidence", "FAIL")) /\ Exact(rows, SeenO("ORACLE", "evidence", "NOT_EVALUATED"))
    /\ Before(rows, Seen("PRIMARY_FAILURE", "harness"), Seen("CLEANED", "engine"))
    /\ Before(rows, Seen("WORKSPACE", "harness"), Seen("BUNDLE", "evidence"))   \* workspace_owned
FailedBreaches ==
    {Turn(Seen("BUNDLE", "evidence"), "PASS"), Turn(Seen("ORACLE", "evidence"), "MATCHED"),
     Drop(Seen("WORKSPACE", "harness"))}

-----------------------------------------------------------------------------
(* V4.4 hardening: a dense workload in one process, counted against a frozen *)
(* cadence (2000 writes, 4 checkpoints, 2 backups, final sequence 2020, here *)
(* 4, 2, 1 and 6) and bounds of time, heap and directory.                    *)

Cadence == [WRITES |-> 4, CHECKPOINTS |-> 2, BACKUPS |-> 1, SEQUENCE |-> 6]
HeapBound == 4
LongestRun == 3

HardeningScript ==
    <<Start("probe", 1), Prop("DURATION", "probe", 2), Prop("CONCURRENT", "probe", 2), Prop("READS", "probe", 3),
      Prop("WRITES", "probe", 4), Prop("CHECKPOINTS", "probe", 2), Prop("BACKUPS", "probe", 1),
      Prop("SEQUENCE", "probe", 6), Prop("HEAP_MAX", "probe", 4), Prop("HEAP_USED", "probe", 3),
      Prop("PEAK", "probe", 3), Prop("FINAL", "probe", 2), Prop("REOPEN", "first", 1), Prop("REOPEN", "second", 2),
      Prop("REOPEN", "third", 3), Prop("MEDIAN", "reopen", 2), Prop("MAXIMUM", "reopen", 3),
      Prop("ORACLE", "before", 1), Prop("ORACLE", "after", 2), Stop("probe", "0"), SeenO("CLEANED", "probe", "PASS"),
      SeenO("DECISION", "evidence", "NO_MEASURED_REGRESSION")>>

\* validate_properties.
HardeningProperties(rows) ==
    LET v(k) == Value(rows, k, "probe")
        sample(w) == Value(rows, "REOPEN", w)
    IN /\ Measured(rows, {"DURATION", "CONCURRENT", "READS", "WRITES", "HEAP_MAX", "HEAP_USED", "PEAK", "FINAL"}, "probe")
       /\ v("DURATION") \in 1..LongestRun /\ v("CONCURRENT") >= v("DURATION")
       /\ \A k \in DOMAIN Cadence : v(k) = Cadence[k]
       /\ v("HEAP_MAX") <= HeapBound /\ v("HEAP_USED") <= v("HEAP_MAX") /\ v("PEAK") >= v("FINAL")
       /\ 0 < sample("first") /\ sample("first") <= sample("second") /\ sample("second") <= sample("third")
       /\ Value(rows, "MEDIAN", "reopen") = sample("second")
       /\ Value(rows, "MAXIMUM", "reopen") = sample("third")
       /\ Value(rows, "ORACLE", "before") # Value(rows, "ORACLE", "after")

\* run: the probe's exit, its properties, its removal.
HardeningRun(rows) ==
    /\ Exact(rows, Stop("probe", "0")) /\ HardeningProperties(rows)
    /\ Exact(rows, SeenO("CLEANED", "probe", "PASS"))
\* validate_evidence: nothing was optimised on the way.
HardeningEvidence(rows) ==
    /\ Exact(rows, SeenO("DECISION", "evidence", "NO_MEASURED_REGRESSION"))
    /\ \A k \in {"WRITES", "SEQUENCE"} : Value(rows, k, "probe") = Cadence[k]

HardeningBreaches ==
    {Turn(Stop("probe", "0"), "1"), Renumber(Seen("CONCURRENT", "probe"), 1), Renumber(Seen("DURATION", "probe"), 4),
     Renumber(Seen("WRITES", "probe"), 3), Renumber(Seen("CHECKPOINTS", "probe"), 1),
     Renumber(Seen("SEQUENCE", "probe"), 5), Renumber(Seen("HEAP_MAX", "probe"), 5),
     Renumber(Seen("HEAP_USED", "probe"), 5), Renumber(Seen("PEAK", "probe"), 1),
     Renumber(Seen("REOPEN", "first"), 3), Renumber(Seen("MEDIAN", "reopen"), 1), Renumber(Seen("MAXIMUM", "reopen"), 2),
     Renumber(Seen("ORACLE", "after"), 1), Turn(Seen("CLEANED", "probe"), "FAIL"),
     Turn(Seen("DECISION", "evidence"), "OPTIMIZED")}

-----------------------------------------------------------------------------
(* V4.4 replacement probe: the source is gone before the backup is restored, *)
(* and a backup nobody can read publishes nothing.                           *)

ReplacementScript ==
    <<SeenO("PRODUCED", "success", "0"), Prop("BACKUP", "before", 1), Stop("source", "deleted"),
      Stop("restored", "deleted"), SeenO("RECOVERED", "success", "0"), Prop("CONTINUED", "success", 3),
      Prop("BACKUP", "after", 1), SeenO("PRODUCED", "denied", "0"), SeenO("READABLE", "denied", "NO"),
      SeenO("RECOVERED", "denied", "1"), SeenO("PUBLISHED", "denied", "NO"), SeenO("CLEANED", "workspace", "PASS")>>
ReplacementValid(rows) ==
    /\ AllPassed(rows, {SeenO("PRODUCED", "success", "0"), SeenO("PRODUCED", "denied", "0"),
                        SeenO("RECOVERED", "success", "0"), SeenO("READABLE", "denied", "NO"),
                        SeenO("PUBLISHED", "denied", "NO"), SeenO("CLEANED", "workspace", "PASS")})
    /\ Gone(rows, {"source", "restored"})
    /\ \A w \in {"source", "restored"} : Before(rows, Stop(w, "deleted"), Seen("RECOVERED", "success"))
    /\ Exact(rows, Prop("CONTINUED", "success", 3)) /\ Agree(rows, "BACKUP", {"before", "after"})
    /\ Some(rows, Seen("RECOVERED", "denied")) /\ ~Passed(rows, SeenO("RECOVERED", "denied", "0"))
ReplacementBreaches ==
    {Turn(Seen("RECOVERED", "success"), "1"), Turn(Seen("RECOVERED", "denied"), "0"),
     Turn(Seen("PUBLISHED", "denied"), "YES"), Turn(Seen("READABLE", "denied"), "YES"),
     Turn(Stop("source", "deleted"), "left"), Early(Seen("RECOVERED", "success")),
     Renumber(Seen("CONTINUED", "success"), 2), Renumber(Seen("BACKUP", "after"), 2)}

-----------------------------------------------------------------------------
(* V4.4 local matrix: frozen cases bound to gates, one receipt per gate, and *)
(* an admission record that names the matrix's boundaries and admits         *)
(* nothing.  What was observed of a case is written from what was expected;  *)
(* only the gates' receipts tell the run.                                    *)

MatrixCases == [full |-> "PASS", torn |-> "FAIL_CLOSED", stale |-> "FALLBACK"]
GateOf      == [full |-> "build", torn |-> "crash", stale |-> "crash"]
Gates       == {GateOf[c] : c \in DOMAIN GateOf}

\* validate: families covered, oracles independent, results known.
FrozenMatrix(rows) ==
    \A c \in DOMAIN MatrixCases :
        Exact(rows, SeenO("FROZEN", c, MatrixCases[c])) /\ Exact(rows, SeenO("ORACLE", c, "INDEPENDENT"))

\* load_execution_map: exactly the frozen cases, each bound, no gate unbound.
ExecutionMap(rows) ==
    /\ FrozenMatrix(rows)
    /\ \A c \in DOMAIN GateOf : Exact(rows, SeenO("BOUND", c, GateOf[c]))
    /\ {rows[i].who : i \in {j \in DOMAIN rows : rows[j].ev = "RECEIPT"}} = Gates

\* _receipts: exactly one per gate, saying PASS.
GateReceipts(rows) == \A g \in Gates : Exact(rows, SeenO("RECEIPT", g, "PASS"))

\* record_matrix: frozen cases, map, receipts, then the results.
MatrixScript ==
    LET per(ev, o(_)) == <<SeenO(ev, "full", o("full")), SeenO(ev, "torn", o("torn")), SeenO(ev, "stale", o("stale"))>>
        boundary(c) == IF MatrixCases[c] = "PASS" THEN "NONE" ELSE "EXPECTED_BOUNDARY"
    IN per("FROZEN", LAMBDA c : MatrixCases[c]) \o per("ORACLE", LAMBDA c : "INDEPENDENT")
         \o per("BOUND", LAMBDA c : GateOf[c])
         \o <<SeenO("RECEIPT", "build", "PASS"), SeenO("RECEIPT", "crash", "PASS")>>
         \o per("OBSERVED", LAMBDA c : MatrixCases[c]) \o per("CLASSIFIED", boundary)
         \o <<SeenO("DECISION", "admission", "ZERO_CHANGE"), SeenO("PRODUCTION", "tree", "UNCHANGED")>>

\* validate_matrix_evidence.
MatrixEvidence(rows) ==
    \A c \in DOMAIN MatrixCases :
        /\ Exact(rows, SeenO("OBSERVED", c, MatrixCases[c]))
        /\ Exact(rows, SeenO("CLASSIFIED", c, IF MatrixCases[c] = "PASS" THEN "NONE" ELSE "EXPECTED_BOUNDARY"))

\* admission.validate: the boundaries named are the matrix's.
AdmittedNothing(rows) ==
    /\ Exact(rows, SeenO("DECISION", "admission", "ZERO_CHANGE"))
    /\ ExecutionMap(rows)
\* validate_production_delta: neither the tree nor the commit changes src/main.
NoProductionDelta(rows) == Exact(rows, SeenO("PRODUCTION", "tree", "UNCHANGED"))

MatrixBreaches ==
    {Turn(Seen("RECEIPT", "crash"), "FAIL"), Drop(Seen("RECEIPT", "build")),
     Add(Seen("RECEIPT", "build"), SeenO("RECEIPT", "cloud", "PASS")), Turn(Seen("OBSERVED", "torn"), "PASS"),
     Turn(Seen("CLASSIFIED", "stale"), "NONE"), Turn(Seen("CLASSIFIED", "full"), "EXPECTED_BOUNDARY"),
     Turn(Seen("ORACLE", "stale"), "SELF"), Drop(Seen("BOUND", "torn")),
     Turn(Seen("DECISION", "admission"), "ADMITTED"), Turn(Seen("PRODUCTION", "tree"), "CHANGED")}

-----------------------------------------------------------------------------
(* V4.4 artifacts: two clean workspaces build the same bytes with the pinned *)
(* toolchain, and the candidate manifest is theirs.                          *)

Jars == {"core", "processor"}       \* six in the code
ArtifactScript ==
    <<SeenO("TOOLCHAIN", "manifest", "PINNED"), SeenO("PLUGINS", "pom", "SAME"), Prop("core", "first", 1),
      Prop("processor", "first", 2), Prop("core", "second", 1), Prop("processor", "second", 2),
      SeenO("BINDING", "record", "PINNED"), Prop("core", "manifest", 1), Prop("processor", "manifest", 2),
      Prop("core", "build", 1), Prop("processor", "build", 2)>>
\* toolchain_manifest.validate.
PinnedToolchain(rows) ==
    Exact(rows, SeenO("TOOLCHAIN", "manifest", "PINNED")) /\ Exact(rows, SeenO("PLUGINS", "pom", "SAME"))
\* write_record and validate_record.
Reproducible(rows) == PinnedToolchain(rows) /\ \A j \in Jars : Agree(rows, j, {"first", "second"})
RecordValid(rows)  == Exact(rows, SeenO("BINDING", "record", "PINNED")) /\ PinnedToolchain(rows)
\* read_manifest: exactly the jars, once each, in order; validate_hashes.
ManifestExact(rows) ==
    /\ \A j \in Jars : One(rows, Seen(j, "manifest"))
    /\ InOrder(rows, <<Seen("core", "manifest"), Seen("processor", "manifest")>>)
ManifestMatches(rows, w) == \A j \in Jars : Agree(rows, j, {"manifest", w})
ArtifactValid(rows) ==
    /\ Reproducible(rows) /\ RecordValid(rows) /\ ManifestExact(rows)
    /\ ManifestMatches(rows, "first") /\ ManifestMatches(rows, "build")
ArtifactBreaches ==
    {Renumber(Seen("core", "second"), 3), Renumber(Seen("processor", "build"), 3), Renumber(Seen("core", "manifest"), 3),
     Early(Seen("processor", "manifest")), Add(Seen("core", "manifest"), Prop("core", "manifest", 1)),
     Drop(Seen("core", "build")), Turn(Seen("BINDING", "record"), "OTHER"), Turn(Seen("PLUGINS", "pom"), "OTHER"),
     Turn(Seen("TOOLCHAIN", "manifest"), "FLOATING")}

-----------------------------------------------------------------------------
(* The frozen logical fixtures of V4.2 and V4.3. *)

\* classify: a derived image never masks a canonical failure; before minor 2
\* there is none; a catalog that is not valid says why; a valid one has four
\* components, all of them or only some admissible.
Classified(canonical, minor, catalog, admissible) ==
    CASE canonical # "VALID"  -> "REFUSED"
      [] minor < 2            -> "NOT_APPLICABLE"
      [] minor > 2            -> "REFUSED"
      [] catalog # "VALID"    -> catalog
      [] OTHER                -> IF admissible = 4 THEN "VALID" ELSE "PARTIAL"

DerivedScript ==
    <<SeenO("EXPECTED", "old", Classified("VALID", 1, "ABSENT", 0)), SeenO("EXPECTED", "absent", Classified("VALID", 2, "ABSENT", 0)),
      SeenO("EXPECTED", "stale", Classified("VALID", 2, "STALE", 0)), SeenO("EXPECTED", "some", Classified("VALID", 2, "VALID", 3)),
      SeenO("EXPECTED", "all", Classified("VALID", 2, "VALID", 4))>>
\* validate: every case is classified as it expects.
DerivedValid(rows) ==
    AllPassed(rows, {SeenO("EXPECTED", "old", "NOT_APPLICABLE"), SeenO("EXPECTED", "absent", "ABSENT"),
                     SeenO("EXPECTED", "stale", "STALE"), SeenO("EXPECTED", "some", "PARTIAL"),
                     SeenO("EXPECTED", "all", "VALID")})
DerivedBreaches ==
    {Turn(Seen("EXPECTED", "some"), "VALID"), Turn(Seen("EXPECTED", "stale"), "VALID"),
     Turn(Seen("EXPECTED", "old"), "ABSENT"), Drop(Seen("EXPECTED", "all"))}

\* load_fixture: source, target, plan and backup of one identity migration.
FixtureScript ==
    <<Prop("RECORDS", "source", 1), Prop("RECORDS", "target", 1), Prop("SLOT", "source", 1), Prop("SLOT", "target", 1),
      Prop("HISTORY", "source", 1), Prop("HISTORY", "target", 2), Prop("SEQUENCE", "source", 1),
      Prop("SEQUENCE", "target", 1), Prop("SEQUENCE", "plan", 1), Prop("SEQUENCE", "backup", 1),
      Prop("OLD_HISTORY", "plan", 1), Prop("NEW_HISTORY", "plan", 2), Prop("NEW_HISTORY", "backup", 2),
      SeenO("BYTES", "source", "PUBLISHED"), SeenO("BYTES", "target", "PENDING")>>
\* validate_documents and require_records.
FixtureValid(rows) ==
    /\ Agree(rows, "RECORDS", {"source", "target"})
    /\ \A w \in {"source", "target"} : Measured(rows, {"SLOT"}, w)
    /\ Agree(rows, "SEQUENCE", {"source", "target", "plan", "backup"})
    /\ Value(rows, "HISTORY", "source") # Value(rows, "HISTORY", "target")
    /\ Value(rows, "OLD_HISTORY", "plan") = Value(rows, "HISTORY", "source")
    /\ \A w \in {"plan", "backup"} : Value(rows, "NEW_HISTORY", w) = Value(rows, "HISTORY", "target")
    /\ Exact(rows, SeenO("BYTES", "source", "PUBLISHED")) /\ Exact(rows, SeenO("BYTES", "target", "PENDING"))
FixtureBreaches ==
    {Renumber(Seen("RECORDS", "target"), 2), Renumber(Seen("HISTORY", "target"), 1), Renumber(Seen("SEQUENCE", "backup"), 2),
     Renumber(Seen("OLD_HISTORY", "plan"), 2), Renumber(Seen("NEW_HISTORY", "backup"), 1),
     Add(Seen("SLOT", "source"), Prop("SLOT", "source", 1)), Turn(Seen("BYTES", "target"), "PUBLISHED")}

-----------------------------------------------------------------------------
(* The harnesses as cases of the matrix. *)

LocalCases ==
    {Case("scaffold42", x) : x \in ScaffoldExits("v42")} \cup {Case("scaffold43", x) : x \in ScaffoldExits("v43")}
      \cup {Case("cutover", "catalog"), Case("failed", "v40"), Case("hardening44", "dense"),
            Case("replacement44", "probe"), Case("matrix44", "local"), Case("artifacts44", "canonical"),
            Case("derived43", "fixture"), Case("fixture42", "fixture")}
LocalFamilies == {c.family : c \in LocalCases}

LocalScript(c) ==
    CASE c.family = "scaffold42"    -> ScaffoldScript("v42", c.cut)
      [] c.family = "scaffold43"    -> ScaffoldScript("v43", c.cut)
      [] c.family = "cutover"       -> CutoverScript
      [] c.family = "failed"        -> FailedScript
      [] c.family = "hardening44"   -> HardeningScript
      [] c.family = "replacement44" -> ReplacementScript
      [] c.family = "matrix44"      -> MatrixScript
      [] c.family = "artifacts44"   -> ArtifactScript
      [] c.family = "derived43"     -> DerivedScript
      [] c.family = "fixture42"     -> FixtureScript

LocalValid(c, rows) ==
    CASE c.family = "scaffold42"    -> MigrationScaffold(c.cut, rows)
      [] c.family = "scaffold43"    -> ScaffoldValid(c.cut, rows)
      [] c.family = "cutover"       -> CutoverValid(rows)
      [] c.family = "failed"        -> FailedValid(rows)
      [] c.family = "hardening44"   -> HardeningRun(rows) /\ HardeningEvidence(rows)
      [] c.family = "replacement44" -> ReplacementValid(rows)
      [] c.family = "matrix44"      -> /\ ExecutionMap(rows) /\ GateReceipts(rows) /\ MatrixEvidence(rows)
                                       /\ AdmittedNothing(rows) /\ NoProductionDelta(rows)
      [] c.family = "artifacts44"   -> ArtifactValid(rows)
      [] c.family = "derived43"     -> DerivedValid(rows)
      [] c.family = "fixture42"     -> FixtureValid(rows)

LocalBreaches(c) ==
    CASE c.family = "scaffold42"    -> ScaffoldBreaches("v42")
      [] c.family = "scaffold43"    -> ScaffoldBreaches("v43")
      [] c.family = "cutover"       -> CutoverBreaches
      [] c.family = "failed"        -> FailedBreaches
      [] c.family = "hardening44"   -> HardeningBreaches
      [] c.family = "replacement44" -> ReplacementBreaches
      [] c.family = "matrix44"      -> MatrixBreaches
      [] c.family = "artifacts44"   -> ArtifactBreaches
      [] c.family = "derived43"     -> DerivedBreaches
      [] c.family = "fixture42"     -> FixtureBreaches
=============================================================================
