------------------------- MODULE BenchmarkEvidence -------------------------
(***************************************************************************)
(* What scripts/cloud/benchmark_v2.py makes of one raw benchmark run: the   *)
(* checks a run directory and its orchestration record must pass, the       *)
(* metrics it yields, the key two runs must share to be members of one set, *)
(* and the aggregate of the members.                                        *)
(*                                                                         *)
(* A check is an operator whose value is the exit code of the error it      *)
(* raises, Ok when it raises none.  A file is its name and whether its      *)
(* content still has the digest the run recorded for it; a measured value   *)
(* is a small number and an unavailable one is NaN.                         *)
(***************************************************************************)
EXTENDS Integers, Sequences, SequencesExt, FiniteSetsExt

CONSTANT None  \* an absent value

-----------------------------------------------------------------------------
(* Exit codes *)

Ok == 0
Config == 2
Invalid == 80
Unsupported == 81
Contradiction == 82

InfrastructureExits == {10, 20, 40, 50, 60, 70}
EvidenceExits == {Invalid, Unsupported, Contradiction}

Raise(bad, code) == IF bad THEN code ELSE Ok

\* Checks run in order and the first one that raises decides the exit.
FirstError(checks) ==
  LET failed == SelectSeq(checks, LAMBDA c : c # Ok)
  IN  IF failed = <<>> THEN Ok ELSE Head(failed)

NaN == -1

-----------------------------------------------------------------------------
(* Raw evidence: files, orchestration record, environment *)

Required == {"status", "metadata", "environment"}

\* Mutant: the list is compared with the files, their contents are not.
VerifyListOnly(raw) ==
  Raise(raw.listed # raw.files \/ ~(Required \subseteq raw.listed), Invalid)

VerifyRawChecksums(raw) ==
  Raise(\/ raw.listed # raw.files
        \/ raw.torn \cap raw.listed # {}
        \/ ~(Required \subseteq raw.listed), Invalid)

SupportedSchemas == {0, 1}
CanonicalModes == {"all", "final-v34"}
Modes == CanonicalModes \cup {"quick"}

ValidateMetadata(raw) ==
  FirstError(<<Raise(raw.schema \notin SupportedSchemas, Unsupported),
               Raise(raw.schema = 1 /\ raw.suite = None, Invalid),
               Raise(raw.commit = None, Invalid),
               Raise(raw.mode \notin Modes, Unsupported),
               Raise(raw.status.mode # raw.mode, Invalid)>>)

\* The record must describe this run, and a successful, finalized one.
ValidateOrchestration(raw, record) ==
  Raise(\/ record.instance # raw.instance \/ record.commit # raw.commit
        \/ record.mode # raw.mode \/ record.provisioning # raw.provisioning
        \/ record.result # raw.id
        \/ record.stage # "FINISHED" \/ record.primaryExit # 0
        \/ ~record.recovered \/ record.preempted \/ ~record.cleaned
        \/ raw.status.status # "PASS", Invalid)

StrictEnvironment(raw) == raw.schema = 1

EnvironmentFromMetadata(raw) ==
  Raise(StrictEnvironment(raw) /\ raw.host = None, Invalid)

\* Total memory enters the fingerprint rounded to a unit of four.
NormalizedMemory(bytes) == (bytes + 2) \div 4

EnvironmentFingerprint(raw) ==
  IF StrictEnvironment(raw)
  THEN <<raw.host, NormalizedMemory(raw.memory), raw.provisioning>> ELSE None

-----------------------------------------------------------------------------
(* JMH, soak and final-suite evidence *)

FiniteNumber(value) == Raise(value = NaN, Invalid)

\* A run without collections has no gc.time; the time is then zero.
NormalizeOptionalGcTime(entry) ==
  IF entry.gcTime = None /\ entry.gcCount = 0 THEN [entry EXCEPT !.gcTime = 0] ELSE entry

GcTimeError(entry) ==
  Raise(entry.gcTime = None /\ entry.gcCount # 0, Invalid)

EventCount(rawData) ==
  FoldSeq(LAMBDA v, total : total + v, 0, FlattenSeq(rawData))

\* The queue maximum is taken over forks and iterations; the reported score
\* of an event counter is their sum.
JmhEventMaximum(metric, forks, iterations) ==
  [error |-> FirstError(
     <<Raise(forks <= 0 \/ iterations <= 0, Invalid),
       Raise(Len(metric.rawData) # forks, Invalid),
       Raise(\E f \in DOMAIN metric.rawData :
               \/ Len(metric.rawData[f]) # iterations
               \/ \E i \in DOMAIN metric.rawData[f] : metric.rawData[f][i] < 0, Invalid),
       FiniteNumber(metric.score),
       Raise(metric.score # EventCount(metric.rawData), Invalid)>>),
   value |-> Max({0} \cup UNION {Range(metric.rawData[f]) : f \in DOMAIN metric.rawData})]

JmhConfiguration(entry, raw) ==
  Raise(\/ entry.forks < 0 \/ entry.iterations < 0
        \/ raw.schema = 1 /\ (entry.forks # raw.forks \/ entry.iterations # raw.iterations),
        Invalid)

SupportedWorkloads == {"document-scale", "concurrency"}

ExtractJmhEntry(entry, raw) ==
  FirstError(<<Raise(entry.workload \notin SupportedWorkloads, Unsupported),
               JmhConfiguration(entry, raw),
               Raise(entry.mode \notin {"avgt", "sample", "thrpt"}, Unsupported),
               GcTimeError(entry),
               FiniteNumber(entry.score),
               JmhEventMaximum(entry.queue, entry.forks, entry.iterations).error,
               Raise(entry.mode = "sample" /\ entry.percentiles = {}, Invalid)>>)

Metric(workload, name, statistic, value, direction) ==
  [id |-> <<workload, name, statistic>>, value |-> value, direction |-> direction]

MetricDirection(entry) == IF entry.mode = "thrpt" THEN "higher" ELSE "lower"

JmhMetrics(entry) ==
  <<Metric(entry.workload, "primary", entry.mode, entry.score, MetricDirection(entry)),
    Metric(entry.workload, "gc.time", "gc_time", NormalizeOptionalGcTime(entry).gcTime,
           "diagnostic"),
    Metric(entry.workload, "writerQueueMaximum", "maximum",
           JmhEventMaximum(entry.queue, entry.forks, entry.iterations).value, "lower")>>
  \o SetToSeq({Metric(entry.workload, "primary", <<"percentile", p>>, entry.score, "lower") :
                 p \in IF entry.mode = "sample" THEN entry.percentiles ELSE {}})

ExtractSoak(raw) ==
  Raise(raw.soak # None /\ (~raw.soak.configured \/ raw.soak.status # "PASS"
                            \/ raw.soak.errors # 0), Invalid)

SoakMetrics(raw) ==
  IF raw.soak = None THEN <<>>
  ELSE <<Metric("soak", "throughput", "throughput", raw.soak.throughput, "higher"),
         Metric("soak", "errors", "count", raw.soak.errors, "categorical")>>

FinalAxes == {"long-text", "high-frequency"}
FinalCells == {1, 4} \X {1, 100}
FinalWindows(suite) == suite.seconds \div 900

\* The closed shape of the final suite: its configuration, five cold starts,
\* every corpus axis and burst cell, and one row for each window in order.
ExtractFinalV34(raw) ==
  FirstError(
    <<Raise((raw.mode = "final-v34") # (raw.final # None), Invalid),
      IF raw.final = None THEN Ok
      ELSE LET suite == raw.final
           IN FirstError(
                <<Raise(suite.seconds \notin {1800, 7200}, Invalid),
                  Raise(suite.summary # <<"PASS", suite.seconds>>, Invalid),
                  Raise(suite.cold # [i \in 1..5 |-> "SUCCESS"], Invalid),
                  Raise(suite.axes # FinalAxes, Invalid),
                  Raise(suite.cells # FinalCells, Invalid),
                  Raise(suite.longRun # "SUCCESS", Invalid),
                  Raise(suite.windows # [i \in 1..FinalWindows(suite) |-> i - 1], Invalid)>>)>>)

FinalMetrics(raw) ==
  IF raw.final = None THEN <<>>
  ELSE [i \in DOMAIN raw.final.windows |->
          Metric("v34-long-window", <<"read_ops", raw.final.windows[i]>>, "count",
                 raw.final.reads, "higher")]
       \o <<Metric("v34-cold", "checksum", "consensus", raw.final.checksum, "categorical")>>

-----------------------------------------------------------------------------
(* Presets and derivation *)

CanonicalPresets ==
  [p \in {"production-all-v1", "final-v34-v1"} |->
     IF p = "final-v34-v1" THEN [mode |-> "final-v34", jmh |-> FALSE, soak |-> FALSE]
                           ELSE [mode |-> "all", jmh |-> TRUE, soak |-> TRUE]]

RankedConfigurations(raw) == {<<e.workload, e.mode>> : e \in Range(raw.jmh)}

\* No workload missing, none twice.
ValidateRankedConfigs(raw) ==
  Raise(\/ RankedConfigurations(raw) # {<<"document-scale", "avgt">>, <<"concurrency", "thrpt">>}
        \/ Len(raw.jmh) # Cardinality(RankedConfigurations(raw)), Invalid)

ValidateBenchmarkPreset(raw) ==
  IF raw.preset = None THEN Ok
  ELSE IF raw.preset \notin DOMAIN CanonicalPresets THEN Unsupported
  ELSE LET preset == CanonicalPresets[raw.preset]
       IN FirstError(
            <<Raise(raw.mode # preset.mode, Invalid),
              Raise(preset.jmh # (raw.jmh # <<>>), Invalid),
              Raise(preset.soak # (raw.soak # None), Invalid),
              IF preset.jmh THEN ValidateRankedConfigs(raw) ELSE Ok>>)

ExtractMetrics(raw) ==
  FlattenSeq([i \in DOMAIN raw.jmh |-> JmhMetrics(raw.jmh[i])])
    \o SoakMetrics(raw) \o FinalMetrics(raw)

RejectDuplicateMetrics(metrics) ==
  Raise(\E i, j \in DOMAIN metrics : i < j /\ metrics[i].id = metrics[j].id, Contradiction)

ThreadGroups(raw) ==
  LET observed == {raw.jmh[i].group : i \in DOMAIN raw.jmh} \ {None}
  IN  Raise(observed # {} /\ observed # raw.groups, Invalid)

CanonicalReasons(raw, record) ==
  {r \in {"schema", "environment", "provisioning", "tree", "cleanup", "mode", "preset"} :
     CASE r = "schema"       -> raw.schema # 1
       [] r = "environment"  -> ~StrictEnvironment(raw)
       [] r = "provisioning" -> raw.provisioning # "standard"
       [] r = "tree"         -> raw.dirty
       [] r = "cleanup"      -> ~record.cleanupAttempted
       [] r = "mode"         -> raw.mode \notin CanonicalModes
       [] r = "preset"       -> raw.preset = None}

DeriveManifest(raw, record, profile) ==
  FirstError(
    <<VerifyRawChecksums(raw),
      ValidateMetadata(raw),
      Raise(profile = "canonical" /\ raw.mode \notin CanonicalModes, Config),
      ValidateOrchestration(raw, record),
      EnvironmentFromMetadata(raw)>>
    \o [i \in DOMAIN raw.jmh |-> ExtractJmhEntry(raw.jmh[i], raw)]
    \o <<ExtractSoak(raw),
         ExtractFinalV34(raw),
         ValidateBenchmarkPreset(raw),
         RejectDuplicateMetrics(ExtractMetrics(raw)),
         Raise(ExtractMetrics(raw) = <<>>, Unsupported),
         ThreadGroups(raw),
         Raise(profile = "canonical" /\ CanonicalReasons(raw, record) # {}, Invalid)>>)

-----------------------------------------------------------------------------
(* Membership of a set *)

\* The manifest of a run that passed every check.
Manifest(raw, record, profile) ==
  [status |-> IF profile = "canonical" /\ CanonicalReasons(raw, record) = {}
              THEN "VALID_CANONICAL_MEMBER" ELSE "VALID_EXPERIMENT",
   commit |-> raw.commit, mode |-> raw.mode, preset |-> raw.preset,
   provisioning |-> raw.provisioning]

\* Only what the plan froze is compared.
ValidateMemberAgainstPlan(plan, manifest) ==
  Raise(\/ manifest.status # IF plan.profile = "canonical" THEN "VALID_CANONICAL_MEMBER"
                                                           ELSE "VALID_EXPERIMENT"
        \/ manifest.commit # plan.commit \/ manifest.mode # plan.mode
        \/ manifest.preset # plan.preset \/ manifest.provisioning # plan.provisioning, Invalid)

MetricSignature(metric) == <<metric.id, metric.direction>>

MemberCompatibilityKey(raw) ==
  [environment |-> EnvironmentFingerprint(raw),
   configuration |-> <<raw.mode, raw.preset, RankedConfigurations(raw), raw.groups>>,
   metrics |-> {MetricSignature(m) : m \in Range(ExtractMetrics(raw))},
   source |-> raw.commit,
   suite |-> raw.suite]

MemberCompatibilityDifferences(reference, candidate) ==
  {k \in DOMAIN reference : reference[k] # candidate[k]}

\* Twice the median, so that an even number of values needs no fraction.
TwiceMedian(values) ==
  LET ordered == SortSeq(values, <)
      middle == Len(ordered) \div 2
  IN  IF Len(ordered) % 2 = 1 THEN 2 * ordered[middle + 1]
                              ELSE ordered[middle] + ordered[middle + 1]

MetricValue(raw, id) ==
  (CHOOSE m \in Range(ExtractMetrics(raw)) : m.id = id).value

AggregateMemberMetrics(raws) ==
  LET metrics == Range(ExtractMetrics(raws[1]))
      values(m) == [i \in DOMAIN raws |-> MetricValue(raws[i], m.id)]
  IN  [id \in {m.id : m \in metrics} |->
         LET metric == CHOOSE m \in metrics : m.id = id
             vs == values(metric)
         IN  IF metric.direction = "categorical"
             THEN [kind |-> "consensus", allEqual |-> Cardinality(Range(vs)) = 1]
             ELSE [kind |-> "median", twice |-> TwiceMedian(vs), minimum |-> Min(Range(vs)),
                   maximum |-> Max(Range(vs)), count |-> Len(vs)]]
=============================================================================
