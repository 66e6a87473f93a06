---------------------------- MODULE MCBenchmark ----------------------------
(***************************************************************************)
(* The benchmark desk: a set workspace with small plans, and the publication *)
(* of a canonical set, an experiment set that shares a run with it, and that *)
(* run.  A behaviour is about one of the two (its scene).                    *)
(***************************************************************************)
EXTENDS BenchmarkSet, BenchmarkPublication

CONSTANTS registrar1, registrar2, Scenes

VARIABLE scene   \* the part this behaviour is about

Plan(profile, repeats, mode, preset) ==
  [profile |-> profile, repeats |-> repeats, mode |-> mode, preset |-> preset,
   commit |-> "head", provisioning |-> "standard"]

CanonicalPlans == {Plan("canonical", 3, "final-v34", "final-v34-v1")}
ExperimentPlans == {Plan("experiment", 1, "quick", None),
                    Plan("experiment", 2, "all", "production-all-v1")}
AllPlans == CanonicalPlans \cup ExperimentPlans \cup {Plan("canonical", 2, "all", None)}

AllFaults == {"none", "torn", "lost", "future", "legacy", "otherhost", "memory", "dirty",
              "samerun", "windows", "gc", "repeated", "commit", "failed"}
SetFaults == {"none", "torn", "otherhost", "memory", "dirty", "samerun"}
PlanFaults == [p \in AllPlans |-> IF p.repeats = 3 THEN SetFaults ELSE AllFaults]
NoFaults == [p \in AllPlans |-> {"none"}]
QuickPlan == {Plan("experiment", 1, "quick", None)}

Measure(statistic, direction, value, variation) ==
  [statistic |-> statistic, direction |-> direction, value |-> value, variation |-> variation]

\* Around the neutral and the material limits, in both directions.
MetricsOf(v, health) ==
  [t1 |-> Measure("mean_time", "lower", 100, 0), t2 |-> Measure("mean_time", "higher", v, 0),
   t3 |-> Measure("mean_time", "lower", v, 7), t4 |-> Measure("mean_time", "higher", v - 100, 3),
   t5 |-> Measure("mean_time", "higher", 100, None),
   h |-> Measure("health", "none", health, None), c |-> Measure("category", "none", v, None)]

Set(id, members, v, provisioning, health) ==
  [id |-> id, kind |-> "set", profile |-> "canonical", status |-> "VALID_CANONICAL_SET",
   mode |-> "all", preset |-> "p", suite |-> "s", config |-> "c", repository |-> "r", commit |-> "head",
   env |-> [host |-> "h", provisioning |-> provisioning], members |-> members,
   aggregated |-> Len(members), metrics |-> MetricsOf(v, health)]

SetA == Set("A", <<"r1", "r2", "r3">>, 100, "standard", "healthy")
SetB == [Set("B", <<"r1">>, 112, "spot", "flagged") EXCEPT
           !.profile = "experiment", !.status = "VALID_EXPERIMENT_SET"]
RunC == [Set("r1", <<>>, 106, "standard", "healthy") EXCEPT
           !.kind = "run", !.status = "VALID", !.profile = "experiment"]

MCSubjects == {SetA, SetB, RunC}
MCComparisons == {[baseline |-> SetA, candidate |-> SetB, exploratory |-> TRUE]}

Request(profile, mode, repeats, provisioning, retention, long) ==
  [profile |-> profile, mode |-> mode, repeats |-> repeats, provisioning |-> provisioning,
   retention |-> retention, long |-> long, commit |-> "head"]
MCRequests == {Request("canonical", "all", 3, "standard", "gcs", FALSE),
               Request("experiment", "all", 1, "spot", "actions", FALSE)}

Init == scene \in Scenes /\ SInit /\ PInit
Next ==
  \/ scene = "set" /\ SNext /\ UNCHANGED <<scene, publicationVars>>
  \/ scene = "publication" /\ PNext /\ UNCHANGED <<scene, setVars>>
Spec == Init /\ [][Next]_<<scene, setVars, publicationVars>>
FairSpec == Spec /\ SetFairness
=============================================================================
