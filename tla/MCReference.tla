----------------------------- MODULE MCReference -----------------------------
(* The repository's three reference models, one scene each. *)
EXTENDS ReferenceCluster, ConfiguredHistory, ReferenceReads

CONSTANT Scenes    \* the models explored: "cluster", "history", "reads"

VARIABLE scene

MCRoots == { << <<"strong", 0, 2>>, <<"minimum", 0, 2>> >>, << <<"minimum", 1, 2>>, <<"stale", 0, 2>> >> }

Init ==
    /\ scene \in Scenes /\ ClusterInit /\ HistoryInit /\ ReadsInit
    /\ scene # "reads" => Len(asks) = 2 /\ asks[1].policy = "strong"
Next ==
    \/ scene = "cluster" /\ ClusterNext /\ UNCHANGED <<scene, historyVars, readVars>>
    \/ scene = "history" /\ HistoryNext /\ UNCHANGED <<scene, clusterVars, readVars>>
    \/ scene = "reads"   /\ ReadsNext   /\ UNCHANGED <<scene, clusterVars, historyVars>>
Spec == Init /\ [][Next]_<<scene, clusterVars, historyVars, readVars>>
=============================================================================
