----------------------------- MODULE MCEvidence -----------------------------
(***************************************************************************)
(* The systems that judge evidence, checked side by side: a behaviour is    *)
(* about one of them (its scene), the others stay in a fixed initial state. *)
(***************************************************************************)
EXTENDS DurableStore, PublicQualification, HarnessMatrix

VARIABLE scene   \* the system this behaviour is about

\* Cases that halt and cases that are killed differ only in the last row;
\* two cuts stand for the places a mutation or a read can be cut.
MCCases ==
    {c \in QualificationMatrix \cup FaultMatrix \cup ProtocolMatrix \cup RecoveryMatrix :
        /\ c.mode # "halt"
        /\ c.kind = "cut" =>
             c.cut \in {"ACCEPT_AFTER_FORCE", "READ_CAPTURED"}}

\* Likewise: a process that halts leaves what a killed one leaves.
MCScenarios == {c \in AllCases : ReadMode(c.cut) # "halt"}

Scenes == {"store", "public", "harness"}

Init ==
    /\ scene \in Scenes
    /\ DInit /\ (scene # "store" => store = EmptyStore(Max(Minors)))
    /\ QInit /\ (scene # "public" => qcase = CHOOSE c \in QCases : TRUE)
    /\ HInit /\ (scene # "harness" => hcase = CHOOSE c \in HCases : TRUE)

\* Bound: the formats differ in the derived components only, so I/O failures
\* are explored in the newest one.
FailuresInNewest == store.minor = Max(Minors) \/ faults' = 0

Next ==
    \/ scene = "store"  /\ DNext /\ FailuresInNewest /\ UNCHANGED <<scene, qualVars, harnessVars>>
    \/ scene = "public" /\ QNext /\ UNCHANGED <<scene, durableVars, harnessVars>>
    \/ scene = "harness" /\ HNext /\ UNCHANGED <<scene, durableVars, qualVars>>

Spec == Init /\ [][Next]_<<scene, durableVars, qualVars, harnessVars>>

Symmetry == Permutations(Nodes)
=============================================================================
