------------------------ MODULE MCAutomaticAuthority ------------------------
(* The instance of AutomaticAuthority that TLC checks. *)
EXTENDS AutomaticAuthority, TLC

CONSTANTS n0, n1, n2, i1, i2, x, noop, none

MCVoters == {n0, n1, n2}
MCRank == (n0 :> 0) @@ (n1 :> 1) @@ (n2 :> 2)
MCIncarnations == {i1, i2}
MCOps == {x}
\* Bound of the duel: behaviours in which no acceptance is proven.
Unproven == \A m \in msgs : m.type # "PROOF"
\* Bound: a quarantined voter is started again at once.  Until then it takes no
\* step and no step of another voter reads the mark, so waiting reaches the same
\* files, campaigns and messages.
RestartedAtOnce == (\E v \in Voters : quarantined[v]) => \E v \in Voters : quarantined[v] /\ ~ quarantined'[v]
IncarnationSymmetry == Permutations(MCIncarnations)
=============================================================================
