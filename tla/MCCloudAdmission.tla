-------------------------- MODULE MCCloudAdmission --------------------------
(* Two members of one history each, one commit and its successor. *)
EXTENDS CloudAdmission

MCHistories == [m \in Members |-> {1}]
=============================================================================
