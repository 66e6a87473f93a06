---------------------------- MODULE EvidenceBase ----------------------------
(***************************************************************************)
(* What the modules about evidence share.                                   *)
(***************************************************************************)
EXTENDS Naturals, FiniteSets, Sequences

CONSTANT None   \* an absent value
=============================================================================
