-------------------------- MODULE MCBriefPublication --------------------------
(***************************************************************************)
(* TLC instance of BriefPublication.                                       *)
(***************************************************************************)
EXTENDS BriefPublication, TLC
=============================================================================
