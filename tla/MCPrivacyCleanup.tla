-------------------------- MODULE MCPrivacyCleanup --------------------------
(***************************************************************************)
(* TLC instance of PrivacyCleanup.                                         *)
(***************************************************************************)
EXTENDS PrivacyCleanup, TLC
=============================================================================
