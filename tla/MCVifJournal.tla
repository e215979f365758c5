---------------------------- MODULE MCVifJournal ----------------------------
(***************************************************************************)
(* Runs of VifJournal; the constants are given in the configurations.      *)
(***************************************************************************)
EXTENDS VifJournal
=============================================================================
