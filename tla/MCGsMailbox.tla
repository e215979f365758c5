---------------------------- MODULE MCGsMailbox -----------------------------
(***************************************************************************)
(* Instances of the GS mailbox for TLC.                                    *)
(***************************************************************************)
EXTENDS GsMailbox
=============================================================================
