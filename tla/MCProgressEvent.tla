--------------------------- MODULE MCProgressEvent ---------------------------
(* Small instances of ProgressEvent. *)
EXTENDS ProgressEvent
=============================================================================
