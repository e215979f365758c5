----------------------------- MODULE MCWorkSema -----------------------------
(* Small instances of WorkSema: a few jobs, an 8-valued count below the flag. *)
EXTENDS WorkSema
=============================================================================
