--------------------------- MODULE MCVuInterrupts ---------------------------
(***************************************************************************)
(* Two bits, and words that set, clear and overlap.                        *)
(***************************************************************************)
EXTENDS VuInterrupts

MCWords == {[data |-> {1}, mask |-> {1}], [data |-> {2}, mask |-> {1, 2}],
            [data |-> {1, 2}, mask |-> {2}]}
=============================================================================
