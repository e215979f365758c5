----------------------------- MODULE MCInputRing -----------------------------
(***************************************************************************)
(* Small instances of InputRing.  In the first workload the EE fills both  *)
(* slots and blocks for what it captured first; in the second its spans    *)
(* merge; in the others both producers append, and in the last each of     *)
(* them may find the other asleep.                                         *)
(***************************************************************************)
EXTENDS InputRing

Workload(ee, mtvu) == [EE |-> ee, MTVU |-> mtvu]

MCWorkloads == {Workload(<<1, 2, 1>>, <<>>), Workload(<<1, 1>>, <<>>),
                Workload(<<1>>, <<1>>), Workload(<<2>>, <<2, 2, 2>>)}
==============================================================================
