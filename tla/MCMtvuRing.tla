----------------------------- MODULE MCMtvuRing -----------------------------
(***************************************************************************)
(* Small rings for TLC.  Reserved and Written differ for plain records, as *)
(* WriteVIRegs() and WriteVFRegs() reserve more than they write.           *)
(***************************************************************************)
EXTENDS MtvuRing

MCReserved == [k \in RecordKind |->
                  CASE k = "flush" -> 1 [] k = "unpack" -> 3 [] OTHER -> 2]
MCWritten == [k \in RecordKind |->
                  CASE k \in {"flush", "plain"} -> 1 [] k = "unpack" -> 3
                    [] OTHER -> 2]
=============================================================================
