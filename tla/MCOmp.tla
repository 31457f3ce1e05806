--------------------------------- MODULE MCOmp --------------------------------
(***************************************************************************)
(* Two threads on two cores; a region that is called from the serial part, *)
(* and one that is called inside its function.                             *)
(***************************************************************************)
EXTENDS OmpGraph

MCThreads == {"m", "u"}
MCOsId == [t \in MCThreads |-> IF t = "u" THEN 1 ELSE 2]
MCSites == {"a", "b"}
MCOuter == [s \in MCSites |-> IF s = "a" THEN "main" ELSE "a"]
MCOrder == <<"a", "b">>
===============================================================================
