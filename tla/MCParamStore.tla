---------------------------- MODULE MCParamStore ----------------------------
(* ParamStore with three tunables of the table, the Int8 one given a whole *)
(* word.  The two area boundaries fall inside a header or inside a value,  *)
(* depending on the order in which the tunables are first saved, and the   *)
(* three entries no longer fit once one of them has been torn.             *)
EXTENDS ParamStore

MCTable == <<"AIRSPEED_MIN", "STALL_PREVENTION", "THR_MIN">>
MCWidth == [p \in {"AIRSPEED_MIN", "STALL_PREVENTION", "THR_MIN"} |->
               IF p = "STALL_PREVENTION" THEN 1 ELSE 2]
MCAreaLengths == <<7, 4, 7>>
=============================================================================
