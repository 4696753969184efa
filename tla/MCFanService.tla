---------------------------- MODULE MCFanService ----------------------------
(* Two processes; two tasks that control one fan.                          *)
EXTENDS FanService, TLC

CONSTANTS p1, p2, t1, t2, c1, c2, fan, core

MCTaskOf == [t \in {t1, t2} |-> t]
MCPlanOf == [t \in {t1, t2} |-> t]
MCRank == (fan :> 1) @@ (core :> 2)
MCEntityKey == [t \in {t1, t2} |-> fan]
MCBefore == (t1 :> 1) @@ (t2 :> 2)
MCTaskFor == (c1 :> t1) @@ (c2 :> t2)
=============================================================================
