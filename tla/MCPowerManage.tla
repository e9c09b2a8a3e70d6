----------------------------- MODULE MCPowerManage ----------------------------
(* One sample of a level is not enough, nor is one low unit.                   *)
EXTENDS PowerManage

MCFilter == [l \in Levels |-> 1]
===============================================================================
