----------------------------- MODULE MCWirelessDec ----------------------------
(* The receiving end alone: packets that repeat the number, packets that do   *)
(* not, with a frame or with a command only.                                  *)
EXTENDS WirelessDec

MCPackets == [seqn : 0..1, cmd : {1}, audio : 0..1]
===============================================================================
