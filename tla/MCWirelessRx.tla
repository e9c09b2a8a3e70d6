----------------------------- MODULE MCWirelessRx -----------------------------
(* Packets with any of three numbers, with one of two frames or without, and  *)
(* with a command or without.                                                 *)
EXTENDS WirelessRx

MCPackets == [seqn : 0..2, cmd : 0..1, audio : 0..2]
===============================================================================
