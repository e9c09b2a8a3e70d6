--------------------------- MODULE MCWirelessAudio ----------------------------
(* Three packet numbers, so that they wrap and are met again, three           *)
(* frames and two commands to confuse, and a stack that holds one packet.     *)
EXTENDS WirelessAudio
===============================================================================
