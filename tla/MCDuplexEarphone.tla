--------------------------- MODULE MCDuplexEarphone ---------------------------
(* The earphone as duplex_earphone.c configures it: media 0 is the radio's, *)
(* media 1 the USB one, media mode 0.                                       *)
EXTENDS DuplexEarphone

MCModes == {0}
MCSels == {0, 1}
===============================================================================
