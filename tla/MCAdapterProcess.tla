--------------------------- MODULE MCAdapterProcess ---------------------------
(* AdapterProcess with its environment left open: every adapter event, in   *)
(* every order, up to QMax of them waiting.                                 *)
EXTENDS AdapterProcess

\* Two media modes, as the USB input device of the A2DP/SCO products uses.
MCModes == {0, 1}

\* adapter_media_sel as hal_bt_enable writes it: 0 for radio, 1 for USB.
MCSels == {0, 1}
===============================================================================
