---------------------------- MODULE MCDuplexDongle ----------------------------
(* The dongle as duplex_dongle.c configures it: one media, media mode 0, no *)
(* media selection; the plain and the LiteEMF build of its BLE client.      *)
EXTENDS DuplexDongle

MCModes == {0}
MCSels == {0}
MCConfigs == {[pairBonding |-> pb, bondingFlag |-> FALSE] : pb \in BOOLEAN}

\* The plain build alone.
MCPlain == {[pairBonding |-> FALSE, bondingFlag |-> FALSE]}

\* Bound: the LiteEMF build, which has several times the states, makes do with
\* one move of the environment fewer.
MCNext == DongleNext /\ (cfg.pairBonding => inputs' < InputMax)
MCSpec == DongleInit /\ [][MCNext]_dongleVars

\* What the steps of the dongle depend on.  The rest is history of the client, of
\* which the properties checked of MCSpec say no more than its type.
MCView == <<vars, usbVars, cfg, hostVars, callVars, scanning, creating, link,
            updated, searching, hci, appVars, inputs>>

\* Bound: of the moves of the environment only the first may be the user's.  None
\* switches the dongle off, since neither property speaks of one that is.
LiveNext == DongleNext /\ (UserMove => inputs = 0) /\ ~PowerOffMove
LiveSpec == DongleInit /\ [][LiveNext]_dongleVars /\ DongleFairness
===============================================================================
