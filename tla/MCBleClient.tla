----------------------------- MODULE MCBleClient ------------------------------
(* BleClient with the three builds the source supports, one per behaviour.  *)
EXTENDS BleClient

MCModes == {0}

\* Scan for the name only (the plain dongle: its match has bonding_flag 0),
\* reconnect to a bonded peer, and pair once (LiteEMF: user/hw_config.h sets
\* WIRELESS_PAIR_BONDING).
MCConfigs ==
    {[pairBonding |-> FALSE, bondingFlag |-> FALSE],
     [pairBonding |-> FALSE, bondingFlag |-> TRUE],
     [pairBonding |-> TRUE, bondingFlag |-> FALSE]}

\* The LiteEMF build alone (user/hw_config.h sets WIRELESS_PAIR_BONDING).
MCLiteEmf == {[pairBonding |-> TRUE, bondingFlag |-> FALSE]}
===============================================================================
