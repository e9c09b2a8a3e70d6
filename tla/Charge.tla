-------------------------------- MODULE Charge --------------------------------
(***************************************************************************)
(* The charger's driver (cpu/br28/charge.c): a scan of the charging input  *)
(* every 2 ms that turns a bouncing plug into one event, the charger it    *)
(* switches, and the two detections of the end of a charge.  Its handlers  *)
(* run in interrupts; what the application calls is here too.              *)
(*                                                                         *)
(* The input is below 0.6 V ("off"), above the battery ("in") or between   *)
(* ("keep").  Filter is the number of samples a level must have been seen  *)
(* before it counts (ldo5v_on_filter, ldo5v_keep_filter, ldo5v_off_filter  *)
(* plus 20).  detect_stop and charge_module_stop are used by firmware      *)
(* updates and factory tests only and are left out, and so are the events  *)
(* CHARGE_CLOSE and POWER_CHANGE: the power goes off in the handler that   *)
(* posts the first, and the second reports to a phone.                     *)
(***************************************************************************)
EXTENDS Naturals, Sequences

CONSTANTS
    MsgMax,     \* bound: events waiting for app_core
    Filter      \* samples of a level before it counts

Levels == {"off", "keep", "in"}

ASSUME MsgMaxAssumption == MsgMax \in Nat \ {0}
ASSUME FilterAssumption == Filter \in [Levels -> Nat]

VARIABLES
    level,      \* the charging input (hardware)
    charger,    \* CHARGE_EN and CHGGO_EN, which survive a power-off
    online,     \* charge_online_flag
    flag,       \* charge_flag: the level last counted
    userReady,  \* charge_event_flag: app_core takes events
    initOk,     \* init_ok
    scan,       \* ldo5v_timer runs
    seen,       \* ldo5v_on_cnt, ldo5v_keep_cnt and ldo5v_off_cnt
    fullWake,   \* IO_CHGFL_DET interrupts
    ccTimer,    \* cc_timer runs: the trickle charge goes on
    fullTimer,  \* charge_timer runs: the end of the charge is being checked
    msgs        \* events of the charger and the battery for app_core

ramVars == <<online, flag, userReady, initOk, scan, seen, fullWake, ccTimer, fullTimer>>
chargeVars == <<level, charger, msgs, ramVars>>

ChargeMsgs == {"LDO5V_IN", "LDO5V_KEEP", "LDO5V_OFF", "CHARGE_START", "CHARGE_FULL"}

\* The event that tells of a level.
LevelMsg(l) == CASE l = "in" -> "LDO5V_IN" [] l = "keep" -> "LDO5V_KEEP" [] OTHER -> "LDO5V_OFF"

Notify(m) == Len(msgs) < MsgMax /\ msgs' = Append(msgs, m)

Unseen == [l \in Levels |-> 0]

\* What a reset leaves of the driver's memory.
DriverCleared ==
    /\ online' = FALSE /\ flag' = "none" /\ userReady' = FALSE /\ initOk' = FALSE
    /\ scan' = FALSE /\ seen' = Unseen
    /\ fullWake' = FALSE /\ ccTimer' = FALSE /\ fullTimer' = FALSE

-------------------------------------------------------------------------------
\* ldoin_wakeup_isr, at every change of the level: it starts the scan, but not
\* before charge_init is through.
LdoinWakeup == scan' = (scan \/ initOk)

\* Mutant: the test of charge_event_flag comes after the scan has been ended.
Counted_EndsFirst ==
    /\ online' = (level # "off")
    /\ scan' = FALSE /\ seen' = Unseen
    /\ IF userReady /\ flag # level
       THEN flag' = level /\ Notify(LevelMsg(level))
       ELSE UNCHANGED <<flag, msgs>>

\* The level counts: it is reported if it is not the one reported last, and the
\* scan ends, once app_core takes events.
Counted ==
    /\ online' = (level # "off")
    /\ IF userReady
       THEN /\ scan' = FALSE /\ seen' = Unseen /\ flag' = level
            /\ IF flag = level THEN UNCHANGED msgs ELSE Notify(LevelMsg(level))
       ELSE /\ seen' = [Unseen EXCEPT ![level] = seen[level]]
            /\ UNCHANGED <<scan, flag, msgs>>

\* Mutant: a counter runs past its filter.
Ldo5vDetect_OneMore ==
    /\ scan
    /\ \/ /\ seen[level] <= Filter[level]
          /\ seen' = [seen EXCEPT ![level] = @ + 1]
          /\ UNCHANGED <<online, scan, flag, msgs>>
       \/ seen[level] >= Filter[level] /\ Counted
    /\ UNCHANGED <<level, charger, userReady, initOk, fullWake, ccTimer, fullTimer>>

\* ldo5v_detect: one sample.
Ldo5vDetect ==
    /\ scan
    /\ \/ /\ seen[level] < Filter[level]
          /\ seen' = [seen EXCEPT ![level] = @ + 1]
          /\ UNCHANGED <<online, scan, flag, msgs>>
       \/ seen[level] >= Filter[level] /\ Counted
    /\ UNCHANGED <<level, charger, userReady, initOk, fullWake, ccTimer, fullTimer>>

\* charge_cc_check: the battery has left the trickle charge.
ChargeCcCheck ==
    /\ ccTimer
    /\ ccTimer' = FALSE /\ fullWake' = TRUE /\ fullTimer' = TRUE
    /\ UNCHANGED <<level, charger, online, flag, userReady, initOk, scan, seen, msgs>>

\* charge_wakeup_isr: the charger says that it is done.
ChargeWakeup ==
    /\ charger /\ fullWake /\ ~fullTimer
    /\ fullTimer' = TRUE
    /\ UNCHANGED <<level, charger, online, flag, userReady, initOk, scan, seen, fullWake,
                   ccTimer, msgs>>

\* charge_full_detect, with its eleven samples in a row: the charger went on
\* charging, or it is done and the input is still there.
ChargeFullDetect ==
    /\ fullTimer
    /\ fullTimer' = FALSE
    /\ \/ UNCHANGED <<fullWake, msgs>>
       \/ level = "in" /\ fullWake' = FALSE /\ Notify("CHARGE_FULL")
    /\ UNCHANGED <<level, charger, online, flag, userReady, initOk, scan, seen, ccTimer>>

DriverInterrupt == Ldo5vDetect \/ ChargeCcCheck \/ ChargeWakeup \/ ChargeFullDetect

-------------------------------------------------------------------------------
\* charge_start: the battery may be low enough for a trickle charge, and the
\* charger may say at once that it is done.
ChargeStart ==
    /\ charger' = TRUE
    /\ \/ fullWake' = TRUE /\ fullTimer' \in BOOLEAN /\ UNCHANGED ccTimer
       \/ ccTimer' = TRUE /\ fullTimer' = FALSE /\ UNCHANGED fullWake

\* Mutant: the charger is always switched off.
ChargerAfterClose_Off == FALSE

\* charge_close, called when the power is about to go off: the charger of an
\* input that has meanwhile come back is left on.
ChargerAfterClose == charger /\ flag = "in"

\* charge_init up to check_charge_state: the charger is switched off and the
\* input read once; whatever is there is left for the scan to make out.
ChargeInit ==
    /\ charger' = FALSE
    /\ online' = (level # "off")
    /\ scan' = (level # "off")
    /\ flag' = IF level = "off" THEN "off" ELSE flag
    /\ UNCHANGED <<level, userReady, initOk, seen, fullWake, ccTimer, fullTimer, msgs>>

\* charge_init, last statement.
ChargeInitOk ==
    /\ initOk' = TRUE
    /\ UNCHANGED <<level, charger, online, flag, userReady, scan, seen, fullWake, ccTimer,
                   fullTimer, msgs>>

ChargeTypeOK ==
    /\ level \in Levels /\ flag \in Levels \cup {"none"}
    /\ seen \in [Levels -> Nat] /\ \A l \in Levels : seen[l] <= Filter[l]
    /\ <<charger, online, userReady, initOk, scan>> \in BOOLEAN \X BOOLEAN \X BOOLEAN \X BOOLEAN \X BOOLEAN
    /\ <<fullWake, ccTimer, fullTimer>> \in BOOLEAN \X BOOLEAN \X BOOLEAN
===============================================================================
