------------------------------- MODULE VbatCheck -------------------------------
(***************************************************************************)
(* The battery's watch (adapter/power_manage/app_power_manage.c): a slow   *)
(* timer of app_core starts a fast one, whose interrupt takes six samples  *)
(* and judges the battery by the majority of them.  A low verdict that     *)
(* repeats ends the watch and switches the earphone off; the watch of a    *)
(* battery that was judged low goes on without the pause of the slow timer.*)
(*                                                                         *)
(* Six samples, averaged and counted, are one step (a unit) that judges    *)
(* the battery as it is; LowUnits, WarnUnits and NormalUnits are the       *)
(* thresholds of the counters of units (6, 5 and 2).                       *)
(***************************************************************************)
EXTENDS Charge

CONSTANTS
    LowUnits,       \* low units in a row that are tolerated
    WarnUnits,      \* units of a weak battery from one warning to the next
    NormalUnits,    \* good units in a row that do not count yet
    UnitMax         \* bound: a unit posts while fewer events wait

ASSUME UnitsAssumption ==
    LowUnits \in Nat /\ WarnUnits \in Nat \ {0} /\ NormalUnits \in Nat /\ UnitMax \in Nat

VARIABLES
    cell,       \* the battery (hardware): "low", "warn" or "normal"
    slow,       \* vbat_slow_timer runs
    fast,       \* vbat_fast_timer runs
    bat,        \* cur_bat_st
    units,      \* low_power_cnt, low_voice_cnt or power_normal_cnt: one at a time
    warned,     \* ~low_voice_first_flag
    warnTimer   \* lowpower_timer: the warning is repeated

vbatVars == <<slow, fast, bat, units, warned, warnTimer>>

Cells == {"low", "warn", "normal"}
PowerMsgs == {"POWER_LOW", "POWER_WARNING", "POWER_NORMAL", "POWER_CHARGE"}
Msgs == ChargeMsgs \cup PowerMsgs \cup {"POWEROFF"}

NoUnits == [kind |-> "normal", count |-> 0]

VbatCleared ==
    /\ slow' = FALSE /\ fast' = FALSE /\ bat' = "normal" /\ units' = NoUnits
    /\ warned' = FALSE /\ warnTimer' = FALSE

\* How many units in a row have judged like this one, it included.
InARow == IF units.kind = cell THEN units.count + 1 ELSE 1

JudgedLow ==
    /\ cell = "low"
    /\ bat' = "low"
    /\ IF InARow > LowUnits
       THEN units' = [kind |-> "low", count |-> 0] /\ Notify("POWER_LOW") /\ fast' = FALSE
       ELSE units' = [kind |-> "low", count |-> InARow] /\ UNCHANGED <<msgs, fast>>
    /\ UNCHANGED warned

\* The first warning comes with the second unit.
JudgedWeak ==
    /\ cell = "warn"
    /\ bat' = "warn" /\ fast' = FALSE
    /\ IF InARow >= (IF warned THEN WarnUnits ELSE 2)
       THEN /\ warned' = TRUE /\ units' = [kind |-> "warn", count |-> 0]
            /\ IF warnTimer THEN UNCHANGED msgs ELSE Notify("POWER_WARNING")
       ELSE units' = [kind |-> "warn", count |-> InARow] /\ UNCHANGED <<warned, msgs>>

\* The counter runs on; past its threshold its value does not matter.
JudgedNormal ==
    /\ cell = "normal"
    /\ units' = [kind |-> "normal", count |-> IF InARow > NormalUnits THEN NormalUnits ELSE InARow]
    /\ IF InARow > NormalUnits /\ bat # "normal"
       THEN bat' = "normal" /\ Notify("POWER_NORMAL")
       ELSE UNCHANGED <<bat, msgs>>
    /\ fast' = (bat' = "low")
    /\ UNCHANGED warned

\* vbat_check, the sample that completes a unit.
VbatCheck ==
    /\ fast /\ Len(msgs) < UnitMax
    /\ \/ ~online /\ (JudgedLow \/ JudgedWeak \/ JudgedNormal)
       \/ online /\ Notify("POWER_CHARGE") /\ fast' = (bat = "low") /\ UNCHANGED <<bat, units, warned>>
    /\ UNCHANGED <<slow, warnTimer, cell>>

\* vbat_check_init and, by the slow timer, vbat_check_slow.
VbatCheckInit == slow' = TRUE /\ fast' = TRUE /\ UNCHANGED <<bat, units, warned, warnTimer>>

VbatTimerDelete == slow' = FALSE /\ fast' = FALSE

VbatTypeOK ==
    /\ cell \in Cells /\ bat \in Cells
    /\ units \in [kind : Cells, count : Nat]
    /\ <<slow, fast, warned, warnTimer>> \in BOOLEAN \X BOOLEAN \X BOOLEAN \X BOOLEAN
    /\ msgs \in Seq(Msgs) /\ Len(msgs) <= MsgMax
===============================================================================
