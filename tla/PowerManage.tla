------------------------------ MODULE PowerManage ------------------------------
(***************************************************************************)
(* The earphone between plug, battery and user: from power-on to power-off *)
(* with app_core's part of charging and battery watch (app_charge.c,       *)
(* app_power_manage.c, adapter_charge.c, app_main.c, board_init).          *)
(*                                                                         *)
(* An earphone with something at its charging input runs the charging      *)
(* application, any other the earphone application, and every change from  *)
(* one to the other goes through a reset: memory is lost, the charger      *)
(* keeps its setting until charge_init, and the new start finds its way by *)
(* the input and by cpu_reset_by_soft alone.  Switched off, the earphone   *)
(* starts at a key or a change of the input (external: power_set_soft_     *)
(* poweroff and the wake-up ports are a library).                          *)
(*                                                                         *)
(* The build is that of the earphone's boards without LiteEMF: charging    *)
(* without charge box, no start while charging, no start at unplugging, no *)
(* key needed at power-on.  The test box is left out.                      *)
(***************************************************************************)
EXTENDS VbatCheck

CONSTANT MoveMax    \* bound: changes of the input and the battery, and keys

ASSUME MoveMaxAssumption == MoveMax \in Nat

VARIABLES
    app,        \* where app_core is; app_curr_status once it is in app_main
    soft,       \* cpu_reset_by_soft: this start is a cpu_reset
    ldo,        \* power_set_mode: the LDO, not the DCDC converter of the battery
    exitTimer,  \* app_var.goto_poweroff_flag and wait_exit_timer, for the reset
    keepTimer,  \* ldo5v_keep_timer runs
    missed,     \* history: a change of the input that started no scan, before init_ok
    early,      \* history: app_main chose by a level that will never be reported
    moves       \* the moves made

powerVars == <<chargeVars, cell, vbatVars, app, soft, ldo, exitTimer, keepTimer, missed, early, moves>>

Booting == {"charge_init", "init_ok", "voltage", "devices", "app_init", "app_main"}
Apps == {"off", "normal", "charge", "tone", "keep", "leaving"} \cup Booting

Cleared ==
    /\ DriverCleared /\ VbatCleared /\ msgs' = <<>>
    /\ ldo' = FALSE /\ exitTimer' = FALSE /\ keepTimer' = FALSE
    /\ missed' = FALSE /\ early' = FALSE

\* Mutant: the start after a reset does not know of it.
CpuReset_Unknown == app' = "charge_init" /\ soft' = FALSE /\ Cleared /\ UNCHANGED charger

\* cpu_reset, power_set_soft_poweroff and the start after one.
CpuReset == app' = "charge_init" /\ soft' = TRUE /\ Cleared /\ UNCHANGED charger
SoftPoweroff(on) == app' = "off" /\ soft' = FALSE /\ Cleared /\ charger' = on

PowerInit ==
    /\ level \in Levels /\ cell \in Cells /\ charger = FALSE
    /\ online = FALSE /\ flag = "none" /\ userReady = FALSE /\ initOk = FALSE
    /\ scan = FALSE /\ seen = Unseen
    /\ fullWake = FALSE /\ ccTimer = FALSE /\ fullTimer = FALSE /\ msgs = <<>>
    /\ slow = FALSE /\ fast = FALSE /\ bat = "normal" /\ units = NoUnits
    /\ warned = FALSE /\ warnTimer = FALSE
    /\ app = "charge_init" /\ soft = FALSE /\ ldo = FALSE
    /\ exitTimer = FALSE /\ keepTimer = FALSE
    /\ missed = FALSE /\ early = FALSE /\ moves = 0

-------------------------------------------------------------------------------
(* Plug, battery and user. *)

\* A change of the input: a start, when the earphone is off.
Plug ==
    /\ level' \in Levels \ {level}
    /\ LdoinWakeup
    /\ missed' = (missed \/ (app = "init_ok" /\ ~scan))
    /\ app' = IF app = "off" THEN "charge_init" ELSE app
    /\ UNCHANGED <<charger, online, flag, userReady, initOk, seen, fullWake, ccTimer,
                   fullTimer, msgs, cell, vbatVars, soft, ldo, exitTimer, keepTimer, early>>

Battery ==
    /\ cell' \in Cells \ {cell}
    /\ UNCHANGED <<chargeVars, vbatVars, app, soft, ldo, exitTimer, keepTimer, missed, early>>

\* A key starts the earphone; held down, KEY_POWEROFF_HOLD ends the application.
PowerKey ==
    /\ \/ app = "off" /\ app' = "charge_init"
       \/ app = "normal" /\ app' = "leaving"
    /\ UNCHANGED <<chargeVars, cell, vbatVars, soft, ldo, exitTimer, keepTimer, missed, early>>

Environment == moves < MoveMax /\ moves' = moves + 1 /\ (Plug \/ Battery \/ PowerKey)

-------------------------------------------------------------------------------
(* The start: board_init, app_init and app_main. *)

To(next) ==
    /\ app' = next
    /\ early' = (next = "charge" /\ flag = "off")
    /\ UNCHANGED <<soft, exitTimer, keepTimer, missed>>

\* charge_init.  board_init tests charge_online_flag right behind it, 100 ms
\* before a scan could have changed it.
BootCharge ==
    \/ app = "charge_init" /\ ChargeInit /\ To("init_ok") /\ UNCHANGED <<vbatVars, ldo>>
    \/ /\ app = "init_ok" /\ ChargeInitOk
       /\ To(IF online THEN "devices" ELSE "voltage") /\ UNCHANGED <<vbatVars, ldo>>

\* Mutant: the battery's watch is not begun.
CheckPowerOnVoltage_NoWatch(next) ==
    \/ cell # "low" /\ To(next) /\ UNCHANGED <<vbatVars, chargeVars, ldo>>
    \/ cell = "low" /\ SoftPoweroff(charger) /\ UNCHANGED level

\* check_power_on_voltage: an empty battery ends the start, any other has its
\* watch begun.
CheckPowerOnVoltage(next) ==
    \/ cell # "low" /\ To(next) /\ VbatCheckInit /\ UNCHANGED <<chargeVars, ldo>>
    \/ cell = "low" /\ SoftPoweroff(charger) /\ UNCHANGED level

BootVoltage ==
    \/ app = "voltage" /\ CheckPowerOnVoltage("devices")
    \/ app = "devices" /\ ldo' = online /\ To("app_init") /\ UNCHANGED <<vbatVars, chargeVars>>
    \/ app = "app_init" /\ online /\ To("app_main") /\ UNCHANGED <<vbatVars, chargeVars, ldo>>
    \/ app = "app_init" /\ ~online /\ CheckPowerOnVoltage("app_main")

\* app_main: the application is chosen, and only then are events asked for.
BootMain ==
    \/ /\ app = "app_main"
       /\ \/ online /\ To("charge") /\ VbatCheckInit
          \/ ~online /\ To("tone") /\ UNCHANGED vbatVars
       /\ UNCHANGED <<chargeVars, ldo>>
    \/ /\ app \in {"charge", "tone"} /\ ~userReady
       /\ userReady' = TRUE
       /\ UNCHANGED <<level, charger, online, flag, initOk, scan, seen, fullWake, ccTimer,
                      fullTimer, msgs, vbatVars, app, soft, ldo, exitTimer, keepTimer, missed, early>>

\* The tone of app_main_run keeps app_core from its events.
ToneEnds ==
    /\ app = "tone" /\ userReady
    /\ To("normal") /\ UNCHANGED <<chargeVars, vbatVars, ldo>>

Boot == (BootCharge \/ BootVoltage \/ BootMain \/ ToneEnds) /\ UNCHANGED <<cell, moves>>

-------------------------------------------------------------------------------
(* app_core's loops: each handler is one event taken. *)

Serving == app \in {"normal", "charge"} /\ userReady

Took(m) == Serving /\ msgs # <<>> /\ Head(msgs) = m

Stay == UNCHANGED <<online, flag, userReady, initOk, scan, seen, level, app, soft, missed, early>>
DriverStays == UNCHANGED <<charger, fullWake, ccTimer, fullTimer>>

\* charge_ldo5v_in_deal: the earphone application goes down (sys_enter_soft_
\* poweroff and its timer), the charging application charges, after a reset of
\* its own unless it comes from one.
Ldo5vIn ==
    /\ Took("LDO5V_IN")
    /\ \/ /\ app = "normal"
          /\ exitTimer' = TRUE /\ keepTimer' = FALSE /\ msgs' = Tail(msgs)
          /\ Stay /\ DriverStays /\ UNCHANGED <<vbatVars, ldo>>
       \/ /\ app = "charge" /\ soft
          /\ keepTimer' = FALSE /\ ChargeStart
          /\ msgs' = Append(Tail(msgs), "CHARGE_START")
          /\ Stay /\ UNCHANGED <<vbatVars, ldo, exitTimer>>
       \/ app = "charge" /\ ~soft /\ CpuReset /\ UNCHANGED level

\* charge_ldo5v_off_deal, with charge_close.
Ldo5vOff ==
    /\ Took("LDO5V_OFF")
    /\ SoftPoweroff(ChargerAfterClose) /\ UNCHANGED level

\* ldo5v_keep_deal: a while later the earphone goes down.
Ldo5vKeep ==
    /\ Took("LDO5V_KEEP")
    /\ keepTimer' = TRUE /\ msgs' = Tail(msgs)
    /\ Stay /\ DriverStays /\ UNCHANGED <<vbatVars, ldo, exitTimer>>

\* charge_full_deal: off, with the charger left on.
ChargeFull == Took("CHARGE_FULL") /\ SoftPoweroff(charger) /\ UNCHANGED level

\* charge_start_deal.
ChargeStarted ==
    /\ Took("CHARGE_START")
    /\ ldo' = TRUE /\ msgs' = Tail(msgs)
    /\ Stay /\ DriverStays /\ UNCHANGED <<vbatVars, exitTimer, keepTimer>>

\* app_power_event_handler: the battery's warning.
PowerNotice ==
    /\ Took("POWER_NORMAL") \/ Took("POWER_CHARGE") \/ Took("POWER_WARNING")
    /\ warnTimer' = (Head(msgs) = "POWER_WARNING") /\ msgs' = Tail(msgs)
    /\ Stay /\ DriverStays /\ UNCHANGED <<slow, fast, bat, units, warned, ldo, exitTimer, keepTimer>>

\* app_power_event_handler: the watch ends and POWEROFF is posted ...
PowerLow ==
    /\ Took("POWER_LOW")
    /\ VbatTimerDelete /\ warnTimer' = FALSE
    /\ msgs' = Append(Tail(msgs), "POWEROFF")
    /\ Stay /\ DriverStays /\ UNCHANGED <<bat, units, warned, ldo, exitTimer, keepTimer>>

\* ... which ends the earphone application; the charging application has no ear for it.
Poweroff ==
    /\ Took("POWEROFF")
    /\ app' = IF app = "normal" THEN "leaving" ELSE app
    /\ msgs' = Tail(msgs)
    /\ DriverStays
    /\ UNCHANGED <<online, flag, userReady, initOk, scan, seen, level, soft, missed, early, vbatVars,
                   ldo, exitTimer, keepTimer>>

TakeMsg ==
    /\ \/ Ldo5vIn \/ Ldo5vOff \/ Ldo5vKeep \/ ChargeFull \/ ChargeStarted
       \/ PowerNotice \/ PowerLow \/ Poweroff
    /\ UNCHANGED <<cell, moves>>

-------------------------------------------------------------------------------
(* app_core's timers, and what it waits for with its events unserved. *)

\* wait_exit_btstack_flag.
WaitExit == Serving /\ exitTimer /\ CpuReset /\ UNCHANGED <<level, cell, moves>>

\* ldo5v_keep_delay_deal, up to its two delays of 700 ms together: it returns
\* no more, so a power-off it starts in the earphone application comes to nothing.
KeepDelay ==
    /\ Serving /\ keepTimer
    /\ app' = "keep" /\ keepTimer' = FALSE
    /\ UNCHANGED <<chargeVars, cell, vbatVars, soft, ldo, exitTimer, missed, early, moves>>

\* After the delays: a reset to charge, or off, with the input as it is.
KeepEnds ==
    /\ app = "keep"
    /\ IF level = "in" THEN CpuReset ELSE SoftPoweroff(charger)
    /\ UNCHANGED <<level, cell, moves>>

\* vbat_check_slow.
VbatCheckSlow ==
    /\ Serving /\ slow /\ ~fast
    /\ fast' = TRUE
    /\ UNCHANGED <<chargeVars, cell, slow, bat, units, warned, warnTimer, app, soft, ldo,
                   exitTimer, keepTimer, missed, early, moves>>

\* power_event_to_user by lowpower_timer.
WarnAgain ==
    /\ Serving /\ warnTimer /\ Len(msgs) < UnitMax
    /\ Notify("POWER_WARNING")
    /\ UNCHANGED <<level, charger, ramVars, cell, vbatVars, app, soft, ldo, exitTimer, keepTimer,
                   missed, early, moves>>

\* app_main_run behind its loop: the tone is played, and with something at the
\* input the power stays on.
PoweroffToneEnds ==
    /\ app = "leaving"
    /\ IF online THEN CpuReset ELSE SoftPoweroff(charger)
    /\ UNCHANGED <<level, cell, moves>>

AppTimer == WaitExit \/ KeepDelay \/ VbatCheckSlow \/ WarnAgain

AppStep == Boot \/ TakeMsg \/ AppTimer \/ KeepEnds \/ PoweroffToneEnds

Interrupt ==
    /\ \/ DriverInterrupt /\ UNCHANGED <<cell, vbatVars>>
       \/ VbatCheck /\ UNCHANGED <<level, charger, ramVars>>
    /\ UNCHANGED <<app, soft, ldo, exitTimer, keepTimer, missed, early, moves>>

PowerNext == Environment \/ AppStep \/ Interrupt

PowerSpec == PowerInit /\ [][PowerNext]_powerVars

\* app_core is scheduled, serves events and timers alike, and the interrupts of
\* running timers come.
PowerFairness ==
    /\ WF_powerVars(Boot) /\ WF_powerVars(TakeMsg) /\ WF_powerVars(WaitExit)
    /\ WF_powerVars(KeepDelay) /\ WF_powerVars(KeepEnds) /\ WF_powerVars(PoweroffToneEnds)
    /\ WF_powerVars(VbatCheckSlow)
    /\ WF_powerVars(Interrupt /\ Ldo5vDetect) /\ SF_powerVars(Interrupt /\ VbatCheck)

FairPower == PowerSpec /\ PowerFairness

-------------------------------------------------------------------------------
PowTypeOK ==
    /\ ChargeTypeOK /\ VbatTypeOK
    /\ app \in Apps
    /\ <<soft, ldo, exitTimer>> \in BOOLEAN \X BOOLEAN \X BOOLEAN
    /\ <<keepTimer, missed, early>> \in BOOLEAN \X BOOLEAN \X BOOLEAN
    /\ moves \in 0..MoveMax

\* Nothing is on its way: the input is made out and every event served.
Settled == Serving /\ ~scan /\ msgs = <<>> /\ ~exitTimer /\ ~keepTimer

\* The charging application chosen for a plug that was gone before its event:
\* flag says "off" as it did at the start, and no event will tell.
Unplugged == early /\ flag = "off"

\* However the plug bounced, before, during and after starts and resets: a
\* settled earphone runs its application only with nothing at the input, and the
\* charging application only while it charges, from the LDO.  Only a change
\* while charge_init is not through is overlooked.
ChargerFollowsPlug == (Settled /\ ~missed /\ ~Unplugged) =>
    \/ app = "normal" /\ level = "off" /\ ~online
    \/ app = "charge" /\ level = "in" /\ online /\ charger /\ ldo

\* "Keeps an earphone with a low battery from switching off and not charging when
\* the plug is pulled and put in" (app_charge.c:303): an earphone that goes off
\* with the charger plugged in goes on charging, unless the plug has just come
\* and is not yet made out or its event not yet served.
PlugWaits == scan \/ \E i \in DOMAIN msgs : msgs[i] = "LDO5V_IN"
OffStillCharges ==
    [][(app # "off" /\ app' = "off" /\ level = "in") =>
          charger' \/ missed \/ (PlugWaits /\ ~(charger /\ flag = "in"))]_powerVars

\* A plug that stays in gets its earphone to charge, whatever it was doing, if it
\* does not go off first.
PlugCharges == (level = "in" /\ app # "off") ~>
    (level # "in" \/ app = "off" \/ missed \/ (app = "charge" /\ charger))

\* An earphone whose battery stays low without a charger switches itself off.
LowPowersOff == (cell = "low" /\ level = "off" /\ app # "off" /\ ~Unplugged) ~>
    (cell # "low" \/ level # "off" \/ app = "off" \/ Unplugged)

\* "Low Power, enter softpoweroff" (app_power_manage.c:386-391), whatever the
\* earphone has been through.
LowPowerShutsDown == (cell = "low" /\ level = "off") ~>
    (cell # "low" \/ level # "off" \/ app = "off")
===============================================================================
