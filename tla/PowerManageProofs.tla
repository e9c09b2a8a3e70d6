--------------------------- MODULE PowerManageProofs ---------------------------
(***************************************************************************)
(* What the earphone's power management guarantees for every filter of the *)
(* charging input, every threshold of the battery's watch, every length of *)
(* the event queue and any number of moves.                                *)
(*                                                                         *)
(* That a settled earphone charges exactly with the charger plugged in is  *)
(* not inductive: it rests on events that wait.  PInv says what every      *)
(* level the scan has counted still has before it (InHeard, InCharges,     *)
(* KeepHeard, OffHeard), that the last event waiting tells of the last     *)
(* level counted (LastTold), and that without a scan the driver knows its  *)
(* input (MadeOut).                                                        *)
(***************************************************************************)
EXTENDS PowerManage, SequenceTheorems, TLAPS

LevelMsgs == {"LDO5V_IN", "LDO5V_KEEP", "LDO5V_OFF"}

\* m waits in the queue q.
Waits(m, q) == \E i \in DOMAIN q : q[i] = m

\* Every event of a level other than the one counted last (m tells of it) is
\* followed by that one's.
Follows(m, q) ==
    \A i \in DOMAIN q : (q[i] \in LevelMsgs /\ q[i] # m) =>
        \E j \in DOMAIN q : j > i /\ q[j] = m

-------------------------------------------------------------------------------
(* The invariant in parts.                                                   *)

ChargeTyped ==
    /\ level \in Levels /\ flag \in Levels \cup {"none"}
    /\ seen \in [Levels -> Nat] /\ \A l \in Levels : seen[l] <= Filter[l]
    /\ charger \in BOOLEAN /\ online \in BOOLEAN /\ userReady \in BOOLEAN
    /\ initOk \in BOOLEAN /\ scan \in BOOLEAN
    /\ fullWake \in BOOLEAN /\ ccTimer \in BOOLEAN /\ fullTimer \in BOOLEAN

BatteryTyped ==
    /\ cell \in Cells /\ bat \in Cells
    /\ units \in [kind : Cells, count : Nat]
    /\ slow \in BOOLEAN /\ fast \in BOOLEAN /\ warned \in BOOLEAN /\ warnTimer \in BOOLEAN

QueueTyped == msgs \in Seq(Msgs) /\ Len(msgs) <= MsgMax

AppTyped ==
    /\ app \in Apps
    /\ soft \in BOOLEAN /\ ldo \in BOOLEAN /\ exitTimer \in BOOLEAN
    /\ keepTimer \in BOOLEAN /\ missed \in BOOLEAN /\ early \in BOOLEAN
    /\ moves \in 0..MoveMax

\* Before charge_init nothing of an earlier run is left.
Fresh == app \in {"off", "charge_init"} =>
    /\ flag = "none" /\ msgs = <<>>
    /\ ~scan /\ ~fullWake /\ ~ccTimer /\ ~fullTimer /\ ~fast
    /\ ~initOk /\ ~userReady

\* Behind charge_init the driver is ready; app_main asks for events.
Initialised ==
    /\ initOk \/ app \in {"off", "charge_init", "init_ok"}
    /\ userReady => app \in {"charge", "tone", "normal", "keep", "leaving"}
    /\ ~userReady => flag \in {"none", "off"}

\* With no scan running the input is what the driver says it is.
MadeOut == (app \notin {"off", "charge_init"} /\ ~scan /\ ~missed) =>
    flag = level /\ online = (level # "off")

\* The last event of a level is that of the level counted last.
LastTold == Follows(LevelMsg(flag), msgs)

\* The end of a charge is looked for, and reported, with the charger on only.
FullIsCharging ==
    (fullWake \/ ccTimer \/ fullTimer \/ Waits("CHARGE_FULL", msgs)) => charger

\* A plug has an effect on every application: its event waits, or the earphone
\* application is on its way down, or the charger is on and the LDO with it, or will be.
InHeard == (flag = "in" /\ app \in {"normal", "tone"}) =>
    Waits("LDO5V_IN", msgs) \/ exitTimer
InCharges == (flag = "in" /\ app = "charge") =>
    Waits("LDO5V_IN", msgs) \/ (charger /\ (Waits("CHARGE_START", msgs) \/ ldo))

\* So has a plug pushed in halfway ...
KeepHeard == (flag = "keep" /\ app \in {"normal", "tone", "charge"}) =>
    Waits("LDO5V_KEEP", msgs) \/ keepTimer \/ exitTimer

\* ... and one pulled out of a charging earphone, but for the known exception.
OffHeard == (flag = "off" /\ app = "charge") => Waits("LDO5V_OFF", msgs) \/ early

PInv ==
    /\ ChargeTyped /\ BatteryTyped /\ QueueTyped /\ AppTyped
    /\ Fresh /\ Initialised /\ MadeOut /\ LastTold /\ FullIsCharging
    /\ InHeard /\ InCharges /\ KeepHeard /\ OffHeard

-------------------------------------------------------------------------------
(* Lemmas about the queue.                                                   *)

\* The events of the three levels are different events.
LEMMA LevelMsgFacts ==
    /\ LevelMsg("in") = "LDO5V_IN" /\ LevelMsg("keep") = "LDO5V_KEEP"
    /\ LevelMsg("off") = "LDO5V_OFF" /\ LevelMsg("none") = "LDO5V_OFF"
BY DEF LevelMsg

\* An event posted waits behind those that waited.
LEMMA AppendWaits ==
    ASSUME NEW q \in Seq(Msgs), NEW m \in Msgs, NEW x
    PROVE  /\ Append(q, m) \in Seq(Msgs)
           /\ Len(Append(q, m)) = Len(q) + 1
           /\ Waits(x, Append(q, m)) <=> (Waits(x, q) \/ x = m)
<1> DEFINE r == Append(q, m)
<1>1. /\ r \in Seq(Msgs) /\ Len(r) = Len(q) + 1
      /\ \A i \in 1..Len(q) : r[i] = q[i]
      /\ r[Len(q) + 1] = m
      /\ DOMAIN q = 1..Len(q) /\ DOMAIN r = 1..(Len(q) + 1)
  OBVIOUS
<1>2. QED
  BY <1>1 DEF Waits

\* An event taken leaves the others waiting.
LEMMA TailWaits ==
    ASSUME NEW q \in Seq(Msgs), q # <<>>, NEW x
    PROVE  /\ Tail(q) \in Seq(Msgs) /\ Len(Tail(q)) = Len(q) - 1
           /\ Waits(x, Tail(q)) => Waits(x, q)
           /\ (Waits(x, q) /\ x # Head(q)) => Waits(x, Tail(q))
           /\ Waits(Head(q), q)
<1> DEFINE r == Tail(q)
<1>1. /\ r \in Seq(Msgs) /\ Len(r) = Len(q) - 1 /\ Len(q) \in Nat \ {0}
      /\ \A i \in 1..(Len(q) - 1) : r[i] = q[i + 1]
      /\ q[1] = Head(q)
      /\ DOMAIN q = 1..Len(q) /\ DOMAIN r = 1..(Len(q) - 1)
  OBVIOUS
<1>2. ASSUME Waits(x, r) PROVE Waits(x, q)
  <2>1. PICK i \in 1..(Len(q) - 1) : r[i] = x
    BY <1>1, <1>2 DEF Waits
  <2>2. i + 1 \in 1..Len(q) /\ q[i + 1] = x
    BY <1>1, <2>1
  <2>3. QED
    BY <1>1, <2>2 DEF Waits
<1>3. ASSUME Waits(x, q), x # Head(q) PROVE Waits(x, r)
  <2>1. PICK i \in 1..Len(q) : q[i] = x
    BY <1>1, <1>3 DEF Waits
  <2>2. i # 1
    BY <1>1, <1>3, <2>1
  <2>3. i - 1 \in 1..(Len(q) - 1) /\ r[i - 1] = x
    BY <1>1, <2>1, <2>2
  <2>4. QED
    BY <1>1, <2>3 DEF Waits
<1>4. Waits(Head(q), q)
  BY <1>1 DEF Waits
<1>5. QED
  BY <1>1, <1>2, <1>3, <1>4

\* The event of a level becomes the last one told, ...
LEMMA FollowsTold ==
    ASSUME NEW q \in Seq(Msgs), NEW m \in Msgs
    PROVE  Follows(m, Append(q, m))
<1> DEFINE r == Append(q, m)
<1>1. /\ \A i \in 1..Len(q) : r[i] = q[i]
      /\ r[Len(q) + 1] = m /\ Len(q) \in Nat
      /\ DOMAIN r = 1..(Len(q) + 1)
  OBVIOUS
<1>2. SUFFICES ASSUME NEW i \in 1..(Len(q) + 1), r[i] # m
               PROVE  \E j \in 1..(Len(q) + 1) : j > i /\ r[j] = m
  BY <1>1 DEF Follows
<1>3. i # Len(q) + 1
  BY <1>1, <1>2
<1>4. Len(q) + 1 > i
  BY <1>1, <1>3
<1>5. QED
  BY <1>1, <1>4

\* ... any other event changes nothing, ...
LEMMA FollowsOther ==
    ASSUME NEW q \in Seq(Msgs), NEW x \in Msgs \ LevelMsgs, NEW m, Follows(m, q)
    PROVE  Follows(m, Append(q, x))
<1> DEFINE r == Append(q, x)
<1>1. /\ \A i \in 1..Len(q) : r[i] = q[i]
      /\ r[Len(q) + 1] = x /\ Len(q) \in Nat
      /\ DOMAIN r = 1..(Len(q) + 1) /\ DOMAIN q = 1..Len(q)
  OBVIOUS
<1>2. SUFFICES ASSUME NEW i \in 1..(Len(q) + 1), r[i] \in LevelMsgs, r[i] # m
               PROVE  \E j \in 1..(Len(q) + 1) : j > i /\ r[j] = m
  BY <1>1 DEF Follows
<1>3. i \in 1..Len(q)
  BY <1>1, <1>2
<1>4. PICK j \in 1..Len(q) : j > i /\ q[j] = m
  BY <1>1, <1>2, <1>3 DEF Follows
<1>5. QED
  BY <1>1, <1>4

\* ... nor does an event taken, and an outdated event leaves the last one waiting.
LEMMA FollowsTail ==
    ASSUME NEW q \in Seq(Msgs), q # <<>>, NEW m, Follows(m, q)
    PROVE  /\ Follows(m, Tail(q))
           /\ (Head(q) \in LevelMsgs /\ Head(q) # m) => Waits(m, Tail(q))
<1> DEFINE r == Tail(q)
<1>1. /\ r \in Seq(Msgs) /\ Len(q) \in Nat \ {0}
      /\ \A i \in 1..(Len(q) - 1) : r[i] = q[i + 1]
      /\ q[1] = Head(q)
      /\ DOMAIN q = 1..Len(q) /\ DOMAIN r = 1..(Len(q) - 1)
  OBVIOUS
<1>2. ASSUME NEW i \in 1..Len(q), q[i] \in LevelMsgs, q[i] # m
      PROVE  \E j \in 1..(Len(q) - 1) : j > i - 1 /\ r[j] = m
  <2>1. PICK j \in 1..Len(q) : j > i /\ q[j] = m
    BY <1>1, <1>2 DEF Follows
  <2>2. j - 1 \in 1..(Len(q) - 1) /\ j - 1 > i - 1 /\ r[j - 1] = m
    BY <1>1, <2>1
  <2>3. QED
    BY <2>2
<1>3. ASSUME NEW i \in 1..(Len(q) - 1), r[i] \in LevelMsgs, r[i] # m
      PROVE  \E j \in 1..(Len(q) - 1) : j > i /\ r[j] = m
  <2>1. i + 1 \in 1..Len(q) /\ q[i + 1] = r[i] /\ (i + 1) - 1 = i
    BY <1>1
  <2>2. QED
    BY <1>2, <1>3, <2>1
<1>4. Follows(m, r)
  BY <1>1, <1>3 DEF Follows
<1>5. ASSUME Head(q) \in LevelMsgs, Head(q) # m PROVE Waits(m, r)
  <2>1. \E j \in 1..(Len(q) - 1) : r[j] = m
    BY <1>1, <1>2, <1>5
  <2>2. QED
    BY <1>1, <2>1 DEF Waits
<1>6. QED
  BY <1>4, <1>5

LEMMA EmptyQueue == \A m : ~Waits(m, <<>>) /\ Follows(m, <<>>)
BY DEF Waits, Follows

\* What a reset starts with.
LEMMA FreshTyped ==
    /\ Unseen \in [Levels -> Nat] /\ \A l \in Levels : Unseen[l] <= Filter[l]
    /\ NoUnits \in [kind : Cells, count : Nat]
    /\ <<>> \in Seq(Msgs) /\ Len(<<>>) = 0 /\ Len(<<>>) <= MsgMax
<1>1. \A l \in Levels : Filter[l] \in Nat /\ Unseen[l] = 0
  BY FilterAssumption DEF Unseen
<1>2. Unseen \in [Levels -> Nat]
  BY DEF Unseen
<1>3. NoUnits \in [kind : Cells, count : Nat]
  BY DEF NoUnits, Cells
<1>4. <<>> \in Seq(Msgs) /\ Len(<<>>) = 0 /\ Len(<<>>) <= MsgMax
  BY MsgMaxAssumption
<1>5. QED
  BY <1>1, <1>2, <1>3, <1>4

-------------------------------------------------------------------------------
(* Every step keeps the invariant.                                           *)

LEMMA InitKeeps == PowerInit => PInv
<1> SUFFICES ASSUME PowerInit PROVE PInv
  OBVIOUS
<1>1. ChargeTyped
  BY FreshTyped DEF PowerInit, ChargeTyped
<1>2. BatteryTyped /\ QueueTyped
  BY FreshTyped DEF PowerInit, BatteryTyped, QueueTyped, Cells
<1>3. AppTyped
  <2>1. app \in Apps /\ moves \in 0..MoveMax
    BY MoveMaxAssumption DEF PowerInit, Apps, Booting
  <2>2. QED
    BY <2>1 DEF PowerInit, AppTyped
<1>4. Follows(LevelMsg(flag), msgs) /\ ~Waits("CHARGE_FULL", msgs)
  BY EmptyQueue DEF PowerInit
<1>5. QED
  BY <1>1, <1>2, <1>3, <1>4
  DEF PowerInit, PInv, Fresh, Initialised, MadeOut, LastTold, FullIsCharging,
      InHeard, InCharges, KeepHeard, OffHeard

\* A reset and a power-off leave nothing to be remembered.
LEMMA ClearedKeeps ==
    ASSUME PInv, Cleared, UNCHANGED <<level, cell, moves>>,
           charger' \in BOOLEAN, soft' \in BOOLEAN, app' \in {"off", "charge_init"}
    PROVE  PInv'
<1>1. ChargeTyped'
  BY FreshTyped DEF PInv, ChargeTyped, Cleared, DriverCleared
<1>2. BatteryTyped' /\ QueueTyped' /\ AppTyped'
  BY FreshTyped
  DEF PInv, BatteryTyped, QueueTyped, AppTyped, Cleared, VbatCleared, Cells, Apps, Booting
<1>3. Follows(LevelMsg(flag'), msgs') /\ ~Waits("CHARGE_FULL", msgs')
  BY EmptyQueue DEF Cleared
<1>4. LastTold' /\ FullIsCharging'
  BY <1>3 DEF LastTold, FullIsCharging, Cleared, DriverCleared
<1>5. QED
  BY <1>1, <1>2, <1>4
  DEF PInv, Fresh, Initialised, MadeOut, Cleared, DriverCleared, VbatCleared,
      InHeard, InCharges, KeepHeard, OffHeard

LEMMA ResetKeeps ==
    ASSUME PInv, UNCHANGED <<level, cell, moves>>,
           CpuReset \/ \E on \in BOOLEAN : SoftPoweroff(on)
    PROVE  PInv'
<1>1. CASE CpuReset
  BY <1>1, ClearedKeeps DEF CpuReset, PInv, ChargeTyped
<1>2. CASE \E on \in BOOLEAN : SoftPoweroff(on)
  BY <1>2, ClearedKeeps DEF SoftPoweroff
<1>3. QED
  BY <1>1, <1>2

LEMMA StutterKeeps == PInv /\ UNCHANGED powerVars => PInv'
BY DEF PInv, ChargeTyped, BatteryTyped, QueueTyped, AppTyped, Fresh, Initialised, MadeOut,
       LastTold, FullIsCharging, InHeard, InCharges, KeepHeard, OffHeard,
       powerVars, chargeVars, ramVars, vbatVars

LEMMA EnvironmentKeeps == PInv /\ Environment => PInv'
<1> SUFFICES ASSUME PInv, Environment PROVE PInv'
  OBVIOUS
<1>1. moves' \in 0..MoveMax
  BY MoveMaxAssumption DEF PInv, AppTyped, Environment
<1>2. CASE Plug
  <2>1. ChargeTyped' /\ BatteryTyped' /\ QueueTyped'
    BY <1>2 DEF PInv, ChargeTyped, BatteryTyped, QueueTyped, Plug, LdoinWakeup, vbatVars
  <2>2. AppTyped'
    BY <1>1, <1>2 DEF PInv, AppTyped, Plug, Apps, Booting
  <2>3. Fresh' /\ Initialised'
    BY <1>2 DEF PInv, Fresh, Initialised, AppTyped, Plug, LdoinWakeup, vbatVars
  <2>4. MadeOut'
    BY <1>2 DEF PInv, MadeOut, Initialised, ChargeTyped, Plug, LdoinWakeup
  <2>5. (LastTold /\ FullIsCharging /\ InHeard /\ InCharges /\ KeepHeard /\ OffHeard)'
    BY <1>2 DEF PInv, LastTold, FullIsCharging, InHeard, InCharges, KeepHeard, OffHeard, Plug
  <2>6. QED
    BY <2>1, <2>2, <2>3, <2>4, <2>5 DEF PInv
<1>3. CASE Battery
  BY <1>1, <1>3
  DEF PInv, ChargeTyped, BatteryTyped, QueueTyped, AppTyped, Fresh, Initialised, MadeOut,
      LastTold, FullIsCharging, InHeard, InCharges, KeepHeard, OffHeard,
      Battery, chargeVars, ramVars, vbatVars
<1>4. CASE PowerKey
  <2>1. ChargeTyped' /\ BatteryTyped' /\ QueueTyped'
    BY <1>4 DEF PInv, ChargeTyped, BatteryTyped, QueueTyped, PowerKey, chargeVars, ramVars, vbatVars
  <2>2. AppTyped'
    BY <1>1, <1>4 DEF PInv, AppTyped, PowerKey, Apps, Booting
  <2>3. QED
    BY <1>4, <2>1, <2>2
    DEF PInv, Fresh, Initialised, MadeOut, LastTold, FullIsCharging, InHeard, InCharges,
        KeepHeard, OffHeard, PowerKey, chargeVars, ramVars, vbatVars
<1>5. QED
  BY <1>2, <1>3, <1>4 DEF Environment

LEMMA BootChargeKeeps ==
    ASSUME PInv, BootCharge, UNCHANGED <<cell, moves>>
    PROVE  PInv'
<1>1. CASE app = "charge_init" /\ ChargeInit /\ To("init_ok") /\ UNCHANGED <<vbatVars, ldo>>
  <2>1. ChargeTyped' /\ BatteryTyped' /\ QueueTyped'
    BY <1>1 DEF PInv, ChargeTyped, BatteryTyped, QueueTyped, ChargeInit, To, vbatVars, Levels
  <2>2. AppTyped'
    BY <1>1 DEF PInv, AppTyped, To, Apps, Booting
  <2>3. LastTold' /\ FullIsCharging'
    BY <1>1, EmptyQueue DEF PInv, Fresh, LastTold, FullIsCharging, ChargeInit
  <2>4. Fresh' /\ Initialised' /\ MadeOut' /\ (InHeard /\ InCharges /\ KeepHeard /\ OffHeard)'
    BY <1>1
    DEF PInv, Fresh, Initialised, MadeOut, InHeard, InCharges, KeepHeard, OffHeard, ChargeInit, To
  <2>5. QED
    BY <2>1, <2>2, <2>3, <2>4 DEF PInv
<1>2. CASE /\ app = "init_ok" /\ ChargeInitOk
           /\ To(IF online THEN "devices" ELSE "voltage") /\ UNCHANGED <<vbatVars, ldo>>
  <2>1. ChargeTyped' /\ BatteryTyped' /\ QueueTyped'
    BY <1>2 DEF PInv, ChargeTyped, BatteryTyped, QueueTyped, ChargeInitOk, To, vbatVars
  <2>2. app' \in {"devices", "voltage"} /\ early' \in BOOLEAN
    BY <1>2 DEF To
  <2>3. AppTyped'
    BY <1>2, <2>2 DEF PInv, AppTyped, To, Apps, Booting
  <2>4. QED
    BY <1>2, <2>1, <2>2, <2>3
    DEF PInv, Fresh, Initialised, MadeOut, LastTold, FullIsCharging, InHeard, InCharges,
        KeepHeard, OffHeard, ChargeInitOk, To, vbatVars
<1>3. QED
  BY <1>1, <1>2 DEF BootCharge

\* A step of the start behind charge_init that leaves the driver as it is.
LEMMA ToKeeps ==
    ASSUME PInv, NEW a \in Booting \ {"charge_init", "init_ok"}, app = a,
           NEW b \in (Booting \ {"charge_init", "init_ok"}) \cup {"charge", "tone"}, To(b),
           UNCHANGED <<chargeVars, cell, moves>>,
           ldo' \in BOOLEAN, UNCHANGED vbatVars \/ VbatCheckInit
    PROVE  PInv'
<1>1. ChargeTyped' /\ QueueTyped'
  BY DEF PInv, ChargeTyped, QueueTyped, chargeVars, ramVars
<1>2. BatteryTyped'
  BY DEF PInv, BatteryTyped, vbatVars, VbatCheckInit
<1>3. AppTyped'
  BY DEF PInv, AppTyped, To, Apps, Booting
<1>4. a \notin {"off", "charge_init", "init_ok", "charge", "tone", "normal", "keep", "leaving"}
  BY DEF Booting
<1>5. b \notin {"off", "charge_init", "init_ok"}
  BY DEF Booting
<1>6. ~userReady /\ flag \in {"none", "off"}
  BY <1>4 DEF PInv, Initialised
<1>7. QED
  BY <1>1, <1>2, <1>3, <1>4, <1>5, <1>6
  DEF PInv, Fresh, Initialised, MadeOut, LastTold, FullIsCharging, InHeard, InCharges,
      KeepHeard, OffHeard, To, chargeVars, ramVars

LEMMA BootVoltageKeeps ==
    ASSUME PInv, BootVoltage \/ (app = "app_main" /\ BootMain), UNCHANGED <<cell, moves>>
    PROVE  PInv'
<1> USE DEF Booting
<1>1. ASSUME NEW a \in {"voltage", "app_init"}, app = a,
             NEW b \in {"devices", "app_main"}, CheckPowerOnVoltage(b)
      PROVE  PInv'
  <2>1. CASE To(b) /\ VbatCheckInit /\ UNCHANGED <<chargeVars, ldo>>
    BY <1>1, <2>1, ToKeeps DEF PInv, AppTyped
  <2>2. CASE SoftPoweroff(charger) /\ UNCHANGED level
    BY <2>2, ResetKeeps DEF PInv, ChargeTyped
  <2>3. QED
    BY <1>1, <2>1, <2>2 DEF CheckPowerOnVoltage
<1>2. CASE app = "devices" /\ ldo' = online /\ To("app_init") /\ UNCHANGED <<vbatVars, chargeVars>>
  BY <1>2, ToKeeps DEF PInv, ChargeTyped
<1>3. CASE app = "app_init" /\ online /\ To("app_main") /\ UNCHANGED <<vbatVars, chargeVars, ldo>>
  BY <1>3, ToKeeps DEF PInv, AppTyped
<1>4. CASE app = "app_main" /\ BootMain
  <2>1. CASE To("charge") /\ VbatCheckInit /\ UNCHANGED <<chargeVars, ldo>>
    BY <1>4, <2>1, ToKeeps DEF PInv, AppTyped
  <2>2. CASE To("tone") /\ UNCHANGED <<vbatVars, chargeVars, ldo>>
    BY <1>4, <2>2, ToKeeps DEF PInv, AppTyped
  <2>3. QED
    BY <1>4, <2>1, <2>2 DEF BootMain
<1>5. QED
  BY <1>1, <1>2, <1>3, <1>4 DEF BootVoltage

LEMMA BootMainKeeps ==
    ASSUME PInv, BootMain \/ ToneEnds, app # "app_main", UNCHANGED <<cell, moves>>
    PROVE  PInv'
<1>1. CASE BootMain
  <2>1. /\ app \in {"charge", "tone"} /\ userReady' = TRUE
        /\ UNCHANGED <<level, charger, online, flag, initOk, scan, seen, fullWake, ccTimer,
                       fullTimer, msgs, app, soft, ldo, exitTimer, keepTimer, missed, early>>
        /\ UNCHANGED <<slow, fast, bat, units, warned, warnTimer>>
    BY <1>1 DEF BootMain, vbatVars
  <2>2. ChargeTyped' /\ BatteryTyped'
    BY <2>1 DEF PInv, ChargeTyped, BatteryTyped
  <2>3. QueueTyped' /\ AppTyped'
    BY <2>1 DEF PInv, QueueTyped, AppTyped
  <2>4. QED
    BY <2>1, <2>2, <2>3
    DEF PInv, Fresh, Initialised, MadeOut, LastTold, FullIsCharging, InHeard, InCharges,
        KeepHeard, OffHeard
<1>2. CASE ToneEnds
  <2>1. ChargeTyped' /\ BatteryTyped' /\ QueueTyped'
    BY <1>2 DEF PInv, ChargeTyped, BatteryTyped, QueueTyped, ToneEnds, vbatVars, chargeVars, ramVars
  <2>2. AppTyped'
    BY <1>2 DEF PInv, AppTyped, ToneEnds, To, Apps, Booting
  <2>3. QED
    BY <1>2, <2>1, <2>2
    DEF PInv, Fresh, Initialised, MadeOut, LastTold, FullIsCharging, InHeard, InCharges,
        KeepHeard, OffHeard, ToneEnds, To, vbatVars, chargeVars, ramVars
<1>3. QED
  BY <1>1, <1>2

-------------------------------------------------------------------------------
(* app_core's events and timers, and the interrupts.                         *)

\* An event taken: what waited behind it waits still.
LEMMA TookFacts ==
    ASSUME PInv, NEW m \in Msgs, Took(m)
    PROVE  /\ msgs \in Seq(Msgs) /\ msgs # <<>> /\ Head(msgs) = m /\ Waits(m, msgs)
           /\ Tail(msgs) \in Seq(Msgs) /\ Len(Tail(msgs)) = Len(msgs) - 1
           /\ \A x : /\ Waits(x, Tail(msgs)) => Waits(x, msgs)
                     /\ (Waits(x, msgs) /\ x # m) => Waits(x, Tail(msgs))
           /\ Follows(LevelMsg(flag), Tail(msgs))
           /\ (m \in LevelMsgs /\ m # LevelMsg(flag)) => Waits(LevelMsg(flag), Tail(msgs))
           /\ app \in {"normal", "charge"} /\ userReady
BY TailWaits, FollowsTail DEF PInv, QueueTyped, LastTold, Took, Serving

\* The same with another event, not of a level, posted by its handler.
LEMMA TookAndPosted ==
    ASSUME PInv, NEW m \in Msgs, Took(m), NEW p \in Msgs \ LevelMsgs,
           msgs' = Append(Tail(msgs), p), flag' = flag
    PROVE  /\ QueueTyped' /\ LastTold' /\ Waits(p, msgs')
           /\ \A x : Waits(x, msgs') <=> (Waits(x, Tail(msgs)) \/ x = p)
<1>1. msgs' \in Seq(Msgs) /\ Len(msgs') = Len(msgs)
  BY TookFacts, AppendWaits, LenProperties
<1>2. \A x : Waits(x, msgs') <=> (Waits(x, Tail(msgs)) \/ x = p)
  BY TookFacts, AppendWaits
<1>3. Follows(LevelMsg(flag), msgs')
  BY TookFacts, FollowsOther
<1>4. QED
  BY <1>1, <1>2, <1>3 DEF PInv, QueueTyped, LastTold

\* The same with nothing posted.
LEMMA TookOnly ==
    ASSUME PInv, NEW m \in Msgs, Took(m), msgs' = Tail(msgs), flag' = flag
    PROVE  QueueTyped' /\ LastTold'
<1>1. Len(msgs') <= MsgMax
  BY TookFacts, LenProperties, MsgMaxAssumption DEF PInv, QueueTyped
<1>2. QED
  BY <1>1, TookFacts DEF QueueTyped, LastTold

\* The driver's part of the state is left alone by most handlers.
LEMMA StayTyped ==
    ASSUME PInv, UNCHANGED <<level, online, flag, userReady, initOk, scan, seen,
                             charger, fullWake, ccTimer, fullTimer, soft, missed, early, moves>>,
           app' \in Apps, ldo' \in BOOLEAN, exitTimer' \in BOOLEAN, keepTimer' \in BOOLEAN
    PROVE  ChargeTyped' /\ AppTyped'
BY DEF PInv, ChargeTyped, AppTyped

LEMMA Ldo5vInKeeps ==
    ASSUME PInv, Ldo5vIn, UNCHANGED <<cell, moves>>
    PROVE  PInv'
<1> DEFINE m == "LDO5V_IN"
<1>0. m \in Msgs /\ m \in LevelMsgs /\ Took(m)
  BY DEF Msgs, ChargeMsgs, LevelMsgs, Ldo5vIn
<1>1. CASE /\ app = "normal" /\ exitTimer' = TRUE /\ keepTimer' = FALSE /\ msgs' = Tail(msgs)
           /\ Stay /\ DriverStays /\ UNCHANGED <<vbatVars, ldo>>
  <2>1. QueueTyped' /\ LastTold'
    BY <1>0, <1>1, TookOnly DEF Stay
  <2>2. ChargeTyped' /\ AppTyped' /\ BatteryTyped'
    BY <1>1, StayTyped DEF PInv, AppTyped, BatteryTyped, Stay, DriverStays, vbatVars
  <2>3. FullIsCharging'
    BY <1>0, <1>1, TookFacts DEF PInv, FullIsCharging, Stay, DriverStays
  <2>4. QED
    BY <1>1, <2>1, <2>2, <2>3
    DEF PInv, Fresh, Initialised, MadeOut, InHeard, InCharges, KeepHeard, OffHeard,
        Stay, DriverStays, vbatVars
<1>2. CASE /\ app = "charge" /\ soft /\ keepTimer' = FALSE /\ ChargeStart
           /\ msgs' = Append(Tail(msgs), "CHARGE_START")
           /\ Stay /\ UNCHANGED <<vbatVars, ldo, exitTimer>>
  <2>1. "CHARGE_START" \in Msgs \ LevelMsgs
    BY DEF Msgs, ChargeMsgs, LevelMsgs
  <2>2. /\ QueueTyped' /\ LastTold' /\ Waits("CHARGE_START", msgs')
        /\ \A x : Waits(x, Tail(msgs)) => Waits(x, msgs')
    BY <1>0, <1>2, <2>1, TookAndPosted DEF Stay
  <2>3. ChargeTyped'
    BY <1>2 DEF PInv, ChargeTyped, Stay, ChargeStart
  <2>4. AppTyped' /\ BatteryTyped'
    BY <1>2 DEF PInv, AppTyped, BatteryTyped, Stay, vbatVars
  <2>5. FullIsCharging' /\ InCharges' /\ InHeard'
    BY <1>2, <2>2 DEF FullIsCharging, InCharges, InHeard, ChargeStart, Stay
  <2>6. KeepHeard' /\ OffHeard'
    <3>1. Waits(LevelMsg(flag), msgs') \/ flag \notin {"keep", "off"}
      BY <1>0, <2>2, TookFacts, LevelMsgFacts
    <3>2. QED
      BY <1>2, <3>1, LevelMsgFacts DEF KeepHeard, OffHeard, Stay
  <2>7. Fresh' /\ Initialised' /\ MadeOut'
    BY <1>2 DEF PInv, Fresh, Initialised, MadeOut, Stay
  <2>8. QED
    BY <2>2, <2>3, <2>4, <2>5, <2>6, <2>7 DEF PInv
<1>3. CASE CpuReset /\ UNCHANGED level
  BY <1>3, ResetKeeps
<1>4. QED
  BY <1>1, <1>2, <1>3 DEF Ldo5vIn

LEMMA PowersOff ==
    ASSUME PInv, Ldo5vOff \/ ChargeFull, UNCHANGED <<cell, moves>>
    PROVE  PInv'
<1>1. ChargerAfterClose \in BOOLEAN /\ charger \in BOOLEAN
  BY DEF PInv, ChargeTyped, ChargerAfterClose
<1>2. QED
  BY <1>1, ResetKeeps DEF Ldo5vOff, ChargeFull

LEMMA Ldo5vKeepKeeps ==
    ASSUME PInv, Ldo5vKeep, UNCHANGED <<cell, moves>>
    PROVE  PInv'
<1> DEFINE m == "LDO5V_KEEP"
<1>1. m \in Msgs /\ m \in LevelMsgs /\ Took(m)
  BY DEF Msgs, ChargeMsgs, LevelMsgs, Ldo5vKeep
<1>2. QueueTyped' /\ LastTold'
  BY <1>1, TookOnly DEF Ldo5vKeep, Stay
<1>3. ChargeTyped' /\ AppTyped' /\ BatteryTyped'
  BY StayTyped DEF PInv, AppTyped, BatteryTyped, Ldo5vKeep, Stay, DriverStays, vbatVars
<1>4. FullIsCharging'
  BY <1>1, TookFacts DEF PInv, FullIsCharging, Ldo5vKeep, Stay, DriverStays
<1>5. InHeard' /\ InCharges' /\ KeepHeard' /\ OffHeard'
  <2>1. Waits(LevelMsg(flag), msgs') \/ flag = "keep"
    BY <1>1, TookFacts, LevelMsgFacts DEF Ldo5vKeep, PInv, ChargeTyped, Levels
  <2>2. QED
    BY <2>1, LevelMsgFacts DEF InHeard, InCharges, KeepHeard, OffHeard, Ldo5vKeep, Stay
<1>6. QED
  BY <1>2, <1>3, <1>4, <1>5
  DEF PInv, Fresh, Initialised, MadeOut, Ldo5vKeep, Stay, DriverStays, vbatVars, Took, Serving

LEMMA NoticesKeep ==
    ASSUME PInv, ChargeStarted \/ PowerNotice \/ PowerLow \/ Poweroff, UNCHANGED <<cell, moves>>
    PROVE  PInv'
<1>1. PICK m \in Msgs \ LevelMsgs : Took(m) /\ m # "CHARGE_FULL"
  BY DEF ChargeStarted, PowerNotice, PowerLow, Poweroff, Msgs, ChargeMsgs, PowerMsgs, LevelMsgs
<1>2. /\ \A x : (Waits(x, msgs) /\ x # m) => Waits(x, msgs')
      /\ Waits("CHARGE_FULL", msgs') => Waits("CHARGE_FULL", msgs)
      /\ QueueTyped' /\ LastTold'
  <2>1. CASE msgs' = Tail(msgs) /\ flag' = flag
    BY <1>1, <2>1, TookOnly, TookFacts
  <2>2. CASE PowerLow
    <3>1. "POWEROFF" \in Msgs \ LevelMsgs
      BY DEF Msgs, ChargeMsgs, LevelMsgs
    <3>2. msgs' = Append(Tail(msgs), "POWEROFF") /\ flag' = flag
      BY <2>2 DEF PowerLow, Stay
    <3>3. QED
      BY <1>1, <3>1, <3>2, TookAndPosted, TookFacts
  <2>3. QED
    BY <2>1, <2>2 DEF ChargeStarted, PowerNotice, Poweroff, Stay
<1>3. /\ UNCHANGED <<level, online, flag, userReady, initOk, scan, seen, soft, missed, early,
                     charger, fullWake, ccTimer, fullTimer, exitTimer, keepTimer>>
      /\ ldo' \in {ldo, TRUE}
  BY DEF ChargeStarted, PowerNotice, PowerLow, Poweroff, Stay, DriverStays
<1>4. BatteryTyped'
  BY DEF PInv, BatteryTyped, ChargeStarted, PowerNotice, PowerLow, Poweroff, VbatTimerDelete, vbatVars
<1>5. app \in {"normal", "charge"} /\ app' \in {app, "leaving"} /\ app' \in Apps
  BY <1>1, TookFacts
  DEF PInv, AppTyped, ChargeStarted, PowerNotice, PowerLow, Poweroff, Stay, Apps, Booting
<1>6. ChargeTyped' /\ AppTyped'
  <2>1. ldo' \in BOOLEAN
    BY <1>3 DEF PInv, AppTyped
  <2>2. QED
    BY <1>3, <1>5, <2>1, StayTyped DEF PInv, AppTyped
<1>7. InCharges'
  <2>1. m = "CHARGE_START" => ldo'
    BY <1>1 DEF ChargeStarted, PowerNotice, PowerLow, Poweroff, Took
  <2>2. m # "LDO5V_IN"
    BY <1>1 DEF LevelMsgs
  <2>3. QED
    BY <1>2, <1>3, <1>5, <2>1, <2>2 DEF PInv, InCharges
<1>8. InHeard' /\ KeepHeard' /\ OffHeard'
  <2>1. m \notin {"LDO5V_IN", "LDO5V_KEEP", "LDO5V_OFF"}
    BY <1>1 DEF LevelMsgs
  <2>2. QED
    BY <1>2, <1>3, <1>5, <2>1 DEF PInv, InHeard, KeepHeard, OffHeard
<1>9. Fresh' /\ Initialised' /\ MadeOut' /\ FullIsCharging'
  BY <1>2, <1>3, <1>5, <1>1, TookFacts DEF PInv, Fresh, Initialised, MadeOut, FullIsCharging
<1>10. QED
  BY <1>2, <1>4, <1>6, <1>7, <1>8, <1>9 DEF PInv

LEMMA TakeMsgKeeps == PInv /\ TakeMsg => PInv'
BY Ldo5vInKeeps, PowersOff, Ldo5vKeepKeeps, NoticesKeep DEF TakeMsg

\* An event not of a level is posted.
LEMMA PostedKeeps ==
    ASSUME PInv, NEW p \in Msgs \ LevelMsgs, Notify(p), flag' = flag
    PROVE  /\ QueueTyped' /\ LastTold'
           /\ \A x : Waits(x, msgs') <=> (Waits(x, msgs) \/ x = p)
BY AppendWaits, FollowsOther, MsgMaxAssumption, LenProperties DEF PInv, QueueTyped, LastTold, Notify

\* Steps of the timers and of the battery's watch: the driver stays, and a level's
\* event that waits waits on.
LEMMA WatchKeeps ==
    ASSUME PInv, BatteryTyped', app \notin {"off", "charge_init"},
           UNCHANGED <<level, charger, ramVars, app, soft, ldo, exitTimer, keepTimer,
                       missed, early, moves>>,
           msgs' = msgs \/ \E p \in Msgs \ (LevelMsgs \cup {"CHARGE_FULL"}) : Notify(p)
    PROVE  PInv'
<1>1. /\ QueueTyped' /\ LastTold'
      /\ \A x : Waits(x, msgs) => Waits(x, msgs')
      /\ Waits("CHARGE_FULL", msgs') => Waits("CHARGE_FULL", msgs)
  <2>1. CASE msgs' = msgs
    BY <2>1 DEF PInv, QueueTyped, LastTold, ramVars
  <2>2. CASE \E p \in Msgs \ (LevelMsgs \cup {"CHARGE_FULL"}) : Notify(p)
    BY <2>2, PostedKeeps DEF ramVars
  <2>3. QED
    BY <2>1, <2>2
<1>2. ChargeTyped' /\ AppTyped'
  BY DEF PInv, ChargeTyped, AppTyped, ramVars
<1>3. QED
  BY <1>1, <1>2
  DEF PInv, Fresh, Initialised, MadeOut, FullIsCharging, InHeard, InCharges, KeepHeard,
      OffHeard, ramVars

LEMMA AppTimerKeeps == PInv /\ (AppTimer \/ KeepEnds \/ PoweroffToneEnds) => PInv'
<1> SUFFICES ASSUME PInv, AppTimer \/ KeepEnds \/ PoweroffToneEnds PROVE PInv'
  OBVIOUS
<1>1. CASE WaitExit
  BY <1>1, ResetKeeps DEF WaitExit
<1>2. CASE KeepEnds
  BY <1>2, ResetKeeps DEF KeepEnds, PInv, ChargeTyped
<1>3. CASE PoweroffToneEnds
  BY <1>3, ResetKeeps DEF PoweroffToneEnds, PInv, ChargeTyped
<1>4. CASE KeepDelay
  <2>1. ChargeTyped' /\ BatteryTyped' /\ QueueTyped'
    BY <1>4 DEF PInv, ChargeTyped, BatteryTyped, QueueTyped, KeepDelay, chargeVars, ramVars, vbatVars
  <2>2. AppTyped'
    BY <1>4 DEF PInv, AppTyped, KeepDelay, Apps, Booting
  <2>3. QED
    BY <1>4, <2>1, <2>2
    DEF PInv, Fresh, Initialised, MadeOut, LastTold, FullIsCharging, InHeard, InCharges,
        KeepHeard, OffHeard, KeepDelay, Serving, chargeVars, ramVars, vbatVars
<1>5. CASE VbatCheckSlow
  <2>1. BatteryTyped'
    BY <1>5 DEF PInv, BatteryTyped, VbatCheckSlow, chargeVars
  <2>2. QED
    BY <1>5, <2>1, WatchKeeps DEF VbatCheckSlow, Serving, chargeVars
<1>6. CASE WarnAgain
  <2>1. BatteryTyped'
    BY <1>6 DEF PInv, BatteryTyped, WarnAgain, vbatVars
  <2>2. "POWER_WARNING" \in Msgs \ (LevelMsgs \cup {"CHARGE_FULL"})
    BY DEF Msgs, PowerMsgs, ChargeMsgs, LevelMsgs
  <2>3. QED
    BY <1>6, <2>1, <2>2, WatchKeeps DEF WarnAgain, Serving
<1>7. QED
  BY <1>1, <1>2, <1>3, <1>4, <1>5, <1>6 DEF AppTimer

\* A sample of the input: it is counted, or the level counts.
LEMMA DetectKeeps ==
    ASSUME PInv, Ldo5vDetect, UNCHANGED <<cell, vbatVars, app, soft, ldo, exitTimer, keepTimer,
                                          missed, early, moves>>
    PROVE  PInv'
<1>1. app \notin {"off", "charge_init"}
  BY DEF PInv, Fresh, Ldo5vDetect
<1>2. BatteryTyped' /\ AppTyped'
  BY DEF PInv, BatteryTyped, AppTyped, vbatVars
<1>3. CASE /\ seen[level] < Filter[level]
           /\ seen' = [seen EXCEPT ![level] = @ + 1]
           /\ UNCHANGED <<online, scan, flag, msgs>>
  <2>0. /\ level \in Levels /\ seen \in [Levels -> Nat] /\ \A l \in Levels : seen[l] <= Filter[l]
        /\ \A l \in Levels : Filter[l] \in Nat
    BY FilterAssumption DEF PInv, ChargeTyped
  <2>1. seen' \in [Levels -> Nat] /\ \A l \in Levels : seen'[l] <= Filter[l]
    <3>1. seen[level] \in Nat /\ seen[level] + 1 <= Filter[level] /\ seen[level] + 1 \in Nat
      <4>1. seen[level] \in Nat /\ Filter[level] \in Nat
        BY <2>0
      <4>2. QED
        BY <1>3, <4>1
    <3>2. \A l \in Levels : seen'[l] = IF l = level THEN seen[level] + 1 ELSE seen[l]
      BY <1>3, <2>0
    <3>3. seen' \in [Levels -> Nat]
      BY <1>3, <2>0, <3>1
    <3>4. QED
      BY <2>0, <3>1, <3>2, <3>3
  <2>2. ChargeTyped' /\ QueueTyped'
    BY <1>3, <2>1 DEF PInv, ChargeTyped, QueueTyped, Ldo5vDetect
  <2>3. QED
    BY <1>1, <1>2, <1>3, <2>2
    DEF PInv, Fresh, Initialised, MadeOut, LastTold, FullIsCharging, InHeard, InCharges,
        KeepHeard, OffHeard, Ldo5vDetect
<1>4. CASE Counted /\ ~userReady
  <2>1. /\ seen' = [Unseen EXCEPT ![level] = seen[level]]
        /\ online' = (level # "off") /\ UNCHANGED <<scan, flag, msgs>>
    BY <1>4 DEF Counted
  <2>2. seen' \in [Levels -> Nat] /\ \A l \in Levels : seen'[l] <= Filter[l]
    BY <2>1, FreshTyped DEF PInv, ChargeTyped
  <2>3. ChargeTyped' /\ QueueTyped'
    BY <2>1, <2>2 DEF PInv, ChargeTyped, QueueTyped, Ldo5vDetect
  <2>4. QED
    BY <1>1, <1>2, <2>1, <2>3
    DEF PInv, Fresh, Initialised, MadeOut, LastTold, FullIsCharging, InHeard, InCharges,
        KeepHeard, OffHeard, Ldo5vDetect
<1>5. CASE Counted /\ userReady
  <2>1. /\ online' = (level # "off") /\ scan' = FALSE /\ seen' = Unseen /\ flag' = level
        /\ UNCHANGED <<level, charger, userReady, initOk, fullWake, ccTimer, fullTimer>>
    BY <1>5 DEF Counted, Ldo5vDetect
  <2>2. ChargeTyped'
    BY <2>1, FreshTyped DEF PInv, ChargeTyped
  <2>3. Fresh' /\ Initialised' /\ MadeOut'
    BY <1>1, <1>5, <2>1 DEF PInv, Fresh, Initialised, MadeOut
  <2>4. CASE flag = level /\ msgs' = msgs
    BY <1>1, <1>2, <2>1, <2>2, <2>3, <2>4
    DEF PInv, QueueTyped, LastTold, FullIsCharging, InHeard, InCharges, KeepHeard, OffHeard
  <2>5. CASE Notify(LevelMsg(level))
    <3>1. level \in Levels /\ LevelMsg(level) \in Msgs \cap LevelMsgs
      BY LevelMsgFacts DEF PInv, ChargeTyped, Levels, Msgs, ChargeMsgs, LevelMsgs
    <3>2. /\ QueueTyped' /\ Waits(LevelMsg(level), msgs')
          /\ \A x : Waits(x, msgs') <=> (Waits(x, msgs) \/ x = LevelMsg(level))
      BY <2>5, <3>1, AppendWaits, MsgMaxAssumption, LenProperties DEF PInv, QueueTyped, Notify
    <3>3. LastTold'
      BY <2>1, <2>5, <3>1, FollowsTold DEF PInv, QueueTyped, LastTold, Notify
    <3>4. FullIsCharging'
      BY <2>1, <3>1, <3>2 DEF PInv, FullIsCharging, LevelMsgs
    <3>5. InHeard' /\ InCharges' /\ KeepHeard' /\ OffHeard'
      BY <2>1, <3>2, LevelMsgFacts DEF InHeard, InCharges, KeepHeard, OffHeard
    <3>6. QED
      BY <1>2, <2>2, <2>3, <3>2, <3>3, <3>4, <3>5 DEF PInv
  <2>6. QED
    BY <1>5, <2>4, <2>5 DEF Counted
<1>6. QED
  BY <1>3, <1>4, <1>5 DEF Ldo5vDetect

\* The detections of the end of a charge.
LEMMA FullKeeps ==
    ASSUME PInv, ChargeCcCheck \/ ChargeWakeup \/ ChargeFullDetect,
           UNCHANGED <<cell, vbatVars, app, soft, ldo, exitTimer, keepTimer, missed, early, moves>>
    PROVE  PInv'
<1>1. charger /\ app \notin {"off", "charge_init"}
  BY DEF PInv, Fresh, FullIsCharging, ChargeCcCheck, ChargeWakeup, ChargeFullDetect
<1>2. BatteryTyped' /\ AppTyped'
  BY DEF PInv, BatteryTyped, AppTyped, vbatVars
<1>3. /\ UNCHANGED <<level, charger, online, flag, userReady, initOk, scan, seen>>
      /\ msgs' = msgs \/ Notify("CHARGE_FULL")
  BY DEF ChargeCcCheck, ChargeWakeup, ChargeFullDetect
<1>4. ChargeTyped'
  BY <1>3 DEF PInv, ChargeTyped, ChargeCcCheck, ChargeWakeup, ChargeFullDetect
<1>5. "CHARGE_FULL" \in Msgs \ LevelMsgs
  BY DEF Msgs, ChargeMsgs, LevelMsgs
<1>6. /\ QueueTyped' /\ LastTold'
      /\ \A x : Waits(x, msgs) => Waits(x, msgs')
  <2>1. CASE msgs' = msgs
    BY <1>3, <2>1 DEF PInv, QueueTyped, LastTold
  <2>2. CASE Notify("CHARGE_FULL")
    BY <1>3, <1>5, <2>2, PostedKeeps
  <2>3. QED
    BY <1>3, <2>1, <2>2
<1>7. QED
  BY <1>1, <1>2, <1>3, <1>4, <1>6
  DEF PInv, Fresh, Initialised, MadeOut, FullIsCharging, InHeard, InCharges, KeepHeard, OffHeard

\* A unit of the battery's watch.
LEMMA VbatCheckKeeps ==
    ASSUME PInv, VbatCheck, UNCHANGED <<level, charger, ramVars, app, soft, ldo, exitTimer,
                                        keepTimer, missed, early, moves>>
    PROVE  PInv'
<1>1. app \notin {"off", "charge_init"}
  BY DEF PInv, Fresh, VbatCheck
<1>2. msgs' = msgs \/ \E p \in PowerMsgs : Notify(p)
  BY DEF VbatCheck, JudgedLow, JudgedWeak, JudgedNormal, PowerMsgs
<1>3. PowerMsgs \subseteq Msgs \ (LevelMsgs \cup {"CHARGE_FULL"})
  BY DEF Msgs, PowerMsgs, ChargeMsgs, LevelMsgs
<1>4. InARow \in Nat
  BY DEF InARow, PInv, BatteryTyped
<1>5. BatteryTyped'
  <2>1. /\ slow' \in BOOLEAN /\ warnTimer' \in BOOLEAN /\ cell' \in Cells
        /\ bat \in Cells /\ units \in [kind : Cells, count : Nat]
        /\ fast \in BOOLEAN /\ warned \in BOOLEAN
    BY DEF PInv, BatteryTyped, VbatCheck
  <2>2. \A k \in Cells, c \in Nat : [kind |-> k, count |-> c] \in [kind : Cells, count : Nat]
    OBVIOUS
  <2>3. CASE JudgedLow
    <3>1. /\ units' \in {[kind |-> "low", count |-> 0], [kind |-> "low", count |-> InARow]}
          /\ bat' = "low" /\ fast' \in {fast, FALSE} /\ warned' = warned
      BY <2>3 DEF JudgedLow
    <3>2. QED
      BY <1>4, <2>1, <2>2, <3>1 DEF BatteryTyped, Cells
  <2>4. CASE JudgedWeak
    <3>1. /\ units' \in {[kind |-> "warn", count |-> 0], [kind |-> "warn", count |-> InARow]}
          /\ bat' = "warn" /\ fast' = FALSE /\ warned' \in {warned, TRUE}
      BY <2>4 DEF JudgedWeak
    <3>2. QED
      BY <1>4, <2>1, <2>2, <3>1 DEF BatteryTyped, Cells
  <2>5. CASE JudgedNormal
    <3>1. /\ units' \in {[kind |-> "normal", count |-> NormalUnits],
                         [kind |-> "normal", count |-> InARow]}
          /\ bat' \in {"normal", bat} /\ fast' \in BOOLEAN /\ warned' = warned
      BY <2>5 DEF JudgedNormal
    <3>2. QED
      BY <1>4, <2>1, <2>2, <3>1, UnitsAssumption DEF BatteryTyped, Cells
  <2>6. CASE fast' = (bat = "low") /\ UNCHANGED <<bat, units, warned>>
    BY <2>1, <2>6 DEF BatteryTyped
  <2>7. QED
    BY <2>3, <2>4, <2>5, <2>6 DEF VbatCheck
<1>6. QED
  BY <1>1, <1>2, <1>3, <1>5, WatchKeeps

LEMMA InterruptKeeps == PInv /\ Interrupt => PInv'
BY DetectKeeps, FullKeeps, VbatCheckKeeps DEF Interrupt, DriverInterrupt

LEMMA BootKeeps == PInv /\ Boot => PInv'
<1> SUFFICES ASSUME PInv, Boot PROVE PInv'
  OBVIOUS
<1>1. UNCHANGED <<cell, moves>>
  BY DEF Boot
<1>2. CASE BootCharge
  BY <1>1, <1>2, BootChargeKeeps
<1>3. CASE BootVoltage \/ (app = "app_main" /\ BootMain)
  BY <1>1, <1>3, BootVoltageKeeps
<1>4. CASE BootMain /\ app # "app_main"
  BY <1>1, <1>4, BootMainKeeps
<1>5. CASE ToneEnds
  <2>1. app # "app_main"
    BY <1>5 DEF ToneEnds
  <2>2. QED
    BY <1>1, <1>5, <2>1, BootMainKeeps
<1>6. QED
  BY <1>2, <1>3, <1>4, <1>5 DEF Boot

LEMMA NextKeeps == PInv /\ [PowerNext]_powerVars => PInv'
BY EnvironmentKeeps, BootKeeps, TakeMsgKeeps, AppTimerKeeps, InterruptKeeps, StutterKeeps
DEF PowerNext, AppStep


\* The invariant holds in every reachable state of the earphone's power management.
THEOREM PowerInductive == PowerSpec => []PInv
<1>1. PowerInit => PInv
  BY InitKeeps
<1>2. PInv /\ [PowerNext]_powerVars => PInv'
  BY NextKeeps
<1>3. QED
  BY <1>1, <1>2, PTL DEF PowerSpec

-------------------------------------------------------------------------------
(* What the invariant says about the running earphone.                       *)

LEMMA PInvTyped == PInv => PowTypeOK
BY DEF PInv, ChargeTyped, BatteryTyped, QueueTyped, AppTyped, PowTypeOK, ChargeTypeOK, VbatTypeOK

\* With every event served, each of the promises about them has come due.
LEMMA PInvFollows == PInv => ChargerFollowsPlug
<1> SUFFICES ASSUME PInv, Settled, ~missed, ~Unplugged
             PROVE  \/ app = "normal" /\ level = "off" /\ ~online
                    \/ app = "charge" /\ level = "in" /\ online /\ charger /\ ldo
  BY DEF ChargerFollowsPlug
<1>1. \A m : ~Waits(m, msgs)
  BY EmptyQueue DEF Settled
<1>2. app \in {"normal", "charge"} /\ ~exitTimer /\ ~keepTimer
  BY DEF Settled, Serving
<1>3. flag = level /\ online = (level # "off") /\ level \in {"off", "keep", "in"}
  BY <1>2 DEF PInv, MadeOut, ChargeTyped, Levels, Settled
<1>4. CASE app = "normal"
  BY <1>1, <1>2, <1>3, <1>4 DEF PInv, InHeard, KeepHeard
<1>5. CASE app = "charge"
  BY <1>1, <1>2, <1>3, <1>5 DEF PInv, InCharges, KeepHeard, OffHeard, Unplugged
<1>6. QED
  BY <1>2, <1>4, <1>5

\* Every way off leaves the charger of a plugged-in earphone on, or a plug waiting.
LEMMA OffCharges ==
    ASSUME PInv, PowerNext, app # "off", app' = "off", level = "in"
    PROVE  charger' \/ missed \/ (PlugWaits /\ ~(charger /\ flag = "in"))
<1>1. scan \/ Waits("LDO5V_IN", msgs) => PlugWaits
  BY DEF PlugWaits, Waits
<1>2. app # "charge_init" => scan \/ missed \/ (flag = "in" /\ online)
  BY DEF PInv, MadeOut
<1>3. CASE app \in {"voltage", "app_init"} /\ SoftPoweroff(charger)
  <2>1. flag # "in"
    BY <1>3 DEF PInv, Initialised
  <2>2. QED
    BY <1>1, <1>2, <1>3, <2>1 DEF SoftPoweroff
<1>4. CASE Ldo5vOff
  <2>1. "LDO5V_OFF" \in Msgs \cap LevelMsgs /\ Took("LDO5V_OFF")
    BY <1>4 DEF Msgs, ChargeMsgs, LevelMsgs, Ldo5vOff
  <2>2. flag = "in" => Waits("LDO5V_IN", msgs)
    BY <2>1, TookFacts, LevelMsgFacts
  <2>3. app # "charge_init" /\ charger' = (charger /\ flag = "in")
    BY <1>4 DEF Ldo5vOff, SoftPoweroff, ChargerAfterClose, Took, Serving
  <2>4. QED
    BY <1>1, <1>2, <2>2, <2>3
<1>5. CASE ChargeFull
  <2>1. Waits("CHARGE_FULL", msgs)
    <3>1. "CHARGE_FULL" \in Msgs /\ Took("CHARGE_FULL")
      BY <1>5 DEF Msgs, ChargeMsgs, ChargeFull
    <3>2. QED
      BY <3>1, TookFacts
  <2>2. QED
    BY <1>5, <2>1 DEF PInv, FullIsCharging, ChargeFull, SoftPoweroff
<1>6. CASE PoweroffToneEnds
  BY <1>1, <1>2, <1>6 DEF PInv, ChargeTyped, PoweroffToneEnds, CpuReset, SoftPoweroff
<1>7. CASE KeepEnds
  BY <1>7 DEF KeepEnds, CpuReset
<1>8. CASE Environment
  BY <1>8 DEF Environment, Plug, Battery, PowerKey
<1>9. CASE Interrupt \/ AppTimer
  BY <1>9 DEF Interrupt, AppTimer, WaitExit, KeepDelay, VbatCheckSlow, WarnAgain, CpuReset
<1>10. CASE TakeMsg /\ ~Ldo5vOff /\ ~ChargeFull
  BY <1>10 DEF TakeMsg, Ldo5vIn, Ldo5vKeep, ChargeStarted, PowerNotice, PowerLow, Poweroff, Stay, CpuReset
<1>11. CASE Boot
  <2>1. ASSUME NEW b \in {"init_ok", "devices", "voltage", "app_init", "app_main", "charge",
                          "tone", "normal"}, To(b)
        PROVE  FALSE
    BY <2>1 DEF To
  <2>2. BootCharge => \E b \in {"init_ok", "devices", "voltage"} : To(b)
    BY DEF BootCharge
  <2>3. BootVoltage => \/ \E b \in {"devices", "app_init", "app_main"} : To(b)
                       \/ app \in {"voltage", "app_init"} /\ SoftPoweroff(charger)
    BY DEF BootVoltage, CheckPowerOnVoltage
  <2>4. BootMain => app' = app \/ \E b \in {"charge", "tone"} : To(b)
    BY DEF BootMain
  <2>5. QED
    BY <1>3, <1>11, <2>1, <2>2, <2>3, <2>4 DEF Boot, ToneEnds
<1>12. QED
  BY <1>4, <1>5, <1>6, <1>7, <1>8, <1>9, <1>10, <1>11 DEF PowerNext, AppStep

-------------------------------------------------------------------------------
\* Whatever plug, battery and user do, every variable keeps its range and no counter
\* of the scan (ldo5v_detect) passes its filter.
THEOREM PowTypeCorrect == PowerSpec => []PowTypeOK
BY PowerInductive, PInvTyped, PTL

\* However the plug bounced, before, during and after starts and resets: with every
\* event served, the earphone application runs with nothing at the input only, and
\* the charging application with the charger on only.
THEOREM ChargerIsRight == PowerSpec => []ChargerFollowsPlug
BY PowerInductive, PInvFollows, PTL

\* An earphone that switches itself off with the charger plugged in goes on
\* charging, by whatever way it goes off, unless that plug is still to be served.
THEOREM OffKeepsCharging == PowerSpec => OffStillCharges
<1>1. PInv /\ [PowerNext]_powerVars =>
        [(app # "off" /\ app' = "off" /\ level = "in") =>
            charger' \/ missed \/ (PlugWaits /\ ~(charger /\ flag = "in"))]_powerVars
  BY OffCharges
<1>2. QED
  BY PowerInductive, <1>1, PTL DEF PowerSpec, OffStillCharges
===============================================================================
