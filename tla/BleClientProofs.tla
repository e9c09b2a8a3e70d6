---------------------------- MODULE BleClientProofs ----------------------------
(***************************************************************************)
(* What le_wireless_mic_client.c guarantees for every set of builds and    *)
(* any number of reports the controller leaves waiting.                    *)
(*                                                                         *)
(* The argument rests on what the reports in hci, the queue between the    *)
(* controller and the client, still have to tell: HandleFollows says that  *)
(* they correct con_handle, UpdateFollows that they end with what became   *)
(* of the link and its parameters, EndIsReported that an attempt whose end *)
(* the client waits for is still to be reported, and AttemptInv, for the   *)
(* builds without WIRELESS_PAIR_BONDING and until a handler overtakes a    *)
(* call of bt_ble_scan_enable, that they never tell of more than one       *)
(* attempt.  LookState is what state, switch and scan have to do with each *)
(* other, at whatever statement a call has been interrupted, unless that   *)
(* interruption has spoiled it.  BleInv is their conjunction; every step   *)
(* of the client, of its callers and of the controller (BleStep) keeps it. *)
(***************************************************************************)
EXTENDS BleClient, QueueFacts

\* The reports of the beginning, the failure and the end of a connection.
LinkEvents == {"CONN_OK", "CONN_FAIL", "DISCONNECTED"}

\* The controller creates no connection while it has one.
OneLink == creating => ~link

\* The reports not yet handled correct con_handle.
HandleFollows == Tells(hci, {"CONN_OK"}, {"DISCONNECTED"}, conHandle, link)

\* A failed attempt is older than the link there is; an update of the link is newer
\* than all else, and one of a link that has ended is followed by that end.
UpdateFollows ==
    /\ link => Answered(hci, {"CONN_FAIL"}, {"CONN_OK"})
    /\ link /\ updated => Answered(hci, LinkEvents, {"UPDATE"})
    /\ ~(link /\ updated) => Answered(hci, {"UPDATE"}, {"DISCONNECTED"})

ReportInv == OneLink /\ HandleFollows /\ UpdateFollows

\* What the state of the client says of the scan, the switch and the link, with the
\* statements of a call between which it does not.
LookState ==
    /\ state = "SCAN" => scanning \/ appPc = "scanOp1"
    /\ state = "IDLE" => ~scanning \/ appPc = "scanOp0"
    /\ appPc = "scanOp1" => state # "IDLE"
    /\ appPc = "scanOp0" => state # "SCAN"
    /\ scanCtrlEn /\ state = "IDLE"
          => appPc \in {"scanOp0", "offScan", "scanTest1", "scanSet1"}
    /\ scanCtrlEn /\ state \in {"NULL", "INIT_OK"} => appPc \in {"scanTest1", "scanSet1"}
    /\ scanCtrlEn /\ state = "CREATE_CANNEL"
          => appPc \in {"cancelOp", "scanTest1", "scanSet1"}
    /\ state \in {"CONNECT", "SEARCH_COMPLETE", "SEND_DISCONN"} => conHandle
    /\ appPc \in {"discState", "discSet"} => conHandle

\* An attempt whose end the client waits for is still to be reported.
EndIsReported ==
    (state = "CREATE_CONN" /\ ~conHandle) => creating \/ Pending(hci, LinkEvents)

\* Until an interruption of a call has spoiled it.
LookInv ==
    /\ ~spoiled => LookState
    /\ searching => conHandle
    /\ EndIsReported

\* Before bt_ble_init nothing happens.
NothingBeforeInit ==
    appPc = "init" =>
        /\ state = "NULL" /\ ~scanCtrlEn /\ ~scanning
        /\ ~creating /\ ~link /\ ~conHandle /\ ~searching
        /\ hci = <<>>

\* There is an attempt or a link, or the client has yet to hear of one.
InHand == creating \/ link \/ conHandle \/ Pending(hci, LinkEvents)

\* The reports that wait are a CONN_OK, of the link or of one that has ended, and
\* then its DISCONNECTED, or a CONN_FAIL alone.
OneReported ==
    \A i \in DOMAIN hci :
        /\ hci[i] = "CONN_OK" =>
              /\ ~conHandle /\ ~creating
              /\ \A j \in DOMAIN hci :
                    hci[j] \in LinkEvents => j = i \/ (j > i /\ hci[j] = "DISCONNECTED")
        /\ hci[i] = "CONN_FAIL" =>
              /\ ~conHandle /\ ~creating /\ ~link
              /\ \A j \in DOMAIN hci : hci[j] \in LinkEvents => j = i
        /\ hci[i] = "DISCONNECTED" =>
              /\ ~creating /\ ~link
              /\ \A j \in DOMAIN hci : hci[j] \in LinkEvents => j <= i

\* One attempt or link at a time: while there is one, the state keeps the client
\* from another, and no call is about to change that.
AttemptInv ==
    /\ ~rejected
    /\ InHand => state \notin FreeStates
    /\ creating => ~conHandle /\ ~Pending(hci, LinkEvents)
    /\ OneReported
    /\ appPc \in {"scanSet1", "scanSet0"} => state \in FreeStates
    /\ appPc \notin {"cancelTest", "cancelSet", "cancelOp"}

\* The inductive invariant.
BleInv ==
    /\ BleTypeOK
    /\ ReportInv
    /\ LookInv
    /\ NothingBeforeInit
    /\ ~cfg.pairBonding /\ ~overtaken => AttemptInv

-------------------------------------------------------------------------------
(* The steps.                                                                *)

\* The steps of the application, without what else they do in their task.
CallerStep == InitClient \/ UserCall \/ CallStep

OtherStep == CallerStep \/ SearchComplete \/ Controller \/ UNCHANGED bleVars
BleStep == PacketHandler \/ OtherStep

\* What a step means for the link: nothing, a report of advertising, a link, a
\* failure, an update, the end of the link, or a report that is handled.
Reported(r) == hci' = Append(hci, r)
Advertised ==
    /\ \E r \in Reports : Reported(r)
    /\ UNCHANGED <<creating, link, updated, conHandle>>
LinkMade ==
    /\ creating /\ creating' = FALSE /\ link' = TRUE /\ updated' = FALSE
    /\ Reported("CONN_OK")
    /\ UNCHANGED conHandle
LinkFailed ==
    /\ creating /\ creating' = FALSE
    /\ Reported("CONN_FAIL")
    /\ UNCHANGED <<link, updated, conHandle>>
LinkUpdated ==
    /\ link /\ updated' = TRUE
    /\ Reported("UPDATE")
    /\ UNCHANGED <<creating, link, conHandle>>
LinkEnded ==
    /\ link /\ link' = FALSE
    /\ Reported("DISCONNECTED")
    /\ UNCHANGED <<creating, updated, conHandle>>
ReportTaken ==
    /\ hci # <<>> /\ hci' = Tail(hci)
    /\ creating' => creating \/ ~link
    /\ conHandle' = CASE Head(hci) = "CONN_OK" -> TRUE
                      [] Head(hci) = "DISCONNECTED" -> FALSE
                      [] OTHER -> conHandle
    /\ UNCHANGED <<link, updated>>
NothingTaken ==
    \/ UNCHANGED <<creating, link, updated, conHandle, hci>>
    \/ Advertised \/ LinkMade \/ LinkFailed \/ LinkUpdated \/ LinkEnded
LinkStep == ReportTaken \/ NothingTaken

\* The variables of a typed state, one by one.
BleVarsTyped ==
    /\ cfg \in Configs
    /\ state \in States
    /\ scanCtrlEn \in BOOLEAN /\ conHandle \in BOOLEAN
    /\ pairFlag \in BOOLEAN /\ pairVm \in BOOLEAN /\ pairBond \in BOOLEAN
    /\ appPc \in Steps /\ callsLeft \in {{}, {"on"}, {"off", "on"}}
    /\ scanning \in BOOLEAN /\ creating \in BOOLEAN /\ link \in BOOLEAN
    /\ updated \in BOOLEAN /\ searching \in BOOLEAN /\ rejected \in BOOLEAN
    /\ overtaken \in BOOLEAN /\ spoiled \in BOOLEAN
    /\ hci \in Seq(HciEvents)

\* Typed is typed, variable by variable.
LEMMA BleTyped == (BleTypeOK <=> BleVarsTyped) /\ (BleTypeOK' <=> BleVarsTyped')
BY DEF BleTypeOK, BleVarsTyped

\* A configuration's fields.
LEMMA CfgTyped == \A c \in Configs : c.pairBonding \in BOOLEAN /\ c.bondingFlag \in BOOLEAN
BY ConfigsAssumption

\* A call begins, or goes on at another statement.
LEMMA CallBegins ==
    ASSUME UserCall
    PROVE  /\ appPc = "idle" /\ appPc' \in {"switchOn", "offTest", "discTest", "forget"}
           /\ callsLeft' \in {{}, {"off", "on"}}
           /\ UNCHANGED <<cfg, hostVars, ctrlVars, raceVars>>
BY DEF UserCall, ModuleOn, ModuleOff, AppDisconnect, Debond, EnterPair, Call

\* A call goes on as it was written.
LEMMA CallGoesOn ==
    ASSUME callsLeft \in {{}, {"on"}, {"off", "on"}}, NEW pc,
           Return(pc) \/ \E next \in Steps : Step(pc, next)
    PROVE  /\ appPc = pc /\ appPc' \in Steps
           /\ callsLeft' \in {{}, {"on"}, {"off", "on"}}
<1>1. CASE Return(pc)
  BY <1>1 DEF Return, Steps
<1>2. CASE \E next \in Steps : Step(pc, next)
  BY <1>2 DEF Step
<1>3. QED
  BY <1>1, <1>2

\* Where the return of a call leads.
LEMMA ReturnsTo ==
    ASSUME NEW pc, Return(pc)
    PROVE  appPc = pc /\ appPc' \in {"idle", "offTest", "switchOn"}
BY DEF Return

\* Only the stack takes reports; every other step is one of the other steps for
\* the link.
LEMMA OtherTakesNothing ==
    ASSUME BleTypeOK, OtherStep
    PROVE  NothingTaken
<1> USE BleTyped DEF BleVarsTyped
<1>1. CASE InitClient
  BY <1>1 DEF InitClient, NothingTaken
<1>2. CASE UserCall
  BY <1>2, CallBegins DEF NothingTaken, ctrlVars, hostVars
<1>3. CASE DiscOp
  BY <1>3 DEF DiscOp, NothingTaken, LinkEnded, Reported, hostVars
<1>4. CASE CancelOp
  BY <1>4 DEF CancelOp, NothingTaken, LinkFailed, Reported, hostVars
<1>5. CASE CallStep /\ ~DiscOp /\ ~CancelOp
  <2>1. UNCHANGED <<creating, link, updated, conHandle, hci>>
    BY <1>5 DEF CallStep, SwitchOn, OffTest, SwitchOff, ScanTest, ScanSet, ScanOp, DiscTest,
       DiscSet, DiscSay, Forget, Store, PairAct, CancelTest, CancelSet,
       Tests, TestsLast, Sets, ctrlVars, hostVars
  <2>2. QED
    BY <2>1 DEF NothingTaken
<1>7. CASE SearchComplete
  BY <1>7 DEF SearchComplete, NothingTaken
<1>8. CASE \E r \in Reports : CtrlReport(r)
  BY <1>8 DEF CtrlReport, hostVars, NothingTaken, Advertised, Reported
<1>9. CASE CtrlConnect
  BY <1>9 DEF CtrlConnect, hostVars, NothingTaken, LinkMade, Reported
<1>10. CASE CtrlFail
  BY <1>10 DEF CtrlFail, hostVars, NothingTaken, LinkFailed, Reported
<1>11. CASE CtrlUpdate
  BY <1>11 DEF CtrlUpdate, hostVars, NothingTaken, LinkUpdated, Reported
<1>12. CASE CtrlLinkLoss
  BY <1>12 DEF CtrlLinkLoss, hostVars, NothingTaken, LinkEnded, Reported
<1>13. CASE UNCHANGED bleVars
  BY <1>13 DEF bleVars, hostVars, ctrlVars, NothingTaken
<1>14. QED
  BY <1>1, <1>2, <1>3, <1>4, <1>5, <1>7, <1>8, <1>9, <1>10, <1>11, <1>12,
     <1>13 DEF OtherStep, CallerStep, Controller

\* cbk_packet_handler takes one report, whatever it makes of it.
LEMMA PacketTakesReport ==
    ASSUME PacketHandler
    PROVE  ReportTaken
<1>1. hci # <<>> /\ hci' = Tail(hci)
  BY DEF PacketHandler
<1>2. CASE Head(hci) \in Reports /\ AdvReport(Head(hci))
  BY <1>1, <1>2 DEF AdvReport, CreateConnection, CtrlCreate, Reports, ReportTaken
<1>3. CASE Head(hci) = "CONN_OK" /\ Connected
  BY <1>1, <1>3 DEF Connected, ReportTaken
<1>4. CASE Head(hci) = "CONN_FAIL" /\ ConnectFailed
  BY <1>1, <1>4 DEF ConnectFailed, ReportTaken
<1>5. CASE Head(hci) = "UPDATE" /\ ConnectionUpdated
  BY <1>1, <1>5 DEF ConnectionUpdated, hostVars, ReportTaken
<1>6. CASE Head(hci) = "DISCONNECTED" /\ Disconnected
  BY <1>1, <1>6 DEF Disconnected, CreateConnection, CtrlCreate, ReportTaken
<1>7. QED
  BY <1>2, <1>3, <1>4, <1>5, <1>6 DEF PacketHandler

\* So every step is a step of the link.
LEMMA BleStepIsLinkStep ==
    ASSUME BleTypeOK, BleStep
    PROVE  LinkStep
BY OtherTakesNothing, PacketTakesReport DEF BleStep, LinkStep

\* The queue of reports stays one, and the reports that wait change as the step
\* says.
LEMMA HciAfter ==
    ASSUME hci \in Seq(HciEvents), LinkStep
    PROVE  hci' \in Seq(HciEvents)
<1>1. CASE UNCHANGED hci
  BY <1>1
<1>2. CASE \E r \in HciEvents : Reported(r)
  BY <1>2, AppendProperties DEF Reported
<1>3. CASE hci # <<>> /\ hci' = Tail(hci)
  BY <1>3, TailElements
<1>4. QED
  BY <1>1, <1>2, <1>3 DEF LinkStep, NothingTaken, Advertised, LinkMade, LinkFailed, LinkUpdated,
     LinkEnded, ReportTaken, HciEvents

\* A step of the link keeps what the reports tell.
LEMMA ReportInvKept ==
    ASSUME hci \in Seq(HciEvents), ReportInv, LinkStep
    PROVE  ReportInv'
<1> USE DEF ReportInv
<1>1. CASE UNCHANGED <<creating, link, updated, conHandle, hci>>
  BY <1>1 DEF OneLink, HandleFollows, UpdateFollows
<1>2. ASSUME NEW r \in HciEvents, Reported(r),
             r = "CONN_OK" => link' = TRUE,
             r = "DISCONNECTED" => link' = FALSE,
             r \notin {"CONN_OK", "DISCONNECTED"} => link' = link,
             conHandle' = conHandle
      PROVE  HandleFollows'
  BY <1>2, AppendTells DEF Reported, HandleFollows
<1>3. CASE Advertised
  <2>1. PICK r \in Reports : Reported(r)
    BY <1>3 DEF Advertised
  <2>2. r \in HciEvents /\ r \notin LinkEvents \cup {"UPDATE"}
    BY DEF HciEvents, Reports, LinkEvents
  <2>3. UpdateFollows'
    BY <1>3, <2>1, <2>2, AppendAnswered DEF UpdateFollows, Advertised, Reported, LinkEvents
  <2>4. HandleFollows'
    BY <1>2, <1>3, <2>1, <2>2 DEF Advertised, LinkEvents
  <2>5. QED
    BY <1>3, <2>3, <2>4 DEF OneLink, Advertised
<1>4. CASE LinkMade
  <2>1. "CONN_OK" \in HciEvents
    BY DEF HciEvents
  <2>2. UpdateFollows'
    <3>1. ~link /\ link' /\ ~updated' /\ hci' = Append(hci, "CONN_OK")
      BY <1>4 DEF LinkMade, OneLink, Reported
    <3>2. Answered(hci', {"CONN_FAIL"}, {"CONN_OK"})
      BY <2>1, <3>1, AppendAnswered
    <3>3. Answered(hci', {"UPDATE"}, {"DISCONNECTED"})
      <4>1. Answered(hci, {"UPDATE"}, {"DISCONNECTED"})
        BY <3>1 DEF UpdateFollows
      <4>2. QED
        BY <2>1, <3>1, <4>1, AppendAnswered
    <3>4. QED
      BY <3>1, <3>2, <3>3 DEF UpdateFollows
  <2>3. QED
    BY <1>2, <1>4, <2>1, <2>2 DEF LinkMade, OneLink
<1>5. CASE LinkFailed
  <2>1. "CONN_FAIL" \in HciEvents
    BY DEF HciEvents
  <2>2. ~link /\ ~link' /\ hci' = Append(hci, "CONN_FAIL")
    BY <1>5 DEF LinkFailed, OneLink, Reported
  <2>3. UpdateFollows'
    <3>1. Answered(hci, {"UPDATE"}, {"DISCONNECTED"})
      BY <2>2 DEF UpdateFollows
    <3>2. Answered(hci', {"UPDATE"}, {"DISCONNECTED"})
      BY <2>1, <2>2, <3>1, AppendAnswered
    <3>3. QED
      BY <2>2, <3>2 DEF UpdateFollows
  <2>4. QED
    BY <1>2, <1>5, <2>1, <2>3 DEF LinkFailed, OneLink
<1>6. CASE LinkUpdated
  <2>1. "UPDATE" \in HciEvents
    BY DEF HciEvents
  <2>2. UpdateFollows'
    <3>1. link /\ link' /\ updated' /\ hci' = Append(hci, "UPDATE")
      BY <1>6 DEF LinkUpdated, Reported
    <3>2. Answered(hci', {"CONN_FAIL"}, {"CONN_OK"})
      <4>1. Answered(hci, {"CONN_FAIL"}, {"CONN_OK"})
        BY <3>1 DEF UpdateFollows
      <4>2. QED
        BY <2>1, <3>1, <4>1, AppendAnswered
    <3>3. Answered(hci', LinkEvents, {"UPDATE"})
      BY <2>1, <3>1, AppendAnswered DEF LinkEvents
    <3>4. QED
      BY <3>1, <3>2, <3>3 DEF UpdateFollows
  <2>3. QED
    BY <1>2, <1>6, <2>1, <2>2 DEF LinkUpdated, OneLink
<1>7. CASE LinkEnded
  <2>1. "DISCONNECTED" \in HciEvents
    BY DEF HciEvents
  <2>2. ~link' /\ hci' = Append(hci, "DISCONNECTED")
    BY <1>7 DEF LinkEnded, Reported
  <2>3. Answered(hci', {"UPDATE"}, {"DISCONNECTED"})
    BY <2>1, <2>2, AppendAnswered
  <2>4. QED
    BY <1>2, <1>7, <2>1, <2>2, <2>3 DEF LinkEnded, OneLink, UpdateFollows
<1>8. CASE ReportTaken
  <2>1. HandleFollows'
    BY <1>8, TailTells DEF ReportTaken, HandleFollows
  <2>2. UpdateFollows'
    BY <1>8, TailAnswered DEF ReportTaken, UpdateFollows
  <2>3. QED
    BY <1>8, <2>1, <2>2 DEF ReportTaken, OneLink
<1>9. QED
  BY <1>1, <1>3, <1>4, <1>5, <1>6, <1>7, <1>8 DEF LinkStep, NothingTaken

-------------------------------------------------------------------------------
(* Every step keeps the types.                                               *)

\* Looking for the peer, or no more, from a state of the client.
LEMMA ScanEnableTyped ==
    ASSUME NEW en, NEW s \in States, NEW on \in BOOLEAN, ScanEnable(en, s, on),
           scanning \in BOOLEAN
    PROVE  state' \in States /\ scanning' \in BOOLEAN
BY DEF ScanEnable, States

\* client_create_connect_api keeps the types.
LEMMA CreateConnectionTyped ==
    ASSUME BleTypeOK, CreateConnection
    PROVE  state' \in States /\ creating' \in BOOLEAN /\ rejected' \in BOOLEAN
BY BleTyped DEF BleVarsTyped, CreateConnection, CtrlCreate, States

\* Every statement of a call is followed by another, or by no call.
LEMMA CallStepGoesOn ==
    ASSUME callsLeft \in {{}, {"on"}, {"off", "on"}}, CallStep
    PROVE  appPc' \in Steps /\ callsLeft' \in {{}, {"on"}, {"off", "on"}}
<1>1. \E pc \in Steps : Return(pc) \/ \E next \in Steps : Step(pc, next)
  BY DEF CallStep, SwitchOn, OffTest, SwitchOff, ScanTest, ScanSet, ScanOp, DiscTest, DiscSet,
     DiscSay, DiscOp, Forget, Store, PairAct, CancelTest, CancelSet, CancelOp, Tests,
     TestsLast, Sets, Steps
<1>2. QED
  BY <1>1, CallGoesOn

\* Every step of the client keeps the types.
LEMMA BleTypeKept ==
    ASSUME BleTypeOK, BleStep
    PROVE  BleTypeOK'
<1> USE BleTyped, CfgTyped DEF BleVarsTyped
<1>0. hci' \in Seq(HciEvents)
  BY BleStepIsLinkStep, HciAfter
<1>1. CASE InitClient
  <2>1. "INIT_OK" \in States
    BY DEF States
  <2>2. state' \in States /\ scanning' \in BOOLEAN
    BY <1>1, <2>1, ScanEnableTyped DEF InitClient
  <2>3. scanCtrlEn' \in BOOLEAN /\ pairFlag' \in BOOLEAN /\ pairVm' \in BOOLEAN
    BY <1>1 DEF InitClient
  <2>4. /\ appPc' \in Steps
        /\ UNCHANGED <<cfg, conHandle, pairBond, callsLeft, creating, link, updated,
                       searching, rejected, overtaken, spoiled>>
    BY <1>1 DEF InitClient, Steps, raceVars
  <2>5. QED
    BY <1>0, <2>2, <2>3, <2>4
<1>2. CASE UserCall
  <2>1. /\ appPc' \in Steps /\ callsLeft' \in {{}, {"on"}, {"off", "on"}}
        /\ UNCHANGED <<cfg, hostVars, ctrlVars, raceVars>>
    BY <1>2, CallBegins DEF Steps
  <2>2. QED
    BY <1>0, <2>1 DEF hostVars, ctrlVars, raceVars
<1>3. CASE CallStep
  <2>1. appPc' \in Steps /\ callsLeft' \in {{}, {"on"}, {"off", "on"}}
    BY <1>3, CallStepGoesOn
  <2>2. /\ state' \in States
        /\ scanCtrlEn' \in BOOLEAN /\ pairFlag' \in BOOLEAN /\ pairVm' \in BOOLEAN
        /\ scanning' \in BOOLEAN /\ creating' \in BOOLEAN /\ link' \in BOOLEAN
        /\ UNCHANGED <<cfg, conHandle, pairBond, updated, searching, rejected, raceVars>>
    <3>1. CASE SwitchOn \/ SwitchOff
      BY <1>3, <3>1 DEF SwitchOn, SwitchOff, ctrlVars
    <3>2. CASE OffTest \/ ScanTest \/ DiscTest \/ PairAct \/ CancelTest
      BY <3>2 DEF OffTest, ScanTest, DiscTest, PairAct, CancelTest, Tests, TestsLast,
         hostVars, ctrlVars
    <3>3. CASE ScanSet \/ DiscSet \/ CancelSet
      BY <3>3 DEF ScanSet, DiscSet, CancelSet, Sets, ctrlVars, States
    <3>4. CASE ScanOp \/ DiscSay \/ DiscOp \/ CancelOp
      BY <3>4 DEF ScanOp, DiscSay, DiscOp, CancelOp, hostVars, ctrlVars
    <3>5. CASE Forget \/ Store
      BY <3>5 DEF Forget, Store, ctrlVars
    <3>6. QED
      BY <1>3, <3>1, <3>2, <3>3, <3>4, <3>5 DEF CallStep
  <2>3. QED
    BY <1>0, <2>1, <2>2 DEF raceVars
<1>9. CASE PacketHandler
  <2>0. /\ cfg' = cfg /\ UNCHANGED callVars
        /\ overtaken' \in BOOLEAN /\ spoiled' \in BOOLEAN
    BY <1>9 DEF PacketHandler, Overtakes
  <2> USE DEF callVars
  <2>1. CASE AdvReport(Head(hci))
    <3>1. pairBond' \in BOOLEAN
      BY <2>1 DEF AdvReport, BondOfMatch
    <3>2. /\ state' \in States /\ creating' \in BOOLEAN /\ rejected' \in BOOLEAN
          /\ scanning' \in BOOLEAN
      BY <2>1, CreateConnectionTyped DEF AdvReport
    <3>3. QED
      BY <1>0, <2>0, <2>1, <3>1, <3>2 DEF AdvReport
  <2>2. CASE Connected
    BY <1>0, <2>0, <2>2 DEF Connected, States
  <2>3. CASE ConnectFailed
    BY <1>0, <2>0, <2>3 DEF ConnectFailed, States
  <2>4. CASE ConnectionUpdated
    BY <1>0, <2>0, <2>4 DEF ConnectionUpdated, hostVars
  <2>5. CASE Disconnected
    <3>1. "DISCONN" \in States
      BY DEF States
    <3>2. /\ state' \in States /\ creating' \in BOOLEAN /\ rejected' \in BOOLEAN
          /\ scanning' \in BOOLEAN
      <4>1. CASE CreateConnection /\ UNCHANGED scanning
        BY <4>1, CreateConnectionTyped
      <4>2. CASE ScanEnable(scanCtrlEn, "DISCONN", TRUE) /\ UNCHANGED <<creating, rejected>>
        BY <3>1, <4>2, ScanEnableTyped
      <4>3. QED
        BY <2>5, <4>1, <4>2 DEF Disconnected
    <3>3. QED
      BY <1>0, <2>0, <2>5, <3>2 DEF Disconnected
  <2>6. QED
    BY <1>9, <2>1, <2>2, <2>3, <2>4, <2>5, Zenon DEF PacketHandler
<1>10. CASE SearchComplete
  <2>1. "SEARCH_COMPLETE" \in States
    BY DEF States
  <2>2. /\ UNCHANGED <<cfg, scanCtrlEn, conHandle, pairFlag, pairVm, pairBond>>
        /\ UNCHANGED <<scanning, creating, link, updated, rejected>>
        /\ state' \in States
    BY <1>10, <2>1 DEF SearchComplete
  <2>3. searching' \in BOOLEAN /\ UNCHANGED <<appPc, callsLeft, overtaken, spoiled>>
    BY <1>10 DEF SearchComplete, callVars, raceVars
  <2>4. QED
    BY <1>0, <2>2, <2>3
<1>11. CASE Controller
  <2>1. /\ UNCHANGED <<cfg, scanCtrlEn, state, conHandle, pairFlag, pairVm, pairBond>>
        /\ UNCHANGED <<appPc, callsLeft, scanning, searching, rejected, raceVars>>
        /\ creating' \in BOOLEAN /\ link' \in BOOLEAN /\ updated' \in BOOLEAN
    BY <1>11 DEF Controller, CtrlReport, CtrlConnect, CtrlFail, CtrlUpdate,
       CtrlLinkLoss, hostVars, callVars
  <2>2. QED
    BY <1>0, <2>1 DEF raceVars
<1>12. CASE UNCHANGED bleVars
  BY <1>12 DEF bleVars, hostVars, callVars, ctrlVars, raceVars
<1>13. QED
  BY <1>1, <1>2, <1>3, <1>9, <1>10, <1>11, <1>12 DEF BleStep, OtherStep, CallerStep

-------------------------------------------------------------------------------
(* Every step keeps LookInv.                                                 *)

\* The stack's task is in the profile search only while it has a handle.
LEMMA SearchHasHandle ==
    ASSUME BleTypeOK, searching => conHandle, BleStep
    PROVE  (searching => conHandle)'
<1> USE BleTyped DEF BleVarsTyped
<1>1. CASE InitClient \/ UserCall
  BY <1>1, CallBegins DEF InitClient, hostVars, ctrlVars
<1>2. CASE CallStep
  <2>1. UNCHANGED <<searching, conHandle>>
    BY <1>2 DEF CallStep, SwitchOn, OffTest, SwitchOff, ScanTest, ScanSet, ScanOp, DiscTest,
       DiscSet, DiscSay, DiscOp, Forget, Store, PairAct, CancelTest, CancelSet, CancelOp,
       Tests, TestsLast, Sets, ctrlVars, hostVars
  <2>2. QED
    BY <2>1
<1>3. CASE PacketHandler
  <2>1. CASE AdvReport(Head(hci)) \/ ConnectFailed
    BY <2>1 DEF AdvReport, ConnectFailed
  <2>2. CASE Connected \/ Disconnected
    BY <2>2 DEF Connected, Disconnected
  <2>3. CASE ConnectionUpdated
    BY <2>3 DEF ConnectionUpdated, hostVars
  <2>4. QED
    BY <1>3, <2>1, <2>2, <2>3 DEF PacketHandler
<1>4. CASE SearchComplete \/ Controller \/ UNCHANGED bleVars
  BY <1>4 DEF SearchComplete, Controller, CtrlReport, CtrlConnect, CtrlFail, CtrlUpdate,
     CtrlLinkLoss, hostVars, ctrlVars, bleVars
<1>5. QED
  BY <1>1, <1>2, <1>3, <1>4 DEF BleStep, OtherStep, CallerStep

\* The statements of the calls keep the switch, the scan and the state together.
LEMMA CallKeepsLookState ==
    ASSUME BleTypeOK, LookState, CallStep
    PROVE  LookState'
<1> USE BleTyped DEF BleVarsTyped, LookState
<1>1. CASE SwitchOn
  BY <1>1 DEF SwitchOn, Step, ctrlVars
<1>2. CASE SwitchOff
  BY <1>2, ReturnsTo DEF SwitchOff, Step, ctrlVars
<1>3. CASE OffTest
  BY <1>3 DEF OffTest, Tests, Step, hostVars, ctrlVars
<1>4. CASE ScanTest
  BY <1>4, ReturnsTo DEF ScanTest, Tests, TestsLast, Step, hostVars, ctrlVars, FreeStates
<1>5. CASE ScanSet
  BY <1>5 DEF ScanSet, Sets, Step, ctrlVars
<1>6. CASE ScanOp
  BY <1>6, ReturnsTo DEF ScanOp, Step, hostVars
<1>7. CASE DiscTest
  BY <1>7, ReturnsTo DEF DiscTest, Tests, TestsLast, Step, hostVars, ctrlVars
<1>8. CASE DiscSet
  BY <1>8 DEF DiscSet, Sets, Step, ctrlVars
<1>9. CASE DiscSay \/ DiscOp
  BY <1>9, ReturnsTo DEF DiscSay, DiscOp, Step, hostVars, ctrlVars
<1>10. CASE Forget \/ Store
  BY <1>10, ReturnsTo DEF Forget, Store, Step, ctrlVars
<1>11. CASE PairAct
  BY <1>11, ReturnsTo DEF PairAct, Tests, TestsLast, Step, hostVars, ctrlVars
<1>12. CASE CancelTest
  BY <1>12 DEF CancelTest, Tests, Step, hostVars, ctrlVars
<1>13. CASE CancelSet
  BY <1>13 DEF CancelSet, Sets, Step, ctrlVars
<1>14. CASE CancelOp
  BY <1>14 DEF CancelOp, Step, hostVars
<1>15. QED
  BY <1>1, <1>2, <1>3, <1>4, <1>5, <1>6, <1>7, <1>8, <1>9, <1>10, <1>11, <1>12, <1>13,
     <1>14 DEF CallStep

\* A handler of the stack keeps them together, unless it spoils what a call has
\* tested or set.
LEMMA HandlerKeepsLookState ==
    ASSUME BleTypeOK, ~spoiled => LookState, PacketHandler, ~spoiled'
    PROVE  LookState'
<1> USE BleTyped DEF BleVarsTyped
<1>1. /\ UNCHANGED <<appPc, callsLeft>>
      /\ appPc = "scanOp0" => state' = state
      /\ appPc \in {"discState", "discSet"} => conHandle'
      /\ Head(hci) # "CONN_OK" => LookState
  BY DEF PacketHandler, Overtakes, callVars
<1>2. CASE Head(hci) \in Reports /\ AdvReport(Head(hci))
  BY <1>1, <1>2 DEF AdvReport, CreateConnection, Reports, LookState
<1>3. CASE Head(hci) = "CONN_OK" /\ Connected
  BY <1>1, <1>3 DEF Connected, LookState
<1>4. CASE Head(hci) = "CONN_FAIL" /\ ConnectFailed
  BY <1>1, <1>4 DEF ConnectFailed, LookState
<1>5. CASE Head(hci) = "UPDATE" /\ ConnectionUpdated
  BY <1>1, <1>5 DEF ConnectionUpdated, hostVars, LookState
<1>6. CASE Head(hci) = "DISCONNECTED" /\ Disconnected
  BY <1>1, <1>6 DEF Disconnected, CreateConnection, ScanEnable, FreeStates, LookState
<1>7. QED
  BY <1>2, <1>3, <1>4, <1>5, <1>6 DEF PacketHandler

\* Every step keeps them together, unless it spoils them.
LEMMA LookStateKept ==
    ASSUME BleTypeOK, ~spoiled => LookState, searching => conHandle, BleStep, ~spoiled'
    PROVE  LookState'
<1> USE BleTyped DEF BleVarsTyped
<1>1. CASE PacketHandler
  BY <1>1, HandlerKeepsLookState
<1>2. CASE OtherStep
  <2>1. LookState
    BY <1>2 DEF OtherStep, CallerStep, InitClient, UserCall, ModuleOn, ModuleOff, AppDisconnect,
       Debond, EnterPair, Call, CallStep, SwitchOn, OffTest, SwitchOff, ScanTest, ScanSet,
       ScanOp, DiscTest, DiscSet, DiscSay, DiscOp, Forget, Store, PairAct, CancelTest, CancelSet,
       CancelOp, Tests, TestsLast, Sets, SearchComplete, Controller, CtrlReport, CtrlConnect,
       CtrlFail, CtrlUpdate, CtrlLinkLoss, bleVars, raceVars
  <2>2. CASE InitClient
    BY <2>1, <2>2 DEF InitClient, ScanEnable, FreeStates, LookState
  <2>3. CASE UserCall
    BY <2>1, <2>3, CallBegins DEF hostVars, ctrlVars, LookState
  <2>4. CASE CallStep
    BY <2>1, <2>4, CallKeepsLookState
  <2>5. CASE SearchComplete
    BY <2>1, <2>5 DEF SearchComplete, callVars, LookState
  <2>6. CASE Controller
    BY <2>1, <2>6 DEF Controller, CtrlReport, CtrlConnect, CtrlFail, CtrlUpdate,
       CtrlLinkLoss, hostVars, callVars, LookState
  <2>7. CASE UNCHANGED bleVars
    BY <2>1, <2>7 DEF bleVars, hostVars, callVars, ctrlVars, LookState
  <2>8. QED
    BY <1>2, <2>2, <2>3, <2>4, <2>5, <2>6, <2>7 DEF OtherStep, CallerStep
<1>3. QED
  BY <1>1, <1>2 DEF BleStep

\* The end of an attempt is still to be reported while the client does not make
\* another and no report is taken.
LEMMA EndReportedOtherwise ==
    ASSUME hci \in Seq(HciEvents), EndIsReported, NothingTaken,
           state' = "CREATE_CONN" => state = "CREATE_CONN"
    PROVE  EndIsReported'
<1> USE DEF EndIsReported
<1>1. CASE UNCHANGED <<creating, link, updated, conHandle, hci>>
  BY <1>1
<1>2. ASSUME NEW r \in HciEvents, Reported(r), conHandle' = conHandle,
             creating => creating' \/ r \in LinkEvents
      PROVE  EndIsReported'
  <2>1. Pending(hci', LinkEvents) <=> Pending(hci, LinkEvents) \/ r \in LinkEvents
    BY <1>2, AppendAnswered DEF Reported
  <2>2. QED
    BY <1>2, <2>1
<1>3. CASE Advertised
  BY <1>2, <1>3 DEF Advertised, HciEvents, Reports
<1>4. CASE LinkMade \/ LinkFailed \/ LinkUpdated \/ LinkEnded
  BY <1>2, <1>4 DEF LinkMade, LinkFailed, LinkUpdated, LinkEnded, HciEvents, LinkEvents
<1>5. QED
  BY <1>1, <1>3, <1>4 DEF NothingTaken

\* An attempt the client makes is created, unless there is a link it has yet to
\* hear of.
LEMMA NewAttemptReported ==
    ASSUME BleTypeOK, hci' \in Seq(HciEvents), HandleFollows', CreateConnection, UNCHANGED link
    PROVE  EndIsReported'
<1>1. CASE creating'
  BY <1>1 DEF EndIsReported
<1>2. CASE link' /\ ~conHandle'
  <2>1. Pending(hci', {"CONN_OK"})
    BY <1>2 DEF HandleFollows, Tells
  <2>2. Pending(hci', LinkEvents)
    BY <2>1 DEF Pending, LinkEvents
  <2>3. QED
    BY <2>2 DEF EndIsReported
<1>3. CASE conHandle'
  BY <1>3 DEF EndIsReported
<1>4. QED
  BY <1>1, <1>2, <1>3, BleTyped DEF CreateConnection, CtrlCreate, BleVarsTyped

\* Every step keeps the promise of a report to a client that waits for one.
LEMMA EndIsReportedKept ==
    ASSUME BleTypeOK, ReportInv, EndIsReported, BleStep
    PROVE  EndIsReported'
<1> USE BleTyped DEF BleVarsTyped
<1>1. hci' \in Seq(HciEvents) /\ HandleFollows'
  BY BleStepIsLinkStep, HciAfter, ReportInvKept DEF LinkStep, ReportInv
<1>2. CASE PacketHandler /\ ReportTaken
  <2>1. hci # <<>> /\ hci' = Tail(hci)
    BY <1>2 DEF PacketHandler
  <2>2. CASE Head(hci) \in Reports /\ AdvReport(Head(hci))
    <3>1. CASE CreateConnection
      BY <1>1, <2>2, <3>1, NewAttemptReported DEF AdvReport
    <3>2. CASE UNCHANGED <<state, creating>>
      <4>1. Head(hci) \notin LinkEvents
        BY <2>2 DEF Reports, LinkEvents
      <4>2. Pending(hci, LinkEvents) => Pending(hci', LinkEvents)
        BY <2>1, <4>1, TailAnswered
      <4>3. QED
        BY <2>2, <3>2, <4>2 DEF AdvReport, EndIsReported
    <3>3. QED
      BY <2>2, <3>1, <3>2 DEF AdvReport
  <2>3. CASE Head(hci) \in {"CONN_OK", "CONN_FAIL"} /\ (Connected \/ ConnectFailed)
    BY <2>3 DEF Connected, ConnectFailed, EndIsReported
  <2>4. CASE Head(hci) = "UPDATE" /\ ConnectionUpdated
    <3>1. Pending(hci, LinkEvents) => Pending(hci', LinkEvents)
      BY <2>1, <2>4, TailAnswered DEF LinkEvents
    <3>2. QED
      BY <2>4, <3>1 DEF ConnectionUpdated, hostVars, EndIsReported
  <2>5. CASE Head(hci) = "DISCONNECTED" /\ Disconnected
    <3>1. CASE CreateConnection
      BY <1>1, <2>5, <3>1, NewAttemptReported DEF Disconnected
    <3>2. CASE ScanEnable(scanCtrlEn, "DISCONN", TRUE)
      BY <3>2 DEF ScanEnable, EndIsReported
    <3>3. QED
      BY <2>5, <3>1, <3>2 DEF Disconnected
  <2>6. QED
    BY <1>2, <2>2, <2>3, <2>4, <2>5 DEF PacketHandler
<1>3. CASE OtherStep
  <2>1. state' = "CREATE_CONN" => state = "CREATE_CONN"
    <3>1. CASE InitClient
      BY <3>1 DEF InitClient, ScanEnable
    <3>2. CASE UserCall
      BY <3>2, CallBegins DEF hostVars
    <3>3. CASE CallStep
      BY <3>3 DEF CallStep, SwitchOn, OffTest, SwitchOff, ScanTest, ScanSet, ScanOp, DiscTest,
         DiscSet, DiscSay, DiscOp, Forget, Store, PairAct, CancelTest, CancelSet, CancelOp,
         Tests, TestsLast, Sets, hostVars
    <3>4. CASE SearchComplete \/ Controller
      BY <3>4 DEF SearchComplete, Controller, CtrlReport, CtrlConnect, CtrlFail,
         CtrlUpdate, CtrlLinkLoss, hostVars
    <3>5. CASE UNCHANGED bleVars
      BY <3>5 DEF bleVars, hostVars
    <3>6. QED
      BY <1>3, <3>1, <3>2, <3>3, <3>4, <3>5 DEF OtherStep, CallerStep
  <2>2. QED
    BY <1>3, <2>1, OtherTakesNothing, EndReportedOtherwise
<1>4. QED
  BY <1>2, <1>3, PacketTakesReport DEF BleStep

-------------------------------------------------------------------------------
(* Nothing happens before bt_ble_init.                                       *)

\* No step but bt_ble_init is the first.
LEMMA NothingBeforeInitKept ==
    ASSUME BleTypeOK, NothingBeforeInit, BleStep
    PROVE  NothingBeforeInit'
<1> USE DEF NothingBeforeInit
<1>1. CASE CallerStep
  <2>1. appPc' # "init"
    <3>1. CASE InitClient
      BY <3>1 DEF InitClient
    <3>2. CASE UserCall
      BY <3>2, CallBegins
    <3>3. CASE CallStep
      BY <3>3, ReturnsTo DEF CallStep, SwitchOn, OffTest, SwitchOff, ScanTest, ScanSet, ScanOp,
         DiscTest, DiscSet, DiscSay, DiscOp, Forget, Store, PairAct, CancelTest, CancelSet,
         CancelOp, Tests, TestsLast, Sets, Step
    <3>4. QED
      BY <1>1, <3>1, <3>2, <3>3 DEF CallerStep
  <2>2. QED
    BY <2>1
<1>2. CASE PacketHandler \/ SearchComplete
  <2>1. appPc # "init"
    BY <1>2 DEF PacketHandler, SearchComplete
  <2>2. UNCHANGED appPc
    BY <1>2 DEF PacketHandler, SearchComplete, callVars
  <2>3. QED
    BY <2>1, <2>2
<1>3. CASE Controller
  <2>1. appPc # "init"
    BY <1>3 DEF Controller, CtrlReport, CtrlConnect, CtrlFail, CtrlUpdate, CtrlLinkLoss
  <2>2. UNCHANGED appPc
    BY <1>3 DEF Controller, CtrlReport, CtrlConnect, CtrlFail, CtrlUpdate,
       CtrlLinkLoss, callVars
  <2>3. QED
    BY <2>1, <2>2
<1>4. CASE UNCHANGED bleVars
  BY <1>4 DEF bleVars, hostVars, callVars, ctrlVars
<1>5. QED
  BY <1>1, <1>2, <1>3, <1>4 DEF BleStep, OtherStep

-------------------------------------------------------------------------------
(* Without WIRELESS_PAIR_BONDING there is one attempt or link at a time.     *)

\* What waits in a longer queue, and in a shorter one.
LEMMA ReportedWaits ==
    ASSUME hci \in Seq(HciEvents), NEW r \in HciEvents, Reported(r)
    PROVE  /\ Pending(hci', LinkEvents) <=> Pending(hci, LinkEvents) \/ r \in LinkEvents
           /\ r \notin LinkEvents /\ OneReported /\ UNCHANGED <<creating, link, conHandle>>
                 => OneReported'
<1> DEFINE n == Len(hci) + 1
<1>1. Pending(hci', LinkEvents) <=> Pending(hci, LinkEvents) \/ r \in LinkEvents
  BY AppendAnswered DEF Reported
<1>2. /\ \A i \in DOMAIN hci' : i \in DOMAIN hci \/ hci'[i] = r
      /\ \A i \in DOMAIN hci : i \in DOMAIN hci' /\ hci'[i] = hci[i]
  BY AppendElements DEF Reported
<1>3. ASSUME r \notin LinkEvents, OneReported, UNCHANGED <<creating, link, conHandle>>
      PROVE  OneReported'
  BY <1>2, <1>3 DEF OneReported, LinkEvents
<1>4. QED
  BY <1>1, <1>3

\* A report of no connection is handled.
LEMMA TakenLeaves ==
    ASSUME hci \in Seq(HciEvents), ReportTaken, OneReported
    PROVE  /\ Pending(hci', LinkEvents) => Pending(hci, LinkEvents)
           /\ Head(hci) \in {"CONN_FAIL", "DISCONNECTED"} => ~Pending(hci', LinkEvents)
           /\ Head(hci) = "CONN_OK" =>
                 \A i \in DOMAIN hci' : hci'[i] \in LinkEvents => hci'[i] = "DISCONNECTED"
           /\ Head(hci) \in LinkEvents => ~creating
           /\ Head(hci) \in {"CONN_FAIL", "DISCONNECTED"} => ~link
           /\ Head(hci) \in {"CONN_OK", "CONN_FAIL"} => ~conHandle
           /\ Head(hci) \in LinkEvents => Pending(hci, LinkEvents)
<1>1. /\ \A i \in DOMAIN hci' : i \in Nat /\ i + 1 \in DOMAIN hci /\ hci'[i] = hci[i + 1]
      /\ 1 \in DOMAIN hci /\ Head(hci) = hci[1]
      /\ \A i \in DOMAIN hci' : i >= 1
  BY TailElements DEF ReportTaken
<1>2. Pending(hci', LinkEvents) => Pending(hci, LinkEvents)
  BY <1>1 DEF Pending
<1>3. Head(hci) \in {"CONN_FAIL", "DISCONNECTED"} => ~Pending(hci', LinkEvents)
  BY <1>1 DEF Pending, OneReported
<1>4. Head(hci) = "CONN_OK" =>
         \A i \in DOMAIN hci' : hci'[i] \in LinkEvents => hci'[i] = "DISCONNECTED"
  BY <1>1 DEF OneReported
<1>5. Head(hci) \in LinkEvents => Pending(hci, LinkEvents)
  BY <1>1 DEF Pending
<1>6. QED
  BY <1>1, <1>2, <1>3, <1>4, <1>5 DEF OneReported, LinkEvents

\* A report that is handled leaves the others as they are.
LEMMA TakenKeepsOrder ==
    ASSUME hci \in Seq(HciEvents), ReportTaken, OneReported, UNCHANGED creating,
           conHandle' => conHandle
    PROVE  OneReported'
<1>1. /\ \A i \in DOMAIN hci' : i \in Nat /\ i + 1 \in DOMAIN hci /\ hci'[i] = hci[i + 1]
      /\ link' = link /\ creating' = creating
  BY TailElements DEF ReportTaken
<1>2. QED
  BY <1>1 DEF OneReported

\* With no report of a link waiting there is nothing to tell in order.
LEMMA NoneReported ==
    ASSUME ~Pending(hci, LinkEvents)
    PROVE  OneReported
BY DEF OneReported, Pending, LinkEvents

\* The first report of a connection.
LEMMA FirstReported ==
    ASSUME hci \in Seq(HciEvents), NEW r \in LinkEvents, Reported(r),
           ~Pending(hci, LinkEvents), ~creating',
           r = "CONN_OK" => ~conHandle',
           r = "CONN_FAIL" => ~conHandle' /\ ~link',
           r = "DISCONNECTED" => ~link'
    PROVE  OneReported'
<1>1. r \in HciEvents
  BY DEF LinkEvents, HciEvents
<1>2. \A i \in DOMAIN hci' : hci'[i] \in LinkEvents => i = Len(hci) + 1 /\ hci'[i] = r
  BY <1>1, AppendElements DEF Reported, Pending
<1>3. QED
  BY <1>2 DEF OneReported, LinkEvents

\* The end of the link, whose beginning may not have been handled.
LEMMA EndReported ==
    ASSUME hci \in Seq(HciEvents), OneReported, LinkEnded, ~creating
    PROVE  OneReported'
<1>1. \A i \in DOMAIN hci : hci[i] \in LinkEvents => hci[i] = "CONN_OK"
  BY DEF LinkEnded, OneReported, LinkEvents
<1>2. /\ \A i \in DOMAIN hci : i \in Nat /\ i < Len(hci) + 1
                               /\ i \in DOMAIN hci' /\ hci'[i] = hci[i]
      /\ \A i \in DOMAIN hci' : i \in DOMAIN hci \/ i = Len(hci) + 1
      /\ hci'[Len(hci) + 1] = "DISCONNECTED"
      /\ Len(hci) \in Nat
  BY AppendElements DEF LinkEnded, Reported, HciEvents
<1>3. ~creating' /\ ~link' /\ conHandle' = conHandle
  BY DEF LinkEnded
<1>4. ASSUME NEW i \in DOMAIN hci', hci'[i] = "CONN_OK", NEW j \in DOMAIN hci',
             hci'[j] \in LinkEvents
      PROVE  ~conHandle /\ (j = i \/ (j > i /\ hci'[j] = "DISCONNECTED"))
  <2>1. i \in DOMAIN hci /\ hci[i] = "CONN_OK"
    BY <1>2, <1>4
  <2>2. CASE j \in DOMAIN hci
    BY <1>1, <1>2, <1>4, <2>1, <2>2 DEF OneReported
  <2>3. CASE j = Len(hci) + 1
    BY <1>2, <2>1, <2>3 DEF OneReported
  <2>4. QED
    BY <1>2, <2>2, <2>3
<1>5. ASSUME NEW i \in DOMAIN hci', hci'[i] = "DISCONNECTED", NEW j \in DOMAIN hci'
      PROVE  j <= i
  <2>1. i = Len(hci) + 1
    BY <1>1, <1>2, <1>5 DEF LinkEvents
  <2>2. QED
    BY <1>2, <2>1
<1>6. \A i \in DOMAIN hci' : hci'[i] # "CONN_FAIL"
  BY <1>1, <1>2 DEF LinkEvents
<1>7. QED
  BY <1>3, <1>4, <1>5, <1>6 DEF OneReported, LinkEvents

\* Nothing of an attempt changes, and the state does not allow more.
LEMMA AttemptUntouched ==
    ASSUME AttemptInv, UNCHANGED <<creating, link, conHandle, hci, rejected>>,
           state' \in FreeStates => state \in FreeStates \/ ~InHand,
           appPc' \in {"scanSet1", "scanSet0"} => state' \in FreeStates,
           appPc' \notin {"cancelTest", "cancelSet", "cancelOp"}
    PROVE  AttemptInv'
BY DEF AttemptInv, InHand, OneReported

\* ble_disconnect ends the one link there is, and reports it last.
LEMMA DisconnectOneAttempt ==
    ASSUME BleTypeOK, AttemptInv, DiscOp
    PROVE  AttemptInv'
<1> USE BleTyped DEF BleVarsTyped
<1>0. /\ appPc' \in {"idle", "offTest", "switchOn"}
      /\ UNCHANGED <<state, creating, conHandle, updated, rejected>>
  BY ReturnsTo DEF DiscOp, hostVars
<1>1. CASE link /\ conHandle
  <2>1. LinkEnded /\ ~creating /\ state \notin FreeStates
    BY <1>0, <1>1 DEF DiscOp, LinkEnded, Reported, AttemptInv, InHand
  <2>2. OneReported'
    BY <2>1, EndReported DEF AttemptInv
  <2>3. QED
    BY <1>0, <2>1, <2>2 DEF AttemptInv, LinkEnded
<1>2. CASE ~(link /\ conHandle)
  BY <1>0, <1>2, AttemptUntouched DEF DiscOp
<1>3. QED
  BY <1>1, <1>2

\* A call of a build without WIRELESS_PAIR_BONDING makes no attempt and hides none:
\* bt_ble_scan_enable sets a state of no connection only over another.
LEMMA CallKeepsAttempt ==
    ASSUME BleTypeOK, ~cfg.pairBonding, AttemptInv, CallStep
    PROVE  AttemptInv'
<1> USE BleTyped DEF BleVarsTyped
<1>0. appPc \notin {"cancelTest", "cancelSet", "cancelOp"}
  BY DEF AttemptInv
<1>1. CASE SwitchOn \/ SwitchOff \/ Forget \/ Store
  BY <1>1, ReturnsTo, AttemptUntouched
     DEF SwitchOn, SwitchOff, Forget, Store, Step, ctrlVars
<1>2. CASE OffTest \/ DiscTest \/ PairAct
  BY <1>2, ReturnsTo, AttemptUntouched
     DEF OffTest, DiscTest, PairAct, Tests, TestsLast, Step, hostVars, ctrlVars
<1>3. CASE ScanTest
  BY <1>3, ReturnsTo, AttemptUntouched
     DEF ScanTest, Tests, TestsLast, Step, hostVars, ctrlVars
<1>4. CASE ScanSet
  <2>1. state \in FreeStates
    BY <1>4 DEF ScanSet, Sets, Step, AttemptInv
  <2>2. QED
    BY <1>4, <2>1, AttemptUntouched DEF ScanSet, Sets, Step, ctrlVars
<1>5. CASE ScanOp \/ DiscSay
  BY <1>5, ReturnsTo, AttemptUntouched DEF ScanOp, DiscSay, Step, hostVars, ctrlVars
<1>6. CASE DiscSet
  BY <1>6, AttemptUntouched DEF DiscSet, Sets, Step, ctrlVars, FreeStates
<1>7. CASE DiscOp
  BY <1>7, DisconnectOneAttempt
<1>8. CASE CancelTest \/ CancelSet \/ CancelOp
  BY <1>0, <1>8 DEF CancelTest, CancelSet, CancelOp, Tests, Sets, Step
<1>9. QED
  BY <1>1, <1>2, <1>3, <1>4, <1>5, <1>6, <1>7, <1>8 DEF CallStep

\* No call is about to hide a connection.
PcAllows ==
    /\ appPc' \in {"scanSet1", "scanSet0"} => state' \in FreeStates
    /\ appPc' \notin {"cancelTest", "cancelSet", "cancelOp"}

\* An attempt made while there is none.
LEMMA AttemptMade ==
    ASSUME BleTypeOK, AttemptInv, CreateConnection, ~creating, ~link, ~conHandle',
           ~Pending(hci', LinkEvents), PcAllows
    PROVE  AttemptInv'
<1>1. creating' = TRUE /\ rejected' = rejected /\ state' = "CREATE_CONN"
  BY BleTyped DEF BleVarsTyped, CreateConnection, CtrlCreate
<1>2. OneReported'
  BY DEF OneReported, Pending, LinkEvents
<1>3. QED
  BY <1>1, <1>2 DEF AttemptInv, FreeStates, PcAllows

\* Every step of a build without WIRELESS_PAIR_BONDING keeps to one attempt.
LEMMA AttemptKept ==
    ASSUME BleTypeOK, OneLink, NothingBeforeInit, searching => conHandle,
           ~cfg.pairBonding, AttemptInv, BleStep, ~overtaken'
    PROVE  AttemptInv'
<1> USE BleTyped DEF BleVarsTyped
<1>1. CASE InitClient
  <2>1. ~InHand
    <3>1. hci = <<>>
      BY <1>1 DEF InitClient, NothingBeforeInit
    <3>2. ~Pending(hci, LinkEvents)
      BY <3>1 DEF Pending
    <3>3. QED
      BY <1>1, <3>2 DEF InitClient, NothingBeforeInit, InHand
  <2>2. QED
    BY <1>1, <2>1, AttemptUntouched DEF InitClient
<1>2. CASE UserCall
  BY <1>2, CallBegins, AttemptUntouched DEF hostVars, ctrlVars
<1>3. CASE CallStep
  BY <1>3, CallKeepsAttempt
<1>5. CASE PacketHandler
  <2>1. ReportTaken
    BY <1>5, PacketTakesReport
  <2>2. OneReported /\ ~rejected /\ PcAllows
    BY <1>5 DEF AttemptInv, PcAllows, PacketHandler, Overtakes, callVars
  <2>3. CASE Head(hci) \in Reports /\ AdvReport(Head(hci))
    <3>1. CASE state \in FreeStates /\ CreateConnection
      <4>1. ~InHand /\ ~Pending(hci', LinkEvents) /\ ~conHandle'
        BY <2>1, <2>2, <2>3, <3>1, TakenLeaves DEF AttemptInv, InHand, AdvReport
      <4>2. QED
        BY <2>2, <3>1, <4>1, AttemptMade DEF InHand
    <3>2. CASE UNCHANGED <<state, creating, rejected>>
      <4>1. OneReported' /\ UNCHANGED <<link, conHandle>>
        BY <2>1, <2>2, <2>3, <3>2, TakenKeepsOrder DEF AdvReport
      <4>2. QED
        BY <2>1, <2>2, <3>2, <4>1, TakenLeaves DEF AttemptInv, InHand, PcAllows
    <3>3. QED
      BY <2>3, <3>1, <3>2 DEF AdvReport
  <2>4. CASE Head(hci) = "CONN_OK" /\ Connected
    <3>1. /\ state' = "CONNECT" /\ conHandle' = TRUE
          /\ UNCHANGED <<creating, link, rejected>>
      BY <2>4 DEF Connected
    <3>2. ~creating /\ \A i \in DOMAIN hci' : hci'[i] \in LinkEvents => hci'[i] = "DISCONNECTED"
      BY <2>1, <2>2, <2>4, TakenLeaves DEF LinkEvents
    <3>3. OneReported'
      <4>1. \A i \in DOMAIN hci' : i \in Nat /\ i + 1 \in DOMAIN hci /\ hci'[i] = hci[i + 1]
        BY <2>1, TailElements DEF ReportTaken
      <4>2. QED
        BY <2>2, <3>1, <3>2, <4>1 DEF OneReported, LinkEvents
    <3>4. QED
      BY <2>2, <3>1, <3>2, <3>3 DEF AttemptInv, FreeStates, PcAllows
  <2>5. CASE Head(hci) = "CONN_FAIL" /\ ConnectFailed
    <3>1. ~creating /\ ~link /\ ~conHandle /\ ~Pending(hci', LinkEvents)
      BY <2>1, <2>2, <2>5, TakenLeaves DEF LinkEvents
    <3>2. UNCHANGED <<creating, link, conHandle, rejected>>
      BY <2>5 DEF ConnectFailed
    <3>3. OneReported'
      BY <3>1 DEF OneReported, Pending, LinkEvents
    <3>4. QED
      BY <2>2, <3>1, <3>2, <3>3 DEF AttemptInv, InHand, PcAllows
  <2>6. CASE Head(hci) = "UPDATE" /\ ConnectionUpdated
    <3>1. UNCHANGED <<state, creating, link, conHandle, rejected>>
      BY <2>6 DEF ConnectionUpdated, hostVars
    <3>2. OneReported'
      BY <2>1, <2>2, <3>1, TakenKeepsOrder
    <3>3. QED
      BY <2>1, <2>2, <3>1, <3>2, TakenLeaves DEF AttemptInv, InHand, PcAllows
  <2>7. CASE Head(hci) = "DISCONNECTED" /\ Disconnected
    <3>1. /\ ~creating /\ ~link /\ ~Pending(hci', LinkEvents)
          /\ ~conHandle' /\ ~link'
      BY <2>1, <2>2, <2>7, TakenLeaves DEF LinkEvents, Disconnected
    <3>2. CASE CreateConnection
      BY <2>2, <3>1, <3>2, AttemptMade
    <3>3. CASE UNCHANGED <<creating, rejected>>
      <4>1. OneReported'
        BY <3>1 DEF OneReported, Pending, LinkEvents
      <4>2. QED
        BY <2>2, <3>1, <3>3, <4>1 DEF AttemptInv, InHand, PcAllows
    <3>4. QED
      BY <2>7, <3>2, <3>3 DEF Disconnected
  <2>8. QED
    BY <1>5, <2>3, <2>4, <2>5, <2>6, <2>7 DEF PacketHandler
<1>6. CASE SearchComplete
  <2>1. appPc \notin {"scanSet1", "scanSet0", "cancelTest", "cancelSet", "cancelOp"}
    BY <1>6 DEF SearchComplete, AttemptInv, InHand
  <2>2. QED
    BY <1>6, <2>1, AttemptUntouched DEF SearchComplete, FreeStates, callVars
<1>7. CASE Controller
  <2>1. UNCHANGED <<state, conHandle, rejected, appPc>>
    BY <1>7 DEF Controller, CtrlReport, CtrlConnect, CtrlFail, CtrlUpdate,
       CtrlLinkLoss, hostVars, callVars
  <2>2. ASSUME NEW r \in HciEvents \ LinkEvents, Reported(r), UNCHANGED <<creating, link>>
        PROVE  AttemptInv'
    BY <2>1, <2>2, ReportedWaits DEF AttemptInv, InHand
  <2>3. CASE \E r \in Reports : CtrlReport(r)
    BY <2>2, <2>3 DEF CtrlReport, Reported, Reports, HciEvents, LinkEvents
  <2>4. CASE CtrlUpdate
    BY <2>2, <2>4 DEF CtrlUpdate, Reported, HciEvents, LinkEvents
  <2>5. CASE CtrlConnect
    <3>1. OneReported'
      BY <2>1, <2>5, FirstReported DEF CtrlConnect, Reported, AttemptInv, LinkEvents
    <3>2. QED
      BY <2>1, <2>5, <3>1 DEF CtrlConnect, AttemptInv, InHand
  <2>6. CASE CtrlFail
    <3>1. OneReported'
      BY <2>1, <2>6, FirstReported DEF CtrlFail, Reported, AttemptInv, OneLink, LinkEvents
    <3>2. QED
      BY <2>1, <2>6, <3>1 DEF CtrlFail, AttemptInv, InHand
  <2>7. CASE CtrlLinkLoss
    <3>1. LinkEnded /\ ~creating
      BY <2>1, <2>7 DEF CtrlLinkLoss, LinkEnded, Reported, OneLink
    <3>2. OneReported'
      BY <3>1, EndReported DEF AttemptInv
    <3>3. QED
      BY <2>1, <3>1, <3>2 DEF LinkEnded, AttemptInv, InHand
  <2>8. QED
    BY <1>7, <2>3, <2>4, <2>5, <2>6, <2>7 DEF Controller
<1>8. CASE UNCHANGED bleVars
  <2>1. AttemptInv
    OBVIOUS
  <2>2. QED
    BY <1>8, <2>1, AttemptUntouched DEF bleVars, hostVars, ctrlVars, callVars, AttemptInv
<1>9. QED
  BY <1>1, <1>2, <1>3, <1>5, <1>6, <1>7, <1>8 DEF BleStep, OtherStep, CallerStep

-------------------------------------------------------------------------------
(* The invariant, and the theorems.                                          *)

\* Every step keeps the inductive invariant.
LEMMA BleInvKept ==
    ASSUME BleInv, BleStep
    PROVE  BleInv'
<1> USE DEF BleInv
<1>1. BleTypeOK'
  BY BleTypeKept
<1>2. ReportInv'
  BY BleStepIsLinkStep, ReportInvKept, BleTyped DEF BleVarsTyped
<1>3. LookInv'
  BY LookStateKept, SearchHasHandle, EndIsReportedKept DEF LookInv
<1>4. NothingBeforeInit'
  BY NothingBeforeInitKept
<1>5. (~cfg.pairBonding /\ ~overtaken => AttemptInv)'
  <2>1. cfg' = cfg /\ (overtaken => overtaken')
    <3>1. CASE InitClient \/ UNCHANGED bleVars
      <4>1. UNCHANGED <<cfg, raceVars>>
        BY <3>1 DEF InitClient, bleVars
      <4>2. QED
        BY <4>1 DEF raceVars
    <3>6. CASE UserCall
      <4>1. UNCHANGED <<cfg, raceVars>>
        BY <3>6, CallBegins
      <4>2. QED
        BY <4>1 DEF raceVars
    <3>2. CASE CallStep
      BY <3>2 DEF CallStep, SwitchOn, OffTest, SwitchOff, ScanTest, ScanSet, ScanOp, DiscTest,
         DiscSet, DiscSay, DiscOp, Forget, Store, PairAct, CancelTest, CancelSet, CancelOp,
         Tests, TestsLast, Sets, raceVars
    <3>3. CASE PacketHandler
      BY <3>3 DEF PacketHandler, Overtakes
    <3>4. CASE SearchComplete \/ Controller
      BY <3>4 DEF SearchComplete, Controller, CtrlReport, CtrlConnect, CtrlFail, CtrlUpdate,
         CtrlLinkLoss, raceVars
    <3>5. QED
      BY <3>1, <3>2, <3>3, <3>4, <3>6 DEF BleStep, OtherStep, CallerStep
  <2>2. QED
    BY <2>1, AttemptKept DEF ReportInv, LookInv
<1>6. QED
  BY <1>1, <1>2, <1>3, <1>4, <1>5

\* It holds when adapter_odev_ble_open has returned.
LEMMA BleInitInv ==
    ASSUME BleInit
    PROVE  BleInv
<1>1. hci = <<>> /\ ~link /\ ~creating /\ ~conHandle /\ state = "NULL"
  BY DEF BleInit
<1>2. BleTypeOK
  <2>1. hci \in Seq(HciEvents) /\ state \in States
    BY <1>1 DEF States
  <2>2. /\ scanCtrlEn \in BOOLEAN /\ pairFlag \in BOOLEAN /\ pairVm \in BOOLEAN
        /\ pairBond \in BOOLEAN /\ scanning \in BOOLEAN
        /\ overtaken \in BOOLEAN /\ spoiled \in BOOLEAN /\ appPc \in Steps
        /\ updated \in BOOLEAN /\ searching \in BOOLEAN /\ rejected \in BOOLEAN
        /\ conHandle \in BOOLEAN /\ creating \in BOOLEAN /\ link \in BOOLEAN
    BY DEF BleInit, Steps
  <2>3. QED
    BY <2>1, <2>2, BleTyped DEF BleInit, BleVarsTyped
<1>3. HandleFollows
  BY <1>1, EmptyTells DEF HandleFollows
<1>4. \A M, A : ~Pending(hci, M) /\ Answered(hci, M, A)
  BY <1>1 DEF Pending, Answered
<1>5. AttemptInv
  BY <1>1, <1>4, NoneReported DEF AttemptInv, InHand, BleInit
<1>6. LookInv /\ NothingBeforeInit
  BY DEF BleInit, LookInv, LookState, EndIsReported, NothingBeforeInit
<1>7. QED
  BY <1>1, <1>2, <1>3, <1>4, <1>5, <1>6 DEF BleInv, ReportInv, OneLink, UpdateFollows

\* What the invariant says of the properties.
LEMMA BleInvImplies ==
    ASSUME BleInv
    PROVE  HandleAgrees /\ OneAttempt /\ KeepsLooking
<1> USE BleTyped DEF BleInv, BleVarsTyped
<1>1. HandleAgrees
  BY EmptyTells DEF HandleAgrees, ReportInv, HandleFollows
<1>2. OneAttempt
  BY DEF OneAttempt, AttemptInv
<1>3. KeepsLooking
  <2>1. SUFFICES ASSUME ~spoiled PROVE KeepsLooking
    BY DEF KeepsLooking
  <2>2. LookState /\ EndIsReported
    BY <2>1 DEF LookInv
  <2>3. ASSUME scanCtrlEn, AllHandled, ~conHandle
        PROVE  scanning \/ creating \/ state = "DISCONN"
    <3>1. appPc = "idle" /\ ~Pending(hci, LinkEvents)
      BY <2>3 DEF AllHandled, Pending
    <3>2. state \in {"SCAN", "CREATE_CONN", "DISCONN"}
      BY <2>2, <2>3, <3>1 DEF LookState, States
    <3>3. QED
      BY <2>2, <2>3, <3>1, <3>2 DEF LookState, EndIsReported
  <2>4. QED
    BY <2>2, <2>3 DEF KeepsLooking, LookState
<1>4. QED
  BY <1>1, <1>2, <1>3

\* The invariant holds of the client on its own.
THEOREM ClientInvariant == ClientSpec => []BleInv
<1>1. ClientInit => BleInv
  BY BleInitInv DEF ClientInit
<1>2. BleInv /\ [BleNext]_clientVars => BleInv'
  <2> SUFFICES ASSUME BleInv, [BleNext]_clientVars PROVE BleInv'
    OBVIOUS
  <2>1. BleStep
    BY DEF BleNext, clientVars, App, BtBleInit, Stack, AppDrains, BleStep, OtherStep, CallerStep
  <2>2. QED
    BY <2>1, BleInvKept
<1>3. QED
  BY <1>1, <1>2, PTL DEF ClientSpec

\* con_handle agrees with the controller whenever cbk_packet_handler has handled
\* its reports: no link is left that nobody can end.
THEOREM HandleAlwaysAgrees == ClientSpec => []HandleAgrees
BY ClientInvariant, BleInvImplies, PTL

\* Without WIRELESS_PAIR_BONDING client_create_connect_api never asks for a second
\* connection while one is being created or is up, until a handler takes up a
\* connection between the test and the assignment of bt_ble_scan_enable.
THEOREM OneAttemptAtATime == ClientSpec => []OneAttempt
BY ClientInvariant, BleInvImplies, PTL

\* A client that is switched on and has no link is looking for its peer, unless
\* an attempt failed, and what ble_work_state says of the scan is so, wherever its
\* calls are interrupted, but for the two places that spoil them.
THEOREM AlwaysKeepsLooking == ClientSpec => []KeepsLooking
BY ClientInvariant, BleInvImplies, PTL
===============================================================================
