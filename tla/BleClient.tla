------------------------------ MODULE BleClient -------------------------------
(***************************************************************************)
(* The BLE client of the dongle, le_wireless_mic_client.c, with the two    *)
(* callbacks of the output device that turn its states and events into     *)
(* adapter events (adapter_odev_ble.c, odev_ble_wireless.c).               *)
(*                                                                         *)
(* Two tasks run this code: the Bluetooth stack's, which handles what the  *)
(* controller reports, and the application's (LiteEMF keys and             *)
(* adapter_odev_ble_stop), which switches the module on and off.  A        *)
(* handler of the stack's task is one step: neither task of the            *)
(* application interrupts it.  It does interrupt them: their calls are cut *)
(* wherever they test or write what the handlers write, and a call that    *)
(* writes acts on what it tested, however stale.  appPc is the statement   *)
(* the call has reached.                                                   *)
(*                                                                         *)
(* The controller and the peer are external: they are modelled by what the *)
(* code requires of them (ble_op_... calls and HCI events).                *)
(***************************************************************************)
EXTENDS SysEvent

CONSTANTS
    Configs,    \* the builds: WIRELESS_PAIR_BONDING, and a match's bonding_flag
    HciMax      \* bound: advertising reports wait only behind fewer than these

ASSUME ConfigsAssumption ==
    Configs \subseteq [pairBonding : BOOLEAN, bondingFlag : BOOLEAN]
ASSUME HciMaxAssumption == HciMax \in Nat \ {0}

VARIABLES
    cfg,            \* the build
    scanCtrlEn,     \* scan_ctrl_en
    state,          \* ble_work_state
    conHandle,      \* con_handle # 0
    pairFlag,       \* conn_pair_info.pair_flag
    pairVm,         \* the pair_flag stored in flash (CFG_BLE_MODE_INFO)
    pairBond,       \* pair_bond_enable
    appPc,          \* the statement the application's call has reached
    callsLeft,      \* the calls of ble_module_enable hal_bt_debond has yet to make
    scanning,       \* controller: scanning
    creating,       \* controller: a connection is being created
    link,           \* controller: connected
    updated,        \* controller: this link's parameters have been updated
    searching,      \* the profile search of this link has not finished
    hci,            \* controller's reports, not yet handled
    rejected,       \* history: the controller was told to create a second
                    \* connection
    overtaken,      \* history: a handler took up a connection between the test
                    \* and the assignment of bt_ble_scan_enable
    spoiled         \* history: since the last connection a handler undid what a
                    \* call had tested or set and not yet acted on

hostVars == <<scanCtrlEn, state, conHandle, pairFlag, pairVm, pairBond>>
callVars == <<appPc, callsLeft>>
ctrlVars == <<scanning, creating, link, updated, searching, hci, rejected>>
raceVars == <<overtaken, spoiled>>
bleVars == <<cfg, hostVars, callVars, ctrlVars, raceVars>>

\* ble_state_e, the states this client takes.
States == {"NULL", "INIT_OK", "SCAN", "IDLE", "CREATE_CONN", "CREATE_CANNEL",
           "CONNECT", "SEARCH_COMPLETE", "SEND_DISCONN", "DISCONN"}

\* The states bt_ble_scan_enable and client_create_connect_api act in.
FreeStates == {"NULL", "INIT_OK", "SCAN", "IDLE", "DISCONN", "CREATE_CANNEL"}

\* The statements of the calls: before bt_ble_init, no call, hal_bt_debond's and
\* clear_bonding_info's, client_create_connection_cannel's, ble_disconnect's,
\* ble_module_enable's and bt_ble_scan_enable's.
Steps == {"init", "idle", "forget", "store", "pairAct",
          "cancelTest", "cancelSet", "cancelOp",
          "discTest", "discState", "discSet", "sayClose", "sayDisconn", "discOp",
          "switchOn", "offTest", "offLink", "offScan",
          "scanTest1", "scanSet1", "scanOp1", "scanTest0", "scanSet0", "scanOp0"}

\* GAP_EVENT_ADVERTISING_REPORT of a peer with the matching name, or directed
\* by the bonded one; HCI events.
Reports == {"ADV_NAME", "ADV_DIRECT"}
HciEvents == Reports \cup {"CONN_OK", "CONN_FAIL", "UPDATE", "DISCONNECTED"}

BleTypeOK ==
    /\ cfg \in Configs
    /\ state \in States
    /\ \A v \in {scanCtrlEn, conHandle, pairFlag, pairVm, pairBond} : v \in BOOLEAN
    /\ appPc \in Steps
    /\ callsLeft \in {{}, {"on"}, {"off", "on"}}
    /\ \A v \in {scanning, creating, link, updated, searching, rejected,
                 overtaken, spoiled} : v \in BOOLEAN
    /\ hci \in Seq(HciEvents)

\* adapter_odev_ble_open has registered the configuration and the callbacks; a
\* bond may be in flash.
BleInit ==
    /\ cfg \in Configs
    /\ scanCtrlEn = FALSE /\ state = "NULL" /\ conHandle = FALSE
    /\ pairFlag = FALSE /\ pairVm \in BOOLEAN /\ pairBond = FALSE
    /\ appPc = "init" /\ callsLeft = {}
    /\ scanning = FALSE /\ creating = FALSE /\ link = FALSE
    /\ updated = FALSE /\ searching = FALSE /\ hci = <<>> /\ rejected = FALSE
    /\ overtaken = FALSE /\ spoiled = FALSE

-------------------------------------------------------------------------------
(* Pieces of handlers.                                                       *)

\* set_ble_work_state: adapter_odev_ble_status_callback hears of a change.
StatusPosts(old, new) ==
    IF new # old /\ new \in {"DISCONN", "SEND_DISCONN"}
    THEN (IF AlwaysRun THEN <<>> ELSE <<Ev("ODEV_MEDIA_CLOSE")>>)
         \o <<Ev("DISCONN")>>
    ELSE <<>>

\* wireless_adapter_event_callback, of the client's event.
EventPosts(event) ==
    CASE event = "CONNECTED" -> <<Ev("CONNECT")>>
      [] event = "CONNECTION_UPDATE" -> <<Ev("ODEV_MEDIA_OPEN")>>
      [] event = "DISCONNECT" -> <<Ev("ODEV_MEDIA_CLOSE"), Ev("DISCONN")>>

\* ble_op_create_connection: while a connection is being created or is up the
\* controller (CONFIG_BT_GATT_CLIENT_NUM is 1) refuses the command and reports
\* nothing.
CtrlCreate ==
    /\ creating' = (creating \/ ~link)
    /\ rejected' = (rejected \/ creating \/ link)

\* client_create_connect_api in a state that allows it: the states of a
\* connection that exists or is on its way do not.
CreateConnection == state' = "CREATE_CONN" /\ CtrlCreate

\* bt_ble_scan_enable(0, on), from the state s with the switch at en.
ScanEnable(en, s, on) ==
    IF en /\ s \in FreeStates
    THEN /\ state' = IF on THEN "SCAN" ELSE "IDLE"
         /\ scanning' = IF state' = s THEN scanning ELSE on
    ELSE state' = s /\ UNCHANGED scanning

-------------------------------------------------------------------------------
(* The application's calls.                                                  *)

\* bt_ble_init: forget a bond nobody asks for, then switch the module on; the
\* bonding build starts switched off until it has been paired.
InitClient ==
    LET keep == cfg.pairBonding \/ cfg.bondingFlag
        on == ~cfg.pairBonding \/ pairVm
    IN /\ appPc = "init"
       /\ appPc' = "idle"
       /\ pairFlag' = (pairVm /\ keep)
       /\ pairVm' = (pairVm /\ keep)
       /\ scanCtrlEn' = on
       /\ ScanEnable(on, "INIT_OK", TRUE)
       /\ UNCHANGED <<cfg, conHandle, pairBond, callsLeft, creating, link,
                      updated, searching, hci, rejected, raceVars>>

BtBleInit == InitClient /\ UNCHANGED evq

\* A call begins at the statement pc; the calls `left` follow it.
Call(pc, left) ==
    /\ appPc = "idle"
    /\ appPc' = pc
    /\ callsLeft' = left
    /\ UNCHANGED <<evq, cfg, hostVars, ctrlVars, raceVars>>

ModuleOn == Call("switchOn", {})                \* ble_module_enable(1)
ModuleOff == Call("offTest", {})                \* ble_module_enable(0)
AppDisconnect == Call("discTest", {})           \* hal_bt_disconnect
Debond == Call("forget", {"off", "on"})         \* hal_bt_debond

\* KEY_ENTER_PAIR of the bonding build.
EnterPair == cfg.pairBonding /\ Call("forget", {})

UserCall == ModuleOn \/ ModuleOff \/ AppDisconnect \/ Debond \/ EnterPair

\* The statement pc of the call is executed, and the next is `next`.
Step(pc, next) == appPc = pc /\ appPc' = next /\ UNCHANGED callsLeft

\* ... or it is the last of a call.
Return(pc) ==
    /\ appPc = pc
    /\ appPc' = CASE "off" \in callsLeft -> "offTest"
                  [] callsLeft = {"on"} -> "switchOn"
                  [] OTHER -> "idle"
    /\ callsLeft' = IF "off" \in callsLeft THEN {"on"} ELSE {}

\* Statements that only test.
Tests(pc, next) ==
    /\ Step(pc, next)
    /\ UNCHANGED <<evq, cfg, hostVars, ctrlVars, raceVars>>
TestsLast(pc) == Return(pc) /\ UNCHANGED <<evq, cfg, hostVars, ctrlVars, raceVars>>

\* set_ble_work_state of a call.
Sets(pc, s, next) ==
    /\ Step(pc, next)
    /\ state' = s
    /\ UNCHANGED <<evq, cfg, scanCtrlEn, conHandle, pairFlag, pairVm, pairBond,
                   ctrlVars, raceVars>>

\* Mutant: bt_ble_scan_enable is not called.
SwitchOn_Only ==
    /\ Return("switchOn")
    /\ scanCtrlEn' = TRUE
    /\ UNCHANGED <<evq, cfg, state, conHandle, pairFlag, pairVm, pairBond,
                   ctrlVars, raceVars>>

\* ble_module_enable(1).
SwitchOn ==
    /\ Step("switchOn", "scanTest1")
    /\ scanCtrlEn' = TRUE
    /\ UNCHANGED <<evq, cfg, state, conHandle, pairFlag, pairVm, pairBond,
                   ctrlVars, raceVars>>

\* ble_module_enable(0): end the connection, or end the scan.
OffTest ==
    \/ conHandle /\ Tests("offTest", "offLink")
    \/ ~conHandle /\ Tests("offTest", "scanTest0")

SwitchOff ==
    /\ \/ Step("offLink", "discTest")
       \/ Return("offScan")
    /\ scanCtrlEn' = FALSE
    /\ UNCHANGED <<evq, cfg, state, conHandle, pairFlag, pairVm, pairBond,
                   ctrlVars, raceVars>>

\* bt_ble_scan_enable(0, 1), whose return ends the call, and
\* bt_ble_scan_enable(0, 0), which ble_module_enable(0) goes on after: the test
\* of the switch and the state (read once), the state, and the command.
ScanTest ==
    LET acts(s) == scanCtrlEn /\ state \in FreeStates \ {s}
    IN \/ acts("SCAN") /\ Tests("scanTest1", "scanSet1")
       \/ ~acts("SCAN") /\ TestsLast("scanTest1")
       \/ acts("IDLE") /\ Tests("scanTest0", "scanSet0")
       \/ ~acts("IDLE") /\ Tests("scanTest0", "offScan")

ScanSet ==
    \/ Sets("scanSet1", "SCAN", "scanOp1")
    \/ Sets("scanSet0", "IDLE", "scanOp0")

ScanOp ==
    /\ \/ Return("scanOp1") /\ scanning' = TRUE
       \/ Step("scanOp0", "offScan") /\ scanning' = FALSE
    /\ UNCHANGED <<evq, cfg, hostVars, creating, link, updated, searching, hci,
                   rejected, raceVars>>

\* ble_disconnect: once, while con_handle is set ...
DiscTest ==
    \/ conHandle /\ Tests("discTest", "discState")
    \/ ~conHandle /\ TestsLast("discTest")
    \/ state # "SEND_DISCONN" /\ Tests("discState", "discSet")
    \/ state = "SEND_DISCONN" /\ TestsLast("discState")

\* ... it sets the state, whose change the callback reports in two events ...
DiscSet == Sets("discSet", "SEND_DISCONN", "sayClose")

DiscSay ==
    /\ \/ /\ Step("sayClose", "sayDisconn")
          /\ Post(IF AlwaysRun THEN <<>> ELSE <<Ev("ODEV_MEDIA_CLOSE")>>)
       \/ Step("sayDisconn", "discOp") /\ Post(<<Ev("DISCONN")>>)
    /\ UNCHANGED <<cfg, hostVars, ctrlVars, raceVars>>

\* ... and tells the controller to end the link con_handle names by now.
DiscOp ==
    /\ Return("discOp")
    /\ link' = (link /\ ~conHandle)
    /\ hci' = IF link /\ conHandle THEN Append(hci, "DISCONNECTED") ELSE hci
    /\ UNCHANGED <<evq, cfg, hostVars, scanning, creating, updated, searching,
                   rejected, raceVars>>

\* clear_bonding_info: the bond in flash counts; it is wiped in memory ...
Forget ==
    /\ appPc = "forget"
    /\ pairFlag' = FALSE
    /\ IF pairVm THEN Step("forget", "store") ELSE Return("forget")
    /\ UNCHANGED <<evq, cfg, scanCtrlEn, state, conHandle, pairVm, pairBond,
                   ctrlVars, raceVars>>

\* ... and in flash.
Store ==
    /\ Step("store", "pairAct")
    /\ pairVm' = pairFlag
    /\ UNCHANGED <<evq, cfg, scanCtrlEn, state, conHandle, pairFlag, pairBond,
                   ctrlVars, raceVars>>

\* The bonding build also ends what uses it: an attempt, to scan again, or the
\* connection.
PairAct ==
    LET cancels == state = "CREATE_CONN"
    IN \/ ~cfg.pairBonding /\ TestsLast("pairAct")
       \/ cfg.pairBonding /\ cancels /\ Tests("pairAct", "cancelTest")
       \/ cfg.pairBonding /\ ~cancels /\ Tests("pairAct", "discTest")

\* client_create_connection_cannel: the test, the state ...
CancelTest ==
    \/ state = "CREATE_CONN" /\ Tests("cancelTest", "cancelSet")
    \/ state # "CREATE_CONN" /\ Tests("cancelTest", "scanTest1")

CancelSet == Sets("cancelSet", "CREATE_CANNEL", "cancelOp")

\* ... and the command, which the controller answers with a failure.
CancelOp ==
    /\ Step("cancelOp", "scanTest1")
    /\ creating' = FALSE
    /\ hci' = IF creating THEN Append(hci, "CONN_FAIL") ELSE hci
    /\ UNCHANGED <<evq, cfg, hostVars, scanning, link, updated, searching,
                   rejected, raceVars>>

CallStep == \/ SwitchOn \/ OffTest \/ SwitchOff \/ ScanTest \/ ScanSet \/ ScanOp
            \/ DiscTest \/ DiscSet \/ DiscSay \/ DiscOp
            \/ Forget \/ Store \/ PairAct \/ CancelTest \/ CancelSet \/ CancelOp

-------------------------------------------------------------------------------
(* The stack's task: cbk_packet_handler and the profile search.              *)

\* The client only answers directed reports of the peer it is bonded to ...
Bonded == cfg.pairBonding /\ pairFlag

\* ... and any other client a report whose name, once the signal is strong
\* enough, is one it looks for.
Matches(r) == r = IF Bonded THEN "ADV_DIRECT" ELSE "ADV_NAME"

\* check_device_is_match: a name of the client's own list says whether to bond
\* with its bearer, the tool's name says nothing.
BondOfMatch(r) ==
    pairBond' \in {pairBond, IF Matches(r) /\ ~Bonded THEN cfg.bondingFlag
                                                      ELSE pairBond}

\* Mutant: the connection is created in any state.
AdvReport_AnyState(r) ==
    /\ Matches(r)
    /\ CreateConnection
    /\ scanning' = FALSE
    /\ UNCHANGED <<evq, scanCtrlEn, conHandle, pairFlag, pairVm, pairBond, link,
                   updated, searching>>

\* Mutant: the state is set and the connection not created.
AdvReport_StateOnly(r) ==
    /\ IF state \in FreeStates
       THEN state' = "CREATE_CONN" /\ scanning' = FALSE
       ELSE UNCHANGED <<state, scanning>>
    /\ UNCHANGED <<evq, scanCtrlEn, conHandle, pairFlag, pairVm, pairBond, link,
                   updated, searching, creating, rejected>>

\* client_report_adv_data: bt_ble_scan_enable(0, 0), then
\* client_create_connect_api.  Only the former looks at the switch.
AdvReport(r) ==
    /\ BondOfMatch(r)
    /\ IF Matches(r) /\ state \in FreeStates
       THEN /\ CreateConnection
            /\ scanning' = IF scanCtrlEn /\ state # "IDLE" THEN FALSE
                                                           ELSE scanning
       ELSE UNCHANGED <<state, scanning, creating, rejected>>
    /\ UNCHANGED <<evq, scanCtrlEn, conHandle, pairFlag, pairVm, link, updated,
                   searching>>

\* HCI_SUBEVENT_LE_CONNECTION_COMPLETE, success: CLI_EVENT_CONNECTED.
Connected ==
    LET bond == cfg.pairBonding \/ pairBond
    IN /\ conHandle' = TRUE
       /\ state' = "CONNECT"
       /\ searching' = TRUE
       /\ pairFlag' = (pairFlag \/ bond)
       /\ pairVm' = (IF bond THEN TRUE ELSE pairVm)
       /\ pairBond' = (pairBond /\ cfg.pairBonding)
       /\ Post(EventPosts("CONNECTED"))
       /\ UNCHANGED <<scanCtrlEn, scanning, creating, link, updated, rejected>>

\* ... and failure: nothing is tried again.
ConnectFailed ==
    /\ state' = "DISCONN"
    /\ Post(StatusPosts(state, "DISCONN"))
    /\ UNCHANGED <<scanCtrlEn, conHandle, pairFlag, pairVm, pairBond, scanning,
                   creating, link, updated, searching, rejected>>

\* HCI_SUBEVENT_LE_CONNECTION_UPDATE_COMPLETE, whatever its status.
ConnectionUpdated ==
    /\ Post(EventPosts("CONNECTION_UPDATE"))
    /\ UNCHANGED <<hostVars, scanning, creating, link, updated, searching,
                   rejected>>

\* Mutant: con_handle is not cleared.
Disconnected_KeepsHandle ==
    /\ searching' = FALSE
    /\ Post(EventPosts("DISCONNECT"))
    /\ ScanEnable(scanCtrlEn, "DISCONN", TRUE)
    /\ UNCHANGED <<scanCtrlEn, conHandle, pairFlag, pairVm, pairBond, creating,
                   link, updated, rejected>>

\* HCI_EVENT_DISCONNECTION_COMPLETE: report it, then create a connection to
\* the bonded peer or, if the switch allows, scan.
Disconnected ==
    /\ conHandle' = FALSE
    /\ searching' = FALSE
    /\ Post(StatusPosts(state, "DISCONN") \o EventPosts("DISCONNECT"))
    /\ IF ~cfg.pairBonding /\ pairFlag
       THEN CreateConnection /\ UNCHANGED scanning
       ELSE ScanEnable(scanCtrlEn, "DISCONN", TRUE)
            /\ UNCHANGED <<creating, rejected>>
    /\ UNCHANGED <<scanCtrlEn, pairFlag, pairVm, pairBond, link, updated>>

\* What a handler makes of the tests of the call it interrupts.  A state of no
\* connection that bt_ble_scan_enable has found is gone, and will be overwritten;
\* the IDLE it has set is gone, and its command to follow; the con_handle that
\* ble_disconnect has found is cleared.  A new connection sets all of it right.
Overtakes ==
    /\ overtaken' = (overtaken \/ ( /\ appPc \in {"scanSet1", "scanSet0"}
                                   /\ state' \notin FreeStates ))
    /\ spoiled' = \/ appPc = "scanOp0" /\ state' # state
                  \/ appPc \in {"discState", "discSet"} /\ ~conHandle'
                  \/ spoiled /\ Head(hci) # "CONN_OK"

PacketHandler ==
    /\ hci # <<>>
    /\ hci' = Tail(hci)
    /\ \/ Head(hci) \in Reports /\ AdvReport(Head(hci))
       \/ Head(hci) = "CONN_OK" /\ Connected
       \/ Head(hci) = "CONN_FAIL" /\ ConnectFailed
       \/ Head(hci) = "UPDATE" /\ ConnectionUpdated
       \/ Head(hci) = "DISCONNECTED" /\ Disconnected
    /\ UNCHANGED <<cfg, callVars>>
    /\ Overtakes

\* user_client_report_search_result(-1) and do_operate_search_handle, with
\* search_uuid_cnt 0: the state moves on, whatever it was.
SearchComplete ==
    /\ searching
    /\ searching' = FALSE
    /\ state' = "SEARCH_COMPLETE"
    /\ UNCHANGED <<evq, cfg, scanCtrlEn, conHandle, pairFlag, pairVm, pairBond,
                   callVars, scanning, creating, link, updated, hci, rejected,
                   raceVars>>

-------------------------------------------------------------------------------
(* The controller and the peer.                                              *)

CtrlReport(r) ==
    /\ scanning
    /\ Len(hci) < HciMax
    /\ hci' = Append(hci, r)
    /\ UNCHANGED <<evq, cfg, hostVars, callVars, scanning, creating, link,
                   updated, searching, rejected, raceVars>>

CtrlConnect ==
    /\ creating
    /\ creating' = FALSE
    /\ link' = TRUE
    /\ updated' = FALSE
    /\ hci' = Append(hci, "CONN_OK")
    /\ UNCHANGED <<evq, cfg, hostVars, callVars, scanning, searching, rejected,
                   raceVars>>

CtrlFail ==
    /\ creating
    /\ creating' = FALSE
    /\ hci' = Append(hci, "CONN_FAIL")
    /\ UNCHANGED <<evq, cfg, hostVars, callVars, scanning, link, updated,
                   searching, rejected, raceVars>>

\* The peer asks for new connection parameters (once per link suffices).
CtrlUpdate ==
    /\ link
    /\ ~updated
    /\ updated' = TRUE
    /\ hci' = Append(hci, "UPDATE")
    /\ UNCHANGED <<evq, cfg, hostVars, callVars, scanning, creating, link,
                   searching, rejected, raceVars>>

CtrlLinkLoss ==
    /\ link
    /\ link' = FALSE
    /\ hci' = Append(hci, "DISCONNECTED")
    /\ UNCHANGED <<evq, cfg, hostVars, callVars, scanning, creating, updated,
                   searching, rejected, raceVars>>

App == BtBleInit \/ UserCall \/ CallStep

Stack == PacketHandler \/ SearchComplete

Controller == \/ \E r \in Reports : CtrlReport(r)
              \/ CtrlConnect \/ CtrlFail \/ CtrlUpdate \/ CtrlLinkLoss

\* The client on its own: the application takes what was posted before anything
\* else happens, since no step of the client reads it.
AppDrains == evq # <<>> /\ evq' = <<>> /\ UNCHANGED bleVars

BleNext == \/ evq = <<>> /\ (App \/ Stack \/ Controller)
           \/ AppDrains

clientVars == <<evq, bleVars>>

ClientInit == evq = <<>> /\ BleInit
ClientSpec == ClientInit /\ [][BleNext]_clientVars

\* The tasks run; the controller carries out a scan and a connection, and the
\* peer, when in range, advertises both ways.
ClientFairness ==
    /\ WF_clientVars(Stack)
    /\ WF_clientVars(AppDrains)
    /\ WF_clientVars(BtBleInit \/ CallStep)
    /\ WF_clientVars(CtrlConnect \/ CtrlFail)
    /\ \A r \in Reports : SF_clientVars(CtrlReport(r))

FairClient == ClientSpec /\ ClientFairness

-------------------------------------------------------------------------------
AllHandled == hci = <<>> /\ appPc = "idle"

\* con_handle, on which every later disconnect depends, agrees with the
\* controller once its reports are handled: no link is left that the client
\* cannot end, no handle of a link that is gone.
HandleAgrees == hci = <<>> => conHandle = link

\* Without a bond that clearing can cancel, the client never asks for a second
\* connection while one is being created or is up, whatever reports are still
\* queued, whenever the application calls and whichever statement of its call is
\* interrupted: unless a handler takes up a connection between the test of
\* bt_ble_scan_enable and its set_ble_work_state, which hides that connection
\* behind SCAN or IDLE.
OneAttempt == (~cfg.pairBonding /\ ~overtaken) => ~rejected

\* Switched on and not connected, with nothing left to handle, the client is
\* looking for its peer; only a failed attempt leaves it in DISCONN doing
\* nothing.  And between calls a client that believes it scans does, and one that
\* believes it is idle is switched off and does not.  Two interruptions of a call
\* break this, until the next connection: con_handle cleared after ble_disconnect
\* has tested it, which leaves SEND_DISCONN and no link, and a state changed
\* between the IDLE of bt_ble_scan_enable and its command, which ends a later scan.
KeepsLooking ==
    ~spoiled =>
        /\ (scanCtrlEn /\ AllHandled /\ ~conHandle)
              => scanning \/ creating \/ state = "DISCONN"
        /\ appPc = "idle" => /\ state = "SCAN" => scanning
                             /\ state = "IDLE" => ~scanCtrlEn /\ ~scanning

\* A client that is on, not connected and not left in DISCONN by a failed
\* attempt gets a link, unless it is switched off, an attempt fails, or a call was
\* interrupted in one of those two places.
Reconnects ==
    (scanCtrlEn /\ ~conHandle)
        ~> (conHandle \/ ~scanCtrlEn \/ state = "DISCONN" \/ spoiled)

\* bt_ble_adv_enable and ble_module_enable are the switch of the module: while
\* it is off and no call is under way, no connection is started.
OffMeansOff ==
    [][(~scanCtrlEn /\ appPc = "idle") => (creating' => creating)]_clientVars
===============================================================================
