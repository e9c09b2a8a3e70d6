------------------------------- MODULE BleServer -------------------------------
(***************************************************************************)
(* The BLE server of the earphone, le_wireless_mic_server.c, with the      *)
(* standard (HID) profile it can be switched to, le_hogp.c, and the status *)
(* callback of the input device, adapter_idev_ble.c.                       *)
(*                                                                         *)
(* The stack's task handles what the controller and the peer report, one   *)
(* report per step: no other task of the firmware interrupts it.  It does  *)
(* interrupt the tasks that call the server (LiteEMF's, and the            *)
(* application's): their calls are cut wherever they test or write what    *)
(* the handlers write.  What is left of the call under way is `todo`.      *)
(*                                                                         *)
(* Two builds exist: the plain earphone, and the LiteEMF one, which keeps  *)
(* a bond in flash (WIRELESS_PAIR_BONDING) and switches profiles.          *)
(***************************************************************************)
EXTENDS SysEvent

VARIABLES
    emf,            \* the LiteEMF build
    advCtrlEn,      \* adv_ctrl_en
    state,          \* ble_work_state
    conHandle,      \* con_handle # 0
    pairFlag,       \* conn_pair_info.pair_flag
    pairVm,         \* the pair_flag stored in flash (CFG_BLE_MODE_INFO)
    userPrivate,    \* flag_user_private, the profile asked for
    private,        \* the profile whose packet handler is registered
    todo,           \* the steps left of the call under way
    adv,            \* controller: advertising
    link,           \* controller: connected
    settled,        \* peer: has updated this link, or written its CCC
    hci,            \* controller's reports, not yet handled
    wish,           \* history: the last caller wants the module on
    raced           \* history: a connection, a bond or a disconnection was
                    \* handled amid a call, or a call came while a switch of
                    \* profiles waited for its disconnection

hostVars == <<advCtrlEn, state, conHandle, pairFlag, pairVm, userPrivate, private>>
ctrlVars == <<adv, link, settled, hci>>
histVars == <<wish, raced>>
srvVars == <<emf, hostVars, todo, ctrlVars, histVars>>

\* ble_state_e, the states this server takes.
States == {"NULL", "INIT_OK", "ADV", "IDLE", "CONNECT", "UPDATE_OK",
           "NOTIFY", "SEND_DISCONN", "DISCONN"}

\* The states set_adv_enable acts in.
AdvStates == {"ADV", "IDLE", "INIT_OK", "NULL", "DISCONN"}

Reports == {"CONN", "UPDATE", "CCC", "ENCRYPTED", "DISCONNECTED"}

\* The pieces of the calls.
Steps == {"ctrlOn", "ctrlOff", "advTest1", "advSet1", "advTest0", "advSet0",
          "offTest", "discTest", "discSet", "forget", "store", "pairAct",
          "swTest", "reset", "selectRadio", "selectUsb"}

SrvTypeOK ==
    /\ state \in States
    /\ \A v \in {emf, advCtrlEn, conHandle, pairFlag, pairVm, userPrivate,
                 private, adv, link, settled, wish, raced} : v \in BOOLEAN
    /\ todo \in Seq(Steps)
    /\ hci \in Seq(Reports)

\* adapter_idev_ble_open has registered the callbacks and the stack the private
\* profile; the LiteEMF build may find a bond in flash.
SrvInit ==
    /\ emf \in BOOLEAN
    /\ advCtrlEn = FALSE /\ state = "NULL" /\ conHandle = FALSE
    /\ pairFlag = FALSE /\ pairVm \in {FALSE, emf}
    /\ userPrivate = TRUE /\ private = TRUE
    /\ todo = <<>>
    /\ adv = FALSE /\ link = FALSE /\ settled = FALSE /\ hci = <<>>
    /\ wish = FALSE /\ raced = FALSE

-------------------------------------------------------------------------------
(* Calls.                                                                    *)

\* Mutant: the input device is not closed.
StatusPosts_NoClose(old, new) ==
    CASE new # old /\ new = "DISCONN" -> <<Ev("DISCONN")>>
      [] new # old /\ new = "UPDATE_OK" -> <<Ev("CONNECT"), OpenIdevEv(0)>>
      [] OTHER -> <<>>

\* set_ble_work_state: adapter_ble_status_callback hears of a change.
StatusPosts(old, new) ==
    CASE new # old /\ new = "DISCONN" -> <<Ev("DISCONN"), Ev("IDEV_MEDIA_CLOSE")>>
      [] new # old /\ new = "UPDATE_OK" -> <<Ev("CONNECT"), OpenIdevEv(0)>>
      [] OTHER -> <<>>

ModuleOn == <<"ctrlOn", "advTest1">>        \* ble_module_enable(1)
ModuleOff == <<"offTest">>                  \* ble_module_enable(0)
Disconnect == <<"discTest">>                \* ble_disconnect
ClearBonding == <<"forget">>                \* clear_bonding_info

\* bt_ble_init, at the start of the input device: the plain build switches the
\* module on, the LiteEMF build only once it has been paired.
InitServer ==
    LET on == ~emf \/ pairVm
    IN /\ state' = IF on THEN "ADV" ELSE "INIT_OK"
       /\ adv' = on
       /\ advCtrlEn' = on
       /\ wish' = on
       /\ pairFlag' = pairVm
       /\ UNCHANGED <<emf, conHandle, pairVm, userPrivate, private, todo, link,
                      settled, hci, raced>>

\* A profile has been asked for that only a disconnection to come will register.
SwitchPending == conHandle /\ private # userPrivate

\* A call begins; `on` is what it wants of the module.
Call(steps, on) ==
    /\ state # "NULL"
    /\ todo = <<>>
    /\ todo' = steps
    /\ wish' = on
    /\ raced' = (raced \/ SwitchPending)
    /\ UNCHANGED <<emf, ctrlVars, advCtrlEn, state, conHandle, pairFlag, pairVm,
                   private>>

\* hal_bt_enable: the switch of the module, then of the media.
CallOn ==
    /\ emf
    /\ Call(ModuleOn \o <<"selectRadio">>, TRUE)
    /\ UNCHANGED userPrivate
CallOff ==
    /\ emf
    /\ Call(ModuleOff \o <<"selectUsb">>, FALSE)
    /\ UNCHANGED userPrivate

\* adapter_idev_ble_stop and adapter_idev_ble_close.
CallStop == Call(ModuleOff \o ModuleOff, FALSE) /\ UNCHANGED userPrivate

\* hal_bt_disconnect.
CallDisconnect == emf /\ Call(Disconnect, wish) /\ UNCHANGED userPrivate

\* KEY_ENTER_PAIR, and hal_bt_debond.
CallEnterPair == emf /\ Call(ClearBonding, wish) /\ UNCHANGED userPrivate
CallDebond ==
    /\ emf
    /\ Call(ClearBonding \o ModuleOff \o ModuleOn, TRUE)
    /\ UNCHANGED userPrivate

\* hal_bt_select_mode: user_ble_pri_or_normal_sw if the profile differs.
CallSwitch ==
    /\ emf
    /\ userPrivate' = ~userPrivate
    /\ Call(<<"swTest">>, TRUE)

\* One step of the call, which is then continued by `more`.
Step(s) == todo # <<>> /\ Head(todo) = s
Then(more) == todo' = more \o Tail(todo)

SetCtrl ==
    \E on \in BOOLEAN :
        /\ Step(IF on THEN "ctrlOn" ELSE "ctrlOff")
        /\ advCtrlEn' = on
        /\ Then(<<>>)
        /\ UNCHANGED <<evq, emf, state, conHandle, pairFlag, pairVm, userPrivate,
                       private, ctrlVars, histVars>>

NextState(en) == IF en THEN "ADV" ELSE "IDLE"

\* set_adv_enable: the tests ...
AdvTest ==
    /\ \E en \in BOOLEAN :
        /\ Step(IF en THEN "advTest1" ELSE "advTest0")
        /\ IF advCtrlEn /\ ~conHandle /\ state \in AdvStates \ {NextState(en)}
           THEN Then(<<IF en THEN "advSet1" ELSE "advSet0">>)
           ELSE Then(<<>>)
    /\ UNCHANGED <<evq, emf, hostVars, ctrlVars, histVars>>

\* ... and, after them, the state and the command.
AdvSet ==
    \E en \in BOOLEAN :
        /\ Step(IF en THEN "advSet1" ELSE "advSet0")
        /\ Then(<<>>)
        /\ state' = NextState(en)
        /\ adv' = (en /\ ~link)
        /\ UNCHANGED <<evq, emf, advCtrlEn, conHandle, pairFlag, pairVm,
                       userPrivate, private, link, settled, hci, histVars>>

\* Mutant: adv_ctrl_en is cleared first, so set_adv_enable refuses.
OffTest_CtrlFirst ==
    /\ Step("offTest")
    /\ Then(IF conHandle THEN <<"ctrlOff">> \o Disconnect
                         ELSE <<"ctrlOff", "advTest0">>)
    /\ UNCHANGED <<evq, emf, hostVars, ctrlVars, histVars>>

\* ble_module_enable(0): the test of con_handle and its two branches.
OffTest ==
    /\ Step("offTest")
    /\ Then(IF conHandle THEN <<"ctrlOff">> \o Disconnect
                         ELSE <<"advTest0", "ctrlOff">>)
    /\ UNCHANGED <<evq, emf, hostVars, ctrlVars, histVars>>

\* ble_disconnect: once, while con_handle is set.
DiscTest ==
    /\ Step("discTest")
    /\ Then(IF conHandle /\ state # "SEND_DISCONN" THEN <<"discSet">> ELSE <<>>)
    /\ UNCHANGED <<evq, emf, hostVars, ctrlVars, histVars>>

DiscSet ==
    /\ Step("discSet")
    /\ Then(<<>>)
    /\ state' = "SEND_DISCONN"
    /\ link' = (link /\ ~conHandle)
    /\ hci' = IF link /\ conHandle THEN Append(hci, "DISCONNECTED") ELSE hci
    /\ UNCHANGED <<evq, emf, advCtrlEn, conHandle, pairFlag, pairVm, userPrivate,
                   private, adv, settled, histVars>>

\* clear_bonding_info: the bond in flash is read, and if there is one, it is
\* wiped in memory, then in flash; then the server advertises anew, or ends the
\* link that uses it.
Forget ==
    /\ Step("forget")
    /\ pairFlag' = FALSE
    /\ Then(IF pairVm THEN <<"store", "pairAct">> ELSE <<>>)
    /\ UNCHANGED <<evq, emf, advCtrlEn, state, conHandle, pairVm, userPrivate,
                   private, ctrlVars, histVars>>

Store ==
    /\ Step("store")
    /\ pairVm' = pairFlag
    /\ Then(<<>>)
    /\ UNCHANGED <<evq, emf, advCtrlEn, state, conHandle, pairFlag, userPrivate,
                   private, ctrlVars, histVars>>

\* Mutant: the link is kept.
PairAct_KeepsLink ==
    /\ Step("pairAct")
    /\ Then(IF state = "ADV" THEN <<"advTest0", "advTest1">> ELSE <<>>)
    /\ UNCHANGED <<evq, emf, hostVars, ctrlVars, histVars>>

PairAct ==
    /\ Step("pairAct")
    /\ Then(CASE state = "ADV" -> <<"advTest0", "advTest1">>
              [] state # "ADV" /\ conHandle -> Disconnect
              [] OTHER -> <<>>)
    /\ UNCHANGED <<evq, emf, hostVars, ctrlVars, histVars>>

\* user_ble_pri_or_normal_sw, its test: without a connection it switches here,
\* with one it leaves that to the disconnection.
SwTest ==
    /\ Step("swTest")
    /\ Then(IF conHandle THEN ModuleOff
                         ELSE ModuleOff \o <<"reset">> \o ModuleOn)
    /\ UNCHANGED <<evq, emf, hostVars, ctrlVars, histVars>>

\* ll_reset (external) ends whatever the controller does and its link.
LlReset(reports) ==
    /\ link' = FALSE
    /\ hci' = IF link THEN Append(reports, "DISCONNECTED") ELSE reports

\* ble_disconnect_complete_sw: the controller is reset and ble_profile_init
\* registers the handlers of the profile asked for.
Reset ==
    /\ Step("reset")
    /\ Then(<<>>)
    /\ private' = userPrivate
    /\ LlReset(hci)
    /\ adv' = FALSE
    /\ UNCHANGED <<evq, emf, advCtrlEn, state, conHandle, pairFlag, pairVm,
                   userPrivate, settled, histVars>>

CallStep == \/ SetCtrl \/ AdvTest \/ AdvSet \/ OffTest \/ DiscTest \/ DiscSet
            \/ Forget \/ Store \/ PairAct \/ SwTest \/ Reset

-------------------------------------------------------------------------------
(* The stack's task: cbk_packet_handler and standard_cbk_packet_handler.     *)

\* HCI_SUBEVENT_LE_CONNECTION_COMPLETE: server_profile_start; the private
\* profile of the LiteEMF build bonds with whoever connects.
Connected ==
    LET bond == emf /\ private
    IN /\ conHandle' = TRUE
       /\ state' = "CONNECT"
       /\ pairFlag' = (pairFlag \/ bond)
       /\ pairVm' = (pairVm \/ bond)
       /\ UNCHANGED <<evq, advCtrlEn, private, adv>>

\* HCI_SUBEVENT_LE_CONNECTION_UPDATE_COMPLETE: only the private profile's
\* handler says that the link is ready for sound.
Updated ==
    /\ state' = IF private THEN "UPDATE_OK" ELSE state
    /\ Post(StatusPosts(state, state'))
    /\ UNCHANGED <<advCtrlEn, conHandle, pairFlag, pairVm, private, adv>>

\* The peer of the standard profile subscribes to the HID reports ...
CccWritten ==
    /\ state' = IF private THEN state ELSE "NOTIFY"
    /\ UNCHANGED <<evq, advCtrlEn, conHandle, pairFlag, pairVm, private, adv>>

\* ... or is encrypted: it is bonded with, and on a reconnection its
\* subscription is restored.
Encrypted ==
    /\ pairFlag' = (pairFlag \/ ~private)
    /\ pairVm' = (pairVm \/ ~private)
    /\ state' \in {state, IF private THEN state ELSE "NOTIFY"}
    /\ UNCHANGED <<evq, advCtrlEn, conHandle, private, adv>>

\* Mutant: con_handle is not cleared.
Disconnected_KeepsHandle ==
    LET switch == private # userPrivate
    IN /\ UNCHANGED conHandle
       /\ Post(StatusPosts(state, "DISCONN"))
       /\ state' = IF advCtrlEn \/ switch THEN "ADV" ELSE "DISCONN"
       /\ IF switch THEN LlReset(Tail(hci))
                    ELSE hci' = Tail(hci) /\ UNCHANGED link
       /\ adv' = (advCtrlEn # switch /\ ~link')
       /\ advCtrlEn' = (advCtrlEn \/ switch)
       /\ private' = userPrivate
       /\ UNCHANGED <<pairFlag, pairVm>>

\* Mutant: the switch is forgotten, the profile stays.
Disconnected_NoSwitch ==
    /\ conHandle' = FALSE
    /\ Post(StatusPosts(state, "DISCONN"))
    /\ state' = IF advCtrlEn THEN "ADV" ELSE "DISCONN"
    /\ hci' = Tail(hci)
    /\ adv' = (advCtrlEn /\ ~link)
    /\ UNCHANGED <<link, advCtrlEn, private, pairFlag, pairVm>>

\* HCI_EVENT_DISCONNECTION_COMPLETE: advertise again if the switch allows;
\* switch profiles and the module on if another profile has been asked for.
\* The second attempt to advertise does nothing in the state ADV.
Disconnected ==
    LET switch == private # userPrivate
    IN /\ conHandle' = FALSE
       /\ Post(StatusPosts(state, "DISCONN"))
       /\ state' = IF advCtrlEn \/ switch THEN "ADV" ELSE "DISCONN"
       /\ IF switch THEN LlReset(Tail(hci))
                    ELSE hci' = Tail(hci) /\ UNCHANGED link
       /\ adv' = (advCtrlEn # switch /\ ~link')
       /\ advCtrlEn' = (advCtrlEn \/ switch)
       /\ private' = userPrivate
       /\ UNCHANGED <<pairFlag, pairVm>>

Interrupting == {"CONN", "ENCRYPTED", "DISCONNECTED"}

PacketHandler ==
    /\ hci # <<>>
    /\ \/ /\ \/ Head(hci) = "CONN" /\ Connected
             \/ Head(hci) = "UPDATE" /\ Updated
             \/ Head(hci) = "CCC" /\ CccWritten
             \/ Head(hci) = "ENCRYPTED" /\ Encrypted
          /\ hci' = Tail(hci)
          /\ UNCHANGED link
       \/ Head(hci) = "DISCONNECTED" /\ Disconnected
    /\ raced' = (raced \/ (todo # <<>> /\ Head(hci) \in Interrupting))
    /\ UNCHANGED <<emf, userPrivate, todo, settled, wish>>

-------------------------------------------------------------------------------
(* The controller and the peer (external).                                   *)

CtrlConnect ==
    /\ adv
    /\ adv' = FALSE
    /\ link' = TRUE
    /\ settled' = FALSE
    /\ hci' = Append(hci, "CONN")
    /\ UNCHANGED <<evq, emf, hostVars, todo, histVars>>

\* The peer updates the parameters of its link, subscribes or encrypts it
\* (once per link suffices).
PeerSettles ==
    /\ link
    /\ ~settled
    /\ settled' = TRUE
    /\ \E r \in IF private THEN {"UPDATE"} ELSE {"UPDATE", "CCC", "ENCRYPTED"} :
          hci' = Append(hci, r)
    /\ UNCHANGED <<evq, emf, hostVars, todo, adv, link, histVars>>

CtrlLinkLoss ==
    /\ link
    /\ link' = FALSE
    /\ hci' = Append(hci, "DISCONNECTED")
    /\ UNCHANGED <<evq, emf, hostVars, todo, adv, settled, histVars>>

UserCall == \/ CallOn \/ CallOff \/ CallDisconnect \/ CallEnterPair
            \/ CallDebond \/ CallSwitch

-------------------------------------------------------------------------------
\* No report and no call is under way.
Handled == hci = <<>> /\ todo = <<>>

\* con_handle agrees with the controller once its reports are handled, whatever
\* was interrupted.
HandleAgrees == hci = <<>> => conHandle = link

\* Once no link is left, the packet handlers registered are those of the profile
\* asked for, however often it was asked for while a link ended.
ProfileAgrees == (Handled /\ ~conHandle) => private = userPrivate

\* Without a link the earphone advertises exactly if the last caller wants it
\* to: no connection, disconnection, reset or switch of profiles leaves it
\* invisible, or visible when it is off.  The calls are not atomic: only a
\* report that came amid one, or a call amid a switch, can break this.
AdvertisesAsAsked ==
    (state # "NULL" /\ Handled /\ ~conHandle /\ ~raced)
        => adv = wish /\ advCtrlEn = wish /\ (adv <=> state = "ADV")

\* A link of the private profile never outlives its bond: a bond that is
\* cleared ends the link that used it.
ForgottenLinkEnds ==
    (Handled /\ emf /\ private /\ conHandle /\ ~raced) => pairFlag
===============================================================================
