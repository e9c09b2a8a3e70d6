----------------------------- MODULE DuplexDongle -----------------------------
(***************************************************************************)
(* duplex_dongle.c: the dongle of the wireless duplex product.  The        *)
(* adapter process runs between the USB audio input device and the BLE     *)
(* client; the application adds wireless_conn_status and the decision to   *)
(* leave.  All of them meet in one event queue.                            *)
(*                                                                         *)
(* The environment (the USB host, the user, the radio, the decoders) makes *)
(* up to InputMax moves, at any moments; everything the firmware, the      *)
(* controller and a willing peer do in answer is unlimited.                *)
(***************************************************************************)
EXTENDS AdapterProcess, UsbIdev, BleClient

CONSTANT InputMax   \* bound: moves of the environment

ASSUME InputMaxAssumption == InputMax \in Nat

VARIABLES
    usbStarted, \* adapter_idev_usb_start has put the USB device on the bus
    conn,       \* wireless_conn_status
    inputs      \* the moves the environment has made

appVars == <<usbStarted, conn>>
dongleVars == <<vars, usbVars, bleVars, appVars, inputs>>

DongleTypeOK ==
    /\ TypeOK
    /\ UsbTypeOK
    /\ BleTypeOK
    /\ usbStarted \in BOOLEAN /\ conn \in BOOLEAN
    /\ inputs \in 0..InputMax

\* app_main_run has opened the devices; both report that they are initialised.
DongleInit ==
    /\ evq = <<Ev("IDEV_INIT_OK"), Ev("ODEV_INIT_OK")>>
    /\ ProInit
    /\ UsbInit
    /\ BleInit
    /\ usbStarted = FALSE /\ conn = FALSE
    /\ inputs = 0

-------------------------------------------------------------------------------
(* The application task: adapter_process_event_parse, in its order.          *)

\* The input device consumes its events: nobody else sees them.
IdevEvent ==
    /\ Taking
    /\ HandleUac(Head(evq))
    /\ UNCHANGED <<proVars, mediaSel, running, bleVars, appVars, inputs>>

\* Any other event goes to the process, which starts the devices once they
\* are initialised, and then to dongle_event_handle_callback.
AdapterEventStep ==
    LET name == Head(evq).ev
    IN /\ Dispatch
       /\ name \notin UacEvents
       /\ usbStarted' = ((usbStarted \/ name = "IDEV_INIT_OK") /\ running')
       /\ IF name = "ODEV_INIT_OK" THEN InitClient ELSE UNCHANGED bleVars
       /\ conn' = CASE name = "CONNECT" -> TRUE
                    [] name = "DISCONN" -> FALSE
                    [] OTHER -> conn
       /\ UNCHANGED <<usbVars, inputs>>

\* adapter_odev_stop and adapter_odev_close, after the loop.
StopOdev ==
    /\ ~running
    /\ ModuleOff
    /\ UNCHANGED <<proVars, mediaSel, running, usbVars, appVars, inputs>>

\* The rest of a call of the application to the BLE client.
AppContinues ==
    /\ CallStep
    /\ UNCHANGED <<proVars, mediaSel, running, usbVars, appVars, inputs>>

StackStep ==
    /\ Stack
    /\ UNCHANGED <<proVars, mediaSel, running, usbVars, appVars, inputs>>

CloseTimerStep ==
    /\ CloseTimer
    /\ UNCHANGED <<proVars, mediaSel, running, bleVars, appVars, inputs>>

\* What the controller and a peer in range do on their own.
RadioStep ==
    /\ \/ \E r \in Reports : CtrlReport(r)
       \/ CtrlConnect
       \/ CtrlUpdate
    /\ UNCHANGED <<proVars, mediaSel, running, usbVars, appVars, inputs>>

-------------------------------------------------------------------------------
(* The environment.                                                          *)

Move == inputs < InputMax /\ inputs' = inputs + 1

HostMove ==
    /\ Move
    /\ usbStarted
    /\ Host
    /\ UNCHANGED <<proVars, mediaSel, running, bleVars, appVars>>

RadioMove ==
    /\ Move
    /\ CtrlFail \/ CtrlLinkLoss
    /\ UNCHANGED <<proVars, mediaSel, running, usbVars, appVars>>

\* hal_bt_enable, hal_bt_disconnect, hal_bt_debond and KEY_ENTER_PAIR.
UserMove ==
    /\ Move
    /\ UserCall
    /\ UNCHANGED <<proVars, mediaSel, running, usbVars, appVars>>

DecoderMove == Move /\ DecodeError /\ UNCHANGED <<usbVars, bleVars, appVars>>

\* The battery or a held power key asks for the power to be switched off.
PowerOffMove ==
    /\ Move
    /\ running
    /\ Notify(Ev("POWEROFF"))
    /\ UNCHANGED <<usbVars, bleVars, appVars>>

Firmware == \/ IdevEvent \/ AdapterEventStep \/ StopOdev \/ AppContinues
            \/ StackStep \/ CloseTimerStep

Environment == \/ HostMove \/ RadioMove \/ UserMove \/ DecoderMove
               \/ PowerOffMove

DongleNext == Firmware \/ RadioStep \/ Environment

DongleSpec == DongleInit /\ [][DongleNext]_dongleVars

\* The firmware's three tasks are scheduled.  The environment and the radio owe
\* nothing.
DongleFairness ==
    /\ WF_dongleVars(IdevEvent \/ AdapterEventStep \/ AppContinues)
    /\ WF_dongleVars(StackStep)
    /\ WF_dongleVars(CloseTimerStep)

FairDongle == DongleSpec /\ DongleFairness

-------------------------------------------------------------------------------
\* Nothing is on its way between the tasks.
Quiet == running /\ evq = <<>> /\ hci = <<>> /\ appPc = "idle" /\ ~Closing

\* The host has a stream open that its open and close requests leave open: a
\* microphone it opened amid the callback of the close timer is lost, that is,
\* closed after it.
UsbOpen == spkStream \/ (micStream /\ ~lost)
LinkReady == link /\ updated

\* In every quiet state the sound is on exactly when the host has a stream open,
\* not lost to the close timer, and the peer has settled its link, unless a decoder
\* gave up: events of three tasks in one queue never leave the media running for
\* nobody or two open ends silent.
MediaFollowsWorld == Quiet => (media # NoMedia <=> UsbOpen /\ LinkReady /\ ~cut)

\* What the application and the devices believe is so: the input device is marked
\* open exactly while the host streams, though its two streams share one open and
\* one close request, and wireless_conn_status, by which the application decides
\* whether to send, is the state of the link, though two callbacks report each
\* disconnection and a call of the application may be interrupted in between.
CopiesAgree ==
    Quiet => /\ "IDEV" \in devStatus <=> UsbOpen
             /\ spkStatus = spkStream
             /\ micStatus = (micStream /\ ~lost)
             /\ conn = link

\* What the application serves is the microphone the host wants, although its last
\* close may have been pending when the host opened it again: it is lost exactly if
\* the host last opened it amid the callback of the close timer.  Opened between
\* the test of mic_sw and the assignment of mic_stream_is_open, it posts nothing
\* and the stream is closed; opened between that assignment and the event, its
\* MIC_OPEN is queued before the callback's MIC_CLOSE.  A host that does not close
\* it again has an open microphone and no sound.
MicServed == (Quiet /\ micSw) => (micStatus <=> ~lost)

\* When the host streams, the link stays ready and no decoder has failed, the
\* sound comes up and stays.
SoundComesUp ==
    <>[](running /\ UsbOpen /\ LinkReady /\ ~cut) => <>[](media # NoMedia)

\* When the speaker's stream is closed and the host has closed the microphone
\* for good, the decoders are closed in the end: the delayed close is not lost.
SoundGoesDown ==
    <>[](running /\ ~spkStream /\ ~micSw) => <>[](media = NoMedia)
===============================================================================
