---------------------------- MODULE DuplexEarphone ----------------------------
(***************************************************************************)
(* duplex_earphone.c: the earphone of the wireless duplex product.  The    *)
(* adapter process runs between the BLE server, its input device, and the  *)
(* DAC; the application adds wireless_conn_status, the tones it plays when *)
(* a link comes and goes, and the music volume the dongle commands.        *)
(*                                                                         *)
(* A tone takes the decoder's resource from the media (preemption 1), and  *)
(* app_core waits for one tone before it plays the next.                   *)
(***************************************************************************)
EXTENDS AdapterProcess, BleServer

CONSTANTS
    InputMax,   \* bound: moves of the environment
    Builds,     \* the builds: with LiteEMF (TRUE) and plain (FALSE)
    Vols        \* the volumes the dongle sends, two u8 in one value

VolMax == 65535         \* of a u16

ASSUME EarInputMaxAssumption == InputMax \in Nat
ASSUME BuildsAssumption == Builds \subseteq BOOLEAN
ASSUME VolsAssumption == Vols \subseteq 0..VolMax /\ Vols # {}

VARIABLES
    conn,       \* wireless_conn_status
    tone,       \* a tone is playing
    hostVol,    \* the volume in the dongle's commands
    curVol,     \* cur_music_vol
    decVol,     \* the volume of the decoder's stream, NoVol while it has none
    stopped,    \* the devices have been stopped after the loop
    ended,      \* history: a link has ended
    inputs      \* the moves the environment has made

volVars == <<hostVol, curVol, decVol>>
earVars == <<conn, tone, volVars, stopped, ended>>
earphoneVars == <<vars, srvVars, earVars, inputs>>

NoVol == 65536          \* for -1, which no command carries
DefaultVol == 25700     \* 100 on both channels

EarTypeOK ==
    /\ TypeOK
    /\ SrvTypeOK
    /\ {conn, tone, stopped, ended} \subseteq BOOLEAN
    /\ hostVol \in Vols
    /\ curVol \in Vols \cup {NoVol}
    /\ decVol \in Vols \cup {NoVol, DefaultVol}
    /\ inputs \in 0..InputMax

\* app_main_run has opened the devices; both report that they are initialised.
EarInit ==
    /\ evq = <<Ev("IDEV_INIT_OK"), Ev("ODEV_INIT_OK")>>
    /\ ProInit
    /\ SrvInit /\ emf \in Builds
    /\ conn = FALSE /\ tone = FALSE /\ stopped = FALSE /\ ended = FALSE
    /\ hostVol = (CHOOSE v \in Vols : TRUE) /\ curVol = NoVol /\ decVol = NoVol
    /\ inputs = 0

-------------------------------------------------------------------------------
(* The application task.                                                     *)

\* adapter_idev_bt_start and adapter_odev_dac_start: each asks for the media at
\* once, the server before it has a link.
DeviceStarts ==
    /\ Taking
    /\ \/ /\ Head(evq).ev = "IDEV_INIT_OK"
          /\ InitServer
          /\ TakeAndPost(<<OpenIdevEv(0)>>)
       \/ /\ Head(evq).ev = "ODEV_INIT_OK"
          /\ TakeAndPost(<<Ev("ODEV_MEDIA_OPEN")>>)
          /\ UNCHANGED srvVars
    /\ UNCHANGED <<proVars, mediaSel, running, earVars, inputs>>

ToneEvents == {"CONNECT", "DISCONN"}

\* earphone_tone_play: app_core waits while the tone before it plays.
WaitsForTone == evq # <<>> /\ Head(evq).ev \in ToneEvents /\ tone

\* Whether a SET_MUSIC_VOL makes a difference.
NewVolume(e) == e.ev = "SET_MUSIC_VOL" /\ e.val # curVol

\* earphone_event_handle_callback, the volume; the closes forget it.
CurVolAfter(e) ==
    CASE NewVolume(e) -> e.val
      [] e.ev \in {"IDEV_MEDIA_CLOSE", "ODEV_MEDIA_CLOSE"} -> NoVol
      [] OTHER -> curVol

\* The stream of the decoder: a tone takes it, the media closes it, a start
\* opens it at the default volume, unless a tone still plays.
DecVolAfter(e) ==
    IF e.ev \in ToneEvents \/ media' = NoMedia \/ tone THEN NoVol
    ELSE IF media' # media THEN DefaultVol
    ELSE IF NewVolume(e) /\ decVol # NoVol THEN e.val
    ELSE decVol

\* adapter_process_event_parse, then earphone_event_handle_callback.
EventStep ==
    LET e == Head(evq)
    IN /\ Dispatch
       /\ e.ev \notin {"IDEV_INIT_OK", "ODEV_INIT_OK"}
       /\ ~WaitsForTone
       /\ conn' = IF e.ev \in ToneEvents THEN e.ev = "CONNECT" ELSE conn
       /\ tone' = (tone \/ e.ev \in ToneEvents)
       /\ curVol' = CurVolAfter(e)
       /\ decVol' = DecVolAfter(e)
       /\ UNCHANGED <<srvVars, hostVol, stopped, ended, inputs>>

\* After the loop: adapter_idev_stop and adapter_idev_close switch the server
\* off, adapter_odev_close still reports that the DAC closes.
StopDevices ==
    /\ ~running
    /\ ~stopped
    /\ stopped' = TRUE
    /\ CallStop
    /\ Post(<<Ev("ODEV_MEDIA_CLOSE")>>)
    /\ UNCHANGED <<proVars, mediaSel, running, conn, tone, volVars, ended, inputs>>

-------------------------------------------------------------------------------
(* The other tasks.                                                          *)

\* Mutant: one of the two channels starts at 100, the other at 0.
ToneEnd_OneChannel ==
    /\ tone
    /\ tone' = FALSE
    /\ curVol' = NoVol
    /\ decVol' = IF media # NoMedia THEN 100 ELSE NoVol
    /\ UNCHANGED <<vars, srvVars, conn, hostVol, stopped, ended, inputs>>

\* Mutant: the volume is not forgotten.
ToneEnd_KeepsVolume ==
    /\ tone
    /\ tone' = FALSE
    /\ decVol' = IF media # NoMedia THEN DefaultVol ELSE NoVol
    /\ UNCHANGED <<vars, srvVars, conn, hostVol, curVol, stopped, ended, inputs>>

\* A tone ends, in the decoders' task: earphone_tone_play_callback forgets the
\* volume before the media's decoder is given its resource back.
ToneEnd ==
    /\ tone
    /\ tone' = FALSE
    /\ curVol' = NoVol
    /\ decVol' = IF media # NoMedia THEN DefaultVol ELSE NoVol
    /\ UNCHANGED <<vars, srvVars, conn, hostVol, stopped, ended, inputs>>

\* slave_downstream_command_parse, in the decoders' task while it decodes what
\* the radio brings; the LiteEMF build hands the command over to LiteEMF.
CommandParse ==
    /\ ~emf
    /\ link
    /\ decVol # NoVol
    /\ curVol # hostVol
    /\ Len(evq) < NotifyMax
    /\ Post(<<SetVolEv(hostVol)>>)
    /\ UNCHANGED <<proVars, mediaSel, running, srvVars, earVars, inputs>>

\* The stack's task.
StackStep ==
    /\ PacketHandler
    /\ ended' = (ended \/ Head(hci) = "DISCONNECTED")
    /\ UNCHANGED <<proVars, mediaSel, running, conn, tone, volVars, stopped, inputs>>

\* The steps of a call to the server ...
CallerStep ==
    /\ CallStep
    /\ UNCHANGED <<proVars, mediaSel, running, earVars, inputs>>

\* ... and the last one of hal_bt_enable: it selects the media, 0 for the radio
\* and 1 for USB.
SelectStep ==
    /\ \E s \in Sels :
        /\ Step(IF s = 0 THEN "selectRadio" ELSE "selectUsb")
        /\ SelectMedia(s) \/ (s = mediaSel /\ UNCHANGED vars)
    /\ Then(<<>>)
    /\ UNCHANGED <<emf, hostVars, ctrlVars, histVars, earVars, inputs>>

RadioStep ==
    /\ CtrlConnect \/ PeerSettles
    /\ UNCHANGED <<proVars, mediaSel, running, earVars, inputs>>

-------------------------------------------------------------------------------
(* The environment.                                                          *)

Move == inputs < InputMax /\ inputs' = inputs + 1

LinkLossMove ==
    /\ Move
    /\ CtrlLinkLoss
    /\ UNCHANGED <<proVars, mediaSel, running, earVars>>

\* LiteEMF, or a key.
UserMove ==
    /\ Move
    /\ UserCall
    /\ UNCHANGED <<vars, earVars>>

DecoderMove == Move /\ DecodeError /\ UNCHANGED <<srvVars, earVars>>

PowerOffMove ==
    /\ Move
    /\ running
    /\ Notify(Ev("POWEROFF"))
    /\ UNCHANGED <<srvVars, earVars>>

\* The host of the dongle sets another volume.
VolumeMove ==
    /\ Move
    /\ ~emf
    /\ \E v \in Vols \ {hostVol} : hostVol' = v
    /\ UNCHANGED <<vars, srvVars, conn, tone, curVol, decVol, stopped, ended>>

Firmware == \/ DeviceStarts \/ EventStep \/ StopDevices \/ ToneEnd
            \/ CommandParse \/ StackStep \/ CallerStep \/ SelectStep

Environment == \/ LinkLossMove \/ UserMove \/ DecoderMove \/ PowerOffMove
               \/ VolumeMove

EarNext == Firmware \/ RadioStep \/ Environment

EarSpec == EarInit /\ [][EarNext]_earphoneVars

-------------------------------------------------------------------------------
\* Nothing is on its way between the tasks.
Quiet == running /\ evq = <<>> /\ Handled /\ ~tone

\* The link carries sound.
Ready == link /\ settled /\ private

\* Whatever the tasks interleave, a link that is ready is heard while the radio
\* is selected, and a link that ended leaves no decoder running (in the plain
\* build, where nothing else opens the input device); wireless_conn_status, and so
\* the tone heard last, tells of the link.
SoundFollowsLink ==
    Quiet => /\ conn = Ready
             /\ (Ready /\ mediaSel = 0 /\ ~cut) => media = 0
             /\ (~emf /\ ended /\ ~Ready) => media = NoMedia

\* The volume the application believes in, by which it ignores commands, is the
\* decoder's, though the decoder forgets it at each start and each tone.
VolumeKept == (Quiet /\ decVol # NoVol) => curVol \in {NoVol, decVol}

\* hal_bt.c says of the selection: 1 is USB mode.  With USB selected and nothing
\* in the way, the USB media runs.
UsbModePlays == (Quiet /\ emf /\ mediaSel = 1 /\ ~cut) => media = 1
===============================================================================
