------------------------------- MODULE UsbIdev --------------------------------
(***************************************************************************)
(* The USB audio input device: uac_stream.c, which turns the host's        *)
(* SET_INTERFACE requests into stream events, and adapter_idev_usb.c,      *)
(* which turns stream events into opens and closes of the media.           *)
(*                                                                         *)
(* Three tasks touch this state: the USB interrupt (the host's requests),  *)
(* the timer that closes the microphone one second late, and the           *)
(* application task, which handles the events in the order of the queue    *)
(* and appends the adapter events they cause at its end.                   *)
(*                                                                         *)
(* The speaker's rate and channels are constants of the build (uac1.c), so *)
(* a PLAY_OPEN differs from what the media knows at most once: before any  *)
(* open request has filled the parameters in.                              *)
(***************************************************************************)
EXTENDS SysEvent

CONSTANT SofFills   \* the builds: the values of USB_SOF_FILL_DATA_MODE

ASSUME SofFillsAssumption == SofFills \subseteq BOOLEAN

VARIABLES
    sofFill,    \* the build: the start-of-frame interrupt feeds the speaker
    spkStream,  \* speaker_stream_is_open
    micStream,  \* mic_stream_is_open
    micSw,      \* mic_sw: what the host last asked of the microphone
    micTimer,   \* mic_close_tid # 0: the close timer runs
    micClosing, \* the timer callback has read mic_sw and will close the stream
    micNotify,  \* it has closed the stream and will post that
    lost,       \* history: the host last opened the microphone amid that callback
    spkStatus,  \* __this->spk_status
    micStatus,  \* __this->mic_status
    playParm    \* downstream_parm holds the speaker's rate and channels

closeVars == <<micTimer, micClosing, micNotify>>
streamVars == <<sofFill, spkStream, micStream, micSw, closeVars, lost>>
idevVars == <<spkStatus, micStatus, playParm>>
usbVars == <<streamVars, idevVars>>

UsbTypeOK ==
    /\ sofFill \in SofFills
    /\ \A v \in {spkStream, micStream, micSw, micTimer, micClosing, micNotify,
             lost} : v \in BOOLEAN
    /\ \A v \in {spkStatus, micStatus, playParm} : v \in BOOLEAN

UsbInit ==
    /\ sofFill \in SofFills
    /\ spkStream = FALSE /\ micStream = FALSE /\ micSw = FALSE
    /\ micTimer = FALSE /\ micClosing = FALSE /\ micNotify = FALSE /\ lost = FALSE
    /\ spkStatus = FALSE /\ micStatus = FALSE /\ playParm = FALSE

-------------------------------------------------------------------------------
(* The host's requests: SET_INTERFACE of one of the two interfaces.          *)

\* Alternate setting 1: open_spk.
SpeakerOpen ==
    /\ ~spkStream
    /\ spkStream' = TRUE
    /\ Post(<<Ev("PLAY_OPEN")>>)
    /\ UNCHANGED <<micStream, micSw, closeVars, lost, sofFill, idevVars>>

\* Alternate setting 0: close_spk.  A build with USB_SOF_FILL_DATA_MODE keeps
\* the stream open and feeds it silence, so there nothing happens.
SpeakerClose ==
    /\ spkStream
    /\ ~sofFill
    /\ spkStream' = FALSE
    /\ Post(<<Ev("PLAY_CLOSE")>>)
    /\ UNCHANGED <<micStream, micSw, closeVars, lost, sofFill, idevVars>>

\* The callback of the close timer is under way, and will post a MIC_CLOSE.
Closing == micClosing \/ micNotify

\* uac_mic_stream_open: while the stream is still open, because the close is
\* delayed, nothing is posted.
MicOpen ==
    /\ micSw' = TRUE
    /\ lost' = (Closing \/ (lost /\ micStream))
    /\ \/ micStream /\ UNCHANGED <<micStream, evq>>
       \/ ~micStream /\ micStream' = TRUE /\ Post(<<Ev("MIC_OPEN")>>)
    /\ UNCHANGED <<spkStream, closeVars, sofFill, idevVars>>

\* Mutant: the timer is only pushed back, never started.
MicClose_NoTimer ==
    /\ micSw' = FALSE
    /\ UNCHANGED <<evq, spkStream, micStream, closeVars, lost, sofFill, idevVars>>

\* uac_mic_stream_close: the timer is started, or pushed back.
MicClose ==
    /\ micSw' = FALSE
    /\ micTimer' = (micTimer \/ micStream)
    /\ UNCHANGED <<evq, spkStream, micStream, micClosing, micNotify, lost, sofFill,
                   idevVars>>

\* Mutant: a microphone that is wanted again is closed all the same.
CloseDelayTest_Always ==
    /\ micTimer
    /\ ~Closing
    /\ micTimer' = FALSE
    /\ micClosing' = TRUE
    /\ UNCHANGED <<evq, spkStream, micStream, micSw, micNotify, lost, sofFill,
                   idevVars>>

(* uac_mic_stream_close_delay, in three steps: the host may be served        *)
(* between the test of mic_sw and the assignment of mic_stream_is_open, and  *)
(* between that and the event, which then comes after the host's MIC_OPEN.   *)
CloseDelayTest ==
    /\ micTimer
    /\ ~Closing
    /\ micTimer' = FALSE
    /\ micClosing' = ~micSw
    /\ UNCHANGED <<evq, spkStream, micStream, micSw, micNotify, lost, sofFill,
                   idevVars>>

CloseDelayAct ==
    /\ micClosing
    /\ micClosing' = FALSE
    /\ micNotify' = TRUE
    /\ micStream' = FALSE
    /\ UNCHANGED <<evq, spkStream, micSw, micTimer, lost, sofFill, idevVars>>

CloseDelayNotify ==
    /\ micNotify
    /\ micNotify' = FALSE
    /\ Post(<<Ev("MIC_CLOSE")>>)
    /\ UNCHANGED <<spkStream, micStream, micSw, micTimer, micClosing, lost, sofFill,
                   idevVars>>

-------------------------------------------------------------------------------
(* adapter_idev_uac_event_prase, in the application task.  Each handler names *)
(* the adapter events it posts, open_request and close_request.               *)

OpenRequest == <<OpenIdevEv(0)>>
CloseRequest == <<Ev("IDEV_MEDIA_CLOSE")>>

\* The first speaker parameters differ from the zeroes of the media: reset.
PlayOpened ==
    LET reset == ~playParm
    IN /\ spkStatus' = TRUE
       /\ playParm' = TRUE
       /\ UNCHANGED micStatus
       /\ TakeAndPost(IF ~micStatus \/ reset THEN OpenRequest ELSE <<>>)

\* Mutant: the close is requested although the microphone is open.
PlayClosed_AlwaysCloses ==
    /\ spkStatus' = FALSE
    /\ UNCHANGED <<micStatus, playParm>>
    /\ TakeAndPost(CloseRequest)

PlayClosed ==
    /\ spkStatus' = FALSE
    /\ UNCHANGED <<micStatus, playParm>>
    /\ TakeAndPost(IF ~micStatus THEN CloseRequest ELSE <<>>)

\* Mutant: the open is left to the speaker.
MicOpened_NoRequest ==
    /\ micStatus' = TRUE
    /\ playParm' = (playParm \/ ~spkStatus)
    /\ UNCHANGED spkStatus
    /\ TakeAndPost(<<>>)

\* The duplex product does not switch between media as the microphone comes
\* and goes (USB_AUDIO_NORMAL_EN is 0).
MicOpened ==
    /\ micStatus' = TRUE
    /\ playParm' = (playParm \/ ~spkStatus)
    /\ UNCHANGED spkStatus
    /\ TakeAndPost(IF ~spkStatus THEN OpenRequest ELSE <<>>)

MicClosed ==
    /\ micStatus' = FALSE
    /\ UNCHANGED <<spkStatus, playParm>>
    /\ TakeAndPost(IF ~spkStatus THEN CloseRequest ELSE <<>>)

HandleUac(e) ==
    /\ \/ e.ev = "PLAY_OPEN" /\ PlayOpened
       \/ e.ev = "PLAY_CLOSE" /\ PlayClosed
       \/ e.ev = "MIC_OPEN" /\ MicOpened
       \/ e.ev = "MIC_CLOSE" /\ MicClosed
    /\ UNCHANGED streamVars

-------------------------------------------------------------------------------
SpeakerInterface == SpeakerOpen \/ SpeakerClose

MicInterface == MicOpen \/ MicClose

Host == SpeakerInterface \/ MicInterface

CloseTimer == CloseDelayTest \/ CloseDelayAct \/ CloseDelayNotify
===============================================================================
