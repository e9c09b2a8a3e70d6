---------------------------- MODULE AdapterProcess ----------------------------
(***************************************************************************)
(* adapter_process.c: the loop of the application task that turns events   *)
(* of the input device (USB or microphone), of the output device (the      *)
(* radio link or the DAC) and of the decoders into starts and stops of the *)
(* media, i.e. of the decoders of adapter_media.c.                         *)
(*                                                                         *)
(* Every handler runs to its end in the application task; the other tasks  *)
(* only post events and write adapter_media_sel.                           *)
(*                                                                         *)
(* adapter_odev_media_prepare returns -1 for both output devices of this   *)
(* product (the BLE link and the DAC), so a handler that takes media_lock  *)
(* calls the start callback and releases the lock before it returns.       *)
(***************************************************************************)
EXTENDS SysEvent

CONSTANTS
    NotifyMax,  \* bound: events the devices leave waiting when they post
    ListNum,    \* media->config->list_num: the media configured
    Sels        \* the values adapter_media_sel is given

ASSUME NotifyMaxAssumption == NotifyMax \in Nat
ASSUME ListNumAssumption == ListNum \in Nat \ {0}
ASSUME SelsAssumption == Sels \subseteq Nat /\ 0 \in Sels

VARIABLES
    mode,       \* pro->mode: the media mode asked for, NoMode after a close
    devStatus,  \* pro->dev_status: the devices that said they are open
    mediaLock,  \* pro->media_lock
    media,      \* the media whose decoders are open, or NoMedia
    mediaSel,   \* adapter_media_sel, a global of adapter_media.c
    running,    \* adapter_process_run has not returned
    cut         \* history: a decoder error stopped the media last started

proVars == <<mode, devStatus, mediaLock, media, cut>>
vars == <<evq, mode, devStatus, mediaLock, media, mediaSel, running, cut>>

NoMode == 255
NoMedia == ListNum     \* one past the list: no decoder is open
Both == {"IDEV", "ODEV"}

TypeOK ==
    /\ evq \in Seq(Event)
    /\ mode \in Modes \cup {NoMode}
    /\ devStatus \in SUBSET Both
    /\ mediaLock \in {0, 1}
    /\ media \in (0..(ListNum - 1)) \cup {NoMedia}
    /\ mediaSel \in Sels
    /\ running \in BOOLEAN
    /\ cut \in BOOLEAN

\* adapter_process_open: zalloc, so the mode starts as 0 and not as NoMode.
ProInit ==
    /\ mode = 0
    /\ devStatus = {}
    /\ mediaLock = 0
    /\ media = NoMedia
    /\ mediaSel = 0
    /\ running = TRUE
    /\ cut = FALSE

Init == evq = <<>> /\ ProInit

-------------------------------------------------------------------------------
\* adapter_media_stop: both decoders are closed; closing twice is harmless.
MediaStop == media' = NoMedia

\* adapter_media_start: the selection is read here, not when the event was
\* posted; a selection past the list leaves the media stopped.
MediaStart ==
    media' = IF mediaSel < ListNum THEN mediaSel ELSE NoMedia

\* Mutant: dev_status is tested before the device's bit is set.
DeviceOpened_TestsFirst(d) ==
    /\ devStatus' = devStatus \cup {d}
    /\ IF devStatus = Both THEN MediaStart /\ cut' = FALSE
                           ELSE UNCHANGED <<media, cut>>
    /\ UNCHANGED mediaLock

\* Mutant: the media starts with the first device.
DeviceOpened_EitherDevice(d) ==
    /\ devStatus' = devStatus \cup {d}
    /\ MediaStart
    /\ cut' = FALSE
    /\ UNCHANGED mediaLock

\* A device said it is open.  The last of the two prepares and starts the
\* media: the lock is taken, adapter_process_media_start_callback stops and
\* starts it and releases the lock.
DeviceOpened(d) ==
    LET opened == IF AlwaysRun THEN Both ELSE devStatus \cup {d}
    IN /\ devStatus' = opened
       /\ IF opened = Both /\ mediaLock = 0
          THEN /\ MediaStart
               /\ cut' = FALSE
          ELSE UNCHANGED <<media, cut>>
       /\ UNCHANGED mediaLock

IdevMediaOpen(m) ==
    IF devStatus = Both
    THEN UNCHANGED proVars
    ELSE mode' = m /\ DeviceOpened("IDEV")

\* Mutant: a second open of the output device is not ignored.
OdevMediaOpen_Again == DeviceOpened("ODEV") /\ UNCHANGED mode

OdevMediaOpen ==
    IF devStatus = Both
    THEN UNCHANGED proVars
    ELSE DeviceOpened("ODEV") /\ UNCHANGED mode

\* Mutant: the input device stays marked open.
IdevMediaClose_StaysOpen ==
    mode' = NoMode /\ MediaStop /\ UNCHANGED <<devStatus, mediaLock, cut>>

IdevMediaClose ==
    IF AlwaysRun
    THEN UNCHANGED proVars
    ELSE /\ mode' = NoMode
         /\ devStatus' = devStatus \ {"IDEV"}
         /\ MediaStop
         /\ UNCHANGED <<mediaLock, cut>>

\* Mutant: the media is not stopped.
OdevMediaClose_KeepsMedia ==
    /\ mediaLock' = 0
    /\ devStatus' = devStatus \ {"ODEV"}
    /\ UNCHANGED <<mode, media, cut>>

\* Mutant: the lock is counted down where it should be cleared.
OdevMediaClose_CountsDown ==
    /\ mediaLock' = mediaLock - 1
    /\ devStatus' = devStatus \ {"ODEV"}
    /\ MediaStop
    /\ UNCHANGED <<mode, cut>>

OdevMediaClose ==
    IF AlwaysRun
    THEN UNCHANGED proVars
    ELSE /\ mediaLock' = 0
         /\ devStatus' = devStatus \ {"ODEV"}
         /\ MediaStop
         /\ UNCHANGED <<mode, cut>>

\* MEDIA_DECODE_ERR and MEDIA_CLOSE stop the media and nothing else: the
\* devices stay marked open.
MediaError ==
    /\ MediaStop
    /\ cut' = TRUE
    /\ UNCHANGED <<mode, devStatus, mediaLock>>

\* adapter_process_run has returned: adapter_process_close.
Close ==
    /\ running' = FALSE
    /\ MediaStop
    /\ UNCHANGED <<mode, devStatus, mediaLock, cut>>

-------------------------------------------------------------------------------
\* adapter_device_event_parse, as far as the process itself is concerned,
\* and the POWEROFF every application's callback answers by leaving the loop.
Handle(e) ==
    \/ e.ev = "IDEV_MEDIA_OPEN" /\ IdevMediaOpen(e.val) /\ UNCHANGED running
    \/ e.ev = "ODEV_MEDIA_OPEN" /\ OdevMediaOpen /\ UNCHANGED running
    \/ e.ev = "IDEV_MEDIA_CLOSE" /\ IdevMediaClose /\ UNCHANGED running
    \/ e.ev = "ODEV_MEDIA_CLOSE" /\ OdevMediaClose /\ UNCHANGED running
    \/ /\ e.ev \in {"MEDIA_DECODE_ERR", "MEDIA_CLOSE"}
       /\ MediaError
       /\ UNCHANGED running
    \/ e.ev = "POWEROFF" /\ Close

\* Events the process passes on without a change of its own state.
PassedOn == {"IDEV_INIT_OK", "ODEV_INIT_OK", "CONNECT", "DISCONN",
             "SET_MUSIC_VOL"} \cup UacEvents

\* One round of adapter_process_run.
Taking == running /\ evq # <<>>

Dispatch ==
    /\ Taking
    /\ TakeAndPost(<<>>)
    /\ \/ Handle(Head(evq))
       \/ Head(evq).ev \in PassedOn /\ UNCHANGED <<proVars, running>>
    /\ UNCHANGED mediaSel

-------------------------------------------------------------------------------
\* The rest of the firmware, left open: any device may report at any time.
Notify(e) ==
    /\ e.ev # "MEDIA_DECODE_ERR"
    /\ Len(evq) < NotifyMax
    /\ Post(<<e>>)
    /\ UNCHANGED <<proVars, mediaSel, running>>

\* A decoder of the running media is given its resource and fails to start, in
\* the decoders' task.
DecodeError ==
    /\ media # NoMedia
    /\ Post(<<Ev("MEDIA_DECODE_ERR")>>)
    /\ UNCHANGED <<proVars, mediaSel, running>>

\* Mutant: only the opens are posted.
SelectMedia_OpensOnly(s) ==
    /\ s # mediaSel
    /\ mediaSel' = s
    /\ Post(<<Ev("ODEV_MEDIA_OPEN"), OpenIdevEv(0)>>)
    /\ UNCHANGED <<proVars, running>>

\* hal_bt_enable of LiteEMF: a change of the selection closes and opens both
\* devices, whatever their state, so that the new media starts.
SelectMedia(s) ==
    /\ s # mediaSel
    /\ mediaSel' = s
    /\ Post(<<Ev("ODEV_MEDIA_CLOSE"), Ev("ODEV_MEDIA_OPEN"),
              Ev("IDEV_MEDIA_CLOSE"), OpenIdevEv(0)>>)
    /\ UNCHANGED <<proVars, running>>

Next == \/ Dispatch
        \/ \E e \in AdapterEvent : Notify(e)
        \/ DecodeError
        \/ \E s \in Sels : SelectMedia(s)

Spec == Init /\ [][Next]_vars

-------------------------------------------------------------------------------
\* A close that is posted and not yet handled.
CloseWaiting ==
    \E i \in DOMAIN evq :
        evq[i].ev \in {"IDEV_MEDIA_CLOSE", "ODEV_MEDIA_CLOSE"}

\* The decoders run only while both devices are marked open: whatever order
\* the devices, the decoders and the selection report in, no close leaves the
\* media running and no error or late open starts it with one device closed.
MediaNeedsBoth == media # NoMedia => devStatus = Both

\* While the input device is marked open, pro->mode is a mode it asked for: the
\* output device, which may open much later, is never asked to prepare media for
\* the 0xff a close leaves behind.
OpenHasMode == ~AlwaysRun => ("IDEV" \in devStatus => mode # NoMode)

\* Two open devices without sound have a cause that is still visible: a
\* decoder error stopped this media, the selected media is not configured, or
\* a close is on its way.  In particular no handler leaves media_lock taken.
SilenceExplained ==
    (~AlwaysRun /\ running /\ devStatus = Both /\ media = NoMedia)
        => cut \/ mediaSel >= ListNum \/ CloseWaiting

\* adapter_media_sel is read when the media starts, in another task than the
\* one that writes it.  Media other than the selected one may only be heard
\* until a close that is already posted takes effect.
SelectionHonoured ==
    (~AlwaysRun /\ media # NoMedia /\ media # mediaSel) => CloseWaiting

\* A step never restarts media that stopped while both devices stay open, and
\* never replaces running media: only a close and a new open do.  So after a
\* decoder error the adapter is silent until a device closes.
RestartOnlyThroughClose ==
    [][/\ (devStatus = Both /\ media = NoMedia) => media' = NoMedia
       /\ (media # NoMedia /\ media' # NoMedia) => media' = media]_vars

\* What the process promises its devices, abstracted from events and modes.
Session == INSTANCE MediaSession
    WITH Media <- 0..(ListNum - 1),
         inOpen <- "IDEV" \in devStatus,
         outOpen <- "ODEV" \in devStatus,
         playing <- media

\* The process implements a media session: every handler is a device that
\* opens or closes, an interruption, or nothing.
SessionSpec == Session!Spec
===============================================================================
