----------------------------- MODULE WirelessDec ------------------------------
(***************************************************************************)
(* adapter_wireless_dec.c and adapter_dec_jla.c: the receiving end of the   *)
(* audio link.                                                             *)
(*                                                                         *)
(* Three tasks of one core (task_table.c) share it.  The Bluetooth stack   *)
(* (btstack, priority 4) writes packets into the receive list; the decoder *)
(* task (audio_dec, 3) takes frames out; the application (app_core, 1)     *)
(* opens and closes both and is interrupted by the other two anywhere.  A  *)
(* write is therefore one step, the decoder's fetch is cut where interrupts *)
(* are enabled, and open and close are cut between their statements.       *)
(***************************************************************************)
EXTENDS Naturals, Sequences

CONSTANTS
    Cap,        \* packets that fit into the receive buffer (lbuf)
    Limit,      \* frame_num_limit: frames wanted after the output ran dry
    Packets     \* the packets the radio may bring: number, command, audio frame

\* ADAPTER_WIRELESS_FRAME_LBUF_SIZE holds more frames than are waited for.
ASSUME CapAssumption == Cap \in Nat /\ Limit \in Nat \ {0} /\ Limit <= Cap
ASSUME PacketsAssumption == Packets \subseteq [seqn : Nat, cmd : Nat, audio : Nat]

VARIABLES
    mixer,      \* the build: the decoder writes to a mixer (the earphone)
    app,        \* how far app_core is in opening or closing the decoder
    start,      \* dec->start
    waitResume, \* dec->wait_resume
    suspend,    \* dec->suspend
    rxSeqn,     \* rx->seqn
    list,       \* rx->list
    held,       \* frames get_packet has taken off the list and not yet freed
    awake,      \* the decoder task will call get_frame or go on with its output
    pending,    \* decoded sound the output has had no room for
    room        \* the output has room

rxVars == <<rxSeqn, list>>
decVars == <<start, waitResume, suspend>>
taskVars == <<held, awake, pending, room>>
recVars == <<mixer, app, rxVars, decVars, taskVars>>

\* The states of adapter_dec_jla_open and adapter_dec_jla_close.
AppStates == {"closed", "added", "published", "open", "stopped", "rxFreed", "decFreed"}

\* The receive buffer and the decoder exist; jla_hdl is published and its
\* handler set.
RxAlive == app \in {"added", "published", "open", "stopped"}
Published == app \in {"published", "open", "stopped", "rxFreed"}

\* A queued packet: its audio frame (0: none) and whether command bytes are
\* still in front of it.
Item(audio, raw) == [audio |-> audio, raw |-> raw]

RecTypeOK ==
    /\ app \in AppStates
    /\ \A v \in {mixer, start, waitResume, suspend, awake, pending, room} : v \in BOOLEAN
    /\ rxSeqn \in Nat
    /\ \A s \in {list, held} : \A i \in DOMAIN s : s[i].audio \in Nat /\ s[i].raw \in BOOLEAN
    /\ Len(held) <= 1 /\ Len(list) + Len(held) <= Cap

RecInit ==
    /\ mixer \in BOOLEAN
    /\ app = "closed"
    /\ start = FALSE /\ waitResume = FALSE /\ suspend = FALSE
    /\ rxSeqn = 0 /\ list = <<>> /\ held = <<>>
    /\ awake = FALSE /\ pending = FALSE /\ room = TRUE

-------------------------------------------------------------------------------
(* Starting and stopping (adapter_wireless_dec_wait_res_handler): the audio  *)
(* library grants the output and takes it back.  It does so from calls that  *)
(* app_core makes, between its other work or inside add_wait.                *)

\* adapter_wireless_dec_start up to audio_decoder_start: wait_resume keeps the
\* value an earlier start has left.
Started ==
    /\ start' = TRUE
    /\ suspend' = FALSE
    /\ awake' = TRUE /\ pending' = FALSE
    /\ UNCHANGED waitResume

\* It fails: at the open or the format, before anything is allocated, or at the
\* end (__err3).
StartFailed ==
    /\ suspend' \in {suspend, FALSE}
    /\ UNCHANGED <<start, waitResume, awake, pending>>

\* AUDIO_RES_GET.
Grant ==
    /\ app = "open"
    /\ ~start
    /\ Started \/ StartFailed
    /\ UNCHANGED <<mixer, app, rxVars, held, room>>

\* Mutant: res_close leaves start set.
ResClose_StillStarted ==
    /\ held = <<>>
    /\ awake' = (awake /\ ~start)
    /\ pending' = (pending /\ ~start)
    /\ UNCHANGED <<start, waitResume, suspend>>

\* adapter_wireless_dec_res_close: nothing more once start is 0.  The decoder
\* is not inside get_frame: its task has the higher priority.
ResClose ==
    /\ held = <<>>
    /\ start' = FALSE
    /\ awake' = (awake /\ ~start)
    /\ pending' = (pending /\ ~start)
    /\ UNCHANGED <<waitResume, suspend>>

\* AUDIO_RES_PUT: another decoder, a tone, takes the output.
Preempt ==
    /\ app = "open"
    /\ start
    /\ ResClose
    /\ UNCHANGED <<mixer, app, rxVars, held, room>>

-------------------------------------------------------------------------------
(* adapter_dec_jla_open and adapter_dec_jla_close, in app_core.              *)

\* adapter_wireless_dec_open_base: a new receive buffer and decoder; adding it
\* to the waiting decoders may start it at once.
Open ==
    /\ app = "closed"
    /\ app' = "added"
    /\ rxSeqn' = 0 /\ list' = <<>>
    /\ waitResume' = FALSE
    /\ start' \in BOOLEAN /\ awake' = start'
    /\ suspend' = FALSE /\ pending' = FALSE
    /\ UNCHANGED <<mixer, held, room>>

\* __this = hdl.
Publish ==
    /\ app = "added"
    /\ app' = "published"
    /\ UNCHANGED <<mixer, rxVars, decVars, taskVars>>

\* Only now is the parser of the commands registered.
Register ==
    /\ app = "published"
    /\ app' = "open"
    /\ UNCHANGED <<mixer, rxVars, decVars, taskVars>>

\* adapter_wireless_dec_close: stop ...
CloseDec ==
    /\ app = "open"
    /\ app' = "stopped"
    /\ ResClose
    /\ UNCHANGED <<mixer, rxVars, held, room>>

\* ... leave the waiting decoders, free the receive buffer with all it holds ...
\* (w_busy is never seen set: a write is not interrupted by app_core)
CloseRx ==
    /\ app = "stopped"
    /\ app' = "rxFreed"
    /\ list' = <<>>
    /\ UNCHANGED <<mixer, rxSeqn, decVars, taskVars>>

\* ... free the decoder and clear the handler; then jla_hdl goes.
FreeDec ==
    /\ app = "rxFreed"
    /\ app' = "decFreed"
    /\ UNCHANGED <<mixer, rxVars, decVars, taskVars>>

FreeJla ==
    /\ app = "decFreed"
    /\ app' = "closed"
    /\ UNCHANGED <<mixer, rxVars, decVars, taskVars>>

-------------------------------------------------------------------------------
(* adapter_wireless_dec_frame_write, in btstack.                             *)

\* Mutant: only a packet that finds the list empty resumes the decoder.
Resume_OnlyWhenFirst ==
    /\ waitResume' = FALSE
    /\ awake' = (awake \/ (waitResume /\ list = <<>>))

\* audio_decoder_resume: with a mixer only a decoder that waits for input is
\* resumed.
Resume ==
    /\ waitResume' = FALSE
    /\ awake' = (awake \/ waitResume \/ ~mixer)

\* Mutant: the allocation is not checked.
Enqueue_Unchecked(item) == list' = Append(list, item)

\* The packet's frame joins the list if the buffer has room.
Enqueue(item) ==
    list' = IF Len(list) + Len(held) < Cap THEN Append(list, item) ELSE list

\* adapter_wireless_rx_write of a packet that is no repetition: the parser
\* strips the command, and a packet without audio ends there.  Before it is
\* registered nothing is stripped and the command passes for audio.
Accept(p) ==
    /\ rxSeqn' = p.seqn
    /\ IF app = "open" /\ p.audio = 0
       THEN UNCHANGED list
       ELSE Enqueue(Item(p.audio, app # "open"))

\* Mutant: repetitions are not recognised.
FrameWrite_NoRepeatCheck(p) ==
    /\ IF Published /\ start
       THEN Accept(p) /\ Resume
       ELSE UNCHANGED <<rxVars, waitResume, awake>>
    /\ UNCHANGED <<mixer, app, start, suspend, held, pending, room>>

\* adapter_dec_jla_frame_write and adapter_wireless_dec_rx_write.
FrameWrite(p) ==
    /\ IF Published /\ start
       THEN /\ IF p.seqn = rxSeqn THEN UNCHANGED rxVars ELSE Accept(p)
            /\ Resume
       ELSE UNCHANGED <<rxVars, waitResume, awake>>
    /\ UNCHANGED <<mixer, app, start, suspend, held, pending, room>>

\* What the two of them find in p: a command carried out, a frame queued.
Received(p) == Published /\ start /\ p.seqn # rxSeqn
Commanded(p) == Received(p) /\ app = "open" /\ p.cmd # 0

-------------------------------------------------------------------------------
(* The decoder task and its output.                                          *)

\* adapter_wireless_dec_get_frame: how many frames it wants to see.
Wanted == IF mixer /\ suspend THEN Limit ELSE 1

\* Mutant: the flag is set only for an output that ran dry.
FetchEmpty_FlagWhenDry ==
    /\ start /\ awake /\ ~pending /\ held = <<>>
    /\ Len(list) < Wanted
    /\ waitResume' = suspend
    /\ awake' = FALSE
    /\ UNCHANGED <<mixer, app, rxVars, start, suspend, held, pending, room>>

\* It finds too few and sleeps until a packet comes; count and flag are one
\* critical section.
FetchEmpty ==
    /\ start /\ awake /\ ~pending /\ held = <<>>
    /\ Len(list) < Wanted
    /\ waitResume' = TRUE
    /\ awake' = FALSE
    /\ UNCHANGED <<mixer, app, rxVars, start, suspend, held, pending, room>>

\* adapter_wireless_rx_get_packet unlinks the oldest frame ...
Fetch ==
    /\ start /\ awake /\ ~pending /\ held = <<>>
    /\ Len(list) >= Wanted
    /\ held' = <<Head(list)>>
    /\ list' = Tail(list)
    /\ UNCHANGED <<mixer, app, rxSeqn, decVars, awake, pending, room>>

\* ... and, once it is copied, adapter_wireless_rx_free_packet unlinks it again,
\* which list.h:169 makes harmless, and frees it.  The rest of get_frame clears
\* suspend, even one that was set meanwhile (its other branch needs no frame in
\* the list and is never reached), and the frame is decoded.
FreePacket ==
    /\ start /\ held # <<>>
    /\ held' = <<>>
    /\ suspend' = FALSE
    /\ pending' = TRUE
    /\ UNCHANGED <<mixer, app, rxVars, start, waitResume, awake, room>>

\* The decoded sound goes to the output, which may be full thereafter, ...
Output ==
    /\ start /\ awake /\ pending
    /\ room
    /\ pending' = FALSE
    /\ room' \in BOOLEAN
    /\ UNCHANGED <<mixer, app, rxVars, decVars, held, awake>>

\* ... or finds it full, and the decoder sleeps until it has room.
OutputFull ==
    /\ start /\ awake /\ pending
    /\ ~room
    /\ awake' = FALSE
    /\ UNCHANGED <<mixer, app, rxVars, decVars, held, pending, room>>

\* The output has played something; adapter_audio_stream_resume resumes the
\* decoder unless it waits for input.
Drained ==
    /\ ~room
    /\ room' = TRUE
    /\ awake' = (awake \/ (start /\ ~waitResume))
    /\ UNCHANGED <<mixer, app, rxVars, decVars, held, pending>>

\* MIXER_EVENT_CH_SUSPEND: the output ran dry.
MixerSuspend ==
    /\ mixer /\ start /\ ~suspend
    /\ suspend' = TRUE
    /\ UNCHANGED <<mixer, app, rxVars, start, waitResume, taskVars>>

DecoderTask == FetchEmpty \/ Fetch \/ FreePacket \/ Output \/ OutputFull

Application == Open \/ Publish \/ Register \/ CloseDec \/ CloseRx \/ FreeDec \/ FreeJla

Write == \E p \in Packets : FrameWrite(p)

RecNext == Application \/ Grant \/ Preempt \/ DecoderTask \/ Drained \/ MixerSuspend \/ Write

RecSpec == RecInit /\ [][RecNext]_recVars

\* The decoder's task is scheduled and the output plays what it has.
RecFairness == WF_recVars(DecoderTask) /\ WF_recVars(Drained)

-------------------------------------------------------------------------------
\* The Bluetooth stack, which interrupts the application between any two
\* statements of the close, never writes into a receive buffer that is freed:
\* what guards it is start alone.
WriteFindsBuffer == (Published /\ start) => RxAlive

\* A started decoder that sleeps is woken by the next packet or by the output:
\* the flag wait_resume, two tasks and a callback agree on whose turn it is.
SleeperIsAwaited == (start /\ ~awake) => waitResume \/ (pending /\ ~room)

\* Frames enough for the decoder to go on are not left lying: as long as packets
\* come in it takes the next one, whatever it was waiting for, also when
\* wait_resume is left over from before it lost the output.
FramesAreTaken == ([]<><<Write>>_recVars) =>
    ((start /\ Len(list) >= Limit) ~> (held # <<>> \/ ~start))

\* A packet is header, extension, private data and audio
\* (adapter_wireless_enc.c:88): what is decoded is the audio alone.
OnlyAudioIsDecoded == \A i \in DOMAIN held : ~held[i].raw
===============================================================================
