----------------------------- MODULE WirelessEnc ------------------------------
(***************************************************************************)
(* adapter_wireless_enc.c: the sending end of the audio link.  Every packet *)
(* is numbered and carries at most one command and one audio frame.        *)
(*                                                                         *)
(* Two tasks of one core build packets in the one buffer out_buf: the      *)
(* encoder task (audio_enc, priority 3), after each frame, and, in the     *)
(* dongle, a 20 ms keep-alive timer, whose callback runs in the task that  *)
(* added it (timer.h:76), app_core, priority 1 (task_table.c:7).  Nothing  *)
(* locks the buffer.  The encoder's handler is therefore one step, and the *)
(* timer's callback is cut wherever the encoder can come in between.       *)
(*                                                                         *)
(* A command waits in the encoder (a key of the earphone), or, in a build  *)
(* whose encoder asks a callback for it, in sdk_rf_tx_buf, where LiteEMF,  *)
(* external, puts one at a time and both tasks find it: hal_bt_uart_tx and *)
(* the callback (duplex_dongle.c, duplex_earphone.c) are cut likewise.     *)
(***************************************************************************)
EXTENDS Naturals, Sequences

CONSTANTS
    SeqMod,     \* the packet number's range: 256 (a u8), scaled down
    Frames,     \* bound: audio frames the encoder produces
    Cmds,       \* bound: commands the user gives
    AirMax      \* bound: packets the Bluetooth stack holds

ASSUME SeqModAssumption == SeqMod \in Nat /\ SeqMod > 2
ASSUME EncBoundsAssumption == Frames \in Nat /\ Cmds \in Nat /\ AirMax \in Nat \ {0}

VARIABLES
    keepAlive,  \* the build: TRANSFERING_TIMER_ENABLE, 1 in the dongle
    callback,   \* the build: command_callback is set, as it is in the dongle
    encOpen,    \* wireless_enc exists and start is set
    txSeqn,     \* tx_seqn
    outBuf,     \* out_buf: the packet written last
    withAudio,  \* frame_len covers the audio part of out_buf, too
    timerPc,    \* where the timer's callback is
    timerSeqn,  \* the timer's copy of tx_seqn, in a register
    timerCmd,   \* its copy of the command, tmp_buf
    timerLen,   \* its copy of frame_len, an argument of the push
    frames,     \* frames encoded so far; frame n is number n
    command,    \* the command put down last: hdl->command, sdk_rf_tx_buf
    pending,    \* it waits to be sent: hdl->command # 0, sdk_rf_tx_len # 0
    copying,    \* hal_bt_uart_tx has set the length of a command it has yet to copy
    commands,   \* commands given so far; command n is number n
    raced,      \* history: the commands sent while hal_bt_uart_tx was copying the
                \* next, or by the encoder while the timer was taking the same
    air         \* packets accepted by the Bluetooth stack and not yet delivered

timerVars == <<timerPc, timerSeqn, timerCmd, timerLen>>
cmdVars == <<command, pending, copying, commands, raced>>
encVars == <<keepAlive, callback, encOpen, txSeqn, outBuf, withAudio, timerVars,
             frames, cmdVars, air>>

\* 0 stands for no command and for no audio.
Packet == [seqn : 0..(SeqMod - 1), cmd : 0..Cmds, audio : 0..Frames]
NoPacket == [seqn |-> 0, cmd |-> 0, audio |-> 0]

EncInit ==
    /\ keepAlive \in BOOLEAN /\ callback \in BOOLEAN /\ (keepAlive => callback)
    /\ encOpen = FALSE /\ txSeqn = 0
    /\ outBuf = NoPacket /\ withAudio = FALSE
    /\ timerPc = "idle" /\ timerSeqn = 0 /\ timerCmd = 0 /\ timerLen = FALSE
    /\ frames = 0
    /\ command = 0 /\ pending = FALSE /\ copying = FALSE /\ commands = 0 /\ raced = {}
    /\ air = <<>>

\* adapter_wireless_enc_open_base: a new encoder, zeroed.
EncOpen ==
    /\ ~encOpen
    /\ encOpen' = TRUE
    /\ txSeqn' = 0
    /\ pending' = (pending /\ callback)
    /\ outBuf' = NoPacket /\ withAudio' = FALSE
    /\ UNCHANGED <<keepAlive, callback, timerVars, frames, command, copying, commands,
                   raced, air>>

\* adapter_wireless_enc_close runs in app_core, as the timer's callback does.
EncClose ==
    /\ encOpen
    /\ timerPc = "idle"
    /\ encOpen' = FALSE
    /\ UNCHANGED <<keepAlive, callback, txSeqn, outBuf, withAudio, timerVars, frames,
                   cmdVars, air>>

NewCommand ==
    /\ commands < Cmds
    /\ commands' = commands + 1
    /\ pending' = TRUE
    /\ UNCHANGED <<keepAlive, callback, encOpen, txSeqn, outBuf, withAudio, timerVars,
                   frames, raced, air>>

\* adapter_wireless_enc_command_send: the latest command wins.
CommandSend ==
    /\ encOpen
    /\ ~callback
    /\ command' = commands + 1
    /\ NewCommand
    /\ UNCHANGED copying

\* hal_bt_uart_tx sets the length while the buffer holds the command before ...
CommandLength ==
    /\ callback
    /\ ~copying
    /\ copying' = TRUE
    /\ NewCommand
    /\ UNCHANGED command

\* ... and copies the command, which waits unless its length has been cleared.
CommandCopy ==
    /\ copying
    /\ copying' = FALSE
    /\ command' = commands
    /\ UNCHANGED <<keepAlive, callback, encOpen, txSeqn, outBuf, withAudio, timerVars,
                   frames, pending, commands, raced, air>>

\* The command to be sent, 0 when there is none.
Waiting == IF pending THEN command ELSE 0

\* adapter_wireless_enc_push: the stack takes the packet or, when it is full or
\* the link is down, refuses it; the result is ignored.
Push(p) ==
    \/ air' = air
    \/ Len(air) < AirMax /\ air' = Append(air, p)

NextSeqn(n) == (n + 1) % SeqMod

\* The encoder sends a command nobody else has, or has had: hal_bt_uart_tx has
\* copied it and the timer has not.
Alone == /\ ~copying
         /\ timerPc # "tested"
         /\ timerPc = "copied" => timerCmd # command

\* Mutant: the command is not cleared when it is sent.
Encode_KeepsCommand ==
    /\ encOpen
    /\ frames < Frames
    /\ LET p == [seqn |-> NextSeqn(txSeqn), cmd |-> Waiting, audio |-> frames + 1]
       IN /\ outBuf' = p
          /\ Push(p)
    /\ frames' = frames + 1
    /\ txSeqn' = NextSeqn(txSeqn)
    /\ raced' = IF Alone THEN raced ELSE raced \union {Waiting}
    /\ withAudio' = TRUE
    /\ UNCHANGED <<keepAlive, callback, encOpen, timerVars, command, pending, copying,
                   commands>>

\* adapter_wireless_enc_output_handler: number the packet, take the command,
\* copy the frame in, push.
Encode ==
    /\ encOpen
    /\ frames < Frames
    /\ LET p == [seqn |-> NextSeqn(txSeqn), cmd |-> Waiting, audio |-> frames + 1]
       IN /\ outBuf' = p
          /\ Push(p)
    /\ frames' = frames + 1
    /\ txSeqn' = NextSeqn(txSeqn)
    /\ pending' = FALSE
    /\ raced' = IF Alone THEN raced ELSE raced \union {Waiting}
    /\ withAudio' = TRUE
    /\ UNCHANGED <<keepAlive, callback, encOpen, timerVars, command, copying, commands>>

-------------------------------------------------------------------------------
(* transfering_timer_check: a packet without audio, so that commands get     *)
(* through while nothing is played.  Each step ends where the encoder may    *)
(* run; a copy that has served is forgotten.                                 *)

AtTimer(from, to) ==
    /\ timerPc = from
    /\ timerPc' = to
    /\ UNCHANGED <<keepAlive, callback, encOpen, frames, command, copying, commands>>

\* tx_seqn++ in adapter_wireless_enc_packet_pack: read ...
TimerRead ==
    /\ keepAlive /\ encOpen
    /\ AtTimer("idle", "read")
    /\ timerSeqn' = NextSeqn(txSeqn)
    /\ UNCHANGED <<txSeqn, outBuf, withAudio, timerCmd, timerLen, pending, raced, air>>

\* ... and write.
TimerCount ==
    /\ AtTimer("read", "counted")
    /\ txSeqn' = timerSeqn
    /\ UNCHANGED <<outBuf, withAudio, timerSeqn, timerCmd, timerLen, pending,
                   raced, air>>

\* The number goes into the header; the compiler may keep it or read it again.
TimerHeader ==
    /\ AtTimer("counted", "headed")
    /\ \E n \in {timerSeqn, txSeqn} : outBuf' = [outBuf EXCEPT !.seqn = n]
    /\ timerSeqn' = 0
    /\ UNCHANGED <<txSeqn, withAudio, timerCmd, timerLen, pending, raced, air>>

\* The command's callback: is one waiting?
TimerTest ==
    /\ AtTimer("headed", IF pending THEN "tested" ELSE "taken")
    /\ UNCHANGED <<txSeqn, outBuf, withAudio, timerSeqn, timerCmd, timerLen,
                   pending, raced, air>>

\* It copies the command, of the length it has tested or, if the compiler has it
\* read again, of what is left of it ...
TimerTake ==
    /\ AtTimer("tested", "copied")
    /\ timerCmd' \in {command, Waiting}
    /\ raced' = IF copying THEN raced \union {command} ELSE raced
    /\ UNCHANGED <<txSeqn, outBuf, withAudio, timerSeqn, timerLen, pending, air>>

\* ... and clears the length, of whatever command waits by now.
TimerClear ==
    /\ AtTimer("copied", "taken")
    /\ pending' = FALSE
    /\ UNCHANGED <<txSeqn, outBuf, withAudio, timerSeqn, timerCmd, timerLen, raced,
                   air>>

\* The command is copied into the packet.
TimerCommand ==
    /\ AtTimer("taken", "written")
    /\ outBuf' = [outBuf EXCEPT !.cmd = timerCmd]
    /\ timerCmd' = 0
    /\ UNCHANGED <<txSeqn, withAudio, timerSeqn, timerLen, pending, raced, air>>

\* Mutant: the length is left as the encoder set it.
TimerLength_Kept ==
    /\ AtTimer("written", "packed")
    /\ UNCHANGED <<txSeqn, outBuf, withAudio, timerSeqn, timerCmd, timerLen,
                   pending, raced, air>>

\* The length is that of the header.
TimerLength ==
    /\ AtTimer("written", "packed")
    /\ withAudio' = FALSE
    /\ UNCHANGED <<txSeqn, outBuf, timerSeqn, timerCmd, timerLen, pending, raced, air>>

\* The arguments of the push are evaluated ...
TimerArgs ==
    /\ AtTimer("packed", "pushing")
    /\ timerLen' = withAudio
    /\ UNCHANGED <<txSeqn, outBuf, withAudio, timerSeqn, timerCmd, pending, raced, air>>

\* ... and the stack copies whatever the buffer then holds.
TimerPush ==
    /\ AtTimer("pushing", "idle")
    /\ Push([outBuf EXCEPT !.audio = IF timerLen THEN @ ELSE 0])
    /\ timerLen' = FALSE
    /\ UNCHANGED <<txSeqn, outBuf, withAudio, timerSeqn, timerCmd, pending, raced>>

Timer == \/ TimerRead \/ TimerCount \/ TimerHeader
         \/ TimerTest \/ TimerTake \/ TimerClear
         \/ TimerCommand \/ TimerLength \/ TimerArgs \/ TimerPush

Sender == \/ EncOpen \/ EncClose \/ CommandSend \/ CommandLength \/ CommandCopy
          \/ Encode \/ Timer
===============================================================================
