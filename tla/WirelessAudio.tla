----------------------------- MODULE WirelessAudio ----------------------------
(***************************************************************************)
(* One direction of the audio link: the encoder of one device, the radio,  *)
(* and what the other device promises of its receiving end.                *)
(*                                                                         *)
(* The radio is external: in order, no repetitions, but it may lose any    *)
(* packet, as the gaps the receiver looks for show.                        *)
(***************************************************************************)
EXTENDS WirelessEnc

VARIABLES rxSeqn, accepted, obeyed

sinkVars == <<rxSeqn, accepted, obeyed>>
audioVars == <<encVars, sinkVars>>

Sink == INSTANCE AudioSink WITH Packets <- Packet

AudioInit == EncInit /\ Sink!SinkInit

UnchangedSender == UNCHANGED <<keepAlive, callback, encOpen, txSeqn, outBuf, withAudio,
                               timerVars, frames, cmdVars>>

\* The stack of the receiver hands the packet on (wireless_mic_ble_report_data_deal).
Deliver ==
    /\ air # <<>>
    /\ air' = Tail(air)
    /\ \/ Head(air).seqn = rxSeqn /\ UNCHANGED sinkVars
       \/ Sink!Take(Head(air))
    /\ UnchangedSender

Lose ==
    /\ air # <<>>
    /\ air' = Tail(air)
    /\ UnchangedSender
    /\ UNCHANGED sinkVars

AudioNext ==
    \/ Sender /\ UNCHANGED sinkVars
    \/ (Sink!Discard \/ Sink!Reopen) /\ UNCHANGED encVars
    \/ Deliver
    \/ Lose

AudioSpec == AudioInit /\ [][AudioNext]_audioVars

-------------------------------------------------------------------------------
\* Within a session of the receiver every audio frame is taken at most once and
\* in the order of the recording, through lost packets, packets the keep-alive
\* timer sends a second time because the encoder interrupted it, a number that
\* wraps, and a sender that starts over.
PlayedInOrder == \A i, j \in DOMAIN accepted : i < j => accepted[i] < accepted[j]

\* A command is carried out at most once, and most of them toggle, although the
\* callback may push it a second time: but for one that two tasks were handing over
\* when it was sent.  The encoder sends the command that the timer is copying and has
\* not cleared, and the timer sends its copy under a later number; or, once
\* hal_bt_uart_tx has set the length of the next command, the one before is sent
\* again.  (One can also get lost, or come after a later one.)
ObeyedOnce ==
    \A i, j \in DOMAIN obeyed : i # j /\ obeyed[i] = obeyed[j] => obeyed[i] \in raced
===============================================================================
