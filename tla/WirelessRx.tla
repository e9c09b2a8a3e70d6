------------------------------- MODULE WirelessRx ------------------------------
(***************************************************************************)
(* The receiving end with a record of what it plays and obeys, and the     *)
(* abstract sink it implements.                                            *)
(***************************************************************************)
EXTENDS WirelessDec

CONSTANT HistMax    \* bound: packets, and commands, recorded in a session

ASSUME HistMaxAssumption == HistMax \in Nat

VARIABLES
    played,     \* history: the packets decoded since the decoder was opened
    obeyed      \* history: the commands carried out since

rxHistVars == <<recVars, played, obeyed>>

RxInit == RecInit /\ played = <<>> /\ obeyed = <<>>

\* The frames of a list of packets, of its first n packets and of all.
FramesTo(s) ==
    LET F[n \in 0..Len(s)] ==
        IF n = 0 THEN <<>>
        ELSE IF s[n].audio = 0 THEN F[n - 1] ELSE Append(F[n - 1], s[n].audio)
    IN  F

FramesOf(s) == FramesTo(s)[Len(s)]

\* The packets taken since the decoder was opened, up to those still waiting.
Taken == played \o held \o list
Accepted == FramesOf(Taken)

RxWrite ==
    /\ Len(Taken) < HistMax /\ Len(obeyed) < HistMax
    /\ \E p \in Packets :
        /\ FrameWrite(p)
        /\ obeyed' = IF Commanded(p) THEN Append(obeyed, p.cmd) ELSE obeyed
    /\ UNCHANGED played

RxFreePacket ==
    /\ FreePacket
    /\ played' = played \o held
    /\ UNCHANGED obeyed

RxOpen == Open /\ played' = <<>> /\ obeyed' = <<>>

RxOther ==
    /\ \/ Publish \/ Register \/ CloseDec \/ CloseRx \/ FreeDec \/ FreeJla
       \/ Grant \/ Preempt \/ FetchEmpty \/ Fetch \/ Output \/ OutputFull
       \/ Drained \/ MixerSuspend
    /\ UNCHANGED <<played, obeyed>>

RxNext == RxOpen \/ RxWrite \/ RxFreePacket \/ RxOther

RxSpec == RxInit /\ [][RxNext]_rxHistVars

FairRx == RxSpec /\ RecFairness

-------------------------------------------------------------------------------
Sink == INSTANCE AudioSink WITH accepted <- Accepted

\* Receive list, decoder task, full buffer, loss of the output and its return
\* lose frames, but never play one twice or out of order, and a packet with the
\* number of the one before is dropped, command and all.
RxImplementsSink == Sink!SinkSpec
===============================================================================
