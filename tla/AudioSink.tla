------------------------------- MODULE AudioSink -------------------------------
(***************************************************************************)
(* What the receiving end of the audio link promises: of the packets that  *)
(* reach it, it takes the frame and the command of those whose number is   *)
(* not that of the packet before, each at most once, and in the order they *)
(* came.  It may have no room for a frame, and when it is closed it throws *)
(* away what it has not played.                                            *)
(***************************************************************************)
EXTENDS Naturals, Sequences

CONSTANT Packets    \* records with a number, a command and an audio frame

VARIABLES
    rxSeqn,     \* the number of the packet taken last
    accepted,   \* the audio frames taken since it was opened, in order
    obeyed      \* the commands carried out since

sinkVars == <<rxSeqn, accepted, obeyed>>

SinkInit == rxSeqn = 0 /\ accepted = <<>> /\ obeyed = <<>>

\* s with x, unless x is 0, at its end, or s as it is.
WithOrWithout(s, x) == {s} \union {Append(s, y) : y \in {x} \ {0}}

Take(p) ==
    /\ p.seqn # rxSeqn
    /\ rxSeqn' = p.seqn
    /\ accepted' \in WithOrWithout(accepted, p.audio)
    /\ obeyed' \in WithOrWithout(obeyed, p.cmd)

Discard ==
    /\ \E n \in 0..Len(accepted) : accepted' = SubSeq(accepted, 1, n)
    /\ UNCHANGED <<rxSeqn, obeyed>>

Reopen == rxSeqn' = 0 /\ accepted' = <<>> /\ obeyed' = <<>>

SinkNext == (\E p \in Packets : Take(p)) \/ Discard \/ Reopen

SinkSpec == SinkInit /\ [][SinkNext]_sinkVars
===============================================================================
