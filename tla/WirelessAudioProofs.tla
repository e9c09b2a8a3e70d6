-------------------------- MODULE WirelessAudioProofs --------------------------
(***************************************************************************)
(* What one direction of the audio link guarantees for every range of the  *)
(* packet number, any number of frames and commands, and any number of     *)
(* packets in the stack.                                                   *)
(*                                                                         *)
(* The same frame, or the same command, can leave twice: when the encoder  *)
(* interrupts the timer's callback, the callback pushes what the encoder   *)
(* left in out_buf.  The receiver compares a number with that of the       *)
(* packet before only, so it is right as long as the two packets are       *)
(* neighbours in the stack and have the same number (SentOnce), also once  *)
(* the first of them is taken (TakenOnce).  FrameRepeats and               *)
(* CommandRepeats say it of what the callback is about to push: if         *)
(* anything has carried it before, it is the packet pushed last, and of    *)
(* the same number.  Of the commands all this is said but for those of     *)
(* raced, which two tasks were handing over when they were sent.           *)
(***************************************************************************)
EXTENDS WirelessAudio, QueueFacts

TimerPlaces ==
    {"idle", "read", "counted", "headed", "tested", "copied", "taken",
     "written", "packed", "pushing"}

AudioTypeOK ==
    /\ keepAlive \in BOOLEAN /\ callback \in BOOLEAN /\ encOpen \in BOOLEAN
    /\ pending \in BOOLEAN /\ copying \in BOOLEAN
    /\ withAudio \in BOOLEAN /\ timerLen \in BOOLEAN
    /\ txSeqn \in 0..(SeqMod - 1) /\ timerSeqn \in 0..(SeqMod - 1)
    /\ rxSeqn \in 0..(SeqMod - 1)
    /\ outBuf \in Packet
    /\ timerPc \in TimerPlaces
    /\ timerCmd \in 0..Cmds /\ command \in 0..Cmds /\ commands \in 0..Cmds
    /\ raced \subseteq 0..Cmds
    /\ frames \in 0..Frames
    /\ air \in Seq(Packet)
    /\ accepted \in Seq(1..Frames)
    /\ obeyed \in Seq(1..Cmds)

\* A callback that has begun has an encoder.
TimerHasEncoder == timerPc # "idle" => encOpen

\* What a packet of the queue q carries in its part f, its command or its frame, no
\* other carries, but perhaps the next one, of the same number, ...
SentOnce(q, f, but) ==
    \A i, j \in DOMAIN q :
        i < j /\ q[i][f] \notin but /\ q[i][f] = q[j][f]
            => j = i + 1 /\ q[i].seqn = q[j].seqn

\* ... and what the receiver has taken, the last packet with the number rx, perhaps
\* the oldest, which it will drop.  Both except what is in the set `but`.
TakenOnce(q, rx, taken, f, but) ==
    \A i \in DOMAIN q, k \in DOMAIN taken :
        q[i][f] = taken[k] /\ q[i][f] \notin but => i = 1 /\ q[1].seqn = rx

\* x, if it has been sent, was sent last, with the number n.
SentLast(q, rx, taken, f, x, n) ==
    /\ \A i \in DOMAIN q : q[i][f] = x => i = Len(q) /\ q[i].seqn = n
    /\ \A k \in DOMAIN taken : taken[k] = x => q = <<>> /\ rx = n

\* x has not been sent.
Unsent(q, taken, f, x) ==
    /\ \A i \in DOMAIN q : q[i][f] # x
    /\ \A k \in DOMAIN taken : taken[k] # x

\* The frames are sent and taken in their order; none is of the future.
FramesInOrder ==
    /\ \A i \in DOMAIN air : air[i].audio <= frames
    /\ \A k \in DOMAIN accepted : accepted[k] <= frames
    /\ \A i, j \in DOMAIN air : i < j /\ air[j].audio # 0 => air[i].audio <= air[j].audio
    /\ \A i \in DOMAIN air, k \in DOMAIN accepted :
          air[i].audio # 0 => accepted[k] <= air[i].audio

\* The callback will push a frame: the encoder has interrupted it after it set
\* the length.
PushesFrame == \/ timerPc = "packed" /\ withAudio
               \/ timerPc = "pushing" /\ timerLen

FrameRepeats ==
    PushesFrame =>
        /\ frames # 0 /\ outBuf.audio = frames
        /\ SentLast(air, rxSeqn, accepted, "audio", frames, outBuf.seqn)

FrameInv ==
    /\ FramesInOrder
    /\ PlayedInOrder
    /\ SentOnce(air, "audio", {0})
    /\ TakenOnce(air, rxSeqn, accepted, "audio", {0})
    /\ FrameRepeats

\* No command, or one that two tasks were handing over when it was sent.
Raced == raced \union {0}

\* The last command that hal_bt_uart_tx has copied, if it ever was to.
LastCopied == IF copying THEN commands - 1 ELSE commands

\* None of the commands is of the future, and the callback has no copy of one but
\* between its own test and the packet.
CommandsGiven ==
    /\ \A i \in DOMAIN air : air[i].cmd <= LastCopied
    /\ \A k \in DOMAIN obeyed : obeyed[k] <= LastCopied
    /\ command <= LastCopied /\ timerCmd <= LastCopied /\ outBuf.cmd <= LastCopied
    /\ copying => callback /\ commands # 0
    /\ timerPc \notin {"copied", "taken"} => timerCmd = 0

\* The command in the buffer will be pushed by the callback.
CommandWritten == timerPc \in {"written", "packed", "pushing"}

\* The command the callback is about to copy, has copied, or has written.
CommandRepeats ==
    /\ timerPc = "tested" /\ ~copying /\ command \notin Raced
          => Unsent(air, obeyed, "cmd", command)
    /\ timerPc \in {"copied", "taken"} /\ timerCmd \notin Raced
          => Unsent(air, obeyed, "cmd", timerCmd)
    /\ CommandWritten /\ outBuf.cmd \notin Raced
          => SentLast(air, rxSeqn, obeyed, "cmd", outBuf.cmd, outBuf.seqn)

\* The command that waits is nowhere else, but in the hands of a callback that has
\* not cleared it.
CommandWaits ==
    pending /\ ~copying /\ command # 0 =>
        /\ Unsent(air, obeyed, "cmd", command)
        /\ timerPc = "taken" => timerCmd # command
        /\ CommandWritten => outBuf.cmd # command

CommandInv ==
    /\ CommandsGiven
    /\ ObeyedOnce
    /\ SentOnce(air, "cmd", Raced)
    /\ TakenOnce(air, rxSeqn, obeyed, "cmd", Raced)
    /\ CommandRepeats
    /\ CommandWaits

AudioInv == AudioTypeOK /\ TimerHasEncoder /\ FrameInv /\ CommandInv

-------------------------------------------------------------------------------
(* What happens to the packets on their way and to what the receiver took,   *)
(* for either part of a packet.                                              *)

Parts == {"cmd", "audio"}

\* p has been pushed: the stack has taken it, or not.
Pushed(q, r, p) == r = q \/ r = Append(q, p)

\* A packet that was taken by the stack is the last.
LEMMA PushedPacket ==
    ASSUME NEW q \in Seq(Packet), NEW p \in Packet, NEW r, Pushed(q, r, p)
    PROVE  /\ r \in Seq(Packet)
           /\ \/ r = q
              \/ /\ Len(r) = Len(q) + 1 /\ Len(q) \in Nat /\ r # <<>>
                 /\ \A i \in DOMAIN q : /\ i \in DOMAIN r /\ r[i] = q[i]
                                        /\ i \in Nat /\ i >= 1 /\ i <= Len(q)
                 /\ \A i \in DOMAIN r : \/ i \in DOMAIN q /\ r[i] = q[i]
                                        \/ i = Len(r) /\ r[i] = p
<1>1. CASE r = q
  BY <1>1
<1>2. CASE r = Append(q, p)
  <2>1. /\ r \in Seq(Packet) /\ Len(r) = Len(q) + 1 /\ Len(q) \in Nat
        /\ DOMAIN q = 1..Len(q) /\ DOMAIN r = 1..(Len(q) + 1)
    BY <1>2, AppendProperties, LenProperties
  <2>2. r # <<>>
    BY <2>1, EmptySeq
  <2>3. \A i \in DOMAIN r : r[i] = IF i <= Len(q) THEN q[i] ELSE p
    BY <1>2, <2>1, AppendProperties
  <2>4. QED
    BY <2>1, <2>2, <2>3
<1>3. QED
  BY <1>1, <1>2 DEF Pushed

\* When the oldest packet has left, the others have moved up.
LEMMA PacketLeft ==
    ASSUME NEW q \in Seq(Packet), q # <<>>
    PROVE  /\ Tail(q) \in Seq(Packet) /\ Head(q) \in Packet
           /\ Head(q) = q[1] /\ 1 \in DOMAIN q
           /\ Len(q) = Len(Tail(q)) + 1 /\ Len(Tail(q)) \in Nat
           /\ Len(q) = 1 => Tail(q) = <<>>
           /\ \A i \in DOMAIN Tail(q) :
                 /\ i \in Nat /\ i >= 1 /\ i + 1 \in DOMAIN q /\ Tail(q)[i] = q[i + 1]
<1>1. /\ Tail(q) \in Seq(Packet) /\ Head(q) \in Packet
      /\ Head(q) = q[1] /\ 1 \in DOMAIN q
      /\ \A i \in DOMAIN Tail(q) : i + 1 \in DOMAIN q /\ Tail(q)[i] = q[i + 1]
  BY TailElements
<1>2. /\ Len(Tail(q)) = Len(q) - 1 /\ Len(q) \in Nat /\ Len(Tail(q)) \in Nat
      /\ DOMAIN Tail(q) = 1..Len(Tail(q))
  BY <1>1, HeadTailProperties, LenProperties
<1>3. Len(q) = 1 => Tail(q) = <<>>
  BY <1>1, <1>2, EmptySeq
<1>4. QED
  BY <1>1, <1>2, <1>3

\* A packet that repeats nothing but the last one, with its number, may follow.
LEMMA PushOnce ==
    ASSUME NEW q \in Seq(Packet), NEW p \in Packet, NEW r, Pushed(q, r, p),
           NEW rx, NEW f \in Parts, NEW taken, NEW but,
           SentOnce(q, f, but), TakenOnce(q, rx, taken, f, but),
           p[f] \notin but => SentLast(q, rx, taken, f, p[f], p.seqn)
    PROVE  SentOnce(r, f, but) /\ TakenOnce(r, rx, taken, f, but)
<1>1. CASE r = q
  BY <1>1
<1>2. CASE r # q
  <2>1. /\ r \in Seq(Packet)
        /\ Len(r) = Len(q) + 1 /\ Len(q) \in Nat
        /\ \A i \in DOMAIN q : /\ i \in DOMAIN r /\ r[i] = q[i]
                               /\ i \in Nat /\ i >= 1 /\ i <= Len(q)
        /\ \A i \in DOMAIN r : \/ i \in DOMAIN q /\ r[i] = q[i]
                               \/ i = Len(r) /\ r[i] = p
    BY <1>2, PushedPacket
  <2>2. SentOnce(r, f, but)
    BY <2>1 DEF SentOnce, SentLast
  <2>3. ASSUME q = <<>> PROVE Len(q) = 0
    BY <2>3
  <2>4. TakenOnce(r, rx, taken, f, but)
    BY <2>1, <2>3 DEF TakenOnce, SentLast
  <2>5. QED
    BY <2>2, <2>4
<1>3. QED
  BY <1>1, <1>2

\* What was not sent before a packet that carries something else was pushed is
\* not sent after it.
LEMMA PushUnsent ==
    ASSUME NEW q \in Seq(Packet), NEW p \in Packet, NEW r, Pushed(q, r, p),
           NEW f \in Parts, NEW taken, NEW x, x # p[f], Unsent(q, taken, f, x)
    PROVE  Unsent(r, taken, f, x)
BY PushedPacket DEF Unsent

\* What was not sent before its packet was pushed has been sent last.
LEMMA PushLast ==
    ASSUME NEW q \in Seq(Packet), NEW p \in Packet, NEW r, Pushed(q, r, p),
           NEW f \in Parts, NEW taken, NEW rx, Unsent(q, taken, f, p[f])
    PROVE  SentLast(r, rx, taken, f, p[f], p.seqn)
BY PushedPacket DEF Unsent, SentLast

\* The receiver takes the part of a packet or has no room for it.
TakenPart(taken, more, x) == more = taken \/ (x # 0 /\ more = Append(taken, x))

\* What it has taken now.
LEMMA TakenElements ==
    ASSUME NEW taken \in Seq(Nat), NEW x \in Nat, NEW more, TakenPart(taken, more, x)
    PROVE  /\ more \in Seq(Nat)
           /\ \A k \in DOMAIN taken : k \in DOMAIN more /\ more[k] = taken[k]
           /\ \A k \in DOMAIN more :
                 \/ k \in DOMAIN taken /\ more[k] = taken[k]
                 \/ /\ more[k] = x /\ x # 0
                    /\ \A m \in DOMAIN more :
                          m # k => m \in DOMAIN taken /\ m < k
<1>1. CASE more = taken
  BY <1>1
<1>2. CASE x # 0 /\ more = Append(taken, x)
  <2>1. /\ more \in Seq(Nat) /\ Len(taken) \in Nat
        /\ DOMAIN taken = 1..Len(taken) /\ DOMAIN more = 1..(Len(taken) + 1)
        /\ \A k \in DOMAIN more : more[k] = IF k <= Len(taken) THEN taken[k] ELSE x
    BY <1>2, AppendProperties, LenProperties
  <2>2. QED
    BY <1>2, <2>1
<1>3. QED
  BY <1>1, <1>2 DEF TakenPart

\* A packet that leaves without being taken ...
LEMMA LeaveOnce ==
    ASSUME NEW q \in Seq(Packet), q # <<>>, NEW rx, NEW f \in Parts, NEW taken, NEW but,
           SentOnce(q, f, but), TakenOnce(q, rx, taken, f, but)
    PROVE  SentOnce(Tail(q), f, but) /\ TakenOnce(Tail(q), rx, taken, f, but)
<1>1. SentOnce(Tail(q), f, but)
  <2>1. SUFFICES ASSUME NEW i \in DOMAIN Tail(q), NEW j \in DOMAIN Tail(q), i < j,
                        Tail(q)[i][f] \notin but, Tail(q)[i][f] = Tail(q)[j][f]
                 PROVE  j = i + 1 /\ Tail(q)[i].seqn = Tail(q)[j].seqn
    BY DEF SentOnce
  <2>2. /\ i \in Nat /\ i + 1 \in DOMAIN q /\ Tail(q)[i] = q[i + 1]
        /\ j \in Nat /\ j + 1 \in DOMAIN q /\ Tail(q)[j] = q[j + 1]
    BY PacketLeft
  <2>3. i + 1 < j + 1 /\ q[i + 1][f] \notin but /\ q[i + 1][f] = q[j + 1][f]
    BY <2>1, <2>2
  <2>4. j + 1 = (i + 1) + 1 /\ q[i + 1].seqn = q[j + 1].seqn
    BY <2>2, <2>3 DEF SentOnce
  <2>5. QED
    BY <2>2, <2>4
<1>2. TakenOnce(Tail(q), rx, taken, f, but)
  BY PacketLeft DEF TakenOnce
<1>3. QED
  BY <1>1, <1>2

\* ... changes nothing of what is sent and taken ...
LEMMA LeaveLast ==
    ASSUME NEW q \in Seq(Packet), q # <<>>, NEW rx, NEW f \in Parts, NEW taken,
           NEW x, NEW n, SentLast(q, rx, taken, f, x, n)
    PROVE  SentLast(Tail(q), rx, taken, f, x, n)
BY PacketLeft DEF SentLast

\* ... or not sent.
LEMMA LeaveUnsent ==
    ASSUME NEW q \in Seq(Packet), q # <<>>, NEW f \in Parts, NEW taken,
           NEW x, Unsent(q, taken, f, x)
    PROVE  Unsent(Tail(q), taken, f, x)
BY PacketLeft DEF Unsent

\* Nor does one that is taken: if what it carries is on its way a second time, that
\* packet is now the oldest, and the receiver will drop it.
LEMMA TakeOnce ==
    ASSUME NEW q \in Seq(Packet), q # <<>>, NEW rx, NEW f \in Parts,
           NEW taken \in Seq(Nat), NEW more, NEW but,
           TakenPart(taken, more, Head(q)[f]), Head(q)[f] \in Nat,
           SentOnce(q, f, but), TakenOnce(q, rx, taken, f, but)
    PROVE  SentOnce(Tail(q), f, but) /\ TakenOnce(Tail(q), Head(q).seqn, more, f, but)
<1>1. SentOnce(Tail(q), f, but)
  BY LeaveOnce
<1>2. ASSUME NEW i \in DOMAIN Tail(q), NEW k \in DOMAIN more, Tail(q)[i][f] = more[k],
             Tail(q)[i][f] \notin but
      PROVE  i = 1 /\ Tail(q)[1].seqn = Head(q).seqn
  <2>1. /\ i \in Nat /\ i >= 1 /\ i + 1 \in DOMAIN q /\ 1 \in DOMAIN q
        /\ Tail(q)[i] = q[i + 1] /\ Head(q) = q[1]
    BY PacketLeft
  <2>2. CASE k \in DOMAIN taken /\ more[k] = taken[k]
    <3>1. i + 1 = 1
      BY <1>2, <2>1, <2>2 DEF TakenOnce
    <3>2. QED
      BY <2>1, <3>1
  <2>3. CASE more[k] = q[1][f] /\ q[1][f] # 0
    <3>1. i + 1 = 1 + 1 /\ q[1].seqn = q[i + 1].seqn
      BY <1>2, <2>1, <2>3 DEF SentOnce
    <3>2. i = 1
      BY <2>1, <3>1
    <3>3. QED
      BY <2>1, <3>1, <3>2
  <2>4. QED
    BY <2>1, <2>2, <2>3, TakenElements
<1>3. QED
  BY <1>1, <1>2 DEF TakenOnce

\* What was sent last and is taken was the only packet on its way ...
LEMMA TakeLast ==
    ASSUME NEW q \in Seq(Packet), q # <<>>, NEW rx, NEW f \in Parts,
           NEW taken \in Seq(Nat), NEW more,
           TakenPart(taken, more, Head(q)[f]), Head(q)[f] \in Nat,
           NEW x, NEW n, SentLast(q, rx, taken, f, x, n)
    PROVE  SentLast(Tail(q), Head(q).seqn, more, f, x, n)
<1>1. ASSUME NEW i \in DOMAIN Tail(q), Tail(q)[i][f] = x
      PROVE  i = Len(Tail(q)) /\ Tail(q)[i].seqn = n
  BY <1>1, PacketLeft DEF SentLast
<1>2. ASSUME NEW k \in DOMAIN more, more[k] = x
      PROVE  Tail(q) = <<>> /\ Head(q).seqn = n
  <2>1. ~(k \in DOMAIN taken /\ more[k] = taken[k])
    BY <1>2 DEF SentLast
  <2>2. Head(q)[f] = x
    BY <1>2, <2>1, TakenElements
  <2>3. QED
    BY <2>2, PacketLeft DEF SentLast
<1>3. QED
  BY <1>1, <1>2 DEF SentLast

\* ... and what was not sent is not taken.
LEMMA TakeUnsent ==
    ASSUME NEW q \in Seq(Packet), q # <<>>, NEW f \in Parts,
           NEW taken \in Seq(Nat), NEW more,
           TakenPart(taken, more, Head(q)[f]), Head(q)[f] \in Nat,
           NEW x, Unsent(q, taken, f, x)
    PROVE  Unsent(Tail(q), more, f, x)
<1>1. \A i \in DOMAIN Tail(q) : Tail(q)[i][f] # x
  BY PacketLeft DEF Unsent
<1>2. Head(q)[f] # x
  BY PacketLeft DEF Unsent
<1>3. \A k \in DOMAIN more : more[k] # x
  BY <1>2, TakenElements DEF Unsent
<1>4. QED
  BY <1>1, <1>3 DEF Unsent

-------------------------------------------------------------------------------
(* The steps keep the types.                                                 *)

\* A number is followed by a number.
LEMMA NextSeqnTyped == \A n \in Nat : NextSeqn(n) \in 0..(SeqMod - 1)
BY SeqModAssumption DEF NextSeqn

\* The packet the encoder builds.
EncodedPacket == [seqn |-> NextSeqn(txSeqn), cmd |-> Waiting, audio |-> frames + 1]

\* The packet the callback pushes.
TimerPacket == [outBuf EXCEPT !.audio = IF timerLen THEN @ ELSE 0]

\* What the encoder pushes is a packet with the command that waits and the next frame.
LEMMA Encoded ==
    ASSUME AudioTypeOK, Encode
    PROVE  /\ EncodedPacket \in Packet
           /\ EncodedPacket["cmd"] = Waiting /\ EncodedPacket["audio"] = frames + 1
           /\ outBuf' = EncodedPacket /\ outBuf'.seqn = EncodedPacket.seqn
           /\ Pushed(air, air', EncodedPacket)
<1>1. EncodedPacket \in Packet
  BY NextSeqnTyped, EncBoundsAssumption
     DEF AudioTypeOK, Encode, EncodedPacket, Packet, Waiting
<1>2. /\ EncodedPacket["cmd"] = Waiting /\ EncodedPacket["audio"] = frames + 1
  BY DEF EncodedPacket
<1>3. outBuf' = EncodedPacket /\ Pushed(air, air', EncodedPacket)
  BY DEF Encode, Push, Pushed, EncodedPacket
<1>4. QED
  BY <1>1, <1>2, <1>3

\* What the callback pushes is the packet in the buffer, with or without its frame.
LEMMA TimerPushed ==
    ASSUME AudioTypeOK, TimerPush
    PROVE  /\ TimerPacket \in Packet
           /\ TimerPacket.seqn = outBuf.seqn /\ TimerPacket["cmd"] = outBuf.cmd
           /\ TimerPacket["audio"] = IF timerLen THEN outBuf.audio ELSE 0
           /\ Pushed(air, air', TimerPacket)
<1>1. outBuf \in Packet /\ 0 \in 0..Frames
  BY EncBoundsAssumption DEF AudioTypeOK
<1>2. /\ TimerPacket \in Packet
      /\ TimerPacket.seqn = outBuf.seqn /\ TimerPacket["cmd"] = outBuf.cmd
      /\ TimerPacket["audio"] = IF timerLen THEN outBuf.audio ELSE 0
  BY <1>1 DEF TimerPacket, Packet
<1>3. Pushed(air, air', TimerPacket)
  BY DEF TimerPush, Push, Pushed, TimerPacket
<1>4. QED
  BY <1>2, <1>3

\* A packet leaves the stack: it is lost, or dropped, or taken.
Left == air # <<>> /\ air' = Tail(air) /\ UNCHANGED sinkVars
Taken ==
    /\ air # <<>> /\ air' = Tail(air)
    /\ Head(air).seqn # rxSeqn /\ rxSeqn' = Head(air).seqn
    /\ TakenPart(accepted, accepted', Head(air)["audio"])
    /\ TakenPart(obeyed, obeyed', Head(air)["cmd"])

\* What becomes of a packet, in the terms of the receiver's promise.
LEMMA Delivered ==
    ASSUME Deliver \/ Lose
    PROVE  (Left \/ Taken) /\ UnchangedSender
BY DEF Deliver, Lose, Left, Taken, Sink!Take, Sink!WithOrWithout, TakenPart

\* What is taken has the types of what is sent.
LEMMA TakenTyped ==
    ASSUME AudioTypeOK, Taken
    PROVE  /\ Head(air) \in Packet /\ rxSeqn' \in 0..(SeqMod - 1)
           /\ Head(air)["audio"] \in Nat /\ Head(air)["cmd"] \in Nat
           /\ accepted' \in Seq(1..Frames) /\ obeyed' \in Seq(1..Cmds)
<1>1. Head(air) \in Packet
  BY PacketLeft DEF AudioTypeOK, Taken
<1>2. /\ Head(air).seqn \in 0..(SeqMod - 1)
      /\ Head(air)["audio"] \in 0..Frames /\ Head(air)["cmd"] \in 0..Cmds
  BY <1>1 DEF Packet
<1>3. accepted' \in Seq(1..Frames)
  <2>1. CASE accepted' = accepted
    BY <2>1 DEF AudioTypeOK
  <2>2. CASE Head(air)["audio"] # 0 /\ accepted' = Append(accepted, Head(air)["audio"])
    <3>1. Head(air)["audio"] \in 1..Frames
      BY <1>2, <2>2, EncBoundsAssumption
    <3>2. QED
      BY <2>2, <3>1, AppendProperties DEF AudioTypeOK
  <2>3. QED
    BY <2>1, <2>2 DEF Taken, TakenPart
<1>4. obeyed' \in Seq(1..Cmds)
  <2>1. CASE obeyed' = obeyed
    BY <2>1 DEF AudioTypeOK
  <2>2. CASE Head(air)["cmd"] # 0 /\ obeyed' = Append(obeyed, Head(air)["cmd"])
    <3>1. Head(air)["cmd"] \in 1..Cmds
      BY <1>2, <2>2, EncBoundsAssumption
    <3>2. QED
      BY <2>2, <3>1, AppendProperties DEF AudioTypeOK
  <2>3. QED
    BY <2>1, <2>2 DEF Taken, TakenPart
<1>5. QED
  BY <1>1, <1>2, <1>3, <1>4, EncBoundsAssumption DEF Taken

\* Discarding shortens what was accepted.
LEMMA Discarded ==
    ASSUME AudioTypeOK, Sink!Discard
    PROVE  /\ accepted' \in Seq(1..Frames) /\ UNCHANGED <<rxSeqn, obeyed>>
           /\ \A k \in DOMAIN accepted' : k \in DOMAIN accepted /\ accepted'[k] = accepted[k]
<1>1. PICK n \in 0..Len(accepted) : accepted' = SubSeq(accepted, 1, n)
  BY DEF Sink!Discard
<1>2. accepted \in Seq(1..Frames) /\ Len(accepted) \in Nat
      /\ DOMAIN accepted = 1..Len(accepted)
  BY LenProperties DEF AudioTypeOK
<1>3. \A i \in 1..n : accepted[i] \in 1..Frames
  <2>1. SUFFICES ASSUME NEW i \in 1..n PROVE accepted[i] \in 1..Frames
    OBVIOUS
  <2>2. n \in 0..Len(accepted)
    BY <1>1
  <2>3. i \in 1..Len(accepted)
    BY <1>2, <2>2
  <2>4. QED
    BY <1>2, <2>3, ElementOfSeq
<1>4. /\ accepted' \in Seq(1..Frames) /\ Len(accepted') = n
      /\ \A k \in 1..n : accepted'[k] = accepted[k]
  BY <1>1, <1>2, <1>3, SubSeqProperties
<1>5. DOMAIN accepted' = 1..n
  BY <1>4, LenProperties
<1>6. QED
  BY <1>2, <1>4, <1>5 DEF Sink!Discard

\* Types and the encoder of a callback that has begun are kept.
LEMMA AudioTypeKept ==
    ASSUME AudioTypeOK, TimerHasEncoder, [AudioNext]_audioVars
    PROVE  AudioTypeOK' /\ TimerHasEncoder'
<1> USE DEF AudioTypeOK, TimerHasEncoder, TimerPlaces
<1>0. 0 \in 0..(SeqMod - 1) /\ 0 \in 0..Cmds /\ 0 \in 0..Frames /\ NoPacket \in Packet
  BY SeqModAssumption, EncBoundsAssumption DEF NoPacket, Packet
<1>1. CASE EncOpen /\ UNCHANGED sinkVars
  BY <1>0, <1>1 DEF EncOpen, sinkVars, timerVars, cmdVars
<1>2. CASE EncClose /\ UNCHANGED sinkVars
  BY <1>2 DEF EncClose, sinkVars, timerVars, cmdVars
<1>3. CASE (CommandSend \/ CommandLength) /\ UNCHANGED sinkVars
  <2>1. /\ commands' \in 0..Cmds /\ command' \in 0..Cmds
        /\ pending' \in BOOLEAN /\ copying' \in BOOLEAN
    <3>1. commands < Cmds /\ commands' = commands + 1 /\ pending' = TRUE
      BY <1>3 DEF CommandSend, CommandLength, NewCommand
    <3>2. command' \in {command, commands + 1} /\ copying' \in {copying, TRUE}
      BY <1>3 DEF CommandSend, CommandLength
    <3>3. commands + 1 \in 0..Cmds
      BY <3>1, EncBoundsAssumption
    <3>4. QED
      BY <3>1, <3>2, <3>3
  <2>2. UNCHANGED <<keepAlive, callback, encOpen, txSeqn, outBuf, withAudio, timerPc,
                    timerSeqn, timerCmd, timerLen, frames, raced, air, rxSeqn, accepted,
                    obeyed>>
    BY <1>3 DEF CommandSend, CommandLength, NewCommand, sinkVars, timerVars
  <2>3. QED
    BY <2>1, <2>2
<1>18. CASE CommandCopy /\ UNCHANGED sinkVars
  BY <1>18 DEF CommandCopy, sinkVars, timerVars
<1>4. CASE Encode /\ UNCHANGED sinkVars
  <2>1. air' \in Seq(Packet) /\ outBuf' \in Packet
    BY <1>4, Encoded, PushedPacket
  <2>2. txSeqn' \in 0..(SeqMod - 1) /\ frames' \in 0..Frames
    BY <1>4, NextSeqnTyped, EncBoundsAssumption DEF Encode
  <2>3. raced' \subseteq 0..Cmds /\ pending' \in BOOLEAN /\ withAudio' \in BOOLEAN
    BY <1>0, <1>4 DEF Encode, Waiting
  <2>4. UNCHANGED <<keepAlive, callback, encOpen, timerPc, timerSeqn, timerCmd, timerLen,
                    command, copying, commands, rxSeqn, accepted, obeyed>>
    BY <1>4 DEF Encode, sinkVars, timerVars
  <2>5. QED
    BY <2>1, <2>2, <2>3, <2>4
<1>5. CASE TimerRead /\ UNCHANGED sinkVars
  BY <1>5, NextSeqnTyped DEF TimerRead, AtTimer, sinkVars
<1>6. CASE TimerCount /\ UNCHANGED sinkVars
  BY <1>6 DEF TimerCount, AtTimer, sinkVars
<1>7. CASE TimerHeader /\ UNCHANGED sinkVars
  <2>1. outBuf' \in Packet
    BY <1>7 DEF TimerHeader, Packet
  <2>2. QED
    BY <1>0, <1>7, <2>1 DEF TimerHeader, AtTimer, sinkVars
<1>8. CASE TimerTake /\ UNCHANGED sinkVars
  BY <1>0, <1>8 DEF TimerTake, Waiting, AtTimer, sinkVars
<1>19. CASE (TimerTest \/ TimerClear) /\ UNCHANGED sinkVars
  BY <1>19 DEF TimerTest, TimerClear, AtTimer, sinkVars
<1>9. CASE TimerCommand /\ UNCHANGED sinkVars
  <2>1. outBuf' \in Packet
    BY <1>9 DEF TimerCommand, Packet
  <2>2. QED
    BY <1>0, <1>9, <2>1 DEF TimerCommand, AtTimer, sinkVars
<1>10. CASE TimerLength /\ UNCHANGED sinkVars
  BY <1>10 DEF TimerLength, AtTimer, sinkVars
<1>11. CASE TimerArgs /\ UNCHANGED sinkVars
  BY <1>11 DEF TimerArgs, AtTimer, sinkVars
<1>12. CASE TimerPush /\ UNCHANGED sinkVars
  <2>1. air' \in Seq(Packet)
    BY <1>12, TimerPushed, PushedPacket
  <2>2. QED
    BY <1>0, <1>12, <2>1 DEF TimerPush, AtTimer, sinkVars
<1>13. CASE Sink!Discard /\ UNCHANGED encVars
  BY <1>13, Discarded DEF encVars, timerVars, cmdVars
<1>14. CASE Sink!Reopen /\ UNCHANGED encVars
  BY <1>0, <1>14 DEF Sink!Reopen, encVars, timerVars, cmdVars
<1>15. CASE Deliver \/ Lose
  <2>1. (Left \/ Taken) /\ UnchangedSender
    BY <1>15, Delivered
  <2>2. air' \in Seq(Packet)
    BY <2>1, PacketLeft DEF Left, Taken
  <2>3. /\ rxSeqn' \in 0..(SeqMod - 1)
        /\ accepted' \in Seq(1..Frames) /\ obeyed' \in Seq(1..Cmds)
    BY <2>1, TakenTyped DEF Left, sinkVars
  <2>4. QED
    BY <2>1, <2>2, <2>3 DEF UnchangedSender, timerVars, cmdVars
<1>16. CASE UNCHANGED audioVars
  BY <1>16 DEF audioVars, encVars, sinkVars, timerVars, cmdVars
<1>17. QED
  BY <1>1, <1>2, <1>3, <1>4, <1>5, <1>6, <1>7, <1>8, <1>9, <1>10, <1>11, <1>12,
     <1>13, <1>14, <1>15, <1>16, <1>18, <1>19 DEF AudioNext, Sender, Timer

-------------------------------------------------------------------------------
(* The frames.                                                               *)

\* What the receiver took and the commands it obeyed, as sequences of numbers.
LEMMA SinkTyped ==
    ASSUME AudioTypeOK
    PROVE  /\ accepted \in Seq(Nat) /\ accepted \in Seq(Nat \ {0})
           /\ obeyed \in Seq(Nat) /\ obeyed \in Seq(Nat \ {0})
<1>1. /\ 1..Frames \subseteq Nat \ {0} /\ 1..Cmds \subseteq Nat \ {0}
      /\ 1..Frames \subseteq Nat /\ 1..Cmds \subseteq Nat
  BY EncBoundsAssumption
<1>2. accepted \in Seq(Nat) /\ accepted \in Seq(Nat \ {0})
  BY <1>1, SeqMonotonic DEF AudioTypeOK
<1>3. obeyed \in Seq(Nat) /\ obeyed \in Seq(Nat \ {0})
  BY <1>1, SeqMonotonic DEF AudioTypeOK
<1>4. QED
  BY <1>2, <1>3

\* Their elements, and those of the packets, are numbers.
LEMMA Numbers ==
    ASSUME AudioTypeOK
    PROVE  /\ \A i \in DOMAIN air : air[i].audio \in Nat /\ air[i].cmd \in Nat
           /\ \A k \in DOMAIN accepted : k \in Nat /\ accepted[k] \in Nat
           /\ \A k \in DOMAIN obeyed : k \in Nat /\ obeyed[k] \in Nat
<1>1. \A i \in DOMAIN air : air[i] \in Packet
  BY LenProperties, ElementOfSeq DEF AudioTypeOK
<1>2. \A p \in Packet : p.audio \in Nat /\ p.cmd \in Nat
  BY EncBoundsAssumption DEF Packet
<1>3. \A k \in DOMAIN accepted : k \in Nat /\ accepted[k] \in Nat
  BY SinkTyped, LenProperties, ElementOfSeq
<1>4. \A k \in DOMAIN obeyed : k \in Nat /\ obeyed[k] \in Nat
  BY SinkTyped, LenProperties, ElementOfSeq
<1>5. QED
  BY <1>1, <1>2, <1>3, <1>4

\* A packet with the frame `frames`, that the encoder may have sent last, or with
\* none, keeps the order.
LEMMA PushKeepsOrder ==
    ASSUME AudioTypeOK, FrameInv, UNCHANGED <<rxSeqn, accepted>>,
           NEW p \in Packet, Pushed(air, air', p),
           frames' \in Nat, frames <= frames',
           p["audio"] \in {0, frames'},
           p["audio"] # 0 => SentLast(air, rxSeqn, accepted, "audio", p["audio"], p.seqn)
    PROVE  /\ FramesInOrder' /\ PlayedInOrder'
           /\ SentOnce(air, "audio", {0})' /\ TakenOnce(air, rxSeqn, accepted, "audio", {0})'
<1> USE DEF FrameInv
<1>1. /\ air \in Seq(Packet) /\ frames \in Nat /\ "audio" \in Parts
      /\ accepted \in Seq(Nat \ {0})
  BY SinkTyped, EncBoundsAssumption DEF AudioTypeOK, Parts
<1>2. SentOnce(air', "audio", {0}) /\ TakenOnce(air', rxSeqn, accepted, "audio", {0})
  BY <1>1, PushOnce
<1>3. SentOnce(air, "audio", {0})' /\ TakenOnce(air, rxSeqn, accepted, "audio", {0})'
  BY <1>2
<1>4. PlayedInOrder'
  BY DEF PlayedInOrder
<1>5. /\ \A i \in DOMAIN air : air[i].audio \in Nat
      /\ \A k \in DOMAIN accepted : accepted[k] \in Nat
  BY Numbers
<1>6. FramesInOrder'
  <2>1. CASE air' = air
    BY <1>1, <1>5, <2>1 DEF FramesInOrder
  <2>2. CASE air' # air
    <3>1. /\ Len(air') = Len(air) + 1 /\ Len(air) \in Nat
          /\ \A i \in DOMAIN air : i \in Nat /\ i <= Len(air)
          /\ \A i \in DOMAIN air' : \/ i \in DOMAIN air /\ air'[i] = air[i]
                                    \/ i = Len(air') /\ air'[i] = p
      BY <1>1, <2>2, PushedPacket
    <3>2. p.audio \in {0, frames'}
      OBVIOUS
    <3>3. \A i \in DOMAIN air' : air'[i].audio <= frames'
      BY <1>1, <1>5, <3>1, <3>2 DEF FramesInOrder
    <3>4. \A k \in DOMAIN accepted' : accepted'[k] <= frames'
      BY <1>1, <1>5 DEF FramesInOrder
    <3>5. \A i, j \in DOMAIN air' :
             i < j /\ air'[j].audio # 0 => air'[i].audio <= air'[j].audio
      BY <1>1, <1>5, <3>1, <3>2 DEF FramesInOrder
    <3>6. \A i \in DOMAIN air', k \in DOMAIN accepted' :
             air'[i].audio # 0 => accepted'[k] <= air'[i].audio
      BY <1>1, <1>5, <3>1, <3>2, <3>4 DEF FramesInOrder
    <3>7. QED
      BY <3>3, <3>4, <3>5, <3>6 DEF FramesInOrder
  <2>3. QED
    BY <2>1, <2>2
<1>7. QED
  BY <1>3, <1>4, <1>6

\* A frame that is taken is of the future of those taken before.
LEMMA TakeKeepsOrder ==
    ASSUME AudioTypeOK, FrameInv, Taken, UNCHANGED frames
    PROVE  /\ FramesInOrder' /\ PlayedInOrder'
           /\ SentOnce(air, "audio", {0})' /\ TakenOnce(air, rxSeqn, accepted, "audio", {0})'
<1> USE DEF FrameInv
<1>1. /\ air \in Seq(Packet) /\ air # <<>> /\ air' = Tail(air) /\ "audio" \in Parts
      /\ accepted \in Seq(Nat) /\ Head(air)["audio"] \in Nat
      /\ TakenPart(accepted, accepted', Head(air)["audio"]) /\ rxSeqn' = Head(air).seqn
  BY SinkTyped, TakenTyped DEF AudioTypeOK, Taken, Parts
<1>2. SentOnce(air', "audio", {0}) /\ TakenOnce(air', rxSeqn', accepted', "audio", {0})
  BY <1>1, TakeOnce
<1>3. SentOnce(air, "audio", {0})' /\ TakenOnce(air, rxSeqn, accepted, "audio", {0})'
  BY <1>2
<1>4. /\ Head(air) = air[1] /\ 1 \in DOMAIN air
      /\ \A i \in DOMAIN air' :
            i \in Nat /\ i >= 1 /\ i + 1 \in DOMAIN air /\ air'[i] = air[i + 1]
  BY <1>1, PacketLeft
<1>5. /\ \A k \in DOMAIN accepted : k \in Nat /\ accepted[k] \in Nat
      /\ \A i \in DOMAIN air : air[i].audio \in Nat
  BY Numbers
\* The frame at hand is not among those taken, as its packet is not dropped.
<1>6. ASSUME Head(air)["audio"] # 0, NEW k \in DOMAIN accepted
      PROVE  accepted[k] < Head(air)["audio"]
  <2>1. accepted[k] <= Head(air)["audio"]
    BY <1>4, <1>6 DEF FramesInOrder
  <2>2. accepted[k] # Head(air)["audio"]
    BY <1>4, <1>6 DEF TakenOnce, Taken
  <2>3. QED
    BY <1>1, <1>5, <2>1, <2>2
<1>7. \A k \in DOMAIN accepted' :
         \/ k \in DOMAIN accepted /\ accepted'[k] = accepted[k]
         \/ /\ accepted'[k] = Head(air)["audio"] /\ Head(air)["audio"] # 0
            /\ \A m \in DOMAIN accepted' : m # k => m \in DOMAIN accepted /\ m < k
  BY <1>1, TakenElements
<1>8. \A k \in DOMAIN accepted : k \in DOMAIN accepted' /\ accepted'[k] = accepted[k]
  BY <1>1, TakenElements
<1>9. PlayedInOrder'
  <2>1. SUFFICES ASSUME NEW i \in DOMAIN accepted', NEW j \in DOMAIN accepted', i < j
                 PROVE  accepted'[i] < accepted'[j]
    BY DEF PlayedInOrder
  <2>2. CASE j \in DOMAIN accepted /\ accepted'[j] = accepted[j]
    <3>1. i \in DOMAIN accepted
      <4>1. ASSUME j < i PROVE FALSE
        <5>1. DOMAIN accepted' = 1..Len(accepted')
          BY <1>1, TakenElements, LenProperties
        <5>2. QED
          BY <2>1, <4>1, <5>1
      <4>2. i # j
        <5>1. j \in Nat
          BY <1>5, <2>2
        <5>2. QED
          BY <2>1, <5>1
      <4>3. QED
        BY <1>7, <2>2, <4>1, <4>2
    <3>2. QED
      BY <1>8, <2>1, <2>2, <3>1 DEF PlayedInOrder
  <2>3. CASE /\ accepted'[j] = Head(air)["audio"] /\ Head(air)["audio"] # 0
             /\ \A m \in DOMAIN accepted' : m # j => m \in DOMAIN accepted /\ m < j
    <3>1. i # j
      <4>1. DOMAIN accepted' = 1..Len(accepted')
        BY <1>1, TakenElements, LenProperties
      <4>2. QED
        BY <2>1, <4>1
    <3>2. i \in DOMAIN accepted
      BY <2>3, <3>1
    <3>3. QED
      BY <1>6, <1>8, <2>3, <3>2
  <2>4. QED
    BY <1>7, <2>2, <2>3
<1>10. FramesInOrder'
  <2>1. \A i \in DOMAIN air' : air'[i].audio <= frames
    BY <1>4 DEF FramesInOrder
  <2>2. \A k \in DOMAIN accepted' : accepted'[k] <= frames
    <3>1. Head(air)["audio"] <= frames
      BY <1>4 DEF FramesInOrder
    <3>2. QED
      BY <1>7, <3>1 DEF FramesInOrder
  <2>3. \A i, j \in DOMAIN air' :
           i < j /\ air'[j].audio # 0 => air'[i].audio <= air'[j].audio
    <3>1. SUFFICES ASSUME NEW i \in DOMAIN air', NEW j \in DOMAIN air',
                          i < j, air'[j].audio # 0
                   PROVE  air'[i].audio <= air'[j].audio
      OBVIOUS
    <3>2. i + 1 < j + 1
      BY <1>4, <3>1
    <3>3. QED
      BY <1>4, <3>1, <3>2 DEF FramesInOrder
  <2>4. \A i \in DOMAIN air', k \in DOMAIN accepted' :
           air'[i].audio # 0 => accepted'[k] <= air'[i].audio
    <3>1. SUFFICES ASSUME NEW i \in DOMAIN air', NEW k \in DOMAIN accepted',
                          air'[i].audio # 0
                   PROVE  accepted'[k] <= air'[i].audio
      OBVIOUS
    <3>2. CASE k \in DOMAIN accepted /\ accepted'[k] = accepted[k]
      BY <1>4, <3>1, <3>2 DEF FramesInOrder
    <3>3. CASE accepted'[k] = Head(air)["audio"]
      <4>1. 1 < i + 1
        BY <1>4
      <4>2. air[1].audio <= air[i + 1].audio
        BY <1>4, <3>1, <4>1 DEF FramesInOrder
      <4>3. QED
        BY <1>4, <3>3, <4>2
    <3>4. QED
      BY <1>7, <3>2, <3>3
  <2>5. QED
    BY <2>1, <2>2, <2>3, <2>4 DEF FramesInOrder
<1>11. QED
  BY <1>3, <1>9, <1>10

\* A packet that is lost or dropped takes nothing from the order.
LEMMA LeaveKeepsOrder ==
    ASSUME AudioTypeOK, FrameInv, Left, UNCHANGED frames
    PROVE  /\ FramesInOrder' /\ PlayedInOrder'
           /\ SentOnce(air, "audio", {0})' /\ TakenOnce(air, rxSeqn, accepted, "audio", {0})'
<1> USE DEF FrameInv
<1>1. /\ air \in Seq(Packet) /\ air # <<>> /\ air' = Tail(air) /\ "audio" \in Parts
      /\ accepted' = accepted /\ rxSeqn' = rxSeqn
  BY DEF AudioTypeOK, Left, Parts, sinkVars
<1>2. SentOnce(air', "audio", {0}) /\ TakenOnce(air', rxSeqn, accepted, "audio", {0})
  BY <1>1, LeaveOnce
<1>3. SentOnce(air, "audio", {0})' /\ TakenOnce(air, rxSeqn, accepted, "audio", {0})'
  BY <1>1, <1>2
<1>4. PlayedInOrder'
  BY <1>1 DEF PlayedInOrder
<1>5. \A i \in DOMAIN air' :
         i \in Nat /\ i >= 1 /\ i + 1 \in DOMAIN air /\ air'[i] = air[i + 1]
  BY <1>1, PacketLeft
<1>6. \A i, j \in DOMAIN air' :
         i < j /\ air'[j].audio # 0 => air'[i].audio <= air'[j].audio
  <2>1. SUFFICES ASSUME NEW i \in DOMAIN air', NEW j \in DOMAIN air',
                        i < j, air'[j].audio # 0
                 PROVE  air'[i].audio <= air'[j].audio
    OBVIOUS
  <2>2. i + 1 < j + 1
    BY <1>5, <2>1
  <2>3. QED
    BY <1>5, <2>1, <2>2 DEF FramesInOrder
<1>7. FramesInOrder'
  BY <1>1, <1>5, <1>6 DEF FramesInOrder
<1>8. QED
  BY <1>3, <1>4, <1>7

\* Every step keeps what is said of the frames.
LEMMA FrameInvKept ==
    ASSUME AudioInv, [AudioNext]_audioVars
    PROVE  FrameInv'
<1>0. /\ AudioTypeOK /\ TimerHasEncoder /\ FrameInv
      /\ air \in Seq(Packet) /\ frames \in Nat /\ "audio" \in Parts
      /\ accepted \in Seq(Nat)
  BY SinkTyped, EncBoundsAssumption DEF AudioInv, AudioTypeOK, Parts
<1> USE DEF FrameInv
\* The steps of the sender that push nothing.
<1>1. ASSUME UNCHANGED <<air, sinkVars, frames>>,
             PushesFrame' => PushesFrame /\ UNCHANGED outBuf
      PROVE  FrameInv'
  <2>1. FramesInOrder' /\ PlayedInOrder'
    BY <1>0, <1>1 DEF FramesInOrder, PlayedInOrder, sinkVars
  <2>2. SentOnce(air, "audio", {0})' /\ TakenOnce(air, rxSeqn, accepted, "audio", {0})'
    BY <1>0, <1>1 DEF sinkVars
  <2>3. FrameRepeats'
    BY <1>0, <1>1 DEF FrameRepeats, sinkVars
  <2>4. QED
    BY <2>1, <2>2, <2>3
<1>2. CASE /\ EncOpen \/ EncClose \/ CommandSend \/ CommandLength \/ CommandCopy
           /\ UNCHANGED sinkVars
  <2>1. UNCHANGED <<air, frames, timerPc, timerLen>>
    BY <1>2 DEF EncOpen, EncClose, CommandSend, CommandLength, CommandCopy, NewCommand,
                timerVars
  <2>2. PushesFrame' => PushesFrame /\ UNCHANGED outBuf
    BY <1>0, <1>2, <2>1
       DEF PushesFrame, EncOpen, EncClose, CommandSend, CommandLength, CommandCopy,
           NewCommand, TimerHasEncoder
  <2>3. QED
    BY <1>1, <1>2, <2>1, <2>2
<1>3. CASE Encode /\ UNCHANGED sinkVars
  <2>1. /\ EncodedPacket \in Packet /\ EncodedPacket["audio"] = frames + 1
        /\ outBuf' = EncodedPacket /\ Pushed(air, air', EncodedPacket)
    BY <1>0, <1>3, Encoded
  <2>2. frames' = frames + 1 /\ UNCHANGED <<rxSeqn, accepted, timerPc, timerLen>>
    BY <1>3 DEF Encode, sinkVars, timerVars
  <2>3. Unsent(air, accepted, "audio", frames + 1)
    <3>1. /\ \A i \in DOMAIN air : air[i].audio \in Nat
          /\ \A k \in DOMAIN accepted : accepted[k] \in Nat
      BY <1>0, Numbers
    <3>2. QED
      BY <1>0, <3>1 DEF Unsent, FramesInOrder
  <2>4. SentLast(air, rxSeqn, accepted, "audio", EncodedPacket["audio"], EncodedPacket.seqn)
    BY <2>1, <2>3 DEF Unsent, SentLast
  <2>5. /\ FramesInOrder' /\ PlayedInOrder'
        /\ SentOnce(air, "audio", {0})' /\ TakenOnce(air, rxSeqn, accepted, "audio", {0})'
    BY <1>0, <2>1, <2>2, <2>4, PushKeepsOrder
  <2>6. FrameRepeats'
    <3>1. SentLast(air', rxSeqn, accepted, "audio", frames + 1, EncodedPacket.seqn)
      BY <1>0, <2>1, <2>3, PushLast
    <3>2. outBuf'.audio = frames + 1 /\ frames + 1 # 0
      BY <1>0, <2>1
    <3>3. QED
      BY <2>1, <2>2, <3>1, <3>2 DEF FrameRepeats
  <2>7. QED
    BY <2>5, <2>6
<1>4. CASE /\ \/ TimerRead \/ TimerCount \/ TimerHeader \/ TimerTest \/ TimerTake
              \/ TimerClear \/ TimerCommand \/ TimerLength \/ TimerArgs
           /\ UNCHANGED sinkVars
  <2>1. UNCHANGED <<air, frames>>
    BY <1>4 DEF TimerRead, TimerCount, TimerHeader, TimerTest, TimerTake, TimerClear,
                TimerCommand, TimerLength, TimerArgs, AtTimer
  <2>2. PushesFrame' => PushesFrame /\ UNCHANGED outBuf
    BY <1>0, <1>4 DEF AudioTypeOK, PushesFrame, TimerRead, TimerCount, TimerHeader,
         TimerTest, TimerTake, TimerClear, TimerCommand, TimerLength, TimerArgs, AtTimer
  <2>3. QED
    BY <1>1, <1>4, <2>1, <2>2
<1>5. CASE TimerPush /\ UNCHANGED sinkVars
  <2>1. /\ TimerPacket \in Packet /\ TimerPacket.seqn = outBuf.seqn
        /\ TimerPacket["audio"] = IF timerLen THEN outBuf.audio ELSE 0
        /\ Pushed(air, air', TimerPacket)
    BY <1>0, <1>5, TimerPushed
  <2>2. timerPc = "pushing" /\ timerPc' = "idle" /\ UNCHANGED <<rxSeqn, accepted, frames>>
    BY <1>5 DEF TimerPush, AtTimer, sinkVars
  <2>3. timerLen => /\ TimerPacket["audio"] = frames
                    /\ SentLast(air, rxSeqn, accepted, "audio", frames, TimerPacket.seqn)
    BY <1>0, <2>1, <2>2 DEF FrameRepeats, PushesFrame
  <2>4. TimerPacket["audio"] \in {0, frames}
    BY <2>1, <2>3
  <2>5. TimerPacket["audio"] # 0 =>
            SentLast(air, rxSeqn, accepted, "audio", TimerPacket["audio"], TimerPacket.seqn)
    BY <2>1, <2>3
  <2>6. /\ FramesInOrder' /\ PlayedInOrder'
        /\ SentOnce(air, "audio", {0})' /\ TakenOnce(air, rxSeqn, accepted, "audio", {0})'
    BY <1>0, <2>1, <2>2, <2>4, <2>5, PushKeepsOrder
  <2>7. FrameRepeats'
    BY <2>2 DEF FrameRepeats, PushesFrame
  <2>8. QED
    BY <2>6, <2>7
<1>6. CASE (Sink!Discard \/ Sink!Reopen) /\ UNCHANGED encVars
  <2>1. /\ \A k \in DOMAIN accepted' : k \in DOMAIN accepted /\ accepted'[k] = accepted[k]
        /\ accepted' = <<>> \/ rxSeqn' = rxSeqn
    BY <1>0, <1>6, Discarded DEF Sink!Reopen
  <2>2. UNCHANGED <<air, frames, outBuf, withAudio, timerPc, timerLen>>
    BY <1>6 DEF encVars, timerVars
  <2>3. FramesInOrder' /\ PlayedInOrder'
    BY <1>0, <2>1, <2>2 DEF FramesInOrder, PlayedInOrder
  <2>4. SentOnce(air, "audio", {0})' /\ TakenOnce(air, rxSeqn, accepted, "audio", {0})'
    BY <1>0, <2>1, <2>2 DEF SentOnce, TakenOnce
  <2>5. FrameRepeats'
    BY <1>0, <2>1, <2>2 DEF FrameRepeats, PushesFrame, SentLast
  <2>6. QED
    BY <2>3, <2>4, <2>5
<1>7. CASE Deliver \/ Lose
  <2>1. (Left \/ Taken) /\ UnchangedSender
    BY <1>7, Delivered
  <2>2. UNCHANGED <<frames, outBuf, withAudio, timerPc, timerLen>>
    BY <2>1 DEF UnchangedSender, timerVars
  <2>3. /\ FramesInOrder' /\ PlayedInOrder'
        /\ SentOnce(air, "audio", {0})' /\ TakenOnce(air, rxSeqn, accepted, "audio", {0})'
    BY <1>0, <2>1, <2>2, TakeKeepsOrder, LeaveKeepsOrder
  <2>4. ASSUME NEW x, NEW n, SentLast(air, rxSeqn, accepted, "audio", x, n)
        PROVE  SentLast(air', rxSeqn', accepted', "audio", x, n)
    <3>1. CASE Left
      BY <1>0, <2>4, <3>1, LeaveLast DEF Left, sinkVars
    <3>2. CASE Taken
      <4>1. Head(air)["audio"] \in Nat
        BY <1>0, <3>2, TakenTyped
      <4>2. QED
        BY <1>0, <2>4, <3>2, <4>1, TakeLast DEF Taken
    <3>3. QED
      BY <2>1, <3>1, <3>2
  <2>5. FrameRepeats'
    BY <1>0, <2>2, <2>4 DEF FrameRepeats, PushesFrame
  <2>6. QED
    BY <2>3, <2>5
<1>8. CASE UNCHANGED audioVars
  <2>1. UNCHANGED <<air, sinkVars, frames, outBuf, withAudio, timerPc, timerLen>>
    BY <1>8 DEF audioVars, encVars, timerVars
  <2>2. QED
    BY <1>1, <2>1 DEF PushesFrame
<1>9. QED
  BY <1>2, <1>3, <1>4, <1>5, <1>6, <1>7, <1>8 DEF AudioNext, Sender, Timer

-------------------------------------------------------------------------------
(* The commands.                                                             *)

\* The command that waits is the one put down last, or none.
LEMMA WaitingIs == Waiting = 0 \/ (pending /\ Waiting = command)
BY DEF Waiting

\* More commands may be given and copied, and more of them raced, than before.
LEMMA MoreCommands ==
    ASSUME AudioTypeOK, CommandInv, raced \subseteq raced',
           LastCopied' \in Nat, LastCopied <= LastCopied'
    PROVE  /\ Raced \subseteq Raced'
           /\ \A i \in DOMAIN air : air[i].cmd <= LastCopied'
           /\ \A k \in DOMAIN obeyed : obeyed[k] <= LastCopied'
           /\ SentOnce(air, "cmd", Raced') /\ TakenOnce(air, rxSeqn, obeyed, "cmd", Raced')
<1>1. Raced \subseteq Raced'
  BY DEF Raced
<1>2. LastCopied \in Nat
  BY EncBoundsAssumption DEF LastCopied, AudioTypeOK, CommandInv, CommandsGiven
<1>3. \A i \in DOMAIN air : air[i].cmd <= LastCopied'
  BY <1>2, Numbers DEF CommandInv, CommandsGiven
<1>4. \A k \in DOMAIN obeyed : obeyed[k] <= LastCopied'
  BY <1>2, Numbers DEF CommandInv, CommandsGiven
<1>5. SentOnce(air, "cmd", Raced')
  BY <1>1 DEF CommandInv, SentOnce
<1>6. TakenOnce(air, rxSeqn, obeyed, "cmd", Raced')
  BY <1>1 DEF CommandInv, TakenOnce
<1>7. QED
  BY <1>1, <1>3, <1>4, <1>5, <1>6

\* A command is taken when it has not been taken before, or raced.
LEMMA TakeKeepsObeyed ==
    ASSUME AudioTypeOK, CommandInv, Taken, raced' = raced
    PROVE  ObeyedOnce'
<1>1. /\ air \in Seq(Packet) /\ air # <<>> /\ Head(air) = air[1] /\ 1 \in DOMAIN air
      /\ obeyed \in Seq(Nat) /\ Head(air)["cmd"] \in Nat
      /\ TakenPart(obeyed, obeyed', Head(air)["cmd"])
  BY SinkTyped, TakenTyped, PacketLeft DEF AudioTypeOK, Taken
<1>2. \A k \in DOMAIN obeyed' :
         \/ k \in DOMAIN obeyed /\ obeyed'[k] = obeyed[k]
         \/ /\ obeyed'[k] = Head(air)["cmd"] /\ Head(air)["cmd"] # 0
            /\ \A m \in DOMAIN obeyed' : m # k => m \in DOMAIN obeyed /\ m < k
  BY <1>1, TakenElements
<1>3. \A k \in DOMAIN obeyed : k \in DOMAIN obeyed' /\ obeyed'[k] = obeyed[k]
  BY <1>1, TakenElements
<1>4. \A k \in DOMAIN obeyed : obeyed[k] = Head(air)["cmd"] => obeyed[k] \in Raced
  BY <1>1 DEF CommandInv, TakenOnce, Taken
<1>5. SUFFICES ASSUME NEW i \in DOMAIN obeyed', NEW j \in DOMAIN obeyed',
                      obeyed'[i] = obeyed'[j], i # j
               PROVE  obeyed'[i] \in raced
  BY DEF ObeyedOnce
<1>6. CASE i \in DOMAIN obeyed /\ j \in DOMAIN obeyed
  BY <1>3, <1>5, <1>6 DEF CommandInv, ObeyedOnce
<1>7. CASE i \notin DOMAIN obeyed
  BY <1>2, <1>3, <1>4, <1>5, <1>7 DEF Raced
<1>8. CASE j \notin DOMAIN obeyed
  BY <1>2, <1>3, <1>4, <1>5, <1>8 DEF Raced
<1>9. QED
  BY <1>6, <1>7, <1>8

\* A packet with a command that has been copied, and that was never sent, or was
\* sent last with its number, may follow.
LEMMA PushKeepsCommands ==
    ASSUME AudioTypeOK, CommandInv, UNCHANGED <<rxSeqn, obeyed, commands, copying>>,
           raced \subseteq raced',
           NEW p \in Packet, Pushed(air, air', p), p["cmd"] <= LastCopied,
           p["cmd"] \notin Raced' => SentLast(air, rxSeqn, obeyed, "cmd", p["cmd"], p.seqn)
    PROVE  /\ \A i \in DOMAIN air' : air'[i].cmd <= LastCopied'
           /\ \A k \in DOMAIN obeyed' : obeyed'[k] <= LastCopied'
           /\ ObeyedOnce'
           /\ SentOnce(air, "cmd", Raced)' /\ TakenOnce(air, rxSeqn, obeyed, "cmd", Raced)'
<1>1. /\ air \in Seq(Packet) /\ "cmd" \in Parts
      /\ LastCopied \in Nat /\ LastCopied' = LastCopied
  BY EncBoundsAssumption DEF AudioTypeOK, Parts, LastCopied, CommandInv, CommandsGiven
<1>2. SentOnce(air, "cmd", Raced') /\ TakenOnce(air, rxSeqn, obeyed, "cmd", Raced')
  BY <1>1, MoreCommands
<1>3. SentOnce(air', "cmd", Raced') /\ TakenOnce(air', rxSeqn, obeyed, "cmd", Raced')
  BY <1>1, <1>2, PushOnce
<1>4. SentOnce(air, "cmd", Raced)' /\ TakenOnce(air, rxSeqn, obeyed, "cmd", Raced)'
  BY <1>3
<1>5. ObeyedOnce'
  BY DEF CommandInv, ObeyedOnce
<1>6. \A i \in DOMAIN air' : air'[i].cmd <= LastCopied'
  <2>1. p.cmd <= LastCopied
    OBVIOUS
  <2>2. \A i \in DOMAIN air' : (i \in DOMAIN air /\ air'[i] = air[i]) \/ air'[i] = p
    BY <1>1, PushedPacket
  <2>3. QED
    BY <1>1, <2>1, <2>2 DEF CommandInv, CommandsGiven
<1>7. \A k \in DOMAIN obeyed' : obeyed'[k] <= LastCopied'
  BY <1>1 DEF CommandInv, CommandsGiven
<1>8. QED
  BY <1>4, <1>5, <1>6, <1>7

\* Every step keeps what is said of the commands.
LEMMA CommandInvKept ==
    ASSUME AudioInv, [AudioNext]_audioVars
    PROVE  CommandInv'
<1>0. /\ AudioTypeOK /\ TimerHasEncoder /\ CommandInv
      /\ air \in Seq(Packet) /\ "cmd" \in Parts /\ obeyed \in Seq(Nat)
      /\ commands \in Nat /\ command \in Nat /\ timerCmd \in Nat /\ outBuf.cmd \in Nat
      /\ timerPc \in TimerPlaces /\ copying \in BOOLEAN /\ LastCopied \in Nat
  BY SinkTyped, EncBoundsAssumption
     DEF AudioInv, AudioTypeOK, Parts, Packet, LastCopied, CommandInv, CommandsGiven
<1> USE DEF CommandInv, TimerPlaces
\* The steps that neither push nor deliver.
<1>1. ASSUME UNCHANGED <<air, sinkVars>>, raced \subseteq raced',
             LastCopied' \in Nat, LastCopied <= LastCopied',
             command' <= LastCopied', timerCmd' <= LastCopied', outBuf'.cmd <= LastCopied',
             copying' => callback' /\ commands' # 0,
             timerPc' \notin {"copied", "taken"} => timerCmd' = 0,
             CommandRepeats', CommandWaits'
      PROVE  CommandInv'
  <2>1. /\ \A i \in DOMAIN air : air[i].cmd <= LastCopied'
        /\ \A k \in DOMAIN obeyed : obeyed[k] <= LastCopied'
        /\ SentOnce(air, "cmd", Raced') /\ TakenOnce(air, rxSeqn, obeyed, "cmd", Raced')
    BY <1>0, <1>1, MoreCommands
  <2>2. CommandsGiven'
    BY <1>1, <2>1 DEF CommandsGiven, sinkVars
  <2>3. SentOnce(air, "cmd", Raced)' /\ TakenOnce(air, rxSeqn, obeyed, "cmd", Raced)'
    BY <1>1, <2>1 DEF sinkVars
  <2>4. ObeyedOnce'
    BY <1>0, <1>1 DEF ObeyedOnce, sinkVars
  <2>5. QED
    BY <1>1, <2>2, <2>3, <2>4
\* Those that give no command and leave the others where they are.
<1>2. ASSUME UNCHANGED <<air, sinkVars, raced, callback, copying, commands, command,
                         timerCmd>>,
             timerPc' \notin {"copied", "taken"} => timerCmd = 0,
             outBuf'.cmd <= LastCopied, CommandRepeats', CommandWaits'
      PROVE  CommandInv'
  <2>1. LastCopied' = LastCopied
    BY <1>2 DEF LastCopied
  <2>2. QED
    BY <1>0, <1>1, <1>2, <2>1 DEF CommandsGiven
<1>3. CASE EncOpen /\ UNCHANGED sinkVars
  <2>1. /\ timerPc = "idle" /\ timerPc' = "idle" /\ outBuf'.cmd = 0
        /\ pending' => pending
        /\ UNCHANGED <<air, sinkVars, raced, callback, copying, commands, command, timerCmd>>
    BY <1>0, <1>3 DEF EncOpen, TimerHasEncoder, NoPacket, timerVars
  <2>2. CommandRepeats' /\ CommandWaits'
    BY <1>0, <2>1 DEF CommandRepeats, CommandWaits, CommandWritten, sinkVars
  <2>3. QED
    BY <1>0, <1>2, <2>1, <2>2 DEF CommandsGiven
<1>4. CASE (EncClose /\ UNCHANGED sinkVars) \/ UNCHANGED audioVars
  <2>1. UNCHANGED <<air, sinkVars, raced, callback, copying, commands, command, timerCmd,
                    timerPc, outBuf, pending>>
    BY <1>4 DEF EncClose, audioVars, encVars, timerVars, cmdVars
  <2>2. CommandRepeats' /\ CommandWaits'
    BY <1>0, <2>1 DEF CommandRepeats, CommandWaits, CommandWritten, Raced, sinkVars
  <2>3. QED
    BY <1>0, <1>2, <2>1, <2>2 DEF CommandsGiven
<1>5. CASE CommandSend /\ UNCHANGED sinkVars
  <2>1. /\ commands' = commands + 1 /\ command' = commands + 1 /\ ~copying
        /\ UNCHANGED <<air, sinkVars, raced, callback, copying, timerPc, timerCmd, outBuf>>
    BY <1>0, <1>5 DEF CommandSend, NewCommand, CommandsGiven, timerVars
  <2>2. LastCopied = commands /\ LastCopied' = commands + 1
    BY <2>1 DEF LastCopied
  <2>3. Unsent(air, obeyed, "cmd", commands + 1)
    BY <1>0, <2>2, Numbers DEF Unsent, CommandsGiven
  <2>4. CommandRepeats'
    BY <1>0, <2>1, <2>3 DEF CommandRepeats, CommandWritten, Raced, sinkVars
  <2>5. CommandWaits'
    BY <1>0, <2>1, <2>2, <2>3 DEF CommandWaits, CommandsGiven, sinkVars
  <2>6. QED
    BY <1>0, <1>1, <2>1, <2>2, <2>4, <2>5 DEF CommandsGiven
<1>6. CASE CommandLength /\ UNCHANGED sinkVars
  <2>1. /\ commands' = commands + 1 /\ ~copying /\ copying' /\ callback'
        /\ UNCHANGED <<air, sinkVars, raced, command, timerPc, timerCmd, outBuf>>
    BY <1>0, <1>6 DEF CommandLength, NewCommand, timerVars
  <2>2. LastCopied = commands /\ LastCopied' = commands
    BY <1>0, <2>1 DEF LastCopied
  <2>3. CommandRepeats' /\ CommandWaits'
    BY <1>0, <2>1 DEF CommandRepeats, CommandWaits, CommandWritten, Raced, sinkVars
  <2>4. QED
    BY <1>0, <1>1, <2>1, <2>2, <2>3 DEF CommandsGiven
<1>7. CASE CommandCopy /\ UNCHANGED sinkVars
  <2>1. /\ command' = commands /\ copying /\ ~copying'
        /\ UNCHANGED <<air, sinkVars, raced, callback, commands, timerPc, timerCmd, outBuf>>
    BY <1>7 DEF CommandCopy, timerVars
  <2>2. LastCopied = commands - 1 /\ LastCopied' = commands
    BY <2>1 DEF LastCopied
  <2>3. Unsent(air, obeyed, "cmd", commands)
    BY <1>0, <2>2, Numbers DEF Unsent, CommandsGiven
  <2>4. CommandRepeats'
    BY <1>0, <2>1, <2>3 DEF CommandRepeats, CommandWritten, Raced, sinkVars
  <2>5. CommandWaits'
    BY <1>0, <2>1, <2>2, <2>3 DEF CommandWaits, CommandsGiven, sinkVars
  <2>6. QED
    BY <1>0, <1>1, <2>1, <2>2, <2>4, <2>5 DEF CommandsGiven
<1>8. CASE Encode /\ UNCHANGED sinkVars
  <2>1. /\ EncodedPacket \in Packet /\ EncodedPacket["cmd"] = Waiting
        /\ outBuf' = EncodedPacket /\ Pushed(air, air', EncodedPacket)
    BY <1>0, <1>8, Encoded
  <2>2. /\ ~pending' /\ outBuf'.cmd = Waiting
        /\ raced' = IF Alone THEN raced ELSE raced \union {Waiting}
        /\ UNCHANGED <<rxSeqn, obeyed, callback, copying, command, timerPc, timerCmd,
                       commands>>
    BY <1>8, <2>1 DEF Encode, sinkVars, timerVars
  <2>3. LastCopied' = LastCopied /\ Waiting <= LastCopied /\ raced \subseteq raced'
    BY <1>0, <2>2, WaitingIs DEF LastCopied, CommandsGiven
\* A command that nobody else has is sent for the first time ...
  <2>4. Waiting \notin Raced' => Unsent(air, obeyed, "cmd", Waiting)
    <3>1. SUFFICES ASSUME Waiting \notin Raced' PROVE Unsent(air, obeyed, "cmd", Waiting)
      OBVIOUS
    <3>2. Waiting # 0 /\ Alone
      BY <2>2, <3>1 DEF Raced
    <3>3. pending /\ Waiting = command /\ ~copying
      BY <3>2, WaitingIs DEF Alone
    <3>4. QED
      BY <1>0, <3>2, <3>3 DEF CommandWaits
  <2>5. Waiting \notin Raced' =>
            SentLast(air, rxSeqn, obeyed, "cmd", Waiting, EncodedPacket.seqn)
    BY <2>4 DEF Unsent, SentLast
  <2>6. /\ \A i \in DOMAIN air' : air'[i].cmd <= LastCopied'
        /\ \A k \in DOMAIN obeyed' : obeyed'[k] <= LastCopied'
        /\ ObeyedOnce'
        /\ SentOnce(air, "cmd", Raced)' /\ TakenOnce(air, rxSeqn, obeyed, "cmd", Raced)'
    BY <1>0, <2>1, <2>2, <2>3, <2>5, PushKeepsCommands
  <2>7. CommandsGiven'
    BY <1>0, <2>2, <2>3, <2>6 DEF CommandsGiven
\* ... and is not the one the callback has or is about to copy.
  <2>8. ASSUME NEW x, x \notin Raced', Unsent(air, obeyed, "cmd", x), x # Waiting
        PROVE  Unsent(air', obeyed, "cmd", x)
    BY <1>0, <2>1, <2>8, PushUnsent
  <2>9. timerPc = "tested" /\ ~copying /\ command \notin Raced'
            => Unsent(air', obeyed, "cmd", command)
    <3>1. SUFFICES ASSUME timerPc = "tested", ~copying, command \notin Raced'
                   PROVE  Unsent(air', obeyed, "cmd", command)
      OBVIOUS
    <3>2. command # Waiting
      BY <2>2, <3>1 DEF Alone, Raced
    <3>3. command \notin Raced
      BY <2>3, <3>1 DEF Raced
    <3>4. QED
      BY <1>0, <2>8, <3>1, <3>2, <3>3 DEF CommandRepeats
  <2>10. timerPc \in {"copied", "taken"} /\ timerCmd \notin Raced'
            => Unsent(air', obeyed, "cmd", timerCmd)
    <3>1. SUFFICES ASSUME timerPc \in {"copied", "taken"}, timerCmd \notin Raced'
                   PROVE  Unsent(air', obeyed, "cmd", timerCmd)
      OBVIOUS
    <3>2. timerCmd \notin Raced
      BY <2>3, <3>1 DEF Raced
    <3>3. timerCmd # Waiting
      <4>1. SUFFICES ASSUME timerCmd = Waiting PROVE FALSE
        OBVIOUS
      <4>2. Alone /\ Waiting # 0
        BY <2>2, <3>1, <4>1 DEF Raced
      <4>3. pending /\ command = timerCmd /\ command # 0 /\ ~copying
        BY <4>1, <4>2, WaitingIs DEF Alone
      <4>4. timerPc = "taken"
        BY <3>1, <4>2, <4>3 DEF Alone
      <4>5. QED
        BY <1>0, <4>3, <4>4 DEF CommandWaits
    <3>4. QED
      BY <1>0, <2>8, <3>1, <3>2, <3>3 DEF CommandRepeats
  <2>11. Waiting \notin Raced' =>
            SentLast(air', rxSeqn, obeyed, "cmd", Waiting, EncodedPacket.seqn)
    BY <1>0, <2>1, <2>4, PushLast
  <2>12. CommandRepeats' /\ CommandWaits'
    BY <2>1, <2>2, <2>9, <2>10, <2>11 DEF CommandRepeats, CommandWaits, CommandWritten
  <2>13. QED
    BY <2>6, <2>7, <2>12
<1>9. CASE (TimerRead \/ TimerCount \/ TimerHeader) /\ UNCHANGED sinkVars
  <2>1. /\ UNCHANGED <<air, sinkVars, raced, callback, copying, commands, command, timerCmd,
                       pending>>
        /\ timerPc \in {"idle", "read", "counted"}
        /\ timerPc' \in {"read", "counted", "headed"}
    BY <1>9 DEF TimerRead, TimerCount, TimerHeader, AtTimer
  <2>2. outBuf'.cmd = outBuf.cmd
    BY <1>0, <1>9 DEF TimerRead, TimerCount, TimerHeader, AudioTypeOK, Packet
  <2>3. CommandRepeats' /\ CommandWaits'
    BY <1>0, <2>1 DEF CommandRepeats, CommandWaits, CommandWritten, sinkVars
  <2>4. QED
    BY <1>0, <1>2, <2>1, <2>2, <2>3 DEF CommandsGiven
<1>10. CASE TimerTest /\ UNCHANGED sinkVars
  <2>1. /\ UNCHANGED <<air, sinkVars, raced, callback, copying, commands, command, timerCmd,
                       pending, outBuf>>
        /\ timerPc = "headed" /\ timerPc' = (IF pending THEN "tested" ELSE "taken")
    BY <1>10 DEF TimerTest, AtTimer
  <2>2. timerCmd = 0
    BY <1>0, <2>1 DEF CommandsGiven
  <2>3. CommandRepeats' /\ CommandWaits'
    BY <1>0, <2>1, <2>2 DEF CommandRepeats, CommandWaits, CommandWritten, Raced, sinkVars
  <2>4. QED
    BY <1>0, <1>2, <2>1, <2>2, <2>3 DEF CommandsGiven
<1>11. CASE TimerTake /\ UNCHANGED sinkVars
  <2>1. /\ timerCmd' = command \/ timerCmd' = 0
        /\ timerPc = "tested" /\ timerPc' = "copied"
        /\ raced' = IF copying THEN raced \union {command} ELSE raced
        /\ UNCHANGED <<air, sinkVars, callback, copying, commands, command, pending, outBuf>>
    BY <1>11 DEF TimerTake, Waiting, AtTimer
  <2>2. LastCopied' = LastCopied /\ raced \subseteq raced'
    BY <2>1 DEF LastCopied
  <2>3. CommandRepeats' /\ CommandWaits'
    BY <1>0, <2>1 DEF CommandRepeats, CommandWaits, CommandWritten, Raced, sinkVars
  <2>4. QED
    BY <1>0, <1>1, <2>1, <2>2, <2>3 DEF CommandsGiven
<1>12. CASE TimerClear /\ UNCHANGED sinkVars
  <2>1. /\ UNCHANGED <<air, sinkVars, raced, callback, copying, commands, command, timerCmd,
                       outBuf>>
        /\ timerPc = "copied" /\ timerPc' = "taken" /\ ~pending'
    BY <1>12 DEF TimerClear, AtTimer
  <2>2. CommandRepeats' /\ CommandWaits'
    BY <1>0, <2>1 DEF CommandRepeats, CommandWaits, CommandWritten, Raced, sinkVars
  <2>3. QED
    BY <1>0, <1>2, <2>1, <2>2 DEF CommandsGiven
<1>13. CASE TimerCommand /\ UNCHANGED sinkVars
  <2>1. /\ timerPc = "taken" /\ timerPc' = "written" /\ timerCmd' = 0
        /\ UNCHANGED <<air, sinkVars, raced, callback, copying, commands, command, pending>>
    BY <1>13 DEF TimerCommand, AtTimer
  <2>2. outBuf'.cmd = timerCmd
    BY <1>0, <1>13 DEF TimerCommand, AudioTypeOK, Packet
  <2>3. timerCmd \notin Raced =>
            SentLast(air, rxSeqn, obeyed, "cmd", timerCmd, outBuf'.seqn)
    BY <1>0, <2>1 DEF CommandRepeats, Unsent, SentLast
  <2>4. CommandRepeats'
    BY <2>1, <2>2, <2>3 DEF CommandRepeats, CommandWritten, Raced, sinkVars
  <2>5. CommandWaits'
    BY <1>0, <2>1, <2>2 DEF CommandWaits, CommandWritten, sinkVars
  <2>6. LastCopied' = LastCopied
    BY <2>1 DEF LastCopied
  <2>7. QED
    BY <1>0, <1>1, <2>1, <2>2, <2>4, <2>5, <2>6 DEF CommandsGiven
<1>14. CASE (TimerLength \/ TimerArgs) /\ UNCHANGED sinkVars
  <2>1. /\ UNCHANGED <<air, sinkVars, raced, callback, copying, commands, command, timerCmd,
                       pending, outBuf>>
        /\ timerPc \in {"written", "packed"} /\ timerPc' \in {"packed", "pushing"}
    BY <1>14 DEF TimerLength, TimerArgs, AtTimer
  <2>2. CommandRepeats' /\ CommandWaits'
    BY <1>0, <2>1 DEF CommandRepeats, CommandWaits, CommandWritten, Raced, sinkVars
  <2>3. QED
    BY <1>0, <1>2, <2>1, <2>2 DEF CommandsGiven
<1>15. CASE TimerPush /\ UNCHANGED sinkVars
  <2>1. /\ TimerPacket \in Packet /\ TimerPacket.seqn = outBuf.seqn
        /\ TimerPacket["cmd"] = outBuf.cmd /\ Pushed(air, air', TimerPacket)
    BY <1>0, <1>15, TimerPushed
  <2>2. /\ timerPc = "pushing" /\ timerPc' = "idle"
        /\ UNCHANGED <<rxSeqn, obeyed, outBuf, raced, callback, copying, commands, command,
                       timerCmd, pending>>
    BY <1>15 DEF TimerPush, AtTimer, sinkVars
  <2>3. LastCopied' = LastCopied /\ Raced' = Raced
    BY <2>2 DEF LastCopied, Raced
  <2>4. outBuf.cmd \notin Raced =>
            SentLast(air, rxSeqn, obeyed, "cmd", TimerPacket["cmd"], TimerPacket.seqn)
    BY <1>0, <2>1, <2>2 DEF CommandRepeats, CommandWritten
  <2>5. /\ \A i \in DOMAIN air' : air'[i].cmd <= LastCopied'
        /\ \A k \in DOMAIN obeyed' : obeyed'[k] <= LastCopied'
        /\ ObeyedOnce'
        /\ SentOnce(air, "cmd", Raced)' /\ TakenOnce(air, rxSeqn, obeyed, "cmd", Raced)'
    BY <1>0, <2>1, <2>2, <2>3, <2>4, PushKeepsCommands DEF CommandsGiven
  <2>6. CommandsGiven'
    BY <1>0, <2>2, <2>3, <2>5 DEF CommandsGiven
  <2>7. CommandRepeats'
    BY <2>2 DEF CommandRepeats, CommandWritten
  <2>8. CommandWaits'
    <3>1. pending /\ ~copying /\ command # 0 =>
              Unsent(air, obeyed, "cmd", command) /\ command # TimerPacket["cmd"]
      BY <1>0, <2>1, <2>2 DEF CommandWaits, CommandWritten
    <3>2. pending /\ ~copying /\ command # 0 => Unsent(air', obeyed, "cmd", command)
      BY <1>0, <2>1, <3>1, PushUnsent
    <3>3. QED
      BY <2>2, <3>2 DEF CommandWaits, CommandWritten
  <2>9. QED
    BY <2>5, <2>6, <2>7, <2>8
<1>16. CASE (Sink!Discard \/ Sink!Reopen) /\ UNCHANGED encVars
  <2>1. /\ UNCHANGED <<air, raced, callback, copying, commands, command, timerCmd, timerPc,
                       outBuf, pending>>
        /\ UNCHANGED <<rxSeqn, obeyed>> \/ (obeyed' = <<>> /\ DOMAIN obeyed' = {})
    BY <1>0, <1>16, Discarded DEF encVars, timerVars, cmdVars, Sink!Reopen
  <2>2. LastCopied' = LastCopied /\ Raced' = Raced
    BY <2>1 DEF LastCopied, Raced
  <2>3. CommandsGiven' /\ ObeyedOnce'
    BY <1>0, <2>1, <2>2 DEF CommandsGiven, ObeyedOnce
  <2>4. SentOnce(air, "cmd", Raced)' /\ TakenOnce(air, rxSeqn, obeyed, "cmd", Raced)'
    BY <1>0, <2>1, <2>2 DEF SentOnce, TakenOnce
  <2>5. CommandRepeats' /\ CommandWaits'
    BY <1>0, <2>1, <2>2
       DEF CommandRepeats, CommandWaits, CommandWritten, Unsent, SentLast
  <2>6. QED
    BY <2>3, <2>4, <2>5
<1>17. CASE Deliver \/ Lose
  <2>1. (Left \/ Taken) /\ UnchangedSender
    BY <1>17, Delivered
  <2>2. UNCHANGED <<raced, callback, copying, commands, command, timerCmd, timerPc, outBuf,
                    pending>>
    BY <2>1 DEF UnchangedSender, timerVars, cmdVars
  <2>3. /\ air # <<>> /\ air' = Tail(air)
        /\ LastCopied' = LastCopied /\ Raced' = Raced
    BY <2>1, <2>2 DEF Left, Taken, LastCopied, Raced
  <2>4. Taken => Head(air)["cmd"] \in Nat /\ TakenPart(obeyed, obeyed', Head(air)["cmd"])
    BY <1>0, TakenTyped DEF Taken
  <2>5. SentOnce(air', "cmd", Raced') /\ TakenOnce(air', rxSeqn', obeyed', "cmd", Raced')
    <3>1. CASE Left
      BY <1>0, <2>3, <3>1, LeaveOnce DEF Left, sinkVars
    <3>2. CASE Taken
      BY <1>0, <2>3, <2>4, <3>2, TakeOnce DEF Taken
    <3>3. QED
      BY <2>1, <3>1, <3>2
  <2>6. ASSUME NEW x, NEW n, SentLast(air, rxSeqn, obeyed, "cmd", x, n)
        PROVE  SentLast(air', rxSeqn', obeyed', "cmd", x, n)
    <3>1. CASE Left
      BY <1>0, <2>6, <3>1, LeaveLast DEF Left, sinkVars
    <3>2. CASE Taken
      BY <1>0, <2>3, <2>4, <2>6, <3>2, TakeLast DEF Taken
    <3>3. QED
      BY <2>1, <3>1, <3>2
  <2>7. ASSUME NEW x, Unsent(air, obeyed, "cmd", x)
        PROVE  Unsent(air', obeyed', "cmd", x)
    <3>1. CASE Left
      BY <1>0, <2>7, <3>1, LeaveUnsent DEF Left, sinkVars
    <3>2. CASE Taken
      BY <1>0, <2>3, <2>4, <2>7, <3>2, TakeUnsent
    <3>3. QED
      BY <2>1, <3>1, <3>2
  <2>8. ObeyedOnce'
    <3>1. CASE Left
      BY <1>0, <2>2, <3>1 DEF Left, sinkVars, ObeyedOnce
    <3>2. CASE Taken
      BY <1>0, <2>2, <3>2, TakeKeepsObeyed
    <3>3. QED
      BY <2>1, <3>1, <3>2
  <2>9. \A i \in DOMAIN air' : air'[i].cmd <= LastCopied
    BY <1>0, <2>3, PacketLeft DEF CommandsGiven
  <2>10. \A k \in DOMAIN obeyed' : obeyed'[k] <= LastCopied
    <3>1. CASE Left
      BY <1>0, <3>1 DEF Left, sinkVars, CommandsGiven
    <3>2. CASE Taken
      <4>1. Head(air)["cmd"] <= LastCopied
        BY <1>0, <2>3, PacketLeft DEF CommandsGiven
      <4>2. \A k \in DOMAIN obeyed' :
               (k \in DOMAIN obeyed /\ obeyed'[k] = obeyed[k]) \/ obeyed'[k] = Head(air)["cmd"]
        BY <1>0, <2>4, <3>2, TakenElements
      <4>3. QED
        BY <1>0, <4>1, <4>2 DEF CommandsGiven
    <3>3. QED
      BY <2>1, <3>1, <3>2
  <2>11. CommandsGiven'
    BY <1>0, <2>2, <2>3, <2>9, <2>10 DEF CommandsGiven
  <2>12. CommandRepeats'
    BY <1>0, <2>2, <2>3, <2>6, <2>7 DEF CommandRepeats, CommandWritten
  <2>13. CommandWaits'
    BY <1>0, <2>2, <2>7 DEF CommandWaits, CommandWritten
  <2>14. SentOnce(air, "cmd", Raced)' /\ TakenOnce(air, rxSeqn, obeyed, "cmd", Raced)'
    BY <2>5
  <2>15. QED
    BY <2>8, <2>11, <2>12, <2>13, <2>14
<1>18. QED
  BY <1>3, <1>4, <1>5, <1>6, <1>7, <1>8, <1>9, <1>10, <1>11, <1>12, <1>13, <1>14, <1>15,
     <1>16, <1>17 DEF AudioNext, Sender, Timer

-------------------------------------------------------------------------------
(* The theorems.                                                             *)

\* Nothing has been sent in the beginning.
LEMMA AudioInitInv == AudioInit => AudioInv
<1> SUFFICES ASSUME AudioInit PROVE AudioInv
  OBVIOUS
<1>1. air = <<>> /\ accepted = <<>> /\ obeyed = <<>> /\ DOMAIN (<<>>) = {}
  BY DEF AudioInit, EncInit, Sink!SinkInit
<1>2. 0 \in 0..(SeqMod - 1) /\ 0 \in 0..Cmds /\ 0 \in 0..Frames /\ NoPacket \in Packet
  BY SeqModAssumption, EncBoundsAssumption DEF NoPacket, Packet
<1>3. AudioTypeOK /\ TimerHasEncoder
  BY <1>1, <1>2, EmptySeq
     DEF AudioTypeOK, TimerHasEncoder, TimerPlaces, AudioInit, EncInit, Sink!SinkInit
<1>4. FrameInv
  BY <1>1 DEF FrameInv, FramesInOrder, PlayedInOrder, SentOnce, TakenOnce, FrameRepeats,
              PushesFrame, AudioInit, EncInit
<1>5. CommandInv
  BY <1>1 DEF CommandInv, CommandsGiven, LastCopied, ObeyedOnce, SentOnce, TakenOnce,
              CommandRepeats, CommandWritten, CommandWaits, AudioInit, EncInit, NoPacket
<1>6. QED
  BY <1>3, <1>4, <1>5 DEF AudioInv

\* AudioInv is an invariant: however the encoder interrupts the keep-alive
\* timer's callback (adapter_wireless_enc.c, duplex_dongle.c) and hal_bt_uart_tx, the
\* packets in the stack and what the receiver took of them repeat each other only
\* where the receiver drops them, but for the commands two tasks were handing over.
THEOREM AudioInvariant == AudioSpec => []AudioInv
<1>1. AudioInv /\ [AudioNext]_audioVars => AudioInv'
  BY AudioTypeKept, FrameInvKept, CommandInvKept DEF AudioInv
<1>2. QED
  BY <1>1, AudioInitInv, PTL DEF AudioSpec

\* Within a session of the receiver every frame is taken at most once, and in the
\* order in which the encoder made them.
THEOREM AlwaysPlayedInOrder == AudioSpec => []PlayedInOrder
<1>1. AudioInv => PlayedInOrder
  BY DEF AudioInv, FrameInv
<1>2. QED
  BY <1>1, AudioInvariant, PTL

\* Within a session of the receiver every command is carried out at most once, but for
\* one that was sent while hal_bt_uart_tx was copying the next, or by the encoder while
\* the timer's callback was taking the same one.
THEOREM AlwaysObeyedOnce == AudioSpec => []ObeyedOnce
<1>1. AudioInv => ObeyedOnce
  BY DEF AudioInv, CommandInv
<1>2. QED
  BY <1>1, AudioInvariant, PTL

===============================================================================
