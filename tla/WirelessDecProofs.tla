--------------------------- MODULE WirelessDecProofs ---------------------------
(***************************************************************************)
(* The receiving end, for every size of its buffer, every number of frames *)
(* it waits for and every set of packets.  The argument is one inductive   *)
(* invariant: start is set only between the opening of the decoder and its *)
(* stop, a frame in the decoder's hands means that the decoder is started  *)
(* and awake, and a started decoder that sleeps is awaited.  The second    *)
(* part shows that the receiving end implements the abstract sink.         *)
(***************************************************************************)
EXTENDS WirelessRx, NaturalsInduction, WellFoundedInduction, TLAPS

-------------------------------------------------------------------------------
(* The invariant in parts.                                                   *)

FlagsTyped ==
    /\ app \in AppStates
    /\ mixer \in BOOLEAN /\ start \in BOOLEAN /\ waitResume \in BOOLEAN
    /\ suspend \in BOOLEAN
    /\ awake \in BOOLEAN /\ pending \in BOOLEAN /\ room \in BOOLEAN
    /\ rxSeqn \in Nat

\* The receive list and the frame taken off it.
Items == [audio : Nat, raw : BOOLEAN]
BufferTyped ==
    /\ list \in Seq(Items) /\ held \in Seq(Items)
    /\ Len(held) <= 1 /\ Len(list) + Len(held) <= Cap

\* A decoder that is not opened, or stopped, is not started.
StoppedMeansStopped ==
    start => app \in {"added", "published", "open"}

\* get_frame runs only in a started decoder that is awake and has nothing left
\* to put out.
HolderIsAwake == held # <<>> => start /\ awake /\ ~pending

RInv == /\ FlagsTyped
        /\ BufferTyped
        /\ StoppedMeansStopped
        /\ HolderIsAwake
        /\ SleeperIsAwaited

-------------------------------------------------------------------------------
(* Lemmas: what the invariant implies, and that every step keeps it.         *)

LEMMA InvImpliesType == RInv => RecTypeOK
<1> SUFFICES ASSUME RInv PROVE RecTypeOK
  OBVIOUS
<1>1. ASSUME NEW s \in {list, held}, NEW i \in DOMAIN s
      PROVE  s[i].audio \in Nat /\ s[i].raw \in BOOLEAN
  <2>1. s \in Seq(Items)
    BY DEF RInv, BufferTyped
  <2>2. s[i] \in Items
    BY <2>1
  <2>3. QED
    BY <2>2 DEF Items
<1>2. QED
  BY <1>1 DEF RInv, FlagsTyped, BufferTyped, RecTypeOK

LEMMA InvImpliesSafe == RInv => WriteFindsBuffer
BY DEF RInv, StoppedMeansStopped, WriteFindsBuffer, RxAlive

LEMMA InitKeeps == RecInit => RInv
<1> SUFFICES ASSUME RecInit PROVE RInv
  OBVIOUS
<1>1. BufferTyped
  BY CapAssumption DEF RecInit, BufferTyped
<1>2. FlagsTyped
  BY DEF RecInit, FlagsTyped, AppStates
<1>3. QED
  BY <1>1, <1>2 DEF RecInit, RInv, StoppedMeansStopped, HolderIsAwake,
                    SleeperIsAwaited

LEMMA StutterKeeps == RInv /\ UNCHANGED recVars => RInv'
BY DEF RInv, FlagsTyped, BufferTyped, StoppedMeansStopped, HolderIsAwake,
       SleeperIsAwaited, recVars, rxVars, decVars, taskVars

\* The application opens the decoder and publishes it.
LEMMA OpenKeeps == RInv /\ (Open \/ Publish \/ Register) => RInv'
<1> SUFFICES ASSUME RInv, Open \/ Publish \/ Register PROVE RInv'
  OBVIOUS
<1> USE DEF FlagsTyped, BufferTyped, StoppedMeansStopped, HolderIsAwake,
            SleeperIsAwaited, AppStates
<1>1. CASE Open
  <2>1. held = <<>>
    BY <1>1 DEF RInv, Open
  <2>2. BufferTyped'
    BY <1>1, <2>1, CapAssumption DEF RInv, Open
  <2>3. FlagsTyped'
    BY <1>1 DEF RInv, Open
  <2>4. QED
    BY <1>1, <2>1, <2>2, <2>3 DEF RInv, Open
<1>2. CASE Publish
  BY <1>2 DEF RInv, Publish, rxVars, decVars, taskVars
<1>3. CASE Register
  BY <1>3 DEF RInv, Register, rxVars, decVars, taskVars
<1>4. QED
  BY <1>1, <1>2, <1>3

\* The application closes it, in four steps.
LEMMA CloseKeeps == RInv /\ (CloseDec \/ CloseRx \/ FreeDec \/ FreeJla) => RInv'
<1> SUFFICES ASSUME RInv, CloseDec \/ CloseRx \/ FreeDec \/ FreeJla PROVE RInv'
  OBVIOUS
<1> USE DEF FlagsTyped, BufferTyped, StoppedMeansStopped, HolderIsAwake,
            SleeperIsAwaited, AppStates
<1>1. CASE CloseDec
  BY <1>1 DEF RInv, CloseDec, ResClose, rxVars
<1>2. CASE CloseRx
  <2>1. held = <<>>
    BY <1>2 DEF RInv, CloseRx
  <2>2. BufferTyped'
    BY <1>2, <2>1, CapAssumption DEF RInv, CloseRx, taskVars
  <2>3. QED
    BY <1>2, <2>1, <2>2 DEF RInv, CloseRx, decVars, taskVars
<1>3. CASE FreeDec
  BY <1>3 DEF RInv, FreeDec, rxVars, decVars, taskVars
<1>4. CASE FreeJla
  BY <1>4 DEF RInv, FreeJla, rxVars, decVars, taskVars
<1>5. QED
  BY <1>1, <1>2, <1>3, <1>4

\* The output is granted and taken back.
LEMMA ResourceKeeps == RInv /\ (Grant \/ Preempt) => RInv'
<1> SUFFICES ASSUME RInv, Grant \/ Preempt PROVE RInv'
  OBVIOUS
<1> USE DEF FlagsTyped, BufferTyped, StoppedMeansStopped, HolderIsAwake,
            SleeperIsAwaited, AppStates
<1>1. CASE Grant
  <2>1. CASE Started
    BY <1>1, <2>1 DEF RInv, Grant, Started, rxVars
  <2>2. CASE StartFailed
    BY <1>1, <2>2 DEF RInv, Grant, StartFailed, rxVars
  <2>3. QED
    BY <1>1, <2>1, <2>2 DEF Grant
<1>2. CASE Preempt
  BY <1>2 DEF RInv, Preempt, ResClose, rxVars
<1>3. QED
  BY <1>1, <1>2

\* A packet keeps the list within the buffer, whoever interrupts whom.
LEMMA EnqueueKeeps ==
    ASSUME BufferTyped, NEW item \in Items, Enqueue(item), UNCHANGED held
    PROVE  BufferTyped'
<1>1. CASE Len(list) + Len(held) < Cap
  <2>1. list' = Append(list, item) /\ Len(list') = Len(list) + 1
    BY <1>1 DEF Enqueue, BufferTyped
  <2>2. QED
    BY <1>1, <2>1, CapAssumption DEF BufferTyped
<1>2. CASE ~(Len(list) + Len(held) < Cap)
  BY <1>2 DEF Enqueue, BufferTyped
<1>3. QED
  BY <1>1, <1>2

LEMMA WriteKeeps == RInv /\ Write => RInv'
<1> SUFFICES ASSUME RInv, NEW p \in Packets, FrameWrite(p) PROVE RInv'
  BY DEF Write
<1>1. p.seqn \in Nat /\ p.audio \in Nat
  BY PacketsAssumption
<1>2. BufferTyped' /\ rxSeqn' \in Nat
  <2>1. CASE UNCHANGED rxVars
    BY <2>1 DEF RInv, FlagsTyped, BufferTyped, FrameWrite, rxVars
  <2>2. CASE Accept(p)
    <3>1. rxSeqn' \in Nat
      BY <1>1, <2>2 DEF Accept
    <3>2. Item(p.audio, app # "open") \in Items
      BY <1>1 DEF Item, Items
    <3>3. UNCHANGED held
      BY DEF FrameWrite
    <3>4. CASE UNCHANGED list
      BY <3>1, <3>3, <3>4 DEF RInv, BufferTyped
    <3>5. CASE Enqueue(Item(p.audio, app # "open"))
      BY <3>1, <3>2, <3>3, <3>5, EnqueueKeeps DEF RInv
    <3>6. QED
      BY <2>2, <3>4, <3>5 DEF Accept
  <2>3. QED
    BY <2>1, <2>2 DEF FrameWrite
<1>3. UNCHANGED <<mixer, app, start, suspend, held, pending, room>>
  BY DEF FrameWrite
<1>4. \/ UNCHANGED <<waitResume, awake>>
      \/ waitResume' = FALSE /\ awake' = (awake \/ waitResume \/ ~mixer)
  BY DEF FrameWrite, Resume
<1>5. QED
  BY <1>2, <1>3, <1>4
     DEF RInv, FlagsTyped, StoppedMeansStopped, HolderIsAwake, SleeperIsAwaited

\* The decoder's task and its output.
LEMMA DecoderKeeps == RInv /\ (DecoderTask \/ Drained \/ MixerSuspend) => RInv'
<1> SUFFICES ASSUME RInv, DecoderTask \/ Drained \/ MixerSuspend PROVE RInv'
  OBVIOUS
<1> USE DEF FlagsTyped, StoppedMeansStopped, HolderIsAwake, SleeperIsAwaited
<1>1. CASE FetchEmpty
  BY <1>1 DEF RInv, FetchEmpty, rxVars, BufferTyped
<1>2. CASE Fetch
  <2>1. Len(list) >= 1
    BY <1>2, CapAssumption DEF Fetch, Wanted, RInv, BufferTyped
  <2>2. /\ Head(list) \in Items /\ Tail(list) \in Seq(Items)
        /\ Len(Tail(list)) = Len(list) - 1
    BY <2>1 DEF RInv, BufferTyped
  <2>3. Len(held) = 0 /\ Len(held') = 1
    BY <1>2 DEF Fetch
  <2>4. BufferTyped'
    BY <1>2, <2>1, <2>2, <2>3, CapAssumption DEF RInv, BufferTyped, Fetch
  <2>5. QED
    BY <1>2, <2>4 DEF RInv, Fetch, decVars
<1>3. CASE FreePacket
  <2>1. awake
    BY <1>3 DEF RInv, FreePacket
  <2>2. BufferTyped'
    BY <1>3, CapAssumption DEF RInv, BufferTyped, FreePacket, rxVars
  <2>3. QED
    BY <1>3, <2>1, <2>2 DEF RInv, FreePacket, rxVars
<1>4. CASE Output
  BY <1>4 DEF RInv, Output, rxVars, decVars, BufferTyped
<1>5. CASE OutputFull
  <2>1. held = <<>>
    BY <1>5 DEF RInv, OutputFull
  <2>2. QED
    BY <1>5, <2>1 DEF RInv, OutputFull, rxVars, decVars, BufferTyped
<1>6. CASE Drained
  BY <1>6 DEF RInv, Drained, rxVars, decVars, BufferTyped
<1>7. CASE MixerSuspend
  BY <1>7 DEF RInv, MixerSuspend, rxVars, taskVars, BufferTyped
<1>8. QED
  BY <1>1, <1>2, <1>3, <1>4, <1>5, <1>6, <1>7 DEF DecoderTask

-------------------------------------------------------------------------------
(* The theorems.                                                             *)

\* Whatever packets come and however the three tasks interleave, every step of
\* the receiving end keeps the invariant.
THEOREM RecInductive == RecSpec => []RInv
<1>1. RInv /\ [RecNext]_recVars => RInv'
  BY StutterKeeps, OpenKeeps, CloseKeeps, ResourceKeeps, WriteKeeps,
     DecoderKeeps DEF RecNext, Application
<1>2. QED
  BY InitKeeps, <1>1, PTL DEF RecSpec

\* The list and the frame taken off it never hold more than the buffer
\* (adapter_wireless_rx_write checks its allocation), and every variable keeps
\* its type.
THEOREM RecTypeCorrect == RecSpec => []RecTypeOK
BY RecInductive, InvImpliesType, PTL

\* The Bluetooth stack, which may interrupt adapter_dec_jla_close between any
\* two statements, never writes into a receive buffer that is freed.
THEOREM WritesFindTheBuffer == RecSpec => []WriteFindsBuffer
BY RecInductive, InvImpliesSafe, PTL

\* A decoder that is started and sleeps has left wait_resume for the next
\* packet, or waits for an output that is full: nobody waits for nobody.
THEOREM SleepersAreAwaited == RecSpec => []SleeperIsAwaited
<1>1. RInv => SleeperIsAwaited
  BY DEF RInv
<1>2. QED
  BY RecInductive, <1>1, PTL
-------------------------------------------------------------------------------
(* What the frames of a list of packets are.                                 *)

\* Induction over a set: a set of naturals that holds 0 and every successor of
\* its members holds them all.
LEMMA SetInduction ==
    ASSUME NEW T, T \subseteq Nat, 0 \in T, \A n \in T : n + 1 \in T
    PROVE  \A n \in Nat : n \in T
<1>1. SUFFICES ASSUME Nat \ T # {} PROVE FALSE
  OBVIOUS
<1>2. PICK x \in Nat \ T : \A y \in Nat \ T : ~ (<<y, x>> \in OpToRel(<, Nat))
  BY <1>1, WFMin, NatLessThanWellFounded, Nat \ T \subseteq Nat
<1>3. x # 0 /\ x - 1 \in Nat
  OBVIOUS
<1>4. <<x - 1, x>> \in OpToRel(<, Nat)
  <2>1. x - 1 < x
    BY <1>3
  <2>2. QED
    BY <1>3, <2>1 DEF OpToRel
<1>5. x - 1 \in T
  BY <1>2, <1>3, <1>4
<1>6. x \in T
  <2>1. (x - 1) + 1 = x
    OBVIOUS
  <2>2. QED
    BY <1>5, <2>1
<1>7. QED
  BY <1>6

\* One step of FramesTo.
FrameStep(s, f, n) ==
    IF n = 0 THEN <<>>
    ELSE IF s[n].audio = 0 THEN f[n - 1] ELSE Append(f[n - 1], s[n].audio)

\* The recursive function of FramesTo exists: its first n values do, for each n.
LEMMA FramesDefined ==
    ASSUME NEW s, Len(s) \in Nat
    PROVE  FramesTo(s) = [n \in 0..Len(s) |-> FrameStep(s, FramesTo(s), n)]
<1> DEFINE Reached == {n \in Nat : \E f : f = [m \in 0..n |-> FrameStep(s, f, m)]}
<1>1. 0 \in Reached
  <2> DEFINE f == [m \in 0..0 |-> <<>>]
  <2>1. f = [m \in 0..0 |-> FrameStep(s, f, m)]
    BY DEF FrameStep
  <2>2. QED
    BY <2>1
<1>2. ASSUME NEW n \in Reached PROVE n + 1 \in Reached
  <2>1. PICK f : f = [m \in 0..n |-> FrameStep(s, f, m)]
    OBVIOUS
  <2> DEFINE g == [m \in 0..(n + 1) |-> IF m = n + 1 THEN FrameStep(s, f, m) ELSE f[m]]
  <2>2. ASSUME NEW m \in 0..(n + 1) PROVE g[m] = FrameStep(s, g, m)
    <3>1. CASE m = 0
      <4>1. f[0] = FrameStep(s, f, 0)
        BY <2>1
      <4>2. QED
        BY <3>1, <4>1 DEF FrameStep
    <3>2. CASE m # 0
      <4>1. m - 1 \in 0..n /\ m - 1 # n + 1 /\ m - 1 \in 0..(n + 1)
        BY <3>2
      <4>2. g[m - 1] = f[m - 1]
        BY <4>1
      <4>3. g[m] = FrameStep(s, f, m)
        <5>1. CASE m = n + 1
          BY <5>1
        <5>2. CASE m # n + 1
          <6>1. m \in 0..n
            BY <5>2
          <6>2. f[m] = FrameStep(s, f, m)
            BY <2>1, <6>1
          <6>3. QED
            BY <5>2, <6>2
        <5>3. QED
          BY <5>1, <5>2
      <4>4. FrameStep(s, f, m) = FrameStep(s, g, m)
        BY <3>2, <4>2 DEF FrameStep
      <4>5. QED
        BY <4>3, <4>4
    <3>3. QED
      BY <3>1, <3>2
  <2>3. g = [m \in 0..(n + 1) |-> FrameStep(s, g, m)]
    BY <2>2
  <2>4. \E h : h = [m \in 0..(n + 1) |-> FrameStep(s, h, m)]
    <3> HIDE DEF g
    <3>1. QED
      BY <2>3
  <2>5. n + 1 \in Nat
    OBVIOUS
  <2>6. QED
    BY <2>4, <2>5
<1>3. Len(s) \in Reached
  BY <1>1, <1>2, SetInduction
<1>4. \E f : f = [n \in 0..Len(s) |-> FrameStep(s, f, n)]
  BY <1>3
<1>5. QED
  BY <1>4 DEF FramesTo, FrameStep

\* What FramesTo is at each place.
LEMMA FramesAt ==
    ASSUME NEW s, Len(s) \in Nat
    PROVE  /\ FramesTo(s)[0] = <<>>
           /\ \A n \in Nat : n + 1 <= Len(s) =>
                FramesTo(s)[n + 1] =
                    IF s[n + 1].audio = 0 THEN FramesTo(s)[n]
                    ELSE Append(FramesTo(s)[n], s[n + 1].audio)
<1> DEFINE F == FramesTo(s)
<1>1. F = [n \in 0..Len(s) |-> FrameStep(s, F, n)]
  BY FramesDefined
<1> HIDE DEF F
<1>2. ASSUME NEW n \in 0..Len(s) PROVE F[n] = FrameStep(s, F, n)
  BY <1>1
<1>3. F[0] = <<>>
  BY <1>2 DEF FrameStep
<1>4. ASSUME NEW n \in Nat, n + 1 <= Len(s)
      PROVE  F[n + 1] = IF s[n + 1].audio = 0 THEN F[n] ELSE Append(F[n], s[n + 1].audio)
  <2>1. n + 1 \in 0..Len(s) /\ n + 1 # 0 /\ (n + 1) - 1 = n
    BY <1>4
  <2>2. QED
    BY <1>2, <2>1 DEF FrameStep
<1>5. QED
  BY <1>3, <1>4 DEF F

\* They are frames.
LEMMA FramesTyped ==
    ASSUME NEW s \in Seq(Items)
    PROVE  \A n \in 0..Len(s) : FramesTo(s)[n] \in Seq(Nat)
<1> DEFINE Good == {n \in Nat : n <= Len(s) => FramesTo(s)[n] \in Seq(Nat)}
<1>1. 0 \in Good
  <2>1. Len(s) \in Nat /\ FramesTo(s)[0] = <<>>
    BY FramesAt
  <2>2. <<>> \in Seq(Nat)
    OBVIOUS
  <2>3. QED
    BY <2>1, <2>2
<1>2. ASSUME NEW n \in Good PROVE n + 1 \in Good
  <2> SUFFICES ASSUME n + 1 <= Len(s) PROVE FramesTo(s)[n + 1] \in Seq(Nat)
    OBVIOUS
  <2>1. FramesTo(s)[n] \in Seq(Nat)
    OBVIOUS
  <2>2. s[n + 1].audio \in Nat
    <3>1. s[n + 1] \in Items
      OBVIOUS
    <3>2. QED
      BY <3>1 DEF Items
  <2>3. \/ FramesTo(s)[n + 1] = FramesTo(s)[n]
        \/ FramesTo(s)[n + 1] = Append(FramesTo(s)[n], s[n + 1].audio)
    <3>1. Len(s) \in Nat /\ n \in Nat
      OBVIOUS
    <3>2. FramesTo(s)[n + 1] = IF s[n + 1].audio = 0 THEN FramesTo(s)[n]
                               ELSE Append(FramesTo(s)[n], s[n + 1].audio)
      BY <3>1, FramesAt
    <3>3. QED
      BY <3>2
  <2>4. Append(FramesTo(s)[n], s[n + 1].audio) \in Seq(Nat)
    BY <2>1, <2>2
  <2>5. QED
    BY <2>1, <2>3, <2>4
<1>3. \A n \in Nat : n \in Good
  <2> HIDE DEF Good
  <2>1. Good \subseteq Nat
    BY DEF Good
  <2>2. QED
    BY <1>1, <1>2, <2>1, SetInduction
<1>4. QED
  BY <1>3

\* The first n packets decide what their frames are.
LEMMA FramesOfPrefix ==
    ASSUME NEW s \in Seq(Items), NEW t \in Seq(Items), Len(s) <= Len(t),
           \A i \in 1..Len(s) : s[i] = t[i]
    PROVE  \A n \in 0..Len(s) : FramesTo(s)[n] = FramesTo(t)[n]
<1> DEFINE Same == {n \in Nat : n <= Len(s) => FramesTo(s)[n] = FramesTo(t)[n]}
<1>1. 0 \in Same
  BY FramesAt
<1>2. ASSUME NEW n \in Same PROVE n + 1 \in Same
  <2> SUFFICES ASSUME n + 1 <= Len(s) PROVE FramesTo(s)[n + 1] = FramesTo(t)[n + 1]
    OBVIOUS
  <2>1. FramesTo(s)[n] = FramesTo(t)[n] /\ s[n + 1] = t[n + 1] /\ n + 1 <= Len(t)
    OBVIOUS
  <2>2. QED
    BY <2>1, FramesAt
<1>3. \A n \in Nat : n \in Same
  <2> HIDE DEF Same
  <2>1. Same \subseteq Nat
    BY DEF Same
  <2>2. QED
    BY <1>1, <1>2, <2>1, SetInduction
<1>4. QED
  BY <1>3

\* A packet more is a frame more, or none.
LEMMA FramesOfAppend ==
    ASSUME NEW s \in Seq(Items), NEW item \in Items
    PROVE  FramesOf(Append(s, item)) =
               IF item.audio = 0 THEN FramesOf(s) ELSE Append(FramesOf(s), item.audio)
<1> DEFINE t == Append(s, item)
<1>1. /\ t \in Seq(Items) /\ Len(t) = Len(s) + 1 /\ t[Len(s) + 1] = item
      /\ \A i \in 1..Len(s) : s[i] = t[i]
  OBVIOUS
<1> HIDE DEF t
<1>2. Len(s) \in Nat /\ Len(s) <= Len(t) /\ Len(s) + 1 <= Len(t) /\ Len(s) \in 0..Len(s)
      /\ Len(t) \in Nat
  BY <1>1
<1>3. FramesTo(s)[Len(s)] = FramesTo(t)[Len(s)]
  BY <1>1, <1>2, FramesOfPrefix
<1>4. FramesTo(t)[Len(s) + 1] =
        IF item.audio = 0 THEN FramesTo(t)[Len(s)]
        ELSE Append(FramesTo(t)[Len(s)], item.audio)
  BY <1>1, <1>2, FramesAt
<1>5. FramesOf(t) = IF item.audio = 0 THEN FramesOf(s) ELSE Append(FramesOf(s), item.audio)
  BY <1>1, <1>3, <1>4 DEF FramesOf
<1>6. QED
  BY <1>5 DEF t

\* Fewer packets are fewer frames, the first ones.
LEMMA FramesOfFewer ==
    ASSUME NEW s \in Seq(Items), NEW t \in Seq(Items), Len(s) <= Len(t),
           \A i \in 1..Len(s) : s[i] = t[i]
    PROVE  \E m \in 0..Len(FramesOf(t)) : FramesOf(s) = SubSeq(FramesOf(t), 1, m)
<1> DEFINE F == FramesTo(t)
           k == Len(s)
           Longer == {n \in Nat : k + n <= Len(t) =>
                        \E m \in 0..Len(F[k + n]) : F[k] = SubSeq(F[k + n], 1, m)}
<1>1. k \in Nat /\ Len(t) \in Nat
  OBVIOUS
<1>2. ASSUME NEW n \in Nat, n <= Len(t) PROVE F[n] \in Seq(Nat)
  BY <1>2, FramesTyped
<1>3. ASSUME NEW n \in Nat, n + 1 <= Len(t)
      PROVE  F[n + 1] = F[n] \/ F[n + 1] = Append(F[n], t[n + 1].audio)
  <2>1. F[n + 1] = IF t[n + 1].audio = 0 THEN F[n] ELSE Append(F[n], t[n + 1].audio)
    BY <1>1, <1>3, FramesAt
  <2>2. QED
    BY <2>1
<1>4. FramesOf(s) = F[k]
  BY FramesOfPrefix, <1>1 DEF FramesOf
<1> HIDE DEF F, k
<1>5. 0 \in Longer
  <2> SUFFICES ASSUME k <= Len(t)
               PROVE  \E m \in 0..Len(F[k]) : F[k] = SubSeq(F[k], 1, m)
    BY <1>1
  <2>1. F[k] \in Seq(Nat)
    BY <1>1, <1>2
  <2>2. F[k] = SubSeq(F[k], 1, Len(F[k])) /\ Len(F[k]) \in 0..Len(F[k])
    BY <2>1
  <2>3. QED
    BY <2>2
<1>6. ASSUME NEW n \in Longer PROVE n + 1 \in Longer
  <2> SUFFICES ASSUME k + (n + 1) <= Len(t)
               PROVE  \E m \in 0..Len(F[k + (n + 1)]) :
                        F[k] = SubSeq(F[k + (n + 1)], 1, m)
    OBVIOUS
  <2>1. k + n \in Nat /\ k + n <= Len(t) /\ (k + n) + 1 <= Len(t)
        /\ k + (n + 1) = (k + n) + 1
    BY <1>1
  <2>2. PICK m \in 0..Len(F[k + n]) : F[k] = SubSeq(F[k + n], 1, m)
    BY <2>1
  <2>3. F[k + n] \in Seq(Nat) /\ F[k + (n + 1)] \in Seq(Nat)
    BY <1>1, <1>2, <2>1
  <2>4. CASE F[k + (n + 1)] = F[k + n]
    BY <2>2, <2>4
  <2>5. CASE F[k + (n + 1)] = Append(F[k + n], t[k + (n + 1)].audio)
    <3>1. Len(F[k + (n + 1)]) = Len(F[k + n]) + 1
      BY <2>3, <2>5
    <3>2. SubSeq(F[k + (n + 1)], 1, m) = SubSeq(F[k + n], 1, m)
      BY <2>3, <2>5, <3>1
    <3>3. m \in 0..Len(F[k + (n + 1)])
      BY <2>3, <3>1
    <3>4. QED
      BY <2>2, <3>2, <3>3
  <2>6. QED
    BY <1>3, <2>1, <2>4, <2>5
<1>7. \A n \in Nat : n \in Longer
  <2> HIDE DEF Longer
  <2>1. Longer \subseteq Nat
    BY DEF Longer
  <2>2. QED
    BY <1>5, <1>6, <2>1, SetInduction
<1>8. Len(t) - k \in Nat /\ k + (Len(t) - k) = Len(t)
  BY <1>1 DEF k
<1>9. \E m \in 0..Len(F[Len(t)]) : F[k] = SubSeq(F[Len(t)], 1, m)
  <2>1. Len(t) - k \in Longer
    BY <1>7, <1>8
  <2>2. QED
    BY <1>1, <1>8, <2>1
<1>10. FramesOf(t) = F[Len(t)]
  BY DEF FramesOf, F
<1>11. QED
  BY <1>4, <1>9, <1>10

-------------------------------------------------------------------------------
(* The refinement of the abstract sink.                                      *)

RxInv == RInv /\ played \in Seq(Items)

\* The record of what is played and obeyed leaves the receiving end as it is.
LEMMA RxIsRec == RxNext => RecNext
BY DEF RxNext, RxOpen, RxWrite, RxFreePacket, RxOther, RecNext, Application,
       DecoderTask, Write

LEMMA RxInitKeeps == RxInit => RxInv
BY InitKeeps DEF RxInit, RxInv

LEMMA RxNextKeeps == RxInv /\ [RxNext]_rxHistVars => RxInv'
<1> SUFFICES ASSUME RxInv, [RxNext]_rxHistVars PROVE RxInv'
  OBVIOUS
<1>1. [RecNext]_recVars
  BY RxIsRec DEF rxHistVars
<1>2. RInv'
  BY <1>1, StutterKeeps, OpenKeeps, CloseKeeps, ResourceKeeps, WriteKeeps,
     DecoderKeeps DEF RecNext, Application, RxInv
<1>3. played \in Seq(Items) /\ held \in Seq(Items)
  BY DEF RxInv, RInv, BufferTyped
<1>4. played' \in {played, <<>>, played \o held}
  BY DEF RxNext, RxOpen, RxWrite, RxFreePacket, RxOther, rxHistVars
<1>5. <<>> \in Seq(Items) /\ played \o held \in Seq(Items)
  BY <1>3
<1>6. played' \in Seq(Items)
  BY <1>3, <1>4, <1>5
<1>7. QED
  BY <1>2, <1>6 DEF RxInv

LEMMA NoFrames == FramesOf(<<>>) = <<>>
<1>1. Len(<<>>) = 0
  OBVIOUS
<1>2. QED
  BY <1>1, FramesAt DEF FramesOf

\* An opened decoder starts with nothing.
LEMMA OpenIsReopen == RxInv /\ RxOpen => Sink!Reopen
<1> SUFFICES ASSUME RxInv, RxOpen PROVE Sink!Reopen
  OBVIOUS
<1>1. held = <<>> /\ held' = held /\ list' = <<>> /\ played' = <<>>
  BY DEF RxInv, RInv, StoppedMeansStopped, HolderIsAwake, RxOpen, Open
<1>2. Taken' = <<>>
  BY <1>1 DEF Taken
<1>3. Accepted' = <<>>
  BY <1>2, NoFrames DEF Accepted
<1>4. QED
  BY <1>3 DEF Sink!Reopen, RxOpen, Open

\* A packet that is no repetition is taken, with or without its frame: the
\* buffer may be full.
LEMMA WriteIsTake ==
    RxInv /\ RxWrite =>
        (\E p \in Packets : Sink!Take(p)) \/ UNCHANGED <<rxSeqn, Accepted, obeyed>>
<1> SUFFICES ASSUME RxInv, NEW p \in Packets, FrameWrite(p),
                    obeyed' = IF Commanded(p) THEN Append(obeyed, p.cmd) ELSE obeyed,
                    UNCHANGED played
             PROVE  Sink!Take(p) \/ UNCHANGED <<rxSeqn, Accepted, obeyed>>
  BY DEF RxWrite
<1>1. UNCHANGED held
  BY DEF FrameWrite
<1>2. CASE ~ Received(p)
  <2>1. UNCHANGED <<rxVars, obeyed>>
    BY <1>2 DEF Received, Commanded, FrameWrite, rxVars
  <2>2. QED
    BY <1>1, <2>1 DEF Accepted, Taken, rxVars
<1>3. CASE Received(p)
  <2> DEFINE item == Item(p.audio, app # "open")
  <2>1. p.seqn # rxSeqn /\ Accept(p) /\ rxSeqn' = p.seqn
    BY <1>3 DEF Received, FrameWrite, Accept
  <2>2. list' = list \/ list' = Append(list, item)
    BY <2>1 DEF Accept, Enqueue
  <2>3. p.audio \in Nat /\ item \in Items /\ item.audio = p.audio
    BY PacketsAssumption DEF Item, Items
  <2> HIDE DEF item
  <2>4. Accepted' \in Sink!WithOrWithout(Accepted, p.audio)
    <3>1. played \in Seq(Items) /\ held \in Seq(Items) /\ list \in Seq(Items)
          /\ Taken \in Seq(Items)
      BY DEF RxInv, RInv, BufferTyped, Taken
    <3>2. CASE list' = list
      BY <1>1, <3>2 DEF Accepted, Taken, Sink!WithOrWithout
    <3>3. CASE list' = Append(list, item)
      <4>1. Taken' = Append(Taken, item)
        BY <1>1, <2>3, <3>1, <3>3 DEF Taken
      <4>2. Accepted' =
              IF p.audio = 0 THEN Accepted ELSE Append(Accepted, p.audio)
        BY <2>3, <3>1, <4>1, FramesOfAppend DEF Accepted
      <4>3. QED
        BY <4>2 DEF Sink!WithOrWithout
    <3>4. QED
      BY <2>2, <3>2, <3>3
  <2>5. obeyed' \in Sink!WithOrWithout(obeyed, p.cmd)
    BY DEF Commanded, Sink!WithOrWithout
  <2>6. QED
    BY <2>1, <2>4, <2>5 DEF Sink!Take
<1>4. QED
  BY <1>2, <1>3

\* The decoder's task moves packets on, and neither drops nor reorders them.
LEMMA FetchIsStutter ==
    RxInv /\ Fetch /\ UNCHANGED <<played, obeyed>> => UNCHANGED <<rxSeqn, Accepted, obeyed>>
<1> SUFFICES ASSUME RxInv, Fetch, UNCHANGED <<played, obeyed>>
             PROVE  UNCHANGED <<rxSeqn, Accepted, obeyed>>
  OBVIOUS
<1>1. played \in Seq(Items) /\ list \in Seq(Items) /\ Len(list) >= 1
  BY CapAssumption DEF RxInv, RInv, BufferTyped, Fetch, Wanted
<1>2. held = <<>> /\ held' = <<Head(list)>> /\ list' = Tail(list) /\ played' = played
  BY DEF Fetch
<1>3. <<Head(list)>> \o Tail(list) = list
  BY <1>1
<1>4. Taken = played \o list
  BY <1>1, <1>2 DEF Taken
<1>5. Taken' = played \o (<<Head(list)>> \o Tail(list))
  <2>1. Head(list) \in Items /\ Tail(list) \in Seq(Items)
    BY <1>1
  <2>2. <<Head(list)>> \in Seq(Items)
    BY <2>1
  <2>3. Taken' = (played \o <<Head(list)>>) \o Tail(list)
    BY <1>2 DEF Taken
  <2>4. QED
    BY <1>1, <2>1, <2>2, <2>3
<1>6. Taken' = Taken
  BY <1>3, <1>4, <1>5
<1>7. QED
  BY <1>6 DEF Accepted, Fetch

LEMMA FreeIsStutter == RxInv /\ RxFreePacket => UNCHANGED <<rxSeqn, Accepted, obeyed>>
<1> SUFFICES ASSUME RxInv, RxFreePacket PROVE UNCHANGED <<rxSeqn, Accepted, obeyed>>
  OBVIOUS
<1>1. played \in Seq(Items) /\ held \in Seq(Items) /\ list \in Seq(Items)
  BY DEF RxInv, RInv, BufferTyped
<1>2. played' = played \o held /\ held' = <<>> /\ UNCHANGED <<rxSeqn, list, obeyed>>
  BY DEF RxFreePacket, FreePacket, rxVars
<1>3. Taken' = Taken
  BY <1>1, <1>2 DEF Taken
<1>4. QED
  BY <1>2, <1>3 DEF Accepted

\* Freeing the receive buffer throws away what is still in it.
LEMMA CloseIsDiscard ==
    RxInv /\ CloseRx /\ UNCHANGED <<played, obeyed>> => Sink!Discard
<1> SUFFICES ASSUME RxInv, CloseRx, UNCHANGED <<played, obeyed>> PROVE Sink!Discard
  OBVIOUS
<1>1. played \in Seq(Items) /\ held \in Seq(Items) /\ list \in Seq(Items)
  BY DEF RxInv, RInv, BufferTyped
<1>2. UNCHANGED <<rxSeqn, held, played, obeyed>> /\ list' = <<>>
  BY DEF CloseRx, taskVars
<1> DEFINE s == played \o held
<1>3. s \in Seq(Items) /\ Taken = s \o list /\ Taken' = s
  BY <1>1, <1>2 DEF Taken
<1> HIDE DEF s
<1>4. /\ Taken \in Seq(Items) /\ Len(s) <= Len(Taken)
      /\ \A i \in 1..Len(s) : s[i] = Taken[i]
  BY <1>1, <1>3
<1>5. \E m \in 0..Len(FramesOf(Taken)) : FramesOf(s) = SubSeq(FramesOf(Taken), 1, m)
  BY <1>3, <1>4, FramesOfFewer
<1>6. \E m \in 0..Len(Accepted) : Accepted' = SubSeq(Accepted, 1, m)
  BY <1>3, <1>5 DEF Accepted
<1>7. QED
  BY <1>2, <1>6 DEF Sink!Discard

LEMMA RxStepIsSink ==
    RxInv /\ [RxNext]_rxHistVars => [Sink!SinkNext]_(<<rxSeqn, Accepted, obeyed>>)
<1> SUFFICES ASSUME RxInv, [RxNext]_rxHistVars
             PROVE  Sink!SinkNext \/ UNCHANGED <<rxSeqn, Accepted, obeyed>>
  OBVIOUS
<1>1. CASE RxOpen
  BY <1>1, OpenIsReopen DEF Sink!SinkNext
<1>2. CASE RxWrite
  BY <1>2, WriteIsTake DEF Sink!SinkNext
<1>3. CASE RxFreePacket
  BY <1>3, FreeIsStutter
<1>4. CASE RxOther
  <2>1. CASE CloseRx
    BY <1>4, <2>1, CloseIsDiscard DEF Sink!SinkNext, RxOther
  <2>2. CASE Fetch
    BY <1>4, <2>2, FetchIsStutter DEF RxOther
  <2>3. ASSUME ~ CloseRx, ~ Fetch
        PROVE  UNCHANGED <<rxSeqn, list, held, played, obeyed>>
    BY <1>4, <2>3 DEF RxOther, Publish, Register, CloseDec, FreeDec, FreeJla, Grant,
       Preempt, ResClose, FetchEmpty, Output, OutputFull, Drained, MixerSuspend,
       rxVars, taskVars
  <2>4. QED
    BY <2>1, <2>2, <2>3 DEF Accepted, Taken
<1>5. CASE UNCHANGED rxHistVars
  BY <1>5 DEF rxHistVars, recVars, rxVars, taskVars, Accepted, Taken
<1>6. QED
  BY <1>1, <1>2, <1>3, <1>4, <1>5 DEF RxNext

\* The receive list, the decoder's task, a full buffer, the loss of the output and
\* its return lose frames, but never play one twice or out of order, and a packet
\* with the number of the one before is dropped, command and all: the receiving
\* end implements the abstract sink.
THEOREM ImplementsSink == RxSpec => RxImplementsSink
<1>1. RxInit => Sink!SinkInit
  <2> SUFFICES ASSUME RxInit PROVE Sink!SinkInit
    OBVIOUS
  <2>1. played = <<>> /\ held = <<>> /\ list = <<>> /\ rxSeqn = 0 /\ obeyed = <<>>
    BY DEF RxInit, RecInit
  <2>2. Taken = <<>>
    BY <2>1 DEF Taken
  <2>3. QED
    BY <2>1, <2>2, NoFrames DEF Accepted, Sink!SinkInit
<1>2. RxInv /\ [RxNext]_rxHistVars => [Sink!SinkNext]_(Sink!sinkVars)
  BY RxStepIsSink DEF Sink!sinkVars
<1>3. QED
  BY RxInitKeeps, RxNextKeeps, <1>1, <1>2, PTL DEF RxSpec, RxImplementsSink, Sink!SinkSpec
===============================================================================
