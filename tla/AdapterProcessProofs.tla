------------------------- MODULE AdapterProcessProofs -------------------------
(***************************************************************************)
(* What adapter_process.c guarantees for every queue length, every set of  *)
(* media modes and selections, every media list and both builds of         *)
(* ALWAYS_RUN_STREAM.                                                      *)
(*                                                                         *)
(* None of the properties is inductive alone: a start is right only        *)
(* because media_lock is always found released, and a close still in the   *)
(* queue is what excuses silence or a wrong selection.  IInv is their      *)
(* conjunction with that fact, and it is inductive.                        *)
(***************************************************************************)
EXTENDS AdapterProcess, QueueFacts

\* No handler leaves media_lock taken.
LockFree == mediaLock = 0

\* The inductive invariant.
IInv ==
    /\ TypeOK
    /\ LockFree
    /\ MediaNeedsBoth
    /\ OpenHasMode
    /\ SilenceExplained
    /\ SelectionHonoured

CloseEvents == {"IDEV_MEDIA_CLOSE", "ODEV_MEDIA_CLOSE"}

-------------------------------------------------------------------------------
(* Lemmas about the events and their queue.                                  *)

\* An event that opens the input device carries a media mode, which its handler
\* in adapter_process.c stores.
LEMMA EventHasMode ==
    ASSUME NEW e \in Event, e.ev = "IDEV_MEDIA_OPEN"
    PROVE  e.val \in Modes
BY ModesAssumption DEF Event, AdapterEvent, UacEvent, SetVolEvent, Ev, OpenIdevEv

\* The events this module posts are events.
LEMMA EvTyped ==
    /\ \A n \in AdapterEvents \cup UacEvents : Ev(n) \in Event
    /\ \A m \in Modes : OpenIdevEv(m) \in Event
BY DEF Event, AdapterEvent, UacEvent

\* Posting keeps the queue typed, and a close that waits keeps waiting.
LEMMA PostKeeps ==
    ASSUME evq \in Seq(Event), NEW es \in Seq(Event), Post(es)
    PROVE  /\ evq' \in Seq(Event)
           /\ CloseWaiting => CloseWaiting'
<1>1. evq' = evq \o es
  BY DEF Post
<1>2. /\ evq' \in Seq(Event)
      /\ Len(evq') = Len(evq) + Len(es)
      /\ \A i \in 1..Len(evq) : evq'[i] = evq[i]
  BY <1>1, ConcatProperties
<1>3. ASSUME CloseWaiting PROVE CloseWaiting'
  <2>1. PICK i \in DOMAIN evq : evq[i].ev \in CloseEvents
    BY <1>3 DEF CloseWaiting, CloseEvents
  <2>2. i \in 1..Len(evq) /\ i \in DOMAIN evq'
    BY <1>2, LenProperties
  <2>3. evq'[i].ev \in CloseEvents
    BY <1>2, <2>1, <2>2
  <2>4. QED
    BY <2>2, <2>3 DEF CloseWaiting, CloseEvents
<1>4. QED
  BY <1>2, <1>3

\* An event that is posted is in the queue: a posted close waits.
LEMMA PostedWaits ==
    ASSUME evq \in Seq(Event), NEW es \in Seq(Event), Post(es),
           NEW k \in 1..Len(es), es[k].ev \in CloseEvents
    PROVE  CloseWaiting'
<1>1. /\ evq' = evq \o es
      /\ Len(evq) \in Nat /\ Len(es) \in Nat
  BY LenProperties DEF Post
<1>2. /\ Len(evq') = Len(evq) + Len(es)
      /\ evq' \in Seq(Event)
      /\ evq'[Len(evq) + k] = es[k]
  BY <1>1, ConcatProperties
<1>3. Len(evq) + k \in DOMAIN evq'
  BY <1>1, <1>2, LenProperties
<1>4. QED
  BY <1>2, <1>3 DEF CloseWaiting, CloseEvents

\* Taking an event keeps the queue typed, and keeps a close that waits unless
\* the event taken is one.
LEMMA TakeKeeps ==
    ASSUME evq \in Seq(Event), evq # <<>>, TakeAndPost(<<>>)
    PROVE  /\ Head(evq) \in Event
           /\ evq' \in Seq(Event)
           /\ CloseWaiting /\ Head(evq).ev \notin CloseEvents => CloseWaiting'
<1>1. /\ Head(evq) \in Event /\ Head(evq) = evq[1]
      /\ Tail(evq) \in Seq(Event)
      /\ Len(Tail(evq)) = Len(evq) - 1
      /\ \A i \in 1..Len(Tail(evq)) : Tail(evq)[i] = evq[i + 1]
  BY HeadTailProperties
<1>2. evq' = Tail(evq)
  BY <1>1, ConcatEmptySeq DEF TakeAndPost
<1>3. ASSUME CloseWaiting, Head(evq).ev \notin CloseEvents
      PROVE  CloseWaiting'
  <2>1. PICK i \in DOMAIN evq : evq[i].ev \in CloseEvents
    BY <1>3 DEF CloseWaiting, CloseEvents
  <2>2. i \in 1..Len(evq) /\ i # 1 /\ Len(evq) \in Nat
    BY <1>1, <1>3, <2>1, LenProperties
  <2>3. i - 1 \in 1..Len(Tail(evq)) /\ (i - 1) + 1 = i
    BY <1>1, <2>2
  <2>4. evq'[i - 1].ev \in CloseEvents
    BY <1>1, <1>2, <2>1, <2>3
  <2>5. i - 1 \in DOMAIN evq'
    BY <1>1, <1>2, <2>3, LenProperties
  <2>6. QED
    BY <2>4, <2>5 DEF CloseWaiting, CloseEvents
<1>4. QED
  BY <1>1, <1>2, <1>3

-------------------------------------------------------------------------------
(* Every handler keeps the invariant.  What a handler needs of the queue is   *)
(* only that a close still waits in it afterwards if one did before, unless   *)
(* the event handled is a close.                                              *)

\* The part of IInv that does not speak of the queue's events.
StateInv ==
    /\ mode \in Modes \cup {NoMode}
    /\ devStatus \in SUBSET Both
    /\ media \in (0..(ListNum - 1)) \cup {NoMedia}
    /\ mediaSel \in Sels
    /\ running \in BOOLEAN
    /\ cut \in BOOLEAN
    /\ LockFree
    /\ MediaNeedsBoth
    /\ OpenHasMode

\* A queue of events and the two parts of the invariant are the invariant.
LEMMA IInvParts ==
    IInv <=> /\ evq \in Seq(Event)
             /\ StateInv
             /\ SilenceExplained
             /\ SelectionHonoured
BY DEF IInv, TypeOK, StateInv, LockFree

\* NoMedia is not in the list and NoMode not among the modes.
LEMMA Sentinels ==
    /\ NoMedia \notin 0..(ListNum - 1)
    /\ NoMode \notin Modes
    /\ \A s \in Sels : s \in Nat /\ (s < ListNum => s \in 0..(ListNum - 1))
BY ListNumAssumption, ModesAssumption, SelsAssumption DEF NoMedia, NoMode

\* adapter_process_media_start_callback runs when the second device opens:
\* then the selected media plays, or none is configured under the selection.
LEMMA DeviceOpenedKeeps ==
    ASSUME IInv, NEW d \in Both, DeviceOpened(d), mode' \in Modes \cup {NoMode},
           d = "IDEV" \/ mode' = mode,
           d = "IDEV" => mode' # NoMode,
           UNCHANGED <<mediaSel, running>>,
           devStatus # Both,
           CloseWaiting => CloseWaiting'
    PROVE  StateInv' /\ SilenceExplained' /\ SelectionHonoured'
<1> USE DEF LockFree, StateInv
<1>1. StateInv /\ SilenceExplained /\ SelectionHonoured /\ media = NoMedia
  BY IInvParts DEF MediaNeedsBoth
<1>2. CASE devStatus' = Both
  <2>1. MediaStart /\ cut' = FALSE /\ mediaLock' = 0
    BY <1>1, <1>2 DEF DeviceOpened
  <2>2. media' \in (0..(ListNum - 1)) \cup {NoMedia}
    BY <1>1, <2>1, Sentinels DEF MediaStart
  <2>3. StateInv'
    BY <1>1, <1>2, <2>1, <2>2 DEF MediaNeedsBoth, OpenHasMode, DeviceOpened, Both
  <2>4. SilenceExplained'
    <3>1. mediaSel' = mediaSel /\ mediaSel \in Nat /\ ListNum \in Nat
      BY <1>1, Sentinels, ListNumAssumption
    <3>2. media' = NoMedia => mediaSel >= ListNum
      BY <2>1, <3>1 DEF MediaStart, NoMedia
    <3>3. QED
      BY <3>1, <3>2 DEF SilenceExplained
  <2>5. SelectionHonoured'
    BY <1>1, <2>1 DEF MediaStart, SelectionHonoured
  <2>6. QED
    BY <2>3, <2>4, <2>5
<1>3. CASE devStatus' # Both
  <2>1. media' = NoMedia /\ cut' = cut /\ mediaLock' = 0
    BY <1>1, <1>3 DEF DeviceOpened
  <2>2. devStatus' \in SUBSET Both /\ ("IDEV" \in devStatus' => mode' # NoMode \/ AlwaysRun)
    BY <1>1 DEF DeviceOpened, OpenHasMode, Both
  <2>3. QED
    BY <1>1, <1>3, <2>1, <2>2
       DEF MediaNeedsBoth, OpenHasMode, SilenceExplained, SelectionHonoured
<1>4. QED
  BY <1>2, <1>3

\* A handler that changes nothing of the process keeps the invariant.
LEMMA NothingKeeps ==
    ASSUME IInv, UNCHANGED <<proVars, mediaSel, running>>,
           CloseWaiting => CloseWaiting'
    PROVE  StateInv' /\ SilenceExplained' /\ SelectionHonoured'
BY IInvParts DEF StateInv, LockFree, MediaNeedsBoth, OpenHasMode, proVars,
                 SilenceExplained, SelectionHonoured

\* A device that closes leaves the decoders closed, and nothing to explain.
LEMMA DeviceClosedKeeps ==
    ASSUME IInv, ~AlwaysRun, UNCHANGED <<mediaSel, running, cut>>,
           MediaStop, mediaLock' = 0,
           mode' \in Modes \cup {NoMode},
           devStatus' \subseteq Both, devStatus' # Both,
           "IDEV" \in devStatus' => mode' # NoMode
    PROVE  StateInv' /\ SilenceExplained' /\ SelectionHonoured'
BY IInvParts DEF StateInv, LockFree, MediaNeedsBoth, OpenHasMode, MediaStop,
                 SilenceExplained, SelectionHonoured

\* A decoder error is remembered in cut, and POWEROFF ends the loop: both are
\* explanations of the silence they cause.
LEMMA StoppedKeeps ==
    ASSUME IInv, UNCHANGED <<mediaSel, mode, devStatus, mediaLock>>, MediaStop,
           cut' \in BOOLEAN, running' \in BOOLEAN, cut' \/ ~running'
    PROVE  StateInv' /\ SilenceExplained' /\ SelectionHonoured'
BY IInvParts DEF StateInv, LockFree, MediaNeedsBoth, OpenHasMode, MediaStop,
                 SilenceExplained, SelectionHonoured

\* Every event, taken from the queue and handled, keeps the invariant.
LEMMA DispatchKeeps ==
    ASSUME IInv, Dispatch
    PROVE  IInv'
<1> DEFINE e == Head(evq)
<1> SUFFICES StateInv' /\ SilenceExplained' /\ SelectionHonoured'
             /\ evq' \in Seq(Event)
  BY IInvParts DEF IInv, TypeOK, StateInv, LockFree
<1>1. /\ e \in Event
      /\ evq' \in Seq(Event)
      /\ CloseWaiting /\ e.ev \notin CloseEvents => CloseWaiting'
  BY TakeKeeps, IInvParts DEF Dispatch, Taking
<1>2. mediaSel' = mediaSel /\ StateInv
  BY IInvParts DEF Dispatch
<1>3. CASE e.ev = "IDEV_MEDIA_OPEN" /\ IdevMediaOpen(e.val) /\ UNCHANGED running
  <2>1. CloseWaiting => CloseWaiting'
    BY <1>1, <1>3 DEF CloseEvents
  <2>2. CASE devStatus = Both
    BY <1>1, <1>2, <1>3, <2>1, <2>2, NothingKeeps DEF IdevMediaOpen
  <2>3. CASE devStatus # Both
    <3>1. mode' = e.val /\ DeviceOpened("IDEV")
      BY <1>3, <2>3 DEF IdevMediaOpen
    <3>2. mode' \in Modes /\ mode' # NoMode
      BY <1>1, <1>3, <3>1, EventHasMode, Sentinels
    <3>3. QED
      BY <1>1, <1>2, <1>3, <2>1, <2>3, <3>1, <3>2, DeviceOpenedKeeps DEF Both
  <2>4. QED
    BY <2>2, <2>3
<1>4. CASE e.ev = "ODEV_MEDIA_OPEN" /\ OdevMediaOpen /\ UNCHANGED running
  <2>1. CloseWaiting => CloseWaiting'
    BY <1>1, <1>4 DEF CloseEvents
  <2>2. CASE devStatus = Both
    BY <1>1, <1>2, <1>4, <2>1, <2>2, NothingKeeps DEF OdevMediaOpen
  <2>3. CASE devStatus # Both
    <3>1. mode' = mode /\ DeviceOpened("ODEV") /\ mode \in Modes \cup {NoMode}
      BY <1>2, <1>4, <2>3 DEF OdevMediaOpen, StateInv
    <3>2. QED
      BY <1>1, <1>2, <1>4, <2>1, <2>3, <3>1, DeviceOpenedKeeps DEF Both
  <2>4. QED
    BY <2>2, <2>3
<1>5. CASE AlwaysRun /\ e.ev \in CloseEvents /\ UNCHANGED <<proVars, running>>
  BY <1>1, <1>2, <1>5
     DEF StateInv, LockFree, MediaNeedsBoth, OpenHasMode, proVars,
         SilenceExplained, SelectionHonoured
<1>6. CASE e.ev = "IDEV_MEDIA_CLOSE" /\ IdevMediaClose /\ UNCHANGED running
  <2>1. CASE AlwaysRun
    BY <1>5, <1>6, <2>1 DEF IdevMediaClose, CloseEvents
  <2>2. CASE ~AlwaysRun
    <3>1. /\ devStatus' \subseteq Both /\ devStatus' # Both
          /\ "IDEV" \notin devStatus'
          /\ mode' \in Modes \cup {NoMode}
          /\ mediaLock' = 0 /\ MediaStop /\ UNCHANGED cut
      BY <1>2, <1>6, <2>2 DEF IdevMediaClose, StateInv, LockFree, Both
    <3>2. QED
      BY <1>1, <1>2, <1>6, <2>2, <3>1, DeviceClosedKeeps
  <2>3. QED
    BY <2>1, <2>2
<1>7. CASE e.ev = "ODEV_MEDIA_CLOSE" /\ OdevMediaClose /\ UNCHANGED running
  <2>1. CASE AlwaysRun
    BY <1>5, <1>7, <2>1 DEF OdevMediaClose, CloseEvents
  <2>2. CASE ~AlwaysRun
    <3>1. /\ devStatus' \subseteq Both /\ devStatus' # Both
          /\ "IDEV" \in devStatus' => mode' # NoMode
          /\ mode' \in Modes \cup {NoMode}
          /\ mediaLock' = 0 /\ MediaStop /\ UNCHANGED cut
      BY <1>2, <1>7, <2>2 DEF OdevMediaClose, StateInv, OpenHasMode, Both
    <3>2. QED
      BY <1>1, <1>2, <1>7, <2>2, <3>1, DeviceClosedKeeps
  <2>3. QED
    BY <2>1, <2>2
<1>8. CASE e.ev \in {"MEDIA_DECODE_ERR", "MEDIA_CLOSE"} /\ MediaError
           /\ UNCHANGED running
  BY <1>1, <1>2, <1>8, StoppedKeeps DEF MediaError, StateInv
<1>9. CASE e.ev = "POWEROFF" /\ Close
  BY <1>1, <1>2, <1>9, StoppedKeeps DEF Close, StateInv
<1>10. CASE e.ev \in PassedOn /\ UNCHANGED <<proVars, running>>
  <2>1. e.ev \notin CloseEvents
    BY <1>10 DEF PassedOn, UacEvents, CloseEvents
  <2>2. QED
    BY <1>1, <1>2, <1>10, <2>1, NothingKeeps
<1>11. QED
  BY <1>3, <1>4, <1>6, <1>7, <1>8, <1>9, <1>10 DEF Dispatch, Handle

-------------------------------------------------------------------------------
(* The theorems about the process.                                           *)

\* Posting, by a device, a decoder or the selection, keeps the invariant; a
\* change of the selection does because it posts its own closes.
LEMMA NotifyKeeps ==
    ASSUME IInv, NEW e \in AdapterEvent, Notify(e) \/ DecodeError
    PROVE  IInv'
<1>1. /\ UNCHANGED <<proVars, mediaSel, running>>
      /\ \E es \in Seq(Event) : Post(es)
  <2>1. <<e>> \in Seq(Event) /\ <<Ev("MEDIA_DECODE_ERR")>> \in Seq(Event)
    <3>1. e \in Event /\ Ev("MEDIA_DECODE_ERR") \in Event
      BY EvTyped DEF Event, AdapterEvents
    <3>2. QED
      BY <3>1
  <2>2. CASE Notify(e)
    <3>1. Post(<<e>>) /\ UNCHANGED <<proVars, mediaSel, running>>
      BY <2>2 DEF Notify
    <3>2. QED
      BY <2>1, <3>1
  <2>3. CASE DecodeError
    <3>1. /\ Post(<<Ev("MEDIA_DECODE_ERR")>>)
          /\ UNCHANGED <<proVars, mediaSel, running>>
      BY <2>3 DEF DecodeError
    <3>2. QED
      BY <2>1, <3>1
  <2>4. QED
    BY <2>2, <2>3
<1>2. evq' \in Seq(Event) /\ (CloseWaiting => CloseWaiting')
  BY <1>1, PostKeeps, IInvParts
<1>3. StateInv' /\ SilenceExplained' /\ SelectionHonoured'
  BY <1>1, <1>2, NothingKeeps
<1>4. QED
  BY <1>2, <1>3 DEF IInv, TypeOK, StateInv, LockFree

LEMMA SelectKeeps ==
    ASSUME IInv, NEW s \in Sels, SelectMedia(s)
    PROVE  IInv'
<1> DEFINE es == <<Ev("ODEV_MEDIA_CLOSE"), Ev("ODEV_MEDIA_OPEN"),
                   Ev("IDEV_MEDIA_CLOSE"), OpenIdevEv(0)>>
<1>1. es \in Seq(Event) /\ Post(es) /\ Len(es) = 4
  BY EvTyped, ModesAssumption DEF SelectMedia, AdapterEvents
<1>2. es[1].ev \in CloseEvents
  BY DEF Ev, CloseEvents
<1>3. evq' \in Seq(Event) /\ CloseWaiting'
  <2>. HIDE DEF es
  <2>1. QED
    BY <1>1, <1>2, PostKeeps, PostedWaits, IInvParts
<1>4. StateInv' /\ SilenceExplained' /\ SelectionHonoured'
  BY <1>3, IInvParts
     DEF SelectMedia, StateInv, LockFree, MediaNeedsBoth, OpenHasMode, proVars,
         SilenceExplained, SelectionHonoured
<1>5. QED
  BY <1>3, <1>4 DEF IInv, TypeOK, StateInv, LockFree

\* IInv is an invariant of the process.
THEOREM Inductive == Spec => []IInv
<1>1. Init => IInv
  BY EmptySeq, ModesAssumption, SelsAssumption
     DEF Init, ProInit, IInv, TypeOK, LockFree, MediaNeedsBoth, OpenHasMode,
         SilenceExplained, SelectionHonoured, Both
<1>2. IInv /\ [Next]_vars => IInv'
  <2> SUFFICES ASSUME IInv, [Next]_vars PROVE IInv'
    OBVIOUS
  <2>1. CASE Dispatch
    BY <2>1, DispatchKeeps
  <2>2. CASE \E e \in AdapterEvent : Notify(e)
    BY <2>2, NotifyKeeps
  <2>3. CASE DecodeError
    <3>1. Ev("CONNECT") \in AdapterEvent
      BY DEF AdapterEvent, AdapterEvents
    <3>2. QED
      BY <2>3, <3>1, NotifyKeeps
  <2>4. CASE \E s \in Sels : SelectMedia(s)
    BY <2>4, SelectKeeps
  <2>5. CASE UNCHANGED vars
    BY <2>5 DEF vars, IInv, TypeOK, LockFree, MediaNeedsBoth, OpenHasMode,
                SilenceExplained, SelectionHonoured, CloseWaiting
  <2>6. QED
    BY <2>1, <2>2, <2>3, <2>4, <2>5 DEF Next
<1>3. QED
  BY <1>1, <1>2, PTL DEF Spec

\* Every variable of the process keeps its type.
THEOREM TypeCorrect == Spec => []TypeOK
BY Inductive, PTL DEF IInv

\* The decoders never run with a device closed.
THEOREM MediaOnlyWithBoth == Spec => []MediaNeedsBoth
BY Inductive, PTL DEF IInv

\* An open input device has asked for a mode, so the start callback's test of
\* pro->mode never leaves the media stopped and the lock taken.
THEOREM OpenDeviceHasMode == Spec => []OpenHasMode
BY Inductive, PTL DEF IInv

\* Silence between two open devices always has a cause.
THEOREM SilenceHasCause == Spec => []SilenceExplained
BY Inductive, PTL DEF IInv

\* The media heard is the one selected, or a close is on its way to it.
THEOREM SelectionIsHonoured == Spec => []SelectionHonoured
BY Inductive, PTL DEF IInv

-------------------------------------------------------------------------------
(* The process implements a media session.                                   *)

\* Of a step that is not Dispatch the session sees nothing.
LEMMA OthersStutter ==
    ASSUME \/ \E e \in AdapterEvent : Notify(e)
           \/ DecodeError
           \/ \E s \in Sels : SelectMedia(s)
           \/ UNCHANGED vars
    PROVE  UNCHANGED <<devStatus, media>>
BY DEF Notify, DecodeError, SelectMedia, proVars, vars

\* What a device that opens does to the session.
LEMMA OpenStep ==
    ASSUME IInv, NEW d \in Both, DeviceOpened(d), devStatus # Both,
           mediaSel \in Sels
    PROVE  /\ media = NoMedia
           /\ devStatus \subseteq devStatus'
           /\ devStatus' \subseteq Both
           /\ \/ media' = NoMedia
              \/ devStatus' = Both /\ media' \in 0..(ListNum - 1)
<1>1. media = NoMedia /\ devStatus \subseteq Both
  BY DEF IInv, TypeOK, MediaNeedsBoth
<1>2. devStatus \subseteq devStatus' /\ devStatus' \subseteq Both
  BY <1>1 DEF DeviceOpened, Both
<1>3. media' = NoMedia \/ (devStatus' = Both /\ media' \in 0..(ListNum - 1))
  BY <1>1, Sentinels DEF DeviceOpened, MediaStart
<1>4. QED
  BY <1>1, <1>2, <1>3

\* Every handled event is a step of the session, or nothing: an open that
\* completes the pair, a close, an interruption.
LEMMA DispatchIsSession ==
    ASSUME IInv, Dispatch
    PROVE  \/ /\ media = NoMedia /\ devStatus # Both
              /\ devStatus \subseteq devStatus' /\ devStatus' \subseteq Both
              /\ \/ media' = NoMedia
                 \/ devStatus' = Both /\ media' \in 0..(ListNum - 1)
           \/ /\ devStatus' \subseteq devStatus /\ devStatus' # Both
              /\ media' = NoMedia
           \/ media' = NoMedia /\ UNCHANGED devStatus
           \/ UNCHANGED <<devStatus, media>>
<1> DEFINE e == Head(evq)
<1>1. mediaSel \in Sels /\ devStatus \subseteq Both
  BY DEF IInv, TypeOK
<1>2. CASE IdevMediaOpen(e.val) \/ OdevMediaOpen
  <2>1. CASE devStatus = Both
    BY <1>2, <2>1 DEF IdevMediaOpen, OdevMediaOpen, proVars
  <2>2. CASE devStatus # Both
    <3>1. DeviceOpened("IDEV") \/ DeviceOpened("ODEV")
      BY <1>2, <2>2 DEF IdevMediaOpen, OdevMediaOpen
    <3>2. QED
      BY <1>1, <2>2, <3>1, OpenStep DEF Both
  <2>3. QED
    BY <2>1, <2>2
<1>3. CASE IdevMediaClose \/ OdevMediaClose
  BY <1>1, <1>3 DEF IdevMediaClose, OdevMediaClose, MediaStop, Both, proVars
<1>4. CASE MediaError \/ Close
  BY <1>4 DEF MediaError, Close, MediaStop
<1>5. CASE UNCHANGED proVars
  BY <1>5 DEF proVars
<1>6. QED
  BY <1>2, <1>3, <1>4, <1>5 DEF Dispatch, Handle

\* Only a close and a new open restart the media: after a decoder error the
\* adapter stays silent until a device closes.
THEOREM NoRestart == Spec => RestartOnlyThroughClose
<1> DEFINE A == /\ (devStatus = Both /\ media = NoMedia) => media' = NoMedia
                /\ (media # NoMedia /\ media' # NoMedia) => media' = media
<1>1. IInv /\ [Next]_vars => [A]_vars
  <2> SUFFICES ASSUME IInv, [Next]_vars PROVE A
    OBVIOUS
  <2>1. CASE Dispatch
    BY <2>1, DispatchIsSession
  <2>2. CASE ~Dispatch
    BY <2>2, OthersStutter DEF Next
  <2>3. QED
    BY <2>1, <2>2
<1>2. QED
  BY <1>1, Inductive, PTL DEF Spec, RestartOnlyThroughClose

\* A step that handles an event, or leaves the devices' marks and the media alone, is
\* a step of the session or nothing.
LEMMA StepIsSession ==
    ASSUME IInv, Dispatch \/ UNCHANGED <<devStatus, media>>
    PROVE  [Session!Next]_(Session!sessionVars)
<1>1. CASE UNCHANGED <<devStatus, media>>
  BY <1>1 DEF Session!sessionVars
<1>2. CASE /\ media = NoMedia /\ devStatus # Both
           /\ devStatus \subseteq devStatus' /\ devStatus' \subseteq Both
           /\ \/ media' = NoMedia
              \/ devStatus' = Both /\ media' \in 0..(ListNum - 1)
  <2>1. ~("IDEV" \in devStatus /\ "ODEV" \in devStatus)
    BY <1>2 DEF Both
  <2>2. devStatus' = Both => "IDEV" \in devStatus' /\ "ODEV" \in devStatus'
    BY DEF Both
  <2>3. Session!Open
    BY <1>2, <2>1, <2>2 DEF Session!Open
  <2>4. QED
    BY <2>3 DEF Session!Next
<1>3. CASE devStatus' \subseteq devStatus /\ devStatus' # Both /\ media' = NoMedia
  <2>1. ~("IDEV" \in devStatus' /\ "ODEV" \in devStatus')
    BY <1>3 DEF Both, IInv, TypeOK
  <2>2. Session!Shut
    BY <1>3, <2>1 DEF Session!Shut
  <2>3. QED
    BY <2>2 DEF Session!Next
<1>4. CASE media' = NoMedia /\ UNCHANGED devStatus
  BY <1>4 DEF Session!Next, Session!Interrupt
<1>5. QED
  BY <1>1, <1>2, <1>3, <1>4, DispatchIsSession

\* In the beginning nothing is open and nothing plays.
LEMMA InitIsSession == ProInit => Session!Init
BY DEF ProInit, Session!Init

\* The process implements the abstract media session.
THEOREM ImplementsSession == Spec => SessionSpec
<1>1. Init => Session!Init
  BY InitIsSession DEF Init
<1>2. IInv /\ [Next]_vars => [Session!Next]_(Session!sessionVars)
  <2>1. [Next]_vars => Dispatch \/ UNCHANGED <<devStatus, media>>
    BY OthersStutter DEF Next
  <2>2. QED
    BY <2>1, StepIsSession
<1>3. QED
  BY <1>1, <1>2, Inductive, PTL DEF Spec, SessionSpec, Session!Spec

-------------------------------------------------------------------------------
(* Lemmas for the applications: what their devices' events do to the queue.   *)

\* The events of a name.
Named(name) == {e \in Event : e.ev = name}

\* An event belongs to its name and to no other.
LEMMA NamedEv ==
    /\ \A n \in AdapterEvents \cup UacEvents : Ev(n) \in Named(n)
    /\ \A n, k : Ev(n) \in Named(k) => n = k
    /\ \A m \in Modes : OpenIdevEv(m) \in Named("IDEV_MEDIA_OPEN")
    /\ \A m, k : OpenIdevEv(m) \in Named(k) => k = "IDEV_MEDIA_OPEN"
    /\ \A e \in Event : \A k : e \in Named(k) <=> e.ev = k
BY EvTyped DEF Named, Ev, OpenIdevEv

\* Posting events, and taking one and posting more.
LEMMA PostTyped ==
    ASSUME evq \in Seq(Event), NEW es \in Seq(Event), evq' = evq \o es
    PROVE  evq' \in Seq(Event)
BY ConcatProperties

\* Posting adds what the events posted tell.
LEMMA PostTells ==
    ASSUME evq \in Seq(Event), NEW es \in Seq(Event), evq' = evq \o es,
           NEW Yes, NEW No, NEW was, NEW mid, NEW is,
           Tells(evq, Yes, No, was, mid), Tells(es, Yes, No, mid, is)
    PROVE  Tells(evq', Yes, No, was, is)
BY ConcatTells

\* Taking an event, and posting more, leaves a queue of events.
LEMMA TakeTyped ==
    ASSUME evq \in Seq(Event), evq # <<>>, NEW es \in Seq(Event), TakeAndPost(es)
    PROVE  Head(evq) \in Event /\ evq' \in Seq(Event)
<1>1. evq' = Tail(evq) \o es /\ Tail(evq) \in Seq(Event) /\ Head(evq) \in Event
  BY HeadTailProperties DEF TakeAndPost
<1>2. QED
  BY <1>1, ConcatProperties

\* The reader of an event does what it says; the rest is still to tell.
LEMMA TakeTells ==
    ASSUME evq \in Seq(Event), evq # <<>>, NEW es \in Seq(Event), TakeAndPost(es),
           NEW Yes, NEW No, NEW was, NEW mid, NEW next, NEW is,
           Tells(evq, Yes, No, was, next),
           Head(evq) \in Yes => mid,
           Head(evq) \in No => ~mid,
           Head(evq) \notin Yes \cup No => (was <=> mid),
           Tells(es, Yes, No, next, is)
    PROVE  Tells(evq', Yes, No, mid, is)
<1>1. evq' = Tail(evq) \o es /\ Tail(evq) \in Seq(Event)
  BY HeadTailProperties DEF TakeAndPost
<1>2. Tells(Tail(evq), Yes, No, mid, next)
  BY TailTells
<1>3. QED
  BY <1>1, <1>2, ConcatTells

\* Events that say nothing of a fact.
LEMMA SilentTells ==
    ASSUME NEW es, NEW Yes, NEW No, NEW was, NEW is, was <=> is,
           \A i \in DOMAIN es : es[i] \notin Yes \cup No
    PROVE  Tells(es, Yes, No, was, is)
BY DEF Tells, Answered, Pending

\* Posting events of other names.
LEMMA SilentPost ==
    ASSUME evq \in Seq(Event), NEW es \in Seq(Event), evq' = evq \o es,
           NEW y, NEW n, NEW was, NEW is,
           \A i \in DOMAIN es : es[i].ev \notin {y, n},
           Tells(evq, Named(y), Named(n), was, is)
    PROVE  Tells(evq', Named(y), Named(n), was, is)
<1>1. \A i \in DOMAIN es : es[i] \notin Named(y) \cup Named(n)
  BY DEF Named
<1>2. Tells(es, Named(y), Named(n), is, is)
  BY <1>1, SilentTells
<1>3. QED
  BY <1>2, PostTells

\* Taking an event that says nothing of a fact, and posting none that does.
LEMMA SilentTake ==
    ASSUME evq \in Seq(Event), evq # <<>>, NEW es \in Seq(Event), TakeAndPost(es),
           NEW y, NEW n, NEW was, NEW is,
           Head(evq).ev \notin {y, n},
           \A i \in DOMAIN es : es[i].ev \notin {y, n},
           Tells(evq, Named(y), Named(n), was, is)
    PROVE  Tells(evq', Named(y), Named(n), was, is)
<1>1. \A i \in DOMAIN es : es[i] \notin Named(y) \cup Named(n)
  BY DEF Named
<1>2. Tells(es, Named(y), Named(n), is, is)
  BY <1>1, SilentTells
<1>3. Head(evq) \notin Named(y) \cup Named(n)
  BY DEF Named
<1>4. QED
  BY <1>2, <1>3, TakeTells

\* A close that waits keeps waiting when events are posted ...
LEMMA ConcatKeepsClose ==
    ASSUME evq \in Seq(Event), NEW es \in Seq(Event), evq' = evq \o es
    PROVE  evq' \in Seq(Event) /\ (CloseWaiting => CloseWaiting')
<1>1. ASSUME CloseWaiting PROVE CloseWaiting'
  <2>1. PICK i \in DOMAIN evq : evq[i].ev \in CloseEvents
    BY <1>1 DEF CloseWaiting, CloseEvents
  <2>2. i \in DOMAIN evq' /\ evq'[i] = evq[i]
    BY <2>1, ConcatElements
  <2>3. QED
    BY <2>1, <2>2 DEF CloseWaiting, CloseEvents
<1>2. QED
  BY <1>1, PostTyped

\* ... and when an event that is no close is taken.
LEMMA TakeKeepsClose ==
    ASSUME evq \in Seq(Event), evq # <<>>, NEW es \in Seq(Event), TakeAndPost(es),
           Head(evq).ev \notin CloseEvents
    PROVE  evq' \in Seq(Event) /\ (CloseWaiting => CloseWaiting')
<1>1. evq' = Tail(evq) \o es /\ Tail(evq) \in Seq(Event)
  BY HeadTailProperties DEF TakeAndPost
<1>2. ASSUME CloseWaiting PROVE CloseWaiting'
  <2>1. PICK i \in DOMAIN evq : evq[i].ev \in CloseEvents
    BY <1>2 DEF CloseWaiting, CloseEvents
  <2>2. i # 1 /\ i - 1 \in DOMAIN Tail(evq) /\ Tail(evq)[i - 1] = evq[i]
    BY <2>1, TailElements
  <2>3. i - 1 \in DOMAIN evq' /\ evq'[i - 1] = evq[i]
    BY <1>1, <2>2, ConcatElements
  <2>4. QED
    BY <2>1, <2>3 DEF CloseWaiting, CloseEvents
<1>3. QED
  BY <1>2, TakeTyped

\* A step outside the process keeps its guarantees, unless it takes a close.
LEMMA AsideKeeps ==
    ASSUME IInv, UNCHANGED <<proVars, mediaSel, running>>, evq' \in Seq(Event),
           CloseWaiting => CloseWaiting'
    PROVE  IInv'
<1>1. StateInv' /\ SilenceExplained' /\ SelectionHonoured'
  BY NothingKeeps
<1>2. QED
  BY <1>1 DEF IInv, TypeOK, StateInv, LockFree

\* What the process makes of an event: a device's bit follows its own events.
LEMMA DispatchMarks ==
    ASSUME AlwaysRun = FALSE, devStatus \in SUBSET Both, Dispatch
    PROVE  /\ Head(evq).ev = "IDEV_MEDIA_OPEN" => "IDEV" \in devStatus'
           /\ Head(evq).ev = "IDEV_MEDIA_CLOSE" => "IDEV" \notin devStatus'
           /\ Head(evq).ev \notin {"IDEV_MEDIA_OPEN", "IDEV_MEDIA_CLOSE"}
                 => ("IDEV" \in devStatus <=> "IDEV" \in devStatus')
           /\ Head(evq).ev = "ODEV_MEDIA_OPEN" => "ODEV" \in devStatus'
           /\ Head(evq).ev = "ODEV_MEDIA_CLOSE" => "ODEV" \notin devStatus'
           /\ Head(evq).ev \notin {"ODEV_MEDIA_OPEN", "ODEV_MEDIA_CLOSE"}
                 => ("ODEV" \in devStatus <=> "ODEV" \in devStatus')
<1> DEFINE e == Head(evq)
<1>1. \A d \in Both : DeviceOpened(d) => devStatus' = devStatus \cup {d}
  BY DEF DeviceOpened
<1>2. CASE e.ev = "IDEV_MEDIA_OPEN" /\ IdevMediaOpen(e.val)
  BY <1>1, <1>2 DEF IdevMediaOpen, proVars, Both
<1>3. CASE e.ev = "ODEV_MEDIA_OPEN" /\ OdevMediaOpen
  BY <1>1, <1>3 DEF OdevMediaOpen, proVars, Both
<1>4. CASE e.ev = "IDEV_MEDIA_CLOSE" /\ IdevMediaClose
  BY <1>4 DEF IdevMediaClose
<1>5. CASE e.ev = "ODEV_MEDIA_CLOSE" /\ OdevMediaClose
  BY <1>5 DEF OdevMediaClose
<1>6. CASE e.ev \in {"MEDIA_DECODE_ERR", "MEDIA_CLOSE"} /\ MediaError
  BY <1>6 DEF MediaError
<1>7. CASE e.ev = "POWEROFF" /\ Close
  BY <1>7 DEF Close
<1>8. CASE e.ev \in PassedOn /\ UNCHANGED proVars
  BY <1>8 DEF PassedOn, UacEvents, proVars
<1>9. QED
  BY <1>2, <1>3, <1>4, <1>5, <1>6, <1>7, <1>8 DEF Dispatch, Handle
===============================================================================
