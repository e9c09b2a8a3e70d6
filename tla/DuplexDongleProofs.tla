--------------------------- MODULE DuplexDongleProofs --------------------------
(***************************************************************************)
(* What the dongle guarantees for every length of its event queue, any     *)
(* number of moves of its environment, and every set of builds of its two  *)
(* devices.                                                                *)
(*                                                                         *)
(* Three tasks post what happened to app_core's queue, and one of them     *)
(* hears of it through a queue of its own.  So at any moment the copies    *)
(* differ from the world, and what is true then is what the queues still   *)
(* tell: the requests of the USB interrupt correct spk_status and          *)
(* mic_status (StreamsTold); the requests app_core posts to itself correct *)
(* the IDEV bit of dev_status (IdevTold); and the ODEV bit and             *)
(* wireless_conn_status are corrected in two stages (OdevTold, ConnTold):  *)
(* the queue takes them to what the stack said last, and the controller's  *)
(* reports take that to the link.                                          *)
(*                                                                         *)
(* Two tasks say something before it is true.  The callback of the close   *)
(* timer owes a MIC_CLOSE, so meanwhile the queue need not end with what   *)
(* became of the microphone; and ble_disconnect says that the link is gone *)
(* before it ends it, so meanwhile it is the end of the link that is owed. *)
(*                                                                         *)
(* DeviceInv is what the process, the input device and the client each     *)
(* guarantee alone, and StreamsTold what the queue tells of the streams,   *)
(* in every build; WorldInv is what the queues tell of the rest, in the    *)
(* build without ALWAYS_RUN_STREAM, where a close is obeyed.               *)
(***************************************************************************)
EXTENDS DuplexDongle, BleClientProofs, AdapterProcessProofs

\* The microphone the host wants is open, or was opened amid the callback of the
\* close timer.
MicInv ==
    /\ micSw => micStream \/ lost \/ Closing
    /\ Closing /\ micSw => lost
    /\ micNotify /\ micStream => lost

\* app_core will have heard of the streams the host has opened and closed: of the
\* microphone, unless a MIC_CLOSE is still to come, whether it is open and not lost.
StreamsTold ==
    /\ Tells(evq, Named("PLAY_OPEN"), Named("PLAY_CLOSE"), spkStatus, spkStream)
    /\ \E said \in BOOLEAN :
          /\ Tells(evq, Named("MIC_OPEN"), Named("MIC_CLOSE"), micStatus, said)
          /\ Closing \/ (said <=> micStream /\ ~lost)

\* ... and, of its own requests, that one of them is open.
IdevTold == Tells(evq, Named("IDEV_MEDIA_OPEN"), Named("IDEV_MEDIA_CLOSE"),
                  "IDEV" \in devStatus, spkStatus \/ micStatus)

\* What has been said last of the link: the reports take it to the link, or it is
\* that the link is gone and ble_disconnect has yet to end it.  Of a link that can
\* carry sound ...
OdevReports(said) == Tells(hci, {"UPDATE"}, {"DISCONNECTED"}, said, link /\ updated)
OdevSaid(said) ==
    OdevReports(said) \/ (~said /\ appPc \in {"sayDisconn", "discOp"})

\* ... and of one there is.
ConnReports(said) == Tells(hci, {"CONN_OK"}, {"DISCONNECTED"}, said, link)
ConnSaid(said) == ConnReports(said) \/ (~said /\ appPc = "discOp")

\* app_core will have heard it.
OdevQueue(was, said) ==
    Tells(evq, Named("ODEV_MEDIA_OPEN"), Named("ODEV_MEDIA_CLOSE"), was, said)
ConnQueue(was, said) == Tells(evq, Named("CONNECT"), Named("DISCONN"), was, said)

OdevTold == \E said \in BOOLEAN : OdevQueue("ODEV" \in devStatus, said) /\ OdevSaid(said)
ConnTold == \E said \in BOOLEAN : ConnQueue(conn, said) /\ ConnSaid(said)

\* The media selected is the only one, and a decoder that has failed is closed.
SoundInv == mediaSel = 0 /\ (media # NoMedia => ~cut)

\* The variables of the USB device one by one.
UsbVarsTyped ==
    /\ sofFill \in SofFills
    /\ spkStream \in BOOLEAN /\ micStream \in BOOLEAN /\ micSw \in BOOLEAN
    /\ micTimer \in BOOLEAN /\ micClosing \in BOOLEAN /\ micNotify \in BOOLEAN
    /\ lost \in BOOLEAN
    /\ spkStatus \in BOOLEAN /\ micStatus \in BOOLEAN /\ playParm \in BOOLEAN

\* Typed is typed, variable by variable.
LEMMA UsbTyped == (UsbTypeOK <=> UsbVarsTyped) /\ (UsbTypeOK' <=> UsbVarsTyped')
BY DEF UsbTypeOK, UsbVarsTyped

\* What holds in every build.
DeviceInv ==
    /\ IInv
    /\ UsbTypeOK /\ MicInv
    /\ BleInv
    /\ usbStarted \in BOOLEAN /\ conn \in BOOLEAN /\ inputs \in 0..InputMax

\* What holds where the media is closed with a device.
WorldInv == IdevTold /\ OdevTold /\ ConnTold /\ SoundInv

-------------------------------------------------------------------------------
(* The link: what the stack says of it, and what reaches app_core.           *)

\* The names of the events adapter_odev_ble.c and odev_ble_wireless.c post.
WirelessNames == {"CONNECT", "DISCONN", "ODEV_MEDIA_OPEN", "ODEV_MEDIA_CLOSE"}

\* The link is gone, once and twice: the two callbacks each report it.
Gone == <<Ev("ODEV_MEDIA_CLOSE"), Ev("DISCONN")>>
GoneTwice == Gone \o Gone

\* What a step of the stack or of its callers posts, and on what occasion.
WirelessSays(es) ==
    \/ es = <<>> /\ \/ OtherStep
                    \/ /\ ReportTaken /\ UNCHANGED appPc
                       /\ Head(hci) \notin {"UPDATE", "CONN_OK", "DISCONNECTED"}
    \/ es = <<Ev("ODEV_MEDIA_CLOSE")>> /\ OtherStep /\ appPc' = "sayDisconn"
    \/ es = <<Ev("DISCONN")>> /\ OtherStep /\ appPc' = "discOp"
    \/ /\ ReportTaken /\ UNCHANGED appPc
       /\ \/ es = <<Ev("CONNECT")>> /\ Head(hci) = "CONN_OK"
          \/ es = <<Ev("ODEV_MEDIA_OPEN")>> /\ Head(hci) = "UPDATE"
          \/ es \in {Gone, GoneTwice} /\ Head(hci) \in {"CONN_FAIL", "DISCONNECTED"}

\* The two are sequences of events of these names alone.
LEMMA GoneTyped ==
    /\ Gone \in Seq(Event) /\ GoneTwice \in Seq(Event)
    /\ \A i \in DOMAIN Gone : Gone[i].ev \in {"ODEV_MEDIA_CLOSE", "DISCONN"}
    /\ \A i \in DOMAIN GoneTwice : GoneTwice[i].ev \in {"ODEV_MEDIA_CLOSE", "DISCONN"}
<1>1. Ev("ODEV_MEDIA_CLOSE") \in Event /\ Ev("DISCONN") \in Event
  BY EvTyped DEF AdapterEvents
<1>2. /\ Gone \in Seq(Event)
      /\ \A i \in DOMAIN Gone : Gone[i].ev \in {"ODEV_MEDIA_CLOSE", "DISCONN"}
  BY <1>1 DEF Gone, Ev
<1>3. GoneTwice \in Seq(Event)
  BY <1>2, ConcatProperties DEF GoneTwice
<1>4. \A i \in DOMAIN GoneTwice :
         \/ i \in DOMAIN Gone /\ GoneTwice[i] = Gone[i]
         \/ i - Len(Gone) \in DOMAIN Gone /\ GoneTwice[i] = Gone[i - Len(Gone)]
  BY <1>2, ConcatElements DEF GoneTwice
<1>5. QED
  BY <1>2, <1>3, <1>4

\* Whatever was true, after it there is no link and no sound.
LEMMA GoneTells ==
    ASSUME NEW was, NEW es \in {Gone, GoneTwice}
    PROVE  /\ Tells(es, Named("ODEV_MEDIA_OPEN"), Named("ODEV_MEDIA_CLOSE"), was, FALSE)
           /\ Tells(es, Named("CONNECT"), Named("DISCONN"), was, FALSE)
<1>1. /\ Gone[1] \in Named("ODEV_MEDIA_CLOSE") /\ Gone[2] \in Named("DISCONN")
      /\ 1 \in DOMAIN Gone /\ 2 \in DOMAIN Gone
      /\ \A i \in DOMAIN Gone : Gone[i] \notin Named("CONNECT") \cup Named("ODEV_MEDIA_OPEN")
  BY NamedEv, GoneTyped DEF Gone, AdapterEvents, Named
<1>2. /\ Tells(Gone, Named("ODEV_MEDIA_OPEN"), Named("ODEV_MEDIA_CLOSE"), was, FALSE)
      /\ Tells(Gone, Named("CONNECT"), Named("DISCONN"), was, FALSE)
      /\ Tells(Gone, Named("ODEV_MEDIA_OPEN"), Named("ODEV_MEDIA_CLOSE"), FALSE, FALSE)
      /\ Tells(Gone, Named("CONNECT"), Named("DISCONN"), FALSE, FALSE)
  BY <1>1 DEF Tells, Answered, Pending
<1>3. /\ Tells(GoneTwice, Named("ODEV_MEDIA_OPEN"), Named("ODEV_MEDIA_CLOSE"), was, FALSE)
      /\ Tells(GoneTwice, Named("CONNECT"), Named("DISCONN"), was, FALSE)
  BY <1>2, GoneTyped, ConcatTells DEF GoneTwice
<1>4. QED
  BY <1>2, <1>3

\* The reports go on telling what they told while none is taken ...
LEMMA OdevReportsOther ==
    ASSUME hci \in Seq(HciEvents), OneLink, NothingTaken, NEW said, OdevReports(said),
           updated \in BOOLEAN
    PROVE  OdevReports(said)'
<1> USE DEF OdevReports
<1>1. ASSUME NEW r \in HciEvents, Reported(r),
             r = "UPDATE" => link' /\ updated',
             r = "DISCONNECTED" => ~link',
             r \notin {"UPDATE", "DISCONNECTED"} => ((link /\ updated) <=> (link' /\ updated'))
      PROVE  OdevReports(said)'
  BY <1>1, AppendTells DEF Reported
<1>2. CASE UNCHANGED <<creating, link, updated, conHandle, hci>>
  BY <1>2
<1>3. CASE Advertised
  BY <1>1, <1>3 DEF Advertised, HciEvents, Reports
<1>4. CASE LinkMade
  BY <1>1, <1>4 DEF LinkMade, HciEvents, OneLink
<1>5. CASE LinkFailed
  BY <1>1, <1>5 DEF LinkFailed, HciEvents
<1>6. CASE LinkUpdated
  BY <1>1, <1>6 DEF LinkUpdated, HciEvents
<1>7. CASE LinkEnded
  BY <1>1, <1>7 DEF LinkEnded, HciEvents
<1>8. QED
  BY <1>2, <1>3, <1>4, <1>5, <1>6, <1>7 DEF NothingTaken

\* ... also of the link itself ...
LEMMA ConnReportsOther ==
    ASSUME hci \in Seq(HciEvents), NothingTaken, NEW said, ConnReports(said)
    PROVE  ConnReports(said)'
<1> USE DEF ConnReports
<1>1. ASSUME NEW r \in HciEvents, Reported(r),
             r = "CONN_OK" => link',
             r = "DISCONNECTED" => ~link',
             r \notin {"CONN_OK", "DISCONNECTED"} => (link <=> link')
      PROVE  ConnReports(said)'
  BY <1>1, AppendTells DEF Reported
<1>2. CASE UNCHANGED <<creating, link, updated, conHandle, hci>>
  BY <1>2
<1>3. CASE Advertised
  BY <1>1, <1>3 DEF Advertised, HciEvents, Reports
<1>4. CASE LinkMade \/ LinkFailed \/ LinkUpdated \/ LinkEnded
  BY <1>1, <1>4 DEF LinkMade, LinkFailed, LinkUpdated, LinkEnded, HciEvents
<1>5. QED
  BY <1>2, <1>3, <1>4 DEF NothingTaken

\* ... and after one is taken, what it said is the last that was said.
LEMMA ReportsTaken ==
    ASSUME hci \in Seq(HciEvents), ReportTaken, NEW said, NEW next
    PROVE  /\ /\ OdevReports(said)
              /\ Head(hci) = "UPDATE" => next
              /\ Head(hci) = "DISCONNECTED" => ~next
              /\ Head(hci) \notin {"UPDATE", "DISCONNECTED"} => (said <=> next)
              => OdevReports(next)'
           /\ /\ ConnReports(said)
              /\ Head(hci) = "CONN_OK" => next
              /\ Head(hci) = "DISCONNECTED" => ~next
              /\ Head(hci) \notin {"CONN_OK", "DISCONNECTED"} => (said <=> next)
              => ConnReports(next)'
<1>1. hci # <<>> /\ hci' = Tail(hci) /\ link' = link /\ updated' = updated
  BY DEF ReportTaken
<1>2. QED
  BY <1>1, TailTells DEF OdevReports, ConnReports

\* Saying that there is no link is right after a failure, which is older than the link
\* there is ...
LEMMA SayFailed ==
    ASSUME hci \in Seq(HciEvents), UpdateFollows, HandleFollows', UpdateFollows',
           ReportTaken, Head(hci) = "CONN_FAIL"
    PROVE  OdevReports(FALSE)' /\ ConnReports(FALSE)'
<1>0. link' = link /\ updated' = updated /\ hci # <<>> /\ hci' = Tail(hci)
  BY DEF ReportTaken
<1>1. link => Pending(hci', {"CONN_OK"})
  BY <1>0, TailAnswered DEF UpdateFollows
<1>2. link /\ updated => Pending(hci', {"UPDATE"})
  BY <1>0, TailAnswered DEF UpdateFollows, LinkEvents
<1>3. /\ OdevReports(FALSE)' <=> Tells(hci', {"UPDATE"}, {"DISCONNECTED"}, FALSE, link /\ updated)
      /\ ConnReports(FALSE)' <=> Tells(hci', {"CONN_OK"}, {"DISCONNECTED"}, FALSE, link)
  BY <1>0 DEF OdevReports, ConnReports
<1>4. /\ link => Answered(hci', {"DISCONNECTED"}, {"CONN_OK"})
      /\ ~link => Answered(hci', {"CONN_OK"}, {"DISCONNECTED"})
  BY <1>0 DEF HandleFollows, Tells
<1>5. /\ link /\ updated => Answered(hci', {"DISCONNECTED"}, {"UPDATE"})
      /\ ~(link /\ updated) => Answered(hci', {"UPDATE"}, {"DISCONNECTED"})
  BY <1>0 DEF UpdateFollows, Answered, LinkEvents
<1>6. QED
  BY <1>1, <1>2, <1>3, <1>4, <1>5 DEF Tells

\* ... and when there is no link, or one the client has not heard of, which is still
\* to be reported: so it is when ble_disconnect has ended the link it said to be gone.
LEMMA SayGone ==
    ASSUME ReportInv', ~(link' /\ conHandle')
    PROVE  OdevReports(FALSE)' /\ ConnReports(FALSE)'
<1>1. /\ Tells(hci', {"CONN_OK"}, {"DISCONNECTED"}, conHandle', link')
      /\ link' /\ updated' => Answered(hci', LinkEvents, {"UPDATE"})
      /\ ~(link' /\ updated') => Answered(hci', {"UPDATE"}, {"DISCONNECTED"})
  BY DEF ReportInv, HandleFollows, UpdateFollows
<1>2. link' => Pending(hci', {"CONN_OK"})
  BY <1>1 DEF Tells
<1>3. link' /\ updated' => Pending(hci', {"UPDATE"}) /\ Answered(hci', {"DISCONNECTED"}, {"UPDATE"})
  BY <1>1, <1>2 DEF Answered, Pending, LinkEvents
<1>4. /\ Tells(hci', {"UPDATE"}, {"DISCONNECTED"}, FALSE, link' /\ updated')
      /\ Tells(hci', {"CONN_OK"}, {"DISCONNECTED"}, FALSE, link')
  BY <1>1, <1>2, <1>3 DEF Tells
<1>5. /\ OdevReports(FALSE)' <=> Tells(hci', {"UPDATE"}, {"DISCONNECTED"}, FALSE, link' /\ updated')
      /\ ConnReports(FALSE)' <=> Tells(hci', {"CONN_OK"}, {"DISCONNECTED"}, FALSE, link')
  BY DEF OdevReports, ConnReports
<1>6. QED
  BY <1>4, <1>5

\* A new link is there, or its end is still to be reported; so is an update.
LEMMA SayMade ==
    ASSUME hci \in Seq(HciEvents), UpdateFollows, HandleFollows', UpdateFollows', ReportTaken
    PROVE  /\ Head(hci) = "CONN_OK" => ConnReports(TRUE)'
           /\ Head(hci) = "UPDATE" => OdevReports(TRUE)'
<1>0. link' = link /\ updated' = updated /\ hci # <<>> /\ hci' = Tail(hci)
  BY DEF ReportTaken
<1>1. Head(hci) = "CONN_OK" => ConnReports(TRUE)'
  BY <1>0 DEF ReportTaken, HandleFollows, ConnReports
<1>2. ASSUME Head(hci) = "UPDATE" PROVE OdevReports(TRUE)'
  <2>1. ~(link /\ updated) => Pending(hci', {"DISCONNECTED"})
    BY <1>0, <1>2, TailAnswered DEF UpdateFollows
  <2>2. /\ link /\ updated => Answered(hci', {"DISCONNECTED"}, {"UPDATE"})
        /\ ~(link /\ updated) => Answered(hci', {"UPDATE"}, {"DISCONNECTED"})
    BY <1>0 DEF UpdateFollows, Answered, LinkEvents
  <2>3. OdevReports(TRUE)' <=> Tells(hci', {"UPDATE"}, {"DISCONNECTED"}, TRUE, link /\ updated)
    BY <1>0 DEF OdevReports
  <2>4. QED
    BY <2>1, <2>2, <2>3 DEF Tells
<1>3. QED
  BY <1>1, <1>2

\* Which statements of ble_disconnect follow which.
LEMMA DisconnectGoesOn ==
    ASSUME OtherStep
    PROVE  /\ appPc = "discOp" => appPc' = "discOp" \/ DiscOp
           /\ appPc = "sayDisconn" => appPc' = "sayDisconn" \/ DiscSay
<1>1. CASE InitClient \/ UserCall
  BY <1>1, CallBegins DEF InitClient
<1>2. CASE CallStep
  BY <1>2, ReturnsTo DEF CallStep, SwitchOn, OffTest, SwitchOff, ScanTest, ScanSet, ScanOp,
     DiscTest, DiscSet, DiscSay, DiscOp, Forget, Store, PairAct, CancelTest, CancelSet,
     CancelOp, Tests, TestsLast, Sets, Step
<1>3. CASE SearchComplete \/ Controller \/ UNCHANGED bleVars
  BY <1>3 DEF SearchComplete, Controller, CtrlReport, CtrlConnect, CtrlFail, CtrlUpdate,
     CtrlLinkLoss, bleVars, callVars
<1>4. QED
  BY <1>1, <1>2, <1>3 DEF OtherStep, CallerStep

\* What was said stays right while no report is taken: the link ble_disconnect has
\* said to be gone is ended by it.
LEMMA SaidKept ==
    ASSUME BleTypeOK, ReportInv, ReportInv', OtherStep, NEW said
    PROVE  /\ OdevSaid(said) => OdevSaid(said)'
           /\ ConnSaid(said) => ConnSaid(said)'
<1> USE BleTyped DEF BleVarsTyped
<1>1. NothingTaken /\ hci \in Seq(HciEvents) /\ OneLink /\ updated \in BOOLEAN
  BY OtherTakesNothing DEF ReportInv
<1>2. OdevReports(said) => OdevReports(said)'
  BY <1>1, OdevReportsOther
<1>3. ConnReports(said) => ConnReports(said)'
  BY <1>1, ConnReportsOther
<1>4. DiscOp => OdevReports(FALSE)' /\ ConnReports(FALSE)'
  <2>1. DiscOp => ~(link' /\ conHandle')
    BY DEF DiscOp, hostVars
  <2>2. QED
    BY <2>1, SayGone
<1>5. ASSUME DiscSay, appPc = "sayDisconn" PROVE appPc' = "discOp"
  BY <1>5 DEF DiscSay, Step
<1>6. /\ ~said => (OdevReports(FALSE)' => OdevReports(said)')
      /\ ~said => (ConnReports(FALSE)' => ConnReports(said)')
  BY DEF OdevReports, ConnReports, Tells
<1>7. QED
  BY <1>2, <1>3, <1>4, <1>5, <1>6, DisconnectGoesOn DEF OdevSaid, ConnSaid

\* A step of the stack, or of its callers, that posts what it says: app_core will
\* hear what was said last, and it is not wrong.
LEMMA WirelessTold ==
    ASSUME evq \in Seq(Event), BleTypeOK, ReportInv, ReportInv', OdevTold, ConnTold,
           NEW es \in Seq(Event), evq' = evq \o es, WirelessSays(es),
           UNCHANGED <<devStatus, conn>>
    PROVE  OdevTold' /\ ConnTold'
<1>0. hci \in Seq(HciEvents) /\ HandleFollows' /\ UpdateFollows' /\ UpdateFollows
  BY BleTyped DEF BleVarsTyped, ReportInv
<1>1. PICK odev \in BOOLEAN : OdevQueue("ODEV" \in devStatus, odev) /\ OdevSaid(odev)
  BY DEF OdevTold
<1>2. PICK up \in BOOLEAN : ConnQueue(conn, up) /\ ConnSaid(up)
  BY DEF ConnTold
<1>3. ASSUME NEW said \in BOOLEAN, OdevSaid(said)',
             Tells(es, Named("ODEV_MEDIA_OPEN"), Named("ODEV_MEDIA_CLOSE"), odev, said)
      PROVE  OdevTold'
  <2>1. OdevQueue("ODEV" \in devStatus, said)'
    BY <1>1, <1>3, PostTells DEF OdevQueue
  <2>2. QED
    BY <1>3, <2>1 DEF OdevTold
<1>4. ASSUME NEW said \in BOOLEAN, ConnSaid(said)',
             Tells(es, Named("CONNECT"), Named("DISCONN"), up, said)
      PROVE  ConnTold'
  <2>1. ConnQueue(conn, said)'
    BY <1>2, <1>4, PostTells DEF ConnQueue
  <2>2. QED
    BY <1>4, <2>1 DEF ConnTold
<1>5. ASSUME OtherStep PROVE OdevSaid(odev)' /\ ConnSaid(up)'
  BY <1>1, <1>2, <1>5, SaidKept
<1>6. ASSUME ReportTaken, UNCHANGED appPc
      PROVE  /\ Head(hci) \notin {"UPDATE", "DISCONNECTED"} => OdevSaid(odev)'
             /\ Head(hci) \notin {"CONN_OK", "DISCONNECTED"} => ConnSaid(up)'
  <2>1. OdevReports(odev) /\ Head(hci) \notin {"UPDATE", "DISCONNECTED"} => OdevReports(odev)'
    BY <1>0, <1>6, ReportsTaken
  <2>2. ConnReports(up) /\ Head(hci) \notin {"CONN_OK", "DISCONNECTED"} => ConnReports(up)'
    BY <1>0, <1>6, ReportsTaken
  <2>3. QED
    BY <1>1, <1>2, <1>6, <2>1, <2>2 DEF OdevSaid, ConnSaid
<1>7. ASSUME NEW n \in WirelessNames, es = <<Ev(n)>>, NEW o \in BOOLEAN, NEW u \in BOOLEAN,
             OdevSaid(o)', ConnSaid(u)',
             o <=> CASE n = "ODEV_MEDIA_OPEN" -> TRUE [] n = "ODEV_MEDIA_CLOSE" -> FALSE
                     [] OTHER -> odev,
             u <=> CASE n = "CONNECT" -> TRUE [] n = "DISCONN" -> FALSE [] OTHER -> up
      PROVE  OdevTold' /\ ConnTold'
  <2>1. \A k : Ev(n) \in Named(k) <=> n = k
    BY <1>7, NamedEv DEF WirelessNames, AdapterEvents
  <2>2. Tells(es, Named("ODEV_MEDIA_OPEN"), Named("ODEV_MEDIA_CLOSE"), odev, o)
    BY <1>7, <2>1, OneTells DEF WirelessNames
  <2>3. Tells(es, Named("CONNECT"), Named("DISCONN"), up, u)
    BY <1>7, <2>1, OneTells DEF WirelessNames
  <2>4. QED
    BY <1>3, <1>4, <1>7, <2>2, <2>3
<1>8. CASE es = <<>> /\ \/ OtherStep
                        \/ /\ ReportTaken /\ UNCHANGED appPc
                           /\ Head(hci) \notin {"UPDATE", "CONN_OK", "DISCONNECTED"}
  <2>1. OdevSaid(odev)' /\ ConnSaid(up)'
    BY <1>5, <1>6, <1>8
  <2>2. /\ Tells(es, Named("ODEV_MEDIA_OPEN"), Named("ODEV_MEDIA_CLOSE"), odev, odev)
        /\ Tells(es, Named("CONNECT"), Named("DISCONN"), up, up)
    BY <1>8, EmptyTells
  <2>3. QED
    BY <1>3, <1>4, <2>1, <2>2
<1>9. CASE es = <<Ev("ODEV_MEDIA_CLOSE")>> /\ OtherStep /\ appPc' = "sayDisconn"
  <2>1. OdevSaid(FALSE)'
    BY <1>9 DEF OdevSaid
  <2>2. QED
    BY <1>5, <1>7, <1>9, <2>1 DEF WirelessNames
<1>10. CASE es = <<Ev("DISCONN")>> /\ OtherStep /\ appPc' = "discOp"
  <2>1. ConnSaid(FALSE)'
    BY <1>10 DEF ConnSaid
  <2>2. QED
    BY <1>5, <1>7, <1>10, <2>1 DEF WirelessNames
<1>11. CASE es = <<Ev("CONNECT")>> /\ ReportTaken /\ UNCHANGED appPc /\ Head(hci) = "CONN_OK"
  <2>1. ConnSaid(TRUE)'
    BY <1>0, <1>11, SayMade DEF ConnSaid
  <2>2. QED
    BY <1>6, <1>7, <1>11, <2>1 DEF WirelessNames
<1>12. CASE /\ es = <<Ev("ODEV_MEDIA_OPEN")>>
            /\ ReportTaken /\ UNCHANGED appPc /\ Head(hci) = "UPDATE"
  <2>1. OdevSaid(TRUE)'
    BY <1>0, <1>12, SayMade DEF OdevSaid
  <2>2. QED
    BY <1>6, <1>7, <1>12, <2>1 DEF WirelessNames
<1>13. CASE /\ ReportTaken /\ UNCHANGED appPc
            /\ es \in {Gone, GoneTwice} /\ Head(hci) \in {"CONN_FAIL", "DISCONNECTED"}
  <2>1. OdevReports(FALSE)' /\ ConnReports(FALSE)'
    <3>1. CASE Head(hci) = "CONN_FAIL"
      BY <1>0, <1>13, <3>1, SayFailed
    <3>2. CASE Head(hci) = "DISCONNECTED"
      <4>1. ~(link' /\ conHandle')
        BY <1>13, <3>2 DEF ReportTaken
      <4>2. QED
        BY <4>1, SayGone
    <3>3. QED
      BY <1>13, <3>1, <3>2
  <2>2. /\ Tells(es, Named("ODEV_MEDIA_OPEN"), Named("ODEV_MEDIA_CLOSE"), odev, FALSE)
        /\ Tells(es, Named("CONNECT"), Named("DISCONN"), up, FALSE)
    BY <1>13, GoneTells
  <2>3. QED
    BY <1>3, <1>4, <2>1, <2>2 DEF OdevSaid, ConnSaid
<1>14. QED
  BY <1>8, <1>9, <1>10, <1>11, <1>12, <1>13 DEF WirelessSays

\* Where the media closes with a device, the status callback reports both.
LEMMA StatusPostsGone ==
    ASSUME AlwaysRun = FALSE, NEW old, NEW new
    PROVE  StatusPosts(old, new) =
              IF new # old /\ new \in {"DISCONN", "SEND_DISCONN"} THEN Gone ELSE <<>>
<1>1. Ev("ODEV_MEDIA_CLOSE") \in Event /\ Ev("DISCONN") \in Event
  BY EvTyped DEF AdapterEvents
<1>2. <<Ev("ODEV_MEDIA_CLOSE")>> \o <<Ev("DISCONN")>> = Gone
  BY <1>1, TwoMessages DEF Gone
<1>3. QED
  BY <1>2 DEF StatusPosts

\* cbk_packet_handler, and the two callbacks it calls.
LEMMA PacketSays ==
    ASSUME AlwaysRun = FALSE, evq \in Seq(Event), PacketHandler
    PROVE  \E es \in Seq(Event) : evq' = evq \o es /\ WirelessSays(es)
<1>0. ReportTaken /\ UNCHANGED appPc
  BY PacketTakesReport DEF PacketHandler, callVars
<1>1. <<Ev("CONNECT")>> \in Seq(Event) /\ <<Ev("ODEV_MEDIA_OPEN")>> \in Seq(Event)
  <2>1. Ev("CONNECT") \in Event /\ Ev("ODEV_MEDIA_OPEN") \in Event
    BY EvTyped DEF AdapterEvents
  <2>2. QED
    BY <2>1
<1>2. evq = evq \o <<>> /\ <<>> \in Seq(Event)
  BY ConcatEmptySeq
<1>3. CASE Head(hci) \in Reports /\ AdvReport(Head(hci))
  BY <1>0, <1>2, <1>3 DEF AdvReport, Reports, WirelessSays
<1>4. CASE Head(hci) = "CONN_OK" /\ Connected
  <2>1. evq' = evq \o <<Ev("CONNECT")>>
    BY <1>4 DEF Connected, EventPosts, Post
  <2>2. QED
    BY <1>0, <1>1, <1>4, <2>1 DEF WirelessSays
<1>5. CASE Head(hci) = "CONN_FAIL" /\ ConnectFailed
  <2>1. StatusPosts(state, "DISCONN") \in {Gone, <<>>}
    BY StatusPostsGone
  <2>2. evq' = evq \o StatusPosts(state, "DISCONN")
    BY <1>5 DEF ConnectFailed, Post
  <2>3. QED
    BY <1>0, <1>2, <1>5, <2>1, <2>2, GoneTyped DEF WirelessSays
<1>6. CASE Head(hci) = "UPDATE" /\ ConnectionUpdated
  <2>1. evq' = evq \o <<Ev("ODEV_MEDIA_OPEN")>>
    BY <1>6 DEF ConnectionUpdated, EventPosts, Post
  <2>2. QED
    BY <1>0, <1>1, <1>6, <2>1 DEF WirelessSays
<1>7. CASE Head(hci) = "DISCONNECTED" /\ Disconnected
  <2>1. StatusPosts(state, "DISCONN") \in {Gone, <<>>}
    BY StatusPostsGone
  <2>2. EventPosts("DISCONNECT") = Gone
    BY DEF EventPosts, Gone
  <2>3. StatusPosts(state, "DISCONN") \o EventPosts("DISCONNECT") \in {Gone, GoneTwice}
    BY <2>1, <2>2, GoneTyped, ConcatEmptySeq DEF GoneTwice
  <2>4. evq' = evq \o (StatusPosts(state, "DISCONN") \o EventPosts("DISCONNECT"))
    BY <1>7 DEF Disconnected, Post
  <2>5. QED
    BY <1>0, <1>7, <2>3, <2>4, GoneTyped DEF WirelessSays
<1>8. QED
  BY <1>3, <1>4, <1>5, <1>6, <1>7 DEF PacketHandler

\* The steps of the client and its callers that post on their own account.
PostingStep == UserCall \/ CallStep \/ Stack \/ Controller

\* Of a call, only ble_disconnect posts.
LEMMA CallSaysNothing ==
    ASSUME CallStep, ~DiscSay
    PROVE  UNCHANGED evq
BY DEF CallStep, SwitchOn, OffTest, SwitchOff, ScanTest, ScanSet, ScanOp, DiscTest, DiscSet,
   DiscOp, Forget, Store, PairAct, CancelTest, CancelSet, CancelOp, Tests, TestsLast, Sets

\* Each of them posts what WirelessSays allows, on the occasion it names.
LEMMA PostingSays ==
    ASSUME AlwaysRun = FALSE, evq \in Seq(Event), PostingStep
    PROVE  \E es \in Seq(Event) : evq' = evq \o es /\ WirelessSays(es)
<1>0. evq = evq \o <<>> /\ <<>> \in Seq(Event)
  BY ConcatEmptySeq
<1>1. ASSUME OtherStep, UNCHANGED evq
      PROVE  \E es \in Seq(Event) : evq' = evq \o es /\ WirelessSays(es)
  BY <1>0, <1>1 DEF WirelessSays
<1>2. CASE UserCall
  BY <1>1, <1>2 DEF UserCall, ModuleOn, ModuleOff, AppDisconnect, Debond, EnterPair, Call,
     OtherStep, CallerStep
<1>3. CASE CallStep /\ ~DiscSay
  BY <1>1, <1>3, CallSaysNothing DEF OtherStep, CallerStep
<1>4. CASE DiscSay
  <2>1. OtherStep
    BY <1>4 DEF OtherStep, CallerStep, CallStep
  <2>2. <<Ev("ODEV_MEDIA_CLOSE")>> \in Seq(Event) /\ <<Ev("DISCONN")>> \in Seq(Event)
    <3>1. Ev("ODEV_MEDIA_CLOSE") \in Event /\ Ev("DISCONN") \in Event
      BY EvTyped DEF AdapterEvents
    <3>2. QED
      BY <3>1
  <2>3. \/ appPc' = "sayDisconn" /\ evq' = evq \o <<Ev("ODEV_MEDIA_CLOSE")>>
        \/ appPc' = "discOp" /\ evq' = evq \o <<Ev("DISCONN")>>
    BY <1>4 DEF DiscSay, Step, Post
  <2>4. QED
    BY <2>1, <2>2, <2>3 DEF WirelessSays
<1>5. CASE PacketHandler
  BY <1>5, PacketSays
<1>6. CASE SearchComplete \/ Controller
  BY <1>1, <1>6 DEF SearchComplete, Controller, CtrlReport, CtrlConnect, CtrlFail,
     CtrlUpdate, CtrlLinkLoss, OtherStep
<1>7. QED
  BY <1>2, <1>3, <1>4, <1>5, <1>6 DEF PostingStep, Stack

-------------------------------------------------------------------------------
(* Every step posts events, and keeps what the devices guarantee alone.      *)

\* Some events, and none that tells of the streams or of the input device.
WirelessOnly(es) == \A i \in DOMAIN es : es[i].ev \in WirelessNames

\* What the two callbacks of the output device post are such events ...
LEMMA StatusPostsTyped ==
    ASSUME NEW old, NEW new
    PROVE  StatusPosts(old, new) \in Seq(Event) /\ WirelessOnly(StatusPosts(old, new))
<1>1. Ev("ODEV_MEDIA_CLOSE") \in Event /\ Ev("DISCONN") \in Event
  BY EvTyped DEF AdapterEvents
<1>2. /\ <<Ev("ODEV_MEDIA_CLOSE")>> \o <<Ev("DISCONN")>> = Gone
      /\ <<>> \o <<Ev("DISCONN")>> = <<Ev("DISCONN")>>
  BY <1>1, TwoMessages, ConcatEmptySeq DEF Gone
<1>3. StatusPosts(old, new) \in {<<>>, Gone, <<Ev("DISCONN")>>}
  BY <1>2 DEF StatusPosts
<1>4. /\ <<>> \in Seq(Event) /\ WirelessOnly(<<>>)
      /\ <<Ev("DISCONN")>> \in Seq(Event) /\ WirelessOnly(<<Ev("DISCONN")>>)
      /\ Gone \in Seq(Event) /\ WirelessOnly(Gone)
  BY <1>1, GoneTyped DEF WirelessOnly, WirelessNames, Ev
<1>5. QED
  BY <1>3, <1>4

\* ... and what wireless_adapter_event_callback posts.
LEMMA EventPostsTyped ==
    \A event \in {"CONNECTED", "CONNECTION_UPDATE", "DISCONNECT"} :
        EventPosts(event) \in Seq(Event) /\ WirelessOnly(EventPosts(event))
<1>1. Ev("ODEV_MEDIA_OPEN") \in Event /\ Ev("CONNECT") \in Event
  BY EvTyped DEF AdapterEvents
<1>2. /\ <<Ev("CONNECT")>> \in Seq(Event) /\ WirelessOnly(<<Ev("CONNECT")>>)
      /\ <<Ev("ODEV_MEDIA_OPEN")>> \in Seq(Event)
      /\ WirelessOnly(<<Ev("ODEV_MEDIA_OPEN")>>)
      /\ Gone \in Seq(Event) /\ WirelessOnly(Gone)
  BY <1>1, GoneTyped DEF WirelessOnly, WirelessNames, Ev
<1>3. QED
  BY <1>2 DEF EventPosts, Gone

\* Two such sequences, one after the other, are one.
LEMMA WirelessConcat ==
    ASSUME NEW p \in Seq(Event), NEW q \in Seq(Event), WirelessOnly(p), WirelessOnly(q)
    PROVE  p \o q \in Seq(Event) /\ WirelessOnly(p \o q)
BY ConcatProperties, ConcatElements DEF WirelessOnly

\* Every step of the client, of its callers and of the controller posts such
\* events, in every build.
LEMMA PostingPosts ==
    ASSUME evq \in Seq(Event), PostingStep
    PROVE  \E es \in Seq(Event) : evq' = evq \o es /\ WirelessOnly(es)
<1>1. CASE UNCHANGED evq
  <2>1. evq' = evq \o <<>> /\ <<>> \in Seq(Event) /\ WirelessOnly(<<>>)
    BY <1>1, ConcatEmptySeq DEF WirelessOnly
  <2>2. QED
    BY <2>1
<1>2. CASE UserCall
  BY <1>1, <1>2 DEF UserCall, ModuleOn, ModuleOff, AppDisconnect, Debond, EnterPair, Call
<1>3. CASE CallStep
  <2>1. CASE DiscSay
    <3>1. Ev("ODEV_MEDIA_CLOSE") \in Event /\ Ev("DISCONN") \in Event
      BY EvTyped DEF AdapterEvents
    <3>2. /\ <<>> \in Seq(Event) /\ WirelessOnly(<<>>)
          /\ <<Ev("ODEV_MEDIA_CLOSE")>> \in Seq(Event)
          /\ WirelessOnly(<<Ev("ODEV_MEDIA_CLOSE")>>)
          /\ <<Ev("DISCONN")>> \in Seq(Event) /\ WirelessOnly(<<Ev("DISCONN")>>)
      BY <3>1 DEF WirelessOnly, WirelessNames, Ev
    <3>3. QED
      BY <2>1, <3>2 DEF DiscSay, Post
  <2>2. QED
    BY <1>1, <1>3, <2>1, CallSaysNothing
<1>4. CASE PacketHandler
  <2>1. CASE AdvReport(Head(hci))
    BY <1>1, <2>1 DEF AdvReport
  <2>2. CASE Connected
    BY <2>2, EventPostsTyped DEF Connected, Post
  <2>3. CASE ConnectFailed
    BY <2>3, StatusPostsTyped DEF ConnectFailed, Post
  <2>4. CASE ConnectionUpdated
    BY <2>4, EventPostsTyped DEF ConnectionUpdated, Post
  <2>5. CASE Disconnected
    BY <2>5, StatusPostsTyped, EventPostsTyped, WirelessConcat DEF Disconnected, Post
  <2>6. QED
    BY <1>4, <2>1, <2>2, <2>3, <2>4, <2>5 DEF PacketHandler
<1>5. CASE SearchComplete \/ Controller
  BY <1>1, <1>5 DEF SearchComplete, Controller, CtrlReport, CtrlConnect, CtrlFail,
     CtrlUpdate, CtrlLinkLoss
<1>6. QED
  BY <1>2, <1>3, <1>4, <1>5 DEF PostingStep, Stack

\* The events of the USB device.
LEMMA UsbPostsTyped ==
    /\ \A n \in UacEvents : <<Ev(n)>> \in Seq(Event)
    /\ <<>> \in Seq(Event) /\ OpenRequest \in Seq(Event) /\ CloseRequest \in Seq(Event)
<1>1. /\ \A n \in UacEvents : Ev(n) \in Event
      /\ OpenIdevEv(0) \in Event /\ Ev("IDEV_MEDIA_CLOSE") \in Event
  BY EvTyped, ModesAssumption DEF AdapterEvents
<1>2. QED
  BY <1>1 DEF OpenRequest, CloseRequest

\* The host and the timer: what they post, and what the microphone is owed.
LEMMA HostKeeps ==
    ASSUME evq \in Seq(Event), UsbTypeOK, MicInv, Host \/ CloseTimer
    PROVE  /\ \E es \in Seq(Event) : evq' = evq \o es
           /\ UsbTypeOK' /\ MicInv'
<1> USE UsbTyped DEF UsbVarsTyped, idevVars, closeVars
<1>0. evq = evq \o <<>>
  BY ConcatEmptySeq
<1>1. CASE SpeakerOpen
  <2>1. evq' = evq \o <<Ev("PLAY_OPEN")>>
    BY <1>1 DEF SpeakerOpen, Post
  <2>2. <<Ev("PLAY_OPEN")>> \in Seq(Event)
    BY UsbPostsTyped DEF UacEvents
  <2>3. UsbTypeOK' /\ MicInv'
    BY <1>1 DEF SpeakerOpen, MicInv, Closing
  <2>4. QED
    BY <2>1, <2>2, <2>3
<1>2. CASE SpeakerClose
  <2>1. evq' = evq \o <<Ev("PLAY_CLOSE")>>
    BY <1>2 DEF SpeakerClose, Post
  <2>2. <<Ev("PLAY_CLOSE")>> \in Seq(Event)
    BY UsbPostsTyped DEF UacEvents
  <2>3. UsbTypeOK' /\ MicInv'
    BY <1>2 DEF SpeakerClose, MicInv, Closing
  <2>4. QED
    BY <2>1, <2>2, <2>3
<1>3. CASE MicOpen
  <2>1. UNCHANGED evq \/ evq' = evq \o <<Ev("MIC_OPEN")>>
    BY <1>3 DEF MicOpen, Post
  <2>2. <<Ev("MIC_OPEN")>> \in Seq(Event)
    BY UsbPostsTyped DEF UacEvents
  <2>3. UsbTypeOK' /\ MicInv'
    BY <1>3 DEF MicOpen, MicInv, Closing
  <2>4. QED
    BY <1>0, <2>1, <2>2, <2>3, UsbPostsTyped
<1>4. CASE MicClose \/ CloseDelayTest \/ CloseDelayAct
  <2>1. UsbTypeOK' /\ MicInv'
    BY <1>4 DEF MicClose, CloseDelayTest, CloseDelayAct, MicInv, Closing
  <2>2. UNCHANGED evq
    BY <1>4 DEF MicClose, CloseDelayTest, CloseDelayAct
  <2>3. QED
    BY <1>0, <2>1, <2>2, UsbPostsTyped
<1>5. CASE CloseDelayNotify
  <2>1. evq' = evq \o <<Ev("MIC_CLOSE")>>
    BY <1>5 DEF CloseDelayNotify, Post
  <2>2. <<Ev("MIC_CLOSE")>> \in Seq(Event)
    BY UsbPostsTyped DEF UacEvents
  <2>3. UsbTypeOK' /\ MicInv'
    BY <1>5 DEF CloseDelayNotify, MicInv, Closing
  <2>4. QED
    BY <2>1, <2>2, <2>3
<1>6. QED
  BY <1>1, <1>2, <1>3, <1>4, <1>5
     DEF Host, SpeakerInterface, MicInterface, CloseTimer

\* The input device's events: what their handlers request of the process.
Requests(es) ==
    /\ es \in {<<>>, OpenRequest, CloseRequest}
    /\ UNCHANGED <<streamVars>>
    /\ TakeAndPost(es)

\* A handler of the input device makes a request, and nothing of the streams.
LEMMA HandleUacKeeps ==
    ASSUME UsbTypeOK, MicInv, HandleUac(Head(evq))
    PROVE  /\ \E es \in Seq(Event) : Requests(es)
           /\ UsbTypeOK' /\ MicInv'
           /\ Head(evq).ev \in UacEvents
<1>1. UNCHANGED streamVars
  BY DEF HandleUac
<1>2. \E es \in Seq(Event) : Requests(es)
  BY <1>1, UsbPostsTyped DEF HandleUac, PlayOpened, PlayClosed, MicOpened, MicClosed,
     Requests
<1>3. MicInv'
  BY <1>1 DEF streamVars, closeVars, MicInv, Closing
<1>4. UsbTypeOK'
  BY <1>1, UsbTyped DEF UsbVarsTyped, streamVars, closeVars, HandleUac, PlayOpened, PlayClosed,
     MicOpened, MicClosed
<1>5. Head(evq).ev \in UacEvents
  BY DEF HandleUac, UacEvents
<1>6. QED
  BY <1>2, <1>3, <1>4, <1>5

\* A step of the client, of its callers or of the controller.
WirelessStep ==
    /\ PostingStep
    /\ UNCHANGED <<proVars, mediaSel, running, usbVars, usbStarted, conn>>

\* The step of each task, as far as the devices are concerned.
LEMMA StepKinds ==
    ASSUME DongleNext
    PROVE  \/ IdevEvent
           \/ AdapterEventStep
           \/ WirelessStep
           \/ /\ Host \/ CloseTimer
              /\ UNCHANGED <<proVars, mediaSel, running, bleVars, usbStarted, conn>>
           \/ /\ DecodeError \/ Notify(Ev("POWEROFF"))
              /\ UNCHANGED <<usbVars, bleVars, usbStarted, conn>>
<1> USE DEF appVars
<1>1. CASE IdevEvent \/ AdapterEventStep
  BY <1>1
<1>2. CASE StopOdev
  BY <1>2 DEF StopOdev, UserCall, WirelessStep, PostingStep
<1>3. CASE AppContinues
  BY <1>3 DEF AppContinues, WirelessStep, PostingStep
<1>4. CASE StackStep
  BY <1>4 DEF StackStep, WirelessStep, PostingStep
<1>5. CASE RadioStep \/ RadioMove
  BY <1>5 DEF RadioStep, RadioMove, WirelessStep, PostingStep, Controller
<1>6. CASE UserMove
  BY <1>6 DEF UserMove, WirelessStep, PostingStep
<1>7. CASE CloseTimerStep \/ HostMove
  BY <1>7 DEF CloseTimerStep, HostMove
<1>8. CASE DecoderMove \/ PowerOffMove
  BY <1>8 DEF DecoderMove, PowerOffMove
<1>9. QED
  BY <1>1, <1>2, <1>3, <1>4, <1>5, <1>6, <1>7, <1>8
     DEF DongleNext, Firmware, Environment

\* The moves of the environment are counted.
LEMMA InputsKept ==
    ASSUME inputs \in 0..InputMax, DongleNext
    PROVE  inputs' \in 0..InputMax
<1>1. UNCHANGED inputs \/ Move
  BY DEF DongleNext, Firmware, Environment, IdevEvent, AdapterEventStep, StopOdev,
     AppContinues, StackStep, CloseTimerStep, RadioStep, HostMove, RadioMove, UserMove,
     DecoderMove, PowerOffMove
<1>2. QED
  BY <1>1, InputMaxAssumption DEF Move

\* The USB device and the microphone it owes the host, when nobody touches them.
LEMMA UsbAside ==
    ASSUME UsbTypeOK, MicInv, UNCHANGED usbVars
    PROVE  UsbTypeOK' /\ MicInv'
BY UsbTyped DEF UsbVarsTyped, usbVars, streamVars, closeVars, idevVars, MicInv, Closing

\* Every step of the dongle keeps what the devices guarantee.
LEMMA DeviceInvKept ==
    ASSUME DeviceInv, [DongleNext]_dongleVars
    PROVE  DeviceInv'
<1> USE DEF DeviceInv
<1>0. evq \in Seq(Event) /\ inputs' \in 0..InputMax
  BY IInvParts, InputsKept DEF dongleVars
<1>1. ASSUME UNCHANGED bleVars PROVE BleInv'
  <2>1. BleStep
    BY <1>1 DEF BleStep, OtherStep
  <2>2. QED
    BY <2>1, BleInvKept
<1>2. CASE IdevEvent
  <2>0. Taking /\ HandleUac(Head(evq))
    BY <1>2 DEF IdevEvent
  <2>1. PICK es \in Seq(Event) : Requests(es)
    BY <2>0, HandleUacKeeps
  <2>2. UsbTypeOK' /\ MicInv' /\ Head(evq).ev \notin CloseEvents
    BY <2>0, HandleUacKeeps DEF UacEvents, CloseEvents
  <2>3. evq' \in Seq(Event) /\ (CloseWaiting => CloseWaiting')
    BY <1>0, <2>0, <2>1, <2>2, TakeKeepsClose DEF Requests, Taking
  <2>4. UNCHANGED <<proVars, mediaSel, running, bleVars, usbStarted, conn, inputs>>
    BY <1>2 DEF IdevEvent, appVars
  <2>5. IInv' /\ BleInv'
    BY <1>1, <2>3, <2>4, AsideKeeps
  <2>6. QED
    BY <2>2, <2>4, <2>5
<1>3. CASE AdapterEventStep
  <2>0. Dispatch /\ UNCHANGED <<usbVars, inputs>>
    BY <1>3 DEF AdapterEventStep
  <2>1. IInv'
    BY <2>0, DispatchKeeps
  <2>2. UsbTypeOK' /\ MicInv'
    BY <2>0, UsbAside
  <2>3. BleInv'
    <3>1. InitClient \/ UNCHANGED bleVars
      BY <1>3 DEF AdapterEventStep
    <3>2. BleStep
      BY <3>1 DEF BleStep, OtherStep, CallerStep
    <3>3. QED
      BY <3>2, BleInvKept
  <2>4. usbStarted' \in BOOLEAN /\ conn' \in BOOLEAN
    <3>1. running' \in BOOLEAN
      BY <2>1 DEF IInv, TypeOK
    <3>2. QED
      BY <1>3, <3>1 DEF AdapterEventStep
  <2>5. QED
    BY <2>0, <2>1, <2>2, <2>3, <2>4
<1>4. CASE WirelessStep
  <2>1. PICK es \in Seq(Event) : evq' = evq \o es
    BY <1>0, <1>4, PostingPosts DEF WirelessStep
  <2>2. IInv'
    BY <1>0, <1>4, <2>1, ConcatKeepsClose, AsideKeeps DEF WirelessStep
  <2>3. UsbTypeOK' /\ MicInv'
    BY <1>4, UsbAside DEF WirelessStep
  <2>4. BleInv'
    <3>1. BleStep
      BY <1>4 DEF WirelessStep, PostingStep, BleStep, OtherStep, CallerStep, Stack
    <3>2. QED
      BY <3>1, BleInvKept
  <2>5. usbStarted' = usbStarted /\ conn' = conn
    BY <1>4 DEF WirelessStep
  <2>6. QED
    BY <1>0, <2>2, <2>3, <2>4, <2>5
<1>5. CASE /\ Host \/ CloseTimer
           /\ UNCHANGED <<proVars, mediaSel, running, bleVars, usbStarted, conn>>
  <2>1. PICK es \in Seq(Event) : evq' = evq \o es
    BY <1>0, <1>5, HostKeeps
  <2>2. IInv'
    BY <1>0, <1>5, <2>1, ConcatKeepsClose, AsideKeeps
  <2>3. UsbTypeOK' /\ MicInv' /\ BleInv'
    BY <1>0, <1>1, <1>5, HostKeeps
  <2>4. usbStarted' = usbStarted /\ conn' = conn
    BY <1>5
  <2>5. QED
    BY <1>0, <2>2, <2>3, <2>4
<1>6. CASE /\ DecodeError \/ Notify(Ev("POWEROFF"))
           /\ UNCHANGED <<usbVars, bleVars, usbStarted, conn>>
  <2>1. Ev("POWEROFF") \in AdapterEvent
    BY DEF AdapterEvent, AdapterEvents
  <2>2. IInv'
    BY <1>6, <2>1, NotifyKeeps
  <2>3. UsbTypeOK' /\ MicInv' /\ BleInv'
    BY <1>1, <1>6, UsbAside
  <2>4. usbStarted' = usbStarted /\ conn' = conn
    BY <1>6
  <2>5. QED
    BY <1>0, <2>2, <2>3, <2>4
<1>7. CASE UNCHANGED dongleVars
  <2>1. /\ UNCHANGED <<evq, proVars, mediaSel, running, usbVars, bleVars>>
        /\ UNCHANGED <<usbStarted, conn, inputs>>
    BY <1>7 DEF dongleVars, vars, appVars, proVars
  <2>2. IInv'
    <3>1. CloseWaiting => CloseWaiting'
      BY <2>1 DEF CloseWaiting
    <3>2. QED
      BY <1>0, <2>1, <3>1, AsideKeeps
  <2>3. QED
    BY <1>1, <2>1, <2>2, UsbAside
<1>8. CASE DongleNext
  BY <1>2, <1>3, <1>4, <1>5, <1>6, <1>8, StepKinds
<1>9. QED
  BY <1>7, <1>8

\* They guarantee it from the start.
LEMMA DeviceInvInit ==
    ASSUME DongleInit
    PROVE  DeviceInv
<1>1. IInv
  <2>1. Ev("IDEV_INIT_OK") \in Event /\ Ev("ODEV_INIT_OK") \in Event
    BY EvTyped DEF AdapterEvents
  <2>2. evq \in Seq(Event)
    BY <2>1 DEF DongleInit
  <2>3. QED
    BY <2>2, ModesAssumption, SelsAssumption
       DEF DongleInit, ProInit, IInv, TypeOK, LockFree, MediaNeedsBoth, OpenHasMode,
           SilenceExplained, SelectionHonoured, Both
<1>2. UsbTypeOK /\ MicInv
  BY UsbTyped DEF UsbVarsTyped, DongleInit, UsbInit, MicInv, Closing
<1>3. BleInv
  BY BleInitInv DEF DongleInit
<1>4. usbStarted \in BOOLEAN /\ conn \in BOOLEAN /\ inputs \in 0..InputMax
  <2>1. usbStarted = FALSE /\ conn = FALSE /\ inputs = 0
    BY DEF DongleInit
  <2>2. 0 \in 0..InputMax
    BY InputMaxAssumption
  <2>3. QED
    BY <2>1, <2>2
<1>5. QED
  BY <1>1, <1>2, <1>3, <1>4 DEF DeviceInv

\* The process, the input device and the client keep, in the product, what they
\* guarantee alone.
THEOREM DevicesKept == DongleSpec => []DeviceInv
<1>1. DongleInit => DeviceInv
  BY DeviceInvInit
<1>2. DeviceInv /\ [DongleNext]_dongleVars => DeviceInv'
  BY DeviceInvKept
<1>3. QED
  BY <1>1, <1>2, PTL DEF DongleSpec

\* Every variable of the dongle keeps its type, in every build.
THEOREM DongleTyped == DongleSpec => []DongleTypeOK
<1>1. DeviceInv => DongleTypeOK
  BY DEF DeviceInv, DongleTypeOK, IInv, BleInv
<1>2. QED
  BY <1>1, DevicesKept, PTL

\* Whatever the USB host, the stack and the application's calls do, the dongle
\* implements the abstract media session: its sound begins only with the opening of
\* the second device and ends with a close, an error or the power.
THEOREM DongleIsSession == DongleSpec => SessionSpec
<1>1. DongleInit => Session!Init
  BY InitIsSession DEF DongleInit
<1>2. DeviceInv /\ [DongleNext]_dongleVars => [Session!Next]_(Session!sessionVars)
  <2>1. ASSUME [DongleNext]_dongleVars
        PROVE  Dispatch \/ UNCHANGED <<devStatus, media>>
    <3>1. CASE UNCHANGED dongleVars
      BY <3>1 DEF dongleVars, vars, proVars
    <3>2. CASE AdapterEventStep
      BY <3>2 DEF AdapterEventStep
    <3>3. CASE DongleNext /\ ~AdapterEventStep
      <4>1. UNCHANGED proVars
        BY <3>3, StepKinds DEF IdevEvent, WirelessStep, DecodeError, Notify
      <4>2. QED
        BY <4>1 DEF proVars
    <3>4. QED
      BY <2>1, <3>1, <3>2, <3>3
  <2>2. DeviceInv => IInv
    BY DEF DeviceInv
  <2>3. QED
    BY <2>1, <2>2, StepIsSession
<1>3. QED
  BY <1>1, <1>2, DevicesKept, PTL DEF DongleSpec, SessionSpec, Session!Spec

\* In the product, too, con_handle is the link once the reports are handled, the
\* client asks for one connection at a time and, while it is on, looks for its peer,
\* but for the interruptions of its calls these two name, and silence between two
\* open devices has a cause.
THEOREM DevicesAgree ==
    DongleSpec => [](HandleAgrees /\ OneAttempt /\ KeepsLooking /\ SilenceExplained)
<1>1. DeviceInv => HandleAgrees /\ OneAttempt /\ KeepsLooking /\ SilenceExplained
  BY BleInvImplies DEF DeviceInv, IInv
<1>2. QED
  BY <1>1, DevicesKept, PTL

-------------------------------------------------------------------------------
(* What the queue tells of the streams, in every build.                      *)

\* Steps that post nothing of the streams, and change neither them nor their copies.
LEMMA StreamsAside ==
    ASSUME evq \in Seq(Event), NEW es \in Seq(Event), evq' = evq \o es,
           \A i \in DOMAIN es : es[i].ev \notin UacEvents,
           UNCHANGED usbVars, StreamsTold
    PROVE  StreamsTold'
<1>0. UNCHANGED <<spkStatus, spkStream, micStatus, micStream, lost, micClosing, micNotify>>
  BY DEF usbVars, streamVars, closeVars, idevVars
<1>1. /\ \A i \in DOMAIN es : es[i].ev \notin {"PLAY_OPEN", "PLAY_CLOSE"}
      /\ \A i \in DOMAIN es : es[i].ev \notin {"MIC_OPEN", "MIC_CLOSE"}
  BY DEF UacEvents
<1>2. PICK said \in BOOLEAN :
         /\ Tells(evq, Named("MIC_OPEN"), Named("MIC_CLOSE"), micStatus, said)
         /\ Closing \/ (said <=> micStream /\ ~lost)
  BY DEF StreamsTold
<1>3. Tells(evq', Named("PLAY_OPEN"), Named("PLAY_CLOSE"), spkStatus, spkStream)
  BY <1>1, SilentPost DEF StreamsTold
<1>4. Tells(evq', Named("MIC_OPEN"), Named("MIC_CLOSE"), micStatus, said)
  BY <1>1, <1>2, SilentPost
<1>5. QED
  BY <1>0, <1>2, <1>3, <1>4 DEF StreamsTold, Closing

\* The host and the timer tell of their streams: a MIC_OPEN posted amid the callback
\* tells of a microphone that is lost, and the callback's MIC_CLOSE corrects it.
LEMMA HostTold ==
    ASSUME evq \in Seq(Event), UsbTypeOK, MicInv, StreamsTold, Host \/ CloseTimer
    PROVE  StreamsTold'
<1> USE UsbTyped DEF UsbVarsTyped
<1>1. PICK said \in BOOLEAN :
         /\ Tells(evq, Named("MIC_OPEN"), Named("MIC_CLOSE"), micStatus, said)
         /\ Closing \/ (said <=> micStream /\ ~lost)
  BY DEF StreamsTold
<1>2. UNCHANGED <<spkStatus, micStatus>>
  BY DEF Host, SpeakerInterface, MicInterface, CloseTimer, SpeakerOpen, SpeakerClose,
     MicOpen, MicClose, CloseDelayTest, CloseDelayAct, CloseDelayNotify, idevVars
<1>3. ASSUME UNCHANGED <<evq, spkStream>>, Closing' \/ (said <=> micStream' /\ ~lost')
      PROVE  StreamsTold'
  BY <1>1, <1>2, <1>3 DEF StreamsTold
<1>4. ASSUME NEW n \in UacEvents, evq' = evq \o <<Ev(n)>>, NEW now \in BOOLEAN,
             n = "PLAY_OPEN" => spkStream',
             n = "PLAY_CLOSE" => ~spkStream',
             n \notin {"PLAY_OPEN", "PLAY_CLOSE"} => UNCHANGED spkStream,
             n = "MIC_OPEN" => now,
             n = "MIC_CLOSE" => ~now,
             n \notin {"MIC_OPEN", "MIC_CLOSE"} => (said <=> now),
             Closing' \/ (now <=> micStream' /\ ~lost')
      PROVE  StreamsTold'
  <2>1. <<Ev(n)>> \in Seq(Event)
    BY UsbPostsTyped
  <2>2. \A k : Ev(n) \in Named(k) <=> n = k
    BY NamedEv
  <2>3. Tells(<<Ev(n)>>, Named("PLAY_OPEN"), Named("PLAY_CLOSE"), spkStream, spkStream')
    BY <1>4, <2>2, OneTells DEF UacEvents
  <2>4. Tells(<<Ev(n)>>, Named("MIC_OPEN"), Named("MIC_CLOSE"), said, now)
    BY <1>4, <2>2, OneTells DEF UacEvents
  <2>5. Tells(evq', Named("PLAY_OPEN"), Named("PLAY_CLOSE"), spkStatus, spkStream')
    BY <1>4, <2>1, <2>3, PostTells DEF StreamsTold
  <2>6. Tells(evq', Named("MIC_OPEN"), Named("MIC_CLOSE"), micStatus, now)
    BY <1>1, <1>4, <2>1, <2>4, PostTells
  <2>7. QED
    BY <1>2, <1>4, <2>5, <2>6 DEF StreamsTold
<1>5. CASE SpeakerOpen \/ SpeakerClose
  <2>1. UNCHANGED <<micStream, lost, micClosing, micNotify>>
    BY <1>5 DEF SpeakerOpen, SpeakerClose, closeVars
  <2>2. Closing' \/ (said <=> micStream' /\ ~lost')
    BY <1>1, <2>1 DEF Closing
  <2>3. QED
    BY <1>4, <1>5, <2>2 DEF SpeakerOpen, SpeakerClose, Post, UacEvents
<1>6. CASE MicOpen
  <2>1. /\ UNCHANGED <<spkStream, micClosing, micNotify>>
        /\ lost' = (Closing \/ (lost /\ micStream))
    BY <1>6 DEF MicOpen, closeVars
  <2>2. CASE micStream /\ UNCHANGED <<micStream, evq>>
    BY <1>1, <1>3, <2>1, <2>2 DEF Closing
  <2>3. CASE ~micStream /\ micStream' = TRUE /\ Post(<<Ev("MIC_OPEN")>>)
    <3>1. Closing' \/ (TRUE <=> micStream' /\ ~lost')
      BY <2>1, <2>3 DEF Closing
    <3>2. QED
      BY <1>4, <2>1, <2>3, <3>1 DEF Post, UacEvents
  <2>4. QED
    BY <1>6, <2>2, <2>3 DEF MicOpen
<1>7. CASE MicClose \/ CloseDelayTest \/ CloseDelayAct
  <2>1. Closing' \/ (said <=> micStream' /\ ~lost')
    BY <1>1, <1>7 DEF MicClose, CloseDelayTest, CloseDelayAct, Closing
  <2>2. QED
    BY <1>3, <1>7, <2>1 DEF MicClose, CloseDelayTest, CloseDelayAct
<1>8. CASE CloseDelayNotify
  <2>1. Closing' \/ (FALSE <=> micStream' /\ ~lost')
    BY <1>8 DEF CloseDelayNotify, MicInv
  <2>2. QED
    BY <1>4, <1>8, <2>1 DEF CloseDelayNotify, Post, UacEvents
<1>9. QED
  BY <1>5, <1>6, <1>7, <1>8 DEF Host, SpeakerInterface, MicInterface, CloseTimer

\* The requests of the input device's handlers: what they say of it, and that they
\* say nothing else.
LEMMA RequestsTell ==
    /\ \A es \in {<<>>, OpenRequest, CloseRequest} : \A i \in DOMAIN es :
          es[i].ev \in {"IDEV_MEDIA_OPEN", "IDEV_MEDIA_CLOSE"}
    /\ OpenRequest[1] \in Named("IDEV_MEDIA_OPEN")
    /\ CloseRequest[1] \in Named("IDEV_MEDIA_CLOSE")
<1>1. OpenIdevEv(0) \in Named("IDEV_MEDIA_OPEN") /\ Ev("IDEV_MEDIA_CLOSE") \in Named("IDEV_MEDIA_CLOSE")
  BY NamedEv, ModesAssumption DEF AdapterEvents
<1>2. QED
  BY <1>1 DEF OpenRequest, CloseRequest, OpenIdevEv, Ev

\* The handlers of the input device's events follow them.
LEMMA UacTold ==
    ASSUME evq \in Seq(Event), Taking, HandleUac(Head(evq)), StreamsTold
    PROVE  StreamsTold'
<1> DEFINE e == Head(evq)
<1>0. /\ evq # <<>> /\ e \in Event
      /\ UNCHANGED <<spkStream, micStream, lost, micClosing, micNotify>>
  BY HeadTailProperties DEF Taking, HandleUac, streamVars, closeVars
<1>1. /\ e.ev \in UacEvents
      /\ spkStatus' = CASE e.ev = "PLAY_OPEN" -> TRUE
                        [] e.ev = "PLAY_CLOSE" -> FALSE
                        [] OTHER -> spkStatus
      /\ micStatus' = CASE e.ev = "MIC_OPEN" -> TRUE
                        [] e.ev = "MIC_CLOSE" -> FALSE
                        [] OTHER -> micStatus
  BY DEF HandleUac, UacEvents, PlayOpened, PlayClosed, MicOpened, MicClosed
<1>2. PICK es \in {<<>>, OpenRequest, CloseRequest} : TakeAndPost(es)
  BY DEF HandleUac, PlayOpened, PlayClosed, MicOpened, MicClosed
<1>3. es \in Seq(Event) /\ \A i \in DOMAIN es : es[i] \notin Named("PLAY_OPEN")
         \cup Named("PLAY_CLOSE") \cup Named("MIC_OPEN") \cup Named("MIC_CLOSE")
  BY UsbPostsTyped, RequestsTell DEF Named
<1>4. \A k : e \in Named(k) <=> e.ev = k
  BY <1>0, NamedEv
<1>5. PICK said \in BOOLEAN :
         /\ Tells(evq, Named("MIC_OPEN"), Named("MIC_CLOSE"), micStatus, said)
         /\ Closing \/ (said <=> micStream /\ ~lost)
  BY DEF StreamsTold
<1>6. Tells(evq', Named("PLAY_OPEN"), Named("PLAY_CLOSE"), spkStatus', spkStream)
  <2>1. /\ e \in Named("PLAY_OPEN") => spkStatus'
        /\ e \in Named("PLAY_CLOSE") => ~spkStatus'
        /\ e \notin Named("PLAY_OPEN") \cup Named("PLAY_CLOSE") => (spkStatus <=> spkStatus')
    BY <1>1, <1>4
  <2>2. Tells(es, Named("PLAY_OPEN"), Named("PLAY_CLOSE"), spkStream, spkStream)
    BY <1>3, SilentTells
  <2>3. QED
    BY <1>0, <1>2, <1>3, <2>1, <2>2, TakeTells DEF StreamsTold
<1>7. Tells(evq', Named("MIC_OPEN"), Named("MIC_CLOSE"), micStatus', said)
  <2>1. /\ e \in Named("MIC_OPEN") => micStatus'
        /\ e \in Named("MIC_CLOSE") => ~micStatus'
        /\ e \notin Named("MIC_OPEN") \cup Named("MIC_CLOSE") => (micStatus <=> micStatus')
    BY <1>1, <1>4
  <2>2. Tells(es, Named("MIC_OPEN"), Named("MIC_CLOSE"), said, said)
    BY <1>3, SilentTells
  <2>3. QED
    BY <1>0, <1>2, <1>3, <1>5, <2>1, <2>2, TakeTells
<1>8. QED
  BY <1>0, <1>5, <1>6, <1>7 DEF StreamsTold, Closing

\* The process and the application take their events and post nothing.
LEMMA StreamsTaken ==
    ASSUME evq \in Seq(Event), Dispatch, Head(evq).ev \notin UacEvents, UNCHANGED usbVars,
           StreamsTold
    PROVE  StreamsTold'
<1>0. /\ evq # <<>> /\ TakeAndPost(<<>>) /\ <<>> \in Seq(Event)
      /\ UNCHANGED <<spkStatus, spkStream, micStatus, micStream, lost, micClosing, micNotify>>
  BY DEF Dispatch, Taking, usbVars, streamVars, closeVars, idevVars
<1>1. \A i \in DOMAIN <<>> : FALSE
  OBVIOUS
<1>2. PICK said \in BOOLEAN :
         /\ Tells(evq, Named("MIC_OPEN"), Named("MIC_CLOSE"), micStatus, said)
         /\ Closing \/ (said <=> micStream /\ ~lost)
  BY DEF StreamsTold
<1>3. Tells(evq', Named("PLAY_OPEN"), Named("PLAY_CLOSE"), spkStatus, spkStream)
  BY <1>0, <1>1, SilentTake DEF StreamsTold, UacEvents
<1>4. Tells(evq', Named("MIC_OPEN"), Named("MIC_CLOSE"), micStatus, said)
  BY <1>0, <1>1, <1>2, SilentTake DEF UacEvents
<1>5. QED
  BY <1>0, <1>2, <1>3, <1>4 DEF StreamsTold, Closing

\* Every step keeps the queue right about the streams.
LEMMA StreamsToldKept ==
    ASSUME DeviceInv, StreamsTold, [DongleNext]_dongleVars
    PROVE  StreamsTold'
<1>0. evq \in Seq(Event) /\ UsbTypeOK /\ MicInv
  BY IInvParts DEF DeviceInv
<1>1. CASE IdevEvent
  BY <1>0, <1>1, UacTold DEF IdevEvent
<1>2. CASE AdapterEventStep
  BY <1>0, <1>2, StreamsTaken DEF AdapterEventStep
<1>3. CASE WirelessStep
  <2>1. PICK es \in Seq(Event) : evq' = evq \o es /\ WirelessOnly(es)
    BY <1>0, <1>3, PostingPosts DEF WirelessStep
  <2>2. \A i \in DOMAIN es : es[i].ev \notin UacEvents
    BY <2>1 DEF WirelessOnly, WirelessNames, UacEvents
  <2>3. QED
    BY <1>0, <1>3, <2>1, <2>2, StreamsAside DEF WirelessStep
<1>4. CASE Host \/ CloseTimer
  BY <1>0, <1>4, HostTold
<1>5. CASE (DecodeError \/ Notify(Ev("POWEROFF"))) /\ UNCHANGED usbVars
  <2>1. PICK n \in {"MEDIA_DECODE_ERR", "POWEROFF"} : evq' = evq \o <<Ev(n)>>
    BY <1>5 DEF DecodeError, Notify, Post
  <2>2. <<Ev(n)>> \in Seq(Event) /\ \A i \in DOMAIN <<Ev(n)>> : <<Ev(n)>>[i].ev = n
    <3>1. Ev(n) \in Event
      BY EvTyped DEF AdapterEvents
    <3>2. QED
      BY <3>1 DEF Ev
  <2>3. \A i \in DOMAIN <<Ev(n)>> : <<Ev(n)>>[i].ev \notin UacEvents
    BY <2>2 DEF UacEvents
  <2>4. QED
    BY <1>0, <1>5, <2>1, <2>2, <2>3, StreamsAside
<1>6. CASE UNCHANGED dongleVars
  BY <1>6 DEF dongleVars, vars, usbVars, streamVars, closeVars, idevVars, StreamsTold, Closing
<1>7. QED
  BY <1>1, <1>2, <1>3, <1>4, <1>5, <1>6, StepKinds

\* At the start nothing is open and nothing is told.
LEMMA StreamsToldInit ==
    ASSUME DongleInit
    PROVE  StreamsTold
<1>1. /\ evq = <<Ev("IDEV_INIT_OK"), Ev("ODEV_INIT_OK")>>
      /\ spkStream = FALSE /\ micStream = FALSE /\ spkStatus = FALSE /\ micStatus = FALSE
  BY DEF DongleInit, UsbInit
<1>2. \A k \in UacEvents : \A i \in DOMAIN evq : evq[i] \notin Named(k)
  BY <1>1, NamedEv DEF Ev, Named, UacEvents
<1>3. Tells(evq, Named("PLAY_OPEN"), Named("PLAY_CLOSE"), spkStatus, spkStream)
  BY <1>1, <1>2, SilentTells DEF UacEvents
<1>4. Tells(evq, Named("MIC_OPEN"), Named("MIC_CLOSE"), micStatus, FALSE)
  BY <1>1, <1>2, SilentTells DEF UacEvents
<1>5. QED
  BY <1>1, <1>3, <1>4 DEF StreamsTold

\* The devices and the streams together, in every build.
LEMMA StreamsAlwaysTold == DongleSpec => [](DeviceInv /\ StreamsTold)
<1>1. DongleInit => DeviceInv /\ StreamsTold
  BY DeviceInvInit, StreamsToldInit
<1>2. DeviceInv /\ StreamsTold /\ [DongleNext]_dongleVars => DeviceInv' /\ StreamsTold'
  BY DeviceInvKept, StreamsToldKept
<1>3. QED
  BY <1>1, <1>2, PTL DEF DongleSpec

\* With nothing on its way the application knows the streams, but for a microphone
\* that is lost.
LEMMA QuietStreams ==
    ASSUME StreamsTold, Quiet
    PROVE  /\ spkStatus <=> spkStream
           /\ micStatus <=> micStream /\ ~lost
BY EmptyTells DEF Quiet, StreamsTold

\* uac_mic_stream_close_delay takes the microphone from a host that wants it only
\* if the host opened it amid its callback, in every build.
THEOREM MicAlwaysServed == DongleSpec => []MicServed
<1>1. DeviceInv /\ StreamsTold => MicServed
  <2>1. ASSUME DeviceInv, StreamsTold, Quiet, micSw PROVE micStatus <=> ~lost
    BY <2>1, QuietStreams DEF DeviceInv, MicInv, Quiet
  <2>2. DeviceInv => micStatus \in BOOLEAN /\ lost \in BOOLEAN
    BY UsbTyped DEF DeviceInv, UsbVarsTyped
  <2>3. QED
    BY <2>1, <2>2 DEF MicServed
<1>2. QED
  BY <1>1, StreamsAlwaysTold, PTL

-------------------------------------------------------------------------------
(* The build without ALWAYS_RUN_STREAM: what the queues tell of the rest.    *)

\* Steps that post nothing of a fact, and change neither it nor its copy: ...
\* ... of the input device ...
LEMMA IdevAside ==
    ASSUME evq \in Seq(Event), NEW es \in Seq(Event), evq' = evq \o es,
           \A i \in DOMAIN es : es[i].ev \notin {"IDEV_MEDIA_OPEN", "IDEV_MEDIA_CLOSE"},
           UNCHANGED <<devStatus, spkStatus, micStatus>>, IdevTold
    PROVE  IdevTold'
<1>1. Tells(evq', Named("IDEV_MEDIA_OPEN"), Named("IDEV_MEDIA_CLOSE"),
            "IDEV" \in devStatus, spkStatus \/ micStatus)
  BY SilentPost DEF IdevTold
<1>2. QED
  BY <1>1 DEF IdevTold

\* ... and of the output device and the link.
LEMMA WirelessAside ==
    ASSUME evq \in Seq(Event), NEW es \in Seq(Event), evq' = evq \o es,
           \A i \in DOMAIN es : es[i].ev \notin WirelessNames,
           UNCHANGED <<devStatus, conn, hci, link, updated, appPc>>, OdevTold, ConnTold
    PROVE  OdevTold' /\ ConnTold'
<1>1. /\ \A i \in DOMAIN es : es[i].ev \notin {"ODEV_MEDIA_OPEN", "ODEV_MEDIA_CLOSE"}
      /\ \A i \in DOMAIN es : es[i].ev \notin {"CONNECT", "DISCONN"}
  BY DEF WirelessNames
<1>2. OdevTold'
  <2>1. PICK said \in BOOLEAN : OdevQueue("ODEV" \in devStatus, said) /\ OdevSaid(said)
    BY DEF OdevTold
  <2>2. OdevQueue("ODEV" \in devStatus, said)'
    BY <1>1, <2>1, SilentPost DEF OdevQueue
  <2>3. OdevSaid(said)'
    BY <2>1 DEF OdevReports, OdevSaid
  <2>4. QED
    BY <2>2, <2>3 DEF OdevTold
<1>3. ConnTold'
  <2>1. PICK said \in BOOLEAN : ConnQueue(conn, said) /\ ConnSaid(said)
    BY DEF ConnTold
  <2>2. ConnQueue(conn, said)'
    BY <1>1, <2>1, SilentPost DEF ConnQueue
  <2>3. ConnSaid(said)'
    BY <2>1 DEF ConnReports, ConnSaid
  <2>4. QED
    BY <2>2, <2>3 DEF ConnTold
<1>4. QED
  BY <1>2, <1>3

\* The stack, its callers and the controller keep the queues right about the world.
LEMMA WirelessStepTold ==
    ASSUME AlwaysRun = FALSE, DeviceInv, ReportInv', WorldInv, WirelessStep
    PROVE  WorldInv'
<1>0. /\ evq \in Seq(Event) /\ BleTypeOK /\ ReportInv
      /\ UNCHANGED <<spkStatus, micStatus>>
      /\ UNCHANGED <<devStatus, media, mediaSel, cut, conn>>
  BY IInvParts DEF DeviceInv, BleInv, WirelessStep, usbVars, streamVars, idevVars, proVars
<1>1. PICK es \in Seq(Event) : evq' = evq \o es /\ WirelessSays(es)
  BY <1>0, PostingSays DEF WirelessStep
<1>2. IdevTold'
  <2>1. PICK ws \in Seq(Event) : evq' = evq \o ws /\ WirelessOnly(ws)
    BY <1>0, PostingPosts DEF WirelessStep
  <2>2. QED
    BY <1>0, <2>1, IdevAside DEF WorldInv, WirelessOnly, WirelessNames
<1>3. OdevTold' /\ ConnTold'
  BY <1>0, <1>1, WirelessTold DEF WorldInv
<1>4. QED
  BY <1>0, <1>2, <1>3 DEF WorldInv, SoundInv

\* The host and the timer tell of their streams alone.
LEMMA StreamStepTold ==
    ASSUME DeviceInv, WorldInv, Host \/ CloseTimer,
           UNCHANGED <<proVars, mediaSel, running, bleVars, usbStarted, conn>>
    PROVE  WorldInv'
<1>0. /\ evq \in Seq(Event)
      /\ UNCHANGED <<hci, link, updated, appPc>>
      /\ UNCHANGED <<devStatus, media, mediaSel, cut, conn>>
  BY IInvParts DEF DeviceInv, bleVars, ctrlVars, callVars, proVars
<1>1. UNCHANGED <<spkStatus, micStatus>>
  BY DEF Host, SpeakerInterface, MicInterface, CloseTimer, SpeakerOpen, SpeakerClose,
     MicOpen, MicClose, CloseDelayTest, CloseDelayAct, CloseDelayNotify, idevVars
<1>2. UNCHANGED evq \/ \E n \in UacEvents : evq' = evq \o <<Ev(n)>>
  BY DEF Host, SpeakerInterface, MicInterface, CloseTimer, SpeakerOpen, SpeakerClose,
     MicOpen, MicClose, CloseDelayTest, CloseDelayAct, CloseDelayNotify, Post, UacEvents
<1>3. CASE UNCHANGED evq
  BY <1>0, <1>1, <1>3 DEF WorldInv, IdevTold, OdevTold, ConnTold, OdevQueue, ConnQueue,
     OdevSaid, ConnSaid, OdevReports, ConnReports, SoundInv
<1>4. ASSUME NEW n \in UacEvents, evq' = evq \o <<Ev(n)>>
      PROVE  WorldInv'
  <2>1. <<Ev(n)>> \in Seq(Event) /\ \A i \in DOMAIN <<Ev(n)>> : <<Ev(n)>>[i].ev = n
    BY UsbPostsTyped DEF Ev
  <2>2. IdevTold'
    BY <1>0, <1>1, <1>4, <2>1, IdevAside DEF WorldInv, UacEvents
  <2>3. OdevTold' /\ ConnTold'
    BY <1>0, <1>4, <2>1, WirelessAside DEF WorldInv, UacEvents, WirelessNames
  <2>4. QED
    BY <1>0, <2>2, <2>3 DEF WorldInv, SoundInv
<1>5. QED
  BY <1>2, <1>3, <1>4

\* An open request tells that a stream is open ...
LEMMA OpenTells ==
    ASSUME NEW was, NEW is, is
    PROVE  Tells(OpenRequest, Named("IDEV_MEDIA_OPEN"), Named("IDEV_MEDIA_CLOSE"), was, is)
<1>1. /\ OpenIdevEv(0) \in Named("IDEV_MEDIA_OPEN")
      /\ OpenIdevEv(0) \notin Named("IDEV_MEDIA_CLOSE")
  BY NamedEv, ModesAssumption
<1>2. QED
  BY <1>1, OneTells DEF OpenRequest

\* ... and a close request that none is.
LEMMA CloseTells ==
    ASSUME NEW was, NEW is, ~is
    PROVE  Tells(CloseRequest, Named("IDEV_MEDIA_OPEN"), Named("IDEV_MEDIA_CLOSE"), was, is)
<1>1. /\ Ev("IDEV_MEDIA_CLOSE") \in Named("IDEV_MEDIA_CLOSE")
      /\ Ev("IDEV_MEDIA_CLOSE") \notin Named("IDEV_MEDIA_OPEN")
  BY NamedEv DEF AdapterEvents
<1>2. QED
  BY <1>1, OneTells DEF CloseRequest

\* A handler of the input device: the status follows the event, and the request
\* says whether one of the two is open.
LEMMA IdevEventTold ==
    ASSUME DeviceInv, WorldInv, IdevEvent
    PROVE  WorldInv'
<1> DEFINE e == Head(evq)
<1>0. /\ evq \in Seq(Event) /\ evq # <<>> /\ e \in Event /\ UsbTypeOK
      /\ UNCHANGED <<hci, link, updated, appPc>>
      /\ UNCHANGED <<devStatus, media, mediaSel, cut, conn>>
      /\ HandleUac(e)
  BY IInvParts, HeadTailProperties
     DEF DeviceInv, IdevEvent, Taking, HandleUac, bleVars, ctrlVars, callVars, proVars, appVars
<1>1. ASSUME NEW es \in Seq(Event), Requests(es),
             e.ev \in UacEvents,
             Tells(es, Named("IDEV_MEDIA_OPEN"), Named("IDEV_MEDIA_CLOSE"),
                   spkStatus \/ micStatus, spkStatus' \/ micStatus')
      PROVE  WorldInv'
  <2>0. TakeAndPost(es)
    BY <1>1 DEF Requests
  <2>1. \A i \in DOMAIN es : es[i].ev \in {"IDEV_MEDIA_OPEN", "IDEV_MEDIA_CLOSE"}
    BY <1>1, RequestsTell DEF Requests
  <2>2. \A k : e \in Named(k) <=> e.ev = k
    BY <1>0, NamedEv
  <2>6. Tells(evq', Named("IDEV_MEDIA_OPEN"), Named("IDEV_MEDIA_CLOSE"),
              "IDEV" \in devStatus', spkStatus' \/ micStatus')
    <3>1. e \notin Named("IDEV_MEDIA_OPEN") \cup Named("IDEV_MEDIA_CLOSE")
      BY <1>1, <2>2 DEF UacEvents
    <3>2. "IDEV" \in devStatus <=> "IDEV" \in devStatus'
      BY <1>0
    <3>3. QED
      BY <1>0, <1>1, <2>0, <3>1, <3>2, TakeTells DEF WorldInv, IdevTold
  <2>7. /\ e.ev \notin WirelessNames
        /\ \A i \in DOMAIN es : es[i].ev \notin WirelessNames
    BY <1>1, <2>1 DEF UacEvents, WirelessNames
  <2>8. OdevTold'
    <3>1. PICK said \in BOOLEAN : OdevQueue("ODEV" \in devStatus, said) /\ OdevSaid(said)
      BY DEF WorldInv, OdevTold
    <3>2. OdevQueue("ODEV" \in devStatus, said)'
      BY <1>0, <2>0, <2>7, <3>1, SilentTake DEF OdevQueue, WirelessNames
    <3>3. OdevSaid(said)'
      BY <1>0, <3>1 DEF OdevReports, OdevSaid
    <3>4. QED
      BY <3>2, <3>3 DEF OdevTold
  <2>9. ConnTold'
    <3>1. PICK said \in BOOLEAN : ConnQueue(conn, said) /\ ConnSaid(said)
      BY DEF WorldInv, ConnTold
    <3>2. ConnQueue(conn, said)'
      BY <1>0, <2>0, <2>7, <3>1, SilentTake DEF ConnQueue, WirelessNames
    <3>3. ConnSaid(said)'
      BY <1>0, <3>1 DEF ConnReports, ConnSaid
    <3>4. QED
      BY <3>2, <3>3 DEF ConnTold
  <2>10. QED
    BY <1>0, <2>6, <2>8, <2>9 DEF WorldInv, IdevTold, SoundInv
<1>2. <<>> \in Seq(Event) /\ OpenRequest \in Seq(Event) /\ CloseRequest \in Seq(Event)
  BY UsbPostsTyped
<1>3. UNCHANGED streamVars
  BY <1>0 DEF HandleUac
<1>4. CASE e.ev = "PLAY_OPEN" /\ PlayOpened
  <2>1. spkStatus' = TRUE /\ micStatus' = micStatus
    BY <1>4 DEF PlayOpened
  <2>2. CASE micStatus /\ playParm
    <3>1. TakeAndPost(<<>>)
      BY <1>4, <2>2 DEF PlayOpened
    <3>2. Requests(<<>>)
      BY <1>3, <3>1 DEF Requests
    <3>3. Tells(<<>>, Named("IDEV_MEDIA_OPEN"), Named("IDEV_MEDIA_CLOSE"),
                spkStatus \/ micStatus, spkStatus' \/ micStatus')
      BY <2>1, <2>2, EmptyTells
    <3>4. QED
      BY <1>1, <1>2, <1>4, <2>1, <3>2, <3>3 DEF UacEvents
  <2>3. CASE ~(micStatus /\ playParm)
    <3>1. TakeAndPost(OpenRequest)
      BY <1>4, <2>3 DEF PlayOpened
    <3>2. Requests(OpenRequest)
      BY <1>3, <3>1 DEF Requests
    <3>3. Tells(OpenRequest, Named("IDEV_MEDIA_OPEN"), Named("IDEV_MEDIA_CLOSE"),
                spkStatus \/ micStatus, spkStatus' \/ micStatus')
      BY <2>1, <2>3, OpenTells
    <3>4. QED
      BY <1>1, <1>2, <1>4, <2>1, <3>2, <3>3 DEF UacEvents
  <2>4. QED
    BY <2>2, <2>3
<1>5. CASE e.ev = "PLAY_CLOSE" /\ PlayClosed
  <2>1. spkStatus' = FALSE /\ micStatus' = micStatus
    BY <1>5 DEF PlayClosed
  <2>2. CASE micStatus
    <3>1. TakeAndPost(<<>>)
      BY <1>5, <2>2 DEF PlayClosed
    <3>2. Requests(<<>>)
      BY <1>3, <3>1 DEF Requests
    <3>3. Tells(<<>>, Named("IDEV_MEDIA_OPEN"), Named("IDEV_MEDIA_CLOSE"),
                spkStatus \/ micStatus, spkStatus' \/ micStatus')
      BY <2>1, <2>2, EmptyTells
    <3>4. QED
      BY <1>1, <1>2, <1>5, <2>1, <3>2, <3>3 DEF UacEvents
  <2>3. CASE ~micStatus
    <3>1. TakeAndPost(CloseRequest)
      BY <1>5, <2>3 DEF PlayClosed
    <3>2. Requests(CloseRequest)
      BY <1>3, <3>1 DEF Requests
    <3>3. Tells(CloseRequest, Named("IDEV_MEDIA_OPEN"), Named("IDEV_MEDIA_CLOSE"),
                spkStatus \/ micStatus, spkStatus' \/ micStatus')
      BY <2>1, <2>3, CloseTells
    <3>4. QED
      BY <1>1, <1>2, <1>5, <2>1, <3>2, <3>3 DEF UacEvents
  <2>4. QED
    BY <2>2, <2>3
<1>6. CASE e.ev = "MIC_OPEN" /\ MicOpened
  <2>1. micStatus' = TRUE /\ spkStatus' = spkStatus
    BY <1>6 DEF MicOpened
  <2>2. CASE spkStatus
    <3>1. TakeAndPost(<<>>)
      BY <1>6, <2>2 DEF MicOpened
    <3>2. Requests(<<>>)
      BY <1>3, <3>1 DEF Requests
    <3>3. Tells(<<>>, Named("IDEV_MEDIA_OPEN"), Named("IDEV_MEDIA_CLOSE"),
                spkStatus \/ micStatus, spkStatus' \/ micStatus')
      BY <2>1, <2>2, EmptyTells
    <3>4. QED
      BY <1>1, <1>2, <1>6, <2>1, <3>2, <3>3 DEF UacEvents
  <2>3. CASE ~spkStatus
    <3>1. TakeAndPost(OpenRequest)
      BY <1>6, <2>3 DEF MicOpened
    <3>2. Requests(OpenRequest)
      BY <1>3, <3>1 DEF Requests
    <3>3. Tells(OpenRequest, Named("IDEV_MEDIA_OPEN"), Named("IDEV_MEDIA_CLOSE"),
                spkStatus \/ micStatus, spkStatus' \/ micStatus')
      BY <2>1, <2>3, OpenTells
    <3>4. QED
      BY <1>1, <1>2, <1>6, <2>1, <3>2, <3>3 DEF UacEvents
  <2>4. QED
    BY <2>2, <2>3
<1>7. CASE e.ev = "MIC_CLOSE" /\ MicClosed
  <2>1. micStatus' = FALSE /\ spkStatus' = spkStatus
    BY <1>7 DEF MicClosed
  <2>2. CASE spkStatus
    <3>1. TakeAndPost(<<>>)
      BY <1>7, <2>2 DEF MicClosed
    <3>2. Requests(<<>>)
      BY <1>3, <3>1 DEF Requests
    <3>3. Tells(<<>>, Named("IDEV_MEDIA_OPEN"), Named("IDEV_MEDIA_CLOSE"),
                spkStatus \/ micStatus, spkStatus' \/ micStatus')
      BY <2>1, <2>2, EmptyTells
    <3>4. QED
      BY <1>1, <1>2, <1>7, <2>1, <3>2, <3>3 DEF UacEvents
  <2>3. CASE ~spkStatus
    <3>1. TakeAndPost(CloseRequest)
      BY <1>7, <2>3 DEF MicClosed
    <3>2. Requests(CloseRequest)
      BY <1>3, <3>1 DEF Requests
    <3>3. Tells(CloseRequest, Named("IDEV_MEDIA_OPEN"), Named("IDEV_MEDIA_CLOSE"),
                spkStatus \/ micStatus, spkStatus' \/ micStatus')
      BY <2>1, <2>3, CloseTells
    <3>4. QED
      BY <1>1, <1>2, <1>7, <2>1, <3>2, <3>3 DEF UacEvents
  <2>4. QED
    BY <2>2, <2>3
<1>8. QED
  BY <1>0, <1>4, <1>5, <1>6, <1>7 DEF HandleUac

\* What the process makes of an event leaves no media open after an error.
LEMMA DispatchKeepsSound ==
    ASSUME AlwaysRun = FALSE, IInv, SoundInv, Dispatch
    PROVE  SoundInv'
<1> DEFINE e == Head(evq)
<1>0. mediaSel' = mediaSel /\ mediaSel = 0 /\ (media # NoMedia => ~cut)
  BY DEF Dispatch, SoundInv
<1>1. CASE IdevMediaOpen(e.val) \/ OdevMediaOpen
  <2>1. (MediaStart /\ cut' = FALSE) \/ UNCHANGED <<media, cut>>
    BY <1>1 DEF IdevMediaOpen, OdevMediaOpen, DeviceOpened, proVars
  <2>2. QED
    BY <1>0, <2>1 DEF SoundInv
<1>2. CASE IdevMediaClose \/ OdevMediaClose \/ MediaError \/ Close
  BY <1>0, <1>2 DEF IdevMediaClose, OdevMediaClose, MediaError, Close, MediaStop, SoundInv
<1>3. CASE UNCHANGED proVars
  BY <1>0, <1>3 DEF proVars, SoundInv
<1>4. QED
  BY <1>1, <1>2, <1>3 DEF Dispatch, Handle

\* An event of the process or of the application: their copies follow it.
LEMMA AdapterEventTold ==
    ASSUME AlwaysRun = FALSE, DeviceInv, ReportInv', WorldInv, AdapterEventStep
    PROVE  WorldInv'
<1> DEFINE e == Head(evq)
<1>0. /\ evq \in Seq(Event) /\ evq # <<>> /\ e \in Event
      /\ <<>> \in Seq(Event) /\ TakeAndPost(<<>>)
      /\ e.ev \notin UacEvents /\ Dispatch /\ IInv /\ SoundInv
      /\ devStatus \in SUBSET Both
      /\ UNCHANGED <<spkStatus, micStatus>>
  <2>1. evq \in Seq(Event) /\ IInv /\ SoundInv
    BY IInvParts DEF DeviceInv, WorldInv
  <2>2. Dispatch /\ e.ev \notin UacEvents /\ UNCHANGED usbVars
    BY DEF AdapterEventStep
  <2>3. evq # <<>> /\ TakeAndPost(<<>>)
    BY <2>2 DEF Dispatch, Taking
  <2>4. UNCHANGED <<spkStatus, micStatus>>
    BY <2>2 DEF usbVars, idevVars
  <2>5. e \in Event /\ <<>> \in Seq(Event)
    BY <2>1, <2>3, HeadTailProperties, EmptySeq
  <2>6. QED
    BY <2>1, <2>2, <2>3, <2>4, <2>5 DEF IInv, TypeOK
<1>1. \A k : e \in Named(k) <=> e.ev = k
  BY <1>0, NamedEv
<1>2. \A i \in DOMAIN <<>> : FALSE
  OBVIOUS
<1>4. IdevTold'
  <2>1. Tells(<<>>, Named("IDEV_MEDIA_OPEN"), Named("IDEV_MEDIA_CLOSE"),
              spkStatus \/ micStatus, spkStatus \/ micStatus)
    BY EmptyTells
  <2>2. /\ e \in Named("IDEV_MEDIA_OPEN") => "IDEV" \in devStatus'
        /\ e \in Named("IDEV_MEDIA_CLOSE") => ~("IDEV" \in devStatus')
        /\ e \notin Named("IDEV_MEDIA_OPEN") \cup Named("IDEV_MEDIA_CLOSE")
              => ("IDEV" \in devStatus <=> "IDEV" \in devStatus')
    BY <1>0, <1>1, DispatchMarks
  <2>3. Tells(evq', Named("IDEV_MEDIA_OPEN"), Named("IDEV_MEDIA_CLOSE"),
              "IDEV" \in devStatus', spkStatus \/ micStatus)
    BY <1>0, <2>1, <2>2, TakeTells DEF WorldInv, IdevTold
  <2>4. QED
    BY <1>0, <2>3 DEF IdevTold
<1>5. OtherStep /\ BleTypeOK /\ ReportInv
  <2>1. InitClient \/ UNCHANGED bleVars
    BY DEF AdapterEventStep
  <2>2. QED
    BY <2>1 DEF DeviceInv, BleInv, OtherStep, CallerStep
<1>7. OdevTold'
  <2>1. PICK said \in BOOLEAN : OdevQueue("ODEV" \in devStatus, said) /\ OdevSaid(said)
    BY DEF WorldInv, OdevTold
  <2>2. Tells(<<>>, Named("ODEV_MEDIA_OPEN"), Named("ODEV_MEDIA_CLOSE"), said, said)
    BY EmptyTells
  <2>3. /\ e \in Named("ODEV_MEDIA_OPEN") => "ODEV" \in devStatus'
        /\ e \in Named("ODEV_MEDIA_CLOSE") => ~("ODEV" \in devStatus')
        /\ e \notin Named("ODEV_MEDIA_OPEN") \cup Named("ODEV_MEDIA_CLOSE")
              => ("ODEV" \in devStatus <=> "ODEV" \in devStatus')
    BY <1>0, <1>1, DispatchMarks
  <2>4. Tells(evq', Named("ODEV_MEDIA_OPEN"), Named("ODEV_MEDIA_CLOSE"),
              "ODEV" \in devStatus', said)
    BY <1>0, <2>1, <2>2, <2>3, TakeTells DEF OdevQueue
  <2>5. OdevSaid(said)'
    BY <1>5, <2>1, SaidKept
  <2>6. QED
    BY <2>4, <2>5 DEF OdevTold, OdevQueue
<1>8. ConnTold'
  <2>1. PICK said \in BOOLEAN : ConnQueue(conn, said) /\ ConnSaid(said)
    BY DEF WorldInv, ConnTold
  <2>2. Tells(<<>>, Named("CONNECT"), Named("DISCONN"), said, said)
    BY EmptyTells
  <2>3. /\ e \in Named("CONNECT") => conn'
        /\ e \in Named("DISCONN") => ~conn'
        /\ e \notin Named("CONNECT") \cup Named("DISCONN") => (conn <=> conn')
    BY <1>1 DEF AdapterEventStep
  <2>4. Tells(evq', Named("CONNECT"), Named("DISCONN"), conn', said)
    BY <1>0, <2>1, <2>2, <2>3, TakeTells DEF ConnQueue
  <2>5. ConnSaid(said)'
    BY <1>5, <2>1, SaidKept
  <2>6. QED
    BY <2>4, <2>5 DEF ConnTold, ConnQueue
<1>9. SoundInv'
  BY <1>0, DispatchKeepsSound
<1>10. QED
  BY <1>4, <1>7, <1>8, <1>9 DEF WorldInv

\* The decoders' error and the request to switch off say nothing of the devices.
LEMMA NotifiedTold ==
    ASSUME DeviceInv, WorldInv, DecodeError \/ Notify(Ev("POWEROFF")),
           UNCHANGED <<usbVars, bleVars, usbStarted, conn>>
    PROVE  WorldInv'
<1>1. PICK n \in {"MEDIA_DECODE_ERR", "POWEROFF"} : evq' = evq \o <<Ev(n)>>
  BY DEF DecodeError, Notify, Post
<1>2. <<Ev(n)>> \in Seq(Event) /\ \A i \in DOMAIN <<Ev(n)>> : <<Ev(n)>>[i].ev = n
  <2>1. Ev(n) \in Event
    BY EvTyped DEF AdapterEvents
  <2>2. QED
    BY <2>1 DEF Ev
<1>3. /\ evq \in Seq(Event)
      /\ UNCHANGED <<spkStatus, micStatus>>
      /\ UNCHANGED <<devStatus, media, mediaSel, cut, conn>>
      /\ UNCHANGED <<hci, link, updated, appPc>>
  BY IInvParts DEF DeviceInv, DecodeError, Notify, usbVars, idevVars,
     bleVars, ctrlVars, callVars, proVars
<1>4. IdevTold'
  BY <1>1, <1>2, <1>3, IdevAside DEF WorldInv
<1>5. OdevTold' /\ ConnTold'
  BY <1>1, <1>2, <1>3, WirelessAside DEF WorldInv, WirelessNames
<1>6. QED
  BY <1>3, <1>4, <1>5 DEF WorldInv, SoundInv

\* Every step keeps the queues right about the world.
LEMMA WorldInvKept ==
    ASSUME AlwaysRun = FALSE, DeviceInv, DeviceInv', WorldInv, [DongleNext]_dongleVars
    PROVE  WorldInv'
<1>0. ReportInv'
  BY DEF DeviceInv, BleInv
<1>1. CASE UNCHANGED dongleVars
  BY <1>1 DEF dongleVars, vars, usbVars, idevVars, bleVars, ctrlVars, callVars, appVars,
     WorldInv, IdevTold, OdevTold, ConnTold, OdevQueue, ConnQueue, OdevSaid, ConnSaid,
     OdevReports, ConnReports, SoundInv
<1>2. CASE DongleNext
  BY <1>0, <1>2, StepKinds, IdevEventTold, AdapterEventTold, WirelessStepTold,
     StreamStepTold, NotifiedTold
<1>3. QED
  BY <1>1, <1>2

\* At the start nothing is open and nothing is told.
LEMMA WorldInvInit ==
    ASSUME DongleInit
    PROVE  WorldInv
<1>1. /\ evq = <<Ev("IDEV_INIT_OK"), Ev("ODEV_INIT_OK")>>
      /\ devStatus = {} /\ media = NoMedia /\ mediaSel = 0
      /\ spkStatus = FALSE /\ micStatus = FALSE
      /\ hci = <<>> /\ link = FALSE /\ conn = FALSE
  BY DEF DongleInit, ProInit, UsbInit, BleInit
<1>2. \A k : k \notin {"IDEV_INIT_OK", "ODEV_INIT_OK"} =>
         \A i \in DOMAIN evq : evq[i] \notin Named(k)
  BY <1>1, NamedEv DEF Ev, Named
<1>3. ASSUME NEW y, NEW n, NEW was, NEW is, was <=> is,
             y \notin {"IDEV_INIT_OK", "ODEV_INIT_OK"},
             n \notin {"IDEV_INIT_OK", "ODEV_INIT_OK"}
      PROVE  Tells(evq, Named(y), Named(n), was, is)
  <2>1. \A i \in DOMAIN evq : evq[i] \notin Named(y) \cup Named(n)
    BY <1>2, <1>3
  <2>2. QED
    BY <1>3, <2>1, SilentTells
<1>5. IdevTold
  <2>1. "IDEV" \in devStatus <=> spkStatus \/ micStatus
    BY <1>1
  <2>2. QED
    BY <1>3, <2>1 DEF IdevTold
<1>6. OdevTold
  <2>1. OdevQueue("ODEV" \in devStatus, FALSE)
    BY <1>1, <1>3 DEF OdevQueue
  <2>2. OdevSaid(FALSE)
    BY <1>1, EmptyTells DEF OdevReports, OdevSaid
  <2>3. QED
    BY <2>1, <2>2 DEF OdevTold
<1>7. ConnTold
  <2>1. ConnQueue(conn, FALSE)
    BY <1>1, <1>3 DEF ConnQueue
  <2>2. ConnSaid(FALSE)
    BY <1>1, EmptyTells DEF ConnReports, ConnSaid
  <2>3. QED
    BY <2>1, <2>2 DEF ConnTold
<1>8. QED
  BY <1>1, <1>5, <1>6, <1>7 DEF WorldInv, SoundInv

\* With nothing on its way the copies are the world.
LEMMA QuietAgrees ==
    ASSUME StreamsTold, WorldInv, Quiet
    PROVE  /\ "IDEV" \in devStatus <=> UsbOpen
           /\ "ODEV" \in devStatus <=> LinkReady
           /\ spkStatus <=> spkStream
           /\ micStatus <=> micStream /\ ~lost
           /\ conn <=> link
<1>1. evq = <<>> /\ hci = <<>> /\ appPc = "idle"
  BY DEF Quiet
<1>2. (spkStatus <=> spkStream) /\ (micStatus <=> micStream /\ ~lost)
  BY QuietStreams
<1>3. "IDEV" \in devStatus <=> spkStatus \/ micStatus
  <2>1. Tells(<<>>, Named("IDEV_MEDIA_OPEN"), Named("IDEV_MEDIA_CLOSE"),
              "IDEV" \in devStatus, spkStatus \/ micStatus)
    BY <1>1 DEF WorldInv, IdevTold
  <2>2. QED
    BY <2>1 DEF Tells, Pending, Answered
<1>4. "ODEV" \in devStatus <=> link /\ updated
  <2>1. PICK said \in BOOLEAN : OdevQueue("ODEV" \in devStatus, said) /\ OdevReports(said)
    BY <1>1 DEF WorldInv, OdevTold, OdevSaid
  <2>2. "ODEV" \in devStatus <=> said
    <3>1. Tells(<<>>, Named("ODEV_MEDIA_OPEN"), Named("ODEV_MEDIA_CLOSE"),
                "ODEV" \in devStatus, said)
      BY <1>1, <2>1 DEF OdevQueue
    <3>2. QED
      BY <3>1 DEF Tells, Pending, Answered
  <2>3. said <=> link /\ updated
    BY <1>1, <2>1, EmptyTells DEF OdevReports
  <2>4. QED
    BY <2>2, <2>3
<1>5. conn <=> link
  <2>1. PICK said \in BOOLEAN : ConnQueue(conn, said) /\ ConnReports(said)
    BY <1>1 DEF WorldInv, ConnTold, ConnSaid
  <2>2. conn <=> said
    BY <1>1, <2>1, EmptyTells DEF ConnQueue
  <2>3. said <=> link
    BY <1>1, <2>1, EmptyTells DEF ConnReports
  <2>4. QED
    BY <2>2, <2>3
<1>6. QED
  BY <1>2, <1>3, <1>4, <1>5 DEF UsbOpen, LinkReady

\* All of it together.
DongleInv == DeviceInv /\ StreamsTold /\ WorldInv

\* It holds at the start ...
LEMMA DongleInvInit ==
    ASSUME DongleInit
    PROVE  DongleInv
BY DeviceInvInit, StreamsToldInit, WorldInvInit DEF DongleInv

\* ... and every step keeps it.
LEMMA DongleInvKept ==
    ASSUME AlwaysRun = FALSE, DongleInv, [DongleNext]_dongleVars
    PROVE  DongleInv'
BY DeviceInvKept, StreamsToldKept, WorldInvKept DEF DongleInv

\* Where no board sets ALWAYS_RUN_STREAM, the copies agree with the world in every
\* quiet state: spk_status and mic_status with the streams, dev_status with what
\* the host has open and not lost, wireless_conn_status with the link.
THEOREM CopiesAlwaysAgree ==
    ASSUME AlwaysRun = FALSE
    PROVE  DongleSpec => []CopiesAgree
<1>1. DongleInit => DongleInv
  BY DongleInvInit
<1>2. DongleInv /\ [DongleNext]_dongleVars => DongleInv'
  BY DongleInvKept
<1>3. DongleInv => CopiesAgree
  <2>1. DeviceInv => /\ spkStatus \in BOOLEAN /\ spkStream \in BOOLEAN
                     /\ micStatus \in BOOLEAN /\ micStream \in BOOLEAN
                     /\ conn \in BOOLEAN /\ link \in BOOLEAN /\ lost \in BOOLEAN
    BY UsbTyped, BleTyped DEF DeviceInv, UsbVarsTyped, BleInv, BleVarsTyped
  <2>2. QED
    BY <2>1, QuietAgrees DEF CopiesAgree, DongleInv
<1>4. QED
  BY <1>1, <1>2, <1>3, PTL DEF DongleSpec

\* ... and then the sound is on exactly when the host has a stream open and the
\* peer has settled its link, unless a decoder gave up.
THEOREM MediaAlwaysFollows ==
    ASSUME AlwaysRun = FALSE
    PROVE  DongleSpec => []MediaFollowsWorld
<1>1. DongleInit => DongleInv
  BY DongleInvInit
<1>2. DongleInv /\ [DongleNext]_dongleVars => DongleInv'
  BY DongleInvKept
<1>3. ASSUME DongleInv, Quiet
      PROVE  media # NoMedia <=> UsbOpen /\ LinkReady /\ ~cut
  <2>1. "IDEV" \in devStatus <=> UsbOpen
    BY <1>3, QuietAgrees DEF DongleInv
  <2>2. "ODEV" \in devStatus <=> LinkReady
    BY <1>3, QuietAgrees DEF DongleInv
  <2>3. ASSUME media # NoMedia PROVE devStatus = Both /\ ~cut
    BY <1>3, <2>3 DEF DongleInv, DeviceInv, IInv, MediaNeedsBoth, WorldInv, SoundInv
  <2>4. ASSUME devStatus = Both, ~cut PROVE media # NoMedia
    <3>1. running /\ ~CloseWaiting
      BY <1>3 DEF Quiet, CloseWaiting
    <3>2. ~(mediaSel >= ListNum)
      BY <1>3, ListNumAssumption DEF DongleInv, WorldInv, SoundInv
    <3>3. QED
      BY <1>3, <2>4, <3>1, <3>2 DEF DongleInv, DeviceInv, IInv, SilenceExplained
  <2>5. devStatus = Both <=> "IDEV" \in devStatus /\ "ODEV" \in devStatus
    BY <1>3 DEF DongleInv, DeviceInv, IInv, TypeOK, Both
  <2>6. QED
    BY <2>1, <2>2, <2>3, <2>4, <2>5
<1>4. DongleInv => MediaFollowsWorld
  BY <1>3 DEF MediaFollowsWorld
<1>5. QED
  BY <1>1, <1>2, <1>4, PTL DEF DongleSpec
===============================================================================
