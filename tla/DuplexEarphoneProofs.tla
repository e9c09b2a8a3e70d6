-------------------------- MODULE DuplexEarphoneProofs -------------------------
(***************************************************************************)
(* What the earphone guarantees for every length of its event queue, any   *)
(* number of moves of its environment, every set of builds, media,         *)
(* selections and volumes.                                                 *)
(*                                                                         *)
(* The controller's reports correct con_handle and the packet handlers     *)
(* registered; the steps left of a call correct adv_ctrl_en and the state  *)
(* the server advertises in; the adapter events correct                    *)
(* wireless_conn_status and dev_status.  Each part of the invariant says   *)
(* what one of these queues still tells.                                   *)
(*                                                                         *)
(* ServerInv speaks of the BLE server alone, SoundInv and VolumeInv of its *)
(* part in the earphone.                                                   *)
(***************************************************************************)
EXTENDS DuplexEarphone, AdapterProcessProofs

-------------------------------------------------------------------------------
(* The server: whatever interrupts a call.                                   *)

\* Before the input device is started, nothing has begun.
NothingBegun ==
    state = "NULL" => /\ todo = <<>> /\ hci = <<>>
                      /\ ~conHandle /\ ~link /\ ~adv
                      /\ private = userPrivate

\* The stack will have heard of the link.
HandleTold == Tells(hci, {"CONN"}, {"DISCONNECTED"}, conHandle, link)

\* What the peer does on its link is reported while con_handle is set: the
\* report of its connection is handled before, that of its end after.
Talk == {"UPDATE", "CCC", "ENCRYPTED"}
TalkIn(q, linked) ==
    \A i \in DOMAIN q :
        q[i] \in Talk =>
            /\ linked \/ \E j \in DOMAIN q : j < i /\ q[j] = "CONN"
            /\ \A k \in DOMAIN q :
                  k < i /\ q[k] = "DISCONNECTED"
                      => \E j \in DOMAIN q : k < j /\ j < i /\ q[j] = "CONN"
TalkInLink == TalkIn(hci, conHandle)

\* Profiles that differ will be switched, by the end of the link or the call.
ProfileTold == private # userPrivate => conHandle \/ Pending(todo, {"swTest", "reset"})

\* The controller does not advertise while it is connected.
AdvertisesAlone == adv => ~link

\* The plain build's calls do not select the media.
PlainNeverSelects == ~emf => ~Pending(todo, {"selectRadio", "selectUsb"})

-------------------------------------------------------------------------------
(* The server while no report has interrupted a call.                        *)

\* The rest of the call leaves the switch as its caller, or a switch of profiles
\* that waits for the end of the link, wants it.
SwitchTold ==
    IF Pending(todo, {"swTest"})
    THEN todo = <<"swTest">> /\ wish /\ (conHandle => SwitchPending)
    ELSE Tells(todo, {"ctrlOn"}, {"ctrlOff", "offTest"}, advCtrlEn,
               wish /\ ~SwitchPending)

\* Only the caller who asks for another profile leaves the switch to the end of
\* the link, and he wants the module on.
SwitchWished == SwitchPending => wish

\* The steps that follow a test of con_handle find it as it was tested.
TestsHold ==
    /\ conHandle => ~Pending(todo, {"advSet1", "advSet0", "reset"})
    /\ ~conHandle => ~Pending(todo, {"discSet"})

\* With a link the server does not advertise, and a link it wants to end will.
LinkedInv ==
    /\ state # "ADV"
    /\ state = "SEND_DISCONN" => Pending(hci, {"DISCONNECTED"})

\* Without a link: the rest of the call leaves the state as its caller wants it.
StateTold ==
    Tells(todo, {"advTest1", "advSet1", "swTest"}, {"advTest0", "advSet0", "offTest"},
          state = "ADV", wish)

\* The steps of a call come in an order in which each finds what it needs:
\* an attempt to advertise finds the switch on, ...
AdvOnPlaced ==
    \A i \in DOMAIN todo :
        /\ todo[i] = "advTest1" =>
              \/ i > 1 /\ todo[i - 1] = "ctrlOn"
              \/ advCtrlEn /\ i = 1
              \/ advCtrlEn /\ i = 2 /\ todo[1] \in {"advTest0", "advSet0"}
        /\ todo[i] = "advSet1" => i = 1 /\ advCtrlEn

\* ... the switch goes off, and the controller is reset, once the server does not
\* advertise any more.
OffPlaced ==
    \A i \in DOMAIN todo :
        /\ todo[i] = "ctrlOff" =>
              \/ i = 1 /\ state # "ADV"
              \/ i > 1 /\ todo[i - 1] \in {"advTest0", "advSet0"}
        /\ todo[i] = "reset" =>
              \/ i = 1 /\ state # "ADV"
              \/ i > 1 /\ todo[i - 1] \in {"offTest", "ctrlOff"}

UnlinkedInv ==
    /\ state \in AdvStates
    /\ state = "ADV" => advCtrlEn
    /\ StateTold
    /\ AdvOnPlaced
    /\ OffPlaced
    /\ ~link /\ ~Pending(hci, {"CONN"}) => (adv <=> state = "ADV")

\* A link of the private profile has its bond, or will end.
BondInv ==
    emf /\ private /\ conHandle =>
        \/ pairFlag /\ pairVm
        \/ Pending(hci, {"DISCONNECTED"})
        \/ todo # <<>> /\ Head(todo) = "store" /\ Len(todo) > 1 /\ todo[2] = "pairAct"
                       /\ ~pairFlag
        \/ todo # <<>> /\ Head(todo) \in {"pairAct", "discTest", "discSet"}

CallInv ==
    state # "NULL" =>
        /\ SwitchTold
        /\ SwitchWished
        /\ TestsHold
        /\ conHandle => LinkedInv
        /\ ~conHandle => UnlinkedInv
        /\ BondInv

ServerInv ==
    /\ SrvTypeOK
    /\ NothingBegun
    /\ HandleTold
    /\ TalkInLink
    /\ ProfileTold
    /\ AdvertisesAlone
    /\ PlainNeverSelects
    /\ ~raced => CallInv

-------------------------------------------------------------------------------
(* The earphone.                                                             *)

\* The devices report that they are initialised once, the input device first.
StartsOnce ==
    \A i \in DOMAIN evq :
        /\ evq[i].ev = "IDEV_INIT_OK" =>
              i = 1 /\ state = "NULL" /\ Pending(evq, Named("ODEV_INIT_OK"))

\* The volumes commanded.
VolsWaiting == \A i \in DOMAIN evq : evq[i].ev = "SET_MUSIC_VOL" => evq[i].val \in Vols

\* What the stack said last of the link (said: that it is ready for sound) will be
\* corrected by the reports.
StackSaid(said) ==
    /\ state = "NULL" => ~ended
    /\ state = "UPDATE_OK" => said
    /\ state = "DISCONN" => ~said /\ ended
    /\ private => Tells(hci, {"UPDATE"}, {"DISCONNECTED"}, said, link /\ settled)
    /\ ~private => ~said \/ Pending(hci, {"DISCONNECTED"})
    /\ ~link => Answered(hci, {"UPDATE"}, {"DISCONNECTED"})

\* app_core will have heard it; with it the input device opens and, in the plain
\* build, with its end it closes.
AppTold(said) ==
    /\ Tells(evq, Named("CONNECT"), Named("DISCONN"), conn, said)
    /\ said => Tells(evq, Named("IDEV_MEDIA_OPEN"), Named("IDEV_MEDIA_CLOSE"),
                     "IDEV" \in devStatus, TRUE)
    /\ ~emf /\ ended /\ ~said
        => Tells(evq, Named("IDEV_MEDIA_OPEN"), Named("IDEV_MEDIA_CLOSE"),
                 "IDEV" \in devStatus, FALSE)

LinkTold == \E said \in BOOLEAN : StackSaid(said) /\ AppTold(said)

\* The DAC opens and stays open.
OdevTold ==
    running => \/ Pending(evq, Named("ODEV_INIT_OK"))
               \/ Tells(evq, Named("ODEV_MEDIA_OPEN"), Named("ODEV_MEDIA_CLOSE"),
                        "ODEV" \in devStatus, TRUE)

SoundInv == LinkTold /\ OdevTold

\* The DAC of the plain build opens once, before any volume is commanded.
OdevOpens == {"ODEV_INIT_OK", "ODEV_MEDIA_OPEN"}
OpensOnce ==
    \A i \in DOMAIN evq :
        evq[i].ev \in OdevOpens =>
            /\ "ODEV" \notin devStatus
            /\ curVol = NoVol
            /\ \A j \in DOMAIN evq : /\ evq[j].ev \in OdevOpens => j = i
                                     /\ evq[j].ev # "SET_MUSIC_VOL"

\* A start of the media finds no volume remembered, or a tone playing.
StartsForgotten ==
    \A i \in DOMAIN evq :
        evq[i].ev = "IDEV_MEDIA_OPEN" =>
            \/ i > 1 /\ evq[i - 1].ev = "CONNECT"
            \/ i = 1 /\ (tone \/ curVol = NoVol)
            \/ Pending(evq, Named("ODEV_INIT_OK"))
            \/ \E j \in DOMAIN evq : j > i /\ evq[j].ev = "ODEV_MEDIA_OPEN"

VolumeInv ==
    /\ tone \/ media = NoMedia => decVol = NoVol
    /\ ~tone /\ decVol # NoVol => curVol \in {NoVol, decVol}
    /\ emf => curVol = NoVol /\ ~Pending(evq, Named("SET_MUSIC_VOL"))
    /\ ~emf /\ running => OpensOnce /\ StartsForgotten

EarVarsTyped ==
    /\ conn \in BOOLEAN /\ tone \in BOOLEAN /\ stopped \in BOOLEAN /\ ended \in BOOLEAN
    /\ hostVol \in Vols
    /\ curVol \in Vols \cup {NoVol}
    /\ decVol \in Vols \cup {NoVol, DefaultVol}
    /\ inputs \in 0..InputMax

EarInv ==
    /\ IInv
    /\ ServerInv
    /\ EarVarsTyped
    /\ StartsOnce
    /\ VolsWaiting

-------------------------------------------------------------------------------
(* The steps that touch the server.                                          *)

\* Typed is typed, variable by variable.
SrvVarsTyped ==
    /\ state \in States
    /\ emf \in BOOLEAN /\ advCtrlEn \in BOOLEAN /\ conHandle \in BOOLEAN
    /\ pairFlag \in BOOLEAN /\ pairVm \in BOOLEAN
    /\ userPrivate \in BOOLEAN /\ private \in BOOLEAN
    /\ adv \in BOOLEAN /\ link \in BOOLEAN /\ settled \in BOOLEAN
    /\ wish \in BOOLEAN /\ raced \in BOOLEAN
    /\ todo \in Seq(Steps)
    /\ hci \in Seq(Reports)

\* The type invariant of the server, and variable by variable.
LEMMA SrvTyped == (SrvTypeOK <=> SrvVarsTyped) /\ (SrvTypeOK' <=> SrvVarsTyped')
BY DEF SrvTypeOK, SrvVarsTyped

\* The server's part of hal_bt_enable's last step.
SelectDone ==
    /\ Step("selectRadio") \/ Step("selectUsb")
    /\ Then(<<>>)
    /\ UNCHANGED <<emf, hostVars, ctrlVars, histVars>>

CallBegins == UserCall \/ CallStop
Radio == CtrlConnect \/ PeerSettles \/ CtrlLinkLoss

SrvStep ==
    \/ state = "NULL" /\ InitServer
    \/ CallBegins
    \/ CallStep
    \/ SelectDone
    \/ PacketHandler
    \/ Radio
    \/ UNCHANGED srvVars

\* Whatever the earphone does is one of them for the server.
LEMMA EarStepSrv ==
    ASSUME evq \in Seq(Event), StartsOnce, [EarNext]_earphoneVars
    PROVE  SrvStep
<1>1. CASE DeviceStarts
  <2>1. CASE Head(evq).ev = "IDEV_INIT_OK" /\ InitServer
    <3>1. evq # <<>>
      BY <1>1 DEF DeviceStarts, Taking
    <3>2. 1 \in DOMAIN evq /\ evq[1].ev = "IDEV_INIT_OK"
      BY <2>1, <3>1, TailElements
    <3>3. QED
      BY <2>1, <3>2 DEF StartsOnce, SrvStep
  <2>2. CASE UNCHANGED srvVars
    BY <2>2 DEF SrvStep
  <2>3. QED
    BY <1>1, <2>1, <2>2 DEF DeviceStarts
<1>2. CASE EventStep \/ ToneEnd \/ CommandParse
  <2>1. UNCHANGED srvVars
    BY <1>2 DEF EventStep, ToneEnd, CommandParse
  <2>2. QED
    BY <2>1 DEF SrvStep
<1>3. CASE StopDevices
  BY <1>3 DEF StopDevices, SrvStep, CallBegins
<1>4. CASE StackStep
  BY <1>4 DEF StackStep, SrvStep
<1>5. CASE CallerStep
  BY <1>5 DEF CallerStep, SrvStep
<1>6. CASE SelectStep
  <2>1. SelectDone
    BY <1>6 DEF SelectStep, SelectDone
  <2>2. QED
    BY <2>1 DEF SrvStep
<1>7. CASE RadioStep
  BY <1>7 DEF RadioStep, SrvStep, Radio
<1>8. CASE LinkLossMove
  BY <1>8 DEF LinkLossMove, SrvStep, Radio
<1>9. CASE UserMove
  BY <1>9 DEF UserMove, SrvStep, CallBegins
<1>10. CASE DecoderMove \/ PowerOffMove \/ VolumeMove
  <2>1. UNCHANGED srvVars
    BY <1>10 DEF DecoderMove, PowerOffMove, VolumeMove
  <2>2. QED
    BY <2>1 DEF SrvStep
<1>11. CASE UNCHANGED earphoneVars
  <2>1. UNCHANGED srvVars
    BY <1>11 DEF earphoneVars
  <2>2. QED
    BY <2>1 DEF SrvStep
<1>12. QED
  BY <1>1, <1>2, <1>3, <1>4, <1>5, <1>6, <1>7, <1>8, <1>9, <1>10, <1>11
     DEF EarNext, Firmware, Environment

-------------------------------------------------------------------------------
(* The link and the reports of it.                                           *)

\* What happens to the link, to its reports and to what the stack knows of it.
LinkSame == UNCHANGED <<hci, link, conHandle>>
LinkMade == ~link /\ link' = TRUE /\ hci' = Append(hci, "CONN") /\ UNCHANGED conHandle
LinkEnds ==
    link /\ link' = FALSE /\ hci' = Append(hci, "DISCONNECTED") /\ UNCHANGED conHandle
LinkTalks ==
    /\ link /\ link' = TRUE
    /\ \E r \in Talk : hci' = Append(hci, r)
    /\ UNCHANGED conHandle
Believed(believes) ==
    /\ Head(hci) = "CONN" => believes
    /\ Head(hci) = "DISCONNECTED" => ~believes
    /\ Head(hci) \in Talk => (conHandle <=> believes)
ReportTaken ==
    hci # <<>> /\ hci' = Tail(hci) /\ UNCHANGED link /\ Believed(conHandle')
ReportReset ==
    /\ hci # <<>> /\ Believed(conHandle') /\ Head(hci) = "DISCONNECTED"
    /\ link /\ link' = FALSE /\ hci' = Append(Tail(hci), "DISCONNECTED")

LinkKinds ==
    LinkSame \/ LinkMade \/ LinkEnds \/ LinkTalks \/ ReportTaken \/ ReportReset

\* Resetting the controller ends a link there is.
LEMMA ResetEnds ==
    ASSUME link \in BOOLEAN, NEW q, LlReset(q)
    PROVE  IF link THEN link' = FALSE /\ hci' = Append(q, "DISCONNECTED")
                   ELSE link' = link /\ hci' = q
BY DEF LlReset

\* A step of a call ends the link, or leaves it.
LEMMA CallLink ==
    ASSUME SrvVarsTyped, CallStep \/ SelectDone
    PROVE  LinkSame \/ LinkEnds
<1> USE DEF LinkSame, LinkEnds, SrvVarsTyped
<1>1. CASE SetCtrl \/ AdvTest \/ AdvSet
  BY <1>1 DEF SetCtrl, AdvTest, AdvSet, hostVars, ctrlVars
<1>2. CASE OffTest \/ DiscTest \/ PairAct \/ SwTest \/ SelectDone
  BY <1>2 DEF OffTest, DiscTest, PairAct, SwTest, SelectDone, hostVars, ctrlVars
<1>3. CASE Forget \/ Store
  BY <1>3 DEF Forget, Store, ctrlVars
<1>4. CASE DiscSet
  BY <1>4 DEF DiscSet
<1>5. CASE Reset
  BY <1>5, ResetEnds DEF Reset
<1>6. QED
  BY <1>1, <1>2, <1>3, <1>4, <1>5 DEF CallStep

\* The packet handlers take a report and believe it.
LEMMA PacketLink ==
    ASSUME SrvVarsTyped, PacketHandler
    PROVE  ReportTaken \/ ReportReset
<1> USE DEF SrvVarsTyped
<1>0. hci # <<>>
  BY DEF PacketHandler
<1>1. CASE Head(hci) = "CONN" /\ Connected /\ hci' = Tail(hci) /\ UNCHANGED link
  BY <1>0, <1>1 DEF Connected, ReportTaken, Believed, Talk
<1>2. CASE Head(hci) = "UPDATE" /\ Updated /\ hci' = Tail(hci) /\ UNCHANGED link
  BY <1>0, <1>2 DEF Updated, ReportTaken, Believed, Talk
<1>3. CASE Head(hci) = "CCC" /\ CccWritten /\ hci' = Tail(hci) /\ UNCHANGED link
  BY <1>0, <1>3 DEF CccWritten, ReportTaken, Believed, Talk
<1>4. CASE Head(hci) = "ENCRYPTED" /\ Encrypted /\ hci' = Tail(hci) /\ UNCHANGED link
  BY <1>0, <1>4 DEF Encrypted, ReportTaken, Believed, Talk
<1>5. CASE Head(hci) = "DISCONNECTED" /\ Disconnected
  <2>1. conHandle' = FALSE /\ Believed(conHandle')
    BY <1>5 DEF Disconnected, Believed, Talk
  <2>2. CASE private # userPrivate
    <3>1. LlReset(Tail(hci))
      BY <1>5, <2>2 DEF Disconnected
    <3>2. QED
      BY <1>0, <1>5, <2>1, <3>1, ResetEnds DEF ReportTaken, ReportReset
  <2>3. CASE private = userPrivate
    <3>1. hci' = Tail(hci) /\ UNCHANGED link
      BY <1>5, <2>3 DEF Disconnected
    <3>2. QED
      BY <1>0, <2>1, <3>1 DEF ReportTaken
  <2>4. QED
    BY <2>2, <2>3
<1>6. QED
  BY <1>1, <1>2, <1>3, <1>4, <1>5 DEF PacketHandler

\* Every step of the server is of one of these kinds.
LEMMA SrvLink ==
    ASSUME SrvVarsTyped, AdvertisesAlone, SrvStep
    PROVE  LinkKinds
<1> USE DEF LinkKinds
<1>1. CASE InitServer
  BY <1>1 DEF InitServer, LinkSame
<1>2. CASE CallBegins
  <2>1. PICK steps, on : Call(steps, on)
    BY <1>2 DEF CallBegins, UserCall, CallOn, CallOff, CallDisconnect, CallEnterPair,
                CallDebond, CallSwitch, CallStop
  <2>2. QED
    BY <2>1 DEF Call, ctrlVars, LinkSame
<1>3. CASE CallStep \/ SelectDone
  BY <1>3, CallLink
<1>4. CASE PacketHandler
  BY <1>4, PacketLink
<1>5. CASE CtrlConnect
  <2>1. ~link
    BY <1>5 DEF CtrlConnect, AdvertisesAlone
  <2>2. QED
    BY <1>5, <2>1 DEF CtrlConnect, hostVars, LinkMade
<1>6. CASE PeerSettles
  BY <1>6 DEF PeerSettles, hostVars, LinkTalks, Talk
<1>7. CASE CtrlLinkLoss
  BY <1>7 DEF CtrlLinkLoss, hostVars, LinkEnds
<1>8. CASE UNCHANGED srvVars
  BY <1>8 DEF srvVars, hostVars, ctrlVars, LinkSame
<1>9. QED
  BY <1>1, <1>2, <1>3, <1>4, <1>5, <1>6, <1>7, <1>8 DEF SrvStep, Radio

\* The stack goes on being told of the link.
LEMMA HandleKept ==
    ASSUME SrvVarsTyped, LinkKinds, HandleTold
    PROVE  HandleTold' /\ hci' \in Seq(Reports)
<1> USE DEF HandleTold, SrvVarsTyped, Reports
<1>1. CASE LinkSame
  BY <1>1 DEF LinkSame
<1>2. CASE LinkMade \/ LinkEnds \/ LinkTalks
  <2>1. PICK r \in Reports : /\ hci' = Append(hci, r)
                             /\ r = "CONN" => link'
                             /\ r = "DISCONNECTED" => ~link'
                             /\ r \notin {"CONN", "DISCONNECTED"} => link' = link
    BY <1>2 DEF LinkMade, LinkEnds, LinkTalks, Talk
  <2>2. Tells(hci', {"CONN"}, {"DISCONNECTED"}, conHandle, link')
    BY <2>1, AppendTells
  <2>3. QED
    BY <1>2, <2>1, <2>2, AppendProperties DEF LinkMade, LinkEnds, LinkTalks
<1>3. CASE ReportTaken \/ ReportReset
  <2>1. Tells(Tail(hci), {"CONN"}, {"DISCONNECTED"}, conHandle', link)
        /\ Tail(hci) \in Seq(Reports)
    <3>1. hci # <<>> /\ Believed(conHandle') /\ Head(hci) \in Reports
      BY <1>3, HeadTailProperties DEF ReportTaken, ReportReset
    <3>2. /\ Head(hci) \in {"CONN"} => conHandle'
          /\ Head(hci) \in {"DISCONNECTED"} => ~conHandle'
          /\ Head(hci) \notin {"CONN"} \cup {"DISCONNECTED"} => (conHandle <=> conHandle')
      BY <3>1 DEF Believed, Talk
    <3>3. QED
      BY <3>1, <3>2, TailTells, HeadTailProperties
  <2>2. CASE ReportTaken
    BY <2>1, <2>2 DEF ReportTaken
  <2>3. CASE ReportReset
    <3>1. Tells(Append(Tail(hci), "DISCONNECTED"), {"CONN"}, {"DISCONNECTED"},
                conHandle', FALSE)
      BY <2>1, AppendTells
    <3>2. QED
      BY <2>1, <2>3, <3>1, AppendProperties DEF ReportReset
  <2>4. QED
    BY <1>3, <2>2, <2>3
<1>4. QED
  BY <1>1, <1>2, <1>3 DEF LinkKinds

\* A link's talk stays within it when a report is taken ...
LEMMA TalkTail ==
    ASSUME hci \in Seq(Reports), hci # <<>>, NEW now, TalkInLink, Believed(now)
    PROVE  TalkIn(Tail(hci), now)
<1> SUFFICES ASSUME NEW i \in DOMAIN Tail(hci), Tail(hci)[i] \in Talk
             PROVE  /\ now \/ \E j \in DOMAIN Tail(hci) : j < i /\ Tail(hci)[j] = "CONN"
                    /\ \A k \in DOMAIN Tail(hci) :
                          k < i /\ Tail(hci)[k] = "DISCONNECTED"
                            => \E j \in DOMAIN Tail(hci) :
                                  k < j /\ j < i /\ Tail(hci)[j] = "CONN"
  BY DEF TalkIn
<1>1. /\ i \in Nat /\ i + 1 \in DOMAIN hci /\ hci[i + 1] \in Talk
      /\ Head(hci) = hci[1] /\ 1 \in DOMAIN hci /\ Head(hci) \in Reports
      /\ i >= 1
  <2>1. i \in Nat /\ i + 1 \in DOMAIN hci /\ hci[i + 1] \in Talk
    BY TailElements
  <2>2. Head(hci) = hci[1] /\ 1 \in DOMAIN hci /\ Head(hci) \in Reports
    BY TailElements
  <2>3. DOMAIN Tail(hci) = 1..Len(Tail(hci))
    BY HeadTailProperties, LenProperties
  <2>4. QED
    BY <2>1, <2>2, <2>3
<1>2. /\ conHandle \/ \E j \in DOMAIN hci : j < i + 1 /\ hci[j] = "CONN"
      /\ \A k \in DOMAIN hci :
            k < i + 1 /\ hci[k] = "DISCONNECTED"
               => \E j \in DOMAIN hci : k < j /\ j < i + 1 /\ hci[j] = "CONN"
  BY <1>1 DEF TalkInLink, TalkIn
<1>3. ASSUME NEW j \in DOMAIN hci, j # 1, j < i + 1
      PROVE  j - 1 \in DOMAIN Tail(hci) /\ j - 1 < i /\ Tail(hci)[j - 1] = hci[j] /\ j \in Nat
  BY <1>1, <1>3, TailElements
<1>4. now \/ \E j \in DOMAIN Tail(hci) : j < i /\ Tail(hci)[j] = "CONN"
  <2>1. CASE Head(hci) = "DISCONNECTED"
    <3>1. PICK j \in DOMAIN hci : 1 < j /\ j < i + 1 /\ hci[j] = "CONN"
      BY <1>1, <1>2, <2>1
    <3>2. QED
      BY <1>3, <3>1
  <2>2. CASE Head(hci) = "CONN"
    BY <2>2 DEF Believed
  <2>3. CASE Head(hci) \in Talk
    <3>1. conHandle <=> now
      BY <2>3 DEF Believed
    <3>2. CASE \E j \in DOMAIN hci : j < i + 1 /\ hci[j] = "CONN"
      <4>1. PICK j \in DOMAIN hci : j < i + 1 /\ hci[j] = "CONN"
        BY <3>2
      <4>2. j # 1
        BY <1>1, <2>3, <4>1 DEF Talk
      <4>3. QED
        BY <1>3, <4>1, <4>2
    <3>3. QED
      BY <1>2, <3>1, <3>2
  <2>4. QED
    BY <1>1, <2>1, <2>2, <2>3 DEF Reports, Talk
<1>5. ASSUME NEW k \in DOMAIN Tail(hci), k < i, Tail(hci)[k] = "DISCONNECTED"
      PROVE  \E j \in DOMAIN Tail(hci) : k < j /\ j < i /\ Tail(hci)[j] = "CONN"
  <2>1. k \in Nat /\ k + 1 \in DOMAIN hci /\ hci[k + 1] = "DISCONNECTED" /\ k + 1 < i + 1
    BY <1>1, <1>5, TailElements
  <2>2. PICK j \in DOMAIN hci : k + 1 < j /\ j < i + 1 /\ hci[j] = "CONN"
    BY <1>2, <2>1
  <2>3. j # 1
    BY <2>1, <2>2
  <2>4. QED
    BY <1>3, <2>1, <2>2, <2>3
<1>6. QED
  BY <1>4, <1>5

\* ... and when one is made, of the link's talk only while it is up.
LEMMA TalkAppend ==
    ASSUME NEW q \in Seq(Reports), NEW r \in Reports, NEW linked, TalkIn(q, linked),
           r \in Talk => Tells(q, {"CONN"}, {"DISCONNECTED"}, linked, TRUE)
    PROVE  TalkIn(Append(q, r), linked)
<1> DEFINE p == Append(q, r)
<1> SUFFICES ASSUME NEW i \in DOMAIN p, p[i] \in Talk
             PROVE  /\ linked \/ \E j \in DOMAIN p : j < i /\ p[j] = "CONN"
                    /\ \A k \in DOMAIN p :
                          k < i /\ p[k] = "DISCONNECTED"
                            => \E j \in DOMAIN p : k < j /\ j < i /\ p[j] = "CONN"
  BY DEF TalkIn
<1>1. /\ Len(q) \in Nat /\ p[Len(q) + 1] = r
      /\ \A j \in DOMAIN q : j \in Nat /\ j <= Len(q) /\ j \in DOMAIN p /\ p[j] = q[j]
      /\ \A j \in DOMAIN p : j \in DOMAIN q \/ j = Len(q) + 1
  BY AppendElements
<1>2. CASE i \in DOMAIN q
  <2>1. q[i] \in Talk
    BY <1>1, <1>2
  <2>2. /\ linked \/ \E j \in DOMAIN q : j < i /\ q[j] = "CONN"
        /\ \A k \in DOMAIN q :
              k < i /\ q[k] = "DISCONNECTED"
                 => \E j \in DOMAIN q : k < j /\ j < i /\ q[j] = "CONN"
    BY <1>2, <2>1 DEF TalkIn
  <2>3. linked \/ \E j \in DOMAIN p : j < i /\ p[j] = "CONN"
    BY <1>1, <2>2
  <2>4. ASSUME NEW k \in DOMAIN p, k < i, p[k] = "DISCONNECTED"
        PROVE  \E j \in DOMAIN p : k < j /\ j < i /\ p[j] = "CONN"
    <3>1. k \in DOMAIN q /\ q[k] = "DISCONNECTED"
      BY <1>1, <1>2, <2>4
    <3>2. PICK j \in DOMAIN q : k < j /\ j < i /\ q[j] = "CONN"
      BY <2>2, <2>4, <3>1
    <3>3. QED
      BY <1>1, <3>2
  <2>5. QED
    BY <2>3, <2>4
<1>3. CASE i = Len(q) + 1
  <2>1. /\ linked \/ Pending(q, {"CONN"})
        /\ Answered(q, {"DISCONNECTED"}, {"CONN"})
    BY <1>1, <1>3 DEF Tells
  <2>2. linked \/ \E j \in DOMAIN p : j < i /\ p[j] = "CONN"
    BY <1>1, <1>3, <2>1 DEF Pending
  <2>3. ASSUME NEW k \in DOMAIN p, k < i, p[k] = "DISCONNECTED"
        PROVE  \E j \in DOMAIN p : k < j /\ j < i /\ p[j] = "CONN"
    <3>1. k \in DOMAIN q /\ q[k] \in {"DISCONNECTED"}
      BY <1>1, <1>3, <2>3
    <3>2. PICK j \in DOMAIN q : j > k /\ q[j] \in {"CONN"}
      BY <2>1, <3>1 DEF Answered
    <3>3. QED
      BY <1>1, <1>3, <3>1, <3>2
  <2>4. QED
    BY <2>2, <2>3
<1>4. QED
  BY <1>1, <1>2, <1>3

\* What the peer does on its link stays within it.
LEMMA TalkKept ==
    ASSUME SrvVarsTyped, LinkKinds, HandleTold, TalkInLink
    PROVE  TalkInLink'
<1> USE DEF SrvVarsTyped, TalkInLink
<1>1. CASE LinkSame
  BY <1>1 DEF LinkSame
<1>2. CASE LinkMade \/ LinkEnds
  <2>1. PICK r \in Reports \ Talk : hci' = Append(hci, r) /\ conHandle' = conHandle
    BY <1>2 DEF LinkMade, LinkEnds, Talk, Reports
  <2>2. TalkIn(Append(hci, r), conHandle)
    BY <2>1, TalkAppend
  <2>3. QED
    BY <2>1, <2>2
<1>3. CASE LinkTalks
  <2>1. PICK r \in Talk : hci' = Append(hci, r) /\ conHandle' = conHandle /\ link
    BY <1>3 DEF LinkTalks
  <2>2. Tells(hci, {"CONN"}, {"DISCONNECTED"}, conHandle, TRUE) /\ r \in Reports
    BY <2>1 DEF HandleTold, Talk, Reports
  <2>3. TalkIn(Append(hci, r), conHandle)
    BY <2>2, TalkAppend
  <2>4. QED
    BY <2>1, <2>3
<1>4. CASE ReportTaken
  <2>1. TalkIn(Tail(hci), conHandle')
    BY <1>4, TalkTail DEF ReportTaken
  <2>2. QED
    BY <1>4, <2>1 DEF ReportTaken
<1>5. CASE ReportReset
  <2>1. TalkIn(Tail(hci), conHandle') /\ Tail(hci) \in Seq(Reports)
    BY <1>5, TalkTail, HeadTailProperties DEF ReportReset
  <2>2. TalkIn(Append(Tail(hci), "DISCONNECTED"), conHandle')
    BY <2>1, TalkAppend DEF Talk, Reports
  <2>3. QED
    BY <1>5, <2>2 DEF ReportReset
<1>6. QED
  BY <1>1, <1>2, <1>3, <1>4, <1>5 DEF LinkKinds

\* So a report of the link's talk is handled while con_handle is set.
LEMMA TalkLinked ==
    ASSUME hci \in Seq(Reports), hci # <<>>, TalkInLink, Head(hci) \in Talk
    PROVE  conHandle
<1>1. 1 \in DOMAIN hci /\ hci[1] \in Talk /\ \A j \in DOMAIN hci : j >= 1
  BY TailElements
<1>2. QED
  BY <1>1, LenProperties DEF TalkInLink, TalkIn

-------------------------------------------------------------------------------
(* The calls.                                                                *)

\* What ble_module_enable(1) follows.
LEMMA ThenOn ==
    \A a, b \in Steps : <<a, b>> \o ModuleOn = <<a, b, "ctrlOn", "advTest1">>
<1> SUFFICES ASSUME NEW a \in Steps, NEW b \in Steps
             PROVE  <<a, b>> \o ModuleOn = <<a, b, "ctrlOn", "advTest1">>
  OBVIOUS
<1> DEFINE p == <<a, b>>
           r == <<a, b, "ctrlOn", "advTest1">>
<1>1. p \in Seq(Steps) /\ ModuleOn \in Seq(Steps) /\ r \in Seq(Steps)
  BY DEF Steps, ModuleOn
<1>2. Len(r) = Len(p) + Len(ModuleOn)
  BY DEF ModuleOn
<1>3. \A i \in DOMAIN p : r[i] = p[i]
  OBVIOUS
<1>4. \A i \in DOMAIN ModuleOn : r[Len(p) + i] = ModuleOn[i]
  BY DEF ModuleOn
<1> HIDE DEF p, r
<1>5. p \o ModuleOn = r
  BY <1>1, <1>2, <1>3, <1>4, ConcatIs
<1>6. QED
  BY <1>5 DEF p, r

\* The calls' pieces, step by step.
LEMMA Pieces ==
    /\ ModuleOn \o <<"selectRadio">> = <<"ctrlOn", "advTest1", "selectRadio">>
    /\ ModuleOff \o <<"selectUsb">> = <<"offTest", "selectUsb">>
    /\ ModuleOff \o ModuleOff = <<"offTest", "offTest">>
    /\ ClearBonding \o ModuleOff \o ModuleOn
          = <<"forget", "offTest", "ctrlOn", "advTest1">>
    /\ ModuleOff \o <<"reset">> \o ModuleOn
          = <<"offTest", "reset", "ctrlOn", "advTest1">>
    /\ <<"ctrlOff">> \o Disconnect = <<"ctrlOff", "discTest">>
<1>1. \A a, b \in Steps : <<a>> \o <<b>> = <<a, b>>
  BY TwoMessages
<1>2. /\ ModuleOff \o <<"selectUsb">> = <<"offTest", "selectUsb">>
      /\ ModuleOff \o ModuleOff = <<"offTest", "offTest">>
      /\ ClearBonding \o ModuleOff = <<"forget", "offTest">>
      /\ ModuleOff \o <<"reset">> = <<"offTest", "reset">>
      /\ <<"ctrlOff">> \o Disconnect = <<"ctrlOff", "discTest">>
  BY <1>1 DEF Steps, ModuleOff, ClearBonding, Disconnect
<1>3. /\ <<"forget", "offTest">> \o ModuleOn = <<"forget", "offTest", "ctrlOn", "advTest1">>
      /\ <<"offTest", "reset">> \o ModuleOn = <<"offTest", "reset", "ctrlOn", "advTest1">>
  <2>1. "forget" \in Steps /\ "offTest" \in Steps /\ "reset" \in Steps
    BY DEF Steps
  <2>2. QED
    BY <2>1, ThenOn, Zenon
<1>4. ModuleOn \o <<"selectRadio">> = <<"ctrlOn", "advTest1", "selectRadio">>
  <2> DEFINE q == <<"selectRadio">>
             r == <<"ctrlOn", "advTest1", "selectRadio">>
  <2>1. ModuleOn \in Seq(Steps) /\ q \in Seq(Steps) /\ r \in Seq(Steps)
    BY DEF Steps, ModuleOn
  <2>2. Len(r) = Len(ModuleOn) + Len(q)
    BY DEF ModuleOn
  <2>3. \A i \in DOMAIN ModuleOn : r[i] = ModuleOn[i]
    BY DEF ModuleOn
  <2>4. \A i \in DOMAIN q : r[Len(ModuleOn) + i] = q[i]
    BY DEF ModuleOn
  <2> HIDE DEF q, r
  <2>5. ModuleOn \o q = r
    BY <2>1, <2>2, <2>3, <2>4, ConcatIs
  <2>6. QED
    BY <2>5 DEF q, r
<1>5. QED
  BY <1>2, <1>3, <1>4, Zenon

\* What a call may begin with.
Calls ==
    {<<"ctrlOn", "advTest1", "selectRadio">>, <<"offTest", "selectUsb">>,
     <<"offTest", "offTest">>, <<"discTest">>, <<"forget">>,
     <<"forget", "offTest", "ctrlOn", "advTest1">>, <<"swTest">>}

\* What a step of a call may be continued by.
Mores ==
    {<<>>, <<"advSet1">>, <<"advSet0">>, <<"ctrlOff", "discTest">>,
     <<"advTest0", "ctrlOff">>, <<"discSet">>, <<"store", "pairAct">>,
     <<"advTest0", "advTest1">>, <<"discTest">>, <<"offTest">>,
     <<"offTest", "reset", "ctrlOn", "advTest1">>}

\* The pieces of the calls are steps.
LEMMA CallsTyped == Calls \subseteq Seq(Steps) /\ Mores \subseteq Seq(Steps)
<1>1. Calls \subseteq Seq(Steps)
  BY DEF Calls, Steps
<1>2. Mores \subseteq Seq(Steps)
  BY DEF Mores, Steps
<1>3. QED
  BY <1>1, <1>2

\* A call begins with the steps c.
CallsOn == {<<"ctrlOn", "advTest1", "selectRadio">>,
            <<"forget", "offTest", "ctrlOn", "advTest1">>, <<"swTest">>}
CallsOff == {<<"offTest", "selectUsb">>, <<"offTest", "offTest">>}
Begun(c) ==
    /\ todo = <<>> /\ todo' = c /\ state # "NULL"
    /\ UNCHANGED <<emf, adv, link, settled, hci, advCtrlEn, state, conHandle,
                   pairFlag, pairVm, private>>
    /\ raced' = (raced \/ SwitchPending)
    /\ userPrivate' = IF c = <<"swTest">> THEN ~userPrivate ELSE userPrivate
    /\ c \in CallsOn => wish' = TRUE
    /\ c \in CallsOff => wish' = FALSE
    /\ c \notin CallsOn \cup CallsOff => wish' = wish
    /\ ~emf => c = <<"offTest", "offTest">>

\* The first step of a call, h, is done, and the call continued by `more`.
Did(h, more) ==
    /\ todo # <<>> /\ Head(todo) = h
    /\ more \in Mores /\ todo' = more \o Tail(todo)
    /\ UNCHANGED <<emf, conHandle, userPrivate, wish, raced, settled>>

\* Nothing else of the server changes.
Only == UNCHANGED <<advCtrlEn, state, adv, pairFlag, pairVm, private, link, hci>>

\* What each step of a call does.
DidCtrl ==
    /\ \/ Did("ctrlOn", <<>>) /\ advCtrlEn' = TRUE
       \/ Did("ctrlOff", <<>>) /\ advCtrlEn' = FALSE
    /\ UNCHANGED <<state, adv, pairFlag, pairVm, private, link, hci>>
CanAdv(next) == advCtrlEn /\ ~conHandle /\ state \in AdvStates \ {next}
DidAdvTest ==
    /\ \/ Did("advTest1", <<"advSet1">>) /\ CanAdv("ADV")
       \/ Did("advTest1", <<>>) /\ ~CanAdv("ADV")
       \/ Did("advTest0", <<"advSet0">>) /\ CanAdv("IDLE")
       \/ Did("advTest0", <<>>) /\ ~CanAdv("IDLE")
    /\ Only
DidAdvSet ==
    /\ \/ Did("advSet1", <<>>) /\ state' = "ADV" /\ adv' = ~link
       \/ Did("advSet0", <<>>) /\ state' = "IDLE" /\ adv' = FALSE
    /\ UNCHANGED <<advCtrlEn, pairFlag, pairVm, private, link, hci>>
DidOffTest ==
    /\ \/ Did("offTest", <<"ctrlOff", "discTest">>) /\ conHandle
       \/ Did("offTest", <<"advTest0", "ctrlOff">>) /\ ~conHandle
    /\ Only
DidDiscTest ==
    /\ \/ Did("discTest", <<"discSet">>) /\ conHandle /\ state # "SEND_DISCONN"
       \/ Did("discTest", <<>>) /\ ~(conHandle /\ state # "SEND_DISCONN")
    /\ Only
DidDiscSet ==
    /\ Did("discSet", <<>>)
    /\ state' = "SEND_DISCONN"
    /\ (LinkSame /\ ~(link /\ conHandle)) \/ LinkEnds
    /\ UNCHANGED <<advCtrlEn, adv, pairFlag, pairVm, private>>
DidForget ==
    /\ \/ Did("forget", <<"store", "pairAct">>) /\ pairVm
       \/ Did("forget", <<>>) /\ ~pairVm
    /\ pairFlag' = FALSE
    /\ UNCHANGED <<advCtrlEn, state, adv, pairVm, private, link, hci>>
DidStore ==
    /\ Did("store", <<>>)
    /\ pairVm' = pairFlag
    /\ UNCHANGED <<advCtrlEn, state, adv, pairFlag, private, link, hci>>
DidPairAct ==
    /\ \/ Did("pairAct", <<"advTest0", "advTest1">>) /\ state = "ADV"
       \/ Did("pairAct", <<"discTest">>) /\ state # "ADV" /\ conHandle
       \/ Did("pairAct", <<>>) /\ state # "ADV" /\ ~conHandle
    /\ Only
DidSwTest ==
    /\ \/ Did("swTest", <<"offTest">>) /\ conHandle
       \/ Did("swTest", <<"offTest", "reset", "ctrlOn", "advTest1">>) /\ ~conHandle
    /\ Only
DidReset ==
    /\ Did("reset", <<>>)
    /\ private' = userPrivate
    /\ (LinkSame /\ ~link) \/ LinkEnds
    /\ adv' = FALSE
    /\ UNCHANGED <<advCtrlEn, state, pairFlag, pairVm>>
DidSelect == \E h \in {"selectRadio", "selectUsb"} : Did(h, <<>>) /\ Only

CallDid ==
    \/ DidCtrl \/ DidAdvTest \/ DidAdvSet \/ DidOffTest \/ DidDiscTest \/ DidDiscSet
    \/ DidForget \/ DidStore \/ DidPairAct \/ DidSwTest \/ DidReset \/ DidSelect

\* The calls, by their first steps.
LEMMA CallBeginsSteps ==
    ASSUME SrvVarsTyped, CallBegins
    PROVE  \E c \in Calls : Begun(c)
<1> USE DEF Call, ctrlVars, Begun, SrvVarsTyped
<1>1. /\ <<"offTest", "offTest">> \notin CallsOn /\ <<"offTest", "selectUsb">> \notin CallsOn
      /\ <<"discTest">> \notin CallsOn \cup CallsOff
      /\ <<"forget">> \notin CallsOn \cup CallsOff
      /\ CallsOn \cap CallsOff = {}
  BY DEF CallsOn, CallsOff
<1>2. CASE CallOn
  <2>1. Begun(<<"ctrlOn", "advTest1", "selectRadio">>)
    BY <1>1, <1>2, Pieces DEF CallOn, CallsOn
  <2>2. QED
    BY <2>1 DEF Calls
<1>3. CASE CallOff
  <2>1. Begun(<<"offTest", "selectUsb">>)
    BY <1>1, <1>3, Pieces DEF CallOff, CallsOff
  <2>2. QED
    BY <2>1 DEF Calls
<1>4. CASE CallStop
  <2>1. Begun(<<"offTest", "offTest">>)
    BY <1>1, <1>4, Pieces DEF CallStop, CallsOff
  <2>2. QED
    BY <2>1 DEF Calls
<1>5. CASE CallDisconnect
  <2>1. Begun(<<"discTest">>)
    BY <1>1, <1>5 DEF CallDisconnect, Disconnect
  <2>2. QED
    BY <2>1 DEF Calls
<1>6. CASE CallEnterPair
  <2>1. Begun(<<"forget">>)
    BY <1>1, <1>6 DEF CallEnterPair, ClearBonding
  <2>2. QED
    BY <2>1 DEF Calls
<1>7. CASE CallDebond
  <2>1. Begun(<<"forget", "offTest", "ctrlOn", "advTest1">>)
    BY <1>1, <1>7, Pieces DEF CallDebond, CallsOn
  <2>2. QED
    BY <2>1 DEF Calls
<1>8. CASE CallSwitch
  <2>1. Begun(<<"swTest">>)
    BY <1>1, <1>8 DEF CallSwitch, CallsOn
  <2>2. QED
    BY <2>1 DEF Calls
<1>9. QED
  BY <1>2, <1>3, <1>4, <1>5, <1>6, <1>7, <1>8 DEF CallBegins, UserCall

\* The steps, one by one.
LEMMA CallStepDoes ==
    ASSUME SrvVarsTyped, CallStep \/ SelectDone
    PROVE  CallDid
<1> USE DEF Step, Then, Did, Only, Mores, hostVars, ctrlVars, histVars, SrvVarsTyped
<1>1. CASE SetCtrl
  BY <1>1 DEF SetCtrl, DidCtrl, CallDid
<1>2. CASE AdvTest
  BY <1>2 DEF AdvTest, DidAdvTest, CanAdv, NextState, CallDid
<1>3. CASE AdvSet
  BY <1>3 DEF AdvSet, DidAdvSet, NextState, CallDid
<1>4. CASE OffTest
  BY <1>4, Pieces DEF OffTest, DidOffTest, CallDid
<1>5. CASE DiscTest
  BY <1>5 DEF DiscTest, DidDiscTest, CallDid
<1>6. CASE DiscSet
  BY <1>6 DEF DiscSet, DidDiscSet, LinkSame, LinkEnds, CallDid
<1>7. CASE Forget
  BY <1>7 DEF Forget, DidForget, CallDid
<1>8. CASE Store
  BY <1>8 DEF Store, DidStore, CallDid
<1>9. CASE PairAct
  BY <1>9 DEF PairAct, Disconnect, DidPairAct, CallDid
<1>10. CASE SwTest
  BY <1>10, Pieces DEF SwTest, ModuleOff, DidSwTest, CallDid
<1>11. CASE Reset
  <2>1. (LinkSame /\ ~link) \/ LinkEnds
    BY <1>11, ResetEnds DEF Reset, LinkSame, LinkEnds
  <2>2. QED
    BY <1>11, <2>1 DEF Reset, DidReset, CallDid
<1>12. CASE SelectDone
  BY <1>12 DEF SelectDone, DidSelect, CallDid
<1>13. QED
  BY <1>1, <1>2, <1>3, <1>4, <1>5, <1>6, <1>7, <1>8, <1>9, <1>10, <1>11, <1>12 DEF CallStep

\* A call under way is a sequence of steps.
LEMMA DidTyped ==
    ASSUME todo \in Seq(Steps), NEW h, NEW more, Did(h, more)
    PROVE  more \in Seq(Steps) /\ todo' \in Seq(Steps)
BY CallsTyped, ReplaceElements DEF Did

\* What is left of a call after one of its steps.
LEMMA DidPending ==
    ASSUME todo \in Seq(Steps), NEW h, NEW more, Did(h, more), NEW M
    PROVE  /\ Pending(todo', M) => Pending(more, M) \/ Pending(todo, M)
           /\ Pending(more, M) => Pending(todo', M)
           /\ Pending(todo, M) /\ h \notin M => Pending(todo', M)
<1>1. todo # <<>> /\ Head(todo) = h /\ todo' = more \o Tail(todo) /\ more \in Seq(Steps)
  BY DidTyped DEF Did
<1>2. QED
  BY <1>1, ReplacePending

\* A single step is pending exactly if it is one of those asked for.
LEMMA PiecePending ==
    ASSUME NEW M
    PROVE  /\ ~Pending(<<>>, M)
           /\ \A a : Pending(<<a>>, M) <=> a \in M
           /\ \A a, b : Pending(<<a, b>>, M) <=> a \in M \/ b \in M
<1>1. ~Pending(<<>>, M)
  BY DEF Pending
<1>2. \A a : Pending(<<a>>, M) <=> a \in M
  BY DEF Pending
<1>3. \A a, b : Pending(<<a, b>>, M) <=> a \in M \/ b \in M
  <2> SUFFICES ASSUME NEW a, NEW b
               PROVE  Pending(<<a, b>>, M) <=> a \in M \/ b \in M
    OBVIOUS
  <2>1. DOMAIN <<a, b>> = {1, 2} /\ <<a, b>>[1] = a /\ <<a, b>>[2] = b
    OBVIOUS
  <2>2. QED
    BY <2>1 DEF Pending
<1>4. QED
  BY <1>1, <1>2, <1>3

\* The types.
LEMMA CallTyped ==
    ASSUME SrvVarsTyped, CallDid, hci' \in Seq(Reports)
    PROVE  SrvVarsTyped'
<1> USE DEF SrvVarsTyped
<1>1. /\ todo' \in Seq(Steps)
      /\ emf' \in BOOLEAN /\ conHandle' \in BOOLEAN /\ userPrivate' \in BOOLEAN
      /\ wish' \in BOOLEAN /\ raced' \in BOOLEAN /\ settled' \in BOOLEAN
  <2>1. PICK h, more : Did(h, more)
    BY DEF CallDid, DidCtrl, DidAdvTest, DidAdvSet, DidOffTest, DidDiscTest, DidDiscSet,
           DidForget, DidStore, DidPairAct, DidSwTest, DidReset, DidSelect
  <2>2. QED
    BY <2>1, DidTyped DEF Did
<1>2. CASE DidCtrl \/ DidAdvSet
  BY <1>1, <1>2 DEF DidCtrl, DidAdvSet, States
<1>3. CASE DidDiscSet \/ DidReset
  BY <1>1, <1>3 DEF DidDiscSet, DidReset, LinkSame, LinkEnds, States
<1>4. CASE DidForget \/ DidStore
  BY <1>1, <1>4 DEF DidForget, DidStore
<1>5. CASE Only
  BY <1>1, <1>5 DEF Only
<1>6. QED
  BY <1>2, <1>3, <1>4, <1>5 DEF CallDid, DidAdvTest, DidOffTest, DidDiscTest, DidPairAct,
     DidSwTest, DidSelect

\* The packet handlers keep the server's variables in their types.
LEMMA PacketTyped ==
    ASSUME SrvVarsTyped, PacketHandler, hci' \in Seq(Reports)
    PROVE  SrvVarsTyped'
<1> USE DEF SrvVarsTyped
<1>1. /\ todo' \in Seq(Steps) /\ raced' \in BOOLEAN
      /\ UNCHANGED <<emf, userPrivate, todo, settled, wish>>
  BY DEF PacketHandler
<1>2. link' \in BOOLEAN
  BY PacketLink DEF ReportTaken, ReportReset
<1>3. CASE Connected
  BY <1>1, <1>2, <1>3 DEF Connected, States
<1>4. CASE Updated
  BY <1>1, <1>2, <1>4 DEF Updated, States
<1>5. CASE CccWritten
  BY <1>1, <1>2, <1>5 DEF CccWritten, States
<1>6. CASE Encrypted
  BY <1>1, <1>2, <1>6 DEF Encrypted, States
<1>7. CASE Disconnected
  BY <1>1, <1>2, <1>7 DEF Disconnected, States
<1>8. QED
  BY <1>3, <1>4, <1>5, <1>6, <1>7 DEF PacketHandler

\* So do the controller and the peer.
LEMMA RadioTyped ==
    ASSUME SrvVarsTyped, Radio, hci' \in Seq(Reports)
    PROVE  SrvVarsTyped'
<1> USE DEF SrvVarsTyped
<1>1. CASE CtrlConnect
  BY <1>1 DEF CtrlConnect, hostVars, histVars
<1>2. CASE PeerSettles
  BY <1>2 DEF PeerSettles, hostVars, histVars
<1>3. CASE CtrlLinkLoss
  BY <1>3 DEF CtrlLinkLoss, hostVars, histVars
<1>4. QED
  BY <1>1, <1>2, <1>3 DEF Radio

\* So does every step of the server.
LEMMA SrvTypeKept ==
    ASSUME SrvVarsTyped, SrvStep, hci' \in Seq(Reports)
    PROVE  SrvVarsTyped'
<1>1. CASE InitServer
  BY <1>1 DEF InitServer, SrvVarsTyped, States
<1>2. CASE CallBegins
  <2>1. PICK c \in Calls : Begun(c)
    BY <1>2, CallBeginsSteps
  <2>2. todo' \in Seq(Steps)
    BY <2>1, CallsTyped DEF Begun
  <2>3. userPrivate' \in BOOLEAN /\ wish' \in BOOLEAN /\ raced' \in BOOLEAN
    BY <2>1 DEF Begun, SrvVarsTyped, SwitchPending
  <2>4. QED
    BY <2>1, <2>2, <2>3 DEF Begun, SrvVarsTyped
<1>3. CASE CallStep \/ SelectDone
  BY <1>3, CallStepDoes, CallTyped
<1>4. CASE PacketHandler
  BY <1>4, PacketTyped
<1>5. CASE Radio
  BY <1>5, RadioTyped
<1>6. CASE UNCHANGED srvVars
  BY <1>6 DEF srvVars, hostVars, ctrlVars, histVars, SrvVarsTyped
<1>7. QED
  BY <1>1, <1>2, <1>3, <1>4, <1>5, <1>6 DEF SrvStep

-------------------------------------------------------------------------------
(* What no interruption breaks.                                              *)

\* A link and the advertisement exclude each other.
LEMMA AloneKept ==
    ASSUME SrvVarsTyped, NothingBegun, AdvertisesAlone, SrvStep
    PROVE  AdvertisesAlone'
<1> USE DEF AdvertisesAlone, SrvVarsTyped
<1>1. CASE state = "NULL" /\ InitServer
  BY <1>1 DEF InitServer, NothingBegun
<1>2. CASE CallBegins
  <2>1. PICK c \in Calls : Begun(c)
    BY <1>2, CallBeginsSteps
  <2>2. QED
    BY <2>1 DEF Begun
<1>3. CASE CallStep \/ SelectDone
  <2>1. CallDid
    BY <1>3, CallStepDoes
  <2>2. CASE DidAdvSet \/ DidReset
    BY <2>2 DEF DidAdvSet, DidReset
  <2>3. CASE DidDiscSet
    BY <2>3 DEF DidDiscSet, LinkSame, LinkEnds
  <2>4. CASE DidCtrl \/ DidForget \/ DidStore \/ Only
    BY <2>4 DEF DidCtrl, DidForget, DidStore, Only
  <2>5. QED
    BY <2>1, <2>2, <2>3, <2>4 DEF CallDid, DidAdvTest, DidOffTest, DidDiscTest,
       DidPairAct, DidSwTest, DidSelect
<1>4. CASE PacketHandler
  <2>1. CASE Connected /\ UNCHANGED link
    BY <2>1 DEF Connected
  <2>2. CASE Updated /\ UNCHANGED link
    BY <2>2 DEF Updated
  <2>3. CASE CccWritten /\ UNCHANGED link
    BY <2>3 DEF CccWritten
  <2>4. CASE Encrypted /\ UNCHANGED link
    BY <2>4 DEF Encrypted
  <2>5. CASE Disconnected
    BY <2>5 DEF Disconnected
  <2>6. QED
    BY <1>4, <2>1, <2>2, <2>3, <2>4, <2>5 DEF PacketHandler
<1>5. CASE Radio
  BY <1>5 DEF Radio, CtrlConnect, PeerSettles, CtrlLinkLoss
<1>6. CASE UNCHANGED srvVars
  BY <1>6 DEF srvVars, ctrlVars
<1>7. QED
  BY <1>1, <1>2, <1>3, <1>4, <1>5, <1>6 DEF SrvStep

\* What is handled in the stack's task, and on what occasion.
LEMMA PacketCases ==
    ASSUME PacketHandler
    PROVE  /\ hci # <<>>
           /\ UNCHANGED <<emf, userPrivate, todo, settled, wish>>
           /\ raced' = (raced \/ (todo # <<>> /\ Head(hci) \in Interrupting))
           /\ \/ Head(hci) = "CONN" /\ Connected /\ hci' = Tail(hci) /\ link' = link
              \/ Head(hci) = "UPDATE" /\ Updated /\ hci' = Tail(hci) /\ link' = link
              \/ Head(hci) = "CCC" /\ CccWritten /\ hci' = Tail(hci) /\ link' = link
              \/ Head(hci) = "ENCRYPTED" /\ Encrypted /\ hci' = Tail(hci) /\ link' = link
              \/ Head(hci) = "DISCONNECTED" /\ Disconnected
BY DEF PacketHandler

\* The server is started once, and nothing begins before.
LEMMA BeginKept ==
    ASSUME SrvVarsTyped, NothingBegun, SrvStep
    PROVE  NothingBegun'
<1> USE DEF NothingBegun
<1>1. CASE InitServer
  BY <1>1 DEF InitServer
<1>2. CASE CallBegins
  <2>1. PICK c \in Calls : Begun(c)
    BY <1>2, CallBeginsSteps
  <2>2. QED
    BY <2>1 DEF Begun
<1>3. CASE CallStep \/ SelectDone
  <2>1. CallDid
    BY <1>3, CallStepDoes
  <2>2. PICK h, more : Did(h, more)
    BY <2>1 DEF CallDid, DidCtrl, DidAdvTest, DidAdvSet, DidOffTest, DidDiscTest, DidDiscSet,
           DidForget, DidStore, DidPairAct, DidSwTest, DidReset, DidSelect
  <2>3. state # "NULL"
    BY <2>2 DEF Did
  <2>4. state' # "NULL"
    BY <2>1, <2>3 DEF CallDid, DidCtrl, DidAdvTest, DidAdvSet, DidOffTest, DidDiscTest,
           DidDiscSet, DidForget, DidStore, DidPairAct, DidSwTest, DidReset, DidSelect, Only
  <2>5. QED
    BY <2>4
<1>4. CASE PacketHandler
  <2>1. state # "NULL"
    BY <1>4, PacketCases
  <2>2. state' # "NULL"
    BY <1>4, <2>1, PacketCases DEF Connected, Updated, CccWritten, Encrypted, Disconnected
  <2>3. QED
    BY <2>2
<1>5. CASE Radio
  BY <1>5 DEF Radio, CtrlConnect, PeerSettles, CtrlLinkLoss, hostVars
<1>6. CASE UNCHANGED srvVars
  BY <1>6 DEF srvVars, hostVars, ctrlVars
<1>7. QED
  BY <1>1, <1>2, <1>3, <1>4, <1>5, <1>6 DEF SrvStep

\* A profile asked for is registered, or will be.
LEMMA ProfileKept ==
    ASSUME SrvVarsTyped, NothingBegun, ProfileTold, SrvStep
    PROVE  ProfileTold'
<1> USE DEF ProfileTold, SrvVarsTyped
<1> DEFINE M == {"swTest", "reset"}
<1>1. CASE InitServer
  BY <1>1 DEF InitServer
<1>2. CASE CallBegins
  <2>1. PICK c \in Calls : Begun(c)
    BY <1>2, CallBeginsSteps
  <2>2. CASE c = <<"swTest">>
    <3>1. Pending(<<"swTest">>, M)
      BY DEF Pending
    <3>2. todo' = <<"swTest">>
      BY <2>1, <2>2 DEF Begun
    <3>3. QED
      BY <3>1, <3>2
  <2>3. CASE c # <<"swTest">>
    <3>1. ~Pending(todo, M)
      BY <2>1, PiecePending DEF Begun
    <3>2. QED
      BY <2>1, <2>3, <3>1 DEF Begun
  <2>4. QED
    BY <2>2, <2>3
<1>3. CASE CallStep \/ SelectDone
  <2>1. CallDid
    BY <1>3, CallStepDoes
  <2>2. CASE DidReset
    BY <2>2 DEF DidReset, Did
  <2>3. CASE DidSwTest
    <3>1. CASE conHandle
      BY <2>3, <3>1 DEF DidSwTest, Did
    <3>2. CASE ~conHandle
      <4>1. Did("swTest", <<"offTest", "reset", "ctrlOn", "advTest1">>)
        BY <2>3, <3>2 DEF DidSwTest
      <4>2. Pending(<<"offTest", "reset", "ctrlOn", "advTest1">>, M)
        BY DEF Pending
      <4>3. Pending(todo', M)
        BY <4>1, <4>2, DidPending
      <4>4. QED
        BY <4>3
    <3>3. QED
      BY <3>1, <3>2
  <2>4. ASSUME NEW h, NEW more, Did(h, more), h \notin M, private' = private
        PROVE  ProfileTold'
    <3>1. Pending(todo, M) => Pending(todo', M)
      BY <2>4, DidPending
    <3>2. QED
      BY <2>4, <3>1 DEF Did
  <2>5. CASE DidCtrl \/ DidAdvTest \/ DidAdvSet \/ DidOffTest
    BY <2>4, <2>5 DEF DidCtrl, DidAdvTest, DidAdvSet, DidOffTest, Only
  <2>6. CASE DidDiscTest \/ DidDiscSet \/ DidForget \/ DidStore
    BY <2>4, <2>6 DEF DidDiscTest, DidDiscSet, DidForget, DidStore, Only
  <2>7. CASE DidPairAct \/ DidSelect
    BY <2>4, <2>7 DEF DidPairAct, DidSelect, Only
  <2>8. QED
    BY <2>1, <2>2, <2>3, <2>5, <2>6, <2>7 DEF CallDid
<1>4. CASE PacketHandler
  <2>1. todo' = todo /\ userPrivate' = userPrivate
    BY <1>4, PacketCases
  <2>2. QED
    BY <1>4, <2>1, PacketCases DEF Connected, Updated, CccWritten, Encrypted, Disconnected
<1>5. CASE Radio
  BY <1>5 DEF Radio, CtrlConnect, PeerSettles, CtrlLinkLoss, hostVars
<1>6. CASE UNCHANGED srvVars
  BY <1>6 DEF srvVars, hostVars, ctrlVars
<1>7. QED
  BY <1>1, <1>2, <1>3, <1>4, <1>5, <1>6 DEF SrvStep

\* No call of the plain build selects the media.
LEMMA PlainKept ==
    ASSUME SrvVarsTyped, PlainNeverSelects, SrvStep
    PROVE  PlainNeverSelects' /\ emf' = emf
<1> USE DEF PlainNeverSelects, SrvVarsTyped
<1> DEFINE M == {"selectRadio", "selectUsb"}
<1>1. CASE InitServer
  BY <1>1 DEF InitServer
<1>2. CASE CallBegins
  <2>1. PICK c \in Calls : Begun(c)
    BY <1>2, CallBeginsSteps
  <2>2. ~Pending(<<"offTest", "offTest">>, M)
    BY PiecePending
  <2>3. QED
    BY <2>1, <2>2 DEF Begun
<1>3. CASE CallStep \/ SelectDone
  <2>1. CallDid
    BY <1>3, CallStepDoes
  <2>2. PICK h, more : Did(h, more)
    BY <2>1 DEF CallDid, DidCtrl, DidAdvTest, DidAdvSet, DidOffTest, DidDiscTest, DidDiscSet,
           DidForget, DidStore, DidPairAct, DidSwTest, DidReset, DidSelect
  <2>3. ~Pending(more, M)
    <3>1. \A m \in Mores : \A i \in DOMAIN m : m[i] \notin M
      BY DEF Mores
    <3>2. QED
      BY <2>2, <3>1 DEF Did, Pending
  <2>4. QED
    BY <2>2, <2>3, DidPending DEF Did
<1>4. CASE PacketHandler
  BY <1>4, PacketCases
<1>5. CASE Radio
  BY <1>5 DEF Radio, CtrlConnect, PeerSettles, CtrlLinkLoss, hostVars
<1>6. CASE UNCHANGED srvVars
  BY <1>6 DEF srvVars, hostVars, ctrlVars
<1>7. QED
  BY <1>1, <1>2, <1>3, <1>4, <1>5, <1>6 DEF SrvStep

-------------------------------------------------------------------------------
(* While no report interrupts a call.                                        *)

\* What is known when a step begins.
Before ==
    /\ SrvVarsTyped /\ NothingBegun /\ HandleTold /\ TalkInLink
    /\ ProfileTold /\ AdvertisesAlone
    /\ ~raced => CallInv

On == {"advTest1", "advSet1", "swTest"}
Off == {"advTest0", "advSet0", "offTest"}

\* A step of a call, and what it continues the call with, tell what the call tells.
LEMMA DidTells ==
    ASSUME todo \in Seq(Steps), NEW h, NEW more, Did(h, more), NEW Yes, NEW No,
           NEW was, NEW now, NEW mid, NEW is, Tells(todo, Yes, No, was, is),
           h \in Yes => mid,
           h \in No => ~mid,
           h \notin Yes \cup No => (was <=> mid),
           Tells(more, Yes, No, now, mid)
    PROVE  Tells(todo', Yes, No, now, is)
<1>1. todo # <<>> /\ Head(todo) = h /\ todo' = more \o Tail(todo) /\ more \in Seq(Steps)
  BY DidTyped DEF Did
<1>2. QED
  BY <1>1, ReplaceTells

\* What is left of a call, step by step.
LEMMA DidElements ==
    ASSUME todo \in Seq(Steps), NEW h, NEW more, Did(h, more)
    PROVE  /\ Len(more) \in Nat
           /\ 1 \in DOMAIN todo /\ todo[1] = h
           /\ \A i \in DOMAIN more : i \in DOMAIN todo' /\ todo'[i] = more[i]
           /\ \A i \in DOMAIN todo' :
                 /\ i \in Nat /\ i >= 1
                 /\ \/ i \in DOMAIN more /\ i <= Len(more)
                    \/ /\ i > Len(more) /\ i - Len(more) + 1 \in DOMAIN todo
                       /\ todo'[i] = todo[i - Len(more) + 1]
<1>1. todo # <<>> /\ Head(todo) = h /\ todo' = more \o Tail(todo) /\ more \in Seq(Steps)
  BY DidTyped DEF Did
<1>2. 1 \in DOMAIN todo /\ todo[1] = h
  BY <1>1, TailElements
<1>3. QED
  BY <1>1, <1>2, ReplaceElements

\* What the rest of a call tells of the switch, and of the state.
LEMMA SwitchIsTold ==
    ASSUME ~Pending(todo', {"swTest"}), NEW was, NEW is,
           Tells(todo', {"ctrlOn"}, {"ctrlOff", "offTest"}, was, is),
           was <=> advCtrlEn', is <=> wish' /\ ~SwitchPending'
    PROVE  SwitchTold'
BY DEF SwitchTold, Tells

\* The state advertised, as the rest of the call leaves it.
LEMMA StateIsTold ==
    ASSUME NEW was, NEW is, Tells(todo', On, Off, was, is),
           was <=> state' = "ADV", is <=> wish'
    PROVE  StateTold'
BY DEF StateTold, Tells, On, Off

\* The start of the server.
LEMMA StartCallInv ==
    ASSUME Before, state = "NULL", InitServer
    PROVE  CallInv'
<1> USE DEF NothingBegun
<1>1. /\ todo' = <<>> /\ ~conHandle' /\ ~link'
      /\ (state' = "ADV" <=> wish') /\ (advCtrlEn' <=> wish') /\ (adv' <=> wish')
      /\ state' \in AdvStates
  BY DEF Before, InitServer, AdvStates
<1>2. SwitchTold'
  <2>1. ~Pending(todo', {"swTest"})
    BY <1>1, PiecePending
  <2>2. Tells(todo', {"ctrlOn"}, {"ctrlOff", "offTest"}, advCtrlEn', advCtrlEn')
    BY <1>1, EmptyTells
  <2>3. QED
    BY <1>1, <2>1, <2>2, SwitchIsTold DEF SwitchPending
<1>3. StateTold'
  <2>1. Tells(todo', On, Off, state' = "ADV", state' = "ADV")
    BY <1>1, EmptyTells
  <2>2. QED
    BY <1>1, <2>1, StateIsTold
<1>4. AdvOnPlaced' /\ OffPlaced' /\ TestsHold'
  BY <1>1 DEF AdvOnPlaced, OffPlaced, TestsHold, Pending
<1>5. QED
  BY <1>1, <1>2, <1>3, <1>4 DEF CallInv, UnlinkedInv, SwitchWished, SwitchPending, BondInv

\* What a call, as it begins, tells of the switch and of the state.
LEMMA CallsTell ==
    ASSUME NEW was
    PROVE  /\ \A c \in CallsOn : /\ c # <<"swTest">> =>
                                       Tells(c, {"ctrlOn"}, {"ctrlOff", "offTest"}, was, TRUE)
                                 /\ Tells(c, On, Off, was, TRUE)
           /\ \A c \in CallsOff : /\ Tells(c, {"ctrlOn"}, {"ctrlOff", "offTest"}, was, FALSE)
                                  /\ Tells(c, On, Off, was, FALSE)
           /\ \A c \in Calls \ (CallsOn \cup CallsOff) :
                 /\ Tells(c, {"ctrlOn"}, {"ctrlOff", "offTest"}, was, was)
                 /\ Tells(c, On, Off, was, was)
<1> USE DEF Tells, Pending, Answered, On, Off
<1>1. Tells(<<"ctrlOn", "advTest1", "selectRadio">>, {"ctrlOn"}, {"ctrlOff", "offTest"}, was, TRUE)
      /\ Tells(<<"ctrlOn", "advTest1", "selectRadio">>, On, Off, was, TRUE)
  OBVIOUS
<1>2. /\ Tells(<<"forget", "offTest", "ctrlOn", "advTest1">>,
               {"ctrlOn"}, {"ctrlOff", "offTest"}, was, TRUE)
      /\ Tells(<<"forget", "offTest", "ctrlOn", "advTest1">>, On, Off, was, TRUE)
  OBVIOUS
<1>3. Tells(<<"swTest">>, On, Off, was, TRUE)
  OBVIOUS
<1>4. \A c \in CallsOff : /\ Tells(c, {"ctrlOn"}, {"ctrlOff", "offTest"}, was, FALSE)
                          /\ Tells(c, On, Off, was, FALSE)
  BY DEF CallsOff
<1>5. \A c \in {<<"discTest">>, <<"forget">>} :
         /\ Tells(c, {"ctrlOn"}, {"ctrlOff", "offTest"}, was, was)
         /\ Tells(c, On, Off, was, was)
  OBVIOUS
<1> HIDE DEF Tells, Pending, Answered, On, Off
<1>6. Calls \ (CallsOn \cup CallsOff) \subseteq {<<"discTest">>, <<"forget">>}
  BY DEF Calls, CallsOn, CallsOff
<1>7. QED
  BY <1>1, <1>2, <1>3, <1>4, <1>5, <1>6 DEF CallsOn

\* The steps of a call, as it begins, are in order.
LEMMA CallsPlaced ==
    ASSUME NEW c \in Calls
    PROVE  /\ \A i \in DOMAIN c :
                 /\ c[i] = "advTest1" => i > 1 /\ c[i - 1] = "ctrlOn"
                 /\ c[i] \notin {"advSet1", "advSet0", "ctrlOff", "reset", "discSet"}
           /\ Pending(c, {"swTest"}) => c = <<"swTest">>
<1>1. \A i \in DOMAIN c :
         /\ c[i] = "advTest1" => i > 1 /\ c[i - 1] = "ctrlOn"
         /\ c[i] \notin {"advSet1", "advSet0", "ctrlOff", "reset", "discSet"}
  BY DEF Calls
<1>2. Pending(c, {"swTest"}) => c = <<"swTest">>
  BY DEF Calls, Pending
<1>3. QED
  BY <1>1, <1>2

\* A call begins.
LEMMA BegunCallInv ==
    ASSUME Before, NEW c \in Calls, Begun(c), ~raced'
    PROVE  CallInv'
<1>0. /\ ~raced /\ ~SwitchPending /\ CallInv /\ todo = <<>> /\ todo' = c
      /\ advCtrlEn \in BOOLEAN /\ wish \in BOOLEAN /\ conHandle \in BOOLEAN
      /\ private \in BOOLEAN /\ userPrivate \in BOOLEAN
      /\ UNCHANGED <<advCtrlEn, state, conHandle, private, link, hci, adv>>
  BY DEF Before, Begun, CallInv, SrvVarsTyped
<1>1. ~Pending(todo, {"swTest"}) /\ ~Pending(todo, {"swTest", "reset"})
  BY <1>0, PiecePending
<1>2. private = userPrivate
  BY <1>0, <1>1 DEF Before, ProfileTold, SwitchPending
<1>3. /\ advCtrlEn <=> wish
      /\ ~conHandle => (state = "ADV" <=> wish)
  <2>1. SwitchTold /\ (~conHandle => StateTold) /\ state # "NULL"
    BY <1>0 DEF CallInv, UnlinkedInv, Begun
  <2>2. QED
    BY <1>0, <1>1, <2>1, EmptyTells DEF SwitchTold, StateTold
<1>4. /\ c = <<"swTest">> => wish' = TRUE /\ (conHandle' => SwitchPending')
      /\ c # <<"swTest">> => ~SwitchPending'
  BY <1>0, <1>2 DEF Begun, CallsOn, SwitchPending
<1>5. SwitchTold'
  <2>1. CASE c = <<"swTest">>
    <3>1. Pending(todo', {"swTest"})
      <4>1. Pending(<<"swTest">>, {"swTest"})
        BY DEF Pending
      <4>2. QED
        BY <1>0, <2>1, <4>1
    <3>2. QED
      BY <1>0, <1>4, <2>1, <3>1 DEF SwitchTold
  <2>2. CASE c # <<"swTest">>
    <3>1. Tells(c, {"ctrlOn"}, {"ctrlOff", "offTest"}, advCtrlEn, wish')
      <4>1. CASE c \in CallsOn
        BY <2>2, <4>1, CallsTell DEF Begun
      <4>2. CASE c \in CallsOff
        BY <4>2, CallsTell DEF Begun
      <4>3. CASE c \notin CallsOn \cup CallsOff
        <5>1. Tells(c, {"ctrlOn"}, {"ctrlOff", "offTest"}, advCtrlEn, advCtrlEn)
          BY <4>3, CallsTell
        <5>2. QED
          BY <1>0, <1>3, <4>3, <5>1 DEF Begun
      <4>4. QED
        BY <4>1, <4>2, <4>3
    <3>2. ~Pending(todo', {"swTest"})
      BY <1>0, <2>2, CallsPlaced
    <3>3. QED
      BY <1>0, <1>4, <2>2, <3>1, <3>2, SwitchIsTold
  <2>3. QED
    BY <2>1, <2>2
<1>6. SwitchWished'
  BY <1>4 DEF SwitchWished
<1>7. TestsHold'
  BY <1>0, CallsPlaced DEF TestsHold, Pending
<1>8. conHandle' => LinkedInv'
  BY <1>0 DEF CallInv, LinkedInv, Begun
<1>9. ASSUME ~conHandle' PROVE UnlinkedInv'
  <2>1. UnlinkedInv
    BY <1>0, <1>9 DEF CallInv, Begun
  <2>2. StateTold'
    <3>1. Tells(c, On, Off, state = "ADV", wish')
      <4>1. CASE c \in CallsOn
        BY <4>1, CallsTell DEF Begun
      <4>2. CASE c \in CallsOff
        BY <4>2, CallsTell DEF Begun
      <4>3. CASE c \notin CallsOn \cup CallsOff
        <5>1. Tells(c, On, Off, state = "ADV", state = "ADV")
          BY <4>3, CallsTell
        <5>2. wish' = wish /\ (state = "ADV" <=> wish)
          BY <1>0, <1>3, <1>9, <4>3 DEF Begun
        <5>3. QED
          BY <5>1, <5>2 DEF Tells
      <4>4. QED
        BY <4>1, <4>2, <4>3
    <3>2. QED
      BY <1>0, <3>1 DEF StateTold, On, Off
  <2>3. AdvOnPlaced' /\ OffPlaced'
    BY <1>0, CallsPlaced DEF AdvOnPlaced, OffPlaced
  <2>4. QED
    BY <1>0, <2>1, <2>2, <2>3 DEF UnlinkedInv
<1>10. BondInv'
  <2>1. BondInv
    BY <1>0 DEF CallInv, Begun
  <2>2. UNCHANGED <<emf, private, conHandle, pairFlag, pairVm, hci>>
    BY DEF Begun
  <2>3. QED
    BY <1>0, <2>1, <2>2 DEF BondInv
<1>11. QED
  BY <1>5, <1>6, <1>7, <1>8, <1>9, <1>10 DEF CallInv


\* A report of what the peer does on its link leaves the call as it is.
LEMMA TalkCallInv ==
    ASSUME Before, ~raced, hci # <<>>, Head(hci) \in Talk, hci' = Tail(hci),
           UNCHANGED <<emf, userPrivate, todo, wish, link, advCtrlEn, conHandle, private>>,
           state' \in {state, "UPDATE_OK", "NOTIFY"},
           UNCHANGED <<pairFlag, pairVm>> \/ (todo = <<>> /\ (pairFlag /\ pairVm => pairFlag' /\ pairVm'))
    PROVE  CallInv'
<1>1. state # "NULL" /\ CallInv /\ hci \in Seq(Reports)
  BY DEF Before, NothingBegun, SrvVarsTyped
<1>2. /\ SwitchTold /\ SwitchWished /\ TestsHold /\ LinkedInv /\ BondInv /\ conHandle
  BY <1>1, TalkLinked DEF CallInv, Before
<1>3. Pending(hci, {"DISCONNECTED"}) => Pending(hci', {"DISCONNECTED"})
  BY <1>1, TailAnswered DEF Talk
<1>4. SwitchTold' /\ SwitchWished' /\ TestsHold'
  BY <1>2 DEF SwitchTold, SwitchWished, TestsHold, SwitchPending
<1>5. LinkedInv'
  BY <1>2, <1>3 DEF LinkedInv
<1>6. BondInv'
  BY <1>2, <1>3 DEF BondInv
<1>7. QED
  BY <1>2, <1>4, <1>5, <1>6 DEF CallInv

\* A connection while no call is under way.
LEMMA ConnectedCallInv ==
    ASSUME Before, ~raced, hci # <<>>, todo = <<>>, Connected,
           UNCHANGED <<emf, userPrivate, todo, wish>>
    PROVE  CallInv'
<1>1. CallInv /\ state # "NULL" /\ SrvVarsTyped /\ ProfileTold
  BY DEF Before, NothingBegun
<1>2. SwitchTold /\ SwitchWished
  BY <1>1 DEF CallInv
<1>3. ~Pending(todo, {"swTest"}) /\ ~Pending(todo, {"swTest", "reset"}) /\ ~Pending(todo', {"swTest"})
  BY PiecePending
<1>4. /\ conHandle' = TRUE /\ state' = "CONNECT"
      /\ UNCHANGED <<private, advCtrlEn>>
      /\ emf' /\ private' => pairFlag' /\ pairVm'
  BY <1>1 DEF Connected, SrvVarsTyped
<1>5. SwitchPending <=> SwitchPending'
  BY <1>1, <1>3, <1>4 DEF ProfileTold, SwitchPending, SrvVarsTyped
<1>6. SwitchTold' /\ SwitchWished'
  <2> DEFINE told == wish /\ ~SwitchPending
  <2>0. told <=> wish' /\ ~SwitchPending'
    BY <1>5
  <2>1. Tells(todo', {"ctrlOn"}, {"ctrlOff", "offTest"}, advCtrlEn, told)
    BY <1>2, <1>3 DEF SwitchTold
  <2> HIDE DEF told
  <2>2. SwitchTold'
    BY <1>3, <1>4, <2>0, <2>1, SwitchIsTold
  <2>3. SwitchWished'
    BY <1>2, <1>5 DEF SwitchWished
  <2>4. QED
    BY <2>2, <2>3
<1>7. TestsHold'
  BY PiecePending DEF TestsHold
<1>8. LinkedInv' /\ BondInv'
  BY <1>4 DEF LinkedInv, BondInv
<1>9. QED
  BY <1>4, <1>6, <1>7, <1>8 DEF CallInv

\* A disconnection while no call is under way.
LEMMA DisconnectedCallInv ==
    ASSUME Before, ~raced, hci # <<>>, todo = <<>>, Disconnected,
           UNCHANGED <<emf, userPrivate, todo, wish>>
    PROVE  CallInv'
<1>1. CallInv /\ state # "NULL" /\ SrvVarsTyped /\ ProfileTold
  BY DEF Before, NothingBegun
<1>2. SwitchTold /\ SwitchWished
  BY <1>1 DEF CallInv
<1>3. ~Pending(todo, {"swTest"}) /\ ~Pending(todo, {"swTest", "reset"})
  BY PiecePending
<1>4. /\ advCtrlEn <=> wish /\ ~SwitchPending
      /\ private # userPrivate => SwitchPending
  <2>1. Tells(<<>>, {"ctrlOn"}, {"ctrlOff", "offTest"}, advCtrlEn, wish /\ ~SwitchPending)
    BY <1>2, <1>3 DEF SwitchTold
  <2>2. advCtrlEn <=> wish /\ ~SwitchPending
    BY <2>1 DEF Tells, Pending, Answered
  <2>3. private # userPrivate => SwitchPending
    BY <1>1, <1>3 DEF ProfileTold, SwitchPending
  <2>4. QED
    BY <2>2, <2>3
<1>5. /\ conHandle' = FALSE /\ private' = userPrivate
      /\ state' \in {"ADV", "DISCONN"}
      /\ state' = "ADV" <=> advCtrlEn \/ private # userPrivate
      /\ advCtrlEn' <=> advCtrlEn \/ private # userPrivate
      /\ ~link' => (adv' <=> advCtrlEn # (private # userPrivate))
  BY <1>1 DEF Disconnected, SrvVarsTyped
<1>6. /\ advCtrlEn' <=> wish' /\ ~SwitchPending'
      /\ ~SwitchPending'
      /\ state' = "ADV" <=> wish'
      /\ ~link' => (adv' <=> state' = "ADV")
  BY <1>1, <1>2, <1>4, <1>5 DEF SwitchWished, SwitchPending, SrvVarsTyped
<1>7. SwitchTold' /\ SwitchWished' /\ TestsHold' /\ BondInv'
  <2>1. Tells(todo', {"ctrlOn"}, {"ctrlOff", "offTest"}, advCtrlEn', advCtrlEn')
    BY EmptyTells
  <2>2. SwitchTold'
    BY <1>3, <1>6, <2>1, SwitchIsTold
  <2>3. QED
    BY <1>5, <1>6, <2>2, PiecePending DEF SwitchWished, TestsHold, BondInv
<1>8. UnlinkedInv'
  <2>1. Tells(todo', On, Off, state' = "ADV", state' = "ADV")
    BY EmptyTells
  <2>2. StateTold'
    BY <1>6, <2>1, StateIsTold
  <2>3. AdvOnPlaced' /\ OffPlaced'
    BY DEF AdvOnPlaced, OffPlaced
  <2>4. state' \in AdvStates
    BY <1>5 DEF AdvStates
  <2>5. QED
    BY <1>5, <1>6, <2>2, <2>3, <2>4 DEF UnlinkedInv
<1>9. QED
  BY <1>5, <1>7, <1>8 DEF CallInv

\* A report that does not interrupt a call.
LEMMA PacketCallInv ==
    ASSUME Before, PacketHandler, ~raced'
    PROVE  CallInv'
<1>1. /\ hci # <<>> /\ ~raced /\ (todo = <<>> \/ Head(hci) \notin Interrupting)
      /\ UNCHANGED <<emf, userPrivate, todo, wish>>
  BY PacketCases
<1>2. CASE Head(hci) = "CONN" /\ Connected
  BY <1>1, <1>2, ConnectedCallInv DEF Interrupting
<1>3. CASE Head(hci) = "UPDATE" /\ Updated /\ hci' = Tail(hci) /\ link' = link
  BY <1>1, <1>3, TalkCallInv DEF Updated, Talk
<1>4. CASE Head(hci) = "CCC" /\ CccWritten /\ hci' = Tail(hci) /\ link' = link
  BY <1>1, <1>4, TalkCallInv DEF CccWritten, Talk
<1>5. CASE Head(hci) = "ENCRYPTED" /\ Encrypted /\ hci' = Tail(hci) /\ link' = link
  BY <1>1, <1>5, TalkCallInv DEF Encrypted, Talk, Interrupting, Before, SrvVarsTyped
<1>6. CASE Head(hci) = "DISCONNECTED" /\ Disconnected
  BY <1>1, <1>6, DisconnectedCallInv DEF Interrupting
<1>7. QED
  BY <1>2, <1>3, <1>4, <1>5, <1>6, PacketCases

\* What the controller and the peer do leaves the call as it is.
LEMMA RadioCallInv ==
    ASSUME Before, Radio, ~raced'
    PROVE  CallInv'
<1>1. /\ UNCHANGED <<emf, hostVars, todo, histVars>>
      /\ \E r \in Reports : hci' = Append(hci, r)
      /\ \/ ~link' /\ link /\ hci' = Append(hci, "DISCONNECTED")
         \/ link'
      /\ SrvVarsTyped
  BY DEF Radio, CtrlConnect, PeerSettles, CtrlLinkLoss, Reports, Before, SrvVarsTyped
<1>2. UNCHANGED <<emf, advCtrlEn, state, conHandle, pairFlag, pairVm, userPrivate, private,
                  todo, wish>> /\ ~raced
  BY <1>1 DEF hostVars, histVars
<1>3. \A M : Pending(hci, M) => Pending(hci', M)
  BY <1>1, AppendAnswered DEF SrvVarsTyped
<1>4. SUFFICES ASSUME state # "NULL", CallInv
               PROVE  CallInv'
  BY <1>2 DEF Before, CallInv
<1>5. SwitchTold' /\ SwitchWished' /\ TestsHold'
  BY <1>2, <1>4 DEF CallInv, SwitchTold, SwitchWished, TestsHold, SwitchPending
<1>6. conHandle' => LinkedInv'
  BY <1>2, <1>3, <1>4 DEF CallInv, LinkedInv
<1>7. BondInv'
  BY <1>2, <1>3, <1>4 DEF CallInv, BondInv
<1>8. ASSUME ~conHandle PROVE UnlinkedInv'
  <2>1. UnlinkedInv
    BY <1>4, <1>8 DEF CallInv
  <2>2. StateTold' /\ AdvOnPlaced' /\ OffPlaced'
    BY <1>2, <2>1 DEF UnlinkedInv, StateTold, AdvOnPlaced, OffPlaced
  <2>3. link' \/ Pending(hci', {"CONN"})
    BY <1>1, <1>3, <1>8 DEF Before, HandleTold, Tells
  <2>4. QED
    BY <1>2, <2>1, <2>2, <2>3 DEF UnlinkedInv
<1>9. QED
  BY <1>2, <1>5, <1>6, <1>7, <1>8 DEF CallInv

-------------------------------------------------------------------------------
(* A step of a call that no report interrupts.                               *)

\* Every step of a call is one of these.
LEMMA DidKinds ==
    ASSUME CallDid
    PROVE  /\ \E h, more : Did(h, more)
           /\ UNCHANGED <<emf, conHandle, userPrivate, wish, raced>>
           /\ private' = private \/ DidReset
           /\ state' = state \/ DidAdvSet \/ DidDiscSet
           /\ advCtrlEn' = advCtrlEn \/ DidCtrl
           /\ UNCHANGED <<pairFlag, pairVm>> \/ DidForget \/ DidStore
           /\ LinkSame \/ LinkEnds
<1> USE DEF Did, LinkSame
<1>1. CASE DidCtrl \/ DidAdvSet \/ DidForget \/ DidStore
  BY <1>1 DEF DidCtrl, DidAdvSet, DidForget, DidStore
<1>2. CASE DidDiscSet \/ DidReset
  BY <1>2 DEF DidDiscSet, DidReset, LinkEnds
<1>3. CASE DidAdvTest \/ DidOffTest \/ DidDiscTest
  BY <1>3 DEF DidAdvTest, DidOffTest, DidDiscTest, Only
<1>4. CASE DidPairAct \/ DidSwTest \/ DidSelect
  BY <1>4 DEF DidPairAct, DidSwTest, DidSelect, Only
<1>5. QED
  BY <1>1, <1>2, <1>3, <1>4 DEF CallDid

\* The first step of a call is pending.
LEMMA DidHead ==
    ASSUME todo \in Seq(Steps), NEW h, NEW more, Did(h, more)
    PROVE  1 \in DOMAIN todo /\ todo[1] = h /\ \A M : h \in M => Pending(todo, M)
<1>1. 1 \in DOMAIN todo /\ todo[1] = h
  BY DidElements
<1>2. QED
  BY <1>1 DEF Pending

\* A report pending stays so.
LEMMA DidReports ==
    ASSUME SrvVarsTyped, CallDid, NEW M, Pending(hci, M)
    PROVE  Pending(hci', M)
<1>1. CASE LinkSame
  BY <1>1 DEF LinkSame
<1>2. CASE LinkEnds
  <2>1. hci \in Seq(Reports) /\ "DISCONNECTED" \in Reports
    BY DEF SrvVarsTyped, Reports
  <2>2. Pending(Append(hci, "DISCONNECTED"), M)
    BY <2>1, AppendAnswered
  <2>3. QED
    BY <1>2, <2>2 DEF LinkEnds
<1>3. QED
  BY <1>1, <1>2, DidKinds

\* A switch of profiles waits for the end of the link as before.
LEMMA DidSwitchPending ==
    ASSUME SrvVarsTyped, CallDid, TestsHold
    PROVE  SwitchPending' <=> SwitchPending
<1>1. CASE DidReset
  <2>1. Pending(todo, {"advSet1", "advSet0", "reset"})
    BY <1>1, DidHead DEF DidReset, SrvVarsTyped
  <2>2. ~conHandle
    BY <2>1 DEF TestsHold
  <2>3. QED
    BY <2>2, DidKinds DEF SwitchPending
<1>2. CASE private' = private
  BY <1>2, DidKinds DEF SwitchPending
<1>3. QED
  BY <1>1, <1>2, DidKinds

\* What a step is continued by tells of the switch.
SwOn == {"ctrlOn"}
SwOff == {"ctrlOff", "offTest"}

\* ... with each of the continuations.
LEMMA MoresTell ==
    ASSUME NEW now
    PROVE  /\ Tells(<<"ctrlOff", "discTest">>, SwOn, SwOff, now, FALSE)
           /\ Tells(<<"advTest0", "ctrlOff">>, SwOn, SwOff, now, FALSE)
           /\ Tells(<<"offTest">>, SwOn, SwOff, now, FALSE)
           /\ Tells(<<"offTest", "reset", "ctrlOn", "advTest1">>, SwOn, SwOff, now, TRUE)
           /\ \A m \in {<<>>, <<"advSet1">>, <<"advSet0">>, <<"discSet">>, <<"store", "pairAct">>,
                        <<"advTest0", "advTest1">>, <<"discTest">>} :
                 Tells(m, SwOn, SwOff, now, now)
<1> USE DEF Tells, Pending, Answered, SwOn, SwOff
<1>1. Tells(<<"ctrlOff", "discTest">>, SwOn, SwOff, now, FALSE)
  OBVIOUS
<1>2. Tells(<<"advTest0", "ctrlOff">>, SwOn, SwOff, now, FALSE)
  OBVIOUS
<1>3. Tells(<<"offTest">>, SwOn, SwOff, now, FALSE)
  OBVIOUS
<1>4. Tells(<<"offTest", "reset", "ctrlOn", "advTest1">>, SwOn, SwOff, now, TRUE)
  OBVIOUS
<1>5. \A m \in {<<>>, <<"advSet1">>, <<"advSet0">>, <<"discSet">>, <<"store", "pairAct">>,
                <<"advTest0", "advTest1">>, <<"discTest">>} :
         Tells(m, SwOn, SwOff, now, now)
  OBVIOUS
<1>6. QED
  BY <1>1, <1>2, <1>3, <1>4, <1>5

\* No step is continued by the test of a switch of profiles.
LEMMA NoSwTest ==
    ASSUME todo \in Seq(Steps), NEW h, NEW more, Did(h, more),
           \/ ~Pending(todo, {"swTest"})
           \/ todo = <<"swTest">>
    PROVE  ~Pending(todo', {"swTest"})
<1>1. \A m \in Mores : \A i \in DOMAIN m : m[i] # "swTest"
  BY DEF Mores
<1>2. \A i \in DOMAIN more : more[i] # "swTest"
  BY <1>1 DEF Did
<1>3. CASE ~Pending(todo, {"swTest"})
  BY <1>2, <1>3, DidPending DEF Pending
<1>4. CASE todo = <<"swTest">>
  <2>1. DOMAIN todo = {1}
    BY <1>4
  <2>2. \A i \in DOMAIN todo' : i \in DOMAIN more /\ todo'[i] = more[i]
    BY <2>1, DidElements
  <2>3. QED
    BY <1>2, <2>2 DEF Pending
<1>5. QED
  BY <1>3, <1>4

\* A step that leaves the switch alone.
LEMMA SwitchStep ==
    ASSUME todo \in Seq(Steps), NEW h, NEW more, Did(h, more),
           h \notin {"swTest", "ctrlOn", "ctrlOff", "offTest"},
           NEW told, Tells(todo, SwOn, SwOff, advCtrlEn, told),
           more \in {<<>>, <<"advSet1">>, <<"advSet0">>, <<"discSet">>, <<"store", "pairAct">>,
                     <<"advTest0", "advTest1">>, <<"discTest">>},
           advCtrlEn' = advCtrlEn
    PROVE  Tells(todo', SwOn, SwOff, advCtrlEn', told)
<1>1. Tells(more, SwOn, SwOff, advCtrlEn, advCtrlEn)
  BY MoresTell
<1>2. h \notin SwOn \cup SwOff
  BY DEF SwOn, SwOff
<1>3. Tells(todo', SwOn, SwOff, advCtrlEn, told)
  BY <1>1, <1>2, DidTells
<1>4. QED
  BY <1>3

\* The switch: each step leaves its caller's wish to the rest of the call.
LEMMA SwitchKept ==
    ASSUME SrvVarsTyped, CallDid, TestsHold, SwitchTold, SwitchWished
    PROVE  SwitchTold' /\ SwitchWished'
<1> DEFINE told == wish /\ ~SwitchPending
<1>0. /\ SwitchPending' <=> SwitchPending
      /\ told <=> wish' /\ ~SwitchPending'
      /\ todo \in Seq(Steps) /\ UNCHANGED <<wish, conHandle>>
  BY DidSwitchPending, DidKinds DEF SrvVarsTyped
<1>1. SwitchWished'
  BY <1>0 DEF SwitchWished
<1>2. ASSUME NEW h, NEW more, Did(h, more), h = "swTest"
      PROVE  todo = <<"swTest">> /\ wish /\ (conHandle => SwitchPending)
  <2>1. Pending(todo, {"swTest"})
    BY <1>0, <1>2, DidHead
  <2>2. QED
    BY <2>1 DEF SwitchTold
<1>3. ASSUME NEW h, NEW more, Did(h, more), h # "swTest"
      PROVE  ~Pending(todo, {"swTest"}) /\ Tells(todo, SwOn, SwOff, advCtrlEn, told)
  <2>1. todo[1] # "swTest"
    BY <1>0, <1>3, DidHead
  <2>2. ~Pending(todo, {"swTest"})
    BY <2>1 DEF SwitchTold
  <2>3. QED
    BY <2>2 DEF SwitchTold, SwOn, SwOff
<1>4. ~Pending(todo', {"swTest"})
  <2>1. PICK h, more : Did(h, more)
    BY DidKinds
  <2>2. QED
    BY <1>0, <1>2, <1>3, <2>1, NoSwTest
<1> HIDE DEF told
<1>5. SUFFICES Tells(todo', SwOn, SwOff, advCtrlEn', told)
  BY <1>0, <1>1, <1>4, SwitchIsTold DEF SwOn, SwOff
<1>6. ASSUME NEW h, NEW more, Did(h, more),
             h \notin {"swTest", "ctrlOn", "ctrlOff", "offTest"}, advCtrlEn' = advCtrlEn,
             more \in {<<>>, <<"advSet1">>, <<"advSet0">>, <<"discSet">>, <<"store", "pairAct">>,
                     <<"advTest0", "advTest1">>, <<"discTest">>}
      PROVE  Tells(todo', SwOn, SwOff, advCtrlEn', told)
  BY <1>0, <1>3, <1>6, SwitchStep
<1>7. CASE DidCtrl
  <2>1. CASE Did("ctrlOn", <<>>) /\ advCtrlEn' = TRUE
    <3>1. Tells(<<>>, SwOn, SwOff, TRUE, TRUE)
      BY MoresTell
    <3>2. Tells(todo', SwOn, SwOff, TRUE, told)
      <4>1. Tells(todo, SwOn, SwOff, advCtrlEn, told)
        BY <1>3, <2>1
      <4>2. "ctrlOn" \in SwOn /\ "ctrlOn" \notin SwOff
        BY DEF SwOn, SwOff
      <4>3. QED
        BY <1>0, <2>1, <3>1, <4>1, <4>2, DidTells
    <3>3. QED
      BY <2>1, <3>2
  <2>2. CASE Did("ctrlOff", <<>>) /\ advCtrlEn' = FALSE
    <3>1. Tells(<<>>, SwOn, SwOff, FALSE, FALSE)
      BY MoresTell
    <3>2. Tells(todo', SwOn, SwOff, FALSE, told)
      <4>1. Tells(todo, SwOn, SwOff, advCtrlEn, told)
        BY <1>3, <2>2
      <4>2. "ctrlOff" \notin SwOn /\ "ctrlOff" \in SwOff
        BY DEF SwOn, SwOff
      <4>3. QED
        BY <1>0, <2>2, <3>1, <4>1, <4>2, DidTells
    <3>3. QED
      BY <2>2, <3>2
  <2>3. QED
    BY <1>7, <2>1, <2>2 DEF DidCtrl
<1>8. CASE DidOffTest
  <2>1. PICK more : /\ Did("offTest", more) /\ advCtrlEn' = advCtrlEn
                    /\ Tells(more, SwOn, SwOff, advCtrlEn, FALSE)
    BY <1>8, MoresTell DEF DidOffTest, Only
  <2>2. Tells(todo, SwOn, SwOff, advCtrlEn, told)
    BY <1>3, <2>1
  <2>3. "offTest" \notin SwOn /\ "offTest" \in SwOff
    BY DEF SwOn, SwOff
  <2>4. Tells(todo', SwOn, SwOff, advCtrlEn, told)
    BY <1>0, <2>1, <2>2, <2>3, DidTells
  <2>5. QED
    BY <2>1, <2>4
<1>9. CASE DidSwTest
  <2>1. PICK more : Did("swTest", more) /\ advCtrlEn' = advCtrlEn
                    /\ Tells(more, SwOn, SwOff, advCtrlEn, ~conHandle)
    <3>1. Only
      BY <1>9 DEF DidSwTest
    <3>2. CASE conHandle
      BY <1>9, <3>1, <3>2, MoresTell DEF DidSwTest, Only
    <3>3. CASE ~conHandle
      BY <1>9, <3>1, <3>3, MoresTell DEF DidSwTest, Only
    <3>4. QED
      BY <3>2, <3>3
  <2>2. todo = <<"swTest">> /\ (told <=> ~conHandle)
    BY <1>2, <2>1 DEF told, SwitchPending
  <2>3. Tells(<<"swTest">>, SwOn, SwOff, told, told)
    BY DEF Tells, Pending, Answered, SwOn, SwOff
  <2>4. "swTest" \notin SwOn \cup SwOff
    BY DEF SwOn, SwOff
  <2>5. Tells(more, SwOn, SwOff, advCtrlEn, told)
    BY <2>1, <2>2 DEF Tells
  <2>6. Tells(todo, SwOn, SwOff, told, told)
    BY <2>2, <2>3
  <2>7. Tells(todo', SwOn, SwOff, advCtrlEn, told)
    BY <1>0, <2>1, <2>4, <2>5, <2>6, DidTells
  <2>8. QED
    BY <2>1, <2>7
<1>10. CASE DidAdvTest \/ DidAdvSet
  BY <1>6, <1>10 DEF DidAdvTest, DidAdvSet, Only
<1>11. CASE DidDiscTest \/ DidDiscSet
  BY <1>6, <1>11 DEF DidDiscTest, DidDiscSet, Only
<1>12. CASE DidForget \/ DidStore
  BY <1>6, <1>12 DEF DidForget, DidStore
<1>13. CASE DidPairAct \/ DidReset \/ DidSelect
  BY <1>6, <1>13 DEF DidPairAct, DidReset, DidSelect, Only
<1>14. QED
  BY <1>7, <1>8, <1>9, <1>10, <1>11, <1>12, <1>13 DEF CallDid

\* The tests of con_handle hold for the steps that follow them.
LEMMA TestsKept ==
    ASSUME SrvVarsTyped, CallDid, TestsHold
    PROVE  TestsHold'
<1> DEFINE Lone == {"advSet1", "advSet0", "reset"}
           Disc == {"discSet"}
<1>1. conHandle' = conHandle /\ todo \in Seq(Steps)
  BY DidKinds DEF SrvVarsTyped
<1>2. SUFFICES /\ conHandle => ~Pending(todo', Lone)
               /\ ~conHandle => ~Pending(todo', Disc)
  BY <1>1 DEF TestsHold
<1>3. ASSUME NEW h, NEW more, Did(h, more),
             conHandle => \A i \in DOMAIN more : more[i] \notin Lone,
             ~conHandle => \A i \in DOMAIN more : more[i] \notin Disc
      PROVE  /\ conHandle => ~Pending(todo', Lone)
             /\ ~conHandle => ~Pending(todo', Disc)
  <2>1. /\ conHandle => ~Pending(more, Lone) /\ ~Pending(todo, Lone)
        /\ ~conHandle => ~Pending(more, Disc) /\ ~Pending(todo, Disc)
    BY <1>3 DEF TestsHold, Pending
  <2>2. QED
    BY <1>1, <1>3, <2>1, DidPending
<1> HIDE DEF Lone, Disc
<1>4. \A m \in {<<>>, <<"ctrlOff", "discTest">>, <<"advTest0", "ctrlOff">>, <<"store", "pairAct">>,
                <<"advTest0", "advTest1">>, <<"discTest">>, <<"offTest">>} :
         \A i \in DOMAIN m : m[i] \notin Lone /\ m[i] \notin Disc
  BY DEF Lone, Disc
<1>5. \A m \in {<<"advSet1">>, <<"advSet0">>, <<"offTest", "reset", "ctrlOn", "advTest1">>} :
         \A i \in DOMAIN m : m[i] \notin Disc
  BY DEF Disc
<1>6. \A i \in DOMAIN <<"discSet">> : <<"discSet">>[i] \notin Lone
  BY DEF Lone
<1>7. CASE DidCtrl \/ DidAdvSet
  BY <1>3, <1>4, <1>7 DEF DidCtrl, DidAdvSet
<1>8. CASE DidAdvTest
  BY <1>3, <1>4, <1>5, <1>8 DEF DidAdvTest, CanAdv
<1>9. CASE DidDiscTest
  BY <1>3, <1>4, <1>6, <1>9 DEF DidDiscTest
<1>10. CASE DidSwTest
  BY <1>3, <1>4, <1>5, <1>10 DEF DidSwTest
<1>11. CASE DidOffTest \/ DidDiscSet \/ DidForget \/ DidStore
  BY <1>3, <1>4, <1>11 DEF DidOffTest, DidDiscSet, DidForget, DidStore
<1>12. CASE DidPairAct \/ DidReset \/ DidSelect
  BY <1>3, <1>4, <1>12 DEF DidPairAct, DidReset, DidSelect
<1>13. QED
  BY <1>7, <1>8, <1>9, <1>10, <1>11, <1>12 DEF CallDid

\* A link the server has ended is about to be reported as such.
LEMMA DiscSetReports ==
    ASSUME SrvVarsTyped, HandleTold, DidDiscSet, conHandle
    PROVE  Pending(hci', {"DISCONNECTED"})
<1>1. CASE LinkSame /\ ~(link /\ conHandle)
  BY <1>1 DEF HandleTold, Tells, LinkSame, SrvVarsTyped
<1>2. CASE LinkEnds
  <2>1. hci \in Seq(Reports) /\ "DISCONNECTED" \in Reports
    BY DEF SrvVarsTyped, Reports
  <2>2. Pending(Append(hci, "DISCONNECTED"), {"DISCONNECTED"})
    BY <2>1, AppendAnswered
  <2>3. QED
    BY <1>2, <2>2 DEF LinkEnds
<1>3. QED
  BY <1>1, <1>2 DEF DidDiscSet

\* With a link, the call does not advertise.
LEMMA LinkedKept ==
    ASSUME SrvVarsTyped, HandleTold, CallDid, TestsHold, LinkedInv, conHandle
    PROVE  LinkedInv'
<1>1. CASE state' = state
  BY <1>1, DidReports DEF LinkedInv
<1>2. CASE DidAdvSet
  <2>1. Pending(todo, {"advSet1", "advSet0", "reset"})
    BY <1>2, DidHead DEF DidAdvSet, SrvVarsTyped
  <2>2. QED
    BY <2>1 DEF TestsHold
<1>3. CASE DidDiscSet
  BY <1>3, DiscSetReports DEF DidDiscSet, LinkedInv
<1>4. QED
  BY <1>1, <1>2, <1>3, DidKinds

\* The bond goes with its link.
LEMMA BondKept ==
    ASSUME SrvVarsTyped, HandleTold, CallDid, TestsHold, conHandle => LinkedInv, BondInv
    PROVE  BondInv'
<1>1. SUFFICES ASSUME emf, private', conHandle
               PROVE  \/ pairFlag' /\ pairVm'
                      \/ Pending(hci', {"DISCONNECTED"})
                      \/ todo' # <<>> /\ Head(todo') = "store" /\ Len(todo') > 1
                                      /\ todo'[2] = "pairAct" /\ ~pairFlag'
                      \/ todo' # <<>> /\ Head(todo') \in {"pairAct", "discTest", "discSet"}
  BY DidKinds DEF BondInv
<1>2. private' = private /\ todo \in Seq(Steps) /\ LinkedInv
  <2>1. ASSUME DidReset PROVE FALSE
    <3>1. Pending(todo, {"advSet1", "advSet0", "reset"})
      BY <2>1, DidHead DEF DidReset, SrvVarsTyped
    <3>2. QED
      BY <1>1, <3>1 DEF TestsHold
  <2>2. QED
    BY <1>1, <2>1, DidKinds DEF SrvVarsTyped
<1>3. Pending(hci, {"DISCONNECTED"}) => Pending(hci', {"DISCONNECTED"})
  BY DidReports
<1>4. ASSUME ~Pending(hci, {"DISCONNECTED"})
      PROVE  \/ pairFlag /\ pairVm
             \/ Head(todo) = "store" /\ Len(todo) > 1 /\ todo[2] = "pairAct" /\ ~pairFlag
             \/ Head(todo) \in {"pairAct", "discTest", "discSet"}
  BY <1>1, <1>2, <1>4 DEF BondInv
<1>5. ASSUME NEW h, NEW more, Did(h, more), 1 \in DOMAIN more
      PROVE  todo' # <<>> /\ Head(todo') = more[1]
  <2>1. 1 \in DOMAIN todo' /\ todo'[1] = more[1] /\ todo' \in Seq(Steps)
    BY <1>2, <1>5, DidElements, DidTyped
  <2>2. todo' # <<>>
    BY <2>1, EmptySeq
  <2>3. QED
    BY <2>1, <2>2, TailElements
<1>6. CASE DidForget
  <2>1. CASE pairVm
    <3>1. Did("forget", <<"store", "pairAct">>) /\ ~pairFlag'
      BY <1>6, <2>1 DEF DidForget
    <3>2. /\ \A i \in DOMAIN <<"store", "pairAct">> :
                i \in DOMAIN todo' /\ todo'[i] = <<"store", "pairAct">>[i]
          /\ todo' \in Seq(Steps)
      BY <1>2, <3>1, DidElements, DidTyped
    <3>3. 1 \in DOMAIN <<"store", "pairAct">> /\ 2 \in DOMAIN <<"store", "pairAct">>
      OBVIOUS
    <3>4. 2 \in DOMAIN todo' /\ todo'[2] = "pairAct"
      BY <3>2, <3>3
    <3>5. Len(todo') > 1
      BY <3>2, <3>4, LenProperties
    <3>6. todo' # <<>> /\ Head(todo') = "store"
      BY <1>5, <3>1, <3>3
    <3>7. QED
      BY <3>1, <3>4, <3>5, <3>6
  <2>2. CASE ~pairVm
    <3>1. Head(todo) = "forget"
      BY <1>6 DEF DidForget, Did
    <3>2. QED
      BY <1>3, <1>4, <2>2, <3>1
  <2>3. QED
    BY <2>1, <2>2
<1>7. CASE DidStore
  <2>1. Head(todo) = "store" /\ pairVm' = pairFlag /\ pairFlag' = pairFlag
    BY <1>7 DEF DidStore, Did
  <2>2. CASE Len(todo) > 1 /\ todo[2] = "pairAct"
    <3>1. /\ todo' \in Seq(Steps) /\ \A i \in DOMAIN todo : i # 1 => i - 1 \in DOMAIN todo' /\ todo'[i - 1] = todo[i]
      <4>1. todo' = Tail(todo) /\ todo # <<>>
        <5>1. todo # <<>> /\ todo' = <<>> \o Tail(todo)
          BY <1>7 DEF DidStore, Did
        <5>2. QED
          BY <1>2, <5>1, ConcatEmptySeq, HeadTailProperties
      <4>2. QED
        BY <1>2, <4>1, TailElements
    <3>2. 2 \in DOMAIN todo
      BY <1>2, <2>2, LenProperties
    <3>3. 1 \in DOMAIN todo' /\ todo'[1] = "pairAct"
      BY <2>2, <3>1, <3>2
    <3>4. todo' # <<>>
      BY <3>3, EmptySeq
    <3>5. Head(todo') = "pairAct"
      BY <3>1, <3>3, <3>4, TailElements
    <3>6. QED
      BY <3>4, <3>5
  <2>3. CASE ~(Len(todo) > 1 /\ todo[2] = "pairAct")
    BY <1>3, <1>4, <2>1, <2>3
  <2>4. QED
    BY <2>2, <2>3
<1>8. CASE DidPairAct
  <2>1. Did("pairAct", <<"discTest">>)
    BY <1>1, <1>2, <1>8 DEF DidPairAct, LinkedInv
  <2>2. todo' # <<>> /\ Head(todo') = "discTest"
    BY <1>5, <2>1
  <2>3. QED
    BY <2>2
<1>9. CASE DidDiscTest
  <2>1. CASE state # "SEND_DISCONN"
    <3>1. Did("discTest", <<"discSet">>)
      BY <1>1, <1>9, <2>1 DEF DidDiscTest
    <3>2. todo' # <<>> /\ Head(todo') = "discSet"
      BY <1>5, <3>1
    <3>3. QED
      BY <3>2
  <2>2. CASE state = "SEND_DISCONN"
    BY <1>2, <1>3, <2>2 DEF LinkedInv
  <2>3. QED
    BY <2>1, <2>2
<1>10. CASE DidDiscSet
  BY <1>1, <1>10, DiscSetReports
<1>11. ASSUME Head(todo) \notin {"store", "pairAct", "discTest", "discSet"},
              UNCHANGED <<pairFlag, pairVm>>
       PROVE  (pairFlag' /\ pairVm') \/ Pending(hci', {"DISCONNECTED"})
  BY <1>3, <1>4, <1>11
<1>12. CASE DidCtrl \/ DidAdvTest \/ DidAdvSet
  BY <1>11, <1>12 DEF DidCtrl, DidAdvTest, DidAdvSet, Did, Only
<1>13. CASE DidOffTest \/ DidSwTest \/ DidReset \/ DidSelect
  BY <1>11, <1>13 DEF DidOffTest, DidSwTest, DidReset, DidSelect, Did, Only
<1>14. QED
  BY <1>6, <1>7, <1>8, <1>9, <1>10, <1>12, <1>13 DEF CallDid

\* What a step is continued by tells of the state the server advertises in.
LEMMA MoresTellState ==
    ASSUME NEW now
    PROVE  /\ Tells(<<"advSet1">>, On, Off, now, TRUE)
           /\ Tells(<<"advSet0">>, On, Off, now, FALSE)
           /\ Tells(<<"advTest0", "ctrlOff">>, On, Off, now, FALSE)
           /\ Tells(<<"advTest0", "advTest1">>, On, Off, now, TRUE)
           /\ Tells(<<"offTest", "reset", "ctrlOn", "advTest1">>, On, Off, now, TRUE)
           /\ \A m \in {<<>>, <<"store", "pairAct">>} : Tells(m, On, Off, now, now)
<1> USE DEF Tells, Pending, Answered, On, Off
<1>1. Tells(<<"advSet1">>, On, Off, now, TRUE) /\ Tells(<<"advSet0">>, On, Off, now, FALSE)
  OBVIOUS
<1>2. Tells(<<"advTest0", "ctrlOff">>, On, Off, now, FALSE)
  OBVIOUS
<1>3. Tells(<<"advTest0", "advTest1">>, On, Off, now, TRUE)
  OBVIOUS
<1>4. Tells(<<"offTest", "reset", "ctrlOn", "advTest1">>, On, Off, now, TRUE)
  OBVIOUS
<1>5. \A m \in {<<>>, <<"store", "pairAct">>} : Tells(m, On, Off, now, now)
  OBVIOUS
<1>6. QED
  BY <1>1, <1>2, <1>3, <1>4, <1>5

\* An attempt to advertise changes the state, or finds it as it should be.
LEMMA AdvTestFinds ==
    ASSUME SrvVarsTyped, ~conHandle, UnlinkedInv, DidAdvTest
    PROVE  \/ Did("advTest1", <<"advSet1">>) /\ advCtrlEn
           \/ Did("advTest1", <<>>) /\ state = "ADV"
           \/ Did("advTest0", <<"advSet0">>)
           \/ Did("advTest0", <<>>) /\ state # "ADV"
<1>1. CASE Did("advTest1", <<>>) /\ ~CanAdv("ADV")
  <2>1. 1 \in DOMAIN todo /\ todo[1] = "advTest1"
    BY <1>1, DidHead DEF SrvVarsTyped
  <2>2. advCtrlEn
    BY <2>1 DEF UnlinkedInv, AdvOnPlaced
  <2>3. QED
    BY <1>1, <2>2 DEF CanAdv, UnlinkedInv
<1>2. CASE Did("advTest0", <<>>) /\ ~CanAdv("IDLE")
  BY <1>2 DEF CanAdv, UnlinkedInv
<1>3. QED
  BY <1>1, <1>2 DEF DidAdvTest, CanAdv

\* The state follows the caller's wish.
LEMMA StateKept ==
    ASSUME SrvVarsTyped, ~conHandle, TestsHold, UnlinkedInv, CallDid
    PROVE  StateTold'
<1> DEFINE was == state = "ADV"
<1>0. /\ todo \in Seq(Steps) /\ wish' = wish
      /\ Tells(todo, On, Off, was, wish)
  BY DidKinds DEF SrvVarsTyped, UnlinkedInv, StateTold, On, Off
<1>1. SUFFICES Tells(todo', On, Off, state' = "ADV", wish)
  <2> DEFINE now == state' = "ADV"
  <2>1. SUFFICES ASSUME Tells(todo', On, Off, now, wish) PROVE StateTold'
    OBVIOUS
  <2>2. now <=> state' = "ADV"
    OBVIOUS
  <2> HIDE DEF now
  <2>3. QED
    BY <1>0, <2>1, <2>2, StateIsTold
<1>2. /\ {"advTest1", "advSet1", "swTest"} \cap Off = {}
      /\ {"advTest0", "advSet0", "offTest"} \cap On = {}
      /\ On \cup Off = {"advTest1", "advSet1", "swTest", "advTest0", "advSet0", "offTest"}
  BY DEF On, Off
<1>3. ASSUME NEW h, NEW more, Did(h, more), h \in {"advTest1", "advSet1", "swTest"},
             Tells(more, On, Off, state' = "ADV", TRUE)
      PROVE  Tells(todo', On, Off, state' = "ADV", wish)
  <2>1. h \notin Off
    BY <1>2, <1>3
  <2> DEFINE now == state' = "ADV"
  <2>2. Tells(more, On, Off, now, TRUE)
    BY <1>3
  <2> HIDE DEF now, was
  <2>3. h \in On \cup Off
    BY <1>2, <1>3
  <2>4. Tells(todo', On, Off, now, wish)
    BY <1>0, <1>3, <2>1, <2>2, <2>3, DidTells
  <2>5. QED
    BY <2>4 DEF now
<1>4. ASSUME NEW h, NEW more, Did(h, more), h \in {"advTest0", "advSet0", "offTest"},
             Tells(more, On, Off, state' = "ADV", FALSE)
      PROVE  Tells(todo', On, Off, state' = "ADV", wish)
  <2>1. h \notin On
    BY <1>2, <1>4
  <2> DEFINE now == state' = "ADV"
  <2>2. Tells(more, On, Off, now, FALSE)
    BY <1>4
  <2> HIDE DEF now, was
  <2>3. h \in On \cup Off
    BY <1>2, <1>4
  <2>4. Tells(todo', On, Off, now, wish)
    BY <1>0, <1>4, <2>1, <2>2, <2>3, DidTells
  <2>5. QED
    BY <2>4 DEF now
<1>5. ASSUME NEW h, NEW more, Did(h, more),
             h \notin {"advTest1", "advSet1", "swTest", "advTest0", "advSet0", "offTest"},
             state' = state, Tells(more, On, Off, state = "ADV", state = "ADV")
      PROVE  Tells(todo', On, Off, state' = "ADV", wish)
  <2>1. h \notin On \cup Off
    BY <1>2, <1>5
  <2>2. Tells(more, On, Off, was, was)
    BY <1>5
  <2> HIDE DEF was
  <2>3. Tells(todo', On, Off, was, wish)
    BY <1>0, <1>5, <2>1, <2>2, DidTells
  <2>4. QED
    BY <1>5, <2>3 DEF was
<1>6. /\ \A m \in {<<>>, <<"store", "pairAct">>} :
            Tells(m, On, Off, state = "ADV", state = "ADV")
      /\ \A b \in BOOLEAN : Tells(<<>>, On, Off, b, b)
  BY MoresTellState
<1>7. CASE DidAdvTest
  <2>1. state' = state
    BY <1>7 DEF DidAdvTest, Only
  <2>2. CASE Did("advTest1", <<"advSet1">>)
    BY <1>3, <2>2, MoresTellState
  <2>3. CASE Did("advTest0", <<"advSet0">>)
    BY <1>4, <2>3, MoresTellState
  <2>4. CASE Did("advTest1", <<>>) /\ state = "ADV"
    <3>1. Tells(<<>>, On, Off, state' = "ADV", TRUE)
      BY <2>1, <2>4 DEF Tells, Pending, Answered
    <3>2. QED
      BY <1>3, <2>4, <3>1
  <2>5. CASE Did("advTest0", <<>>) /\ state # "ADV"
    <3>1. Tells(<<>>, On, Off, state' = "ADV", FALSE)
      BY <2>1, <2>5 DEF Tells, Pending, Answered
    <3>2. QED
      BY <1>4, <2>5, <3>1
  <2>6. QED
    BY <1>7, <2>2, <2>3, <2>4, <2>5, AdvTestFinds
<1>8. CASE DidAdvSet
  <2>1. CASE Did("advSet1", <<>>) /\ state' = "ADV"
    <3>1. Tells(<<>>, On, Off, state' = "ADV", TRUE)
      BY <2>1 DEF Tells, Pending, Answered
    <3>2. QED
      BY <1>3, <2>1, <3>1
  <2>2. CASE Did("advSet0", <<>>) /\ state' = "IDLE"
    <3>1. Tells(<<>>, On, Off, state' = "ADV", FALSE)
      BY <2>2 DEF Tells, Pending, Answered
    <3>2. QED
      BY <1>4, <2>2, <3>1
  <2>3. QED
    BY <1>8, <2>1, <2>2 DEF DidAdvSet
<1>9. CASE DidOffTest
  BY <1>4, <1>9, MoresTellState DEF DidOffTest
<1>10. CASE DidSwTest
  BY <1>3, <1>10, MoresTellState DEF DidSwTest
<1>11. CASE DidPairAct
  <2>1. state' = state
    BY <1>11 DEF DidPairAct, Only
  <2>2. CASE Did("pairAct", <<"advTest0", "advTest1">>) /\ state = "ADV"
    <3>1. Tells(<<"advTest0", "advTest1">>, On, Off, state = "ADV", state = "ADV")
      BY <2>2, MoresTellState DEF Tells
    <3>2. QED
      BY <1>5, <2>1, <2>2, <3>1
  <2>3. CASE Did("pairAct", <<>>)
    BY <1>5, <1>6, <2>1, <2>3
  <2>4. QED
    BY <1>11, <2>2, <2>3 DEF DidPairAct
<1>12. CASE DidDiscSet
  <2>1. Pending(todo, {"discSet"})
    BY <1>0, <1>12, DidHead DEF DidDiscSet
  <2>2. QED
    BY <2>1 DEF TestsHold
<1>13. CASE DidCtrl \/ DidDiscTest
  BY <1>5, <1>6, <1>13 DEF DidCtrl, DidDiscTest, Only
<1>14. CASE DidForget \/ DidStore
  BY <1>5, <1>6, <1>14 DEF DidForget, DidStore
<1>15. CASE DidReset \/ DidSelect
  BY <1>5, <1>6, <1>15 DEF DidReset, DidSelect, Only
<1>16. QED
  BY <1>7, <1>8, <1>9, <1>10, <1>11, <1>12, <1>13, <1>14, <1>15 DEF CallDid

\* What is left of a call behind the step done, with what it followed.
LEMMA Shifted ==
    ASSUME todo \in Seq(Steps), NEW h, NEW more, Did(h, more),
           NEW i \in DOMAIN todo', i \notin DOMAIN more
    PROVE  \E j \in DOMAIN todo :
              /\ j \in Nat /\ j >= 2 /\ todo'[i] = todo[j]
              /\ j = 2 => i = Len(more) + 1 /\ todo[j - 1] = h
              /\ j > 2 => i > 1 /\ todo'[i - 1] = todo[j - 1]
<1> DEFINE j == i - Len(more) + 1
<1>0. /\ Len(more) \in Nat /\ 1 \in DOMAIN todo /\ todo[1] = h /\ more \in Seq(Steps)
      /\ todo' \in Seq(Steps)
      /\ i \in Nat /\ i >= 1 /\ i > Len(more)
      /\ j \in DOMAIN todo /\ todo'[i] = todo[j]
  BY DidElements, DidTyped
<1>1. j \in Nat /\ j >= 2 /\ (j = 2 => i = Len(more) + 1 /\ todo[j - 1] = h)
  BY <1>0
<1>2. ASSUME j > 2 PROVE i > 1 /\ todo'[i - 1] = todo[j - 1]
  <2>1. i > 1 /\ i - 1 > Len(more) /\ i - 1 \in Nat
    BY <1>0, <1>2
  <2>2. DOMAIN todo' = 1..Len(todo') /\ Len(todo') \in Nat /\ DOMAIN more = 1..Len(more)
    BY <1>0, LenProperties
  <2>3. i - 1 \in DOMAIN todo' /\ i - 1 \notin DOMAIN more
    BY <1>0, <2>1, <2>2
  <2>4. todo'[i - 1] = todo[(i - 1) - Len(more) + 1]
    BY <2>3, DidElements
  <2>5. (i - 1) - Len(more) + 1 = j - 1
    BY <1>0
  <2>6. QED
    BY <2>1, <2>4, <2>5
<1> HIDE DEF j
<1>3. QED
  BY <1>0, <1>1, <1>2

\* What a step is continued by, in its place.
LEMMA Continued ==
    ASSUME todo \in Seq(Steps), NEW h, NEW more, Did(h, more), NEW i \in DOMAIN more
    PROVE  /\ todo'[i] = more[i]
           /\ i > 1 => todo'[i - 1] = more[i - 1]
           /\ todo'[1] = more[1]
<1>1. /\ \A k \in DOMAIN more : todo'[k] = more[k]
      /\ DOMAIN more = 1..Len(more) /\ Len(more) \in Nat
  BY DidElements, DidTyped, LenProperties
<1>2. QED
  BY <1>1

\* A step keeps the order the attempts to advertise need.
LEMMA AdvOnStep ==
    ASSUME todo \in Seq(Steps), AdvOnPlaced, NEW h, NEW more, Did(h, more),
           \A k \in DOMAIN more :
              /\ more[k] = "advTest1" =>
                    \/ k > 1 /\ more[k - 1] = "ctrlOn"
                    \/ advCtrlEn' /\ k = 1
                    \/ advCtrlEn' /\ k = 2 /\ more[1] \in {"advTest0", "advSet0"}
              /\ more[k] = "advSet1" => k = 1 /\ advCtrlEn',
           h = "ctrlOn" => more = <<>> /\ advCtrlEn',
           h \in {"advTest0", "advSet0"} =>
              /\ advCtrlEn => advCtrlEn'
              /\ more = <<>> \/ more = <<"advSet0">>
    PROVE  AdvOnPlaced'
<1> SUFFICES ASSUME NEW i \in DOMAIN todo'
             PROVE  /\ todo'[i] = "advTest1" =>
                          \/ i > 1 /\ todo'[i - 1] = "ctrlOn"
                          \/ advCtrlEn' /\ i = 1
                          \/ advCtrlEn' /\ i = 2 /\ todo'[1] \in {"advTest0", "advSet0"}
                    /\ todo'[i] = "advSet1" => i = 1 /\ advCtrlEn'
  BY DEF AdvOnPlaced
<1>1. CASE i \in DOMAIN more
  <2>1. /\ todo'[i] = more[i]
        /\ i > 1 => todo'[i - 1] = more[i - 1]
        /\ todo'[1] = more[1]
    BY <1>1, Continued
  <2>2. QED
    BY <1>1, <2>1
<1>2. CASE i \notin DOMAIN more
  <2>1. PICK j \in DOMAIN todo :
              /\ j \in Nat /\ j >= 2 /\ todo'[i] = todo[j]
              /\ j = 2 => i = Len(more) + 1 /\ todo[j - 1] = h
              /\ j > 2 => i > 1 /\ todo'[i - 1] = todo[j - 1]
    BY <1>2, Shifted
  <2>2. /\ todo[j] = "advTest1" => \/ todo[j - 1] = "ctrlOn"
                                   \/ advCtrlEn /\ j = 2 /\ todo[1] \in {"advTest0", "advSet0"}
        /\ todo[j] # "advSet1"
    BY <2>1 DEF AdvOnPlaced
  <2>3. CASE j = 2
    <3>1. todo[j] = "advTest1" => \/ h = "ctrlOn"
                                  \/ advCtrlEn /\ h \in {"advTest0", "advSet0"}
      BY <2>1, <2>2, <2>3
    <3>2. Len(<<>>) = 0 /\ Len(<<"advSet0">>) = 1 /\ 1 \in DOMAIN <<"advSet0">>
          /\ <<"advSet0">>[1] = "advSet0"
      OBVIOUS
    <3>3. CASE more = <<>>
      BY <2>1, <2>2, <2>3, <3>1, <3>2, <3>3
    <3>4. CASE more = <<"advSet0">>
      <4>1. todo'[1] = "advSet0"
        BY <3>2, <3>4, Continued
      <4>2. QED
        BY <2>1, <2>2, <2>3, <3>1, <3>2, <3>4, <4>1
    <3>5. CASE more # <<>> /\ more # <<"advSet0">>
      BY <2>1, <2>2, <3>1, <3>5
    <3>6. QED
      BY <3>3, <3>4, <3>5
  <2>4. CASE j > 2
    BY <2>1, <2>2, <2>4
  <2>5. QED
    BY <2>1, <2>3, <2>4
<1>3. QED
  BY <1>1, <1>2

\* A step keeps the order the switch, and the reset, need.
LEMMA OffStep ==
    ASSUME todo \in Seq(Steps), OffPlaced, NEW h, NEW more, Did(h, more),
           \A k \in DOMAIN more :
              /\ more[k] = "ctrlOff" => k > 1 /\ more[k - 1] \in {"advTest0", "advSet0"}
              /\ more[k] = "reset" => k > 1 /\ more[k - 1] \in {"offTest", "ctrlOff"},
           h \in {"advTest0", "advSet0"} => \/ more = <<"advSet0">>
                                            \/ more = <<>> /\ state' # "ADV",
           h \in {"offTest", "ctrlOff"} => \/ more = <<"advTest0", "ctrlOff">>
                                           \/ more = <<>> /\ state' # "ADV"
    PROVE  OffPlaced'
<1> SUFFICES ASSUME NEW i \in DOMAIN todo'
             PROVE  /\ todo'[i] = "ctrlOff" =>
                          \/ i = 1 /\ state' # "ADV"
                          \/ i > 1 /\ todo'[i - 1] \in {"advTest0", "advSet0"}
                    /\ todo'[i] = "reset" =>
                          \/ i = 1 /\ state' # "ADV"
                          \/ i > 1 /\ todo'[i - 1] \in {"offTest", "ctrlOff"}
  BY DEF OffPlaced
<1>1. CASE i \in DOMAIN more
  BY <1>1, Continued
<1>2. CASE i \notin DOMAIN more
  <2>1. PICK j \in DOMAIN todo :
              /\ j \in Nat /\ j >= 2 /\ todo'[i] = todo[j]
              /\ j = 2 => i = Len(more) + 1 /\ todo[j - 1] = h
              /\ j > 2 => i > 1 /\ todo'[i - 1] = todo[j - 1]
    BY <1>2, Shifted
  <2>2. /\ todo[j] = "ctrlOff" => todo[j - 1] \in {"advTest0", "advSet0"}
        /\ todo[j] = "reset" => todo[j - 1] \in {"offTest", "ctrlOff"}
    BY <2>1 DEF OffPlaced
  <2>3. CASE j = 2
    <3>1. /\ Len(<<>>) = 0
          /\ Len(<<"advSet0">>) = 1 /\ 1 \in DOMAIN <<"advSet0">>
          /\ <<"advSet0">>[1] = "advSet0"
          /\ Len(<<"advTest0", "ctrlOff">>) = 2 /\ 2 \in DOMAIN <<"advTest0", "ctrlOff">>
          /\ <<"advTest0", "ctrlOff">>[2] = "ctrlOff"
      OBVIOUS
    <3>2. CASE more = <<>>
      BY <2>1, <2>2, <2>3, <3>1, <3>2
    <3>3. CASE more = <<"advSet0">>
      <4>1. i = 2
        BY <2>1, <2>3, <3>1, <3>3
      <4>4. todo'[1] = "advSet0"
        BY <3>1, <3>3, Continued
      <4>2. h \notin {"offTest", "ctrlOff"}
        BY <3>1, <3>3
      <4>3. QED
        BY <2>1, <2>2, <2>3, <4>1, <4>2, <4>4
    <3>4. CASE more = <<"advTest0", "ctrlOff">>
      <4>1. todo'[2] = "ctrlOff" /\ i = 3
        BY <2>1, <2>3, <3>1, <3>4, Continued
      <4>2. h \notin {"advTest0", "advSet0"}
        BY <3>1, <3>4
      <4>3. QED
        BY <2>1, <2>2, <2>3, <4>1, <4>2
    <3>5. CASE h \notin {"advTest0", "advSet0", "offTest", "ctrlOff"}
      BY <2>1, <2>2, <2>3, <3>5
    <3>6. QED
      BY <3>2, <3>3, <3>4, <3>5
  <2>4. CASE j > 2
    BY <2>1, <2>2, <2>4
  <2>5. QED
    BY <2>1, <2>3, <2>4
<1>3. QED
  BY <1>1, <1>2

\* Without a link, the steps stay in order.
LEMMA PlacedKept ==
    ASSUME SrvVarsTyped, ~conHandle, TestsHold, UnlinkedInv, CallDid
    PROVE  AdvOnPlaced' /\ OffPlaced'
<1>0. /\ todo \in Seq(Steps) /\ AdvOnPlaced /\ OffPlaced
      /\ state = "ADV" => advCtrlEn
  BY DEF SrvVarsTyped, UnlinkedInv
<1>1. ASSUME NEW h, NEW more, Did(h, more),
             \A k \in DOMAIN more : more[k] \notin {"advTest1", "advSet1", "ctrlOff", "reset"},
             h \notin {"ctrlOn", "ctrlOff", "offTest", "advTest0", "advSet0"}
      PROVE  AdvOnPlaced' /\ OffPlaced'
  BY <1>0, <1>1, AdvOnStep, OffStep
<1>2. ASSUME NEW h, NEW more, Did(h, more),
             more \in {<<>>, <<"store", "pairAct">>},
             h \notin {"ctrlOn", "ctrlOff", "offTest", "advTest0", "advSet0"}
      PROVE  AdvOnPlaced' /\ OffPlaced'
  <2>1. \A m \in {<<>>, <<"store", "pairAct">>} :
          \A k \in DOMAIN m : m[k] \notin {"advTest1", "advSet1", "ctrlOff", "reset"}
    OBVIOUS
  <2>2. QED
    BY <1>1, <1>2, <2>1
<1>3. CASE DidCtrl
  <2>1. CASE Did("ctrlOn", <<>>) /\ advCtrlEn' = TRUE
    BY <1>0, <2>1, AdvOnStep, OffStep
  <2>2. CASE Did("ctrlOff", <<>>) /\ state' = state
    <3>1. 1 \in DOMAIN todo /\ todo[1] = "ctrlOff"
      BY <1>0, <2>2, DidHead
    <3>2. OffPlaced
      BY <1>0
    <3>3. state # "ADV"
      BY <3>1, <3>2 DEF OffPlaced
    <3>4. QED
      BY <1>0, <2>2, <3>3, AdvOnStep, OffStep
  <2>3. QED
    BY <1>3, <2>1, <2>2 DEF DidCtrl
<1>4. CASE DidAdvTest
  <2>1. state' = state /\ advCtrlEn' = advCtrlEn
    BY <1>4 DEF DidAdvTest, Only
  <2>2. CASE Did("advTest1", <<"advSet1">>) /\ advCtrlEn
    BY <1>0, <2>1, <2>2, AdvOnStep, OffStep
  <2>3. CASE Did("advTest1", <<>>)
    BY <1>2, <2>3
  <2>4. CASE Did("advTest0", <<"advSet0">>)
    BY <1>0, <2>1, <2>4, AdvOnStep, OffStep
  <2>5. CASE Did("advTest0", <<>>) /\ state # "ADV"
    BY <1>0, <2>1, <2>5, AdvOnStep, OffStep
  <2>6. QED
    BY <1>4, <2>2, <2>3, <2>4, <2>5, AdvTestFinds
<1>5. CASE DidAdvSet
  <2>1. CASE Did("advSet1", <<>>)
    BY <1>2, <2>1
  <2>2. CASE Did("advSet0", <<>>) /\ state' = "IDLE" /\ advCtrlEn' = advCtrlEn
    BY <1>0, <2>2, AdvOnStep, OffStep
  <2>3. QED
    BY <1>5, <2>1, <2>2 DEF DidAdvSet
<1>6. CASE DidOffTest
  <2>1. Did("offTest", <<"advTest0", "ctrlOff">>)
    BY <1>6 DEF DidOffTest
  <2>2. \A k \in DOMAIN <<"advTest0", "ctrlOff">> :
          LET m == <<"advTest0", "ctrlOff">>
          IN /\ m[k] = "ctrlOff" => k > 1 /\ m[k - 1] \in {"advTest0", "advSet0"}
             /\ m[k] \notin {"advTest1", "advSet1", "reset"}
    OBVIOUS
  <2>3. QED
    BY <1>0, <2>1, <2>2, AdvOnStep, OffStep
<1>7. CASE DidSwTest
  <2>1. Did("swTest", <<"offTest", "reset", "ctrlOn", "advTest1">>)
    BY <1>7 DEF DidSwTest
  <2>2. \A k \in DOMAIN <<"offTest", "reset", "ctrlOn", "advTest1">> :
          LET m == <<"offTest", "reset", "ctrlOn", "advTest1">>
          IN /\ m[k] = "advTest1" => k > 1 /\ m[k - 1] = "ctrlOn"
             /\ m[k] = "reset" => k > 1 /\ m[k - 1] \in {"offTest", "ctrlOff"}
             /\ m[k] \notin {"advSet1", "ctrlOff"}
    OBVIOUS
  <2>3. QED
    BY <1>0, <2>1, <2>2, AdvOnStep, OffStep
<1>8. CASE DidPairAct
  <2>1. CASE Did("pairAct", <<"advTest0", "advTest1">>) /\ state = "ADV"
             /\ advCtrlEn' = advCtrlEn
    <3>1. \A k \in DOMAIN <<"advTest0", "advTest1">> :
            LET m == <<"advTest0", "advTest1">>
            IN /\ m[k] = "advTest1" => k = 2 /\ m[1] = "advTest0"
               /\ m[k] \notin {"advSet1", "ctrlOff", "reset"}
      OBVIOUS
    <3>2. QED
      BY <1>0, <2>1, <3>1, AdvOnStep, OffStep
  <2>2. CASE Did("pairAct", <<>>)
    BY <1>2, <2>2
  <2>3. QED
    BY <1>8, <2>1, <2>2 DEF DidPairAct, Only
<1>9. CASE DidDiscTest \/ DidDiscSet
  <2>1. CASE DidDiscTest
    BY <1>2, <2>1 DEF DidDiscTest
  <2>2. CASE DidDiscSet
    BY <1>2, <2>2 DEF DidDiscSet
  <2>3. QED
    BY <1>9, <2>1, <2>2
<1>10. CASE DidForget \/ DidStore
  BY <1>2, <1>10 DEF DidForget, DidStore
<1>11. CASE DidReset \/ DidSelect
  BY <1>2, <1>11 DEF DidReset, DidSelect
<1>12. QED
  BY <1>3, <1>4, <1>5, <1>6, <1>7, <1>8, <1>9, <1>10, <1>11 DEF CallDid

\* Without a link, the call leaves the advertisement as its caller wants it.
LEMMA UnlinkedKept ==
    ASSUME SrvVarsTyped, ~conHandle, TestsHold, UnlinkedInv, CallDid
    PROVE  UnlinkedInv'
<1> USE DEF UnlinkedInv, SrvVarsTyped
<1>0. todo \in Seq(Steps)
  OBVIOUS
<1>1. StateTold' /\ AdvOnPlaced' /\ OffPlaced'
  BY StateKept, PlacedKept
<1>2. ~DidDiscSet
  <2>1. SUFFICES ASSUME DidDiscSet PROVE Pending(todo, {"discSet"})
    BY DEF TestsHold
  <2>2. QED
    BY <2>1, DidHead DEF DidDiscSet
<1>3. CASE DidCtrl
  <2>1. CASE advCtrlEn' = TRUE
    BY <1>1, <1>3, <2>1 DEF DidCtrl
  <2>2. CASE Did("ctrlOff", <<>>)
    <3>1. 1 \in DOMAIN todo /\ todo[1] = "ctrlOff"
      BY <2>2, DidHead
    <3>2. state # "ADV"
      BY <3>1 DEF OffPlaced
    <3>3. QED
      BY <1>1, <1>3, <3>2 DEF DidCtrl
  <2>3. QED
    BY <1>3, <2>1, <2>2 DEF DidCtrl
<1>4. CASE DidAdvSet
  <2>1. CASE Did("advSet1", <<>>) /\ state' = "ADV" /\ adv' = ~link
    <3>1. 1 \in DOMAIN todo /\ todo[1] = "advSet1"
      BY <2>1, DidHead
    <3>2. advCtrlEn
      BY <3>1 DEF AdvOnPlaced
    <3>3. QED
      BY <1>1, <1>4, <2>1, <3>2 DEF DidAdvSet, AdvStates
  <2>2. CASE state' = "IDLE" /\ adv' = FALSE
    BY <1>1, <1>4, <2>2 DEF DidAdvSet, AdvStates
  <2>3. QED
    BY <1>4, <2>1, <2>2 DEF DidAdvSet
<1>5. CASE DidReset
  <2>1. 1 \in DOMAIN todo /\ todo[1] = "reset"
    BY <1>5, DidHead DEF DidReset
  <2>2. state # "ADV"
    BY <2>1 DEF OffPlaced
  <2>3. QED
    BY <1>1, <1>5, <2>2 DEF DidReset
<1>6. CASE UNCHANGED <<advCtrlEn, state, adv, link, hci>>
  BY <1>1, <1>6
<1>7. QED
  BY <1>2, <1>3, <1>4, <1>5, <1>6 DEF CallDid, DidAdvTest, DidOffTest, DidDiscTest, DidForget,
     DidStore, DidPairAct, DidSwTest, DidSelect, Only

\* A call keeps its part of the invariant.
LEMMA DidCallInv ==
    ASSUME Before, CallDid, ~raced'
    PROVE  CallInv'
<1>1. ~raced /\ conHandle' = conHandle /\ SrvVarsTyped /\ HandleTold
  BY DidKinds DEF Before
<1>2. state # "NULL"
  BY DidKinds DEF Before, NothingBegun, Did
<1>3. /\ SwitchTold /\ SwitchWished /\ TestsHold /\ BondInv
      /\ conHandle => LinkedInv
      /\ ~conHandle => UnlinkedInv
  BY <1>1, <1>2 DEF Before, CallInv
<1>4. SwitchTold' /\ SwitchWished'
  BY <1>1, <1>3, SwitchKept
<1>5. TestsHold'
  BY <1>1, <1>3, TestsKept
<1>6. conHandle => LinkedInv'
  BY <1>1, <1>3, LinkedKept
<1>7. ~conHandle => UnlinkedInv'
  BY <1>1, <1>3, UnlinkedKept
<1>8. BondInv'
  BY <1>1, <1>3, BondKept
<1>9. QED
  BY <1>1, <1>4, <1>5, <1>6, <1>7, <1>8 DEF CallInv

\* The server keeps its invariant.
LEMMA ServerKept ==
    ASSUME ServerInv, SrvStep
    PROVE  ServerInv'
<1>1. Before /\ PlainNeverSelects
  BY SrvTyped DEF ServerInv, Before
<1>2. LinkKinds
  BY <1>1, SrvLink DEF Before
<1>3. HandleTold' /\ hci' \in Seq(Reports) /\ TalkInLink'
  BY <1>1, <1>2, HandleKept, TalkKept DEF Before
<1>4. SrvTypeOK'
  BY <1>1, <1>3, SrvTypeKept, SrvTyped DEF Before
<1>5. NothingBegun' /\ ProfileTold' /\ AdvertisesAlone' /\ PlainNeverSelects'
  BY <1>1, BeginKept, ProfileKept, AloneKept, PlainKept DEF Before
<1>6. ASSUME ~raced' PROVE CallInv'
  <2>1. CASE state = "NULL" /\ InitServer
    BY <1>1, <2>1, StartCallInv
  <2>2. CASE CallBegins
    <3>1. PICK c \in Calls : Begun(c)
      BY <1>1, <2>2, CallBeginsSteps DEF Before
    <3>2. QED
      BY <1>1, <1>6, <3>1, BegunCallInv
  <2>3. CASE CallStep \/ SelectDone
    <3>1. CallDid
      BY <1>1, <2>3, CallStepDoes DEF Before
    <3>2. QED
      BY <1>1, <1>6, <3>1, DidCallInv
  <2>4. CASE PacketHandler
    BY <1>1, <1>6, <2>4, PacketCallInv
  <2>5. CASE Radio
    BY <1>1, <1>6, <2>5, RadioCallInv
  <2>6. CASE UNCHANGED srvVars
    <3>1. UNCHANGED <<emf, advCtrlEn, state, conHandle, pairFlag, pairVm, userPrivate,
                      private, todo, adv, link, hci, wish, raced>>
      BY <2>6 DEF srvVars, hostVars, ctrlVars, histVars
    <3>2. CallInv
      BY <1>1, <1>6, <3>1 DEF Before
    <3>3. QED
      BY <3>1, <3>2 DEF CallInv, SwitchTold, SwitchWished, SwitchPending, TestsHold, LinkedInv,
         UnlinkedInv, StateTold, AdvOnPlaced, OffPlaced, BondInv
  <2>7. QED
    BY <2>1, <2>2, <2>3, <2>4, <2>5, <2>6 DEF SrvStep
<1>7. QED
  BY <1>3, <1>4, <1>5, <1>6 DEF ServerInv

\* The server begins in it.
LEMMA ServerBegins ==
    ASSUME EarInit
    PROVE  ServerInv
<1> USE DEF EarInit, SrvInit
<1>1. SrvVarsTyped
  <2>1. emf \in BOOLEAN /\ pairVm \in BOOLEAN
    OBVIOUS
  <2>2. todo \in Seq(Steps) /\ hci \in Seq(Reports) /\ state \in States
    BY EmptySeq DEF States
  <2>3. QED
    BY <2>1, <2>2 DEF SrvVarsTyped
<1>2. Tells(hci, {"CONN"}, {"DISCONNECTED"}, conHandle, link)
  BY EmptyTells
<1>3. TalkInLink
  BY DEF TalkInLink, TalkIn
<1>4. \A M : ~Pending(todo, M)
  BY PiecePending
<1>5. QED
  BY <1>1, <1>2, <1>3, <1>4, SrvTyped DEF ServerInv, NothingBegun, HandleTold, ProfileTold,
     AdvertisesAlone, PlainNeverSelects, CallInv

-------------------------------------------------------------------------------
(* What the server guarantees when nothing is on its way.                    *)

\* What the queues tell is what the server's properties say once they are empty.
LEMMA ServerAgrees ==
    ASSUME ServerInv
    PROVE  HandleAgrees /\ ProfileAgrees /\ AdvertisesAsAsked /\ ForgottenLinkEnds
<1>1. SrvVarsTyped
  BY SrvTyped DEF ServerInv
<1>2. \A M : hci = <<>> => ~Pending(hci, M)
  BY PiecePending
<1>3. \A M : todo = <<>> => ~Pending(todo, M)
  BY PiecePending
<1>4. HandleAgrees
  BY <1>1, EmptyTells DEF ServerInv, HandleTold, HandleAgrees, SrvVarsTyped
<1>5. ProfileAgrees
  BY <1>3 DEF ServerInv, ProfileTold, ProfileAgrees, Handled
<1>6. ASSUME state # "NULL", Handled, ~conHandle, ~raced
      PROVE  adv = wish /\ advCtrlEn = wish /\ (adv <=> state = "ADV")
  <2>1. SwitchTold /\ UnlinkedInv /\ todo = <<>> /\ hci = <<>> /\ ~SwitchPending
    BY <1>6 DEF ServerInv, CallInv, Handled, SwitchPending
  <2>2. advCtrlEn <=> wish
    <3>1. Tells(<<>>, {"ctrlOn"}, {"ctrlOff", "offTest"}, advCtrlEn, wish /\ ~SwitchPending)
      BY <1>3, <2>1 DEF SwitchTold
    <3>2. QED
      BY <2>1, <3>1 DEF Tells, Pending, Answered
  <2>3. state = "ADV" <=> wish
    <3>1. Tells(<<>>, {"advTest1", "advSet1", "swTest"}, {"advTest0", "advSet0", "offTest"},
                state = "ADV", wish)
      BY <2>1 DEF UnlinkedInv, StateTold
    <3>2. QED
      BY <3>1 DEF Tells, Pending, Answered
  <2>4. ~link
    BY <1>4, <1>6, <2>1 DEF HandleAgrees
  <2>5. adv <=> state = "ADV"
    BY <1>2, <2>1, <2>4 DEF UnlinkedInv
  <2>6. QED
    BY <1>1, <2>2, <2>3, <2>5 DEF SrvVarsTyped
<1>7. AdvertisesAsAsked
  BY <1>6 DEF AdvertisesAsAsked
<1>8. ForgottenLinkEnds
  <2>1. SUFFICES ASSUME hci = <<>>, todo = <<>>, emf, private, conHandle, ~raced
                 PROVE  pairFlag
    BY DEF ForgottenLinkEnds, Handled
  <2>2. state # "NULL" /\ BondInv
    BY <2>1 DEF ServerInv, NothingBegun, CallInv
  <2>3. QED
    BY <1>2, <2>1, <2>2 DEF BondInv
<1>9. QED
  BY <1>4, <1>5, <1>7, <1>8

-------------------------------------------------------------------------------
(* The earphone's event queue.                                               *)

\* The stack tells app_core that the link is ready for sound, or has ended.
ReadyEvs == <<Ev("CONNECT"), OpenIdevEv(0)>>
EndEvs == <<Ev("DISCONN"), Ev("IDEV_MEDIA_CLOSE")>>
SelectEvs == <<Ev("ODEV_MEDIA_CLOSE"), Ev("ODEV_MEDIA_OPEN"), Ev("IDEV_MEDIA_CLOSE"), OpenIdevEv(0)>>

\* What the tasks of the earphone post are events.
LEMMA EvsTyped ==
    /\ ReadyEvs \in Seq(Event) /\ EndEvs \in Seq(Event) /\ SelectEvs \in Seq(Event)
    /\ <<Ev("ODEV_MEDIA_CLOSE")>> \in Seq(Event)
    /\ <<Ev("ODEV_MEDIA_OPEN")>> \in Seq(Event)
    /\ <<Ev("MEDIA_DECODE_ERR")>> \in Seq(Event) /\ <<Ev("POWEROFF")>> \in Seq(Event)
    /\ <<OpenIdevEv(0)>> \in Seq(Event)
    /\ \A v \in Vols : <<SetVolEv(v)>> \in Seq(Event)
<1>1. /\ Ev("CONNECT") \in Event /\ Ev("DISCONN") \in Event /\ Ev("IDEV_MEDIA_CLOSE") \in Event
      /\ Ev("ODEV_MEDIA_CLOSE") \in Event /\ Ev("ODEV_MEDIA_OPEN") \in Event
      /\ Ev("MEDIA_DECODE_ERR") \in Event /\ Ev("POWEROFF") \in Event
  BY EvTyped DEF AdapterEvents
<1>2. OpenIdevEv(0) \in Event
  BY EvTyped, ModesAssumption
<1>3. \A v \in Vols : SetVolEv(v) \in Event
  <2> SUFFICES ASSUME NEW v \in Vols PROVE SetVolEv(v) \in SetVolEvent
    BY DEF Event
  <2>1. v \in Nat
    BY VolsAssumption
  <2>2. QED
    BY <2>1 DEF SetVolEv, SetVolEvent
<1>4. ReadyEvs \in Seq(Event)
  BY <1>1, <1>2 DEF ReadyEvs
<1>5. EndEvs \in Seq(Event)
  BY <1>1 DEF EndEvs
<1>6. SelectEvs \in Seq(Event)
  BY <1>1, <1>2 DEF SelectEvs
<1>7. QED
  BY <1>1, <1>2, <1>3, <1>4, <1>5, <1>6

\* The events posted, whoever posts them: names and, of a volume, its value.
Posted ==
    {<<>>, ReadyEvs, EndEvs, SelectEvs, <<Ev("ODEV_MEDIA_CLOSE")>>,
     <<Ev("MEDIA_DECODE_ERR")>>, <<Ev("POWEROFF")>>} \cup {<<SetVolEv(v)>> : v \in Vols}

\* The stack's posts.
LEMMA StackPosts ==
    ASSUME SrvVarsTyped, evq \in Seq(Event), PacketHandler
    PROVE  \/ /\ Head(hci) = "UPDATE" /\ private /\ state # "UPDATE_OK"
              /\ state' = "UPDATE_OK" /\ evq' = evq \o ReadyEvs
           \/ /\ Head(hci) = "DISCONNECTED" /\ state # "DISCONN" /\ evq' = evq \o EndEvs
              /\ state' # "UPDATE_OK"
           \/ /\ evq' = evq
              /\ Head(hci) = "UPDATE" => ~private \/ state = "UPDATE_OK"
              /\ Head(hci) = "DISCONNECTED" => state = "DISCONN"
              /\ state' = state \/ state' \in {"CONNECT", "NOTIFY", "ADV"}
<1>0. evq \o <<>> = evq
  BY ConcatEmptySeq
<1>1. CASE Head(hci) = "UPDATE" /\ Updated
  <2>1. state' = (IF private THEN "UPDATE_OK" ELSE state) /\ evq' = evq \o StatusPosts(state, state')
    BY <1>1 DEF Updated, Post
  <2>2. CASE private /\ state # "UPDATE_OK"
    BY <1>1, <2>1, <2>2 DEF StatusPosts, ReadyEvs
  <2>3. CASE ~(private /\ state # "UPDATE_OK")
    <3>1. state' = state
      BY <2>1, <2>3
    <3>2. StatusPosts(state, state') = <<>>
      BY <3>1 DEF StatusPosts
    <3>3. QED
      BY <1>0, <1>1, <2>1, <2>3, <3>1, <3>2
  <2>4. QED
    BY <2>2, <2>3
<1>2. CASE Head(hci) = "DISCONNECTED" /\ Disconnected
  <2>1. evq' = evq \o StatusPosts(state, "DISCONN") /\ state' \in {"ADV", "DISCONN"}
    BY <1>2 DEF Disconnected, Post
  <2>2. CASE state # "DISCONN"
    BY <1>2, <2>1, <2>2 DEF StatusPosts, EndEvs
  <2>3. CASE state = "DISCONN"
    <3>1. StatusPosts(state, "DISCONN") = <<>>
      BY <2>3 DEF StatusPosts
    <3>2. QED
      BY <1>0, <1>2, <2>1, <2>3, <3>1
  <2>4. QED
    BY <2>2, <2>3
<1>3. CASE Head(hci) \notin {"UPDATE", "DISCONNECTED"}
  <2>1. CASE Connected
    BY <1>3, <2>1 DEF Connected
  <2>2. CASE CccWritten
    BY <1>3, <2>2 DEF CccWritten
  <2>3. CASE Encrypted
    BY <1>3, <2>3 DEF Encrypted
  <2>4. QED
    BY <1>3, <2>1, <2>2, <2>3 DEF PacketHandler
<1>4. QED
  BY <1>1, <1>2, <1>3, PacketCases

\* The server's calls post nothing.
LEMMA CallsPostNothing ==
    ASSUME CallStep
    PROVE  evq' = evq
BY DEF CallStep, SetCtrl, AdvTest, AdvSet, OffTest, DiscTest, DiscSet, Forget, Store,
       PairAct, SwTest, Reset

\* A step that takes no event: what it posts, and that it leaves the process alone.
Poster == \/ StopDevices \/ ToneEnd \/ CommandParse \/ StackStep \/ CallerStep
          \/ SelectStep \/ RadioStep \/ Environment

\* Who takes no event posts one of the few sequences of Posted.
LEMMA PosterPosts ==
    ASSUME SrvVarsTyped, evq \in Seq(Event), hostVol \in Vols, Poster
    PROVE  /\ \E es \in Posted : evq' = evq \o es
           /\ UNCHANGED <<proVars, running>>
           /\ mediaSel' = mediaSel \/ \E s \in Sels : SelectMedia(s)
<1>0. evq \o <<>> = evq
  BY ConcatEmptySeq
<1>1. ASSUME evq' = evq PROVE \E es \in Posted : evq' = evq \o es
  BY <1>0, <1>1 DEF Posted
<1>2. CASE StopDevices
  BY <1>2 DEF StopDevices, Posted, Post
<1>3. CASE ToneEnd
  BY <1>1, <1>3 DEF ToneEnd, vars, proVars
<1>4. CASE CommandParse
  BY <1>4 DEF CommandParse, Posted, Post
<1>5. CASE StackStep
  <2>1. PacketHandler /\ UNCHANGED <<proVars, mediaSel, running>>
    BY <1>5 DEF StackStep
  <2>2. evq' = evq \o ReadyEvs \/ evq' = evq \o EndEvs \/ evq' = evq
    BY <2>1, StackPosts
  <2>3. QED
    BY <1>1, <2>1, <2>2 DEF Posted
<1>6. CASE CallerStep
  BY <1>1, <1>6, CallsPostNothing DEF CallerStep
<1>7. CASE SelectStep
  <2>1. CASE UNCHANGED vars
    BY <1>1, <2>1 DEF vars, proVars
  <2>2. CASE \E s \in Sels : SelectMedia(s)
    BY <2>2 DEF SelectMedia, Post, Posted, SelectEvs
  <2>3. QED
    BY <1>7, <2>1, <2>2 DEF SelectStep
<1>8. CASE RadioStep \/ LinkLossMove
  BY <1>1, <1>8 DEF RadioStep, LinkLossMove, CtrlConnect, PeerSettles, CtrlLinkLoss
<1>9. CASE UserMove \/ VolumeMove
  BY <1>1, <1>9 DEF UserMove, VolumeMove, vars, proVars
<1>10. CASE DecoderMove
  BY <1>10 DEF DecoderMove, DecodeError, Post, Posted
<1>11. CASE PowerOffMove
  BY <1>11 DEF PowerOffMove, Notify, Post, Posted
<1>12. QED
  BY <1>2, <1>3, <1>4, <1>5, <1>6, <1>7, <1>8, <1>9, <1>10, <1>11 DEF Poster, Environment

\* The names of what is posted.
LEMMA PostedNames ==
    ASSUME NEW es \in Posted
    PROVE  /\ es \in Seq(Event)
           /\ \A i \in DOMAIN es :
                 /\ es[i].ev \notin {"IDEV_INIT_OK", "ODEV_INIT_OK"}
                 /\ es[i].ev = "SET_MUSIC_VOL" => es[i].val \in Vols
<1> USE DEF Ev, OpenIdevEv, SetVolEv
<1>1. CASE es = <<>>
  BY <1>1
<1>2. CASE es = ReadyEvs
  BY <1>2, EvsTyped DEF ReadyEvs
<1>3. CASE es = EndEvs
  BY <1>3, EvsTyped DEF EndEvs
<1>4. CASE es = SelectEvs
  BY <1>4, EvsTyped DEF SelectEvs
<1>5. CASE es = <<Ev("ODEV_MEDIA_CLOSE")>>
  BY <1>5, EvsTyped
<1>6. CASE es = <<Ev("MEDIA_DECODE_ERR")>>
  BY <1>6, EvsTyped
<1>7. CASE es = <<Ev("POWEROFF")>>
  BY <1>7, EvsTyped
<1>8. CASE \E v \in Vols : es = <<SetVolEv(v)>>
  BY <1>8, EvsTyped
<1>9. QED
  BY <1>1, <1>2, <1>3, <1>4, <1>5, <1>6, <1>7, <1>8 DEF Posted

\* An event posted is behind those that wait.
LEMMA PostElements ==
    ASSUME evq \in Seq(Event), NEW es \in Posted, evq' = evq \o es
    PROVE  /\ evq' \in Seq(Event)
           /\ \A i \in DOMAIN evq : i \in DOMAIN evq' /\ evq'[i] = evq[i]
           /\ \A i \in DOMAIN evq' :
                 \/ i \in DOMAIN evq /\ evq'[i] = evq[i]
                 \/ \E k \in DOMAIN es : evq'[i] = es[k]
<1>1. es \in Seq(Event)
  BY PostedNames
<1>2. QED
  BY <1>1, ConcatElements, PostTyped

\* The rest of the queue, and what app_core posts to itself.
LEMMA TakeElements ==
    ASSUME evq \in Seq(Event), evq # <<>>, NEW es \in Seq(Event), TakeAndPost(es)
    PROVE  /\ evq' \in Seq(Event)
           /\ 1 \in DOMAIN evq /\ Head(evq) = evq[1] /\ evq[1] \in Event
           /\ \A i \in DOMAIN evq :
                 /\ i \in Nat /\ i >= 1
                 /\ i # 1 => i - 1 \in DOMAIN evq' /\ evq'[i - 1] = evq[i]
           /\ \A i \in DOMAIN evq' :
                 \/ i \in Nat /\ i >= 1 /\ i + 1 \in DOMAIN evq /\ evq'[i] = evq[i + 1]
                 \/ \E k \in DOMAIN es : evq'[i] = es[k]
<1>1. evq' = Tail(evq) \o es /\ Tail(evq) \in Seq(Event)
  BY HeadTailProperties DEF TakeAndPost
<1>2. /\ 1 \in DOMAIN evq /\ Head(evq) = evq[1] /\ evq[1] \in Event
      /\ \A i \in DOMAIN evq :
            /\ i \in Nat /\ i >= 1
            /\ i # 1 => i - 1 \in DOMAIN Tail(evq) /\ Tail(evq)[i - 1] = evq[i]
      /\ \A i \in DOMAIN Tail(evq) : i \in Nat /\ i + 1 \in DOMAIN evq /\ Tail(evq)[i] = evq[i + 1]
  BY TailElements
<1>3. /\ evq' \in Seq(Event)
      /\ \A i \in DOMAIN Tail(evq) : i \in DOMAIN evq' /\ evq'[i] = Tail(evq)[i]
      /\ \A i \in DOMAIN evq' :
            \/ i \in DOMAIN Tail(evq) /\ evq'[i] = Tail(evq)[i]
            \/ \E k \in DOMAIN es : evq'[i] = es[k]
  BY <1>1, ConcatElements, ConcatProperties
<1>4. \A i \in DOMAIN Tail(evq) : i >= 1
  BY <1>1, LenProperties
<1>5. QED
  BY <1>2, <1>3, <1>4

\* The events app_core takes: those of the two devices, once, and all others.
LEMMA StartsPost ==
    ASSUME DeviceStarts
    PROVE  /\ evq # <<>> /\ UNCHANGED <<proVars, mediaSel, running, earVars, inputs>>
           /\ \/ /\ Head(evq).ev = "IDEV_INIT_OK" /\ InitServer
                 /\ TakeAndPost(<<OpenIdevEv(0)>>)
              \/ /\ Head(evq).ev = "ODEV_INIT_OK" /\ UNCHANGED srvVars
                 /\ TakeAndPost(<<Ev("ODEV_MEDIA_OPEN")>>)
BY DEF DeviceStarts, Taking

\* Every other event is taken by the process and the application alone.
LEMMA EventTakes ==
    ASSUME EventStep
    PROVE  /\ evq # <<>> /\ TakeAndPost(<<>>) /\ Dispatch /\ running
           /\ Head(evq).ev \notin {"IDEV_INIT_OK", "ODEV_INIT_OK"}
           /\ UNCHANGED <<srvVars, mediaSel>>
BY DEF EventStep, Dispatch, Taking

\* Every step is of one of these kinds.
LEMMA EarKinds ==
    ASSUME [EarNext]_earphoneVars
    PROVE  DeviceStarts \/ EventStep \/ Poster \/ UNCHANGED earphoneVars
BY DEF EarNext, Firmware, Poster

\* The devices start once.
LEMMA StartsKept ==
    ASSUME evq \in Seq(Event), SrvVarsTyped, hostVol \in Vols, NothingBegun, StartsOnce,
           [EarNext]_earphoneVars
    PROVE  StartsOnce'
<1>1. CASE DeviceStarts
  <2>1. PICK es : /\ TakeAndPost(es)
                  /\ es \in Seq(Event)
                  /\ \A k \in DOMAIN es : es[k].ev # "IDEV_INIT_OK"
    <3>1. \A k \in DOMAIN <<OpenIdevEv(0)>> : <<OpenIdevEv(0)>>[k].ev # "IDEV_INIT_OK"
      BY DEF OpenIdevEv
    <3>2. \A k \in DOMAIN <<Ev("ODEV_MEDIA_OPEN")>> :
             <<Ev("ODEV_MEDIA_OPEN")>>[k].ev # "IDEV_INIT_OK"
      BY DEF Ev
    <3>3. QED
      BY <1>1, <3>1, <3>2, StartsPost, EvsTyped
  <2>2. evq # <<>>
    BY <1>1, StartsPost
  <2>3. \A i \in DOMAIN evq' : evq'[i].ev # "IDEV_INIT_OK"
    <3>1. \A i \in DOMAIN evq' :
                 \/ i \in Nat /\ i >= 1 /\ i + 1 \in DOMAIN evq /\ evq'[i] = evq[i + 1]
                 \/ \E k \in DOMAIN es : evq'[i] = es[k]
      BY <2>1, <2>2, TakeElements
    <3>2. \A i \in Nat : i >= 1 /\ i + 1 \in DOMAIN evq => evq[i + 1].ev # "IDEV_INIT_OK"
      BY DEF StartsOnce
    <3>3. QED
      BY <2>1, <3>1, <3>2
  <2>4. QED
    BY <2>3 DEF StartsOnce
<1>2. CASE EventStep
  <2>1. evq # <<>> /\ TakeAndPost(<<>>) /\ <<>> \in Seq(Event)
    BY <1>2, EventTakes
  <2>2. \A i \in DOMAIN evq' :
            \/ i \in Nat /\ i >= 1 /\ i + 1 \in DOMAIN evq /\ evq'[i] = evq[i + 1]
            \/ \E k \in DOMAIN <<>> : evq'[i] = <<>>[k]
    BY <2>1, TakeElements
  <2>3. \A i \in Nat : i >= 1 /\ i + 1 \in DOMAIN evq => evq[i + 1].ev # "IDEV_INIT_OK"
    BY DEF StartsOnce
  <2>4. \A i \in DOMAIN evq' : evq'[i].ev # "IDEV_INIT_OK"
    BY <2>2, <2>3
  <2>5. QED
    BY <2>4 DEF StartsOnce
<1>3. CASE Poster
  <2>1. PICK es \in Posted : evq' = evq \o es
    BY <1>3, PosterPosts
  <2>2. /\ \A i \in DOMAIN evq : i \in DOMAIN evq' /\ evq'[i] = evq[i]
        /\ evq' \in Seq(Event)
        /\ \A i \in DOMAIN evq' :
              \/ i \in DOMAIN evq /\ evq'[i] = evq[i]
              \/ \E k \in DOMAIN es : evq'[i] = es[k]
    BY <2>1, PostElements
  <2>3. \A k \in DOMAIN es : es[k].ev # "IDEV_INIT_OK"
    BY PostedNames
  <2>4. Pending(evq, Named("ODEV_INIT_OK")) => Pending(evq', Named("ODEV_INIT_OK"))
    BY <2>2 DEF Pending
  <2>5. state = "NULL" => state' = "NULL"
    <3>1. SUFFICES ASSUME state = "NULL" PROVE state' = "NULL"
      OBVIOUS
    <3>2. todo = <<>> /\ hci = <<>> /\ ~link /\ ~adv
      BY <3>1 DEF NothingBegun
    <3>3. CASE StopDevices
      BY <3>1, <3>3 DEF StopDevices, CallStop, Call
    <3>4. CASE ToneEnd \/ CommandParse \/ DecoderMove \/ PowerOffMove \/ VolumeMove
      <4>1. UNCHANGED srvVars
        BY <3>4 DEF ToneEnd, CommandParse, DecoderMove, PowerOffMove, VolumeMove
      <4>2. QED
        BY <3>1, <4>1 DEF srvVars, hostVars
    <3>5. CASE StackStep
      BY <3>2, <3>5 DEF StackStep, PacketHandler
    <3>6. CASE CallerStep
      <4>1. CallDid
        BY <3>6, CallStepDoes DEF CallerStep
      <4>2. QED
        BY <3>2, <4>1, DidKinds DEF Did
    <3>7. CASE SelectStep
      BY <3>2, <3>7 DEF SelectStep, Step
    <3>8. CASE RadioStep \/ LinkLossMove
      BY <3>1, <3>8 DEF RadioStep, LinkLossMove, CtrlConnect, PeerSettles, CtrlLinkLoss, hostVars
    <3>9. CASE UserMove
      <4>1. CallBegins
        BY <3>9 DEF UserMove, CallBegins
      <4>2. PICK c \in Calls : Begun(c)
        BY <4>1, CallBeginsSteps
      <4>3. QED
        BY <3>1, <4>2 DEF Begun
    <3>10. QED
      BY <1>3, <3>3, <3>4, <3>5, <3>6, <3>7, <3>8, <3>9 DEF Poster, Environment
  <2>6. QED
    BY <2>2, <2>3, <2>4, <2>5 DEF StartsOnce
<1>4. CASE UNCHANGED earphoneVars
  BY <1>4 DEF earphoneVars, vars, srvVars, hostVars, StartsOnce, Pending
<1>5. QED
  BY <1>1, <1>2, <1>3, <1>4, EarKinds

\* The volumes that wait are the dongle's.
LEMMA VolsKept ==
    ASSUME evq \in Seq(Event), SrvVarsTyped, hostVol \in Vols, VolsWaiting,
           [EarNext]_earphoneVars
    PROVE  VolsWaiting'
<1>1. ASSUME NEW es \in Seq(Event), evq # <<>>, TakeAndPost(es),
             \A k \in DOMAIN es : es[k].ev # "SET_MUSIC_VOL"
      PROVE  VolsWaiting'
  <2>1. \A i \in DOMAIN evq' :
            \/ i \in Nat /\ i >= 1 /\ i + 1 \in DOMAIN evq /\ evq'[i] = evq[i + 1]
            \/ \E k \in DOMAIN es : evq'[i] = es[k]
    BY <1>1, TakeElements
  <2>2. QED
    BY <1>1, <2>1 DEF VolsWaiting
<1>2. CASE DeviceStarts
  <2>1. \A k \in DOMAIN <<OpenIdevEv(0)>> : <<OpenIdevEv(0)>>[k].ev # "SET_MUSIC_VOL"
    BY DEF OpenIdevEv
  <2>2. \A k \in DOMAIN <<Ev("ODEV_MEDIA_OPEN")>> :
             <<Ev("ODEV_MEDIA_OPEN")>>[k].ev # "SET_MUSIC_VOL"
    BY DEF Ev
  <2>3. QED
    BY <1>1, <1>2, <2>1, <2>2, StartsPost, EvsTyped
<1>3. CASE EventStep
  <2>1. evq # <<>> /\ TakeAndPost(<<>>)
    BY <1>3, EventTakes
  <2>2. <<>> \in Seq(Event) /\ \A k \in DOMAIN <<>> : <<>>[k].ev # "SET_MUSIC_VOL"
    OBVIOUS
  <2>3. QED
    BY <1>1, <2>1, <2>2
<1>4. CASE Poster
  <2>1. PICK es \in Posted : evq' = evq \o es
    BY <1>4, PosterPosts
  <2>2. \A i \in DOMAIN evq' :
              \/ i \in DOMAIN evq /\ evq'[i] = evq[i]
              \/ \E k \in DOMAIN es : evq'[i] = es[k]
    BY <2>1, PostElements
  <2>3. \A k \in DOMAIN es : es[k].ev = "SET_MUSIC_VOL" => es[k].val \in Vols
    BY PostedNames
  <2>4. QED
    BY <2>2, <2>3 DEF VolsWaiting
<1>5. CASE UNCHANGED earphoneVars
  BY <1>5 DEF earphoneVars, vars, VolsWaiting
<1>6. QED
  BY <1>2, <1>3, <1>4, <1>5, EarKinds

\* The process keeps its guarantees.
LEMMA ProcessKept ==
    ASSUME IInv, SrvVarsTyped, hostVol \in Vols, [EarNext]_earphoneVars
    PROVE  IInv'
<1>0. evq \in Seq(Event)
  BY IInvParts
<1>1. CASE DeviceStarts
  <2>1. Head(evq).ev \notin CloseEvents /\ UNCHANGED <<proVars, mediaSel, running>>
        /\ evq # <<>> /\ \E es \in Seq(Event) : TakeAndPost(es)
    BY <1>1, StartsPost, EvsTyped DEF CloseEvents
  <2>2. QED
    BY <1>0, <2>1, TakeKeepsClose, AsideKeeps
<1>2. CASE EventStep
  BY <1>2, EventTakes, DispatchKeeps
<1>3. CASE Poster
  <2>1. CASE \E s \in Sels : SelectMedia(s)
    BY <2>1, SelectKeeps
  <2>2. CASE mediaSel' = mediaSel
    <3>1. PICK es \in Posted : evq' = evq \o es
      BY <1>0, <1>3, PosterPosts
    <3>2. UNCHANGED <<proVars, running>> /\ es \in Seq(Event)
      BY <1>0, <1>3, PosterPosts, PostedNames
    <3>3. QED
      BY <1>0, <2>2, <3>1, <3>2, ConcatKeepsClose, AsideKeeps
  <2>3. QED
    BY <1>0, <1>3, <2>1, <2>2, PosterPosts
<1>4. CASE UNCHANGED earphoneVars
  <2>1. UNCHANGED <<proVars, mediaSel, running, evq>>
    BY <1>4 DEF earphoneVars, vars, proVars
  <2>2. QED
    BY <1>0, <2>1, AsideKeeps DEF CloseWaiting
<1>5. QED
  BY <1>1, <1>2, <1>3, <1>4, EarKinds

\* The application's own variables.
LEMMA EarTyped ==
    ASSUME IInv, SrvVarsTyped, EarVarsTyped, VolsWaiting, [EarNext]_earphoneVars
    PROVE  EarVarsTyped'
<1> USE DEF EarVarsTyped
<1>0. evq \in Seq(Event)
  BY IInvParts
<1>1. inputs' \in 0..InputMax
  BY EarInputMaxAssumption DEF EarNext, Firmware, Environment, RadioStep, DeviceStarts,
     EventStep, StopDevices, ToneEnd, CommandParse, StackStep, CallerStep, SelectStep,
     LinkLossMove, UserMove, DecoderMove, PowerOffMove, VolumeMove, Move, earphoneVars
<1>2. CASE UNCHANGED earVars
  BY <1>1, <1>2 DEF earVars, volVars
<1>3. CASE EventStep
  <2>1. evq # <<>> /\ Head(evq).ev = "SET_MUSIC_VOL" => Head(evq).val \in Vols
    BY <1>0, <1>3, TailElements DEF VolsWaiting
  <2>2. evq # <<>>
    BY <1>3, EventTakes
  <2>3. curVol' \in Vols \cup {NoVol} /\ decVol' \in Vols \cup {NoVol, DefaultVol}
    BY <1>3, <2>1, <2>2 DEF EventStep, CurVolAfter, DecVolAfter, NewVolume
  <2>4. QED
    BY <1>1, <1>3, <2>3 DEF EventStep
<1>4. CASE StopDevices
  BY <1>1, <1>4 DEF StopDevices, volVars
<1>5. CASE ToneEnd
  BY <1>1, <1>5 DEF ToneEnd
<1>6. CASE StackStep
  BY <1>1, <1>6 DEF StackStep, volVars
<1>7. CASE VolumeMove
  BY <1>1, <1>7 DEF VolumeMove
<1>8. QED
  BY <1>2, <1>3, <1>4, <1>5, <1>6, <1>7 DEF EarNext, Firmware, Environment, RadioStep,
     DeviceStarts, CommandParse, CallerStep, SelectStep, LinkLossMove, UserMove, DecoderMove,
     PowerOffMove, earphoneVars

\* What holds of the earphone, whatever its build, its server's calls and its
\* queue do, goes on holding.
LEMMA EarKept ==
    ASSUME EarInv, [EarNext]_earphoneVars
    PROVE  EarInv'
<1> USE DEF EarInv
<1>1. evq \in Seq(Event) /\ SrvVarsTyped /\ hostVol \in Vols /\ NothingBegun
  BY IInvParts, SrvTyped DEF ServerInv, EarVarsTyped
<1>2. SrvStep
  BY <1>1, EarStepSrv
<1>3. ServerInv'
  BY <1>2, ServerKept
<1>4. IInv'
  BY <1>1, ProcessKept
<1>5. EarVarsTyped'
  BY <1>1, EarTyped
<1>6. StartsOnce' /\ VolsWaiting'
  BY <1>1, StartsKept, VolsKept
<1>7. QED
  BY <1>3, <1>4, <1>5, <1>6

\* The earphone begins so.
LEMMA EarBegins ==
    ASSUME EarInit
    PROVE  EarInv
<1>1. Ev("IDEV_INIT_OK") \in Event /\ Ev("ODEV_INIT_OK") \in Event
  BY EvTyped DEF AdapterEvents
<1>2. evq \in Seq(Event) /\ evq = <<Ev("IDEV_INIT_OK"), Ev("ODEV_INIT_OK")>>
  BY <1>1 DEF EarInit
<1>3. IInv
  BY <1>2, ModesAssumption, SelsAssumption
     DEF EarInit, ProInit, IInv, TypeOK, LockFree, MediaNeedsBoth, OpenHasMode,
         SilenceExplained, SelectionHonoured, Both
<1>4. EarVarsTyped
  <2>1. hostVol \in Vols
    BY VolsAssumption DEF EarInit
  <2>2. inputs \in 0..InputMax
    BY EarInputMaxAssumption DEF EarInit
  <2>3. /\ conn = FALSE /\ tone = FALSE /\ stopped = FALSE /\ ended = FALSE
        /\ curVol = NoVol /\ decVol = NoVol
    BY DEF EarInit
  <2>4. QED
    BY <2>1, <2>2, <2>3 DEF EarVarsTyped
<1>5. StartsOnce
  <2>1. /\ DOMAIN evq = {1, 2}
        /\ evq[1].ev = "IDEV_INIT_OK" /\ evq[2].ev = "ODEV_INIT_OK"
    BY <1>2 DEF Ev
  <2>2. evq[2] \in Named("ODEV_INIT_OK")
    BY <1>1, <1>2 DEF Named, Ev
  <2>3. Pending(evq, Named("ODEV_INIT_OK")) /\ state = "NULL"
    BY <2>1, <2>2 DEF Pending, EarInit, SrvInit
  <2>4. QED
    BY <2>1, <2>3 DEF StartsOnce
<1>6. VolsWaiting
  <2>1. \A i \in DOMAIN evq : evq[i].ev # "SET_MUSIC_VOL"
    BY <1>2 DEF Ev
  <2>2. QED
    BY <2>1 DEF VolsWaiting
<1>7. QED
  BY <1>3, <1>4, <1>5, <1>6, ServerBegins DEF EarInv

-------------------------------------------------------------------------------
(* The theorems about every build.                                           *)

\* The earphone's inductive invariant: what the controller's reports, the rest of a
\* call and the adapter events still tell corrects what their readers believe.
THEOREM EarphoneInvariant == EarSpec => []EarInv
<1>1. EarInit => EarInv
  BY EarBegins
<1>2. EarInv /\ [EarNext]_earphoneVars => EarInv'
  BY EarKept
<1>3. QED
  BY <1>1, <1>2, PTL DEF EarSpec

\* Every variable of the earphone stays in its type.
THEOREM EarphoneTyped == EarSpec => []EarTypeOK
<1>1. EarInv => EarTypeOK
  BY DEF EarInv, IInv, ServerInv, EarVarsTyped, EarTypeOK
<1>2. QED
  BY <1>1, EarphoneInvariant, PTL

\* Whatever the radio, LiteEMF's calls, tones and volume commands do, the earphone
\* implements the abstract media session: its sound begins only with the opening of
\* the second device and ends with a close, an error or the power.
THEOREM EarphoneIsSession == EarSpec => SessionSpec
<1>1. EarInit => Session!Init
  BY InitIsSession DEF EarInit
<1>2. EarInv /\ [EarNext]_earphoneVars => [Session!Next]_(Session!sessionVars)
  <2>1. ASSUME [EarNext]_earphoneVars
        PROVE  Dispatch \/ UNCHANGED <<devStatus, media>>
    <3>1. CASE UNCHANGED earphoneVars
      BY <3>1 DEF earphoneVars, vars, proVars
    <3>2. CASE EventStep
      BY <3>2 DEF EventStep
    <3>3. CASE EarNext /\ ~EventStep
      <4>1. CASE DeviceStarts \/ StopDevices \/ CommandParse \/ StackStep \/ CallerStep
        BY <4>1 DEF DeviceStarts, StopDevices, CommandParse, StackStep, CallerStep, proVars
      <4>2. CASE ToneEnd \/ UserMove \/ VolumeMove
        BY <4>2 DEF ToneEnd, UserMove, VolumeMove, vars, proVars
      <4>3. CASE SelectStep
        BY <4>3 DEF SelectStep, SelectMedia, vars, proVars
      <4>4. CASE RadioStep \/ LinkLossMove
        BY <4>4 DEF RadioStep, LinkLossMove, proVars
      <4>5. CASE DecoderMove \/ PowerOffMove
        BY <4>5 DEF DecoderMove, PowerOffMove, DecodeError, Notify, proVars
      <4>6. QED
        BY <3>3, <4>1, <4>2, <4>3, <4>4, <4>5 DEF EarNext, Firmware, Environment
    <3>4. QED
      BY <2>1, <3>1, <3>2, <3>3
  <2>2. EarInv => IInv
    BY DEF EarInv
  <2>3. QED
    BY <2>1, <2>2, StepIsSession
<1>3. QED
  BY <1>1, <1>2, EarphoneInvariant, PTL DEF EarSpec, SessionSpec, Session!Spec

\* con_handle agrees with the controller once its reports are handled.
THEOREM HandleAlwaysTold == EarSpec => []HandleAgrees
<1>1. EarInv => HandleAgrees
  BY ServerAgrees DEF EarInv
<1>2. QED
  BY <1>1, EarphoneInvariant, PTL

\* Without a link the packet handlers are those of the profile asked for last,
\* whatever interrupted the calls that asked.
THEOREM ProfileAlwaysSwitched == EarSpec => []ProfileAgrees
<1>1. EarInv => ProfileAgrees
  BY ServerAgrees DEF EarInv
<1>2. QED
  BY <1>1, EarphoneInvariant, PTL

\* Without a link the earphone advertises exactly if its last caller wants it to,
\* unless a report interrupted a call.
THEOREM AlwaysAdvertisesAsAsked == EarSpec => []AdvertisesAsAsked
<1>1. EarInv => AdvertisesAsAsked
  BY ServerAgrees DEF EarInv
<1>2. QED
  BY <1>1, EarphoneInvariant, PTL

\* A link of the private profile never outlives its bond, unless a report
\* interrupted a call.
THEOREM ForgottenLinkAlwaysEnds == EarSpec => []ForgottenLinkEnds
<1>1. EarInv => ForgottenLinkEnds
  BY ServerAgrees DEF EarInv
<1>2. QED
  BY <1>1, EarphoneInvariant, PTL

-------------------------------------------------------------------------------
(* The link, and what the stack says of it.                                  *)

\* A link that ends is answered for: its readiness will be taken back.
LEMMA EndAnswers ==
    ASSUME hci \in Seq(Reports), hci' = Append(hci, "DISCONNECTED")
    PROVE  /\ \A b : /\ Tells(hci', {"UPDATE"}, {"DISCONNECTED"}, b, FALSE)
                     /\ Answered(hci', {"UPDATE"}, {"DISCONNECTED"})
           /\ Pending(hci', {"DISCONNECTED"})
<1>1. "DISCONNECTED" \in Reports
  BY DEF Reports
<1>2. Answered(hci', {"UPDATE"}, {"DISCONNECTED"}) /\ Pending(hci', {"DISCONNECTED"})
  BY <1>1, AppendAnswered
<1>3. QED
  BY <1>2 DEF Tells

\* The steps of a call.
LEMMA CallSaid ==
    ASSUME SrvVarsTyped, NEW said, StackSaid(said), CallDid, NothingBegun, ended' = ended
    PROVE  StackSaid(said)'
<1> USE DEF StackSaid
<1>1. settled' = settled /\ state # "NULL" /\ hci \in Seq(Reports)
  BY DidKinds DEF Did, NothingBegun, SrvVarsTyped
<1>2. state' \in {state, "ADV", "IDLE", "SEND_DISCONN"}
  BY DidKinds DEF DidAdvSet, DidDiscSet
<1>3. Pending(hci, {"DISCONNECTED"}) => Pending(hci', {"DISCONNECTED"})
  BY DidReports
<1>4. CASE LinkSame /\ private' = private
  BY <1>1, <1>2, <1>4 DEF LinkSame
<1>5. CASE LinkEnds
  BY <1>1, <1>2, <1>5, EndAnswers DEF LinkEnds
<1>6. CASE LinkSame /\ ~link
  <2>1. /\ Answered(hci, {"UPDATE"}, {"DISCONNECTED"})
        /\ ~said \/ Pending(hci, {"DISCONNECTED"})
    BY <1>6 DEF Tells, SrvVarsTyped
  <2>2. QED
    BY <1>1, <1>2, <1>6, <2>1 DEF LinkSame, Tells
<1>7. QED
  BY <1>4, <1>5, <1>6, DidKinds DEF DidReset

\* What the controller and the peer do.
LEMMA RadioSaid ==
    ASSUME SrvVarsTyped, NEW said, StackSaid(said), Radio, AdvertisesAlone, ended' = ended
    PROVE  StackSaid(said)'
<1> USE DEF StackSaid
<1>1. hci \in Seq(Reports) /\ {"CONN", "UPDATE", "CCC", "ENCRYPTED"} \subseteq Reports
  BY DEF SrvVarsTyped, Reports
<1>2. CASE CtrlConnect
  <2>1. /\ ~link /\ link' = TRUE /\ settled' = FALSE /\ hci' = Append(hci, "CONN")
        /\ UNCHANGED <<state, private>>
    BY <1>2 DEF CtrlConnect, AdvertisesAlone, hostVars
  <2>2. private => Tells(hci', {"UPDATE"}, {"DISCONNECTED"}, said, link /\ settled)
    BY <1>1, <2>1, AppendTells
  <2>3. private => Tells(hci', {"UPDATE"}, {"DISCONNECTED"}, said, link' /\ settled')
    BY <2>1, <2>2 DEF Tells
  <2>4. Pending(hci, {"DISCONNECTED"}) => Pending(hci', {"DISCONNECTED"})
    BY <1>1, <2>1, AppendAnswered
  <2>5. QED
    BY <2>1, <2>3, <2>4
<1>3. CASE PeerSettles
  <2>1. PICK r \in {"UPDATE", "CCC", "ENCRYPTED"} :
            hci' = Append(hci, r) /\ (private => r = "UPDATE")
    BY <1>3 DEF PeerSettles
  <2>2. link /\ link' = link /\ settled' = TRUE /\ UNCHANGED <<state, private>>
    BY <1>3 DEF PeerSettles, hostVars
  <2>3. ASSUME private
        PROVE  Tells(hci', {"UPDATE"}, {"DISCONNECTED"}, said, TRUE)
    BY <1>1, <2>1, <2>3, AppendTells
  <2>4. Pending(hci, {"DISCONNECTED"}) => Pending(hci', {"DISCONNECTED"})
    BY <1>1, <2>1, AppendAnswered
  <2>5. private => Tells(hci', {"UPDATE"}, {"DISCONNECTED"}, said, link' /\ settled')
    BY <2>2, <2>3 DEF Tells
  <2>6. QED
    BY <2>2, <2>4, <2>5
<1>4. CASE CtrlLinkLoss
  <2>1. link' = FALSE /\ hci' = Append(hci, "DISCONNECTED") /\ UNCHANGED <<state, private>>
    BY <1>4 DEF CtrlLinkLoss, hostVars
  <2>2. QED
    BY <1>1, <2>1, EndAnswers DEF Tells
<1>5. QED
  BY <1>2, <1>3, <1>4 DEF Radio

\* The start of the server, and the beginning of a call.
LEMMA StartSaid ==
    ASSUME SrvVarsTyped, NEW said, StackSaid(said), NothingBegun, ended' = ended,
           \/ state = "NULL" /\ InitServer
           \/ CallBegins
           \/ UNCHANGED srvVars
    PROVE  StackSaid(said)'
<1> USE DEF StackSaid
<1>1. CASE InitServer
  BY <1>1 DEF InitServer
<1>2. CASE CallBegins
  <2>1. PICK c \in Calls : Begun(c)
    BY <1>2, CallBeginsSteps
  <2>2. QED
    BY <2>1 DEF Begun
<1>3. CASE UNCHANGED srvVars
  BY <1>3 DEF srvVars, hostVars, ctrlVars
<1>4. QED
  BY <1>1, <1>2, <1>3

\* A report taken: its rest tells the link still.
LEMMA ReportSaid ==
    ASSUME SrvVarsTyped, hci # <<>>, hci' = Tail(hci), NEW said, NEW now, StackSaid(said),
           UNCHANGED <<link, settled, private>>,
           private /\ Head(hci) = "UPDATE" => now,
           Head(hci) = "DISCONNECTED" => ~now,
           ~(private /\ Head(hci) = "UPDATE") /\ Head(hci) # "DISCONNECTED" => (now <=> said),
           state' # "NULL",
           state' = "UPDATE_OK" => now,
           state' = "DISCONN" => ~now /\ ended'
    PROVE  StackSaid(now)'
<1>1. hci \in Seq(Reports)
  BY DEF SrvVarsTyped
<1>2. ~link => Answered(hci', {"UPDATE"}, {"DISCONNECTED"})
  BY <1>1, TailAnswered DEF StackSaid
<1>3. Pending(hci, {"DISCONNECTED"}) => Head(hci) = "DISCONNECTED" \/ Pending(hci', {"DISCONNECTED"})
  BY <1>1, TailAnswered
<1>4. ASSUME private
      PROVE  Tells(hci', {"UPDATE"}, {"DISCONNECTED"}, now, link' /\ settled')
  <2> DEFINE is == link /\ settled
  <2>1. Tells(hci, {"UPDATE"}, {"DISCONNECTED"}, said, is)
    BY <1>4 DEF StackSaid
  <2>2. /\ Head(hci) \in {"UPDATE"} => now
        /\ Head(hci) \in {"DISCONNECTED"} => ~now
        /\ Head(hci) \notin {"UPDATE"} \cup {"DISCONNECTED"} => (said <=> now)
    BY <1>4
  <2>3. Tells(Tail(hci), {"UPDATE"}, {"DISCONNECTED"}, now, is)
    <3> HIDE DEF is
    <3>1. QED
      BY <1>1, <2>1, <2>2, TailTells
  <2>4. QED
    BY <2>3
<1>5. ~private => ~now \/ Pending(hci', {"DISCONNECTED"})
  BY <1>3 DEF StackSaid
<1>6. QED
  BY <1>2, <1>4, <1>5 DEF StackSaid

\* A report handled: what the stack says then, if anything, tells of it.
LEMMA PacketSaid ==
    ASSUME SrvVarsTyped, evq \in Seq(Event), NothingBegun, NEW said \in BOOLEAN, StackSaid(said),
           ended \in BOOLEAN, PacketHandler,
           ended' = (ended \/ Head(hci) = "DISCONNECTED")
    PROVE  \E now \in BOOLEAN :
              /\ StackSaid(now)'
              /\ \/ evq' = evq \o ReadyEvs /\ now = TRUE
                 \/ evq' = evq \o EndEvs /\ now = FALSE
                 \/ evq' = evq /\ now = said /\ (~now => (ended' => ended))
<1>0. /\ hci # <<>> /\ settled' = settled /\ state # "NULL" /\ hci \in Seq(Reports)
      /\ state' # "NULL"
  <2>1. hci # <<>> /\ settled' = settled /\ state # "NULL" /\ hci \in Seq(Reports)
    BY PacketCases DEF NothingBegun, SrvVarsTyped
  <2>2. state' # "NULL"
    BY <2>1, PacketCases DEF Connected, Updated, CccWritten, Encrypted, Disconnected
  <2>3. QED
    BY <2>1, <2>2
<1>1. CASE Head(hci) = "DISCONNECTED" /\ Disconnected
  <2>1. /\ ended' = TRUE /\ state' \in {"ADV", "DISCONN"}
        /\ evq' = evq \o EndEvs \/ (evq' = evq /\ ~said /\ ended)
    <3>1. ended' = TRUE /\ state' \in {"ADV", "DISCONN"}
      BY <1>1 DEF Disconnected
    <3>2. evq' = evq \o EndEvs \/ (evq' = evq /\ state = "DISCONN")
      BY <1>1, StackPosts
    <3>3. QED
      BY <3>1, <3>2 DEF StackSaid
  <2>2. StackSaid(FALSE)'
    <3>1. CASE private = userPrivate
      <4>1. private' = private /\ hci' = Tail(hci) /\ UNCHANGED link
        BY <1>1, <3>1 DEF Disconnected
      <4>2. QED
        BY <1>0, <1>1, <2>1, <4>1, ReportSaid
    <3>2. CASE private # userPrivate
      <4>1. LlReset(Tail(hci)) /\ Tail(hci) \in Seq(Reports)
        BY <1>0, <1>1, <3>2, HeadTailProperties DEF Disconnected
      <4>2. link' = FALSE /\ Answered(hci', {"UPDATE"}, {"DISCONNECTED"})
        <5>1. CASE link
          <6>1. link' = FALSE /\ hci' = Append(Tail(hci), "DISCONNECTED")
            BY <4>1, <5>1 DEF LlReset
          <6>2. "DISCONNECTED" \in Reports
            BY DEF Reports
          <6>3. Answered(Append(Tail(hci), "DISCONNECTED"), {"UPDATE"}, {"DISCONNECTED"})
            BY <4>1, <6>2, AppendAnswered
          <6>4. QED
            BY <6>1, <6>3
        <5>2. CASE ~link
          BY <1>0, <4>1, <5>2, TailAnswered DEF LlReset, StackSaid
        <5>3. QED
          BY <5>1, <5>2
      <4>3. QED
        BY <2>1, <4>2 DEF StackSaid, Tells
    <3>3. QED
      BY <3>1, <3>2
  <2>3. QED
    BY <2>1, <2>2
<1>2. CASE Head(hci) = "UPDATE" /\ Updated /\ hci' = Tail(hci) /\ link' = link
  <2>1. private' = private /\ ended' = ended /\ state' = (IF private THEN "UPDATE_OK" ELSE state)
    BY <1>2 DEF Updated, StackSaid
  <2>2. CASE private /\ state # "UPDATE_OK"
    <3>1. StackSaid(TRUE)'
      BY <1>0, <1>2, <2>1, <2>2, ReportSaid
    <3>2. evq' = evq \o ReadyEvs
      BY <1>2, <2>2, StackPosts
    <3>3. QED
      BY <3>1, <3>2
  <2>3. CASE ~(private /\ state # "UPDATE_OK")
    <3>1. evq' = evq /\ state' = state
      BY <1>2, <2>1, <2>3, StackPosts
    <3>2. private => said
      BY <2>3 DEF StackSaid
    <3>3. state = "UPDATE_OK" => said
      BY DEF StackSaid
    <3>4. state = "DISCONN" => ~said /\ ended
      BY DEF StackSaid
    <3>5. StackSaid(said)'
      BY <1>0, <1>2, <2>1, <3>1, <3>2, <3>3, <3>4, ReportSaid
    <3>6. QED
      BY <2>1, <3>1, <3>5
  <2>4. QED
    BY <2>2, <2>3
<1>3. ASSUME Head(hci) \notin {"UPDATE", "DISCONNECTED"}, hci' = Tail(hci), link' = link,
             private' = private, evq' = evq, state' \in {state, "CONNECT", "NOTIFY"}
      PROVE  StackSaid(said)' /\ ended' = ended
  <2>1. ended' = ended
    BY <1>3
  <2>2. /\ state = "UPDATE_OK" => said
        /\ state = "DISCONN" => ~said /\ ended
    BY DEF StackSaid
  <2>3. StackSaid(said)'
    BY <1>0, <1>3, <2>1, <2>2, ReportSaid
  <2>4. QED
    BY <2>1, <2>3
<1>4. CASE Head(hci) = "CONN" /\ Connected /\ hci' = Tail(hci) /\ link' = link
  BY <1>3, <1>4 DEF Connected
<1>5. CASE Head(hci) = "CCC" /\ CccWritten /\ hci' = Tail(hci) /\ link' = link
  BY <1>3, <1>5 DEF CccWritten
<1>6. CASE Head(hci) = "ENCRYPTED" /\ Encrypted /\ hci' = Tail(hci) /\ link' = link
  BY <1>3, <1>6 DEF Encrypted
<1>7. QED
  BY <1>1, <1>2, <1>4, <1>5, <1>6, PacketCases

-------------------------------------------------------------------------------
(* What app_core hears of the link and of the devices.                       *)

LinkEvents == {"CONNECT", "DISCONN", "IDEV_MEDIA_OPEN", "IDEV_MEDIA_CLOSE"}
OdevEvents == {"ODEV_INIT_OK", "ODEV_MEDIA_OPEN", "ODEV_MEDIA_CLOSE"}

\* Posting events of other names.
LEMMA OthersPosted ==
    ASSUME evq \in Seq(Event), NEW es \in Seq(Event), evq' = evq \o es,
           UNCHANGED <<emf, conn, devStatus, running>>
    PROVE  /\ (\A i \in DOMAIN es : es[i].ev \notin LinkEvents)
                 => \A said : AppTold(said) /\ (ended' => ended \/ said) => AppTold(said)'
           /\ (\A i \in DOMAIN es : es[i].ev \notin OdevEvents) /\ OdevTold => OdevTold'
<1>1. ASSUME NEW said, AppTold(said), ended' => ended \/ said,
             \A i \in DOMAIN es : es[i].ev \notin LinkEvents
      PROVE  AppTold(said)'
  <2>1. /\ \A i \in DOMAIN es : es[i].ev \notin {"CONNECT", "DISCONN"}
        /\ \A i \in DOMAIN es : es[i].ev \notin {"IDEV_MEDIA_OPEN", "IDEV_MEDIA_CLOSE"}
    BY <1>1 DEF LinkEvents
  <2>2. ASSUME NEW was, NEW is, Tells(evq, Named("CONNECT"), Named("DISCONN"), was, is)
        PROVE  Tells(evq', Named("CONNECT"), Named("DISCONN"), was, is)
    BY <2>1, <2>2, SilentPost
  <2>3. ASSUME NEW was, NEW is,
               Tells(evq, Named("IDEV_MEDIA_OPEN"), Named("IDEV_MEDIA_CLOSE"), was, is)
        PROVE  Tells(evq', Named("IDEV_MEDIA_OPEN"), Named("IDEV_MEDIA_CLOSE"), was, is)
    BY <2>1, <2>3, SilentPost
  <2>4. QED
    BY <1>1, <2>2, <2>3 DEF AppTold
<1>2. ASSUME OdevTold, \A i \in DOMAIN es : es[i].ev \notin OdevEvents
      PROVE  OdevTold'
  <2>1. \A i \in DOMAIN es : es[i].ev \notin {"ODEV_MEDIA_OPEN", "ODEV_MEDIA_CLOSE"}
    BY <1>2 DEF OdevEvents
  <2>2. Pending(evq, Named("ODEV_INIT_OK")) => Pending(evq', Named("ODEV_INIT_OK"))
    BY ConcatElements DEF Pending
  <2>3. Tells(evq, Named("ODEV_MEDIA_OPEN"), Named("ODEV_MEDIA_CLOSE"), "ODEV" \in devStatus, TRUE)
        => Tells(evq', Named("ODEV_MEDIA_OPEN"), Named("ODEV_MEDIA_CLOSE"),
                 "ODEV" \in devStatus, TRUE)
    BY <2>1, SilentPost
  <2>4. QED
    BY <1>2, <2>2, <2>3 DEF OdevTold
<1>3. QED
  BY <1>1, <1>2

\* Every event posted, the stack's and LiteEMF's apart, is of another name.
LEMMA PlainPosts ==
    /\ \A i \in DOMAIN <<>> : <<>>[i].ev \notin LinkEvents \cup OdevEvents
    /\ \A v : \A i \in DOMAIN <<SetVolEv(v)>> :
          <<SetVolEv(v)>>[i].ev \notin LinkEvents \cup OdevEvents
    /\ \A i \in DOMAIN <<Ev("MEDIA_DECODE_ERR")>> :
          <<Ev("MEDIA_DECODE_ERR")>>[i].ev \notin LinkEvents \cup OdevEvents
    /\ \A i \in DOMAIN <<Ev("POWEROFF")>> :
          <<Ev("POWEROFF")>>[i].ev \notin LinkEvents \cup OdevEvents
    /\ \A i \in DOMAIN <<Ev("ODEV_MEDIA_CLOSE")>> :
          <<Ev("ODEV_MEDIA_CLOSE")>>[i].ev \notin LinkEvents
    /\ \A i \in DOMAIN ReadyEvs : ReadyEvs[i].ev \notin OdevEvents
    /\ \A i \in DOMAIN EndEvs : EndEvs[i].ev \notin OdevEvents
BY DEF Ev, OpenIdevEv, SetVolEv, LinkEvents, OdevEvents, ReadyEvs, EndEvs

\* What the stack posts is heard.
LEMMA StackHeard ==
    ASSUME evq \in Seq(Event), NEW said \in BOOLEAN, AppTold(said),
           UNCHANGED <<emf, conn, devStatus>>
    PROVE  /\ evq' = evq \o ReadyEvs => AppTold(TRUE)'
           /\ evq' = evq \o EndEvs => AppTold(FALSE)'
<1> USE DEF AppTold
<1>1. /\ ReadyEvs \in Seq(Event) /\ EndEvs \in Seq(Event)
      /\ ReadyEvs # <<>> /\ EndEvs # <<>> /\ Len(ReadyEvs) = 2 /\ Len(EndEvs) = 2
  BY EvsTyped DEF ReadyEvs, EndEvs
<1>2. /\ Ev("CONNECT") \in Named("CONNECT") /\ Ev("DISCONN") \in Named("DISCONN")
      /\ OpenIdevEv(0) \in Named("IDEV_MEDIA_OPEN")
      /\ OpenIdevEv(0) \notin Named("IDEV_MEDIA_CLOSE")
      /\ Ev("IDEV_MEDIA_CLOSE") \in Named("IDEV_MEDIA_CLOSE")
      /\ Ev("IDEV_MEDIA_CLOSE") \notin Named("IDEV_MEDIA_OPEN")
      /\ \A k \in {"CONNECT", "DISCONN"} :
            OpenIdevEv(0) \notin Named(k) /\ Ev("IDEV_MEDIA_CLOSE") \notin Named(k)
      /\ Ev("CONNECT") \notin Named("DISCONN") /\ Ev("DISCONN") \notin Named("CONNECT")
  BY NamedEv, ModesAssumption DEF AdapterEvents
<1>3. ASSUME evq' = evq \o ReadyEvs PROVE AppTold(TRUE)'
  <2>1. Tells(ReadyEvs, Named("CONNECT"), Named("DISCONN"), said, TRUE)
    BY <1>2 DEF ReadyEvs, Tells, Answered, Pending
  <2>2. Tells(evq', Named("CONNECT"), Named("DISCONN"), conn, TRUE)
    BY <1>1, <1>3, <2>1, PostTells
  <2>3. Tells(evq', Named("IDEV_MEDIA_OPEN"), Named("IDEV_MEDIA_CLOSE"),
              "IDEV" \in devStatus, TRUE)
    <3>1. ReadyEvs[Len(ReadyEvs)] \in Named("IDEV_MEDIA_OPEN") \ Named("IDEV_MEDIA_CLOSE")
      BY <1>1, <1>2 DEF ReadyEvs
    <3>2. QED
      BY <1>1, <1>3, <3>1, LastTells
  <2>4. QED
    BY <2>2, <2>3
<1>4. ASSUME evq' = evq \o EndEvs PROVE AppTold(FALSE)'
  <2>1. Tells(EndEvs, Named("CONNECT"), Named("DISCONN"), said, FALSE)
    BY <1>2 DEF EndEvs, Tells, Answered, Pending
  <2>2. Tells(evq', Named("CONNECT"), Named("DISCONN"), conn, FALSE)
    BY <1>1, <1>4, <2>1, PostTells
  <2>3. Tells(evq', Named("IDEV_MEDIA_OPEN"), Named("IDEV_MEDIA_CLOSE"),
              "IDEV" \in devStatus, FALSE)
    <3>1. EndEvs[Len(EndEvs)] \in Named("IDEV_MEDIA_CLOSE") \ Named("IDEV_MEDIA_OPEN")
      BY <1>1, <1>2 DEF EndEvs
    <3>2. QED
      BY <1>1, <1>4, <3>1, LastTells
  <2>4. QED
    BY <2>2, <2>3
<1>5. QED
  BY <1>3, <1>4

\* A change of the selection closes the devices and opens them again: who wanted
\* them open finds them so.
LEMMA SelectHeard ==
    ASSUME evq \in Seq(Event), evq' = evq \o SelectEvs, UNCHANGED <<conn, devStatus, running>>,
           emf, emf' = emf
    PROVE  /\ \A said : AppTold(said) => AppTold(said)'
           /\ OdevTold => OdevTold'
<1>1. /\ SelectEvs \in Seq(Event)
      /\ SelectEvs = <<Ev("ODEV_MEDIA_CLOSE"), Ev("ODEV_MEDIA_OPEN"), Ev("IDEV_MEDIA_CLOSE"),
                       OpenIdevEv(0)>>
  BY EvsTyped DEF SelectEvs
<1>2. /\ OpenIdevEv(0) \in Named("IDEV_MEDIA_OPEN")
      /\ \A k \in {"CONNECT", "DISCONN", "ODEV_MEDIA_OPEN", "ODEV_MEDIA_CLOSE", "IDEV_MEDIA_CLOSE"} :
            OpenIdevEv(0) \notin Named(k)
      /\ Ev("ODEV_MEDIA_OPEN") \in Named("ODEV_MEDIA_OPEN")
      /\ \A k \in {"CONNECT", "DISCONN", "IDEV_MEDIA_OPEN", "IDEV_MEDIA_CLOSE", "ODEV_MEDIA_CLOSE"} :
            Ev("ODEV_MEDIA_OPEN") \notin Named(k)
      /\ \A k \in {"CONNECT", "DISCONN", "IDEV_MEDIA_OPEN", "ODEV_MEDIA_OPEN", "IDEV_MEDIA_CLOSE"} :
            Ev("ODEV_MEDIA_CLOSE") \notin Named(k)
      /\ \A k \in {"CONNECT", "DISCONN", "IDEV_MEDIA_OPEN", "ODEV_MEDIA_OPEN", "ODEV_MEDIA_CLOSE"} :
            Ev("IDEV_MEDIA_CLOSE") \notin Named(k)
  BY NamedEv, ModesAssumption DEF AdapterEvents
<1>3. ASSUME NEW b PROVE Tells(SelectEvs, Named("CONNECT"), Named("DISCONN"), b, b)
  BY <1>1, <1>2 DEF Tells, Answered, Pending
<1>4. Tells(SelectEvs, Named("IDEV_MEDIA_OPEN"), Named("IDEV_MEDIA_CLOSE"), TRUE, TRUE)
  BY <1>1, <1>2 DEF Tells, Answered, Pending
<1>5. Tells(SelectEvs, Named("ODEV_MEDIA_OPEN"), Named("ODEV_MEDIA_CLOSE"), TRUE, TRUE)
  BY <1>1, <1>2 DEF Tells, Answered, Pending
<1>6. ASSUME NEW said, AppTold(said) PROVE AppTold(said)'
  <2>1. Tells(evq', Named("CONNECT"), Named("DISCONN"), conn, said)
    BY <1>1, <1>3, <1>6, PostTells DEF AppTold
  <2>2. ASSUME said
        PROVE  Tells(evq', Named("IDEV_MEDIA_OPEN"), Named("IDEV_MEDIA_CLOSE"),
                     "IDEV" \in devStatus, TRUE)
    BY <1>1, <1>4, <1>6, <2>2, PostTells DEF AppTold
  <2>3. QED
    BY <2>1, <2>2 DEF AppTold
<1>7. ASSUME OdevTold PROVE OdevTold'
  <2>1. Pending(evq, Named("ODEV_INIT_OK")) => Pending(evq', Named("ODEV_INIT_OK"))
    BY <1>1, ConcatElements DEF Pending
  <2>2. ASSUME Tells(evq, Named("ODEV_MEDIA_OPEN"), Named("ODEV_MEDIA_CLOSE"),
                     "ODEV" \in devStatus, TRUE)
        PROVE  Tells(evq', Named("ODEV_MEDIA_OPEN"), Named("ODEV_MEDIA_CLOSE"),
                     "ODEV" \in devStatus, TRUE)
    BY <1>1, <1>5, <2>2, PostTells
  <2>3. QED
    BY <1>7, <2>1, <2>2 DEF OdevTold
<1>8. QED
  BY <1>6, <1>7

\* The output device's report waits until it is taken.
LEMMA InitStays ==
    ASSUME evq \in Seq(Event), evq # <<>>, NEW es \in Seq(Event), TakeAndPost(es),
           NEW M, Head(evq) \notin M, Pending(evq, M)
    PROVE  Pending(evq', M)
<1>1. PICK i \in DOMAIN evq : evq[i] \in M
  BY DEF Pending
<1>2. i # 1 /\ i - 1 \in DOMAIN evq' /\ evq'[i - 1] = evq[i]
  BY <1>1, TakeElements
<1>3. QED
  BY <1>1, <1>2 DEF Pending

\* app_core takes an event: what it makes of it is what it was told.
LEMMA EventHeard ==
    ASSUME AlwaysRun = FALSE, evq \in Seq(Event), devStatus \in SUBSET Both, EventStep,
           running' \in BOOLEAN, running' => running
    PROVE  /\ \A said : AppTold(said) => AppTold(said)'
           /\ OdevTold => OdevTold'
<1>1. /\ evq # <<>> /\ TakeAndPost(<<>>) /\ <<>> \in Seq(Event) /\ running
      /\ Head(evq).ev \notin {"IDEV_INIT_OK", "ODEV_INIT_OK"}
      /\ Head(evq) \in Event /\ UNCHANGED <<emf, ended>>
  BY EventTakes, TakeTyped DEF EventStep, srvVars
<1>2. \A k : Head(evq) \in Named(k) <=> Head(evq).ev = k
  BY <1>1, NamedEv
<1>3. ASSUME NEW Yes, NEW No, NEW is, NEW was, NEW mid, Tells(evq, Yes, No, was, is),
             Head(evq) \in Yes => mid, Head(evq) \in No => ~mid,
             Head(evq) \notin Yes \cup No => (was <=> mid)
      PROVE  Tells(evq', Yes, No, mid, is)
  <2>1. Tells(<<>>, Yes, No, is, is)
    BY EmptyTells
  <2>2. QED
    BY <1>1, <1>3, <2>1, TakeTells
<1>4. ASSUME NEW is, Tells(evq, Named("CONNECT"), Named("DISCONN"), conn, is)
      PROVE  Tells(evq', Named("CONNECT"), Named("DISCONN"), conn', is)
  <2>1. conn' = IF Head(evq).ev \in ToneEvents THEN Head(evq).ev = "CONNECT" ELSE conn
    BY DEF EventStep
  <2>2. /\ Head(evq) \in Named("CONNECT") => conn'
        /\ Head(evq) \in Named("DISCONN") => ~conn'
        /\ Head(evq) \notin Named("CONNECT") \cup Named("DISCONN") => (conn <=> conn')
    <3>1. CASE Head(evq).ev = "CONNECT"
      <4>1. conn' = TRUE
        BY <2>1, <3>1 DEF ToneEvents
      <4>2. Head(evq) \in Named("CONNECT") /\ Head(evq) \notin Named("DISCONN")
        BY <1>2, <3>1
      <4>3. QED
        BY <4>1, <4>2
    <3>2. CASE Head(evq).ev = "DISCONN"
      <4>1. conn' = FALSE
        BY <2>1, <3>2 DEF ToneEvents
      <4>2. Head(evq) \in Named("DISCONN") /\ Head(evq) \notin Named("CONNECT")
        BY <1>2, <3>2
      <4>3. QED
        BY <4>1, <4>2
    <3>3. CASE Head(evq).ev \notin ToneEvents
      <4>1. conn' = conn
        BY <2>1, <3>3
      <4>2. QED
        BY <1>2, <3>3, <4>1 DEF ToneEvents
    <3>4. QED
      BY <3>1, <3>2, <3>3 DEF ToneEvents
  <2>3. QED
    BY <1>3, <1>4, <2>2
<1>5. /\ Dispatch
      /\ Head(evq) \in Named("IDEV_MEDIA_OPEN") => "IDEV" \in devStatus'
      /\ Head(evq) \in Named("IDEV_MEDIA_CLOSE") => "IDEV" \notin devStatus'
      /\ Head(evq) \notin Named("IDEV_MEDIA_OPEN") \cup Named("IDEV_MEDIA_CLOSE")
            => ("IDEV" \in devStatus <=> "IDEV" \in devStatus')
      /\ Head(evq) \in Named("ODEV_MEDIA_OPEN") => "ODEV" \in devStatus'
      /\ Head(evq) \in Named("ODEV_MEDIA_CLOSE") => "ODEV" \notin devStatus'
      /\ Head(evq) \notin Named("ODEV_MEDIA_OPEN") \cup Named("ODEV_MEDIA_CLOSE")
            => ("ODEV" \in devStatus <=> "ODEV" \in devStatus')
  BY <1>2, EventTakes, DispatchMarks
<1>6. ASSUME NEW is, Tells(evq, Named("IDEV_MEDIA_OPEN"), Named("IDEV_MEDIA_CLOSE"),
                           "IDEV" \in devStatus, is)
      PROVE  Tells(evq', Named("IDEV_MEDIA_OPEN"), Named("IDEV_MEDIA_CLOSE"),
                   "IDEV" \in devStatus', is)
  <2> DEFINE was == "IDEV" \in devStatus
             mid == "IDEV" \in devStatus'
  <2>1. /\ Tells(evq, Named("IDEV_MEDIA_OPEN"), Named("IDEV_MEDIA_CLOSE"), was, is)
        /\ Head(evq) \in Named("IDEV_MEDIA_OPEN") => mid
        /\ Head(evq) \in Named("IDEV_MEDIA_CLOSE") => ~mid
        /\ Head(evq) \notin Named("IDEV_MEDIA_OPEN") \cup Named("IDEV_MEDIA_CLOSE") => (was <=> mid)
    BY <1>5, <1>6
  <2> HIDE DEF was, mid
  <2>2. Tells(evq', Named("IDEV_MEDIA_OPEN"), Named("IDEV_MEDIA_CLOSE"), mid, is)
    BY <1>3, <2>1
  <2>3. QED
    BY <2>2 DEF mid
<1>7. ASSUME Tells(evq, Named("ODEV_MEDIA_OPEN"), Named("ODEV_MEDIA_CLOSE"),
                   "ODEV" \in devStatus, TRUE)
      PROVE  Tells(evq', Named("ODEV_MEDIA_OPEN"), Named("ODEV_MEDIA_CLOSE"),
                   "ODEV" \in devStatus', TRUE)
  <2> DEFINE was == "ODEV" \in devStatus
             mid == "ODEV" \in devStatus'
  <2>1. /\ Tells(evq, Named("ODEV_MEDIA_OPEN"), Named("ODEV_MEDIA_CLOSE"), was, TRUE)
        /\ Head(evq) \in Named("ODEV_MEDIA_OPEN") => mid
        /\ Head(evq) \in Named("ODEV_MEDIA_CLOSE") => ~mid
        /\ Head(evq) \notin Named("ODEV_MEDIA_OPEN") \cup Named("ODEV_MEDIA_CLOSE") => (was <=> mid)
    BY <1>5, <1>7
  <2> HIDE DEF was, mid
  <2>2. Tells(evq', Named("ODEV_MEDIA_OPEN"), Named("ODEV_MEDIA_CLOSE"), mid, TRUE)
    BY <1>3, <2>1
  <2>3. QED
    BY <2>2 DEF mid
<1>8. ASSUME NEW said, AppTold(said) PROVE AppTold(said)'
  BY <1>1, <1>4, <1>6, <1>8 DEF AppTold
<1>9. ASSUME OdevTold PROVE OdevTold'
  <2>1. Pending(evq, Named("ODEV_INIT_OK")) => Pending(evq', Named("ODEV_INIT_OK"))
    BY <1>1, <1>2, InitStays
  <2>2. QED
    BY <1>1, <1>7, <1>9, <2>1 DEF OdevTold
<1>10. QED
  BY <1>8, <1>9

\* The devices start.
LEMMA StartsHeard ==
    ASSUME evq \in Seq(Event), StartsOnce, DeviceStarts, ~ended \/ state # "NULL",
           NEW said, AppTold(said), state = "NULL" => ~said /\ ~ended
    PROVE  AppTold(said)' /\ (OdevTold => OdevTold')
<1>1. evq # <<>> /\ UNCHANGED <<devStatus, running, conn, ended, emf>>
  BY StartsPost DEF proVars, earVars, InitServer, srvVars
<1>2. CASE Head(evq).ev = "IDEV_INIT_OK" /\ TakeAndPost(<<OpenIdevEv(0)>>)
  <2>1. 1 \in DOMAIN evq /\ evq[1] = Head(evq)
    BY <1>1, TailElements
  <2>2. state = "NULL" /\ Pending(evq, Named("ODEV_INIT_OK"))
    BY <1>2, <2>1 DEF StartsOnce
  <2>3. /\ <<OpenIdevEv(0)>> \in Seq(Event)
        /\ \A i \in DOMAIN <<OpenIdevEv(0)>> :
              <<OpenIdevEv(0)>>[i].ev \notin {"CONNECT", "DISCONN"}
    BY EvsTyped DEF OpenIdevEv
  <2>4. ASSUME NEW is, Tells(evq, Named("CONNECT"), Named("DISCONN"), conn, is)
        PROVE  Tells(evq', Named("CONNECT"), Named("DISCONN"), conn, is)
    <3>1. Head(evq).ev \notin {"CONNECT", "DISCONN"}
      BY <1>2
    <3>2. QED
      BY <1>1, <1>2, <2>3, <2>4, <3>1, SilentTake
  <2>5. Head(evq) \notin Named("ODEV_INIT_OK")
    BY <1>2 DEF Named
  <2>6. Pending(evq', Named("ODEV_INIT_OK"))
    BY <1>1, <1>2, <2>2, <2>3, <2>5, InitStays
  <2>7. QED
    BY <1>1, <2>2, <2>4, <2>6 DEF AppTold, OdevTold
<1>3. CASE Head(evq).ev = "ODEV_INIT_OK" /\ TakeAndPost(<<Ev("ODEV_MEDIA_OPEN")>>)
  <2>1. /\ <<Ev("ODEV_MEDIA_OPEN")>> \in Seq(Event)
        /\ \A i \in DOMAIN <<Ev("ODEV_MEDIA_OPEN")>> :
              <<Ev("ODEV_MEDIA_OPEN")>>[i].ev \notin LinkEvents
    BY EvsTyped DEF Ev, LinkEvents
  <2>2. Head(evq).ev \notin LinkEvents
    BY <1>3 DEF LinkEvents
  <2>3. ASSUME NEW was, NEW is, Tells(evq, Named("CONNECT"), Named("DISCONN"), was, is)
        PROVE  Tells(evq', Named("CONNECT"), Named("DISCONN"), was, is)
    <3>1. /\ Head(evq).ev \notin {"CONNECT", "DISCONN"}
          /\ \A i \in DOMAIN <<Ev("ODEV_MEDIA_OPEN")>> :
                <<Ev("ODEV_MEDIA_OPEN")>>[i].ev \notin {"CONNECT", "DISCONN"}
      BY <2>1, <2>2 DEF LinkEvents
    <3>2. QED
      BY <1>1, <1>3, <2>1, <2>3, <3>1, SilentTake
  <2>4. ASSUME NEW was, NEW is,
               Tells(evq, Named("IDEV_MEDIA_OPEN"), Named("IDEV_MEDIA_CLOSE"), was, is)
        PROVE  Tells(evq', Named("IDEV_MEDIA_OPEN"), Named("IDEV_MEDIA_CLOSE"), was, is)
    <3>1. /\ Head(evq).ev \notin {"IDEV_MEDIA_OPEN", "IDEV_MEDIA_CLOSE"}
          /\ \A i \in DOMAIN <<Ev("ODEV_MEDIA_OPEN")>> :
                <<Ev("ODEV_MEDIA_OPEN")>>[i].ev \notin {"IDEV_MEDIA_OPEN", "IDEV_MEDIA_CLOSE"}
      BY <2>1, <2>2 DEF LinkEvents
    <3>2. QED
      BY <1>1, <1>3, <2>1, <2>4, <3>1, SilentTake
  <2>5. AppTold(said)'
    BY <1>1, <2>3, <2>4 DEF AppTold
  <2>6. Tells(evq', Named("ODEV_MEDIA_OPEN"), Named("ODEV_MEDIA_CLOSE"), "ODEV" \in devStatus, TRUE)
    <3> DEFINE es == <<Ev("ODEV_MEDIA_OPEN")>>
    <3>1. evq' = Tail(evq) \o es /\ Tail(evq) \in Seq(Event) /\ es # <<>>
      BY <1>1, <1>3, HeadTailProperties DEF TakeAndPost
    <3>2. es[Len(es)] \in Named("ODEV_MEDIA_OPEN") \ Named("ODEV_MEDIA_CLOSE")
      BY NamedEv DEF AdapterEvents
    <3>3. QED
      BY <2>1, <3>1, <3>2, LastTells
  <2>7. QED
    BY <1>1, <2>5, <2>6 DEF OdevTold
<1>4. QED
  BY <1>2, <1>3, StartsPost

\* The link, and the devices, as app_core will have heard of them.
LEMMA SoundKept ==
    ASSUME AlwaysRun = FALSE, EarInv, SoundInv, [EarNext]_earphoneVars
    PROVE  SoundInv'
<1>0. /\ evq \in Seq(Event) /\ SrvVarsTyped /\ hostVol \in Vols /\ NothingBegun
      /\ StartsOnce /\ ended \in BOOLEAN /\ devStatus \in SUBSET Both
      /\ AdvertisesAlone /\ PlainNeverSelects /\ OdevTold
      /\ running \in BOOLEAN /\ running' \in BOOLEAN /\ (\A i \in DOMAIN <<>> : FALSE)
  <2>1. IInv'
    BY EarKept DEF EarInv
  <2>2. QED
    BY <2>1, IInvParts, SrvTyped
       DEF EarInv, ServerInv, EarVarsTyped, IInv, TypeOK, SoundInv
<1>1. PICK said \in BOOLEAN : StackSaid(said) /\ AppTold(said)
  BY DEF SoundInv, LinkTold
<1>2. SUFFICES (\E now \in BOOLEAN : StackSaid(now)' /\ AppTold(now)') /\ OdevTold'
  BY DEF SoundInv, LinkTold
<1>3. evq \o <<>> = evq /\ <<>> \in Seq(Event)
  BY <1>0, ConcatEmptySeq
<1>4. ASSUME NEW es \in Seq(Event), evq' = evq \o es,
             \A i \in DOMAIN es : es[i].ev \notin LinkEvents,
             UNCHANGED <<emf, conn, devStatus, running>>, ended' = ended
      PROVE  AppTold(said)'
  BY <1>0, <1>1, <1>4, OthersPosted
<1>5. ASSUME NEW es \in Seq(Event), evq' = evq \o es,
             \A i \in DOMAIN es : es[i].ev \notin OdevEvents,
             UNCHANGED <<emf, conn, devStatus, running>>
      PROVE  OdevTold'
  BY <1>0, <1>5, OthersPosted
<1>6. ASSUME evq' = evq, UNCHANGED <<emf, conn, devStatus, running>>, ended' = ended
      PROVE  AppTold(said)' /\ OdevTold'
  BY <1>3, <1>4, <1>5, <1>6, PlainPosts
<1>7. CASE DeviceStarts
  <2>1. state = "NULL" => ~said /\ ~ended
    BY <1>0, <1>1 DEF StackSaid, NothingBegun, Tells, Pending
  <2>2. AppTold(said)' /\ OdevTold'
    BY <1>0, <1>1, <1>7, <2>1, StartsHeard
  <2>3. ended' = ended /\ (UNCHANGED srvVars \/ (state = "NULL" /\ InitServer))
    <3>1. Head(evq).ev = "IDEV_INIT_OK" => state = "NULL"
      <4>1. 1 \in DOMAIN evq /\ evq[1] = Head(evq)
        BY <1>0, <1>7, StartsPost, TailElements
      <4>2. QED
        BY <1>0, <4>1 DEF StartsOnce
    <3>2. UNCHANGED srvVars \/ (Head(evq).ev = "IDEV_INIT_OK" /\ InitServer)
      BY <1>7, StartsPost
    <3>3. UNCHANGED earVars
      BY <1>7, StartsPost
    <3>4. ended' = ended
      BY <3>3 DEF earVars
    <3>5. UNCHANGED srvVars \/ (state = "NULL" /\ InitServer)
      BY <3>1, <3>2
    <3>6. QED
      BY <3>4, <3>5
  <2>4. StackSaid(said)'
    BY <1>0, <1>1, <2>3, StartSaid
  <2>5. QED
    BY <2>2, <2>4
<1>8. CASE EventStep
  <2>1. UNCHANGED srvVars /\ ended' = ended /\ running
    BY <1>8, EventTakes DEF EventStep
  <2>2. StackSaid(said)'
    BY <1>0, <1>1, <2>1, StartSaid
  <2>3. AppTold(said)' /\ OdevTold'
    BY <1>0, <1>1, <1>8, <2>1, EventHeard
  <2>4. QED
    BY <2>2, <2>3
<1>9. CASE StopDevices
  <2>1. /\ CallBegins /\ ended' = ended /\ emf' = emf /\ ~running
        /\ UNCHANGED <<conn, devStatus, running>>
        /\ evq' = evq \o <<Ev("ODEV_MEDIA_CLOSE")>>
    BY <1>9 DEF StopDevices, CallBegins, CallStop, Call, Post, proVars
  <2>2. StackSaid(said)'
    BY <1>0, <1>1, <2>1, StartSaid
  <2>3. AppTold(said)'
    BY <1>4, <2>1, EvsTyped, PlainPosts
  <2>4. OdevTold'
    BY <2>1 DEF OdevTold
  <2>5. QED
    BY <2>2, <2>3, <2>4
<1>10. CASE ToneEnd \/ VolumeMove \/ UNCHANGED earphoneVars
  <2>1. UNCHANGED <<vars, srvVars, conn, ended>>
    BY <1>10 DEF ToneEnd, VolumeMove, earphoneVars, earVars
  <2>2. evq' = evq /\ ended' = ended /\ UNCHANGED <<emf, conn, devStatus, running>>
    BY <2>1 DEF vars, srvVars
  <2>3. StackSaid(said)'
    BY <1>0, <1>1, <2>1, StartSaid
  <2>4. QED
    BY <1>6, <2>2, <2>3
<1>11. CASE CommandParse \/ DecoderMove \/ PowerOffMove
  <2>1. /\ UNCHANGED <<proVars, running, srvVars, earVars>>
        /\ \/ evq' = evq \o <<SetVolEv(hostVol)>>
           \/ evq' = evq \o <<Ev("MEDIA_DECODE_ERR")>>
           \/ evq' = evq \o <<Ev("POWEROFF")>>
    BY <1>11 DEF CommandParse, DecoderMove, DecodeError, PowerOffMove, Notify, Post
  <2>2. ended' = ended /\ UNCHANGED <<emf, conn, devStatus, running>>
    BY <2>1 DEF proVars, srvVars, earVars
  <2>3. \E es \in Seq(Event) : /\ evq' = evq \o es
                               /\ \A i \in DOMAIN es : es[i].ev \notin LinkEvents \cup OdevEvents
    BY <1>0, <2>1, EvsTyped, PlainPosts
  <2>4. StackSaid(said)'
    BY <1>0, <1>1, <2>1, <2>2, StartSaid
  <2>5. AppTold(said)' /\ OdevTold'
    BY <1>4, <1>5, <2>2, <2>3
  <2>6. QED
    BY <2>4, <2>5
<1>12. CASE StackStep
  <2>1. /\ PacketHandler /\ ended' = (ended \/ Head(hci) = "DISCONNECTED")
        /\ UNCHANGED <<emf, conn, devStatus, running>>
    BY <1>12 DEF StackStep, PacketHandler, proVars
  <2>2. PICK now \in BOOLEAN :
              /\ StackSaid(now)'
              /\ \/ evq' = evq \o ReadyEvs /\ now = TRUE
                 \/ evq' = evq \o EndEvs /\ now = FALSE
                 \/ evq' = evq /\ now = said /\ (~now => (ended' => ended))
    BY <1>0, <1>1, <2>1, PacketSaid
  <2>3. CASE evq' = evq \o ReadyEvs /\ now = TRUE
    BY <1>0, <1>1, <1>5, <2>1, <2>2, <2>3, StackHeard, EvsTyped, PlainPosts
  <2>4. CASE evq' = evq \o EndEvs /\ now = FALSE
    BY <1>0, <1>1, <1>5, <2>1, <2>2, <2>4, StackHeard, EvsTyped, PlainPosts
  <2>5. CASE evq' = evq /\ now = said /\ (~now => (ended' => ended))
    <3>1. AppTold(said)'
      BY <1>0, <1>1, <1>3, <2>1, <2>5, OthersPosted, PlainPosts
    <3>2. OdevTold'
      BY <1>3, <1>5, <2>1, <2>5, PlainPosts
    <3>3. QED
      BY <2>2, <2>5, <3>1, <3>2
  <2>6. QED
    BY <2>2, <2>3, <2>4, <2>5
<1>13. CASE CallerStep
  <2>1. CallDid /\ ended' = ended /\ evq' = evq /\ UNCHANGED <<conn, devStatus, running>>
    BY <1>0, <1>13, CallStepDoes, CallsPostNothing DEF CallerStep, earVars, proVars
  <2>2. emf' = emf
    BY <2>1, DidKinds
  <2>3. StackSaid(said)'
    BY <1>0, <1>1, <2>1, CallSaid
  <2>4. QED
    BY <1>6, <2>1, <2>2, <2>3
<1>14. CASE SelectStep
  <2>1. SelectDone /\ UNCHANGED earVars
        /\ ((\E s \in Sels : SelectMedia(s)) \/ UNCHANGED vars)
    BY <1>14 DEF SelectStep, SelectDone
  <2>2. CallDid /\ emf' = emf /\ ended' = ended /\ conn' = conn
    BY <1>0, <2>1, CallStepDoes DEF SelectDone, earVars
  <2>3. StackSaid(said)'
    BY <1>0, <1>1, <2>2, CallSaid
  <2>4. CASE UNCHANGED vars
    BY <1>6, <2>2, <2>3, <2>4 DEF vars
  <2>5. CASE \E s \in Sels : SelectMedia(s)
    <3>1. evq' = evq \o SelectEvs /\ UNCHANGED <<devStatus, running>>
      BY <2>5 DEF SelectMedia, Post, SelectEvs, proVars
    <3>2. emf
      <4>1. 1 \in DOMAIN todo /\ todo[1] \in {"selectRadio", "selectUsb"}
        BY <1>0, <2>1, TailElements DEF SelectDone, Step, SrvVarsTyped
      <4>2. QED
        BY <1>0, <4>1 DEF PlainNeverSelects, Pending
    <3>3. AppTold(said)' /\ OdevTold'
      BY <1>0, <1>1, <2>2, <3>1, <3>2, SelectHeard
    <3>4. QED
      BY <2>3, <3>3
  <2>6. QED
    BY <2>1, <2>4, <2>5
<1>15. CASE RadioStep \/ LinkLossMove
  <2>1. Radio /\ UNCHANGED <<proVars, running, earVars>>
    BY <1>15 DEF RadioStep, LinkLossMove, Radio
  <2>2. evq' = evq /\ emf' = emf
    BY <2>1 DEF Radio, CtrlConnect, PeerSettles, CtrlLinkLoss
  <2>3. ended' = ended /\ UNCHANGED <<conn, devStatus, running>>
    BY <2>1 DEF earVars, proVars
  <2>4. StackSaid(said)'
    BY <1>0, <1>1, <2>1, <2>3, RadioSaid
  <2>5. QED
    BY <1>6, <2>2, <2>3, <2>4
<1>16. CASE UserMove
  <2>1. CallBegins /\ UNCHANGED <<vars, earVars>>
    BY <1>16 DEF UserMove, CallBegins
  <2>2. evq' = evq /\ ended' = ended /\ UNCHANGED <<conn, devStatus, running>>
    BY <2>1 DEF vars, earVars
  <2>3. emf' = emf
    BY <1>0, <2>1, CallBeginsSteps DEF Begun
  <2>4. StackSaid(said)'
    BY <1>0, <1>1, <2>1, <2>2, StartSaid
  <2>5. QED
    BY <1>6, <2>2, <2>3, <2>4
<1>17. QED
  BY <1>7, <1>8, <1>9, <1>10, <1>11, <1>12, <1>13, <1>14, <1>15, <1>16
     DEF EarNext, Firmware, Environment

\* Before the input device is started the stack has said nothing.
LEMMA SoundBegins ==
    ASSUME EarInit
    PROVE  SoundInv
<1>1. /\ hci = <<>> /\ state = "NULL" /\ ~link /\ ~ended /\ conn = FALSE
      /\ link = FALSE /\ settled = FALSE /\ private
      /\ evq = <<Ev("IDEV_INIT_OK"), Ev("ODEV_INIT_OK")>>
  BY DEF EarInit, SrvInit
<1>2. StackSaid(FALSE)
  BY <1>1 DEF StackSaid, Tells, Pending, Answered
<1>3. /\ \A k \in {"CONNECT", "DISCONN"} :
            Ev("IDEV_INIT_OK") \notin Named(k) /\ Ev("ODEV_INIT_OK") \notin Named(k)
      /\ Ev("ODEV_INIT_OK") \in Named("ODEV_INIT_OK")
  BY NamedEv DEF AdapterEvents
<1>4. AppTold(FALSE)
  BY <1>1, <1>3 DEF AppTold, Tells, Pending, Answered
<1>5. OdevTold
  <2>1. 2 \in DOMAIN evq /\ evq[2] = Ev("ODEV_INIT_OK")
    BY <1>1
  <2>2. QED
    BY <1>3, <2>1 DEF OdevTold, Pending
<1>6. QED
  BY <1>2, <1>4, <1>5 DEF SoundInv, LinkTold

\* What the queues tell is what SoundFollowsLink says once they are empty.
LEMMA SoundAgrees ==
    ASSUME AlwaysRun = FALSE, EarInv, SoundInv
    PROVE  SoundFollowsLink
<1>1. SUFFICES ASSUME Quiet PROVE /\ conn = Ready
                                  /\ (Ready /\ mediaSel = 0 /\ ~cut) => media = 0
                                  /\ (~emf /\ ended /\ ~Ready) => media = NoMedia
  BY DEF SoundFollowsLink
<1>2. /\ evq = <<>> /\ hci = <<>> /\ running
      /\ \A M : ~Pending(evq, M) /\ ~Pending(hci, M)
  BY <1>1 DEF Quiet, Handled, Pending
<1>3. /\ SrvVarsTyped /\ conn \in BOOLEAN /\ devStatus \in SUBSET Both
      /\ SilenceExplained /\ SelectionHonoured /\ MediaNeedsBoth
  BY SrvTyped, IInvParts DEF EarInv, ServerInv, EarVarsTyped, IInv, TypeOK
<1>4. PICK said \in BOOLEAN : StackSaid(said) /\ AppTold(said)
  BY DEF SoundInv, LinkTold
<1>5. said <=> Ready
  BY <1>2, <1>4 DEF StackSaid, Tells, Ready
<1>6. conn = Ready
  <2>1. conn <=> said
    BY <1>2, <1>4 DEF AppTold, Tells
  <2>2. QED
    BY <1>3, <1>5, <2>1 DEF Ready, SrvVarsTyped
<1>7. ~CloseWaiting
  BY <1>2 DEF CloseWaiting
<1>8. ASSUME Ready, mediaSel = 0, ~cut PROVE media = 0
  <2>1. "IDEV" \in devStatus
    BY <1>2, <1>4, <1>5, <1>8 DEF AppTold, Tells
  <2>2. "ODEV" \in devStatus
    BY <1>2 DEF SoundInv, OdevTold, Tells
  <2>3. devStatus = Both
    BY <1>3, <2>1, <2>2 DEF Both
  <2>4. media # NoMedia
    BY <1>2, <1>3, <1>7, <1>8, <2>3, ListNumAssumption DEF SilenceExplained
  <2>5. QED
    BY <1>3, <1>7, <1>8, <2>4 DEF SelectionHonoured
<1>9. ASSUME ~emf, ended, ~Ready PROVE media = NoMedia
  <2>1. "IDEV" \notin devStatus
    BY <1>2, <1>4, <1>5, <1>9 DEF AppTold, Tells
  <2>2. QED
    BY <1>3, <2>1 DEF MediaNeedsBoth, Both
<1>10. QED
  BY <1>6, <1>8, <1>9

\* In every build of the repository (none sets ALWAYS_RUN_STREAM, so dev_status follows
\* the devices): once the tasks are quiet, wireless_conn_status tells of the link; a
\* link that is ready is heard while the radio is selected, and in the plain build a
\* link that ended leaves no decoder running.
THEOREM SoundAlwaysFollows ==
    ASSUME AlwaysRun = FALSE
    PROVE  EarSpec => []SoundFollowsLink
<1>1. EarInit => EarInv /\ SoundInv
  BY EarBegins, SoundBegins
<1>2. EarInv /\ SoundInv /\ [EarNext]_earphoneVars => (EarInv /\ SoundInv)'
  BY EarKept, SoundKept
<1>3. EarInv /\ SoundInv => SoundFollowsLink
  BY SoundAgrees
<1>4. QED
  BY <1>1, <1>2, <1>3, PTL DEF EarSpec

-------------------------------------------------------------------------------
(* The volume.                                                               *)

\* What an event does to the media.
LEMMA DispatchMedia ==
    ASSUME AlwaysRun = FALSE, devStatus \in SUBSET Both, Dispatch
    PROVE  /\ media' # media /\ media' # NoMedia
                 => Head(evq).ev \in {"IDEV_MEDIA_OPEN", "ODEV_MEDIA_OPEN"}
           /\ Head(evq).ev \in {"IDEV_MEDIA_CLOSE", "ODEV_MEDIA_CLOSE"} => media' = NoMedia
           /\ "ODEV" \in devStatus' => "ODEV" \in devStatus \/ Head(evq).ev = "ODEV_MEDIA_OPEN"
<1>1. "ODEV" \in devStatus' => "ODEV" \in devStatus \/ Head(evq).ev = "ODEV_MEDIA_OPEN"
  <2>1. Head(evq).ev = "ODEV_MEDIA_CLOSE" => "ODEV" \notin devStatus'
    BY DispatchMarks
  <2>2. Head(evq).ev \notin {"ODEV_MEDIA_OPEN", "ODEV_MEDIA_CLOSE"}
           => ("ODEV" \in devStatus <=> "ODEV" \in devStatus')
    BY DispatchMarks
  <2>3. QED
    BY <2>1, <2>2
<1>2. CASE Head(evq).ev \in PassedOn /\ UNCHANGED proVars
  BY <1>1, <1>2 DEF proVars, PassedOn, UacEvents
<1>3. CASE Handle(Head(evq))
  BY <1>1, <1>3 DEF Handle, IdevMediaOpen, OdevMediaOpen, IdevMediaClose, OdevMediaClose,
                    MediaError, Close, MediaStop, proVars
<1>4. QED
  BY <1>2, <1>3 DEF Dispatch

\* What is posted starts the media only after a CONNECT, and, but for the change of the
\* selection, does not open the DAC.
LEMMA PostedStarts ==
    ASSUME NEW es \in Posted, NEW k \in DOMAIN es
    PROVE  /\ es[k].ev = "SET_MUSIC_VOL" => \E v \in Vols : es = <<SetVolEv(v)>>
           /\ es # SelectEvs => es[k].ev \notin OdevOpens
           /\ es # SelectEvs /\ es[k].ev = "IDEV_MEDIA_OPEN"
                 => k = 2 /\ 1 \in DOMAIN es /\ es[1].ev = "CONNECT"
<1> USE DEF Ev, OpenIdevEv, SetVolEv, OdevOpens
<1>1. CASE es = ReadyEvs
  <2>1. k = 1 \/ k = 2
    BY <1>1 DEF ReadyEvs
  <2>2. QED
    BY <1>1, <2>1 DEF ReadyEvs
<1>2. CASE es = EndEvs
  BY <1>2 DEF EndEvs
<1>3. CASE es = SelectEvs
  BY <1>3 DEF SelectEvs
<1>4. CASE es \in {<<Ev("ODEV_MEDIA_CLOSE")>>, <<Ev("MEDIA_DECODE_ERR")>>, <<Ev("POWEROFF")>>}
  BY <1>4
<1>5. CASE \E v \in Vols : es = <<SetVolEv(v)>>
  BY <1>5
<1>6. CASE es = <<>>
  BY <1>6
<1>7. QED
  BY <1>1, <1>2, <1>3, <1>4, <1>5, <1>6 DEF Posted

\* The events posted do not make a start of the media find a volume remembered.
LEMMA VolumePosted ==
    ASSUME evq \in Seq(Event), VolumeInv, MediaNeedsBoth, NEW es \in Posted, evq' = evq \o es,
           UNCHANGED <<emf, tone, media, curVol, decVol, devStatus, running>>,
           es = SelectEvs => emf,
           (\E v \in Vols : es = <<SetVolEv(v)>>) => ~emf /\ decVol # NoVol
    PROVE  VolumeInv'
<1>0. es \in Seq(Event) /\ evq' \in Seq(Event) /\ Len(evq) \in Nat
  BY PostedNames, PostTyped, LenProperties
<1>1. /\ \A i \in DOMAIN evq : i \in DOMAIN evq' /\ evq'[i] = evq[i] /\ i \in Nat /\ i <= Len(evq)
      /\ \A k \in DOMAIN es : /\ Len(evq) + k \in DOMAIN evq'
                              /\ evq'[Len(evq) + k] = es[k] /\ k \in Nat /\ k > 0
      /\ \A i \in DOMAIN evq' :
            \/ i \in DOMAIN evq /\ evq'[i] = evq[i]
            \/ i - Len(evq) \in DOMAIN es /\ i > Len(evq) /\ evq'[i] = es[i - Len(evq)]
  BY <1>0, ConcatElements
<1>2. emf => ~Pending(evq', Named("SET_MUSIC_VOL"))
  <2>1. SUFFICES ASSUME emf, NEW i \in DOMAIN evq', evq'[i] \in Named("SET_MUSIC_VOL")
                 PROVE  FALSE
    BY DEF Pending
  <2>2. evq'[i].ev = "SET_MUSIC_VOL"
    BY <2>1 DEF Named
  <2>3. CASE i \in DOMAIN evq /\ evq'[i] = evq[i]
    BY <2>1, <2>3 DEF VolumeInv, Pending
  <2>4. CASE i - Len(evq) \in DOMAIN es /\ evq'[i] = es[i - Len(evq)]
    BY <2>1, <2>2, <2>4, PostedStarts
  <2>5. QED
    BY <1>1, <2>3, <2>4
<1>3. ASSUME ~emf, running PROVE OpensOnce'
  <2>1. es # SelectEvs /\ OpensOnce
    BY <1>3 DEF VolumeInv
  <2>2. \A k \in DOMAIN es : es[k].ev \notin OdevOpens
    BY <2>1, PostedStarts
  <2>3. SUFFICES ASSUME NEW i \in DOMAIN evq', evq'[i].ev \in OdevOpens
                 PROVE  /\ "ODEV" \notin devStatus' /\ curVol' = NoVol
                        /\ \A j \in DOMAIN evq' : /\ evq'[j].ev \in OdevOpens => j = i
                                                  /\ evq'[j].ev # "SET_MUSIC_VOL"
    BY DEF OpensOnce
  <2>4. i \in DOMAIN evq /\ evq[i].ev \in OdevOpens
    BY <1>1, <2>2, <2>3
  <2>5. /\ "ODEV" \notin devStatus /\ curVol = NoVol
        /\ \A j \in DOMAIN evq : /\ evq[j].ev \in OdevOpens => j = i
                                 /\ evq[j].ev # "SET_MUSIC_VOL"
    BY <2>1, <2>4 DEF OpensOnce
  <2>6. \A k \in DOMAIN es : es[k].ev # "SET_MUSIC_VOL"
    <3>1. media = NoMedia
      BY <2>5 DEF MediaNeedsBoth, Both
    <3>2. decVol = NoVol
      BY <3>1 DEF VolumeInv
    <3>3. QED
      BY <3>2, PostedStarts
  <2>7. QED
    BY <1>1, <2>2, <2>5, <2>6
<1>4. ASSUME ~emf, running PROVE StartsForgotten'
  <2>1. es # SelectEvs /\ StartsForgotten
    BY <1>4 DEF VolumeInv
  <2>2. SUFFICES ASSUME NEW i \in DOMAIN evq', evq'[i].ev = "IDEV_MEDIA_OPEN"
                 PROVE  \/ i > 1 /\ evq'[i - 1].ev = "CONNECT"
                        \/ i = 1 /\ (tone' \/ curVol' = NoVol)
                        \/ Pending(evq', Named("ODEV_INIT_OK"))
                        \/ \E j \in DOMAIN evq' : j > i /\ evq'[j].ev = "ODEV_MEDIA_OPEN"
    BY DEF StartsForgotten
  <2>3. CASE i \in DOMAIN evq /\ evq'[i] = evq[i]
    <3>1. \/ i > 1 /\ evq[i - 1].ev = "CONNECT"
          \/ i = 1 /\ (tone \/ curVol = NoVol)
          \/ Pending(evq, Named("ODEV_INIT_OK"))
          \/ \E j \in DOMAIN evq : j > i /\ evq[j].ev = "ODEV_MEDIA_OPEN"
      BY <2>1, <2>2, <2>3 DEF StartsForgotten
    <3>2. i > 1 => i - 1 \in DOMAIN evq
      BY <2>3, LenProperties
    <3>3. Pending(evq, Named("ODEV_INIT_OK")) => Pending(evq', Named("ODEV_INIT_OK"))
      BY <1>1 DEF Pending
    <3>4. QED
      BY <1>1, <3>1, <3>2, <3>3
  <2>4. CASE i - Len(evq) \in DOMAIN es /\ i > Len(evq) /\ evq'[i] = es[i - Len(evq)]
    <3>1. i - Len(evq) = 2 /\ 1 \in DOMAIN es /\ es[1].ev = "CONNECT"
      BY <2>1, <2>2, <2>4, PostedStarts
    <3>2. i \in Nat
      BY <1>0, LenProperties
    <3>3. i = Len(evq) + 2 /\ i - 1 = Len(evq) + 1
      BY <1>0, <3>1, <3>2
    <3>4. QED
      BY <1>0, <1>1, <3>1, <3>3
  <2>5. QED
    BY <1>1, <2>3, <2>4
<1>5. QED
  BY <1>2, <1>3, <1>4 DEF VolumeInv

\* A start of the input device, or of the output device, finds no volume either.
LEMMA VolumeStarts ==
    ASSUME evq \in Seq(Event), VolumeInv, StartsOnce, DeviceStarts
    PROVE  VolumeInv'
<1>0. /\ evq # <<>>
      /\ UNCHANGED <<tone, media, curVol, decVol, devStatus, running, emf>>
  BY StartsPost DEF proVars, earVars, volVars, InitServer, srvVars
<1>1. PICK e \in {OpenIdevEv(0), Ev("ODEV_MEDIA_OPEN")} :
          /\ TakeAndPost(<<e>>)
          /\ \/ Head(evq).ev = "IDEV_INIT_OK" /\ e = OpenIdevEv(0)
             \/ Head(evq).ev = "ODEV_INIT_OK" /\ e = Ev("ODEV_MEDIA_OPEN")
  BY StartsPost
<1>2. <<e>> \in Seq(Event) /\ e.ev \in {"IDEV_MEDIA_OPEN", "ODEV_MEDIA_OPEN"}
      /\ (e = OpenIdevEv(0) => e.ev = "IDEV_MEDIA_OPEN")
      /\ (e = Ev("ODEV_MEDIA_OPEN") => e.ev = "ODEV_MEDIA_OPEN")
  BY EvsTyped DEF Ev, OpenIdevEv
<1>3. Tail(evq) \in Seq(Event) /\ e \in Event /\ evq' = Append(Tail(evq), e)
  <2>1. Tail(evq) \in Seq(Event) /\ evq' = Tail(evq) \o <<e>> /\ e \in Event
    BY <1>0, <1>1, <1>2, HeadTailProperties DEF TakeAndPost
  <2>2. QED
    BY <2>1, AppendIsConcat
<1> DEFINE last == Len(Tail(evq)) + 1
<1>4. /\ last \in DOMAIN evq' /\ evq'[last] = e
      /\ \A i \in DOMAIN evq' :
            \/ i = last
            \/ i \in Nat /\ i < last /\ i + 1 \in DOMAIN evq /\ i + 1 > 1 /\ evq'[i] = evq[i + 1]
  <2>1. /\ last \in DOMAIN evq' /\ evq'[last] = e /\ Len(Tail(evq)) \in Nat
        /\ \A i \in DOMAIN Tail(evq) :
              i \in Nat /\ i >= 1 /\ i <= Len(Tail(evq)) /\ evq'[i] = Tail(evq)[i]
        /\ \A i \in DOMAIN evq' : i \in DOMAIN Tail(evq) \/ i = last
    BY <1>3, AppendElements, LenProperties
  <2>2. \A i \in DOMAIN Tail(evq) : i \in Nat /\ i + 1 \in DOMAIN evq /\ Tail(evq)[i] = evq[i + 1]
    BY <1>0, TailElements
  <2>3. QED
    BY <2>1, <2>2
<1>5. 1 \in DOMAIN evq /\ evq[1] = Head(evq)
  BY <1>0, TailElements
<1> HIDE DEF last
<1>6. ASSUME emf PROVE ~Pending(evq', Named("SET_MUSIC_VOL"))
  BY <1>2, <1>4, <1>6 DEF VolumeInv, Pending, Named
<1>7. CASE Head(evq).ev = "IDEV_INIT_OK" /\ e.ev = "IDEV_MEDIA_OPEN"
  <2>1. Pending(evq', Named("ODEV_INIT_OK"))
    <3>1. Pending(evq, Named("ODEV_INIT_OK"))
      BY <1>5, <1>7 DEF StartsOnce
    <3>2. Head(evq) \notin Named("ODEV_INIT_OK")
      BY <1>7 DEF Named
    <3>3. QED
      BY <1>0, <1>1, <1>2, <3>1, <3>2, InitStays
  <2>2. ASSUME ~emf, running PROVE OpensOnce'
    <3>1. OpensOnce
      BY <2>2 DEF VolumeInv
    <3>2. SUFFICES ASSUME NEW i \in DOMAIN evq', evq'[i].ev \in OdevOpens
                   PROVE  /\ "ODEV" \notin devStatus' /\ curVol' = NoVol
                          /\ \A j \in DOMAIN evq' : /\ evq'[j].ev \in OdevOpens => j = i
                                                    /\ evq'[j].ev # "SET_MUSIC_VOL"
      BY DEF OpensOnce
    <3>3. e.ev \notin OdevOpens /\ e.ev # "SET_MUSIC_VOL"
      BY <1>7 DEF OdevOpens
    <3>4. i \in Nat /\ i + 1 \in DOMAIN evq /\ evq[i + 1].ev \in OdevOpens
      BY <1>4, <3>2, <3>3
    <3>5. /\ "ODEV" \notin devStatus /\ curVol = NoVol
          /\ \A j \in DOMAIN evq : /\ evq[j].ev \in OdevOpens => j = i + 1
                                   /\ evq[j].ev # "SET_MUSIC_VOL"
      BY <3>1, <3>4 DEF OpensOnce
    <3>6. QED
      BY <1>0, <1>4, <3>3, <3>4, <3>5
  <2>3. QED
    BY <1>0, <1>6, <2>1, <2>2 DEF VolumeInv, StartsForgotten
<1>8. CASE Head(evq).ev = "ODEV_INIT_OK" /\ e.ev = "ODEV_MEDIA_OPEN"
  <2>1. ASSUME ~emf, running PROVE OpensOnce'
    <3>1. evq[1].ev \in OdevOpens /\ OpensOnce
      BY <1>5, <1>8, <2>1 DEF VolumeInv, OdevOpens
    <3>2. /\ "ODEV" \notin devStatus /\ curVol = NoVol
          /\ \A j \in DOMAIN evq : /\ evq[j].ev \in OdevOpens => j = 1
                                   /\ evq[j].ev # "SET_MUSIC_VOL"
      BY <1>5, <3>1 DEF OpensOnce
    <3>3. \A j \in DOMAIN evq' : /\ evq'[j].ev \in OdevOpens => j = last
                                 /\ evq'[j].ev # "SET_MUSIC_VOL"
      BY <1>4, <1>8, <3>2
    <3>4. QED
      BY <1>0, <3>2, <3>3 DEF OpensOnce
  <2>2. StartsForgotten'
    <3>1. SUFFICES ASSUME NEW i \in DOMAIN evq', evq'[i].ev = "IDEV_MEDIA_OPEN"
                   PROVE  last > i
      BY <1>4, <1>8 DEF StartsForgotten
    <3>2. i # last
      BY <1>4, <1>8, <3>1
    <3>3. last \in Nat
      BY <1>3, LenProperties DEF last
    <3>4. QED
      BY <1>4, <3>2, <3>3
  <2>3. QED
    BY <1>0, <1>6, <2>1, <2>2 DEF VolumeInv
<1>9. QED
  BY <1>1, <1>2, <1>7, <1>8

\* A start of the media forgets no volume: it finds none.
LEMMA VolumeTaken ==
    ASSUME AlwaysRun = FALSE, evq \in Seq(Event), devStatus \in SUBSET Both,
           tone \in BOOLEAN, VolumeInv, EventStep
    PROVE  VolumeInv'
<1> DEFINE e == Head(evq)
<1>0. /\ evq # <<>> /\ TakeAndPost(<<>>) /\ Dispatch /\ running
      /\ e.ev \notin {"IDEV_INIT_OK", "ODEV_INIT_OK"} /\ emf' = emf
      /\ tone' = (tone \/ e.ev \in ToneEvents)
      /\ curVol' = CurVolAfter(e) /\ decVol' = DecVolAfter(e)
  BY EventTakes DEF EventStep, srvVars
<1>1. /\ 1 \in DOMAIN evq /\ e = evq[1] /\ e \in Event
      /\ \A i \in DOMAIN evq :
            /\ i \in Nat /\ i >= 1
            /\ i # 1 => i - 1 \in DOMAIN evq' /\ evq'[i - 1] = evq[i]
      /\ \A i \in DOMAIN evq' : i \in Nat /\ i >= 1 /\ i + 1 \in DOMAIN evq /\ evq'[i] = evq[i + 1]
  <2>1. <<>> \in Seq(Event) /\ \A k \in DOMAIN <<>> : FALSE
    OBVIOUS
  <2>2. \A i \in DOMAIN evq' :
            \/ i \in Nat /\ i >= 1 /\ i + 1 \in DOMAIN evq /\ evq'[i] = evq[i + 1]
            \/ \E k \in DOMAIN <<>> : evq'[i] = <<>>[k]
    BY <1>0, <2>1, TakeElements
  <2>3. /\ 1 \in DOMAIN evq /\ e = evq[1] /\ e \in Event
        /\ \A i \in DOMAIN evq :
              /\ i \in Nat /\ i >= 1
              /\ i # 1 => i - 1 \in DOMAIN evq' /\ evq'[i - 1] = evq[i]
    BY <1>0, <2>1, TakeElements
  <2>4. QED
    BY <2>1, <2>2, <2>3
<1>2. /\ media' # media /\ media' # NoMedia => e.ev \in {"IDEV_MEDIA_OPEN", "ODEV_MEDIA_OPEN"}
      /\ e.ev \in {"IDEV_MEDIA_CLOSE", "ODEV_MEDIA_CLOSE"} => media' = NoMedia
      /\ "ODEV" \in devStatus' => "ODEV" \in devStatus \/ e.ev = "ODEV_MEDIA_OPEN"
  BY <1>0, DispatchMedia
<1> HIDE DEF e
<1>3. tone' \/ media' = NoMedia => decVol' = NoVol
  <2>1. e.ev \in ToneEvents \/ media' = NoMedia \/ tone => DecVolAfter(e) = NoVol
    BY DEF DecVolAfter
  <2>2. tone' => tone \/ e.ev \in ToneEvents
    BY <1>0
  <2>3. QED
    BY <1>0, <2>1, <2>2
<1>4. ASSUME ~tone, e.ev \in {"IDEV_MEDIA_OPEN", "ODEV_MEDIA_OPEN"} PROVE curVol = NoVol
  <2>1. CASE emf
    BY <2>1 DEF VolumeInv
  <2>2. CASE ~emf
    <3>1. OpensOnce /\ StartsForgotten
      BY <1>0, <2>2 DEF VolumeInv
    <3>2. \A i \in DOMAIN evq : evq[i].ev \in OdevOpens => curVol = NoVol
      BY <3>1 DEF OpensOnce
    <3>3. CASE e.ev = "ODEV_MEDIA_OPEN"
      BY <1>1, <3>2, <3>3 DEF OdevOpens
    <3>4. CASE e.ev = "IDEV_MEDIA_OPEN"
      <4>1. \/ curVol = NoVol
            \/ Pending(evq, Named("ODEV_INIT_OK"))
            \/ \E j \in DOMAIN evq : evq[j].ev = "ODEV_MEDIA_OPEN"
        <5>1. 1 \in DOMAIN evq /\ evq[1].ev = "IDEV_MEDIA_OPEN"
          BY <1>1, <3>4
        <5>2. \/ 1 > 1
              \/ tone \/ curVol = NoVol
              \/ Pending(evq, Named("ODEV_INIT_OK"))
              \/ \E j \in DOMAIN evq : j > 1 /\ evq[j].ev = "ODEV_MEDIA_OPEN"
          BY <3>1, <5>1 DEF StartsForgotten
        <5>3. QED
          BY <1>4, <5>2
      <4>2. QED
        BY <3>2, <4>1 DEF Pending, Named, OdevOpens
    <3>5. QED
      BY <1>4, <3>3, <3>4
  <2>3. QED
    BY <2>1, <2>2
<1>5. ~tone' /\ decVol' # NoVol => curVol' \in {NoVol, decVol'}
  <2>1. SUFFICES ASSUME ~tone', decVol' # NoVol PROVE curVol' \in {NoVol, decVol'}
    OBVIOUS
  <2>2. ~tone /\ e.ev \notin ToneEvents /\ media' # NoMedia
    BY <1>0, <1>3, <2>1
  <2>3. CASE media' # media
    <3>1. curVol = NoVol /\ e.ev \in {"IDEV_MEDIA_OPEN", "ODEV_MEDIA_OPEN"}
      BY <1>2, <1>4, <2>2, <2>3
    <3>2. QED
      BY <1>0, <3>1 DEF CurVolAfter, NewVolume
  <2>4. CASE media' = media
    <3>1. e.ev \notin {"IDEV_MEDIA_CLOSE", "ODEV_MEDIA_CLOSE"}
      BY <1>2, <2>2
    <3>2. decVol # NoVol
      BY <1>0, <2>1, <2>2, <2>4 DEF DecVolAfter
    <3>3. curVol \in {NoVol, decVol}
      BY <2>2, <3>2 DEF VolumeInv
    <3>4. CASE NewVolume(e)
      BY <1>0, <2>2, <2>4, <3>2, <3>4 DEF DecVolAfter, CurVolAfter
    <3>5. CASE ~NewVolume(e)
      BY <1>0, <2>2, <2>4, <3>1, <3>3, <3>5 DEF DecVolAfter, CurVolAfter
    <3>6. QED
      BY <3>4, <3>5
  <2>5. QED
    BY <2>3, <2>4
<1>6. ASSUME emf PROVE curVol' = NoVol /\ ~Pending(evq', Named("SET_MUSIC_VOL"))
  <2>1. curVol = NoVol /\ ~Pending(evq, Named("SET_MUSIC_VOL"))
    BY <1>6 DEF VolumeInv
  <2>2. ~Pending(evq', Named("SET_MUSIC_VOL"))
    BY <1>1, <2>1 DEF Pending
  <2>3. e.ev # "SET_MUSIC_VOL"
    BY <1>1, <2>1 DEF Pending, Named
  <2>4. QED
    BY <1>0, <2>1, <2>2, <2>3 DEF CurVolAfter, NewVolume
<1>7. ASSUME ~emf PROVE OpensOnce'
  <2>1. OpensOnce
    BY <1>0, <1>7 DEF VolumeInv
  <2>2. SUFFICES ASSUME NEW i \in DOMAIN evq', evq'[i].ev \in OdevOpens
                 PROVE  /\ "ODEV" \notin devStatus' /\ curVol' = NoVol
                        /\ \A j \in DOMAIN evq' : /\ evq'[j].ev \in OdevOpens => j = i
                                                  /\ evq'[j].ev # "SET_MUSIC_VOL"
    BY DEF OpensOnce
  <2>3. i \in Nat /\ i >= 1 /\ i + 1 \in DOMAIN evq /\ evq[i + 1].ev \in OdevOpens
    BY <1>1, <2>2
  <2>4. /\ "ODEV" \notin devStatus /\ curVol = NoVol
        /\ \A j \in DOMAIN evq : /\ evq[j].ev \in OdevOpens => j = i + 1
                                 /\ evq[j].ev # "SET_MUSIC_VOL"
    BY <2>1, <2>3 DEF OpensOnce
  <2>5. e.ev \notin OdevOpens /\ e.ev # "SET_MUSIC_VOL"
    BY <1>1, <2>3, <2>4
  <2>6. "ODEV" \notin devStatus'
    BY <1>2, <2>4, <2>5 DEF OdevOpens
  <2>7. curVol' = NoVol
    BY <1>0, <2>4, <2>5 DEF CurVolAfter, NewVolume
  <2>8. \A j \in DOMAIN evq' : /\ evq'[j].ev \in OdevOpens => j = i
                               /\ evq'[j].ev # "SET_MUSIC_VOL"
    BY <1>1, <2>3, <2>4
  <2>9. QED
    BY <2>6, <2>7, <2>8
<1>8. ASSUME ~emf PROVE StartsForgotten'
  <2>1. StartsForgotten
    BY <1>0, <1>8 DEF VolumeInv
  <2>2. SUFFICES ASSUME NEW i \in DOMAIN evq', evq'[i].ev = "IDEV_MEDIA_OPEN"
                 PROVE  \/ i > 1 /\ evq'[i - 1].ev = "CONNECT"
                        \/ i = 1 /\ (tone' \/ curVol' = NoVol)
                        \/ Pending(evq', Named("ODEV_INIT_OK"))
                        \/ \E j \in DOMAIN evq' : j > i /\ evq'[j].ev = "ODEV_MEDIA_OPEN"
    BY DEF StartsForgotten
  <2>3. i \in Nat /\ i >= 1 /\ i + 1 \in DOMAIN evq /\ evq[i + 1].ev = "IDEV_MEDIA_OPEN"
        /\ i + 1 # 1 /\ (i + 1) - 1 = i
    BY <1>1, <2>2
  <2>4. \/ evq[i].ev = "CONNECT"
        \/ Pending(evq, Named("ODEV_INIT_OK"))
        \/ \E j \in DOMAIN evq : j > i + 1 /\ evq[j].ev = "ODEV_MEDIA_OPEN"
    BY <2>1, <2>3 DEF StartsForgotten
  <2>5. CASE evq[i].ev = "CONNECT"
    <3>1. CASE i = 1
      <4>1. tone'
        BY <1>0, <1>1, <2>5, <3>1 DEF ToneEvents
      <4>2. QED
        BY <3>1, <4>1
    <3>2. CASE i # 1
      <4>1. i \in DOMAIN evq
        BY <2>3, LenProperties
      <4>2. evq'[i - 1] = evq[i] /\ i > 1
        BY <1>1, <2>3, <3>2, <4>1
      <4>3. QED
        BY <2>5, <4>2
    <3>3. QED
      BY <3>1, <3>2
  <2>6. CASE Pending(evq, Named("ODEV_INIT_OK"))
    <3>1. e \notin Named("ODEV_INIT_OK") /\ <<>> \in Seq(Event)
      BY <1>0 DEF Named
    <3>2. Pending(evq', Named("ODEV_INIT_OK"))
      BY <1>0, <2>6, <3>1, InitStays DEF e
    <3>3. QED
      BY <3>2
  <2>7. CASE \E j \in DOMAIN evq : j > i + 1 /\ evq[j].ev = "ODEV_MEDIA_OPEN"
    <3>1. PICK j \in DOMAIN evq : j > i + 1 /\ evq[j].ev = "ODEV_MEDIA_OPEN"
      BY <2>7
    <3>2. j \in Nat /\ j # 1 /\ j - 1 > i
      <4>1. j \in Nat /\ i \in Nat /\ j > i + 1
        BY <1>1, <2>3, <3>1
      <4>2. QED
        BY <4>1
    <3>3. j - 1 \in DOMAIN evq' /\ evq'[j - 1] = evq[j]
      BY <1>1, <3>1, <3>2
    <3>4. QED
      BY <3>1, <3>2, <3>3
  <2>8. QED
    BY <2>4, <2>5, <2>6, <2>7
<1>9. QED
  BY <1>0, <1>3, <1>5, <1>6, <1>7, <1>8 DEF VolumeInv

\* The volume remembered, and the one of the decoder, through every step.
LEMMA VolumeInvKept ==
    ASSUME AlwaysRun = FALSE, EarInv, VolumeInv, [EarNext]_earphoneVars
    PROVE  VolumeInv'
<1>0. /\ evq \in Seq(Event) /\ SrvVarsTyped /\ hostVol \in Vols /\ tone \in BOOLEAN
      /\ StartsOnce /\ devStatus \in SUBSET Both /\ MediaNeedsBoth /\ PlainNeverSelects
  BY IInvParts, SrvTyped DEF EarInv, ServerInv, EarVarsTyped, IInv, TypeOK
<1>1. ASSUME NEW es \in Posted, evq' = evq \o es,
             UNCHANGED <<emf, tone, media, curVol, decVol, devStatus, running>>,
             es = SelectEvs => emf,
             (\E v \in Vols : es = <<SetVolEv(v)>>) => ~emf /\ decVol # NoVol
      PROVE  VolumeInv'
  BY <1>0, <1>1, VolumePosted
<1>2. /\ evq \o <<>> = evq
      /\ \A v \in Vols : /\ <<SetVolEv(v)>> \notin {<<>>, ReadyEvs, EndEvs, SelectEvs}
                         /\ <<SetVolEv(v)>> # <<Ev("ODEV_MEDIA_CLOSE")>>
                         /\ <<SetVolEv(v)>> # <<Ev("MEDIA_DECODE_ERR")>>
                         /\ <<SetVolEv(v)>> # <<Ev("POWEROFF")>>
      /\ SelectEvs \notin {<<>>, ReadyEvs, EndEvs, <<Ev("ODEV_MEDIA_CLOSE")>>,
                           <<Ev("MEDIA_DECODE_ERR")>>, <<Ev("POWEROFF")>>}
  <2>1. evq \o <<>> = evq
    BY <1>0, ConcatEmptySeq
  <2>2. /\ Ev("ODEV_MEDIA_CLOSE").ev # "SET_MUSIC_VOL" /\ Ev("MEDIA_DECODE_ERR").ev # "SET_MUSIC_VOL"
        /\ Ev("POWEROFF").ev # "SET_MUSIC_VOL"
        /\ \A v : SetVolEv(v).ev = "SET_MUSIC_VOL"
    BY DEF Ev, SetVolEv
  <2>3. \A a, b : <<a>> = <<b>> => a = b
    OBVIOUS
  <2>4. /\ \A a : Len(<<a>>) = 1
        /\ Len(<<>>) = 0 /\ Len(ReadyEvs) = 2 /\ Len(EndEvs) = 2 /\ Len(SelectEvs) = 4
    BY DEF ReadyEvs, EndEvs, SelectEvs
  <2>5. \A v \in Vols : /\ <<SetVolEv(v)>> # <<Ev("ODEV_MEDIA_CLOSE")>>
                        /\ <<SetVolEv(v)>> # <<Ev("MEDIA_DECODE_ERR")>>
                        /\ <<SetVolEv(v)>> # <<Ev("POWEROFF")>>
    BY <2>2, <2>3
  <2>6. ASSUME NEW v \in Vols
        PROVE  <<SetVolEv(v)>> \notin {<<>>, ReadyEvs, EndEvs, SelectEvs}
    <3>1. Len(<<SetVolEv(v)>>) = 1
      BY <2>4
    <3>2. QED
      BY <2>4, <3>1
  <2>7. SelectEvs \notin {<<>>, ReadyEvs, EndEvs, <<Ev("ODEV_MEDIA_CLOSE")>>,
                         <<Ev("MEDIA_DECODE_ERR")>>, <<Ev("POWEROFF")>>}
    <3>1. /\ Len(<<Ev("ODEV_MEDIA_CLOSE")>>) = 1 /\ Len(<<Ev("MEDIA_DECODE_ERR")>>) = 1
          /\ Len(<<Ev("POWEROFF")>>) = 1
      BY <2>4
    <3>2. QED
      BY <2>4, <3>1
  <2>8. QED
    BY <2>1, <2>5, <2>6, <2>7
<1>3. <<>> \in Posted /\ ReadyEvs \in Posted /\ EndEvs \in Posted /\ SelectEvs \in Posted
      /\ <<Ev("MEDIA_DECODE_ERR")>> \in Posted /\ <<Ev("POWEROFF")>> \in Posted
      /\ \A v \in Vols : <<SetVolEv(v)>> \in Posted
  BY DEF Posted
<1>4. ASSUME evq' = evq, UNCHANGED <<emf, tone, media, curVol, decVol, devStatus, running>>
      PROVE  VolumeInv'
  BY <1>1, <1>2, <1>3, <1>4
<1>5. CASE DeviceStarts
  BY <1>0, <1>5, VolumeStarts
<1>6. CASE EventStep
  BY <1>0, <1>6, VolumeTaken
<1>7. CASE StopDevices
  <2>1. /\ evq' = evq \o <<Ev("ODEV_MEDIA_CLOSE")>>
        /\ UNCHANGED <<emf, tone, media, curVol, decVol, devStatus, running>>
    BY <1>7 DEF StopDevices, CallStop, Call, Post, proVars, volVars
  <2>2. <<Ev("ODEV_MEDIA_CLOSE")>> \in Posted
    BY DEF Posted
  <2>3. QED
    BY <1>1, <1>2, <2>1, <2>2
<1>8. CASE ToneEnd
  <2>1. /\ tone' = FALSE /\ curVol' = NoVol /\ decVol' = (IF media # NoMedia THEN DefaultVol ELSE NoVol)
        /\ UNCHANGED <<evq, media, devStatus, running, emf>>
    BY <1>8 DEF ToneEnd, vars, srvVars
  <2>2. OpensOnce => OpensOnce'
    BY <2>1 DEF OpensOnce
  <2>3. StartsForgotten => StartsForgotten'
    BY <2>1 DEF StartsForgotten, Pending
  <2>4. QED
    BY <2>1, <2>2, <2>3 DEF VolumeInv, Pending
<1>9. CASE CommandParse
  <2>1. /\ evq' = evq \o <<SetVolEv(hostVol)>> /\ ~emf /\ decVol # NoVol
        /\ UNCHANGED <<emf, tone, media, curVol, decVol, devStatus, running>>
    BY <1>9 DEF CommandParse, Post, proVars, srvVars, earVars, volVars
  <2>2. QED
    BY <1>0, <1>1, <1>2, <1>3, <2>1
<1>10. CASE StackStep
  <2>1. /\ PacketHandler
        /\ UNCHANGED <<emf, tone, media, curVol, decVol, devStatus, running>>
    BY <1>10 DEF StackStep, PacketHandler, proVars, volVars
  <2>2. evq' = evq \o ReadyEvs \/ evq' = evq \o EndEvs \/ evq' = evq
    BY <1>0, <2>1, StackPosts
  <2>3. QED
    BY <1>1, <1>2, <1>3, <1>4, <2>1, <2>2
<1>11. CASE CallerStep
  <2>1. CallDid /\ evq' = evq /\ UNCHANGED <<proVars, running, earVars>>
    BY <1>0, <1>11, CallStepDoes, CallsPostNothing DEF CallerStep
  <2>2. UNCHANGED <<emf, tone, media, curVol, decVol, devStatus, running>>
    BY <2>1, DidKinds DEF proVars, earVars, volVars
  <2>3. QED
    BY <1>4, <2>1, <2>2
<1>12. CASE SelectStep
  <2>1. SelectDone /\ UNCHANGED earVars
        /\ ((\E s \in Sels : SelectMedia(s)) \/ UNCHANGED vars)
    BY <1>12 DEF SelectStep, SelectDone
  <2>2. UNCHANGED <<emf, tone, curVol, decVol>>
    BY <2>1 DEF SelectDone, earVars, volVars
  <2>3. CASE UNCHANGED vars
    BY <1>4, <2>2, <2>3 DEF vars
  <2>4. CASE \E s \in Sels : SelectMedia(s)
    <3>1. evq' = evq \o SelectEvs /\ UNCHANGED <<media, devStatus, running>>
      BY <2>4 DEF SelectMedia, Post, SelectEvs, proVars
    <3>2. emf
      <4>1. 1 \in DOMAIN todo /\ todo[1] \in {"selectRadio", "selectUsb"}
        BY <1>0, <2>1, TailElements DEF SelectDone, Step, SrvVarsTyped
      <4>2. QED
        BY <1>0, <4>1 DEF PlainNeverSelects, Pending
    <3>3. QED
      BY <1>1, <1>2, <1>3, <2>2, <3>1, <3>2
  <2>5. QED
    BY <2>1, <2>3, <2>4
<1>13. CASE RadioStep \/ LinkLossMove
  <2>1. Radio /\ UNCHANGED <<proVars, running, earVars>>
    BY <1>13 DEF RadioStep, LinkLossMove, Radio
  <2>2. evq' = evq /\ emf' = emf
    BY <2>1 DEF Radio, CtrlConnect, PeerSettles, CtrlLinkLoss
  <2>3. UNCHANGED <<tone, media, curVol, decVol, devStatus, running>>
    BY <2>1 DEF earVars, volVars, proVars
  <2>4. QED
    BY <1>4, <2>2, <2>3
<1>14. CASE UserMove
  <2>1. CallBegins /\ UNCHANGED <<vars, earVars>>
    BY <1>14 DEF UserMove, CallBegins
  <2>2. emf' = emf
    BY <1>0, <2>1, CallBeginsSteps DEF Begun
  <2>3. evq' = evq /\ UNCHANGED <<tone, media, curVol, decVol, devStatus, running>>
    BY <2>1 DEF vars, earVars, volVars
  <2>4. QED
    BY <1>4, <2>2, <2>3
<1>15. CASE DecoderMove \/ PowerOffMove
  <2>1. /\ evq' = evq \o <<Ev("MEDIA_DECODE_ERR")>> \/ evq' = evq \o <<Ev("POWEROFF")>>
        /\ UNCHANGED <<proVars, running, srvVars, earVars>>
    BY <1>15 DEF DecoderMove, DecodeError, PowerOffMove, Notify, Post
  <2>2. UNCHANGED <<emf, tone, media, curVol, decVol, devStatus, running>>
    BY <2>1 DEF proVars, srvVars, earVars, volVars
  <2>3. QED
    BY <1>1, <1>2, <1>3, <2>1, <2>2
<1>16. CASE VolumeMove \/ UNCHANGED earphoneVars
  <2>1. UNCHANGED <<vars, srvVars, tone, curVol, decVol>>
    BY <1>16 DEF VolumeMove, earphoneVars, earVars, volVars
  <2>2. evq' = evq /\ UNCHANGED <<emf, tone, media, curVol, decVol, devStatus, running>>
    BY <2>1 DEF vars, srvVars
  <2>3. QED
    BY <1>4, <2>2
<1>17. QED
  BY <1>5, <1>6, <1>7, <1>8, <1>9, <1>10, <1>11, <1>12, <1>13, <1>14, <1>15, <1>16
     DEF EarNext, Firmware, Environment

\* The earphone begins without a volume.
LEMMA VolumeBegins ==
    ASSUME EarInit
    PROVE  VolumeInv
<1>1. /\ tone = FALSE /\ decVol = NoVol /\ curVol = NoVol /\ devStatus = {}
      /\ evq = <<Ev("IDEV_INIT_OK"), Ev("ODEV_INIT_OK")>>
  BY DEF EarInit, ProInit
<1>2. /\ DOMAIN evq = {1, 2} /\ evq[1].ev = "IDEV_INIT_OK" /\ evq[2].ev = "ODEV_INIT_OK"
  BY <1>1 DEF Ev
<1>3. OpensOnce
  BY <1>1, <1>2 DEF OpensOnce, OdevOpens
<1>4. StartsForgotten
  BY <1>2 DEF StartsForgotten
<1>5. ~Pending(evq, Named("SET_MUSIC_VOL"))
  BY <1>2 DEF Pending, Named
<1>6. QED
  BY <1>1, <1>3, <1>4, <1>5 DEF VolumeInv

\* In every build of the repository, once the tasks are quiet, the volume that
\* duplex_earphone.c remembers in cur_music_vol is the one its decoder plays at, or
\* none, so that no command the dongle repeats is ignored wrongly.
THEOREM VolumeAlwaysKept ==
    ASSUME AlwaysRun = FALSE
    PROVE  EarSpec => []VolumeKept
<1>1. EarInit => EarInv /\ VolumeInv
  BY EarBegins, VolumeBegins
<1>2. EarInv /\ VolumeInv /\ [EarNext]_earphoneVars => (EarInv /\ VolumeInv)'
  BY EarKept, VolumeInvKept
<1>3. EarInv /\ VolumeInv => VolumeKept
  BY DEF VolumeInv, VolumeKept, Quiet
<1>4. QED
  BY <1>1, <1>2, <1>3, PTL DEF EarSpec
===============================================================================
