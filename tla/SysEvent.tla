------------------------------- MODULE SysEvent -------------------------------
(***************************************************************************)
(* The system event queue every task of the firmware posts to and the      *)
(* application task (app_core) drains, one event at a time, in order.      *)
(*                                                                         *)
(* An event is a record: its source and code in one name, and its value.   *)
(* The queue itself belongs to the operating system (sys_event_notify and  *)
(* app_task_get_msg, a library); what this module states is how the code   *)
(* of src/ uses it: first in, first out, nothing lost.  QMax bounds the    *)
(* queue: a task that would overflow it is held back, never dropped.       *)
(***************************************************************************)
EXTENDS Naturals, Sequences

CONSTANTS
    QMax,       \* bound: events waiting for the application task
    AlwaysRun,  \* ALWAYS_RUN_STREAM: the media, once open, is never closed
    Modes       \* the media modes an IDEV_MEDIA_OPEN may carry (a u8)

ASSUME QMaxAssumption == QMax \in Nat \ {0}
ASSUME AlwaysRunAssumption == AlwaysRun \in BOOLEAN
ASSUME ModesAssumption == Modes \subseteq 0..254 /\ 0 \in Modes

VARIABLE evq    \* the events posted and not yet taken

\* adapter_process.h: the events adapter_process_event_notify posts ...
AdapterEvents ==
    {"IDEV_INIT_OK", "IDEV_MEDIA_OPEN", "IDEV_MEDIA_CLOSE",
     "ODEV_INIT_OK", "ODEV_MEDIA_OPEN", "ODEV_MEDIA_CLOSE",
     "MEDIA_DECODE_ERR", "MEDIA_CLOSE", "POWEROFF", "CONNECT", "DISCONN"}

\* ... and the ones the USB audio class driver posts.
UacEvents == {"PLAY_OPEN", "PLAY_CLOSE", "MIC_OPEN", "MIC_CLOSE"}

\* adapter_process_event_notify(event, value): only an IDEV_MEDIA_OPEN has a
\* value somebody reads, the media mode, and a SET_MUSIC_VOL, the volume.
Ev(name) == [ev |-> name, val |-> 0]
OpenIdevEv(m) == [ev |-> "IDEV_MEDIA_OPEN", val |-> m]
SetVolEv(v) == [ev |-> "SET_MUSIC_VOL", val |-> v]

AdapterEvent == {Ev(n) : n \in AdapterEvents} \cup {OpenIdevEv(m) : m \in Modes}
UacEvent == {Ev(n) : n \in UacEvents}
SetVolEvent == [ev : {"SET_MUSIC_VOL"}, val : Nat]
Event == AdapterEvent \cup UacEvent \cup SetVolEvent

\* A task other than app_core posts the events es, in order.
Post(es) == /\ Len(evq) + Len(es) <= QMax
            /\ evq' = evq \o es

\* app_core takes the oldest event and, handling it, posts es.
TakeAndPost(es) == /\ Len(evq) + Len(es) <= QMax + 1
                   /\ evq' = Tail(evq) \o es
===============================================================================
