----------------------------- MODULE MediaSession -----------------------------
(***************************************************************************)
(* What adapter_process.c promises: a media session between an input and   *)
(* an output device.  A session can begin only in the step in which the    *)
(* second device opens; it ends when a device closes or when it is         *)
(* interrupted, and then it does not begin again before a device has       *)
(* closed and opened.  Nothing is said of events, queues or modes.         *)
(***************************************************************************)
CONSTANTS Media, NoMedia

VARIABLES
    inOpen, outOpen,    \* the devices the session believes to be open
    playing             \* the media that plays, or NoMedia

sessionVars == <<inOpen, outOpen, playing>>

Init == inOpen = FALSE /\ outOpen = FALSE /\ playing = NoMedia

\* A device that was closed opens; when none is closed any more the session
\* may begin (it does not when the selected media does not exist).
Open ==
    /\ ~(inOpen /\ outOpen)
    /\ inOpen' \in BOOLEAN /\ outOpen' \in BOOLEAN
    /\ inOpen => inOpen'
    /\ outOpen => outOpen'
    /\ \/ playing' = NoMedia
       \/ inOpen' /\ outOpen' /\ playing' \in Media

\* A device closes.
Shut ==
    /\ inOpen' \in BOOLEAN /\ outOpen' \in BOOLEAN
    /\ inOpen' => inOpen
    /\ outOpen' => outOpen
    /\ ~(inOpen' /\ outOpen')
    /\ playing' = NoMedia

\* A decoder fails, or the application leaves.
Interrupt ==
    /\ playing' = NoMedia
    /\ UNCHANGED <<inOpen, outOpen>>

Next == Open \/ Shut \/ Interrupt

Spec == Init /\ [][Next]_sessionVars
===============================================================================
