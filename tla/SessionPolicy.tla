---------------------------- MODULE SessionPolicy ----------------------------
(***************************************************************************)
(* What the orchestrator promises about who may talk to the device: a      *)
(* conversation needs a verification that has seen the owner, a guard      *)
(* session needs a verification that has failed and an alert, the          *)
(* microphone is silenced for all of it, and only a new verification leads *)
(* from any of them to another.                                            *)
(*                                                                         *)
(* The roles that README.md gives to the states of orchestrator_fsm.c.     *)
(***************************************************************************)

VARIABLES
    phase,      \* "idle", "verify", "alarm", "guard" or "talk"
    seen,       \* the owner has been seen since the last boot
    silenced    \* the microphone feeds silence

pvars == <<phase, seen, silenced>>

PolicyInit == phase = "idle" /\ seen = FALSE /\ silenced = FALSE

Verify == phase = "idle" /\ phase' = "verify" /\ UNCHANGED <<seen, silenced>>

\* The owner's phone answers; the verification goes on to look for devices.
Recognise == /\ phase = "verify" /\ seen' = TRUE /\ silenced' = FALSE
             /\ UNCHANGED phase

Talk == phase = "verify" /\ seen /\ phase' = "talk" /\ UNCHANGED <<seen, silenced>>

Alarm == /\ phase = "verify" /\ phase' = "alarm" /\ silenced' = TRUE
         /\ UNCHANGED seen

Guard == /\ phase = "alarm" /\ silenced /\ phase' = "guard"
         /\ UNCHANGED <<seen, silenced>>

\* Losses, errors and time-outs lead back to idle; the silence may outlive
\* the session (WAIT_WIFI keeps it) or end in idle.
Quit == /\ phase' = "idle" /\ silenced' \in {silenced, FALSE}
        /\ UNCHANGED seen

Reset == phase' = "idle" /\ seen' = FALSE /\ silenced' = FALSE

PolicyNext == Verify \/ Recognise \/ Talk \/ Alarm \/ Guard \/ Quit \/ Reset

PolicySpec == PolicyInit /\ [][PolicyNext]_pvars
=============================================================================
