---------------------------- MODULE MCMossVoice ----------------------------
(***************************************************************************)
(* Instances of MossVoice for TLC.                                         *)
(***************************************************************************)
EXTENDS MossVoice

\* Files and synthesizer meet only where the speaker gets ready, and no
\* property speaks of both.  So no state of either is lost when the other
\* tabs' preparations are explored only while no request has been made.
OneAtATime ==
    \/ \A r \in Requests : job[r].pc = "none"
    \/ crashes = 0 /\ \A t \in Tabs \ {Speaker} : prep[t] = "idle"
=============================================================================
