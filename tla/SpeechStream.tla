---------------------------- MODULE SpeechStream ----------------------------
(***************************************************************************)
(* What a speech request promises the page that plays it, whichever        *)
(* browser-local voice answers it.  The voice makes numbered pieces of     *)
(* audio; the page gets them in the order they were made, each once, until *)
(* the stream ends; and a stream that ends without an error has handed     *)
(* over every piece there is.  A stream that was stopped, or that ran over *)
(* its limit, ends with an error and hands over nothing more, although the *)
(* voice may go on making pieces for a while.                              *)
(***************************************************************************)
EXTENDS Naturals, Sequences

CONSTANT Requests

VARIABLES
    made,   \* [Requests -> Nat]: pieces of audio the voice has made
    got,    \* [Requests -> Seq(Nat)]: pieces the page has accepted, in order
    end     \* [Requests -> {"none", "open", "ok", "error"}]

vars == <<made, got, end>>

Init ==
    /\ made = [r \in Requests |-> 0]
    /\ got = [r \in Requests |-> <<>>]
    /\ end = [r \in Requests |-> "none"]

Open(r) ==
    /\ end[r] = "none"
    /\ end' = [end EXCEPT ![r] = "open"]
    /\ UNCHANGED <<made, got>>

Make(r) ==
    /\ end[r] \in {"open", "error"}
    /\ made' = [made EXCEPT ![r] = @ + 1]
    /\ UNCHANGED <<got, end>>

Deliver(r) ==
    /\ end[r] = "open"
    /\ Len(got[r]) < made[r]
    /\ got' = [got EXCEPT ![r] = Append(@, Len(@) + 1)]
    /\ UNCHANGED <<made, end>>

Finish(r) ==
    /\ end[r] = "open"
    /\ Len(got[r]) = made[r]
    /\ end' = [end EXCEPT ![r] = "ok"]
    /\ UNCHANGED <<made, got>>

\* One call of stopVoicePlayback may end several streams at once.
Fail(S) ==
    /\ S # {}
    /\ \A r \in S : end[r] = "open"
    /\ end' = [r \in Requests |-> IF r \in S THEN "error" ELSE end[r]]
    /\ UNCHANGED <<made, got>>

Next ==
    \/ \E r \in Requests : Open(r) \/ Make(r) \/ Deliver(r) \/ Finish(r)
    \/ \E S \in SUBSET Requests : Fail(S)

Spec == Init /\ [][Next]_vars
=============================================================================
