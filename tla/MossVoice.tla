------------------------------ MODULE MossVoice ------------------------------
(***************************************************************************)
(* The MOSS voice as a whole: tabs that prepare it from the files they     *)
(* share (ModelStore), and the synthesizer of one of them (MossRuntime),   *)
(* which gets requests once that tab is ready (browserTtsSynthesize awaits *)
(* prepareBrowserTtsModel).                                                *)
(***************************************************************************)
EXTENDS Naturals, Sequences

CONSTANTS
    NFiles, Tabs, MaxCrashes,
    Speaker,        \* the tab whose synthesizer is modelled
    Requests, MaxChunks, MaxFrames

ASSUME MossAssumption ==
    /\ NFiles \in Nat \ {0} /\ MaxCrashes \in Nat
    /\ Speaker \in Tabs
    /\ Requests \subseteq Nat /\ MaxChunks \in Nat \ {0} /\ MaxFrames \in Nat

VARIABLES
    file, prep, at, crashes,
    job, tokenizer, past, local, codec, skipped, mixed, blurred, crowd

storeVars == <<file, prep, at, crashes>>
runtimeVars ==
    <<job, tokenizer, past, local, codec, skipped, mixed, blurred, crowd>>
vars == <<storeVars, runtimeVars>>

Store == INSTANCE ModelStore
Runtime == INSTANCE MossRuntime

\* Every variable holds a value of its kind.
TypeOK == Store!TypeOK /\ Runtime!TypeOK

Init == Store!Init /\ Runtime!Init

Next ==
    \/ Store!Next /\ UNCHANGED runtimeVars
    \/ prep[Speaker] = "ready" /\ Runtime!Next /\ UNCHANGED storeVars

Spec == Init /\ [][Next]_vars

-----------------------------------------------------------------------------
(* Properties. *)

\* Whatever downloads fail, tabs die or download at the same time: when every
\* file is there, so that no further download is made, all but the last one
\* have their content (hasCompleteExternalModelSet, writeResponseToFile).
\* The last one may be empty, and then no preparation succeeds any more.
BrokenOnlyAtLast ==
    (\A f \in 1 .. NFiles : file[f] # "absent")
        => \A f \in 1 .. NFiles - 1 : file[f] = "good"

\* The frames of a request come from nothing but its own text and frames, as
\* long as it meets no other request but cancelled ones: those may still be
\* awaiting the tokenizer, or a turn of the event loop in the middle of a
\* frame (generateAudioFrames, updateDecodePastFeeds, resetLocalCachedState).
\* Its audio is decoded from nothing but its own frames when it meets no
\* other request at all, whatever the ones before it left in the codec
\* session (codecStreamingSession.reset).
OwnSpeech ==
    \A r \in Requests :
        /\ r \in mixed => crowd[r] = "shared"
        /\ r \in blurred => crowd[r] # "alone"

\* Every frame of a request is decoded once and in order: nothing is pending
\* when a text chunk is over, unless the request was cancelled
\* (decodePendingFrames).
WholeSpeech ==
    /\ TypeOK
    /\ \A r \in Requests :
        /\ job[r].pc \in {"pause", "between", "over"} => job[r].pending = 0
        /\ r \notin skipped

\* A request that has been cancelled computes no further frame, wherever the
\* cancel met it (generateAudioFrames).
StopsPromptly ==
    [][\A r \in Requests :
          job[r].cancelled => job'[r].frames <= job[r].frames]_vars

\* "Verifying the browser-local model files": a set of files is taken as
\* complete only if every file has its content (prepareBrowserTtsModel).
CompleteMeansWhole ==
    \A t \in Tabs :
        prep[t] = "load" => \A f \in 1 .. NFiles : file[f] = "good"
=============================================================================
