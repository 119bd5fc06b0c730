---------------------------- MODULE BrowserSpeech ----------------------------
(***************************************************************************)
(* The browser-local voices: the page (src/assets/app.html) asks an iframe *)
(* (MOSS, moss/browser_onnx_host.js) or a worker (Kitten,                  *)
(* kitten/worker.js) for speech and collects the audio in a stream.  Page  *)
(* and voice share nothing; they post messages, which arrive in order and  *)
(* are handled one at a time.                                              *)
(*                                                                         *)
(* MOSS sends a piece of audio and waits for the page's ack before it goes *)
(* on; a refused piece cancels the request, and every request is answered  *)
(* by a response, a cancelled one by a successful one.  Kitten sends its   *)
(* pieces without waiting, ends with "done" or "error", and says nothing   *)
(* about a cancelled request.                                              *)
(*                                                                         *)
(* Messages that the page's handler ignores ("started", "prepared-text",   *)
(* the answer to a cancel) and progress texts are left out.  Audio is      *)
(* counted in pieces: limit[r] is how many the page takes for the text of  *)
(* request r (maxSamples), WorkerLimit how many Kitten's worker sends      *)
(* (MAX_AUDIO_SECONDS).  MaxPieces bounds what a synthesis makes.          *)
(***************************************************************************)
EXTENDS Naturals, Sequences, FiniteSets

CONSTANTS
    Requests,       \* request ids, a set of numbers: later ones are larger
    Kinds,          \* the voices: a subset of {"moss", "kitten"}
    Limits,         \* the limits a text may have at the page
    WorkerLimit,
    MaxPieces

ASSUME SpeechAssumption ==
    /\ Requests \subseteq Nat
    /\ Kinds \subseteq {"moss", "kitten"}
    /\ Limits \subseteq Nat
    /\ WorkerLimit \in Nat
    /\ MaxPieces \in Nat

VARIABLES
    kind,       \* host.kind
    \* the page
    streams,    \* host.streams and browserTtsActiveStreams: live streams
    end,        \* stream.done and stream.error
    cancelled,  \* stream.cancelled
    limit,      \* stream.maxSamples
    got,        \* stream.chunks, the ones the player has taken included
    pending,    \* host.pending: promises of requests not yet answered
    \* the voice
    job,        \* activeSynthesisRequests / activeRequests
    made,       \* pieces posted so far
    \* the messages under way
    toHost, toPage

pageVars == <<streams, end, cancelled, limit, got, pending>>
hostVars == <<job, made>>
vars == <<kind, streams, end, cancelled, limit, got, pending, job, made,
          toHost, toPage>>

Msg(type, r, n, ok) == [type |-> type, req |-> r, piece |-> n, ok |-> ok]

Messages ==
    [type : {"synthesize", "chunk-ack", "cancel", "audio-chunk", "audio",
             "done", "error", "response"},
     req : Requests, piece : 0 .. MaxPieces, ok : BOOLEAN]

\* A job is not there, runs, waits for the ack of its last piece, or is gone.
Jobs == [pc : {"none", "run", "ack", "gone"}, cancelled : BOOLEAN]

\* Every variable holds a value of its kind.
TypeOK ==
    /\ kind \in Kinds
    /\ streams \subseteq Requests
    /\ end \in [Requests -> {"none", "open", "ok", "error"}]
    /\ cancelled \in [Requests -> BOOLEAN]
    /\ limit \in [Requests -> Nat]
    /\ got \in [Requests -> Seq(Nat)]
    /\ pending \subseteq Requests
    /\ job \in [Requests -> Jobs]
    /\ made \in [Requests -> 0 .. MaxPieces]
    /\ toHost \in Seq(Messages)
    /\ toPage \in Seq(Messages)

Init ==
    /\ kind \in Kinds
    /\ streams = {}
    /\ end = [r \in Requests |-> "none"]
    /\ cancelled = [r \in Requests |-> FALSE]
    /\ limit = [r \in Requests |-> 0]
    /\ got = [r \in Requests |-> <<>>]
    /\ pending = {}
    /\ job = [r \in Requests |-> [pc |-> "none", cancelled |-> FALSE]]
    /\ made = [r \in Requests |-> 0]
    /\ toHost = <<>>
    /\ toPage = <<>>

-----------------------------------------------------------------------------
(* The page. *)

\* browserTtsSynthesize, once the model is ready: register the stream, post
\* the request.  MOSS's is a promise that the response settles.
Synthesize(r) ==
    /\ end[r] = "none"
    /\ \A q \in Requests : q < r => end[q] # "none"
    /\ \E n \in Limits : limit' = [limit EXCEPT ![r] = n]
    /\ end' = [end EXCEPT ![r] = "open"]
    /\ streams' = streams \cup {r}
    /\ pending' = IF kind = "moss" THEN pending \cup {r} ELSE pending
    /\ toHost' = Append(toHost, Msg("synthesize", r, 0, TRUE))
    /\ UNCHANGED <<kind, cancelled, got, job, made, toPage>>

\* stopVoicePlayback: every active stream is marked, its cancel posted, and
\* the stream ended with an error, in the order the streams were added, which
\* is the order of their numbers.
Stop ==
    /\ streams # {}
    /\ cancelled' = [r \in Requests |-> cancelled[r] \/ r \in streams]
    /\ end' = [r \in Requests |-> IF r \in streams THEN "error" ELSE end[r]]
    /\ streams' = {}
    /\ \E stopped \in [1 .. Cardinality(streams) -> streams] :
          /\ \A i, j \in DOMAIN stopped : i < j => stopped[i] < stopped[j]
          /\ toHost' = toHost \o [i \in DOMAIN stopped |-> Msg("cancel", stopped[i], 0, TRUE)]
    /\ UNCHANGED <<kind, limit, got, pending, job, made, toPage>>

\* browserTtsFinishStream: the first end counts, later ones find no stream.
FinishStream(r, how) ==
    /\ end' = IF r \in streams THEN [end EXCEPT ![r] = how] ELSE end
    /\ streams' = streams \ {r}

\* Mutant of EndOverlong: the stream is left open.
EndOverlong_not(r) == UNCHANGED <<end, streams>>

EndOverlong(r) == FinishStream(r, "error")

\* A piece of audio: taken, or the stream ended because it is one too many.
TakeAudio(m) ==
    LET r == m.req
        over == Len(got[r]) + 1 > limit[r]
    IN  IF r \notin streams
        THEN UNCHANGED <<streams, end, cancelled, got>>
        ELSE IF over
        THEN /\ EndOverlong(r)
             /\ cancelled' = [cancelled EXCEPT ![r] = @ \/ m.type = "audio-chunk"]
             /\ UNCHANGED got
        ELSE /\ got' = [got EXCEPT ![r] = Append(@, m.piece)]
             /\ UNCHANGED <<streams, end, cancelled>>

\* Mutant of ChunkAck: a piece nobody wants gets no answer.
ChunkAck_if_wanted(m, accepted) ==
    IF accepted THEN Append(toHost, Msg("chunk-ack", m.req, m.piece, TRUE)) ELSE toHost

ChunkAck(m, accepted) ==
    Append(toHost, Msg("chunk-ack", m.req, m.piece, accepted))

\* browserTtsHandleMessage, "audio-chunk": answered whether or not there is
\* still a stream to put it in.
OnAudioChunk(m) ==
    /\ m.type = "audio-chunk"
    /\ TakeAudio(m)
    /\ toHost' = ChunkAck(m, m.req \in streams /\ ~cancelled'[m.req])
    /\ UNCHANGED pending

OnAudio(m) ==
    /\ m.type = "audio"
    /\ TakeAudio(m)
    /\ UNCHANGED <<pending, toHost>>

OnDone(m) ==
    /\ m.type \in {"done", "error"}
    /\ FinishStream(m.req, IF m.type = "done" THEN "ok" ELSE "error")
    /\ UNCHANGED <<cancelled, got, pending, toHost>>

\* The response settles the promise of browserTtsRequest, whose handlers end
\* the stream before the page handles another message.
OnResponse(m) ==
    /\ m.type = "response"
    /\ pending' = pending \ {m.req}
    /\ IF m.req \in pending
       THEN FinishStream(m.req, IF m.ok THEN "ok" ELSE "error")
       ELSE UNCHANGED <<streams, end>>
    /\ UNCHANGED <<cancelled, got, toHost>>

PageReceive ==
    /\ toPage # <<>>
    /\ LET m == Head(toPage)
       IN  OnAudioChunk(m) \/ OnAudio(m) \/ OnDone(m) \/ OnResponse(m)
    /\ toPage' = Tail(toPage)
    /\ UNCHANGED <<kind, limit, job, made>>

-----------------------------------------------------------------------------
(* The voice: messages it handles. *)

\* The end of handleSynthesize: the response, and the request is forgotten.
Respond(r, ok) ==
    /\ job' = [job EXCEPT ![r].pc = "gone"]
    /\ toPage' = Append(toPage, Msg("response", r, 0, ok))

\* handleSynthesize registers the request.  Kitten's synthesize refuses an
\* empty or overlong text before it registers anything.
OnSynthesize(m) ==
    /\ m.type = "synthesize"
    /\ \/ /\ job' = [job EXCEPT ![m.req].pc = "run"]
          /\ UNCHANGED toPage
       \/ /\ kind = "kitten"
          /\ job' = [job EXCEPT ![m.req].pc = "gone"]
          /\ toPage' = Append(toPage, Msg("error", m.req, 0, FALSE))

\* postAudioChunkAndWaitAck goes on: an accepted piece lets the synthesis
\* run, a refused one cancels it, which unwinds to the response.
OnChunkAck(m) ==
    /\ m.type = "chunk-ack"
    /\ LET waiting == job[m.req].pc = "ack" /\ made[m.req] = m.piece
       IN  IF ~waiting
           THEN UNCHANGED <<job, toPage>>
           ELSE IF m.ok
           THEN /\ job' = [job EXCEPT ![m.req].pc = "run"]
                /\ UNCHANGED toPage
           ELSE Respond(m.req, TRUE)

\* cancelActiveRequest: the flag is set, and a synthesis that waits for an
\* ack is told "refused".  Kitten's worker only sets the flag.
OnCancel(m) ==
    /\ m.type = "cancel"
    /\ IF job[m.req].pc \notin {"run", "ack"}
       THEN UNCHANGED <<job, toPage>>
       ELSE IF job[m.req].pc = "ack"
       THEN Respond(m.req, TRUE)
       ELSE /\ job' = [job EXCEPT ![m.req].cancelled = TRUE]
            /\ UNCHANGED toPage

HostReceive ==
    /\ toHost # <<>>
    /\ LET m == Head(toHost)
       IN  OnSynthesize(m) \/ OnChunkAck(m) \/ OnCancel(m)
    /\ toHost' = Tail(toHost)
    /\ UNCHANGED <<kind, made>> /\ UNCHANGED pageVars

-----------------------------------------------------------------------------
(* The voice: its syntheses, which interleave with the messages wherever   *)
(* they await.                                                             *)

\* The pieces of a request are numbered from 1.
NextPiece(r) == made[r] + 1

\* Mutant of AwaitAck: the voice goes on without the ack.
AwaitAck_not(r) == job

AwaitAck(r) == [job EXCEPT ![r].pc = "ack"]

\* The next piece of a MOSS synthesis is posted; the ack is awaited.
MossPiece(r) ==
    /\ kind = "moss" /\ job[r].pc = "run" /\ ~job[r].cancelled
    /\ made[r] < MaxPieces
    /\ made' = [made EXCEPT ![r] = NextPiece(r)]
    /\ job' = AwaitAck(r)
    /\ toPage' = Append(toPage, Msg("audio-chunk", r, NextPiece(r), TRUE))

\* synthesizeVoiceClone returns, fails, or notices that it is cancelled; a
\* cancelled one is answered as a success in every case.
MossEnd(r) ==
    /\ kind = "moss" /\ job[r].pc = "run"
    /\ \E ok \in BOOLEAN : Respond(r, ok \/ job[r].cancelled)
    /\ UNCHANGED made

WorkerRefuses(r) == Append(toPage, Msg("error", r, 0, FALSE))

\* The next piece of a Kitten synthesis, unless it would go over the limit.
KittenPiece(r) ==
    /\ kind = "kitten" /\ job[r].pc = "run" /\ ~job[r].cancelled
    /\ made[r] < MaxPieces
    /\ IF made[r] + 1 > WorkerLimit
       THEN /\ job' = [job EXCEPT ![r].pc = "gone"]
            /\ toPage' = WorkerRefuses(r)
            /\ UNCHANGED made
       ELSE /\ made' = [made EXCEPT ![r] = @ + 1]
            /\ toPage' = Append(toPage, Msg("audio", r, made[r] + 1, TRUE))
            /\ UNCHANGED job

\* A Kitten synthesis ends; a cancelled one that did not fail says nothing.
KittenEnd(r) ==
    /\ kind = "kitten" /\ job[r].pc = "run"
    /\ job' = [job EXCEPT ![r].pc = "gone"]
    /\ \/ toPage' = IF job[r].cancelled THEN toPage
                    ELSE Append(toPage, Msg("done", r, 0, TRUE))
       \/ toPage' = Append(toPage, Msg("error", r, 0, FALSE))
    /\ UNCHANGED made

Run(r) ==
    /\ MossPiece(r) \/ MossEnd(r) \/ KittenPiece(r) \/ KittenEnd(r)
    /\ UNCHANGED <<kind, toHost>> /\ UNCHANGED pageVars

Next ==
    \/ \E r \in Requests : Synthesize(r) \/ Run(r)
    \/ Stop
    \/ PageReceive
    \/ HostReceive

\* Posted messages are delivered and a running synthesis goes on; nobody has
\* to ask for speech, or to stop it.
Fairness ==
    /\ WF_vars(PageReceive)
    /\ WF_vars(HostReceive)
    /\ \A r \in Requests : WF_vars(Run(r))

Spec == Init /\ [][Next]_vars /\ Fairness

-----------------------------------------------------------------------------
(* Properties. *)

\* The page's streams keep the promise of SpeechStream for both voices,
\* although MOSS reports a cancelled request as a success, Kitten reports it
\* not at all, and pieces and answers of ended streams still arrive
\* (browserTtsHandleMessage, postAudioChunkAndWaitAck, synthesize).
Promise == INSTANCE SpeechStream WITH made <- made, got <- got, end <- end
KeepsPromise == Promise!Spec

\* MOSS never has more than one piece of a request under way, so a slow page
\* holds the voice back (postAudioChunkAndWaitAck): the pieces of a request
\* that are on their way and the acks on their way back are at most one.
OneUnderWay ==
    /\ TypeOK
    /\ kind = "moss" =>
         \A r \in Requests :
            Cardinality({i \in DOMAIN toPage :
                            toPage[i].type = "audio-chunk" /\ toPage[i].req = r})
          + Cardinality({i \in DOMAIN toHost :
                            toHost[i].type = "chunk-ack" /\ toHost[i].req = r})
            <= 1

\* Every stream that is opened ends, whatever is stopped, refused or over
\* its limit meanwhile: the pump of a spoken reply awaits stream.finished.
\* The voice forgets every request it was given and the page every promise,
\* also of streams the page gave up on: no ack is awaited for ever.
StreamsEnd ==
    \A r \in Requests :
        end[r] = "open" ~>
            /\ end[r] \in {"ok", "error"}
            /\ job[r].pc = "gone"
            /\ r \notin pending
=============================================================================
