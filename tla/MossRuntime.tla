----------------------------- MODULE MossRuntime -----------------------------
(***************************************************************************)
(* The MOSS synthesizer of one tab (moss/browser_onnx_runtime.js, called by *)
(* handleSynthesize of moss/browser_onnx_host.js).  A request is cut into  *)
(* text chunks; a chunk is turned into frames one after the other, each    *)
(* computed from the ones before it; and the frames are decoded to audio,  *)
(* which again depends on the frames decoded before.                       *)
(*                                                                         *)
(* What a frame or a piece of audio depends on is kept in the runtime, not *)
(* in the request: past (reusableDecodeFeeds), local                       *)
(* (reusableLocalCachedFeeds) and codec (codecStreamingSession).  Requests *)
(* take turns wherever they await something that is not settled: the       *)
(* tokenizer, a turn of the event loop, or the page's ack.  What runs      *)
(* between two such points is one step; awaits in a row without anything   *)
(* between them are one.                                                   *)
(*                                                                         *)
(* A tensor is replaced by what went into it: <<r, c, k>> stands for the   *)
(* frames of chunk c of request r up to k, in order (the prefill is frame  *)
(* 0), and Mix for anything else.  A frame has one yield in its middle,    *)
(* for the several the channels make.                                      *)
(***************************************************************************)
EXTENDS Naturals, Sequences

CONSTANTS
    Requests,       \* request ids, a set of numbers in the order of arrival
    MaxChunks,      \* text chunks of a request
    MaxFrames       \* max_new_frames

Mix == <<0, 0, 0>>
Fresh == <<0, 0, 1>>    \* nothing at all

VARIABLES
    job,        \* [Requests -> local state of the synthesis]
    tokenizer,  \* the tokenizer's answers under way, in order
    past, local, codec,
    \* What happened to a request, for the properties:
    skipped,    \* a frame was left out, or turned into audio again
    mixed,      \* a frame was computed from something not its own
    blurred,    \* audio was decoded from something not its own
    crowd       \* [Requests -> "alone", "after" cancelled ones, or "shared"]

vars == <<job, tokenizer, past, local, codec, skipped, mixed, blurred, crowd>>

\* The local state of a synthesis; heard, for the properties, is the chunk and
\* the frame that was turned into audio last.
Idle == [pc |-> "none", chunks |-> 0, chunk |-> 1, frames |-> 0, pending |-> 0,
         sounded |-> FALSE, cancelled |-> FALSE, heard |-> <<0, 0>>]

Awaits == {"split", "between", "encode", "top", "mid", "ack", "flush", "pause"}

TypeOK ==
    /\ job \in [Requests ->
          [pc : Awaits \cup {"none", "gone", "over"}, chunks : 0 .. MaxChunks,
           chunk : 1 .. MaxChunks, frames : 0 .. MaxFrames,
           pending : 0 .. MaxFrames, sounded : BOOLEAN, cancelled : BOOLEAN,
           heard : (0 .. MaxChunks) \X (0 .. MaxFrames)]]
    /\ tokenizer \in Seq(Requests)
    /\ \A h \in {past, local, codec} :
          h \in {Mix, Fresh} \/ h \in Requests \X (1 .. MaxChunks) \X (0 .. MaxFrames)
    /\ skipped \subseteq Requests /\ mixed \subseteq Requests
    /\ blurred \subseteq Requests
    /\ crowd \in [Requests -> {"alone", "after", "shared"}]

Init ==
    /\ job = [r \in Requests |-> Idle]
    /\ tokenizer = <<>>
    /\ past = Mix /\ local = Mix /\ codec = Fresh
    /\ skipped = {} /\ mixed = {} /\ blurred = {}
    /\ crowd = [r \in Requests |-> "alone"]

-----------------------------------------------------------------------------

Live(r) == job[r].pc \in Awaits
AwaitsAck(r) == job[r].pc \in {"ack", "flush", "pause"}

\* The frames of r's chunk up to k, and what becomes of the history h when
\* the ones from a to b are added to it.
UpTo(r, k) == <<r, job[r].chunk, k>>
Add(h, r, a, b) ==
    IF h = UpTo(r, a - 1) \/ (a = 1 /\ h = Fresh) THEN UpTo(r, b) ELSE Mix

\* A request that is over keeps nothing of its own.
Gone == [Idle EXCEPT !.pc = "gone"]
Over == [Idle EXCEPT !.pc = "over"]

GoTo(r, where) == job' = [job EXCEPT ![r].pc = where]

cacheVars == <<past, local, codec>>
audioVars == <<skipped, blurred>>

-----------------------------------------------------------------------------
(* Messages of the page. *)

\* handleSynthesize registers the request and synthesizeVoiceClone asks the
\* tokenizer how long its sentences are.  No other request stops it.
Synthesize(r) ==
    LET others == {q \in Requests : Live(q)}
        live == {q \in others : ~job[q].cancelled}
    IN  /\ job[r].pc = "none"
        /\ \A q \in Requests : q < r => job[q].pc # "none"
        /\ GoTo(r, "split")
        /\ tokenizer' = Append(tokenizer, r)
        /\ crowd' = [q \in Requests |->
                       IF live # {} /\ q \in live \cup {r} THEN "shared"
                       ELSE IF others # {} /\ q \in others \cup {r}
                                /\ crowd[q] = "alone" THEN "after"
                       ELSE crowd[q]]
        /\ UNCHANGED <<cacheVars, audioVars, mixed>>

\* cancelActiveRequest: a synthesis that awaits an ack unwinds at once, any
\* other finds out when it looks.
Cancel(r) ==
    /\ Live(r) /\ ~job[r].cancelled
    /\ job' = [job EXCEPT ![r] = IF AwaitsAck(r) THEN Gone
                                ELSE [@ EXCEPT !.cancelled = TRUE]]
    /\ UNCHANGED <<tokenizer, cacheVars, audioVars, mixed, crowd>>

-----------------------------------------------------------------------------
(* Text. *)

\* Mutant of Answered: answers arrive in any order.
Answered_any(r) == \E i \in DOMAIN tokenizer : tokenizer[i] = r

\* The tokenizer answers in the order it was asked.
Answered(r) == tokenizer # <<>> /\ Head(tokenizer) = r

\* The answer to r is there, or given up; a request awaits one at most.
Forget(r) ==
    \/ \E i \in DOMAIN tokenizer :
          /\ tokenizer[i] = r
          /\ tokenizer' = SubSeq(tokenizer, 1, i - 1) \o SubSeq(tokenizer, i + 1, Len(tokenizer))
    \/ (\A i \in DOMAIN tokenizer : tokenizer[i] # r) /\ UNCHANGED tokenizer

\* splitVoiceCloneText has its chunks.
Split(r) ==
    /\ job[r].pc = "split" /\ Answered(r)
    /\ Forget(r)
    /\ \E n \in 1 .. MaxChunks :
          job' = [job EXCEPT ![r].pc = "between", ![r].chunks = n]
    /\ UNCHANGED <<cacheVars, audioVars, mixed, crowd>>

\* Before each chunk synthesizeVoiceClone yields and looks; then the chunk's
\* text goes to the tokenizer.
NextChunk(r) ==
    /\ job[r].pc = "between"
    /\ IF job[r].cancelled
       THEN job' = [job EXCEPT ![r] = Gone] /\ UNCHANGED tokenizer
       ELSE GoTo(r, "encode") /\ tokenizer' = Append(tokenizer, r)
    /\ UNCHANGED <<cacheVars, audioVars, mixed, crowd>>

ResetCodec == Fresh

\* The chunk begins: codecStreamingSession.reset, the prefill, and its
\* outputs as the past of the first frame.  A cancelled request gets here too.
Begin(r) ==
    /\ job[r].pc = "encode" /\ Answered(r)
    /\ Forget(r)
    /\ codec' = ResetCodec
    /\ past' = UpTo(r, 0)
    /\ job' = [job EXCEPT ![r].pc = "top", ![r].frames = 0, ![r].pending = 0,
                          ![r].sounded = FALSE]
    /\ UNCHANGED <<local, audioVars, mixed, crowd>>

-----------------------------------------------------------------------------
(* Frames and audio. *)

\* The last frame of r that is audio once n pending ones have been decoded.
Heard(r, n) == <<job[r].chunk, job[r].frames - job[r].pending + n>>

\* codecStreamingSession.runFrames on the first n of the pending frames.
RunFrames(r, n) ==
    LET from == job[r].frames - job[r].pending + 1
    IN  /\ codec' = Add(codec, r, from, from + n - 1)
        /\ blurred' = IF codec' = Mix THEN blurred \cup {r} ELSE blurred
        /\ skipped' = IF \/ job[r].heard = <<job[r].chunk, from - 1>>
                         \/ job[r].heard[1] < job[r].chunk /\ from = 1
                      THEN skipped ELSE skipped \cup {r}

\* The end of a text chunk: a pause goes to the page between two chunks.
ChunkDone(j) ==
    IF j.chunk = j.chunks THEN Over
    ELSE IF j.cancelled THEN Gone
    ELSE [j EXCEPT !.pc = "pause"]

\* Mutant of FlushCount: what is pending at the end is dropped.
FlushCount_none(r) == 0

\* decodePendingFrames(true): what is pending is decoded, cancelled or not;
\* only then is a cancelled request's audio refused.  There may be no audio.
FlushCount(r) == job[r].pending

Flush(r) ==
    LET n == FlushCount(r)
    IN  IF n = 0
        THEN /\ job' = [job EXCEPT ![r] = ChunkDone(@)]
             /\ UNCHANGED <<codec, audioVars>>
        ELSE /\ LET j == [job[r] EXCEPT !.pending = 0, !.heard = Heard(r, n)]
                    sent == IF j.cancelled THEN Gone ELSE [j EXCEPT !.pc = "flush"]
                IN  \/ job' = [job EXCEPT ![r] = ChunkDone(j)]
                    \/ job' = [job EXCEPT ![r] = sent]
             /\ RunFrames(r, n)

\* resolveStreamDecodeFrameBudget and decodePendingFrames(false): how many of
\* p pending frames are decoded now.  Before the first audio it is one; then
\* it depends on how far the audio is ahead of the playback.
DecodeCounts(r, p) ==
    IF ~job[r].sounded THEN {1}
    ELSE {b \in {1, 2} : b <= p} \cup {IF p >= b THEN b ELSE 0 : b \in {2, 4, 8}}

\* Mutant of Look: the flag is not looked at within a frame.
Look_blind(r) == FALSE

\* The loop of generateAudioFrames after its yields: it looks whether the
\* request is cancelled; the model, run on the text channel, decides whether
\* the speech is over.
Look(r) == job[r].cancelled

Stops(r) ==
    /\ \/ job[r].pc = "top"
       \/ job[r].pc = "mid" /\ Look(r)
    /\ Flush(r)
    /\ local' = IF job[r].cancelled \/ job[r].frames = MaxFrames THEN local
                ELSE UpTo(r, job[r].frames + 1)
    /\ UNCHANGED <<tokenizer, past, mixed, crowd>>

\* resetLocalCachedState and the first channels of a frame.
HalfFrame(r) ==
    /\ job[r].pc = "top" /\ ~job[r].cancelled
    /\ job[r].frames < MaxFrames
    /\ local' = UpTo(r, job[r].frames + 1)
    /\ GoTo(r, "mid")
    /\ UNCHANGED <<tokenizer, past, codec, audioVars, mixed, crowd>>

\* The other channels, decode.run with the past that is there, and the audio
\* of the pending frames, if it is time for it.
Frame(r) ==
    LET k == job[r].frames + 1
    IN  /\ job[r].pc = "mid" /\ ~Look(r)
        /\ mixed' = IF local = UpTo(r, k) /\ past = UpTo(r, k - 1) THEN mixed
                    ELSE mixed \cup {r}
        /\ past' = Add(past, r, k, k)
        /\ \E n \in DecodeCounts(r, job[r].pending + 1), sound \in BOOLEAN :
              /\ job' = [job EXCEPT ![r] =
                           [job[r] EXCEPT
                              !.frames = k,
                              !.pending = job[r].pending + 1 - n,
                              !.heard = IF n = 0 THEN job[r].heard ELSE Heard(r, n),
                              !.sounded = job[r].sounded \/ (n > 0 /\ sound),
                              !.pc = IF n > 0 /\ sound THEN "ack" ELSE "top"]]
              /\ IF n = 0 THEN UNCHANGED <<codec, audioVars>> ELSE RunFrames(r, n)
        /\ UNCHANGED <<tokenizer, local, crowd>>

\* What a synthesis goes on with once a piece, or a pause, is accepted.
Accepted(j) ==
    CASE j.pc = "ack" -> [j EXCEPT !.pc = "top"]
      [] j.pc = "flush" -> ChunkDone(j)
      [] j.pc = "pause" -> [j EXCEPT !.pc = "between", !.chunk = j.chunk + 1]

\* postAudioChunkAndWaitAck: the page has taken a piece, or refused it.
Ack(r) ==
    /\ AwaitsAck(r)
    /\ \/ job' = [job EXCEPT ![r] = Accepted(job[r])]
       \/ job' = [job EXCEPT ![r] = Gone]
    /\ UNCHANGED <<tokenizer, cacheVars, audioVars, mixed, crowd>>

\* The tokenizer, a session or a read fails; the error ends the request.
Throw(r) ==
    /\ Live(r) /\ ~AwaitsAck(r)
    /\ job' = [job EXCEPT ![r] = Gone]
    /\ Forget(r)
    /\ UNCHANGED <<cacheVars, audioVars, mixed, crowd>>

Step(r) ==
    \/ Split(r) \/ NextChunk(r) \/ Begin(r)
    \/ HalfFrame(r) \/ Frame(r) \/ Stops(r)
    \/ Ack(r) \/ Throw(r)

Next == \E r \in Requests : Synthesize(r) \/ Cancel(r) \/ Step(r)
=============================================================================
