----------------------------- MODULE VoiceReply -----------------------------
(***************************************************************************)
(* A spoken reply (src/assets/app.html): while the model's answer streams  *)
(* in, complete phrases are queued, a pump turns the queue into speech one *)
(* batch at a time, and a promise chain plays the batches.  The user may   *)
(* end the conversation or press Listen on a message at any moment.        *)
(*                                                                         *)
(* Speech comes from a browser-local voice, taken here as SpeechStream     *)
(* describes it, with the number of pieces hidden: a stream is open, may   *)
(* hand over audio, and ends well or with an error.  BrowserSpeech shows   *)
(* that both voices keep that promise and end every stream.                *)
(* What runs in one turn of the page's event loop is one step: an await    *)
(* that only settled promises hold up gives nobody else a turn.            *)
(*                                                                         *)
(* Phrases are numbers in the order of the answer.  The phrases in Repeats *)
(* contain a run of the same word and go to the system voice.  Where the   *)
(* answer is cut into phrases, and how many of them fit a batch, is left   *)
(* open.                                                                   *)
(***************************************************************************)
EXTENDS Integers, Sequences, FiniteSets, Functions

CONSTANTS
    Runs,           \* voice turns, in order: 1 .. n
    Utterances,     \* requests for speech, in order: 1 .. n
    None,
    MaxPhrases,     \* phrases of an answer
    MaxQueued,      \* phrases of all answers together
    MaxActs,        \* voice turns and presses of a Listen button together
    Repeats         \* phrases that the system voice reads

ASSUME ReplyAssumption ==
    /\ Runs \subseteq Nat /\ Utterances \subseteq Nat
    /\ None \notin Runs \cup Utterances
    /\ MaxPhrases \in Nat /\ MaxQueued \in Nat /\ MaxActs \in Nat
    /\ Repeats \subseteq 1 .. MaxPhrases

VARIABLES
    got,                \* [Utterances -> some audio has arrived]
    end,                \* [Utterances -> state of the stream]
    voiceStream,        \* the run whose reply may speak
    turn,               \* [Runs -> progress of stopHandsfree]
    queued,             \* phrases cut from the answer so far
    pendingPhrases,     \* [Runs -> phrases not yet handed to the voice]
    workerActive,       \* [Runs -> BOOLEAN]
    pump,               \* [Runs -> where the loop of the pump awaits]
    audio,              \* [Runs -> the stream whose end the pump awaits]
    batch,              \* [Runs -> phrases the pump has taken for a stream]
    chain,              \* [Runs -> links that have not resolved]
    playing,            \* [Runs -> the first link has started]
    playback,           \* [Runs -> utterance whose sources must end, or None]
    failed,             \* [Runs -> "Voice playback failed" was shown]
    cancelled,          \* runs that are no longer stopHandsfree.activeRun
    listen,             \* [Presses -> where the call of speakReply awaits]
    heard,              \* [Presses -> the stream that call has opened]
    sources,            \* Web Audio sources not ended, by utterance
    system,             \* who waits for speechSynthesis to end
    said                \* [Runs -> phrases given to a loudspeaker, in order]

streamVars == <<got, end>>
turnVars == <<voiceStream, turn, queued, cancelled>>
workVars == <<pendingPhrases, workerActive, pump, audio, batch>>
chainVars == <<chain, playing, playback, failed>>
listenVars == <<listen, heard>>
soundVars == <<sources, system, said>>
vars == <<streamVars, turnVars, workVars, chainVars, listenVars, soundVars>>

Phrases == 1 .. MaxPhrases
Presses == 1 .. MaxActs

\* Who may be waiting for the system voice: a reply or a Listen.
Speakers == [reply : Runs] \cup [press : Presses]

Links == [kind : {"neural", "system"}, utter : Utterances \cup {None}, phrases : Seq(Phrases)]

Link(kind, u, phrases) == [kind |-> kind, utter |-> u, phrases |-> phrases]

\* Every variable holds a value of its kind.
TypeOK ==
    /\ got \in [Utterances -> BOOLEAN]
    /\ end \in [Utterances -> {"none", "open", "ok", "error"}]
    /\ voiceStream \in Runs \cup {None}
    /\ turn \in [Runs -> {"no", "answer", "drain", "chain", "playback",
                          "over", "aborted"}]
    /\ queued \in [Runs -> 0 .. MaxPhrases]
    /\ pendingPhrases \in [Runs -> Seq(Phrases)]
    /\ workerActive \in [Runs -> BOOLEAN]
    /\ pump \in [Runs -> {"settled", "prepare", "await"}]
    /\ audio \in [Runs -> Utterances \cup {None}]
    /\ batch \in [Runs -> Seq(Phrases)]
    /\ chain \in [Runs -> Seq(Links)]
    /\ playing \in [Runs -> BOOLEAN]
    /\ playback \in [Runs -> Utterances \cup {None}]
    /\ failed \in [Runs -> BOOLEAN]
    /\ cancelled \subseteq Runs
    /\ listen \in [Presses -> {"no", "prepare", "play", "system", "over"}]
    /\ heard \in [Presses -> Utterances \cup {None}]
    /\ sources \subseteq Utterances
    /\ system \subseteq Speakers
    /\ said \in [Runs -> Seq(Phrases)]

Init ==
    /\ got = [u \in Utterances |-> FALSE]
    /\ end = [u \in Utterances |-> "none"]
    /\ voiceStream = None
    /\ turn = [r \in Runs |-> "no"]
    /\ queued = [r \in Runs |-> 0]
    /\ pendingPhrases = [r \in Runs |-> <<>>]
    /\ workerActive = [r \in Runs |-> FALSE]
    /\ pump = [r \in Runs |-> "settled"]
    /\ audio = [r \in Runs |-> None]
    /\ batch = [r \in Runs |-> <<>>]
    /\ chain = [r \in Runs |-> <<>>]
    /\ playing = [r \in Runs |-> FALSE]
    /\ playback = [r \in Runs |-> None]
    /\ failed = [r \in Runs |-> FALSE]
    /\ cancelled = {}
    /\ listen = [p \in Presses |-> "no"]
    /\ heard = [p \in Presses |-> None]
    /\ sources = {}
    /\ system = {}
    /\ said = [r \in Runs |-> <<>>]

-----------------------------------------------------------------------------
(* What the operations share. *)

\* Mutant of WorkDone: the batch the pump has taken is forgotten.
QueueEmpty(r) == pendingPhrases[r] = <<>>

\* The condition on which finishVoiceStream leaves its loop.
WorkDone(r) == ~workerActive[r] /\ pendingPhrases[r] = <<>>

\* finishVoiceStream awaits a synthesis that has settled, again and again,
\* while workerActive stays set: no other task of the page gets a turn.
Spinning(r) ==
    /\ turn[r] = "drain"
    /\ pump[r] = "settled"
    /\ ~WorkDone(r)

Responsive == \A r \in Runs : ~Spinning(r)

\* The first number of phrases in a batch: at least one, then as many as fit.
BatchSizes(pending) == 1 .. Len(pending)

\* Mutant of Rest: the last phrase of the batch stays queued.
RestKeepsOne(pending, n) == SubSeq(pending, n, Len(pending))

\* splice: what is left when n phrases are taken.
Rest(pending, n) == SubSeq(pending, n + 1, Len(pending))

\* Mutant of ActiveAfter: the flag is never cleared.
ActiveForEver(r) == TRUE

\* The finally clause clears workerActive only for a reply that may speak.
ActiveAfter(r) == workerActive[r] /\ voiceStream # r

\* The loop of pumpKokoroSynthesis takes the next batch and calls
\* browserTtsSynthesize, or ends; then its finally clause runs, which does
\* nothing for a reply that may no longer speak.  pending is the queue.
Loop(r, pending) ==
    /\ audio' = [audio EXCEPT ![r] = None]
    /\ IF voiceStream = r /\ pending # <<>>
       THEN \E n \in BatchSizes(pending) :
               /\ batch' = [batch EXCEPT ![r] = SubSeq(pending, 1, n)]
               /\ pendingPhrases' =
                    [pendingPhrases EXCEPT ![r] = Rest(pending, n)]
               /\ pump' = [pump EXCEPT ![r] = "prepare"]
               /\ workerActive' = [workerActive EXCEPT ![r] = TRUE]
       ELSE /\ pendingPhrases' = [pendingPhrases EXCEPT ![r] = pending]
            /\ pump' = [pump EXCEPT ![r] = "settled"]
            /\ batch' = [batch EXCEPT ![r] = <<>>]
            /\ workerActive' = [workerActive EXCEPT ![r] = ActiveAfter(r)]

\* pumpKokoroSynthesis: start the loop unless it runs.
Pump(r, pending) ==
    IF workerActive[r]
    THEN /\ pendingPhrases' = [pendingPhrases EXCEPT ![r] = pending]
         /\ UNCHANGED <<batch, pump, workerActive, audio>>
    ELSE Loop(r, pending)

\* stopVoicePlayback: the open streams are cancelled, all sources stopped and
\* the system voice silenced, until it gets the utterances of next.
StopVoicePlayback(next) ==
    /\ end' = [u \in Utterances |-> IF end[u] = "open" THEN "error" ELSE end[u]]
    /\ sources' = {}
    /\ system' = next

\* The bounds on what the user does and on the length of the answers.
MayAct ==
    Cardinality({r \in Runs : turn[r] # "no"})
        + Cardinality({p \in Presses : listen[p] # "no"}) < MaxActs

MayQueue(r, n) == queued[r] + n <= MaxPhrases /\ SumFunction(queued) + n <= MaxQueued

\* The streams get their numbers in the order they are opened.
Open(u) ==
    /\ \A v \in Utterances : (v < u) <=> (end[v] # "none")
    /\ end' = [end EXCEPT ![u] = "open"]
    /\ UNCHANGED got

-----------------------------------------------------------------------------
(* The answer arrives. *)

\* startVoiceStream, when the transcript of a new turn is sent.  A turn whose
\* answer failed, or that was cancelled, may still have work under way.
StartReply(r) ==
    /\ MayAct /\ turn[r] = "no"
    /\ \A q \in Runs : q < r => q \in cancelled \/ turn[q] \in {"over", "aborted"}
    /\ turn' = [turn EXCEPT ![r] = "answer"]
    /\ voiceStream' = r
    /\ UNCHANGED <<streamVars, queued, cancelled, listenVars, soundVars,
                   workVars, chainVars>>

\* The next n phrases of an answer, one or two, that go to one of the voices.
Only(p, voice) == IF p \in voice THEN <<p>> ELSE <<>>
NewPhrases(r, n, voice) ==
    Only(queued[r] + 1, voice) \o (IF n = 2 THEN Only(queued[r] + 2, voice) ELSE <<>>)

\* appendVoiceStreamNow and queueVoicePhrase: some phrases are complete; the
\* neural ones are queued and pumped, a repetition goes straight to the chain.
Queue(r, n) ==
    LET neural == NewPhrases(r, n, Phrases \ Repeats)
        repeats == NewPhrases(r, n, Repeats)
        links == [i \in DOMAIN repeats |-> Link("system", None, <<repeats[i]>>)]
    IN  /\ queued' = [queued EXCEPT ![r] = @ + n]
        /\ chain' = [chain EXCEPT ![r] = @ \o links]
        /\ IF neural = <<>>
           THEN UNCHANGED workVars
           ELSE Pump(r, pendingPhrases[r] \o neural)

\* appendVoiceStream: a delta of the answer completes one phrase or two.
Delta(r) ==
    /\ turn[r] = "answer" /\ voiceStream = r
    /\ \E n \in {1, 2} : MayQueue(r, n) /\ Queue(r, n)
    /\ UNCHANGED <<streamVars, voiceStream, turn, playing, playback,
                   failed, cancelled, listenVars, soundVars>>

\* finishVoiceStream: flush what is left of the answer and start to wait.
FinishReply(r) ==
    /\ turn[r] = "answer" /\ voiceStream = r
    /\ turn' = [turn EXCEPT ![r] = "drain"]
    /\ \/ UNCHANGED <<queued, chain, workVars>>
       \/ MayQueue(r, 1) /\ Queue(r, 1)
    /\ UNCHANGED <<streamVars, voiceStream, playing, playback, failed,
                   cancelled, listenVars, soundVars>>

\* The model fails: the turn ends without finishVoiceStream.
AnswerFails(r) ==
    /\ turn[r] = "answer"
    /\ turn' = [turn EXCEPT ![r] = "aborted"]
    /\ UNCHANGED <<streamVars, voiceStream, queued, cancelled, listenVars,
                   soundVars, workVars, chainVars>>

-----------------------------------------------------------------------------
(* The pump. *)

\* browserTtsSynthesize has its model and its audio context: the stream is
\* opened, whatever happened meanwhile, and its link put on the chain.
PumpOpens(r) ==
    /\ pump[r] = "prepare"
    /\ \E u \in Utterances :
          /\ Open(u)
          /\ pump' = [pump EXCEPT ![r] = "await"]
          /\ audio' = [audio EXCEPT ![r] = u]
          /\ chain' = [chain EXCEPT ![r] = Append(@, Link("neural", u, batch[r]))]
          /\ batch' = [batch EXCEPT ![r] = <<>>]
    /\ UNCHANGED <<turnVars, pendingPhrases, workerActive, playing, playback,
                   failed, listenVars, soundVars>>

\* The pump's catch clause, then its finally clause, which pumps on.
PumpThrows(r) ==
    /\ failed' = [failed EXCEPT ![r] = @ \/ voiceStream = r]
    /\ Loop(r, pendingPhrases[r])

\* The model cannot be prepared or the audio context not be unlocked.
PumpFails(r) ==
    /\ pump[r] = "prepare"
    /\ PumpThrows(r)
    /\ UNCHANGED <<streamVars, turnVars, chain, playing, playback,
                   listenVars, soundVars>>

\* audio.finished: throw the stream's error, or take the next batch.
PumpGoesOn(r) ==
    /\ pump[r] = "await"
    /\ end[audio[r]] \in {"ok", "error"}
    /\ IF end[audio[r]] = "error"
       THEN PumpThrows(r)
       ELSE Loop(r, pendingPhrases[r]) /\ UNCHANGED failed
    /\ UNCHANGED <<streamVars, turnVars, chain, playing, playback,
                   listenVars, soundVars>>

-----------------------------------------------------------------------------
(* The streams and the players. *)

\* The reply whose first link is playing utterance u.
PlayedBy(u) ==
    {r \in Runs : playing[r] /\ chain[r] # <<>> /\ Head(chain[r]).utter = u}

\* A piece of audio that a player waits for is scheduled at once, any other
\* stays in the stream's buffer.
Audio(u) ==
    /\ end[u] = "open" /\ ~got[u]
    /\ got' = [got EXCEPT ![u] = TRUE]
    /\ sources' = IF PlayedBy(u) # {} \/ (\E p \in Presses : heard[p] = u)
                  THEN sources \cup {u} ELSE sources
    /\ said' = [r \in Runs |-> IF r \in PlayedBy(u)
                               THEN said[r] \o Head(chain[r]).phrases
                               ELSE said[r]]
    /\ UNCHANGED <<end, turnVars, listenVars, system, workVars, chainVars>>

StreamEnds(u) ==
    /\ end[u] = "open"
    /\ \E how \in {"ok", "error"} : end' = [end EXCEPT ![u] = how]
    /\ UNCHANGED <<got, turnVars, listenVars, soundVars, workVars, chainVars>>

\* Mutant of MaySpeak: a link does not ask.
MaySpeakAlways(r) == TRUE

\* A link asks whether its reply may still speak.
MaySpeak(r) == voiceStream = r

\* A link starts: it returns at once if another reply may speak now, else
\* it plays what its stream has buffered, or calls the system voice, whose
\* end the link itself awaits: the playback of the links before is forgotten.
LinkStarts(r) ==
    /\ chain[r] # <<>> /\ ~playing[r]
    /\ LET link == Head(chain[r])
       IN  IF ~MaySpeak(r)
           THEN /\ chain' = [chain EXCEPT ![r] = Tail(@)]
                /\ UNCHANGED <<playing, playback, soundVars>>
           ELSE /\ playing' = [playing EXCEPT ![r] = TRUE]
                /\ IF link.kind = "system"
                   THEN /\ system' = system \cup {[reply |-> r]}
                        /\ said' = [said EXCEPT ![r] = @ \o link.phrases]
                        /\ playback' = [playback EXCEPT ![r] = None]
                        /\ UNCHANGED sources
                   ELSE /\ IF ~got[link.utter]
                           THEN UNCHANGED <<sources, said>>
                           ELSE /\ sources' = sources \cup {link.utter}
                                /\ said' = [said EXCEPT ![r] = @ \o link.phrases]
                        /\ UNCHANGED <<system, playback>>
                /\ UNCHANGED chain
    /\ UNCHANGED <<streamVars, turnVars, workVars, failed, listenVars>>

\* A link resolves: the system voice has ended, or the stream has and was
\* scheduled.  An error, or a stream without audio, is caught and shown.
LinkResolves(r) ==
    /\ chain[r] # <<>> /\ playing[r]
    /\ LET link == Head(chain[r])
       IN  IF link.kind = "system"
           THEN [reply |-> r] \notin system /\ UNCHANGED <<playback, failed>>
           ELSE /\ end[link.utter] \in {"ok", "error"}
                /\ IF end[link.utter] = "ok" /\ got[link.utter]
                   THEN /\ playback' = [playback EXCEPT ![r] = link.utter]
                        /\ UNCHANGED failed
                   ELSE /\ failed' = [failed EXCEPT ![r] = @ \/ voiceStream = r]
                        /\ UNCHANGED playback
    /\ chain' = [chain EXCEPT ![r] = Tail(@)]
    /\ playing' = [playing EXCEPT ![r] = FALSE]
    /\ UNCHANGED <<streamVars, turnVars, workVars, listenVars, soundVars>>

\* The sources of an utterance have all ended.
SourcesEnd(u) ==
    /\ u \in sources
    /\ sources' = sources \ {u}
    /\ UNCHANGED <<streamVars, turnVars, listenVars, system, said, workVars,
                   chainVars>>

SystemEnds(x) ==
    /\ x \in system
    /\ system' = system \ {x}
    /\ UNCHANGED <<streamVars, turnVars, listenVars, sources, said, workVars,
                   chainVars>>

-----------------------------------------------------------------------------
(* The end of a reply. *)

\* The steps of finishVoiceStream: the worker and its queue drained, then the
\* chain, then the last playback.
Drained(r) ==
    /\ turn[r] = "drain"
    /\ WorkDone(r)
    /\ turn' = [turn EXCEPT ![r] = "chain"]
    /\ UNCHANGED voiceStream

ChainDone(r) ==
    /\ turn[r] = "chain" /\ chain[r] = <<>>
    /\ turn' = [turn EXCEPT ![r] = "playback"]
    /\ UNCHANGED voiceStream

PlaybackDone(r) ==
    /\ turn[r] = "playback" /\ playback[r] \notin sources
    /\ turn' = [turn EXCEPT ![r] = "over"]
    /\ voiceStream' = IF voiceStream = r THEN None ELSE voiceStream

ReplyGoesOn(r) ==
    /\ Drained(r) \/ ChainDone(r) \/ PlaybackDone(r)
    /\ UNCHANGED <<streamVars, queued, cancelled, listenVars, soundVars,
                   workVars, chainVars>>

\* cancelHandsfree, while a reply is made or spoken: the request for the
\* answer is aborted, but a finishVoiceStream that waits goes on waiting.
Cancel ==
    /\ voiceStream # None
    /\ turn' = [r \in Runs |-> IF r = voiceStream /\ turn[r] = "answer"
                               THEN "aborted" ELSE turn[r]]
    /\ cancelled' = cancelled \cup {voiceStream}
    /\ voiceStream' = None
    /\ StopVoicePlayback({})
    /\ UNCHANGED <<got, queued, listenVars, said, workVars, chainVars>>

-----------------------------------------------------------------------------
(* Listen: speakReply. *)

\* The button: stop everything, then ask for the message to be spoken.
Listen(p) ==
    /\ MayAct /\ listen[p] = "no"
    /\ \A q \in Presses : q < p => listen[q] # "no"
    /\ StopVoicePlayback({})
    /\ listen' = [listen EXCEPT ![p] = "prepare"]
    /\ UNCHANGED <<got, turnVars, heard, said, workVars, chainVars>>

ListenOpens(p) ==
    /\ listen[p] = "prepare"
    /\ \E u \in Utterances :
          /\ Open(u)
          /\ listen' = [listen EXCEPT ![p] = "play"]
          /\ heard' = [heard EXCEPT ![p] = u]
    /\ UNCHANGED <<turnVars, soundVars, workVars, chainVars>>

\* The catch clause of speakReply: everything is stopped once more, whoever
\* it belongs to, and the system voice reads the message, also when it was
\* the user who stopped the stream.
FallBack(p) ==
    /\ listen' = [listen EXCEPT ![p] = "system"]
    /\ StopVoicePlayback({[press |-> p]})

\* The message was played to its end, or could not be.
ListenResolves(p) ==
    /\ \/ listen[p] = "prepare" /\ FallBack(p)
       \/ /\ listen[p] = "play"
          /\ end[heard[p]] \in {"ok", "error"}
          /\ IF end[heard[p]] = "ok" /\ got[heard[p]]
             THEN /\ heard[p] \notin sources
                  /\ listen' = [listen EXCEPT ![p] = "over"]
                  /\ UNCHANGED <<end, sources, system>>
             ELSE FallBack(p)
       \/ /\ listen[p] = "system" /\ [press |-> p] \notin system
          /\ listen' = [listen EXCEPT ![p] = "over"]
          /\ UNCHANGED <<end, sources, system>>
    /\ UNCHANGED <<got, turnVars, heard, said, workVars, chainVars>>

-----------------------------------------------------------------------------

\* Steps that happen without the user: promises, messages, audio that ends.
ReplySteps(r) ==
    \/ PumpOpens(r) \/ PumpFails(r) \/ PumpGoesOn(r)
    \/ LinkStarts(r) \/ LinkResolves(r) \/ ReplyGoesOn(r)

AudioSteps(u) == Audio(u) \/ StreamEnds(u) \/ SourcesEnd(u)

ListenSteps(p) == ListenOpens(p) \/ ListenResolves(p)

GoesOn ==
    \/ \E r \in Runs : ReplySteps(r)
    \/ \E u \in Utterances : AudioSteps(u)
    \/ \E x \in Speakers : SystemEnds(x)
    \/ \E p \in Presses : ListenSteps(p)

UserActs ==
    \/ \E r \in Runs :
          StartReply(r) \/ Delta(r) \/ FinishReply(r) \/ AnswerFails(r)
    \/ \E p \in Presses : Listen(p)
    \/ Cancel

Next == Responsive /\ (GoesOn \/ UserActs)

\* As long as promises can settle, streams end (StreamsEnd of BrowserSpeech)
\* or sounds end, one of them does, in no particular order; nothing makes the
\* user or the model do anything.
Fairness == WF_vars(Responsive /\ GoesOn)

Spec == Init /\ [][Next]_vars /\ Fairness

-----------------------------------------------------------------------------
(* Properties. *)

\* No phrase of a reply is spoken twice, and the phrases that go to the same
\* voice are spoken in the order of the answer, whatever is batched, stopped
\* or retried (pumpKokoroSynthesis, state.chain).  A phrase for the system
\* voice may overtake phrases before it that the pump has not yet taken.
InOrder ==
    /\ TypeOK
    /\ \A r \in Runs : \A i, j \in DOMAIN said[r] :
          LET p == said[r][i]
              q == said[r][j]
          IN  i < j => p # q /\ ((p \in Repeats <=> q \in Repeats) => p < q)

\* A reply that ends without having been cancelled and without a failure
\* having been shown has spoken its whole answer (finishVoiceStream).
HonestEnd ==
    \A r \in Runs :
        (turn[r] = "over" /\ r \notin cancelled /\ ~failed[r])
            => Range(said[r]) = 1 .. queued[r]

\* Once the user has ended the conversation no further phrase of its reply
\* starts to sound, although batches already asked for are still made and
\* their links are still on the chain (cancelHandsfree).
CancelledStaysQuiet ==
    [][\A r \in cancelled : said'[r] = said[r]]_vars

\* As long as no conversation is cancelled a reply comes to its end, also
\* when Listen stops its audio, a stream fails or the voice cannot be
\* prepared (finishVoiceStream): the next turn waits for that.
ReplyEnds ==
    \A r \in Runs : turn[r] = "drain" ~> (turn[r] = "over" \/ cancelled # {})

\* The loop of finishVoiceStream comes to its end in every case: "Follow the
\* current synthesis promise until both the worker and its queue are
\* genuinely drained."
AlwaysDrains ==
    \A r \in Runs : turn[r] = "drain" ~> turn[r] # "drain"
=============================================================================
