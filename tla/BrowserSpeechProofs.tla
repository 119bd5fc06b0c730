------------------------- MODULE BrowserSpeechProofs -------------------------
(***************************************************************************)
(* Theorems about BrowserSpeech for any number of requests and pieces, any *)
(* limits and either voice.                                                *)
(***************************************************************************)
EXTENDS BrowserSpeech, FiniteSetTheorems, SequenceTheorems, TLAPS

(***************************************************************************)
(* The inductive invariant.                                                *)
(***************************************************************************)
Audio(m, r) == m.type \in {"audio-chunk", "audio"} /\ m.req = r
Last(m, r) == m.type \in {"done", "error", "response"} /\ m.req = r
Ack(m, r) == m.type = "chunk-ack" /\ m.req = r
Asks(m, r) == m.type = "synthesize" /\ m.req = r

\* The streams the page keeps are the ones that have not ended.
OpenStreams == IsFiniteSet(streams) /\ \A r \in Requests : r \in streams <=> end[r] = "open"

\* Nothing is made for a stream before it is opened, or after it has ended well.
Life ==
    \A r \in Requests :
        /\ end[r] = "none" => made[r] = 0 /\ got[r] = <<>> /\ job[r].pc = "none"
        /\ end[r] = "ok" => job[r].pc = "gone"

\* The voice is asked once.
Asked ==
    \A r \in Requests, i \in DOMAIN toHost : Asks(toHost[i], r) =>
        /\ job[r].pc = "none" /\ end[r] # "none"
        /\ \A j \in DOMAIN toHost : Asks(toHost[j], r) => j = i

\* The pieces under way are some the voice has made, in the order it made them.
Numbered ==
    \A r \in Requests, i \in DOMAIN toPage : Audio(toPage[i], r) =>
        /\ 0 < toPage[i].piece /\ toPage[i].piece <= made[r]
        /\ \A j \in DOMAIN toPage : i < j /\ Audio(toPage[j], r) => toPage[i].piece < toPage[j].piece

\* No piece follows the message that ends its request.
LastIsLast ==
    \A r \in Requests, i \in DOMAIN toPage : Last(toPage[i], r) =>
        /\ job[r].pc = "gone"
        /\ \A j \in DOMAIN toPage : i < j => ~Audio(toPage[j], r)

\* While a stream is open, the pieces under way are those it has not got yet.
DeliveredTo(r) ==
    /\ Len(got[r]) <= made[r]
    /\ end[r] = "open" =>
          /\ \A i \in DOMAIN toPage : Audio(toPage[i], r) => Len(got[r]) < toPage[i].piece
          /\ \A n \in 1 .. made[r] : Len(got[r]) < n =>
                \E i \in DOMAIN toPage : Audio(toPage[i], r) /\ toPage[i].piece = n

Delivered == \A r \in Requests : DeliveredTo(r)

\* A MOSS request has a piece or an ack under way, not both and not two, and none at all
\* while its synthesis runs.
OneFlightOf(r) ==
    /\ \A i, j \in DOMAIN toPage : Audio(toPage[i], r) /\ Audio(toPage[j], r) => i = j
    /\ \A i, j \in DOMAIN toHost : Ack(toHost[i], r) /\ Ack(toHost[j], r) => i = j
    /\ \A i \in DOMAIN toPage, j \in DOMAIN toHost : ~(Audio(toPage[i], r) /\ Ack(toHost[j], r))
    /\ job[r].pc \in {"none", "run"} =>
          /\ \A i \in DOMAIN toPage : ~Audio(toPage[i], r)
          /\ \A i \in DOMAIN toHost : ~Ack(toHost[i], r)

OneFlight == kind = "moss" => \A r \in Requests : OneFlightOf(r)

Inv ==
    /\ TypeOK /\ OpenStreams /\ Life /\ Asked /\ Numbered /\ LastIsLast /\ Delivered /\ OneFlight

(***************************************************************************)
(* Queues of messages.                                                     *)
(***************************************************************************)
\* A posted message is the last of its queue and moves no other.
LEMMA Posted ==
  ASSUME NEW s \in Seq(Messages), NEW m \in Messages
  PROVE  /\ Append(s, m) \in Seq(Messages)
         /\ DOMAIN s = 1 .. Len(s) /\ Len(s) \in Nat
         /\ DOMAIN Append(s, m) = 1 .. Len(s) + 1
         /\ \A i \in 1 .. Len(s) : Append(s, m)[i] = s[i] /\ s[i] \in Messages
         /\ Append(s, m)[Len(s) + 1] = m
  BY AppendProperties

\* A received message was the first of its queue; the others move up by one.
LEMMA Received ==
  ASSUME NEW s \in Seq(Messages), s # <<>>
  PROVE  /\ Tail(s) \in Seq(Messages)
         /\ DOMAIN s = 1 .. Len(s) /\ Len(s) \in Nat /\ Len(s) >= 1
         /\ DOMAIN Tail(s) = 1 .. Len(s) - 1
         /\ \A i \in 1 .. Len(s) - 1 : Tail(s)[i] = s[i + 1]
         /\ Head(s) = s[1] /\ s[1] \in Messages
  BY HeadTailProperties

\* The first state satisfies the invariant.
LEMMA InitInv == Init => Inv
<1> SUFFICES ASSUME Init PROVE Inv
  OBVIOUS
<1>1. IsFiniteSet(streams)
  BY FS_EmptySet DEF Init
<1>2. 0 \in 0 .. MaxPieces
  BY SpeechAssumption
<1>3. TypeOK
  BY <1>2, EmptySeq DEF Init, TypeOK, Jobs
<1>4. DOMAIN toHost = {} /\ DOMAIN toPage = {}
  BY DEF Init
<1> QED
  BY <1>1, <1>3, <1>4, EmptySeq DEF Init, Inv, OpenStreams, Life, Asked, Numbered, LastIsLast,
     Delivered, DeliveredTo, OneFlight, OneFlightOf

(***************************************************************************)
(* The page.                                                               *)
(***************************************************************************)
\* browserTtsSynthesize opens a stream nobody has heard of.
LEMMA SynthesizeInv ==
  ASSUME Inv, NEW r \in Requests, Synthesize(r)
  PROVE  Inv' /\ Promise!Open(r)
<1> DEFINE m == Msg("synthesize", r, 0, TRUE)
<1>1. /\ m \in Messages /\ m.type = "synthesize" /\ m.req = r
  <2>1. 0 \in 0 .. MaxPieces
    BY SpeechAssumption
  <2> QED
    BY <2>1 DEF Msg, Messages
<1>2. toHost' = Append(toHost, m) /\ toPage' = toPage
  BY DEF Synthesize
<1> HIDE DEF m
<1>3. toHost \in Seq(Messages) /\ toPage \in Seq(Messages)
  BY DEF Inv, TypeOK
<1>4. /\ toHost' \in Seq(Messages)
      /\ DOMAIN toHost = 1 .. Len(toHost) /\ Len(toHost) \in Nat
      /\ DOMAIN toHost' = 1 .. Len(toHost) + 1
      /\ \A i \in 1 .. Len(toHost) : toHost'[i] = toHost[i] /\ toHost[i] \in Messages
      /\ toHost'[Len(toHost) + 1] = m
  BY <1>1, <1>2, <1>3, Posted
<1>5. TypeOK'
  BY <1>2, <1>4, SpeechAssumption DEF Synthesize, Inv, TypeOK
<1>6. IsFiniteSet(streams')
  BY FS_AddElement DEF Synthesize, Inv, OpenStreams
<1>7. OpenStreams'
  <2>1. \A q \in Requests : q \in streams' <=> end'[q] = "open"
    BY DEF Synthesize, Inv, TypeOK, OpenStreams
  <2> QED
    BY <1>6, <2>1 DEF OpenStreams
<1>8. Life'
  BY DEF Synthesize, Inv, TypeOK, Life
<1>9. Asked'
  <2>1. /\ job' = job /\ job[r].pc = "none" /\ end[r] = "none"
        /\ end'[r] = "open" /\ \A q \in Requests \ {r} : end'[q] = end[q]
    BY DEF Synthesize, Inv, TypeOK, Life
  <2>2. \A i \in 1 .. Len(toHost) : ~Asks(toHost[i], r)
    BY <1>4, <2>1 DEF Inv, Asked
  <2>3. Asks(m, r) /\ \A q \in Requests \ {r} : ~Asks(m, q)
    BY <1>1 DEF Asks
  <2>4. ASSUME NEW q \in Requests, NEW i \in DOMAIN toHost', Asks(toHost'[i], q)
        PROVE  /\ job'[q].pc = "none" /\ end'[q] # "none"
               /\ \A j \in DOMAIN toHost' : Asks(toHost'[j], q) => j = i
    <3>1. CASE q = r
      BY <1>4, <2>1, <2>2, <2>4, <3>1
    <3>2. CASE q # r
      BY <1>4, <2>1, <2>3, <2>4, <3>2 DEF Inv, Asked
    <3> QED
      BY <3>1, <3>2
  <2> QED
    BY <2>4 DEF Asked
<1>10. Numbered' /\ LastIsLast'
  BY <1>2 DEF Synthesize, Inv, Numbered, LastIsLast
<1>11. Delivered'
  <2> SUFFICES ASSUME NEW q \in Requests PROVE DeliveredTo(q)'
    BY DEF Delivered
  <2>1. CASE q = r
    <3>1. made'[q] = 0 /\ got'[q] = <<>> /\ Len(got'[q]) = 0
      BY <2>1, EmptySeq DEF Synthesize, Inv, Life
    <3> QED
      BY <1>2, <2>1, <3>1 DEF Inv, Numbered, Synthesize, DeliveredTo
  <2>2. CASE q # r
    BY <1>2, <2>2 DEF Synthesize, Inv, TypeOK, Delivered, DeliveredTo
  <2> QED
    BY <2>1, <2>2
<1>12. OneFlight'
  <2>1. \A q \in Requests : ~Ack(m, q)
    BY <1>1 DEF Ack
  <2>2. \A q \in Requests, i \in DOMAIN toHost' :
           Ack(toHost'[i], q) => i \in DOMAIN toHost /\ Ack(toHost[i], q)
    BY <1>4, <2>1
  <2>3. kind' = kind /\ job' = job
    BY DEF Synthesize
  <2> QED
    BY <1>2, <2>2, <2>3 DEF Inv, OneFlight, OneFlightOf
<1>13. Promise!Open(r)
  BY DEF Synthesize, Promise!Open
<1> QED
  BY <1>5, <1>7, <1>8, <1>9, <1>10, <1>11, <1>12, <1>13 DEF Inv

\* stopVoicePlayback ends every open stream with an error.
LEMMA StopInv ==
  ASSUME Inv, Stop
  PROVE  Inv' /\ Promise!Fail(streams)
<1>1. PICK stopped \in [1 .. Cardinality(streams) -> streams] :
         toHost' = toHost \o [i \in DOMAIN stopped |-> Msg("cancel", stopped[i], 0, TRUE)]
  BY DEF Stop
<1> DEFINE c == [i \in DOMAIN stopped |-> Msg("cancel", stopped[i], 0, TRUE)]
<1>2. toHost \in Seq(Messages) /\ toPage' = toPage
  BY DEF Inv, TypeOK, Stop
<1>3. Cardinality(streams) \in Nat
  BY FS_CardinalityType DEF Inv, OpenStreams
<1>4. \A i \in DOMAIN c : c[i] \in Messages /\ c[i].type = "cancel"
  <2> SUFFICES ASSUME NEW i \in DOMAIN c PROVE c[i] \in Messages /\ c[i].type = "cancel"
    OBVIOUS
  <2>1. stopped[i] \in Requests /\ c[i] = Msg("cancel", stopped[i], 0, TRUE)
    BY <1>1 DEF Inv, TypeOK
  <2>2. 0 \in 0 .. MaxPieces
    BY SpeechAssumption
  <2> QED
    BY <2>1, <2>2 DEF Msg, Messages
<1>5. c \in Seq(Messages) /\ DOMAIN c = 1 .. Len(c) /\ Len(c) \in Nat
  <2>1. DOMAIN c = 1 .. Cardinality(streams)
    BY <1>1
  <2>2. c = [i \in 1 .. Cardinality(streams) |-> c[i]]
    BY <2>1
  <2> HIDE DEF c
  <2>3. c \in [1 .. Cardinality(streams) -> Messages]
    BY <1>4, <2>1, <2>2
  <2>4. c \in Seq(Messages)
    BY <1>3, <2>3, SeqDef
  <2> QED
    BY <2>4, LenProperties
<1> HIDE DEF c
<1>6. /\ toHost' \in Seq(Messages)
      /\ DOMAIN toHost = 1 .. Len(toHost) /\ Len(toHost) \in Nat
      /\ DOMAIN toHost' = 1 .. Len(toHost) + Len(c)
      /\ \A i \in 1 .. Len(toHost) : toHost'[i] = toHost[i]
      /\ \A i \in Len(toHost) + 1 .. Len(toHost) + Len(c) :
            toHost'[i] = c[i - Len(toHost)] /\ i - Len(toHost) \in DOMAIN c
  <2>1. toHost' = toHost \o c
    BY <1>1 DEF c
  <2>2. /\ toHost \o c \in Seq(Messages) /\ Len(toHost \o c) = Len(toHost) + Len(c)
        /\ \A i \in 1 .. Len(toHost) + Len(c) :
              (toHost \o c)[i] = IF i <= Len(toHost) THEN toHost[i] ELSE c[i - Len(toHost)]
    BY <1>2, <1>5, ConcatProperties
  <2>3. DOMAIN toHost = 1 .. Len(toHost) /\ Len(toHost) \in Nat
    BY <1>2, LenProperties
  <2>4. DOMAIN toHost' = 1 .. Len(toHost) + Len(c)
    BY <2>1, <2>2, LenProperties
  <2> QED
    BY <1>5, <2>1, <2>2, <2>3, <2>4
<1>7. \A i \in DOMAIN toHost' : (i \in DOMAIN toHost /\ toHost'[i] = toHost[i])
                                \/ toHost'[i].type = "cancel"
  <2> SUFFICES ASSUME NEW i \in DOMAIN toHost', i \notin DOMAIN toHost
               PROVE  toHost'[i].type = "cancel"
    BY <1>6
  <2>1. i \in Len(toHost) + 1 .. Len(toHost) + Len(c)
    BY <1>5, <1>6
  <2> QED
    BY <1>4, <1>6, <2>1
<1>8. TypeOK'
  BY <1>2, <1>6 DEF Stop, Inv, TypeOK
<1>9. OpenStreams'
  BY FS_EmptySet DEF Stop, Inv, TypeOK, OpenStreams
<1>10. Life'
  <2> SUFFICES ASSUME NEW q \in Requests PROVE Life!(q)'
    BY DEF Life
  <2>1. CASE q \in streams
    BY <2>1 DEF Stop
  <2>2. CASE q \notin streams
    BY <2>2 DEF Stop, Inv, Life
  <2> QED
    BY <2>1, <2>2
<1>11. Asked'
  <2>1. \A q \in Requests, i \in DOMAIN toHost' :
           Asks(toHost'[i], q) => i \in DOMAIN toHost /\ Asks(toHost[i], q)
    BY <1>7 DEF Asks
  <2>2. \A q \in Requests : end[q] # "none" => end'[q] # "none"
    BY DEF Stop
  <2>3. job' = job
    BY DEF Stop
  <2> QED
    BY <2>1, <2>2, <2>3 DEF Inv, Asked
<1>12. Numbered' /\ LastIsLast'
  BY <1>2 DEF Stop, Inv, Numbered, LastIsLast
<1>13. Delivered'
  BY <1>2 DEF Stop, Inv, TypeOK, OpenStreams, Delivered, DeliveredTo
<1>14. OneFlight'
  <2>1. \A q \in Requests, i \in DOMAIN toHost' :
           Ack(toHost'[i], q) => i \in DOMAIN toHost /\ Ack(toHost[i], q)
    BY <1>7 DEF Ack
  <2>2. kind' = kind /\ job' = job
    BY DEF Stop
  <2> QED
    BY <1>2, <2>1, <2>2 DEF Inv, OneFlight, OneFlightOf
<1>15. Promise!Fail(streams)
  BY DEF Stop, Inv, TypeOK, OpenStreams, Promise!Fail
<1> QED
  BY <1>8, <1>9, <1>10, <1>11, <1>12, <1>13, <1>14, <1>15 DEF Inv

\* What browserTtsHandleMessage does to the queues, whatever the message: it takes the
\* first one and answers a piece of MOSS, and only that, with an ack.
LEMMA PageQueues ==
  ASSUME Inv, PageReceive
  PROVE  /\ toPage # <<>> /\ Head(toPage) = toPage[1] /\ toPage[1] \in Messages
         /\ 1 \in DOMAIN toPage
         /\ toPage' \in Seq(Messages) /\ toHost' \in Seq(Messages)
         /\ \A i \in DOMAIN toPage' : i + 1 \in DOMAIN toPage /\ toPage'[i] = toPage[i + 1] /\ i >= 1
         /\ \A i \in DOMAIN toPage : i # 1 => i - 1 \in DOMAIN toPage' /\ toPage'[i - 1] = toPage[i] /\ i > 1
         /\ \/ toHost' = toHost /\ toPage[1].type # "audio-chunk"
            \/ /\ toPage[1].type = "audio-chunk"
               /\ DOMAIN toHost = 1 .. Len(toHost) /\ Len(toHost) \in Nat
               /\ DOMAIN toHost' = 1 .. Len(toHost) + 1
               /\ \A i \in 1 .. Len(toHost) : toHost'[i] = toHost[i]
               /\ toHost'[Len(toHost) + 1].type = "chunk-ack"
               /\ toHost'[Len(toHost) + 1].req = toPage[1].req
         /\ kind' = kind /\ limit' = limit /\ job' = job /\ made' = made
<1>1. toPage \in Seq(Messages) /\ toHost \in Seq(Messages) /\ toPage # <<>> /\ toPage' = Tail(toPage)
  BY DEF Inv, TypeOK, PageReceive
<1>2. /\ toPage' \in Seq(Messages)
      /\ DOMAIN toPage = 1 .. Len(toPage) /\ Len(toPage) \in Nat /\ Len(toPage) >= 1
      /\ DOMAIN toPage' = 1 .. Len(toPage) - 1
      /\ \A i \in 1 .. Len(toPage) - 1 : toPage'[i] = toPage[i + 1]
      /\ Head(toPage) = toPage[1] /\ toPage[1] \in Messages
  BY <1>1, Received
<1> DEFINE m == toPage[1]
<1>3. OnAudioChunk(m) \/ OnAudio(m) \/ OnDone(m) \/ OnResponse(m)
  BY <1>2 DEF PageReceive
<1>4. CASE OnAudioChunk(m)
  <2>1. PICK ok \in BOOLEAN : toHost' = Append(toHost, Msg("chunk-ack", m.req, m.piece, ok))
    BY <1>4, Zenon DEF OnAudioChunk, ChunkAck
  <2> DEFINE a == Msg("chunk-ack", m.req, m.piece, ok)
  <2>2. a \in Messages /\ a.type = "chunk-ack" /\ a.req = m.req
    BY <1>2 DEF Msg, Messages
  <2> HIDE DEF a
  <2>3. /\ toHost' \in Seq(Messages)
        /\ DOMAIN toHost = 1 .. Len(toHost) /\ Len(toHost) \in Nat
        /\ DOMAIN toHost' = 1 .. Len(toHost) + 1
        /\ \A i \in 1 .. Len(toHost) : toHost'[i] = toHost[i]
        /\ toHost'[Len(toHost) + 1] = a
    BY <1>1, <2>1, <2>2, Posted DEF a
  <2>4. m.type = "audio-chunk"
    BY <1>4 DEF OnAudioChunk
  <2> QED
    BY <1>1, <1>2, <2>2, <2>3, <2>4 DEF PageReceive
<1>5. CASE ~OnAudioChunk(m)
  <2>1. toHost' = toHost /\ m.type # "audio-chunk"
    BY <1>3, <1>5 DEF OnAudio, OnDone, OnResponse
  <2> QED
    BY <1>1, <1>2, <2>1 DEF PageReceive
<1> QED
  BY <1>4, <1>5

\* Receiving a message keeps what is said of the queues and the voice.
LEMMA PageReceiveQueues ==
  ASSUME Inv, PageReceive
  PROVE  /\ Numbered' /\ LastIsLast' /\ OneFlight'
         /\ (\A q \in Requests : end[q] # "none" => end'[q] # "none") => Asked'
<1> DEFINE m == toPage[1]
<1>0. /\ 1 \in DOMAIN toPage /\ m \in Messages
      /\ \A i \in DOMAIN toPage' : i + 1 \in DOMAIN toPage /\ toPage'[i] = toPage[i + 1] /\ i >= 1
      /\ kind' = kind /\ job' = job /\ made' = made
      /\ \A i \in DOMAIN toPage' : i \in Int
  <2>1. \A i \in DOMAIN toPage' : i \in Int
    BY PageQueues, LenProperties
  <2> QED
    BY <2>1, PageQueues
<1>1. Numbered'
  <2> SUFFICES ASSUME NEW q \in Requests, NEW i \in DOMAIN toPage', Audio(toPage'[i], q)
               PROVE  /\ 0 < toPage'[i].piece /\ toPage'[i].piece <= made'[q]
                      /\ \A j \in DOMAIN toPage' :
                            i < j /\ Audio(toPage'[j], q) => toPage'[i].piece < toPage'[j].piece
    BY DEF Numbered
  <2> QED
    BY <1>0 DEF Inv, Numbered
<1>2. LastIsLast'
  <2> SUFFICES ASSUME NEW q \in Requests, NEW i \in DOMAIN toPage', Last(toPage'[i], q)
               PROVE  /\ job'[q].pc = "gone"
                      /\ \A j \in DOMAIN toPage' : i < j => ~Audio(toPage'[j], q)
    BY DEF LastIsLast
  <2> QED
    BY <1>0 DEF Inv, LastIsLast
<1>3. CASE toHost' = toHost
  <2>1. OneFlight'
    BY <1>0, <1>3 DEF Inv, OneFlight, OneFlightOf
  <2>2. (\A q \in Requests : end[q] # "none" => end'[q] # "none") => Asked'
    BY <1>0, <1>3 DEF Inv, Asked
  <2> QED
    BY <1>1, <1>2, <2>1, <2>2
<1>4. CASE toHost' # toHost
  <2>1. /\ m.type = "audio-chunk"
        /\ DOMAIN toHost = 1 .. Len(toHost) /\ Len(toHost) \in Nat
        /\ DOMAIN toHost' = 1 .. Len(toHost) + 1
        /\ \A i \in 1 .. Len(toHost) : toHost'[i] = toHost[i]
        /\ toHost'[Len(toHost) + 1].type = "chunk-ack"
        /\ toHost'[Len(toHost) + 1].req = m.req
    BY <1>4, PageQueues
  <2>2. \A q \in Requests, i \in DOMAIN toHost' :
           Asks(toHost'[i], q) => i \in DOMAIN toHost /\ Asks(toHost[i], q)
    BY <2>1 DEF Asks
  <2>3. (\A q \in Requests : end[q] # "none" => end'[q] # "none") => Asked'
    BY <1>0, <2>2 DEF Inv, Asked
  <2>4. \A q \in Requests, i \in DOMAIN toHost' :
           Ack(toHost'[i], q) => \/ i \in DOMAIN toHost /\ Ack(toHost[i], q)
                                 \/ i = Len(toHost) + 1 /\ q = m.req
    BY <2>1 DEF Ack
  <2>5. Audio(m, m.req) /\ m.req \in Requests
    BY <1>0, <2>1 DEF Audio, Messages
  <2>6. OneFlight'
    <3> SUFFICES ASSUME kind = "moss", NEW q \in Requests
                 PROVE  OneFlightOf(q)'
      BY <1>0 DEF OneFlight
    <3>1. CASE q = m.req
      <4>1. (\A i \in DOMAIN toHost : ~Ack(toHost[i], q)) /\ job[q].pc \notin {"none", "run"}
        BY <1>0, <2>5, <3>1 DEF Inv, OneFlight, OneFlightOf
      <4>2. \A i \in DOMAIN toPage' : ~Audio(toPage'[i], q)
        BY <1>0, <2>5, <3>1 DEF Inv, OneFlight, OneFlightOf
      <4> QED
        BY <1>0, <2>4, <4>1, <4>2 DEF OneFlightOf
    <3>2. CASE q # m.req
      BY <1>0, <2>4, <3>2 DEF Inv, OneFlight, OneFlightOf
    <3> QED
      BY <3>1, <3>2
  <2> QED
    BY <1>1, <1>2, <2>3, <2>6
<1> QED
  BY <1>3, <1>4

\* A message that is no piece of q's and leaves its stream alone leaves it what it needs.
LEMMA OthersDelivered ==
  ASSUME Inv, PageReceive, NEW q \in Requests, ~Audio(toPage[1], q), got'[q] = got[q],
         end'[q] = "open" => end[q] = "open"
  PROVE  DeliveredTo(q)'
<1>1. /\ \A i \in DOMAIN toPage' : i + 1 \in DOMAIN toPage /\ toPage'[i] = toPage[i + 1]
      /\ \A i \in DOMAIN toPage : i # 1 => i - 1 \in DOMAIN toPage' /\ toPage'[i - 1] = toPage[i]
      /\ made' = made
  BY PageQueues
<1>2. Len(got'[q]) <= made'[q]
  BY <1>1 DEF Inv, Delivered, DeliveredTo
<1>3. ASSUME end'[q] = "open", NEW i \in DOMAIN toPage', Audio(toPage'[i], q)
      PROVE  Len(got'[q]) < toPage'[i].piece
  BY <1>1, <1>3 DEF Inv, Delivered, DeliveredTo
<1>4. ASSUME end'[q] = "open", NEW n \in 1 .. made'[q], Len(got'[q]) < n
      PROVE  \E i \in DOMAIN toPage' : Audio(toPage'[i], q) /\ toPage'[i].piece = n
  <2>1. PICK i \in DOMAIN toPage : Audio(toPage[i], q) /\ toPage[i].piece = n
    BY <1>1, <1>4 DEF Inv, Delivered, DeliveredTo
  <2> QED
    BY <1>1, <2>1
<1> QED
  BY <1>2, <1>3, <1>4 DEF DeliveredTo

\* A piece of audio arrives: it is the next one its stream needs, or ends the stream, or
\* its stream has ended before.
LEMMA AudioInv ==
  ASSUME Inv, PageReceive, NEW r \in Requests, Audio(toPage[1], r)
  PROVE  Inv' /\ (Promise!Deliver(r) \/ Promise!Fail({r}) \/ UNCHANGED <<made, got, end>>)
<1> DEFINE m == toPage[1]
<1>0. /\ 1 \in DOMAIN toPage /\ m \in Messages /\ m.req = r /\ m.piece \in 0 .. MaxPieces
      /\ \A i \in DOMAIN toPage' : i + 1 \in DOMAIN toPage /\ toPage'[i] = toPage[i + 1] /\ i >= 1
      /\ \A i \in DOMAIN toPage : i # 1 => i - 1 \in DOMAIN toPage' /\ toPage'[i - 1] = toPage[i] /\ i > 1
      /\ toPage' \in Seq(Messages) /\ toHost' \in Seq(Messages)
      /\ kind' = kind /\ limit' = limit /\ job' = job /\ made' = made
  BY PageQueues DEF Audio, Messages
<1>1. TakeAudio(m) /\ pending' = pending
  BY PageQueues DEF PageReceive, OnAudioChunk, OnAudio, OnDone, OnResponse, Audio
<1>2. /\ Len(got[r]) \in Nat /\ got[r] \in Seq(Nat) /\ made[r] \in Nat
      /\ got \in [Requests -> Seq(Nat)] /\ end \in [Requests -> {"none", "open", "ok", "error"}]
  BY SpeechAssumption, LenProperties DEF Inv, TypeOK
<1>3. CASE r \notin streams
  <2>1. streams' = streams /\ end' = end /\ cancelled' = cancelled /\ got' = got
    BY <1>0, <1>1, <1>3 DEF TakeAudio
  <2>2. TypeOK' /\ OpenStreams' /\ Life'
    BY <1>0, <1>1, <2>1 DEF Inv, TypeOK, OpenStreams, Life
  <2>3. Delivered'
    <3> SUFFICES ASSUME NEW q \in Requests PROVE DeliveredTo(q)'
      BY DEF Delivered
    <3>1. CASE q = r
      BY <1>0, <1>3, <2>1, <3>1 DEF Inv, Delivered, DeliveredTo, OpenStreams
    <3>2. CASE q # r
      <4>1. ~Audio(m, q) /\ got'[q] = got[q] /\ (end'[q] = "open" => end[q] = "open")
        BY <1>0, <1>2, <2>1, <3>2 DEF Audio
      <4> QED
        BY <4>1, OthersDelivered
    <3> QED
      BY <3>1, <3>2
  <2> QED
    BY <1>0, <2>1, <2>2, <2>3, PageReceiveQueues DEF Inv
<1>4. CASE r \in streams /\ Len(got[r]) + 1 > limit[r]
  <2>1. /\ streams' = streams \ {r} /\ end' = [end EXCEPT ![r] = "error"] /\ got' = got
        /\ cancelled' = [cancelled EXCEPT ![r] = @ \/ m.type = "audio-chunk"]
    BY <1>0, <1>1, <1>4 DEF TakeAudio, EndOverlong, FinishStream
  <2>2. IsFiniteSet(streams')
    BY <2>1, FS_RemoveElement DEF Inv, OpenStreams
  <2>3. TypeOK'
    BY <1>0, <1>1, <2>1 DEF Inv, TypeOK
  <2>4. OpenStreams'
    <3>1. \A q \in Requests : q \in streams' <=> end'[q] = "open"
      BY <1>2, <2>1 DEF Inv, OpenStreams
    <3> QED
      BY <2>2, <3>1 DEF OpenStreams
  <2>5. Life'
    BY <1>0, <1>2, <2>1 DEF Inv, Life
  <2>6. Delivered'
    <3> SUFFICES ASSUME NEW q \in Requests PROVE DeliveredTo(q)'
      BY DEF Delivered
    <3>1. CASE q = r
      BY <1>0, <1>2, <2>1, <3>1 DEF Inv, Delivered, DeliveredTo
    <3>2. CASE q # r
      <4>1. ~Audio(m, q) /\ got'[q] = got[q] /\ (end'[q] = "open" => end[q] = "open")
        BY <1>0, <1>2, <2>1, <3>2 DEF Audio
      <4> QED
        BY <4>1, OthersDelivered
    <3> QED
      BY <3>1, <3>2
  <2>7. Promise!Fail({r})
    <3>1. end[r] = "open"
      BY <1>4 DEF Inv, OpenStreams
    <3>2. end' = [q \in Requests |-> IF q \in {r} THEN "error" ELSE end[q]]
      BY <1>2, <2>1
    <3> QED
      BY <1>0, <2>1, <3>1, <3>2 DEF Promise!Fail
  <2>8. \A q \in Requests : end[q] # "none" => end'[q] # "none"
    BY <1>2, <2>1
  <2> QED
    BY <2>3, <2>4, <2>5, <2>6, <2>7, <2>8, PageReceiveQueues DEF Inv
<1>5. CASE r \in streams /\ ~(Len(got[r]) + 1 > limit[r])
  <2>1. /\ streams' = streams /\ end' = end /\ cancelled' = cancelled
        /\ got' = [got EXCEPT ![r] = Append(@, m.piece)]
    BY <1>0, <1>1, <1>5 DEF TakeAudio
  <2>2. end[r] = "open"
    BY <1>5 DEF Inv, OpenStreams
  <2>3. m.piece = Len(got[r]) + 1 /\ Len(got[r]) < made[r]
    <3>1. Len(got[r]) < m.piece /\ m.piece <= made[r]
      BY <1>0, <2>2 DEF Inv, Delivered, DeliveredTo, Numbered
    <3>2. Len(got[r]) + 1 \in 1 .. made[r]
      BY <1>0, <1>2, <3>1
    <3>3. PICK i \in DOMAIN toPage : Audio(toPage[i], r) /\ toPage[i].piece = Len(got[r]) + 1
      BY <1>2, <2>2, <3>2 DEF Inv, Delivered, DeliveredTo
    <3>4. CASE i # 1
      BY <1>0, <1>2, <3>1, <3>3, <3>4 DEF Inv, Numbered
    <3> QED
      BY <1>2, <3>1, <3>2, <3>3, <3>4
  <2>4. /\ got' \in [Requests -> Seq(Nat)] /\ Len(got'[r]) = Len(got[r]) + 1
        /\ \A q \in Requests \ {r} : got'[q] = got[q]
    BY <1>0, <1>2, <2>1, AppendProperties
  <2>5. TypeOK'
    BY <1>0, <1>1, <2>1, <2>4 DEF Inv, TypeOK
  <2>6. OpenStreams'
    BY <2>1 DEF Inv, OpenStreams
  <2>7. Life'
    BY <1>0, <2>1, <2>2, <2>4 DEF Inv, Life
  <2>8. Delivered'
    <3> SUFFICES ASSUME NEW q \in Requests PROVE DeliveredTo(q)'
      BY DEF Delivered
    <3>1. CASE q = r
      <4>1. \A i \in DOMAIN toPage' : Audio(toPage'[i], r) => Len(got'[r]) < toPage'[i].piece
        <5> SUFFICES ASSUME NEW i \in DOMAIN toPage', Audio(toPage'[i], r)
                     PROVE  Len(got'[r]) < toPage'[i].piece
          OBVIOUS
        <5>1. i + 1 \in DOMAIN toPage /\ toPage'[i] = toPage[i + 1] /\ 1 < i + 1
          <6>1. i \in Int
            BY <1>0, LenProperties
          <6> QED
            BY <1>0, <6>1
        <5> QED
          BY <1>0, <2>3, <2>4, <5>1 DEF Inv, Numbered
      <4>2. ASSUME NEW n \in 1 .. made'[r], Len(got'[r]) < n
            PROVE  \E i \in DOMAIN toPage' : Audio(toPage'[i], r) /\ toPage'[i].piece = n
        <5>1. n \in 1 .. made[r] /\ Len(got[r]) < n /\ n # m.piece
          BY <1>0, <1>2, <2>3, <2>4, <4>2
        <5>2. PICK i \in DOMAIN toPage : Audio(toPage[i], r) /\ toPage[i].piece = n
          BY <2>2, <5>1 DEF Inv, Delivered, DeliveredTo
        <5>3. i # 1
          BY <5>1, <5>2
        <5> QED
          BY <1>0, <5>2, <5>3
      <4>3. Len(got'[r]) <= made'[r]
        BY <1>0, <1>2, <2>3, <2>4
      <4> QED
        BY <3>1, <4>1, <4>2, <4>3 DEF DeliveredTo
    <3>2. CASE q # r
      <4>1. ~Audio(m, q) /\ got'[q] = got[q] /\ (end'[q] = "open" => end[q] = "open")
        BY <1>0, <1>2, <2>1, <3>2 DEF Audio
      <4> QED
        BY <4>1, OthersDelivered
    <3> QED
      BY <3>1, <3>2
  <2>9. Promise!Deliver(r)
    BY <1>0, <2>1, <2>2, <2>3 DEF Promise!Deliver
  <2> QED
    BY <2>1, <2>5, <2>6, <2>7, <2>8, <2>9, PageReceiveQueues DEF Inv
<1> QED
  BY <1>3, <1>4, <1>5

\* The message that ends a request arrives: its stream has ended before, or ends with
\* every piece in hand, or with an error.
LEMMA EndInv ==
  ASSUME Inv, PageReceive, NEW r \in Requests, Last(toPage[1], r)
  PROVE  Inv' /\ (Promise!Finish(r) \/ Promise!Fail({r}) \/ UNCHANGED <<made, got, end>>)
<1> DEFINE m == toPage[1]
<1>0. /\ 1 \in DOMAIN toPage /\ m \in Messages /\ m.req = r
      /\ \A i \in DOMAIN toPage : i # 1 => i > 1
      /\ toPage' \in Seq(Messages) /\ toHost' \in Seq(Messages)
      /\ kind' = kind /\ limit' = limit /\ job' = job /\ made' = made
  BY PageQueues DEF Last
<1>1. /\ cancelled' = cancelled /\ got' = got /\ pending' \subseteq pending
      /\ \/ \E how \in {"ok", "error"} : FinishStream(r, how)
         \/ streams' = streams /\ end' = end
  <2>1. OnDone(m) \/ OnResponse(m)
    BY PageQueues DEF PageReceive, OnAudioChunk, OnAudio, Last
  <2>2. CASE OnDone(m)
    BY <1>0, <2>2 DEF OnDone
  <2>3. CASE OnResponse(m)
    BY <1>0, <2>3 DEF OnResponse
  <2> QED
    BY <2>1, <2>2, <2>3
<1>2. /\ end \in [Requests -> {"none", "open", "ok", "error"}]
      /\ Len(got[r]) \in Nat /\ made[r] \in Nat
  BY SpeechAssumption, LenProperties DEF Inv, TypeOK
<1>3. \A q \in Requests : ~Audio(m, q)
  BY <1>0 DEF Last, Audio
<1>4. CASE streams' = streams /\ end' = end
  <2>1. TypeOK' /\ OpenStreams' /\ Life'
    BY <1>0, <1>1, <1>4 DEF Inv, TypeOK, OpenStreams, Life
  <2>2. Delivered'
    BY <1>1, <1>3, <1>4, OthersDelivered DEF Delivered
  <2> QED
    BY <1>0, <1>1, <1>4, <2>1, <2>2, PageReceiveQueues DEF Inv
<1>5. ASSUME NEW how \in {"ok", "error"}, FinishStream(r, how), r \in streams
      PROVE  Inv' /\ (Promise!Finish(r) \/ Promise!Fail({r}))
  <2>1. end[r] = "open" /\ end' = [end EXCEPT ![r] = how] /\ streams' = streams \ {r}
    BY <1>5 DEF FinishStream, Inv, OpenStreams
  <2>2. IsFiniteSet(streams')
    BY <2>1, FS_RemoveElement DEF Inv, OpenStreams
  <2>3. TypeOK'
    BY <1>0, <1>1, <2>1 DEF Inv, TypeOK
  <2>4. OpenStreams'
    <3>1. \A q \in Requests : q \in streams' <=> end'[q] = "open"
      BY <1>2, <1>5, <2>1 DEF Inv, OpenStreams
    <3> QED
      BY <2>2, <3>1 DEF OpenStreams
  <2>5. Life'
    <3>1. job[r].pc = "gone"
      BY <1>0 DEF Inv, LastIsLast
    <3> QED
      BY <1>0, <1>1, <1>2, <1>5, <2>1, <3>1 DEF Inv, Life
  <2>6. Delivered'
    <3>1. \A q \in Requests : end'[q] = "open" => end[q] = "open"
      BY <1>2, <1>5, <2>1
    <3> QED
      BY <1>1, <1>3, <3>1, OthersDelivered DEF Delivered
  <2>7. Len(got[r]) = made[r]
    <3>1. \A i \in DOMAIN toPage : ~Audio(toPage[i], r)
      BY <1>0, <1>3 DEF Inv, LastIsLast
    <3>2. CASE Len(got[r]) < made[r]
      <4>1. made[r] \in 1 .. made[r]
        BY <1>2, <3>2
      <4> QED
        BY <2>1, <3>1, <3>2, <4>1 DEF Inv, Delivered, DeliveredTo
    <3> QED
      BY <1>2, <3>2 DEF Inv, Delivered, DeliveredTo
  <2>8. ASSUME how = "ok" PROVE Promise!Finish(r)
    BY <1>0, <1>1, <2>1, <2>7, <2>8 DEF Promise!Finish
  <2>9. ASSUME how = "error" PROVE Promise!Fail({r})
    <3>1. end' = [q \in Requests |-> IF q \in {r} THEN "error" ELSE end[q]]
      BY <1>2, <2>1, <2>9
    <3> QED
      BY <1>0, <1>1, <2>1, <3>1 DEF Promise!Fail
  <2>10. \A q \in Requests : end[q] # "none" => end'[q] # "none"
    BY <1>2, <2>1
  <2>11. Inv'
    BY <2>3, <2>4, <2>5, <2>6, <2>10, PageReceiveQueues DEF Inv
  <2>12. Promise!Finish(r) \/ Promise!Fail({r})
    BY <1>5, <2>8, <2>9
  <2> QED
    BY <2>11, <2>12
<1>6. r \notin streams /\ (\E how \in {"ok", "error"} : FinishStream(r, how)) =>
         streams' = streams /\ end' = end
  BY DEF FinishStream
<1> QED
  BY <1>1, <1>4, <1>5, <1>6

\* One message for the page, of whatever kind: a step of the promise, or none.
LEMMA PageReceiveInv ==
  ASSUME Inv, PageReceive
  PROVE  /\ Inv'
         /\ \/ \E r \in Requests : Promise!Deliver(r) \/ Promise!Finish(r) \/ Promise!Fail({r})
            \/ UNCHANGED <<made, got, end>>
<1> DEFINE r == toPage[1].req
<1>1. r \in Requests
  BY PageQueues DEF Messages
<1>2. Audio(toPage[1], r) \/ Last(toPage[1], r)
  BY PageQueues DEF PageReceive, OnAudioChunk, OnAudio, OnDone, OnResponse, Audio, Last
<1> HIDE DEF r
<1> QED
  BY <1>1, <1>2, AudioInv, EndInv

(***************************************************************************)
(* The voice.                                                              *)
(***************************************************************************)
\* A step of the voice that leaves the page alone, makes no piece, posts nothing but the
\* last message of a request that is gone, and lets no request go back in its life.
LEMMA VoiceKeeps ==
  ASSUME Inv, UNCHANGED <<kind, streams, end, cancelled, limit, got, pending, made>>,
         job' \in [Requests -> Jobs],
         \A q \in Requests : job[q].pc = "gone" => job'[q].pc = "gone",
         \A q \in Requests : end[q] = "none" => job'[q].pc = "none",
         \/ toPage' = toPage
         \/ \E m \in Messages : /\ toPage' = Append(toPage, m)
                                /\ m.type \in {"done", "error", "response"}
                                /\ job'[m.req].pc = "gone",
         toHost' \in Seq(Messages)
  PROVE  /\ TypeOK' /\ OpenStreams' /\ Life' /\ Numbered' /\ LastIsLast' /\ Delivered'
         /\ \A q \in Requests, i \in DOMAIN toPage' :
               Audio(toPage'[i], q) => i \in DOMAIN toPage /\ Audio(toPage[i], q)
<1>1. toPage \in Seq(Messages)
  BY DEF Inv, TypeOK
<1>2. /\ toPage' \in Seq(Messages)
      /\ \A i \in DOMAIN toPage : i \in DOMAIN toPage' /\ toPage'[i] = toPage[i] /\ i \in Nat
      /\ \A i \in DOMAIN toPage' :
            \/ i \in DOMAIN toPage /\ toPage'[i] = toPage[i]
            \/ /\ toPage'[i].type \in {"done", "error", "response"}
               /\ job'[toPage'[i].req].pc = "gone"
               /\ \A j \in DOMAIN toPage' : ~(i < j)
  <2>1. CASE toPage' = toPage
    BY <1>1, <2>1, LenProperties
  <2>2. ASSUME NEW m \in Messages, toPage' = Append(toPage, m),
               m.type \in {"done", "error", "response"}, job'[m.req].pc = "gone"
        PROVE  <1>2!:
    BY <1>1, <2>2, Posted
  <2> QED
    BY <2>1, <2>2
<1>3. \A q \in Requests, i \in DOMAIN toPage' :
         Audio(toPage'[i], q) => i \in DOMAIN toPage /\ Audio(toPage[i], q)
  BY <1>2 DEF Audio
<1>4. TypeOK' /\ OpenStreams'
  BY <1>2 DEF Inv, TypeOK, OpenStreams
<1>5. Life'
  BY DEF Inv, Life
<1>6. Numbered'
  BY <1>2, <1>3 DEF Inv, Numbered
<1>7. LastIsLast'
  <2> SUFFICES ASSUME NEW q \in Requests, NEW i \in DOMAIN toPage', Last(toPage'[i], q)
               PROVE  /\ job'[q].pc = "gone"
                      /\ \A j \in DOMAIN toPage' : i < j => ~Audio(toPage'[j], q)
    BY DEF LastIsLast
  <2>1. CASE i \in DOMAIN toPage /\ toPage'[i] = toPage[i]
    BY <1>3, <2>1 DEF Inv, LastIsLast
  <2>2. CASE ~(i \in DOMAIN toPage /\ toPage'[i] = toPage[i])
    BY <1>2, <2>2 DEF Last
  <2> QED
    BY <2>1, <2>2
<1>8. Delivered'
  <2> SUFFICES ASSUME NEW q \in Requests PROVE DeliveredTo(q)'
    BY DEF Delivered
  <2> QED
    BY <1>2, <1>3 DEF Inv, Delivered, DeliveredTo
<1> QED
  BY <1>3, <1>4, <1>5, <1>6, <1>7, <1>8

\* Only the state of the one request changes.
LEMMA SetPc ==
  ASSUME job \in [Requests -> Jobs], NEW r \in Requests, NEW pc \in {"none", "run", "ack", "gone"},
         job' = [job EXCEPT ![r].pc = pc]
  PROVE  /\ job' \in [Requests -> Jobs] /\ job'[r].pc = pc
         /\ \A q \in Requests \ {r} : job'[q] = job[q]
  BY DEF Jobs

\* A message for the voice: handleSynthesize, handleChunkAck, cancelActiveRequest and the
\* worker's counterparts.
LEMMA HostReceiveInv ==
  ASSUME Inv, HostReceive
  PROVE  Inv' /\ UNCHANGED <<made, got, end>>
<1> DEFINE m == toHost[1]
           r == m.req
<1>1. toHost \in Seq(Messages) /\ toHost # <<>> /\ toHost' = Tail(toHost)
  BY DEF HostReceive, Inv, TypeOK
<1>2. /\ toHost' \in Seq(Messages) /\ m \in Messages /\ Head(toHost) = m
      /\ 1 \in DOMAIN toHost
      /\ \A i \in DOMAIN toHost' : i + 1 \in DOMAIN toHost /\ toHost'[i] = toHost[i + 1] /\ i \in Nat /\ i > 0
  BY <1>1, Received
<1>3. UNCHANGED <<kind, streams, end, cancelled, limit, got, pending, made>>
  BY DEF HostReceive, pageVars
<1>4. r \in Requests /\ job \in [Requests -> Jobs] /\ job[r] \in Jobs
  BY <1>2 DEF Inv, TypeOK, Messages
<1>5. /\ job' \in [Requests -> Jobs]
      /\ \A q \in Requests \ {r} : job'[q] = job[q]
      /\ \/ job'[r].pc = job[r].pc
         \/ job[r].pc # "gone" /\ job'[r].pc = "gone"
         \/ m.type = "synthesize" /\ job'[r].pc = "run"
         \/ m.type = "chunk-ack" /\ job[r].pc = "ack" /\ job'[r].pc = "run"
      /\ m.type # "synthesize" /\ job[r].pc = "none" => job'[r].pc = "none"
      /\ \/ toPage' = toPage
         \/ \E t \in {"error", "response"}, ok \in BOOLEAN :
              toPage' = Append(toPage, Msg(t, r, 0, ok)) /\ job'[r].pc = "gone"
  <2>1. CASE OnSynthesize(m)
    <3>1. m.type = "synthesize" /\ job[r].pc = "none"
      BY <1>2, <1>4, <2>1 DEF OnSynthesize, Inv, Asked, Asks
    <3>2. CASE job' = [job EXCEPT ![r].pc = "run"] /\ toPage' = toPage
      BY <1>4, <3>1, <3>2, SetPc
    <3>3. CASE /\ job' = [job EXCEPT ![r].pc = "gone"]
               /\ toPage' = Append(toPage, Msg("error", r, 0, FALSE))
      BY <1>4, <3>1, <3>3, SetPc
    <3> QED
      BY <2>1, <3>2, <3>3 DEF OnSynthesize
  <2>2. CASE m.type # "synthesize" /\ job[r].pc \in {"run", "ack"} /\ Respond(r, TRUE)
    <3>1. job' = [job EXCEPT ![r].pc = "gone"] /\ toPage' = Append(toPage, Msg("response", r, 0, TRUE))
      BY <2>2 DEF Respond
    <3> QED
      BY <1>4, <2>2, <3>1, SetPc
  <2>3. CASE job' = job /\ toPage' = toPage
    BY <1>4, <2>3
  <2>4. CASE OnChunkAck(m)
    <3>1. CASE job[r].pc = "ack" /\ m.ok /\ job' = [job EXCEPT ![r].pc = "run"] /\ toPage' = toPage
      BY <1>4, <2>4, <3>1, SetPc DEF OnChunkAck
    <3>2. m.type = "chunk-ack"
      BY <2>4 DEF OnChunkAck
    <3> QED
      BY <2>2, <2>3, <2>4, <3>1, <3>2 DEF OnChunkAck
  <2>5. CASE OnCancel(m)
    <3>1. CASE /\ job' = [job EXCEPT ![r].cancelled = TRUE] /\ toPage' = toPage
      BY <1>4, <2>5, <3>1 DEF OnCancel, Jobs
    <3>2. m.type = "cancel"
      BY <2>5 DEF OnCancel
    <3> QED
      BY <1>4, <2>2, <2>3, <2>5, <3>1, <3>2 DEF OnCancel
  <2> QED
    BY <1>2, <2>1, <2>4, <2>5 DEF HostReceive
<1>6. m.type = "synthesize" => job[r].pc = "none" /\ end[r] # "none"
  BY <1>2, <1>4 DEF Inv, Asked, Asks
<1> HIDE DEF r
<1>7. \A q \in Requests : job[q].pc = "gone" => job'[q].pc = "gone"
  BY <1>5, <1>6
<1>8. \A q \in Requests : end[q] = "none" => job'[q].pc = "none"
  BY <1>4, <1>5, <1>6 DEF Inv, Life
<1>9. \/ toPage' = toPage
      \/ \E e \in Messages : /\ toPage' = Append(toPage, e)
                             /\ e.type \in {"done", "error", "response"}
                             /\ job'[e.req].pc = "gone"
  <2>1. ASSUME NEW t \in {"error", "response"}, NEW ok \in BOOLEAN
        PROVE  Msg(t, r, 0, ok) \in Messages /\ Msg(t, r, 0, ok).req = r /\ Msg(t, r, 0, ok).type = t
    <3>1. 0 \in 0 .. MaxPieces
      BY SpeechAssumption
    <3> QED
      BY <1>4, <3>1 DEF Msg, Messages
  <2> QED
    BY <1>5, <2>1
<1>10. /\ TypeOK' /\ OpenStreams' /\ Life' /\ Numbered' /\ LastIsLast' /\ Delivered'
       /\ \A q \in Requests, i \in DOMAIN toPage' :
             Audio(toPage'[i], q) => i \in DOMAIN toPage /\ Audio(toPage[i], q)
  BY <1>2, <1>3, <1>5, <1>7, <1>8, <1>9, VoiceKeeps
<1>11. Asked'
  <2> SUFFICES ASSUME NEW q \in Requests, NEW i \in DOMAIN toHost', Asks(toHost'[i], q)
               PROVE  /\ job'[q].pc = "none" /\ end'[q] # "none"
                      /\ \A j \in DOMAIN toHost' : Asks(toHost'[j], q) => j = i
    BY DEF Asked
  <2>1. i + 1 \in DOMAIN toHost /\ i + 1 # 1 /\ Asks(toHost[i + 1], q)
    BY <1>2
  <2>2. job[q].pc = "none" /\ end[q] # "none" /\ ~Asks(m, q)
    BY <1>2, <2>1 DEF Inv, Asked
  <2>3. job'[q].pc = "none"
    <3>1. CASE q = r
      BY <1>4, <1>5, <2>2, <3>1 DEF Asks, r
    <3>2. CASE q # r
      BY <1>5, <2>2, <3>2
    <3> QED
      BY <3>1, <3>2
  <2>4. \A j \in DOMAIN toHost' : Asks(toHost'[j], q) => j = i
    BY <1>2, <2>1 DEF Inv, Asked
  <2> QED
    BY <1>3, <2>2, <2>3, <2>4
<1>12. OneFlight'
  <2> SUFFICES ASSUME kind = "moss", NEW q \in Requests PROVE OneFlightOf(q)'
    BY <1>3 DEF OneFlight
  <2>1. OneFlightOf(q)
    BY DEF Inv, OneFlight
  <2>2. \A i \in DOMAIN toHost' : Ack(toHost'[i], q) => i + 1 \in DOMAIN toHost /\ Ack(toHost[i + 1], q)
    BY <1>2
  <2>3. \A i, j \in DOMAIN toHost' : Ack(toHost'[i], q) /\ Ack(toHost'[j], q) => i = j
    BY <1>2, <2>1, <2>2 DEF OneFlightOf
  <2>4. ASSUME job'[q].pc \in {"none", "run"}
        PROVE  /\ \A i \in DOMAIN toPage' : ~Audio(toPage'[i], q)
               /\ \A i \in DOMAIN toHost' : ~Ack(toHost'[i], q)
    <3>1. CASE job[q].pc \in {"none", "run"}
      BY <1>10, <2>1, <2>2, <3>1 DEF OneFlightOf
    <3>2. CASE job[q].pc \notin {"none", "run"}
      <4>1. q = r /\ m.type = "chunk-ack"
        BY <1>5, <1>6, <2>4, <3>2
      <4>2. Ack(m, q)
        BY <4>1 DEF Ack, r
      <4>3. \A i \in DOMAIN toHost' : ~Ack(toHost'[i], q)
        BY <1>2, <2>1, <2>2, <4>2 DEF OneFlightOf
      <4>4. \A i \in DOMAIN toPage' : ~Audio(toPage'[i], q)
        BY <1>2, <1>10, <2>1, <4>2 DEF OneFlightOf
      <4> QED
        BY <4>3, <4>4
    <3> QED
      BY <3>1, <3>2
  <2> QED
    BY <1>10, <2>1, <2>2, <2>3, <2>4 DEF OneFlightOf
<1> QED
  BY <1>3, <1>10, <1>11, <1>12 DEF Inv

\* The voice posts its next piece (postAudioChunkAndWaitAck, synthesize).
LEMMA PieceInv ==
  ASSUME Inv, NEW r \in Requests, job[r].pc = "run", made[r] < MaxPieces,
         made' = [made EXCEPT ![r] = @ + 1],
         NEW m \in Messages, toPage' = Append(toPage, m), Audio(m, r), m.piece = made[r] + 1,
         UNCHANGED <<kind, streams, end, cancelled, limit, got, pending, toHost>>,
         job' \in [Requests -> Jobs], \A q \in Requests \ {r} : job'[q] = job[q],
         job'[r].pc \in {"run", "ack"}, kind = "moss" => job'[r].pc = "ack"
  PROVE  Inv' /\ Promise!Make(r)
<1>1. toPage \in Seq(Messages)
  BY DEF Inv, TypeOK
<1>2. /\ toPage' \in Seq(Messages) /\ Len(toPage) \in Nat
      /\ DOMAIN toPage = 1 .. Len(toPage) /\ DOMAIN toPage' = 1 .. Len(toPage) + 1
      /\ \A i \in 1 .. Len(toPage) : toPage'[i] = toPage[i] /\ toPage[i] \in Messages
      /\ toPage'[Len(toPage) + 1] = m
  BY <1>1, Posted
<1>3. made[r] \in Nat /\ made \in [Requests -> 0 .. MaxPieces] /\ MaxPieces \in Nat
  BY SpeechAssumption DEF Inv, TypeOK
<1>4. /\ made' \in [Requests -> 0 .. MaxPieces] /\ made'[r] = made[r] + 1
      /\ \A q \in Requests \ {r} : made'[q] = made[q]
  BY <1>3
<1>5. end[r] \in {"open", "error"}
  BY DEF Inv, TypeOK, Life
<1>6. \A q \in Requests \ {r} : ~Audio(m, q)
  BY DEF Audio
<1>7. TypeOK' /\ OpenStreams'
  BY <1>2, <1>4 DEF Inv, TypeOK, OpenStreams
<1>8. Life'
  BY <1>4, <1>5 DEF Inv, Life
<1>9. Asked'
  BY DEF Inv, Asked
<1>10. Numbered'
  <2> SUFFICES ASSUME NEW q \in Requests, NEW i \in DOMAIN toPage', Audio(toPage'[i], q)
               PROVE  /\ 0 < toPage'[i].piece /\ toPage'[i].piece <= made'[q]
                      /\ \A j \in DOMAIN toPage' :
                            i < j /\ Audio(toPage'[j], q) => toPage'[i].piece < toPage'[j].piece
    BY DEF Numbered
  <2>1. CASE i = Len(toPage) + 1
    BY <1>2, <1>3, <1>4, <1>6, <2>1
  <2>2. CASE i \in 1 .. Len(toPage)
    <3>1. /\ 0 < toPage[i].piece /\ toPage[i].piece <= made[q]
          /\ \A j \in 1 .. Len(toPage) : i < j /\ Audio(toPage[j], q) => toPage[i].piece < toPage[j].piece
      BY <1>2, <2>2 DEF Inv, Numbered
    <3>2. made[q] \in Nat /\ toPage[i].piece \in Nat
      BY <1>2, <1>3, <2>2 DEF Messages
    <3> QED
      BY <1>2, <1>3, <1>4, <1>6, <2>2, <3>1, <3>2
  <2> QED
    BY <1>2, <2>1, <2>2
<1>11. LastIsLast'
  <2>1. ~Last(m, r) /\ \A q \in Requests : ~Last(m, q)
    BY DEF Audio, Last
  <2> SUFFICES ASSUME NEW q \in Requests, NEW i \in DOMAIN toPage', Last(toPage'[i], q)
               PROVE  /\ job'[q].pc = "gone"
                      /\ \A j \in DOMAIN toPage' : i < j => ~Audio(toPage'[j], q)
    BY DEF LastIsLast
  <2>2. i \in 1 .. Len(toPage) /\ Last(toPage[i], q)
    BY <1>2, <2>1
  <2>3. /\ job[q].pc = "gone"
        /\ \A j \in 1 .. Len(toPage) : i < j => ~Audio(toPage[j], q)
    BY <1>2, <2>2 DEF Inv, LastIsLast
  <2> QED
    BY <1>2, <1>6, <2>3
<1>12. Delivered'
  <2> SUFFICES ASSUME NEW q \in Requests PROVE DeliveredTo(q)'
    BY DEF Delivered
  <2>0. DeliveredTo(q) /\ Len(got[q]) \in Nat /\ made[q] \in Nat
    BY <1>3, LenProperties DEF Inv, TypeOK, Delivered
  <2>1. CASE q = r
    <3>1. Len(got'[q]) <= made'[q]
      BY <1>3, <1>4, <2>0, <2>1 DEF DeliveredTo
    <3>2. ASSUME end'[q] = "open", NEW i \in DOMAIN toPage', Audio(toPage'[i], q)
          PROVE  Len(got'[q]) < toPage'[i].piece
      <4>1. CASE i = Len(toPage) + 1
        BY <1>2, <1>3, <2>0, <2>1, <4>1 DEF DeliveredTo
      <4>2. CASE i \in 1 .. Len(toPage)
        BY <1>2, <2>0, <2>1, <3>2, <4>2 DEF DeliveredTo
      <4> QED
        BY <1>2, <4>1, <4>2
    <3>3. ASSUME end'[q] = "open", NEW n \in 1 .. made'[q], Len(got'[q]) < n
          PROVE  \E i \in DOMAIN toPage' : Audio(toPage'[i], q) /\ toPage'[i].piece = n
      <4>1. CASE n = made[r] + 1
        BY <1>2, <2>1, <4>1
      <4>2. CASE n # made[r] + 1
        <5>1. n \in 1 .. made[q]
          BY <1>3, <1>4, <2>1, <4>2
        <5>2. PICK i \in DOMAIN toPage : Audio(toPage[i], q) /\ toPage[i].piece = n
          BY <2>0, <3>3, <5>1 DEF DeliveredTo
        <5> QED
          BY <1>2, <5>2
      <4> QED
        BY <4>1, <4>2
    <3> QED
      BY <3>1, <3>2, <3>3 DEF DeliveredTo
  <2>2. CASE q # r
    <3>1. made'[q] = made[q] /\ got'[q] = got[q] /\ end'[q] = end[q]
      BY <1>4, <2>2
    <3>2. \A i \in DOMAIN toPage' : Audio(toPage'[i], q) => i \in DOMAIN toPage /\ toPage'[i] = toPage[i]
      BY <1>2, <1>6, <2>2
    <3>3. \A i \in DOMAIN toPage : i \in DOMAIN toPage' /\ toPage'[i] = toPage[i]
      BY <1>2
    <3> QED
      BY <2>0, <3>1, <3>2, <3>3 DEF DeliveredTo
  <2> QED
    BY <2>1, <2>2
<1>13. OneFlight'
  <2> SUFFICES ASSUME kind = "moss", NEW q \in Requests PROVE OneFlightOf(q)'
    BY DEF OneFlight
  <2>1. OneFlightOf(q) /\ OneFlightOf(r)
    BY DEF Inv, OneFlight
  <2>2. CASE q = r
    BY <1>2, <2>1, <2>2 DEF OneFlightOf
  <2>3. CASE q # r
    <3>1. \A i \in DOMAIN toPage' : Audio(toPage'[i], q) => i \in DOMAIN toPage /\ Audio(toPage[i], q)
      BY <1>2, <1>6, <2>3
    <3> QED
      BY <2>1, <2>3, <3>1 DEF OneFlightOf
  <2> QED
    BY <2>2, <2>3
<1>14. Promise!Make(r)
  BY <1>5 DEF Promise!Make
<1> QED
  BY <1>7, <1>8, <1>9, <1>10, <1>11, <1>12, <1>13, <1>14 DEF Inv

\* A synthesis ends, with a last message or, when Kitten was cancelled, without one.
LEMMA GoneInv ==
  ASSUME Inv, NEW r \in Requests, job[r].pc = "run", job' = [job EXCEPT ![r].pc = "gone"],
         UNCHANGED <<kind, streams, end, cancelled, limit, got, pending, toHost, made>>,
         \/ toPage' = toPage
         \/ \E t \in {"done", "error", "response"}, ok \in BOOLEAN :
               toPage' = Append(toPage, Msg(t, r, 0, ok))
  PROVE  Inv'
<1>1. job \in [Requests -> Jobs] /\ toHost \in Seq(Messages)
  BY DEF Inv, TypeOK
<1>2. /\ job' \in [Requests -> Jobs] /\ job'[r].pc = "gone"
      /\ \A q \in Requests \ {r} : job'[q] = job[q]
  BY <1>1, SetPc
<1>3. \/ toPage' = toPage
      \/ \E e \in Messages : /\ toPage' = Append(toPage, e)
                             /\ e.type \in {"done", "error", "response"}
                             /\ job'[e.req].pc = "gone"
  <2>1. ASSUME NEW t \in {"done", "error", "response"}, NEW ok \in BOOLEAN
        PROVE  Msg(t, r, 0, ok) \in Messages /\ Msg(t, r, 0, ok).req = r /\ Msg(t, r, 0, ok).type = t
    <3>1. 0 \in 0 .. MaxPieces
      BY SpeechAssumption
    <3> QED
      BY <3>1 DEF Msg, Messages
  <2> QED
    BY <1>2, <2>1
<1>4. \A q \in Requests : end[q] = "none" => job'[q].pc = "none"
  BY <1>2 DEF Inv, Life
<1>5. /\ TypeOK' /\ OpenStreams' /\ Life' /\ Numbered' /\ LastIsLast' /\ Delivered'
      /\ \A q \in Requests, i \in DOMAIN toPage' :
            Audio(toPage'[i], q) => i \in DOMAIN toPage /\ Audio(toPage[i], q)
  BY <1>1, <1>2, <1>3, <1>4, VoiceKeeps
<1>6. Asked'
  BY <1>2 DEF Inv, Asked
<1>7. OneFlight'
  BY <1>2, <1>5 DEF Inv, OneFlight, OneFlightOf
<1> QED
  BY <1>5, <1>6, <1>7 DEF Inv

\* A step of a synthesis: a piece more, or its end.
LEMMA RunInv ==
  ASSUME Inv, NEW r \in Requests, Run(r)
  PROVE  Inv' /\ (Promise!Make(r) \/ UNCHANGED <<made, got, end>>)
<1>1. /\ UNCHANGED <<kind, streams, end, cancelled, limit, got, pending, toHost>>
      /\ MossPiece(r) \/ MossEnd(r) \/ KittenPiece(r) \/ KittenEnd(r)
  BY DEF Run, pageVars
<1>2. /\ job \in [Requests -> Jobs] /\ made \in [Requests -> 0 .. MaxPieces]
      /\ made[r] \in Nat /\ MaxPieces \in Nat
  BY SpeechAssumption DEF Inv, TypeOK
<1>3. CASE MossPiece(r)
  <2> DEFINE m == Msg("audio-chunk", r, made[r] + 1, TRUE)
  <2>1. /\ job[r].pc = "run" /\ made[r] < MaxPieces /\ made' = [made EXCEPT ![r] = @ + 1]
        /\ toPage' = Append(toPage, m) /\ job' = [job EXCEPT ![r].pc = "ack"]
    BY <1>3 DEF MossPiece, NextPiece, AwaitAck
  <2>2. m \in Messages /\ Audio(m, r) /\ m.piece = made[r] + 1
    BY <1>2, <2>1 DEF Msg, Messages, Audio
  <2> HIDE DEF m
  <2>3. /\ job' \in [Requests -> Jobs] /\ job'[r].pc = "ack"
        /\ \A q \in Requests \ {r} : job'[q] = job[q]
    BY <1>2, <2>1, SetPc
  <2> QED
    BY <1>1, <2>1, <2>2, <2>3, PieceInv
<1>4. CASE MossEnd(r)
  <2>1. \E ok \in BOOLEAN : Respond(r, ok)
    BY <1>4, Zenon DEF MossEnd
  <2>2. /\ job[r].pc = "run" /\ job' = [job EXCEPT ![r].pc = "gone"] /\ made' = made
        /\ \E ok \in BOOLEAN : toPage' = Append(toPage, Msg("response", r, 0, ok))
    BY <1>4, <2>1 DEF MossEnd, Respond
  <2> QED
    BY <1>1, <2>2, GoneInv
<1>5. CASE KittenPiece(r)
  <2>1. CASE made[r] + 1 > WorkerLimit
    <3>1. /\ job[r].pc = "run" /\ job' = [job EXCEPT ![r].pc = "gone"] /\ made' = made
          /\ toPage' = Append(toPage, Msg("error", r, 0, FALSE))
      BY <1>5, <2>1 DEF KittenPiece, WorkerRefuses
    <3> QED
      BY <1>1, <3>1, GoneInv
  <2>2. CASE ~(made[r] + 1 > WorkerLimit)
    <3> DEFINE m == Msg("audio", r, made[r] + 1, TRUE)
    <3>1. /\ job[r].pc = "run" /\ made[r] < MaxPieces /\ made' = [made EXCEPT ![r] = @ + 1]
          /\ toPage' = Append(toPage, m) /\ job' = job /\ kind # "moss"
      BY <1>5, <2>2 DEF KittenPiece
    <3>2. m \in Messages /\ Audio(m, r) /\ m.piece = made[r] + 1
      BY <1>2, <3>1 DEF Msg, Messages, Audio
    <3> HIDE DEF m
    <3> QED
      BY <1>1, <1>2, <3>1, <3>2, PieceInv
  <2> QED
    BY <2>1, <2>2
<1>6. CASE KittenEnd(r)
  <2>1. /\ job[r].pc = "run" /\ job' = [job EXCEPT ![r].pc = "gone"] /\ made' = made
        /\ \/ toPage' = toPage
           \/ toPage' = Append(toPage, Msg("done", r, 0, TRUE))
           \/ toPage' = Append(toPage, Msg("error", r, 0, FALSE))
    BY <1>6 DEF KittenEnd
  <2> QED
    BY <1>1, <2>1, GoneInv
<1> QED
  BY <1>1, <1>3, <1>4, <1>5, <1>6

(***************************************************************************)
(* The theorems.                                                           *)
(***************************************************************************)
\* Every step keeps the invariant and is a step of the promise, or changes nothing of it.
LEMMA StepInv ==
  ASSUME Inv, [Next]_vars
  PROVE  Inv' /\ [Promise!Next]_(Promise!vars)
<1>1. ASSUME NEW r \in Requests, Synthesize(r) PROVE Inv' /\ Promise!Next
  BY <1>1, SynthesizeInv DEF Promise!Next
<1>2. ASSUME NEW r \in Requests, Run(r) PROVE Inv' /\ (Promise!Next \/ UNCHANGED Promise!vars)
  BY <1>2, RunInv DEF Promise!Next, Promise!vars
<1>3. CASE Stop
  <2>1. streams \in SUBSET Requests
    BY DEF Inv, TypeOK
  <2> QED
    BY <1>3, <2>1, StopInv DEF Promise!Next
<1>4. CASE PageReceive
  <2>1. \A r \in Requests : {r} \in SUBSET Requests
    OBVIOUS
  <2> QED
    BY <1>4, <2>1, PageReceiveInv DEF Promise!Next, Promise!vars
<1>5. CASE HostReceive
  BY <1>5, HostReceiveInv DEF Promise!vars
<1>6. CASE UNCHANGED vars
  <2>1. Inv'
    BY <1>6 DEF vars, Inv, TypeOK, OpenStreams, Life, Asked, Numbered, LastIsLast, Delivered,
       DeliveredTo, OneFlight, OneFlightOf
  <2> QED
    BY <1>6, <2>1 DEF vars, Promise!vars
<1> QED
  BY <1>1, <1>2, <1>3, <1>4, <1>5, <1>6 DEF Next

\* The invariant holds in every reachable state.
LEMMA Invariance == Spec => []Inv
<1>1. Inv /\ [Next]_vars => Inv'
  BY StepInv
<1> QED
  BY <1>1, InitInv, PTL DEF Spec

\* The page's streams implement SpeechStream: each gets the pieces its voice makes, in
\* order, once, and ends well only with all of them, for both voices, any number of
\* requests and any interleaving of pieces, acks, cancels and late answers.
THEOREM KeepsPromiseHolds == Spec => KeepsPromise
<1>1. Init => Promise!Init
  BY DEF Init, Promise!Init
<1>2. Inv /\ [Next]_vars => [Promise!Next]_(Promise!vars)
  BY StepInv
<1> QED
  BY <1>1, <1>2, Invariance, PTL DEF Spec, KeepsPromise, Promise!Spec

\* postAudioChunkAndWaitAck holds MOSS back: of the pieces of a request and their acks
\* there is one under way at most.
THEOREM OneUnderWayHolds == Spec => []OneUnderWay
<1>1. Inv => OneUnderWay
  <2> SUFFICES ASSUME Inv, kind = "moss", NEW r \in Requests
               PROVE  Cardinality({i \in DOMAIN toPage :
                            toPage[i].type = "audio-chunk" /\ toPage[i].req = r})
                    + Cardinality({i \in DOMAIN toHost :
                            toHost[i].type = "chunk-ack" /\ toHost[i].req = r}) <= 1
    BY DEF OneUnderWay, Inv
  <2> DEFINE P == {i \in DOMAIN toPage : toPage[i].type = "audio-chunk" /\ toPage[i].req = r}
             H == {i \in DOMAIN toHost : toHost[i].type = "chunk-ack" /\ toHost[i].req = r}
  <2>1. /\ \A i, j \in P : i = j
        /\ \A i, j \in H : i = j
        /\ P = {} \/ H = {}
    BY DEF Inv, OneFlight, OneFlightOf, Audio, Ack
  <2> HIDE DEF P, H
  <2>2. P = {} \/ \E x : P = {x}
    <3> SUFFICES ASSUME NEW x \in P PROVE P = {x}
      OBVIOUS
    <3> QED
      BY <2>1
  <2>3. H = {} \/ \E x : H = {x}
    <3> SUFFICES ASSUME NEW x \in H PROVE H = {x}
      OBVIOUS
    <3> QED
      BY <2>1
  <2>4. (Cardinality(P) = 0 /\ P = {}) \/ Cardinality(P) = 1
    BY <2>2, FS_EmptySet, FS_Singleton
  <2>5. (Cardinality(H) = 0 /\ H = {}) \/ Cardinality(H) = 1
    BY <2>3, FS_EmptySet, FS_Singleton
  <2>6. Cardinality(P) + Cardinality(H) <= 1
    BY <2>1, <2>4, <2>5, FS_EmptySet
  <2> QED
    BY <2>6 DEF P, H
<1> QED
  BY <1>1, Invariance, PTL
=============================================================================
