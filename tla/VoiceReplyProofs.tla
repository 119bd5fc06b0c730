--------------------------- MODULE VoiceReplyProofs ---------------------------
(***************************************************************************)
(* Theorems about VoiceReply for any number of voice turns, requests for   *)
(* speech, presses of Listen and phrases of an answer, whichever of them   *)
(* the system voice reads.                                                 *)
(***************************************************************************)
EXTENDS VoiceReply, SequenceTheorems, TLAPS

(***************************************************************************)
(* The phrases of one reply, as values: what was said, the links of the    *)
(* chain, those of them that have not sounded, the batch, the queue and    *)
(* the number of phrases cut from the answer.                              *)
(***************************************************************************)
\* Two phrases go to the same voice.
Same(p, q) == p \in Repeats <=> q \in Repeats

Ordered(s) == \A i, j \in DOMAIN s : i < j /\ Same(s[i], s[j]) => s[i] < s[j]

Before(s, t) == \A i \in DOMAIN s, j \in DOMAIN t : Same(s[i], t[j]) => s[i] < t[j]

Within(s, n) == \A i \in DOMAIN s : s[i] <= n

Neural(s) == \A i \in DOMAIN s : s[i] \notin Repeats

In(x, s) == \E i \in DOMAIN s : s[i] = x

\* The links of chain c that have not sounded, when pl says that the first has started and g
\* which streams have delivered audio.
Unheard(c, pl, g) ==
    {i \in DOMAIN c : \/ i # 1
                      \/ ~pl
                      \/ c[i].kind = "neural" /\ ~g[c[i].utter]}

\* What was said comes before the links not yet heard, these before the batch and the batch
\* before the queue, for each voice.
Order(s, c, left, b, p, n) ==
    /\ Ordered(s) /\ Ordered(b) /\ Ordered(p)
    /\ Before(s, b) /\ Before(s, p) /\ Before(b, p)
    /\ Within(s, n) /\ Within(b, n) /\ Within(p, n)
    /\ Neural(b) /\ Neural(p)
    /\ \A i \in DOMAIN c : /\ Ordered(c[i].phrases) /\ Within(c[i].phrases, n)
                           /\ Before(c[i].phrases, b) /\ Before(c[i].phrases, p)
    /\ \A i \in left : Before(s, c[i].phrases)
    /\ \A i, j \in DOMAIN c : i < j => Before(c[i].phrases, c[j].phrases)

\* No phrase is lost.
Complete(s, c, left, b, p, n) ==
    \A x \in 1 .. n : \/ In(x, s) \/ In(x, b) \/ In(x, p)
                      \/ \E i \in left : In(x, c[i].phrases)

(***************************************************************************)
(* The invariants.                                                         *)
(***************************************************************************)
\* Turns follow each other; the one under way is the one that may speak, unless the user has
\* ended the conversation.
Turns ==
    /\ \A r \in Runs : turn[r] = "no" => r \notin cancelled /\ queued[r] = 0 /\ voiceStream # r
    /\ \A r \in cancelled : voiceStream # r
    /\ \A q, r \in Runs : q < r /\ turn[r] # "no" => q \in cancelled \/ turn[q] \in {"over", "aborted"}
    /\ \A r \in Runs : turn[r] \in {"answer", "drain", "chain", "playback"}
                         => r \in cancelled \/ voiceStream = r

\* A neural link has a stream that was opened.
LinksAt(r) ==
    \A i \in DOMAIN chain[r] :
        IF chain[r][i].kind = "system" THEN chain[r][i].utter = None
        ELSE chain[r][i].utter \in Utterances /\ end[chain[r][i].utter] # "none"

\* Only a pump under way has a batch, and a reply that has drained has nothing left.
PumpAt(r) ==
    /\ pump[r] # "settled" => workerActive[r]
    /\ pump[r] # "prepare" => batch[r] = <<>>
    /\ turn[r] \in {"chain", "playback", "over"}
         => pump[r] # "prepare" /\ pendingPhrases[r] = <<>>
    /\ turn[r] \in {"playback", "over"} => chain[r] = <<>>

\* A link under way is the first of its chain; in a conversation that was ended it has no
\* stream that could still deliver.
SilencedAt(r) ==
    playing[r] => /\ chain[r] # <<>>
                  /\ r \in cancelled /\ chain[r][1].kind = "neural" => end[chain[r][1].utter] # "open"

OrderAt(r) == Order(said[r], chain[r], Unheard(chain[r], playing[r], got), batch[r],
                    pendingPhrases[r], queued[r])

CompleteAt(r) == Complete(said[r], chain[r], Unheard(chain[r], playing[r], got), batch[r],
                          pendingPhrases[r], queued[r])

\* A reply that was not aborted, cancelled or shown to have failed has lost no phrase.
PhrasesAt(r) ==
    /\ OrderAt(r)
    /\ turn[r] # "aborted" /\ r \notin cancelled /\ ~failed[r] => CompleteAt(r)

RunAt(r) == LinksAt(r) /\ PumpAt(r) /\ SilencedAt(r) /\ PhrasesAt(r)

Inv == TypeOK /\ Turns /\ \A r \in Runs : RunAt(r)

-----------------------------------------------------------------------------
(* Lemmas about phrases. *)

LEMMA PhrasesAreNumbers == Phrases \subseteq Nat /\ MaxPhrases \in Nat
  BY ReplyAssumption DEF Phrases

LEMMA NumbersIn == \A u \in Seq(Phrases) : \A i \in DOMAIN u : u[i] \in Nat
<1> SUFFICES ASSUME NEW u \in Seq(Phrases), NEW i \in DOMAIN u PROVE u[i] \in Nat
  OBVIOUS
<1>1. u[i] \in Phrases
  OBVIOUS
<1> QED
  BY <1>1, PhrasesAreNumbers

\* What holds of two sequences holds of one after the other.
LEMMA Concatenated ==
  ASSUME NEW s \in Seq(Phrases), NEW t \in Seq(Phrases), NEW u \in Seq(Phrases), NEW n \in Nat
  PROVE  /\ s \o t \in Seq(Phrases)
         /\ Ordered(s) /\ Ordered(t) /\ Before(s, t) => Ordered(s \o t)
         /\ Before(s, u) /\ Before(t, u) => Before(s \o t, u)
         /\ Before(u, s) /\ Before(u, t) => Before(u, s \o t)
         /\ Within(s, n) /\ Within(t, n) => Within(s \o t, n)
         /\ Neural(s) /\ Neural(t) => Neural(s \o t)
         /\ \A x : In(x, s) \/ In(x, t) <=> In(x, s \o t)
<1> DEFINE c == s \o t
<1>1. /\ c \in Seq(Phrases) /\ Len(c) = Len(s) + Len(t) /\ DOMAIN c = 1 .. Len(c)
      /\ DOMAIN s = 1 .. Len(s) /\ DOMAIN t = 1 .. Len(t) /\ Len(s) \in Nat /\ Len(t) \in Nat
  OBVIOUS
<1>2. \A i \in DOMAIN c : /\ i <= Len(s) => i \in DOMAIN s /\ c[i] = s[i]
                          /\ i > Len(s) => i - Len(s) \in DOMAIN t /\ c[i] = t[i - Len(s)]
  BY <1>1
<1>3. /\ \A i \in DOMAIN s : i \in DOMAIN c /\ c[i] = s[i]
      /\ \A i \in DOMAIN t : i + Len(s) \in DOMAIN c /\ c[i + Len(s)] = t[i]
  <2>1. \A i \in DOMAIN s : i \in DOMAIN c /\ c[i] = s[i]
    BY <1>1
  <2>2. \A i \in DOMAIN t : i + Len(s) \in DOMAIN c /\ c[i + Len(s)] = t[i]
    BY <1>1
  <2> QED
    BY <2>1, <2>2
<1> HIDE DEF c
<1>4. Ordered(s) /\ Ordered(t) /\ Before(s, t) => Ordered(c)
  <2> SUFFICES ASSUME Ordered(s), Ordered(t), Before(s, t), NEW i \in DOMAIN c, NEW j \in DOMAIN c,
                      i < j, Same(c[i], c[j])
               PROVE  c[i] < c[j]
    BY DEF Ordered
  <2>0. i \in Nat /\ j \in Nat
    BY <1>1
  <2>1. CASE j <= Len(s)
    BY <1>1, <1>2, <2>0, <2>1 DEF Ordered
  <2>2. CASE i > Len(s)
    BY <1>1, <1>2, <2>0, <2>2 DEF Ordered
  <2>3. CASE i <= Len(s) /\ j > Len(s)
    BY <1>1, <1>2, <2>0, <2>3 DEF Before
  <2> QED
    BY <1>1, <2>0, <2>1, <2>2, <2>3
<1>5. Before(s, u) /\ Before(t, u) => Before(c, u)
  BY <1>1, <1>2 DEF Before
<1>6. Before(u, s) /\ Before(u, t) => Before(u, c)
  BY <1>1, <1>2 DEF Before
<1>7. \A i \in DOMAIN c : \/ \E j \in DOMAIN s : c[i] = s[j]
                          \/ \E j \in DOMAIN t : c[i] = t[j]
  BY <1>1, <1>2
<1>8. /\ Within(s, n) /\ Within(t, n) => Within(c, n)
      /\ Neural(s) /\ Neural(t) => Neural(c)
  <2>1. Within(s, n) /\ Within(t, n) => Within(c, n)
    BY <1>7 DEF Within
  <2>2. Neural(s) /\ Neural(t) => Neural(c)
    BY <1>7 DEF Neural
  <2> QED
    BY <2>1, <2>2
<1>9. \A x : In(x, s) \/ In(x, t) <=> In(x, c)
  <2>1. \A x : In(x, s) \/ In(x, t) => In(x, c)
    BY <1>3 DEF In
  <2>2. \A x : In(x, c) => In(x, s) \/ In(x, t)
    BY <1>7 DEF In
  <2> QED
    BY <2>1, <2>2
<1> QED
  BY <1>1, <1>4, <1>5, <1>6, <1>8, <1>9 DEF c

\* Cutting a sequence in two keeps and loses nothing.
LEMMA Cut ==
  ASSUME NEW p \in Seq(Phrases), NEW k \in 1 .. Len(p)
  PROVE  LET s == SubSeq(p, 1, k)
             t == SubSeq(p, k + 1, Len(p))
         IN  /\ s \in Seq(Phrases) /\ t \in Seq(Phrases) /\ s # <<>>
             /\ Ordered(p) => Ordered(s) /\ Ordered(t) /\ Before(s, t)
             /\ \A u : Before(u, p) => Before(u, s) /\ Before(u, t)
             /\ \A n : Within(p, n) => Within(s, n) /\ Within(t, n)
             /\ Neural(p) => Neural(s) /\ Neural(t)
             /\ \A x : In(x, p) => In(x, s) \/ In(x, t)
<1> DEFINE s == SubSeq(p, 1, k)
           t == SubSeq(p, k + 1, Len(p))
<1>1. /\ s \in Seq(Phrases) /\ DOMAIN s = 1 .. k /\ Len(s) = k
      /\ DOMAIN p = 1 .. Len(p) /\ Len(p) \in Nat /\ k \in Nat
      /\ \A i \in DOMAIN s : i \in DOMAIN p /\ s[i] = p[i]
  OBVIOUS
<1>2. /\ t \in Seq(Phrases) /\ DOMAIN t = 1 .. Len(p) - k
      /\ \A i \in DOMAIN t : k + i \in DOMAIN p /\ t[i] = p[k + i]
  OBVIOUS
<1>3. \A i \in DOMAIN p : \/ i \in DOMAIN s
                          \/ i - k \in DOMAIN t /\ t[i - k] = p[i]
  BY <1>1, <1>2
<1>4. s # <<>>
  BY <1>1, Len(<<>>) = 0, k # 0
<1> HIDE DEF s, t
<1>5. Ordered(p) => Ordered(s)
  BY <1>1 DEF Ordered
<1>6. Ordered(p) => Ordered(t)
  BY <1>1, <1>2 DEF Ordered
<1>7. Ordered(p) => Before(s, t)
  BY <1>1, <1>2 DEF Ordered, Before
<1>8. /\ \A u : Before(u, p) => Before(u, s) /\ Before(u, t)
      /\ \A n : Within(p, n) => Within(s, n) /\ Within(t, n)
      /\ Neural(p) => Neural(s) /\ Neural(t)
  BY <1>1, <1>2 DEF Before, Within, Neural
<1>9. \A x : In(x, p) => In(x, s) \/ In(x, t)
  BY <1>1, <1>3 DEF In
<1> QED
  BY <1>1, <1>2, <1>4, <1>5, <1>6, <1>7, <1>8, <1>9 DEF s, t

LEMMA Nothing ==
  /\ <<>> \in Seq(Phrases) /\ Ordered(<<>>) /\ Neural(<<>>)
  /\ \A s : Before(s, <<>>) /\ Before(<<>>, s)
  /\ \A n : Within(<<>>, n)
  /\ \A x : ~In(x, <<>>)
  BY DEF Ordered, Neural, Before, Within, In

\* The first link, not heard so far, is given to a loudspeaker.
LEMMA Spoken ==
  ASSUME NEW s \in Seq(Phrases), NEW c \in Seq(Links), NEW left \in SUBSET DOMAIN c,
         NEW b \in Seq(Phrases), NEW p \in Seq(Phrases), NEW n \in Nat,
         Order(s, c, left, b, p, n), 1 \in left
  PROVE  LET t == s \o c[1].phrases
         IN  /\ t \in Seq(Phrases)
             /\ Order(t, c, left \ {1}, b, p, n)
             /\ Complete(s, c, left, b, p, n) => Complete(t, c, left \ {1}, b, p, n)
<1> DEFINE h == c[1].phrases
           t == s \o h
<1>1. h \in Seq(Phrases) /\ \A i \in DOMAIN c : c[i].phrases \in Seq(Phrases) /\ i \in Nat /\ i >= 1
  <2>1. \A i \in DOMAIN c : c[i] \in Links /\ i \in Nat /\ i >= 1
    OBVIOUS
  <2>2. \A l \in Links : l.phrases \in Seq(Phrases)
    BY DEF Links
  <2> QED
    BY <2>1, <2>2
<1>2. /\ t \in Seq(Phrases)
      /\ \A u \in Seq(Phrases) : Before(s, u) /\ Before(h, u) => Before(t, u)
      /\ Ordered(s) /\ Ordered(h) /\ Before(s, h) => Ordered(t)
      /\ Within(s, n) /\ Within(h, n) => Within(t, n)
      /\ \A x : In(x, s) \/ In(x, h) <=> In(x, t)
  BY <1>1, Concatenated
<1> HIDE DEF t
<1>3. Ordered(h) /\ Within(h, n) /\ Before(h, b) /\ Before(h, p) /\ Before(s, h)
  BY DEF Order
<1>4. ASSUME NEW i \in left \ {1} PROVE Before(t, c[i].phrases)
  <2>1. i \in DOMAIN c /\ 1 \in DOMAIN c /\ 1 < i
    BY <1>1
  <2>2. Before(h, c[i].phrases) /\ Before(s, c[i].phrases)
    BY <2>1 DEF Order
  <2> QED
    BY <1>1, <1>2, <2>1, <2>2
<1>5. Ordered(t) /\ Within(t, n) /\ Before(t, b) /\ Before(t, p)
  BY <1>1, <1>2, <1>3 DEF Order
<1> HIDE DEF h
<1>6. Order(t, c, left \ {1}, b, p, n)
  BY <1>4, <1>5 DEF Order
<1>7. ASSUME Complete(s, c, left, b, p, n) PROVE Complete(t, c, left \ {1}, b, p, n)
  BY <1>2, <1>7 DEF Complete, h
<1> QED
  BY <1>2, <1>6, <1>7 DEF t, h

\* A link leaves the chain.
LEMMA Unlinked ==
  ASSUME NEW s \in Seq(Phrases), NEW c \in Seq(Links), NEW left \in SUBSET DOMAIN c,
         NEW b \in Seq(Phrases), NEW p \in Seq(Phrases), NEW n \in Nat,
         Order(s, c, left, b, p, n), c # <<>>, \A i \in DOMAIN c : i # 1 => i \in left
  PROVE  /\ Tail(c) \in Seq(Links)
         /\ Order(s, Tail(c), DOMAIN Tail(c), b, p, n)
         /\ 1 \notin left /\ Complete(s, c, left, b, p, n)
              => Complete(s, Tail(c), DOMAIN Tail(c), b, p, n)
<1> DEFINE d == Tail(c)
<1>1. /\ d \in Seq(Links) /\ DOMAIN d = 1 .. Len(c) - 1 /\ DOMAIN c = 1 .. Len(c) /\ Len(c) \in Nat
      /\ \A i \in DOMAIN d : i + 1 \in DOMAIN c /\ d[i] = c[i + 1]
  OBVIOUS
<1>2. \A i \in DOMAIN c : i # 1 => i - 1 \in DOMAIN d /\ d[i - 1] = c[i]
  BY <1>1
<1>3. \A i \in DOMAIN d : i + 1 \in left
  BY <1>1
<1> HIDE DEF d
<1>4. /\ \A i \in DOMAIN d : /\ Ordered(d[i].phrases) /\ Within(d[i].phrases, n)
                             /\ Before(d[i].phrases, b) /\ Before(d[i].phrases, p)
      /\ \A i \in DOMAIN d : Before(s, d[i].phrases)
  BY <1>1, <1>3 DEF Order
<1>5. \A i, j \in DOMAIN d : i < j => Before(d[i].phrases, d[j].phrases)
  BY <1>1 DEF Order
<1>6. Order(s, d, DOMAIN d, b, p, n)
  BY <1>4, <1>5 DEF Order
<1>7. ASSUME 1 \notin left, Complete(s, c, left, b, p, n) PROVE Complete(s, d, DOMAIN d, b, p, n)
  <2>1. \A i \in left : \E j \in DOMAIN d : d[j] = c[i]
    BY <1>2, <1>7
  <2> QED
    BY <1>7, <2>1 DEF Complete
<1> QED
  BY <1>1, <1>6, <1>7 DEF d

\* The pump forgets its batch, and perhaps takes the next one.
LEMMA Taken ==
  ASSUME NEW s \in Seq(Phrases), NEW c \in Seq(Links), NEW left \in SUBSET DOMAIN c,
         NEW b \in Seq(Phrases), NEW p \in Seq(Phrases), NEW n \in Nat,
         Order(s, c, left, b, p, n)
  PROVE  /\ Order(s, c, left, <<>>, p, n)
         /\ b = <<>> /\ Complete(s, c, left, b, p, n) => Complete(s, c, left, <<>>, p, n)
         /\ \A k \in 1 .. Len(p) :
              LET t == SubSeq(p, 1, k)
                  q == SubSeq(p, k + 1, Len(p))
              IN  /\ t \in Seq(Phrases) /\ q \in Seq(Phrases)
                  /\ Order(s, c, left, t, q, n)
                  /\ b = <<>> /\ Complete(s, c, left, b, p, n) => Complete(s, c, left, t, q, n)
<1>1. Order(s, c, left, <<>>, p, n)
  BY Nothing DEF Order
<1>2. ASSUME NEW k \in 1 .. Len(p)
      PROVE  LET t == SubSeq(p, 1, k)
                 q == SubSeq(p, k + 1, Len(p))
             IN  /\ t \in Seq(Phrases) /\ q \in Seq(Phrases)
                 /\ Order(s, c, left, t, q, n)
                 /\ b = <<>> /\ Complete(s, c, left, b, p, n) => Complete(s, c, left, t, q, n)
  <2> DEFINE t == SubSeq(p, 1, k)
             q == SubSeq(p, k + 1, Len(p))
  <2>1. /\ t \in Seq(Phrases) /\ q \in Seq(Phrases)
        /\ Ordered(p) => Ordered(t) /\ Ordered(q) /\ Before(t, q)
        /\ \A u : Before(u, p) => Before(u, t) /\ Before(u, q)
        /\ \A m : Within(p, m) => Within(t, m) /\ Within(q, m)
        /\ Neural(p) => Neural(t) /\ Neural(q)
        /\ \A x : In(x, p) => In(x, t) \/ In(x, q)
    BY Cut
  <2> HIDE DEF t, q
  <2>2. Order(s, c, left, t, q, n)
    BY <2>1 DEF Order
  <2>3. ASSUME b = <<>>, Complete(s, c, left, b, p, n) PROVE Complete(s, c, left, t, q, n)
    <3>1. \A x : ~In(x, b)
      BY <2>3, Nothing
    <3> QED
      BY <2>1, <2>3, <3>1 DEF Complete
  <2> QED
    BY <2>1, <2>2, <2>3 DEF t, q
<1> QED
  BY <1>1, <1>2

\* The batch becomes a link of the chain.
LEMMA Linked ==
  ASSUME NEW s \in Seq(Phrases), NEW c \in Seq(Links), NEW left \in SUBSET DOMAIN c,
         NEW b \in Seq(Phrases), NEW p \in Seq(Phrases), NEW n \in Nat, NEW link \in Links,
         Order(s, c, left, b, p, n), link.phrases = b
  PROVE  /\ Order(s, Append(c, link), left \cup {Len(c) + 1}, <<>>, p, n)
         /\ Complete(s, c, left, b, p, n)
              => Complete(s, Append(c, link), left \cup {Len(c) + 1}, <<>>, p, n)
<1> DEFINE d == Append(c, link)
           e == Len(c) + 1
<1>1. /\ DOMAIN d = DOMAIN c \cup {e} /\ d[e] = link /\ \A i \in DOMAIN c : d[i] = c[i]
      /\ \A i \in DOMAIN c : i < e
      /\ e \in Nat
  OBVIOUS
<1> HIDE DEF d, e
<1>2. \A i \in DOMAIN d : /\ Ordered(d[i].phrases) /\ Within(d[i].phrases, n)
                          /\ Before(d[i].phrases, <<>>) /\ Before(d[i].phrases, p)
  BY <1>1, Nothing DEF Order
<1>3. \A i \in left \cup {e} : Before(s, d[i].phrases)
  BY <1>1 DEF Order
<1>4. \A i, j \in DOMAIN d : i < j => Before(d[i].phrases, d[j].phrases)
  <2> SUFFICES ASSUME NEW i \in DOMAIN d, NEW j \in DOMAIN d, i < j
               PROVE  Before(d[i].phrases, d[j].phrases)
    OBVIOUS
  <2>1. DOMAIN c \subseteq Nat
    OBVIOUS
  <2>2. i \in DOMAIN c
    BY <1>1, <2>1
  <2> QED
    BY <1>1, <2>2 DEF Order
<1>5. Order(s, d, left \cup {e}, <<>>, p, n)
  BY <1>2, <1>3, <1>4, Nothing DEF Order
<1>6. ASSUME Complete(s, c, left, b, p, n) PROVE Complete(s, d, left \cup {e}, <<>>, p, n)
  <2>1. \A i \in left : d[i].phrases = c[i].phrases
    BY <1>1
  <2> QED
    BY <1>1, <1>6, <2>1 DEF Complete
<1> QED
  BY <1>5, <1>6 DEF d, e

\* An answer grows by the phrases x for the queue and the links y for the chain.
LEMMA Added ==
  ASSUME NEW s \in Seq(Phrases), NEW c \in Seq(Links), NEW left \in SUBSET DOMAIN c,
         NEW b \in Seq(Phrases), NEW p \in Seq(Phrases), NEW n \in Nat, NEW m \in Nat, n <= m,
         NEW x \in Seq(Phrases), NEW y \in Seq(Links),
         Order(s, c, left, b, p, n),
         Ordered(x), Neural(x), \A i \in DOMAIN x : n < x[i] /\ x[i] <= m,
         \A i \in DOMAIN y : /\ Ordered(y[i].phrases)
                             /\ \A k \in DOMAIN y[i].phrases :
                                   LET q == y[i].phrases[k] IN q \in Repeats /\ n < q /\ q <= m,
         \A i, j \in DOMAIN y : i < j => Before(y[i].phrases, y[j].phrases)
  PROVE  LET d == c \o y
             left2 == left \cup (DOMAIN d \ DOMAIN c)
         IN  /\ Order(s, d, left2, b, p \o x, m)
             /\ (/\ Complete(s, c, left, b, p, n)
                 /\ \A q \in n + 1 .. m : In(q, x) \/ \E i \in DOMAIN y : In(q, y[i].phrases))
                  => Complete(s, d, left2, b, p \o x, m)
<1> DEFINE d == c \o y
           e == Len(c)
           left2 == left \cup (DOMAIN d \ DOMAIN c)
           z == p \o x
<1>1. /\ e \in Nat /\ DOMAIN c = 1 .. e /\ d \in Seq(Links) /\ DOMAIN d \subseteq Nat
      /\ DOMAIN c \subseteq DOMAIN d
      /\ \A i \in DOMAIN c : d[i] = c[i]
  OBVIOUS
<1>2. /\ \A i \in DOMAIN d \ DOMAIN c : i > e /\ i - e \in DOMAIN y /\ d[i] = y[i - e]
      /\ \A i \in DOMAIN y : i + e \in DOMAIN d \ DOMAIN c /\ d[i + e] = y[i]
  OBVIOUS
<1>3. /\ z \in Seq(Phrases)
      /\ Ordered(p) /\ Ordered(x) /\ Before(p, x) => Ordered(z)
      /\ Within(p, m) /\ Within(x, m) => Within(z, m)
      /\ Neural(p) /\ Neural(x) => Neural(z)
      /\ \A u \in Seq(Phrases) : Before(u, p) /\ Before(u, x) => Before(u, z)
      /\ \A q : In(q, p) \/ In(q, x) <=> In(q, z)
  BY Concatenated
<1>4. /\ \A i \in DOMAIN c : c[i].phrases \in Seq(Phrases)
      /\ \A i \in DOMAIN y : y[i].phrases \in Seq(Phrases)
  <2>1. \A l \in Links : l.phrases \in Seq(Phrases)
    BY DEF Links
  <2> QED
    BY <2>1
<1> HIDE DEF d, e, z
<1>5. \A u \in Seq(Phrases) : Within(u, n) => Within(u, m) /\ Before(u, x)
  <2>1. \A u \in Seq(Phrases) : \A i \in DOMAIN u : u[i] \in Nat
    BY NumbersIn
  <2>2. \A i \in DOMAIN x : x[i] \in Nat
    BY NumbersIn
  <2> QED
    BY <2>1, <2>2 DEF Within, Before
<1>6. Within(s, m) /\ Within(b, m) /\ Within(z, m) /\ Neural(z) /\ Ordered(z)
      /\ Before(s, z) /\ Before(b, z)
  <2>1. Within(x, m)
    BY DEF Within
  <2> QED
    BY <1>3, <1>5, <2>1 DEF Order
<1>7. ASSUME NEW i \in DOMAIN y
      PROVE  /\ Ordered(y[i].phrases) /\ Within(y[i].phrases, m)
             /\ Before(y[i].phrases, b) /\ Before(y[i].phrases, z)
             /\ \A u \in Seq(Phrases) : Within(u, n) => Before(u, y[i].phrases)
  <2>1. Ordered(y[i].phrases) /\ Within(y[i].phrases, m)
    BY DEF Within
  <2>2. Before(y[i].phrases, b) /\ Before(y[i].phrases, z)
    BY <1>6 DEF Before, Same, Neural, Order
  <2>3. ASSUME NEW u \in Seq(Phrases), Within(u, n) PROVE Before(u, y[i].phrases)
    <3>1. \A j \in DOMAIN u : u[j] \in Nat /\ u[j] <= n
      BY <2>3, NumbersIn DEF Within
    <3>2. \A j \in DOMAIN y[i].phrases : y[i].phrases[j] \in Nat /\ n < y[i].phrases[j]
      BY <1>4, NumbersIn
    <3> QED
      BY <3>1, <3>2 DEF Before
  <2> QED
    BY <2>1, <2>2, <2>3
<1>8. ASSUME NEW i \in DOMAIN d
      PROVE  /\ Ordered(d[i].phrases) /\ Within(d[i].phrases, m)
             /\ Before(d[i].phrases, b) /\ Before(d[i].phrases, z)
  <2>1. CASE i \in DOMAIN c
    <3>1. d[i] = c[i]
      BY <1>1, <2>1
    <3>2. Ordered(c[i].phrases) /\ Within(c[i].phrases, n) /\ Before(c[i].phrases, b) /\ Before(c[i].phrases, p)
      BY <2>1 DEF Order
    <3> QED
      BY <1>3, <1>4, <1>5, <2>1, <3>1, <3>2
  <2>2. CASE i \notin DOMAIN c
    BY <1>2, <1>7, <2>2
  <2> QED
    BY <2>1, <2>2
<1>9. ASSUME NEW i \in left2 PROVE Before(s, d[i].phrases)
  <2>1. CASE i \in left
    BY <1>1, <2>1 DEF Order
  <2>2. CASE i \in DOMAIN d \ DOMAIN c
    <3>1. i - e \in DOMAIN y /\ d[i] = y[i - e]
      BY <1>2, <2>2
    <3>2. Within(s, n)
      BY DEF Order
    <3> QED
      BY <1>7, <3>1, <3>2
  <2> QED
    BY <2>1, <2>2
<1>10. ASSUME NEW i \in DOMAIN d, NEW j \in DOMAIN d, i < j
       PROVE  Before(d[i].phrases, d[j].phrases)
  <2>0. i \in Nat /\ j \in Nat
    BY <1>1
  <2>1. CASE j \in DOMAIN c
    <3>1. i \in DOMAIN c
      BY <1>1, <1>2, <1>10, <2>0, <2>1
    <3> QED
      BY <1>1, <1>10, <2>1, <3>1 DEF Order
  <2>2. CASE i \in DOMAIN c /\ j \notin DOMAIN c
    <3>1. d[i] = c[i] /\ Within(c[i].phrases, n) /\ c[i].phrases \in Seq(Phrases)
      BY <1>1, <1>4, <2>2 DEF Order
    <3>2. j - e \in DOMAIN y /\ d[j] = y[j - e]
      BY <1>2, <2>2
    <3> QED
      BY <1>7, <3>1, <3>2
  <2>3. CASE i \notin DOMAIN c /\ j \notin DOMAIN c
    <3>1. i - e \in DOMAIN y /\ d[i] = y[i - e] /\ j - e \in DOMAIN y /\ d[j] = y[j - e]
      BY <1>2, <2>3
    <3>2. i - e < j - e
      BY <1>1, <1>10, <2>0
    <3> QED
      BY <3>1, <3>2
  <2> QED
    BY <2>1, <2>2, <2>3
<1>11. Order(s, d, left2, b, z, m)
  BY <1>6, <1>8, <1>9, <1>10 DEF Order
<1>12. ASSUME Complete(s, c, left, b, p, n),
              \A q \in n + 1 .. m : In(q, x) \/ \E i \in DOMAIN y : In(q, y[i].phrases)
       PROVE  Complete(s, d, left2, b, z, m)
  <2> SUFFICES ASSUME NEW q \in 1 .. m
               PROVE  \/ In(q, s) \/ In(q, b) \/ In(q, z)
                      \/ \E i \in left2 : In(q, d[i].phrases)
    BY DEF Complete
  <2>1. CASE q <= n
    <3>1. q \in 1 .. n
      BY <2>1
    <3>2. \A i \in left : i \in left2 /\ d[i] = c[i]
      BY <1>1
    <3> QED
      BY <1>3, <1>12, <3>1, <3>2 DEF Complete
  <2>2. CASE q > n
    <3>1. In(q, x) \/ \E i \in DOMAIN y : In(q, y[i].phrases)
      BY <1>12, <2>2
    <3>2. \A i \in DOMAIN y : i + e \in left2 /\ d[i + e] = y[i]
      BY <1>2
    <3> QED
      BY <1>3, <3>1, <3>2
  <2> QED
    BY <2>1, <2>2
<1> QED
  BY <1>11, <1>12 DEF d, z

-----------------------------------------------------------------------------
(* What the operations do. *)

WorkOK ==
    /\ pendingPhrases \in [Runs -> Seq(Phrases)] /\ batch \in [Runs -> Seq(Phrases)]
    /\ pump \in [Runs -> {"settled", "prepare", "await"}]
    /\ workerActive \in [Runs -> BOOLEAN] /\ audio \in [Runs -> Utterances \cup {None}]

SameWork(q) ==
    /\ pendingPhrases'[q] = pendingPhrases[q] /\ batch'[q] = batch[q] /\ pump'[q] = pump[q]
    /\ workerActive'[q] = workerActive[q] /\ audio'[q] = audio[q]

\* From the queue p the pump takes a batch, or it ends.
Takes(r, p) ==
    /\ p # <<>> /\ voiceStream = r /\ pump'[r] = "prepare" /\ workerActive'[r]
    /\ \E n \in 1 .. Len(p) : /\ batch'[r] = SubSeq(p, 1, n)
                              /\ pendingPhrases'[r] = SubSeq(p, n + 1, Len(p))

Ends(r, p) ==
    /\ p = <<>> \/ voiceStream # r
    /\ pump'[r] = "settled" /\ batch'[r] = <<>> /\ pendingPhrases'[r] = p

\* The loop of the pump leaves the other replies alone; it takes a batch or ends.
LEMMA LoopEffect ==
  ASSUME TypeOK, NEW r \in Runs, NEW p \in Seq(Phrases), Loop(r, p)
  PROVE  WorkOK' /\ (\A q \in Runs \ {r} : SameWork(q)) /\ (Takes(r, p) \/ Ends(r, p))
<1>1. CASE voiceStream = r /\ p # <<>>
  <2>1. PICK n \in 1 .. Len(p) : /\ batch' = [batch EXCEPT ![r] = SubSeq(p, 1, n)]
                                 /\ pendingPhrases' = [pendingPhrases EXCEPT ![r] = SubSeq(p, n + 1, Len(p))]
                                 /\ pump' = [pump EXCEPT ![r] = "prepare"]
                                 /\ workerActive' = [workerActive EXCEPT ![r] = TRUE]
    BY <1>1 DEF Loop, BatchSizes, Rest
  <2>2. SubSeq(p, 1, n) \in Seq(Phrases) /\ SubSeq(p, n + 1, Len(p)) \in Seq(Phrases)
    BY Cut
  <2>3. audio' = [audio EXCEPT ![r] = None]
    BY DEF Loop
  <2> QED
    BY <1>1, <2>1, <2>2, <2>3 DEF TypeOK, WorkOK, SameWork, Takes
<1>2. CASE ~(voiceStream = r /\ p # <<>>)
  <2>1. /\ pendingPhrases' = [pendingPhrases EXCEPT ![r] = p]
        /\ pump' = [pump EXCEPT ![r] = "settled"]
        /\ batch' = [batch EXCEPT ![r] = <<>>]
        /\ workerActive' = [workerActive EXCEPT ![r] = ActiveAfter(r)]
        /\ audio' = [audio EXCEPT ![r] = None]
    BY <1>2 DEF Loop
  <2>2. ActiveAfter(r) \in BOOLEAN
    BY DEF ActiveAfter
  <2> QED
    BY <1>2, <2>1, <2>2 DEF TypeOK, WorkOK, SameWork, Ends
<1> QED
  BY <1>1, <1>2

LEMMA OneOrTwo ==
  ASSUME NEW v \in Phrases, NEW w \in Phrases
  PROVE  /\ LET x == <<v>> \o <<w>> IN x \in Seq(Phrases) /\ DOMAIN x = {1, 2} /\ x[1] = v /\ x[2] = w
         /\ LET x == <<v>> \o <<>> IN x \in Seq(Phrases) /\ DOMAIN x = {1} /\ x[1] = v
         /\ LET x == <<>> \o <<v>> IN x \in Seq(Phrases) /\ DOMAIN x = {1} /\ x[1] = v
<1>1. LET x == <<v>> \o <<w>> IN x \in Seq(Phrases) /\ DOMAIN x = {1, 2} /\ x[1] = v /\ x[2] = w
  <2> DEFINE y == <<v>>
             z == <<w>>
  <2>1. y \in Seq(Phrases) /\ Len(y) = 1 /\ y[1] = v /\ z \in Seq(Phrases) /\ Len(z) = 1 /\ z[1] = w
    OBVIOUS
  <2> HIDE DEF y, z
  <2>2. (y \o z)[1] = v /\ (y \o z)[2] = w
    BY <2>1, ConcatProperties, 2 - 1 = 1, 1 \in 1 .. 2, 2 \in 1 .. 2
  <2>3. y \o z \in Seq(Phrases) /\ DOMAIN (y \o z) = {1, 2}
    BY <2>1
  <2> QED
    BY <2>2, <2>3 DEF y, z
<1>2. LET x == <<v>> \o <<>> IN x \in Seq(Phrases) /\ DOMAIN x = {1} /\ x[1] = v
  <2>1. <<v>> \o <<>> = <<v>>
    OBVIOUS
  <2> QED
    BY <2>1
<1>3. LET x == <<>> \o <<v>> IN x \in Seq(Phrases) /\ DOMAIN x = {1} /\ x[1] = v
  <2>1. <<>> \o <<v>> = <<v>>
    OBVIOUS
  <2> QED
    BY <2>1
<1> QED
  BY <1>1, <1>2, <1>3

LEMMA OnlyEffect ==
  ASSUME NEW p, NEW voice
  PROVE  /\ p \in voice => Only(p, voice) = <<p>>
         /\ p \notin voice => Only(p, voice) = <<>>
<1>1. ASSUME p \in voice PROVE Only(p, voice) = <<p>>
  BY <1>1, Zenon DEF Only
<1>2. ASSUME p \notin voice PROVE Only(p, voice) = <<>>
  BY <1>2, Zenon DEF Only
<1> QED
  BY <1>1, <1>2

\* New phrases, sorted by voice: in order, and none is left out.
LEMMA NewPhrasesEffect ==
  ASSUME TypeOK, NEW r \in Runs, NEW n \in {1, 2}, MayQueue(r, n), NEW voice \in SUBSET Phrases
  PROVE  LET x == NewPhrases(r, n, voice)
         IN  /\ x \in Seq(Phrases) /\ Ordered(x)
             /\ \A i \in DOMAIN x : x[i] \in voice /\ queued[r] < x[i] /\ x[i] <= queued[r] + n
             /\ \A q \in queued[r] + 1 .. queued[r] + n : q \in voice => In(q, x)
<1> DEFINE k == queued[r]
           x == NewPhrases(r, n, voice)
<1>1. k \in Nat /\ k + n <= MaxPhrases /\ k + 1 \in Phrases /\ (n = 2 => k + 2 \in Phrases)
  <2>1. k \in 0 .. MaxPhrases
    BY DEF TypeOK
  <2>2. k + n <= MaxPhrases
    BY DEF MayQueue
  <2> HIDE DEF k
  <2> QED
    BY <2>1, <2>2, ReplyAssumption DEF Phrases
<1> DEFINE a == Only(k + 1, voice)
             b == IF n = 2 THEN Only(k + 2, voice) ELSE <<>>
<1>3. x = a \o b
  BY DEF NewPhrases
<1>4. (k + 1 \in voice => a = <<k + 1>>) /\ (k + 1 \notin voice => a = <<>>)
  BY OnlyEffect
<1>5. /\ n = 2 /\ k + 2 \in voice => b = <<k + 2>>
      /\ n = 1 \/ k + 2 \notin voice => b = <<>>
  <2>1. k + 2 \in voice => Only(k + 2, voice) = <<k + 2>>
    BY OnlyEffect
  <2>2. k + 2 \notin voice => Only(k + 2, voice) = <<>>
    BY OnlyEffect
  <2>3. n = 2 => b = Only(k + 2, voice)
    OBVIOUS
  <2>4. n = 1 => b = <<>>
    OBVIOUS
  <2>5. n = 1 \/ n = 2
    OBVIOUS
  <2> QED
    BY <2>1, <2>2, <2>3, <2>4, <2>5
<1> HIDE DEF k, x, a, b
<1>6. CASE k + 1 \in voice /\ n = 2 /\ k + 2 \in voice
  <2>1. /\ x \in Seq(Phrases) /\ DOMAIN x = {1, 2} /\ x[1] = k + 1 /\ x[2] = k + 2
    <3>1. x = a \o b /\ a = <<k + 1>> /\ b = <<k + 2>>
      BY <1>3, <1>4, <1>5, <1>6
    <3>2. k + 1 \in Phrases /\ (n = 2 => k + 2 \in Phrases)
      BY <1>1
    <3> QED
      BY <3>1, <3>2, <1>6, OneOrTwo
  <2>2. \A q \in k + 1 .. k + n : q = k + 1 \/ q = k + 2
    BY <1>1, <1>6
  <2> QED
    <3>1. Ordered(x)
      BY <1>1, <2>1 DEF Ordered
    <3>2. \A i \in DOMAIN x : x[i] \in voice /\ k < x[i] /\ x[i] <= k + n
      BY <1>1, <1>6, <2>1
    <3>3. \A q \in k + 1 .. k + n : q \in voice => In(q, x)
      BY <2>1, <2>2 DEF In
    <3> QED
      BY <2>1, <3>1, <3>2, <3>3 DEF x, k
<1>7. CASE k + 1 \in voice /\ (n = 1 \/ k + 2 \notin voice)
  <2>1. /\ x \in Seq(Phrases) /\ DOMAIN x = {1} /\ x[1] = k + 1
    <3>1. x = a \o b /\ a = <<k + 1>> /\ b = <<>>
      BY <1>3, <1>4, <1>5, <1>7
    <3>2. k + 1 \in Phrases /\ (n = 2 => k + 2 \in Phrases)
      BY <1>1
    <3> QED
      BY <3>1, <3>2, <1>7, OneOrTwo
  <2>2. \A q \in k + 1 .. k + n : q \in voice => q = k + 1
    BY <1>1, <1>7
  <2> QED
    <3>1. Ordered(x)
      BY <1>1, <2>1 DEF Ordered
    <3>2. \A i \in DOMAIN x : x[i] \in voice /\ k < x[i] /\ x[i] <= k + n
      BY <1>1, <1>7, <2>1
    <3>3. \A q \in k + 1 .. k + n : q \in voice => In(q, x)
      BY <2>1, <2>2 DEF In
    <3> QED
      BY <2>1, <3>1, <3>2, <3>3 DEF x, k
<1>8. CASE k + 1 \notin voice /\ n = 2 /\ k + 2 \in voice
  <2>1. /\ x \in Seq(Phrases) /\ DOMAIN x = {1} /\ x[1] = k + 2
    <3>1. x = a \o b /\ a = <<>> /\ b = <<k + 2>>
      BY <1>3, <1>4, <1>5, <1>8
    <3>2. k + 1 \in Phrases /\ (n = 2 => k + 2 \in Phrases)
      BY <1>1
    <3> QED
      BY <3>1, <3>2, <1>8, OneOrTwo
  <2>2. \A q \in k + 1 .. k + n : q \in voice => q = k + 2
    BY <1>1, <1>8
  <2> QED
    <3>1. Ordered(x)
      BY <1>1, <2>1 DEF Ordered
    <3>2. \A i \in DOMAIN x : x[i] \in voice /\ k < x[i] /\ x[i] <= k + n
      BY <1>1, <1>8, <2>1
    <3>3. \A q \in k + 1 .. k + n : q \in voice => In(q, x)
      BY <2>1, <2>2 DEF In
    <3> QED
      BY <2>1, <3>1, <3>2, <3>3 DEF x, k
<1>9. CASE k + 1 \notin voice /\ (n = 1 \/ k + 2 \notin voice)
  <2>1. x \in Seq(Phrases) /\ DOMAIN x = {}
    BY <1>1, <1>3, <1>4, <1>5, <1>9
  <2>2. \A q \in k + 1 .. k + n : q \notin voice
    BY <1>1, <1>9
  <2> QED
    BY <1>1, <1>9, <2>1, <2>2 DEF x, k, Ordered, In
<1> QED
  BY <1>6, <1>7, <1>8, <1>9

\* The phrases x for the queue and the links y for the chain that make an answer of n phrases
\* grow to m phrases.
Growth(x, y, n, m) ==
    /\ Ordered(x) /\ Neural(x) /\ \A i \in DOMAIN x : n < x[i] /\ x[i] <= m
    /\ \A i \in DOMAIN y : /\ Ordered(y[i].phrases)
                           /\ \A k \in DOMAIN y[i].phrases :
                                 LET q == y[i].phrases[k] IN q \in Repeats /\ n < q /\ q <= m
    /\ \A i, j \in DOMAIN y : i < j => Before(y[i].phrases, y[j].phrases)
    /\ \A q \in n + 1 .. m : In(q, x) \/ \E i \in DOMAIN y : In(q, y[i].phrases)
    /\ \A i \in DOMAIN y : y[i].kind = "system" /\ y[i].utter = None

\* queueVoicePhrase splits the new phrases between the queue and the chain, and pumps.
LEMMA QueueEffect ==
  ASSUME TypeOK, NEW r \in Runs, NEW n \in {1, 2}, MayQueue(r, n), Queue(r, n)
  PROVE  /\ queued[r] + n \in 0 .. MaxPhrases /\ queued' = [queued EXCEPT ![r] = queued[r] + n]
         /\ WorkOK' /\ (\A q \in Runs \ {r} : SameWork(q))
         /\ \E x \in Seq(Phrases), y \in Seq(Links) :
               /\ Growth(x, y, queued[r], queued[r] + n)
               /\ chain' = [chain EXCEPT ![r] = chain[r] \o y]
               /\ LET p == pendingPhrases[r] \o x
                  IN  \/ /\ pendingPhrases'[r] = p /\ batch'[r] = batch[r] /\ pump'[r] = pump[r]
                         /\ workerActive'[r] = workerActive[r] /\ audio'[r] = audio[r]
                         /\ x = <<>> \/ workerActive[r]
                      \/ ~workerActive[r] /\ (Takes(r, p) \/ Ends(r, p))
<1> DEFINE x == NewPhrases(r, n, Phrases \ Repeats)
           z == NewPhrases(r, n, Repeats)
           y == [i \in DOMAIN z |-> Link("system", None, <<z[i]>>)]
           k == queued[r]
           p == pendingPhrases[r] \o x
<1>1. k \in Nat /\ k + n \in 0 .. MaxPhrases
  <2>1. k \in 0 .. MaxPhrases /\ k + n <= MaxPhrases
    BY DEF TypeOK, MayQueue
  <2> HIDE DEF k
  <2> QED
    BY <2>1, ReplyAssumption
<1>2. /\ x \in Seq(Phrases) /\ Ordered(x)
      /\ \A i \in DOMAIN x : x[i] \in Phrases \ Repeats /\ k < x[i] /\ x[i] <= k + n
      /\ \A q \in k + 1 .. k + n : q \in Phrases \ Repeats => In(q, x)
  BY NewPhrasesEffect
<1>3. /\ z \in Seq(Phrases) /\ Ordered(z)
      /\ \A i \in DOMAIN z : z[i] \in Repeats /\ k < z[i] /\ z[i] <= k + n
      /\ \A q \in k + 1 .. k + n : q \in Repeats => In(q, z)
  <2>1. Repeats \in SUBSET Phrases
    BY ReplyAssumption DEF Phrases
  <2> QED
    BY <2>1, NewPhrasesEffect
<1>4. /\ queued' = [queued EXCEPT ![r] = k + n] /\ chain' = [chain EXCEPT ![r] = chain[r] \o y]
      /\ IF x = <<>> THEN UNCHANGED workVars ELSE Pump(r, p)
  <2>1. queued' = [queued EXCEPT ![r] = k + n] /\ chain' = [chain EXCEPT ![r] = chain[r] \o y]
    BY DEF Queue, TypeOK
  <2>2. IF x = <<>> THEN UNCHANGED workVars ELSE Pump(r, p)
    BY DEF Queue
  <2> QED
    BY <2>1, <2>2
<1> HIDE DEF x, z
<1>5. DOMAIN z = 1 .. Len(z) /\ Len(z) \in Nat /\ \A i \in DOMAIN z : z[i] \in Phrases
  BY <1>3
<1>6. ASSUME NEW i \in DOMAIN z
      PROVE  /\ y[i] \in Links /\ y[i].kind = "system" /\ y[i].utter = None
             /\ y[i].phrases = <<z[i]>> /\ DOMAIN y[i].phrases = {1} /\ y[i].phrases[1] = z[i]
  <2>1. <<z[i]>> \in Seq(Phrases) /\ DOMAIN <<z[i]>> = {1} /\ <<z[i]>>[1] = z[i]
    BY <1>5
  <2>2. y[i] = [kind |-> "system", utter |-> None, phrases |-> <<z[i]>>]
    BY DEF Link
  <2> DEFINE w == <<z[i]>>
  <2> HIDE DEF w, y
  <2>3. y[i] = [kind |-> "system", utter |-> None, phrases |-> w] /\ w \in Seq(Phrases)
    BY <2>1, <2>2 DEF w
  <2>4. /\ y[i] \in Links /\ y[i].kind = "system" /\ y[i].utter = None /\ y[i].phrases = w
    BY <2>3 DEF Links
  <2> QED
    BY <2>1, <2>4 DEF w
<1>7. y \in Seq(Links) /\ DOMAIN y = DOMAIN z
  BY <1>5, <1>6
<1> HIDE DEF y, k
<1>8. Neural(x)
  BY <1>2 DEF Neural
<1>9. \A i \in DOMAIN y : /\ Ordered(y[i].phrases)
                          /\ \A j \in DOMAIN y[i].phrases :
                                LET q == y[i].phrases[j] IN q \in Repeats /\ k < q /\ q <= k + n
  BY <1>3, <1>6, <1>7 DEF Ordered
<1>10. \A i, j \in DOMAIN y : i < j => Before(y[i].phrases, y[j].phrases)
  BY <1>3, <1>6, <1>7 DEF Ordered, Before
<1>11. \A q \in k + 1 .. k + n : In(q, x) \/ \E i \in DOMAIN y : In(q, y[i].phrases)
  <2> SUFFICES ASSUME NEW q \in k + 1 .. k + n, q \in Repeats PROVE \E i \in DOMAIN y : In(q, y[i].phrases)
    <3>1. k + 1 .. k + n \subseteq Phrases
      BY <1>1, ReplyAssumption DEF Phrases
    <3> QED
      BY <1>2, <3>1
  <2>1. PICK i \in DOMAIN z : z[i] = q
    BY <1>3 DEF In
  <2> QED
    BY <1>6, <1>7, <2>1 DEF In
<1>12. Growth(x, y, k, k + n)
  BY <1>2, <1>6, <1>7, <1>8, <1>9, <1>10, <1>11 DEF Growth
<1>13. p \in Seq(Phrases)
  BY <1>2 DEF TypeOK
<1>14. CASE x = <<>>
  <2>1. p = pendingPhrases[r]
    BY <1>14 DEF TypeOK
  <2>2. WorkOK' /\ \A q \in Runs : SameWork(q)
    BY <1>4, <1>14 DEF workVars, SameWork, TypeOK, WorkOK
  <2> HIDE DEF p
  <2> QED
    BY <1>1, <1>2, <1>4, <1>7, <1>12, <1>14, <2>1, <2>2 DEF k, p, SameWork
<1>15. CASE x # <<>> /\ workerActive[r]
  <2>1. /\ pendingPhrases' = [pendingPhrases EXCEPT ![r] = p]
        /\ UNCHANGED <<batch, pump, workerActive, audio>>
    BY <1>4, <1>15 DEF Pump
  <2>2. WorkOK' /\ (\A q \in Runs \ {r} : SameWork(q)) /\ pendingPhrases'[r] = p
    BY <1>13, <2>1 DEF SameWork, TypeOK, WorkOK
  <2> QED
    BY <1>1, <1>2, <1>4, <1>7, <1>12, <1>15, <2>1, <2>2 DEF k
<1>16. CASE x # <<>> /\ ~workerActive[r]
  <2>1. Loop(r, p)
    BY <1>4, <1>16 DEF Pump
  <2>2. WorkOK' /\ (\A q \in Runs \ {r} : SameWork(q)) /\ (Takes(r, p) \/ Ends(r, p))
    BY <1>13, <2>1, LoopEffect
  <2> QED
    BY <1>1, <1>2, <1>4, <1>7, <1>12, <1>16, <2>2 DEF k
<1> QED
  BY <1>14, <1>15, <1>16

-----------------------------------------------------------------------------
(* Types. *)

LEMMA QueueTypes ==
  ASSUME TypeOK, NEW r \in Runs, NEW n \in {1, 2}, MayQueue(r, n), Queue(r, n)
  PROVE  queued' \in [Runs -> 0 .. MaxPhrases] /\ chain' \in [Runs -> Seq(Links)] /\ WorkOK'
<1>1. PICK x \in Seq(Phrases), y \in Seq(Links) : chain' = [chain EXCEPT ![r] = chain[r] \o y]
  BY QueueEffect
<1>2. chain[r] \o y \in Seq(Links)
  BY DEF TypeOK
<1>3. chain' \in [Runs -> Seq(Links)]
  BY <1>1, <1>2 DEF TypeOK
<1>4. queued[r] + n \in 0 .. MaxPhrases /\ queued' = [queued EXCEPT ![r] = queued[r] + n] /\ WorkOK'
  BY QueueEffect
<1> QED
  BY <1>3, <1>4 DEF TypeOK

LEMMA ReplyTypes ==
  ASSUME TypeOK, NEW r \in Runs,
         StartReply(r) \/ Delta(r) \/ FinishReply(r) \/ AnswerFails(r) \/ ReplyGoesOn(r)
  PROVE  TypeOK'
<1>1. CASE StartReply(r)
  BY <1>1 DEF TypeOK, StartReply, streamVars, listenVars, soundVars, workVars, chainVars
<1>2. CASE Delta(r)
  <2>1. PICK n \in {1, 2} : MayQueue(r, n) /\ Queue(r, n)
    BY <1>2 DEF Delta
  <2>2. queued' \in [Runs -> 0 .. MaxPhrases] /\ chain' \in [Runs -> Seq(Links)] /\ WorkOK'
    BY <2>1, QueueTypes
  <2> QED
    BY <1>2, <2>2 DEF TypeOK, WorkOK, Delta, streamVars, listenVars, soundVars
<1>3. CASE FinishReply(r)
  <2>1. queued' \in [Runs -> 0 .. MaxPhrases] /\ chain' \in [Runs -> Seq(Links)] /\ WorkOK'
    <3>1. CASE UNCHANGED <<queued, chain, workVars>>
      BY <3>1 DEF TypeOK, WorkOK, workVars
    <3>2. CASE MayQueue(r, 1) /\ Queue(r, 1)
      BY <3>2, QueueTypes
    <3> QED
      BY <1>3, <3>1, <3>2 DEF FinishReply
  <2> QED
    BY <1>3, <2>1 DEF TypeOK, WorkOK, FinishReply, streamVars, listenVars, soundVars
<1>4. CASE AnswerFails(r)
  BY <1>4 DEF TypeOK, AnswerFails, streamVars, listenVars, soundVars, workVars, chainVars
<1>5. CASE ReplyGoesOn(r)
  <2>1. turn' \in [Runs -> {"no", "answer", "drain", "chain", "playback", "over", "aborted"}]
        /\ voiceStream' \in Runs \cup {None}
    BY <1>5 DEF TypeOK, ReplyGoesOn, Drained, ChainDone, PlaybackDone
  <2> QED
    BY <1>5, <2>1 DEF TypeOK, ReplyGoesOn, streamVars, listenVars, soundVars, workVars, chainVars
<1> QED
  BY <1>1, <1>2, <1>3, <1>4, <1>5

LEMMA PumpTypes ==
  ASSUME TypeOK, NEW r \in Runs, PumpOpens(r) \/ PumpFails(r) \/ PumpGoesOn(r)
  PROVE  TypeOK'
<1>1. CASE PumpOpens(r)
  <2>1. PICK u \in Utterances : /\ Open(u) /\ pump' = [pump EXCEPT ![r] = "await"]
                                /\ audio' = [audio EXCEPT ![r] = u]
                                /\ chain' = [chain EXCEPT ![r] = Append(chain[r], Link("neural", u, batch[r]))]
                                /\ batch' = [batch EXCEPT ![r] = <<>>]
    BY <1>1 DEF PumpOpens
  <2>2. Link("neural", u, batch[r]) \in Links
    BY DEF Link, Links, TypeOK
  <2>3. chain' \in [Runs -> Seq(Links)]
    BY <2>1, <2>2 DEF TypeOK
  <2>4. /\ end' \in [Utterances -> {"none", "open", "ok", "error"}] /\ got' = got
        /\ WorkOK'
    BY <1>1, <2>1 DEF Open, TypeOK, WorkOK, PumpOpens
  <2> QED
    BY <1>1, <2>3, <2>4 DEF TypeOK, WorkOK, PumpOpens, turnVars, listenVars, soundVars
<1>2. ASSUME Loop(r, pendingPhrases[r]) PROVE WorkOK'
  BY <1>2, LoopEffect DEF TypeOK
<1>3. CASE PumpFails(r)
  BY <1>2, <1>3 DEF TypeOK, WorkOK, PumpFails, PumpThrows, streamVars, turnVars, listenVars, soundVars
<1>4. CASE PumpGoesOn(r)
  <2>1. WorkOK' /\ failed' \in [Runs -> BOOLEAN]
    BY <1>2, <1>4 DEF TypeOK, PumpGoesOn, PumpThrows
  <2> QED
    BY <1>4, <2>1 DEF TypeOK, WorkOK, PumpGoesOn, streamVars, turnVars, listenVars, soundVars
<1> QED
  BY <1>1, <1>3, <1>4

\* The first link of a chain.
LEMMA HeadLink ==
  ASSUME TypeOK, NEW r \in Runs, chain[r] # <<>>
  PROVE  /\ Head(chain[r]) = chain[r][1] /\ 1 \in DOMAIN chain[r] /\ chain[r][1] \in Links
         /\ Tail(chain[r]) \in Seq(Links)
         /\ chain[r][1].phrases \in Seq(Phrases) /\ chain[r][1].utter \in Utterances \cup {None}
         /\ chain[r][1].kind \in {"neural", "system"}
<1>1. chain[r] \in Seq(Links)
  BY DEF TypeOK
<1>2. Head(chain[r]) = chain[r][1] /\ 1 \in DOMAIN chain[r] /\ chain[r][1] \in Links /\ Tail(chain[r]) \in Seq(Links)
  BY <1>1
<1> QED
  BY <1>2 DEF Links

LEMMA LinkTypes ==
  ASSUME TypeOK, NEW r \in Runs, LinksAt(r), LinkStarts(r) \/ LinkResolves(r)
  PROVE  TypeOK'
<1> DEFINE link == chain[r][1]
<1>1. /\ chain[r] # <<>> /\ Head(chain[r]) = link /\ Tail(chain[r]) \in Seq(Links)
      /\ link.phrases \in Seq(Phrases) /\ link.utter \in Utterances \cup {None}
      /\ link.kind \in {"neural", "system"}
  BY HeadLink DEF LinkStarts, LinkResolves
<1>2. said[r] \o link.phrases \in Seq(Phrases)
  BY <1>1 DEF TypeOK
<1>3. CASE LinkStarts(r)
  <2>1. CASE ~MaySpeak(r)
    BY <1>1, <1>3, <2>1 DEF TypeOK, LinkStarts, streamVars, turnVars, workVars, listenVars, soundVars
  <2>2. CASE MaySpeak(r) /\ link.kind = "system"
    <3>1. /\ playing' = [playing EXCEPT ![r] = TRUE] /\ system' = system \cup {[reply |-> r]}
          /\ said' = [said EXCEPT ![r] = said[r] \o link.phrases]
          /\ playback' = [playback EXCEPT ![r] = None] /\ UNCHANGED <<sources, chain>>
      BY <1>1, <1>3, <2>2 DEF LinkStarts
    <3>2. [reply |-> r] \in Speakers
      BY DEF Speakers
    <3> HIDE DEF link
    <3>3. said' \in [Runs -> Seq(Phrases)] /\ system' \subseteq Speakers
      BY <1>2, <3>1, <3>2 DEF TypeOK
    <3> QED
      BY <1>3, <3>1, <3>3 DEF TypeOK, LinkStarts, streamVars, turnVars, workVars, listenVars
  <2>3. CASE MaySpeak(r) /\ link.kind = "neural"
    <3>1. /\ playing' = [playing EXCEPT ![r] = TRUE] /\ UNCHANGED <<system, playback, chain>>
          /\ IF ~got[link.utter] THEN UNCHANGED <<sources, said>>
             ELSE sources' = sources \cup {link.utter} /\ said' = [said EXCEPT ![r] = said[r] \o link.phrases]
      BY <1>1, <1>3, <2>3 DEF LinkStarts
    <3>2. link.utter \in Utterances
      BY <1>1, <2>3, HeadLink DEF LinksAt
    <3> HIDE DEF link
    <3>3. said' \in [Runs -> Seq(Phrases)] /\ sources' \subseteq Utterances
      <4>1. CASE got[link.utter]
        <5>1. sources' = sources \cup {link.utter} /\ said' = [said EXCEPT ![r] = said[r] \o link.phrases]
          BY <3>1, <4>1, Zenon
        <5>2. said' \in [Runs -> Seq(Phrases)]
          BY <1>2, <5>1 DEF TypeOK
        <5> QED
          BY <3>2, <5>1, <5>2 DEF TypeOK
      <4>2. CASE ~got[link.utter]
        BY <3>1, <4>2 DEF TypeOK
      <4> QED
        BY <4>1, <4>2
    <3> QED
      BY <1>3, <3>1, <3>3 DEF TypeOK, LinkStarts, streamVars, turnVars, workVars, listenVars
  <2> QED
    BY <1>1, <2>1, <2>2, <2>3
<1>4. CASE LinkResolves(r)
  <2>1. /\ chain' = [chain EXCEPT ![r] = Tail(chain[r])] /\ playing' = [playing EXCEPT ![r] = FALSE]
        /\ UNCHANGED <<streamVars, turnVars, workVars, listenVars, soundVars>>
    BY <1>4 DEF LinkResolves
  <2>2. playback' \in [Runs -> Utterances \cup {None}] /\ failed' \in [Runs -> BOOLEAN]
    <3>1. \/ UNCHANGED <<playback, failed>>
          \/ playback' = [playback EXCEPT ![r] = link.utter] /\ UNCHANGED failed
          \/ failed' = [failed EXCEPT ![r] = failed[r] \/ voiceStream = r] /\ UNCHANGED playback
      BY <1>1, <1>4, Zenon DEF LinkResolves
    <3> HIDE DEF link
    <3> QED
      BY <1>1, <3>1 DEF TypeOK
  <2> QED
    BY <1>1, <2>1, <2>2 DEF TypeOK, streamVars, turnVars, workVars, listenVars, soundVars
<1> QED
  BY <1>3, <1>4

LEMMA SoundTypes ==
  ASSUME TypeOK, \/ \E u \in Utterances : AudioSteps(u)
                 \/ \E x \in Speakers : SystemEnds(x)
                 \/ Cancel
  PROVE  TypeOK'
<1>1. ASSUME NEW u \in Utterances, Audio(u) PROVE TypeOK'
  <2>1. said' \in [Runs -> Seq(Phrases)]
    <3>1. ASSUME NEW r \in Runs PROVE said'[r] \in Seq(Phrases)
      <4>1. CASE r \in PlayedBy(u)
        <5>1. said'[r] = said[r] \o Head(chain[r]).phrases
          BY <1>1, <4>1 DEF Audio
        <5>2. Head(chain[r]).phrases \in Seq(Phrases)
          BY <4>1, HeadLink DEF PlayedBy
        <5> QED
          BY <5>1, <5>2 DEF TypeOK
      <4>2. CASE r \notin PlayedBy(u)
        BY <1>1, <4>2 DEF Audio, TypeOK
      <4> QED
        BY <4>1, <4>2
    <3>2. said' = [r \in Runs |-> said'[r]]
      BY <1>1 DEF Audio
    <3> QED
      BY <3>1, <3>2
  <2>2. got' \in [Utterances -> BOOLEAN]
    BY <1>1 DEF Audio, TypeOK
  <2>3. sources' \subseteq Utterances
    BY <1>1 DEF Audio, TypeOK
  <2> QED
    BY <1>1, <2>1, <2>2, <2>3 DEF Audio, TypeOK, turnVars, listenVars, workVars, chainVars
<1>2. ASSUME NEW u \in Utterances, StreamEnds(u) \/ SourcesEnd(u) PROVE TypeOK'
  <2>1. CASE StreamEnds(u)
    <3>1. end' \in [Utterances -> {"none", "open", "ok", "error"}]
      BY <2>1 DEF StreamEnds, TypeOK
    <3> QED
      BY <2>1, <3>1 DEF StreamEnds, TypeOK, turnVars, listenVars, soundVars, workVars, chainVars
  <2>2. CASE SourcesEnd(u)
    BY <2>2 DEF SourcesEnd, TypeOK, streamVars, turnVars, listenVars, workVars, chainVars
  <2> QED
    BY <1>2, <2>1, <2>2
<1>3. ASSUME NEW x \in Speakers, SystemEnds(x) PROVE TypeOK'
  BY <1>3 DEF SystemEnds, TypeOK, streamVars, turnVars, listenVars, workVars, chainVars
<1>4. CASE Cancel
  <2>1. turn' \in [Runs -> {"no", "answer", "drain", "chain", "playback", "over", "aborted"}]
    BY <1>4 DEF Cancel, TypeOK
  <2>2. end' \in [Utterances -> {"none", "open", "ok", "error"}]
    BY <1>4 DEF Cancel, StopVoicePlayback, TypeOK
  <2>3. cancelled' \subseteq Runs /\ voiceStream' \in Runs \cup {None} /\ sources' = {} /\ system' = {}
    BY <1>4 DEF Cancel, StopVoicePlayback, TypeOK
  <2> QED
    BY <1>4, <2>1, <2>2, <2>3 DEF Cancel, TypeOK, listenVars, workVars, chainVars
<1> QED
  BY <1>1, <1>2, <1>3, <1>4 DEF AudioSteps

LEMMA ListenTypes ==
  ASSUME TypeOK, NEW p \in Presses, Listen(p) \/ ListenSteps(p)
  PROVE  TypeOK'
<1>1. ASSUME NEW next, next \subseteq Speakers, StopVoicePlayback(next)
      PROVE  /\ end' \in [Utterances -> {"none", "open", "ok", "error"}]
             /\ sources' \subseteq Utterances /\ system' \subseteq Speakers
  BY <1>1 DEF StopVoicePlayback, TypeOK
<1>2. CASE Listen(p)
  <2>1. /\ end' \in [Utterances -> {"none", "open", "ok", "error"}]
        /\ sources' \subseteq Utterances /\ system' \subseteq Speakers
    BY <1>1, <1>2 DEF Listen
  <2> QED
    BY <1>2, <2>1 DEF Listen, TypeOK, turnVars, workVars, chainVars
<1>3. CASE ListenOpens(p)
  <2>1. end' \in [Utterances -> {"none", "open", "ok", "error"}] /\ got' = got
        /\ listen' \in [Presses -> {"no", "prepare", "play", "system", "over"}]
        /\ heard' \in [Presses -> Utterances \cup {None}]
    BY <1>3 DEF ListenOpens, Open, TypeOK
  <2> QED
    BY <1>3, <2>1 DEF ListenOpens, TypeOK, turnVars, soundVars, workVars, chainVars
<1>4. CASE ListenResolves(p)
  <2>1. /\ end' \in [Utterances -> {"none", "open", "ok", "error"}]
        /\ sources' \subseteq Utterances /\ system' \subseteq Speakers
        /\ listen' \in [Presses -> {"no", "prepare", "play", "system", "over"}]
    <3>1. CASE FallBack(p)
      <4>1. [press |-> p] \in Speakers
        BY DEF Speakers
      <4> QED
        BY <1>1, <3>1, <4>1 DEF FallBack, TypeOK
    <3>2. CASE listen' = [listen EXCEPT ![p] = "over"] /\ UNCHANGED <<end, sources, system>>
      BY <3>2 DEF TypeOK
    <3> QED
      BY <1>4, <3>1, <3>2, Zenon DEF ListenResolves
  <2> QED
    BY <1>4, <2>1 DEF ListenResolves, TypeOK, turnVars, workVars, chainVars
<1> QED
  BY <1>2, <1>3, <1>4 DEF ListenSteps

\* The steps that do not concern one reply only.
Elsewhere ==
    \/ \E u \in Utterances : AudioSteps(u)
    \/ \E x \in Speakers : SystemEnds(x)
    \/ \E p \in Presses : Listen(p) \/ ListenSteps(p)
    \/ Cancel

LEMMA StepCases ==
  ASSUME Next
  PROVE  \/ Elsewhere
         \/ \E r \in Runs : \/ StartReply(r) \/ Delta(r) \/ FinishReply(r) \/ AnswerFails(r)
                            \/ PumpOpens(r) \/ PumpFails(r) \/ PumpGoesOn(r)
                            \/ LinkStarts(r) \/ LinkResolves(r) \/ ReplyGoesOn(r)
  BY DEF Next, GoesOn, UserActs, ReplySteps, Elsewhere

LEMMA TypeStep ==
  ASSUME Inv, Next
  PROVE  TypeOK'
<1>1. CASE Elsewhere
  BY <1>1, SoundTypes, ListenTypes DEF Elsewhere, Inv
<1>2. ASSUME NEW r \in Runs, \/ StartReply(r) \/ Delta(r) \/ FinishReply(r) \/ AnswerFails(r)
                             \/ PumpOpens(r) \/ PumpFails(r) \/ PumpGoesOn(r)
                             \/ LinkStarts(r) \/ LinkResolves(r) \/ ReplyGoesOn(r)
      PROVE  TypeOK'
  BY <1>2, ReplyTypes, PumpTypes, LinkTypes DEF Inv, RunAt
<1> QED
  BY <1>1, <1>2, StepCases

-----------------------------------------------------------------------------
(* The turns. *)

LEMMA TurnsStep ==
  ASSUME TypeOK, Turns, Next
  PROVE  Turns'
<1>1. /\ Runs \subseteq Nat /\ None \notin Runs /\ cancelled \subseteq Runs
      /\ \A r \in Runs : queued[r] \in 0 .. MaxPhrases
  BY ReplyAssumption DEF TypeOK
<1>2. ASSUME UNCHANGED turnVars PROVE Turns'
  BY <1>2 DEF Turns, turnVars
<1>3. ASSUME NEW r \in Runs, StartReply(r) PROVE Turns'
  <2>1. /\ turn[r] = "no" /\ turn' = [turn EXCEPT ![r] = "answer"] /\ voiceStream' = r
        /\ \A q \in Runs : q < r => q \in cancelled \/ turn[q] \in {"over", "aborted"}
        /\ UNCHANGED <<queued, cancelled>>
    BY <1>3 DEF StartReply
  <2>2. \A q \in Runs \ {r} : turn'[q] = turn[q]
    BY <2>1 DEF TypeOK
  <2>3. turn'[r] = "answer" /\ r \notin cancelled
    BY <2>1 DEF TypeOK, Turns
  <2>4. \A q \in Runs : r < q => turn[q] = "no"
    BY <2>1, <2>3 DEF Turns
  <2>5. \A q \in Runs \ {r} : q < r \/ r < q
    BY <1>1
  <2>6. \A q \in Runs : turn'[q] = "no" => q \notin cancelled' /\ queued'[q] = 0 /\ voiceStream' # q
    BY <2>1, <2>2, <2>3 DEF Turns
  <2>7. \A q \in cancelled' : voiceStream' # q
    BY <2>1, <2>3
  <2>8. \A q, t \in Runs : q < t /\ turn'[t] # "no" => q \in cancelled' \/ turn'[q] \in {"over", "aborted"}
    <3> SUFFICES ASSUME NEW q \in Runs, NEW t \in Runs, q < t, turn'[t] # "no"
                 PROVE  q \in cancelled \/ turn'[q] \in {"over", "aborted"}
      BY <2>1
    <3>1. q # r
      BY <2>2, <2>4, <1>1
    <3>2. CASE t = r
      BY <2>1, <2>2, <3>1, <3>2
    <3>3. CASE t # r
      BY <2>2, <3>1, <3>3 DEF Turns
    <3> QED
      BY <3>2, <3>3
  <2>9. \A q \in Runs : turn'[q] \in {"answer", "drain", "chain", "playback"} => q \in cancelled' \/ voiceStream' = q
    <3> SUFFICES ASSUME NEW q \in Runs, q # r, turn'[q] \in {"answer", "drain", "chain", "playback"}
                 PROVE  q \in cancelled
      BY <2>1
    <3> QED
      BY <2>1, <2>2, <2>4, <2>5
  <2> QED
    BY <2>6, <2>7, <2>8, <2>9 DEF Turns
<1>4. ASSUME NEW r \in Runs, Delta(r) PROVE Turns'
  <2>1. PICK n \in {1, 2} : queued' = [queued EXCEPT ![r] = queued[r] + n]
    BY <1>4, QueueEffect DEF Delta
  <2>2. turn[r] = "answer" /\ UNCHANGED <<turn, voiceStream, cancelled>>
    BY <1>4 DEF Delta
  <2>3. \A q \in Runs : turn[q] = "no" => queued'[q] = queued[q]
    BY <2>1, <2>2 DEF TypeOK
  <2> QED
    BY <2>2, <2>3 DEF Turns
<1>5. ASSUME NEW r \in Runs, FinishReply(r) PROVE Turns'
  <2>1. turn[r] = "answer" /\ turn' = [turn EXCEPT ![r] = "drain"] /\ UNCHANGED <<voiceStream, cancelled>>
    BY <1>5 DEF FinishReply
  <2>2. \A q \in Runs \ {r} : queued'[q] = queued[q]
    <3>1. CASE UNCHANGED queued
      BY <3>1
    <3>2. CASE MayQueue(r, 1) /\ Queue(r, 1)
      <4>1. queued' = [queued EXCEPT ![r] = queued[r] + 1]
        BY <3>2, QueueEffect
      <4> QED
        BY <4>1 DEF TypeOK
    <3> QED
      BY <1>5, <3>1, <3>2 DEF FinishReply
  <2>3. turn'[r] = "drain" /\ \A q \in Runs \ {r} : turn'[q] = turn[q]
    BY <2>1 DEF TypeOK
  <2> QED
    BY <2>1, <2>2, <2>3 DEF Turns
<1>6. ASSUME NEW r \in Runs, AnswerFails(r) PROVE Turns'
  <2>1. turn'[r] = "aborted" /\ turn[r] = "answer" /\ \A q \in Runs \ {r} : turn'[q] = turn[q]
    BY <1>6 DEF AnswerFails, TypeOK
  <2> QED
    BY <1>6, <2>1 DEF AnswerFails, Turns
<1>7. ASSUME NEW r \in Runs, ReplyGoesOn(r) PROVE Turns'
  <2>1. /\ turn[r] \in {"drain", "chain", "playback"} /\ turn'[r] \in {"chain", "playback", "over"}
        /\ \A q \in Runs \ {r} : turn'[q] = turn[q]
        /\ UNCHANGED <<queued, cancelled>>
    BY <1>7 DEF ReplyGoesOn, Drained, ChainDone, PlaybackDone, TypeOK
  <2>2. CASE UNCHANGED voiceStream
    <3>1. turn'[r] \in {"chain", "playback"} \/ turn'[r] = "over"
      BY <2>1
    <3> QED
      BY <2>1, <2>2, <3>1 DEF Turns
  <2>3. CASE voiceStream = r /\ voiceStream' = None /\ turn'[r] = "over"
    BY <1>1, <2>1, <2>3 DEF Turns
  <2>4. UNCHANGED voiceStream \/ (voiceStream = r /\ voiceStream' = None /\ turn'[r] = "over")
    BY <1>7 DEF ReplyGoesOn, Drained, ChainDone, PlaybackDone, TypeOK
  <2> QED
    BY <2>2, <2>3, <2>4
<1>8. CASE Cancel
  <2>1. /\ cancelled' = cancelled \cup {voiceStream} /\ voiceStream' = None /\ queued' = queued
        /\ \A r \in Runs : turn'[r] = IF r = voiceStream /\ turn[r] = "answer" THEN "aborted" ELSE turn[r]
        /\ voiceStream \in Runs
    BY <1>8 DEF Cancel, TypeOK
  <2>2. \A r \in Runs : turn'[r] # turn[r] => turn[r] = "answer" /\ turn'[r] = "aborted"
    BY <2>1
  <2>3. \A r \in Runs : turn'[r] = "no" => r \notin cancelled' /\ queued'[r] = 0 /\ voiceStream' # r
    BY <1>1, <2>1, <2>2 DEF Turns
  <2>4. \A r \in cancelled' : voiceStream' # r
    BY <1>1, <2>1
  <2>5. \A q, r \in Runs : q < r /\ turn'[r] # "no" => q \in cancelled' \/ turn'[q] \in {"over", "aborted"}
    BY <2>1, <2>2 DEF Turns
  <2>6. \A r \in Runs : turn'[r] \in {"answer", "drain", "chain", "playback"} => r \in cancelled' \/ voiceStream' = r
    BY <2>1, <2>2 DEF Turns
  <2> QED
    BY <2>3, <2>4, <2>5, <2>6 DEF Turns
<1>9. CASE Elsewhere /\ ~Cancel
  <2>1. UNCHANGED turnVars
    BY <1>9 DEF Elsewhere, AudioSteps, Audio, StreamEnds, SourcesEnd, SystemEnds, Listen, ListenSteps,
                ListenOpens, ListenResolves
  <2> QED
    BY <1>2, <2>1
<1>10. ASSUME NEW r \in Runs, PumpOpens(r) \/ PumpFails(r) \/ PumpGoesOn(r) \/ LinkStarts(r) \/ LinkResolves(r)
       PROVE  Turns'
  <2>1. UNCHANGED turnVars
    BY <1>10 DEF PumpOpens, PumpFails, PumpGoesOn, LinkStarts, LinkResolves
  <2> QED
    BY <1>2, <2>1
<1> QED
  BY <1>3, <1>4, <1>5, <1>6, <1>7, <1>8, <1>9, <1>10, StepCases

-----------------------------------------------------------------------------
(* One reply. *)

\* A step leaves reply q as it is.
SameRun(q) ==
    /\ SameWork(q) /\ turn'[q] = turn[q] /\ queued'[q] = queued[q] /\ chain'[q] = chain[q]
    /\ playing'[q] = playing[q] /\ failed'[q] = failed[q] /\ said'[q] = said[q]

\* No stream is opened twice.
Forward ==
    \A u \in Utterances : /\ end[u] # "none" => end'[u] # "none"
                          /\ end[u] \notin {"none", "open"} => end'[u] # "open"

LEMMA Untouched ==
  ASSUME TypeOK, NEW q \in Runs, RunAt(q), SameRun(q), Forward, got' = got, q \in cancelled' <=> q \in cancelled
  PROVE  RunAt(q)'
<1>1. LinksAt(q)'
  BY DEF RunAt, LinksAt, SameRun, Forward
<1>2. PumpAt(q)'
  BY DEF RunAt, PumpAt, SameRun, SameWork
<1>3. SilencedAt(q)'
  <2> SUFFICES ASSUME playing[q] PROVE chain[q] # <<>> /\ (q \in cancelled /\ chain[q][1].kind = "neural" => end'[chain[q][1].utter] # "open")
    BY DEF SilencedAt, SameRun
  <2>1. chain[q] # <<>> /\ (q \in cancelled /\ chain[q][1].kind = "neural" => end[chain[q][1].utter] # "open")
    BY DEF RunAt, SilencedAt
  <2>2. ASSUME chain[q][1].kind = "neural" PROVE chain[q][1].utter \in Utterances /\ end[chain[q][1].utter] # "none"
    BY <2>1, <2>2, HeadLink DEF RunAt, LinksAt
  <2> QED
    BY <2>1, <2>2 DEF Forward
<1>4. PhrasesAt(q)'
  BY DEF RunAt, PhrasesAt, OrderAt, CompleteAt, SameRun, SameWork
<1> QED
  BY <1>1, <1>2, <1>3, <1>4 DEF RunAt

\* A stream is opened, or all that are open end.
LEMMA OpenGoesForward ==
  ASSUME TypeOK, NEW u \in Utterances, Open(u)
  PROVE  Forward /\ end[u] = "none" /\ end'[u] = "open" /\ got' = got
<1>1. end[u] = "none"
  BY ReplyAssumption DEF Open, TypeOK
<1> QED
  BY <1>1 DEF Open, TypeOK, Forward

LEMMA StopGoesForward ==
  ASSUME TypeOK, NEW next, StopVoicePlayback(next)
  PROVE  Forward /\ \A u \in Utterances : end'[u] # "open"
  BY DEF StopVoicePlayback, TypeOK, Forward

\* The streams, the sounds and Listen do not touch a reply, but for what Audio says.
LEMMA ElsewhereStep ==
  ASSUME TypeOK, NEW q \in Runs, RunAt(q), Elsewhere, \A u \in Utterances : ~Audio(u), ~Cancel
  PROVE  RunAt(q)'
<1>1. SameRun(q) /\ got' = got /\ cancelled' = cancelled
  BY DEF Elsewhere, AudioSteps, StreamEnds, SourcesEnd, SystemEnds, Listen, ListenSteps, ListenOpens,
         ListenResolves, Open, SameRun, SameWork, streamVars, turnVars, workVars, chainVars, soundVars
<1>2. Forward
  <2>1. ASSUME UNCHANGED end PROVE Forward
    BY <2>1 DEF Forward
  <2>2. ASSUME NEW u \in Utterances, StreamEnds(u) PROVE Forward
    BY <2>2 DEF StreamEnds, Forward, TypeOK
  <2>3. ASSUME NEW p \in Presses, ListenOpens(p) PROVE Forward
    BY <2>3, OpenGoesForward DEF ListenOpens
  <2>4. ASSUME NEW p \in Presses, Listen(p) \/ ListenResolves(p) PROVE Forward
    BY <2>1, <2>4, StopGoesForward DEF Listen, ListenResolves, FallBack
  <2>5. ASSUME NEW u \in Utterances, SourcesEnd(u) PROVE Forward
    BY <2>1, <2>5 DEF SourcesEnd, streamVars
  <2>6. ASSUME NEW x \in Speakers, SystemEnds(x) PROVE Forward
    BY <2>1, <2>6 DEF SystemEnds, streamVars
  <2> QED
    BY <2>2, <2>3, <2>4, <2>5, <2>6 DEF Elsewhere, AudioSteps, ListenSteps
<1> QED
  BY <1>1, <1>2, Untouched

\* cancelHandsfree: every open stream has ended.
LEMMA CancelStep ==
  ASSUME TypeOK, NEW q \in Runs, RunAt(q), Cancel
  PROVE  RunAt(q)'
<1>1. /\ Forward /\ \A u \in Utterances : end'[u] # "open"
      /\ UNCHANGED <<got, queued, said, workVars, chainVars>>
      /\ cancelled \subseteq cancelled'
      /\ turn'[q] = turn[q] \/ turn'[q] = "aborted"
  <2>1. Forward /\ \A u \in Utterances : end'[u] # "open"
    BY StopGoesForward DEF Cancel
  <2> QED
    BY <2>1 DEF Cancel, TypeOK
<1>2. LinksAt(q)'
  BY <1>1 DEF RunAt, LinksAt, Forward, chainVars
<1>3. PumpAt(q)'
  BY <1>1 DEF RunAt, PumpAt, chainVars, workVars
<1>4. SilencedAt(q)'
  <2> SUFFICES ASSUME playing[q] PROVE chain[q] # <<>> /\ (chain[q][1].kind = "neural" => end'[chain[q][1].utter] # "open")
    BY <1>1 DEF SilencedAt, chainVars
  <2>1. chain[q] # <<>>
    BY DEF RunAt, SilencedAt
  <2> QED
    BY <1>1, <2>1, HeadLink DEF RunAt, LinksAt
<1>5. PhrasesAt(q)'
  BY <1>1 DEF RunAt, PhrasesAt, OrderAt, CompleteAt, chainVars, workVars
<1> QED
  BY <1>2, <1>3, <1>4, <1>5 DEF RunAt

\* What reply r consists of.
LEMMA Parts ==
  ASSUME TypeOK, NEW r \in Runs
  PROVE  /\ said[r] \in Seq(Phrases) /\ chain[r] \in Seq(Links) /\ batch[r] \in Seq(Phrases)
         /\ pendingPhrases[r] \in Seq(Phrases) /\ queued[r] \in Nat
         /\ \A pl, g : Unheard(chain[r], pl, g) \in SUBSET DOMAIN chain[r]
  BY ReplyAssumption DEF TypeOK, Unheard

\* The first link of reply r sounds.
LEMMA SpokenAt ==
  ASSUME TypeOK, NEW r \in Runs, RunAt(r), 1 \in Unheard(chain[r], playing[r], got)
  PROVE  LET s == said[r] \o chain[r][1].phrases
             left == Unheard(chain[r], playing[r], got) \ {1}
         IN  /\ Order(s, chain[r], left, batch[r], pendingPhrases[r], queued[r])
             /\ turn[r] # "aborted" /\ r \notin cancelled /\ ~failed[r]
                  => Complete(s, chain[r], left, batch[r], pendingPhrases[r], queued[r])
<1> DEFINE s == said[r]
           c == chain[r]
           left == Unheard(c, playing[r], got)
           b == batch[r]
           p == pendingPhrases[r]
           n == queued[r]
<1>1. /\ s \in Seq(Phrases) /\ c \in Seq(Links) /\ b \in Seq(Phrases) /\ p \in Seq(Phrases) /\ n \in Nat
      /\ left \in SUBSET DOMAIN c
  BY Parts
<1>2. /\ Order(s, c, left, b, p, n)
      /\ turn[r] # "aborted" /\ r \notin cancelled /\ ~failed[r] => Complete(s, c, left, b, p, n)
  BY DEF RunAt, PhrasesAt, OrderAt, CompleteAt
<1>3. 1 \in left
  OBVIOUS
<1> HIDE DEF s, c, left, b, p, n
<1>4. /\ Order(s \o c[1].phrases, c, left \ {1}, b, p, n)
      /\ Complete(s, c, left, b, p, n) => Complete(s \o c[1].phrases, c, left \ {1}, b, p, n)
  BY <1>1, <1>2, <1>3, Spoken
<1> QED
  BY <1>2, <1>4 DEF s, c, left, b, p, n

\* The first link of reply r leaves the chain.
LEMMA UnlinkedAt ==
  ASSUME TypeOK, NEW r \in Runs, RunAt(r), chain[r] # <<>>
  PROVE  LET c == Tail(chain[r])
         IN  /\ c \in Seq(Links) /\ Unheard(c, FALSE, got) = DOMAIN c
             /\ Order(said[r], c, DOMAIN c, batch[r], pendingPhrases[r], queued[r])
             /\ (/\ 1 \notin Unheard(chain[r], playing[r], got)
                 /\ turn[r] # "aborted" /\ r \notin cancelled /\ ~failed[r])
                  => Complete(said[r], c, DOMAIN c, batch[r], pendingPhrases[r], queued[r])
             /\ \A i \in DOMAIN c : i + 1 \in DOMAIN chain[r] /\ c[i] = chain[r][i + 1]
<1> DEFINE s == said[r]
           c == chain[r]
           left == Unheard(c, playing[r], got)
           b == batch[r]
           p == pendingPhrases[r]
           n == queued[r]
<1>1. /\ s \in Seq(Phrases) /\ c \in Seq(Links) /\ b \in Seq(Phrases) /\ p \in Seq(Phrases) /\ n \in Nat
      /\ left \in SUBSET DOMAIN c /\ c # <<>>
  BY Parts
<1>2. /\ Order(s, c, left, b, p, n)
      /\ turn[r] # "aborted" /\ r \notin cancelled /\ ~failed[r] => Complete(s, c, left, b, p, n)
  BY DEF RunAt, PhrasesAt, OrderAt, CompleteAt
<1>3. \A i \in DOMAIN c : i # 1 => i \in left
  BY DEF Unheard
<1>4. Unheard(Tail(c), FALSE, got) = DOMAIN Tail(c)
  BY DEF Unheard
<1> HIDE DEF s, c, left, b, p, n
<1>5. /\ Tail(c) \in Seq(Links)
      /\ Order(s, Tail(c), DOMAIN Tail(c), b, p, n)
      /\ 1 \notin left /\ Complete(s, c, left, b, p, n) => Complete(s, Tail(c), DOMAIN Tail(c), b, p, n)
  BY <1>1, <1>2, <1>3, Unlinked
<1>6. \A i \in DOMAIN Tail(c) : i + 1 \in DOMAIN c /\ Tail(c)[i] = c[i + 1]
  BY <1>1
<1> QED
  BY <1>2, <1>4, <1>5, <1>6 DEF s, c, left, b, p, n

\* The first piece of audio of a stream: the reply that plays it, if any, has said its phrases.
LEMMA AudioStep ==
  ASSUME TypeOK, NEW q \in Runs, RunAt(q), NEW u \in Utterances, Audio(u)
  PROVE  RunAt(q)'
<1> DEFINE c == chain[q]
           left == Unheard(c, playing[q], got)
<1>1. /\ ~got[u] /\ got' = [got EXCEPT ![u] = TRUE]
      /\ UNCHANGED <<end, turnVars, workVars, chainVars>>
      /\ said'[q] = IF q \in PlayedBy(u) THEN said[q] \o Head(c).phrases ELSE said[q]
  BY DEF Audio
<1>2. LinksAt(q)' /\ PumpAt(q)' /\ SilencedAt(q)'
  BY <1>1 DEF RunAt, LinksAt, PumpAt, SilencedAt, turnVars, workVars, chainVars
<1>3. \A v \in Utterances : got'[v] = (got[v] \/ v = u)
  BY <1>1 DEF TypeOK
<1>4. CASE q \in PlayedBy(u)
  <2>1. playing[q] /\ c # <<>> /\ c[1].utter = u /\ Head(c) = c[1] /\ 1 \in DOMAIN c
    BY <1>4, HeadLink DEF PlayedBy
  <2>2. c[1].kind = "neural"
    BY <2>1, ReplyAssumption, HeadLink DEF RunAt, LinksAt
  <2>3. 1 \in left
    BY <1>1, <2>1, <2>2 DEF Unheard
  <2>4. Unheard(c, playing[q], got') = left \ {1}
    <3>1. got'[c[1].utter]
      BY <1>3, <2>1
    <3> QED
      BY <2>1, <2>2, <3>1 DEF Unheard
  <2>5. said'[q] = said[q] \o c[1].phrases
    BY <1>1, <1>4, <2>1
  <2> HIDE DEF c, left
  <2>6. /\ Order(said'[q], c, left \ {1}, batch[q], pendingPhrases[q], queued[q])
        /\ turn[q] # "aborted" /\ q \notin cancelled /\ ~failed[q]
             => Complete(said'[q], c, left \ {1}, batch[q], pendingPhrases[q], queued[q])
    BY <2>3, <2>5, SpokenAt DEF c, left
  <2>7. PhrasesAt(q)'
    BY <1>1, <2>4, <2>6 DEF PhrasesAt, OrderAt, CompleteAt, c, turnVars, workVars, chainVars
  <2> QED
    BY <1>2, <2>7 DEF RunAt
<1>5. CASE q \notin PlayedBy(u)
  <2>1. Unheard(c, playing[q], got') = left
    <3>1. ASSUME NEW i \in DOMAIN c, i = 1, playing[q], c[i].kind = "neural" PROVE got'[c[i].utter] = got[c[i].utter]
      <4>1. c # <<>> /\ Head(c) = c[1] /\ c[1].utter \in Utterances
        BY <3>1, HeadLink DEF RunAt, LinksAt, SilencedAt
      <4>2. c[1].utter # u
        BY <1>5, <3>1, <4>1 DEF PlayedBy
      <4> QED
        BY <1>1, <3>1, <4>1, <4>2 DEF TypeOK
    <3> QED
      BY <3>1 DEF Unheard
  <2>2. said'[q] = said[q]
    BY <1>1, <1>5
  <2>3. PhrasesAt(q)'
    BY <1>1, <2>1, <2>2 DEF RunAt, PhrasesAt, OrderAt, CompleteAt, turnVars, workVars, chainVars
  <2> QED
    BY <1>2, <2>3 DEF RunAt
<1> QED
  BY <1>4, <1>5

\* A step of reply r, as long as it touches no other.
LEMMA OneReply ==
  ASSUME TypeOK, \A q \in Runs : RunAt(q), NEW r \in Runs, RunAt(r)',
         Forward, got' = got, cancelled' = cancelled, \A q \in Runs \ {r} : SameRun(q)
  PROVE  \A q \in Runs : RunAt(q)'
  BY Untouched

\* A reply that may not speak, and still has a link or a batch, promises nothing any more.
LEMMA Abandoned ==
  ASSUME TypeOK, Turns, NEW r \in Runs, RunAt(r), voiceStream # r, chain[r] # <<>> \/ pump[r] = "prepare"
  PROVE  turn[r] = "aborted" \/ r \in cancelled \/ queued[r] = 0
<1>1. turn[r] # "over"
  BY DEF RunAt, PumpAt
<1> QED
  BY <1>1 DEF Turns, TypeOK

LEMMA EmptyComplete ==
  ASSUME NEW s, NEW c, NEW left, NEW b, NEW p
  PROVE  Complete(s, c, left, b, p, 0)
  BY DEF Complete

LEMMA LinkStartsStep ==
  ASSUME TypeOK, Turns, NEW r \in Runs, RunAt(r), LinkStarts(r)
  PROVE  RunAt(r)'
<1> DEFINE c == chain[r]
           link == c[1]
<1>1. /\ c # <<>> /\ ~playing[r] /\ Head(c) = link /\ link.kind \in {"neural", "system"} /\ 1 \in DOMAIN c
      /\ UNCHANGED <<streamVars, turnVars, workVars, failed>>
  BY HeadLink DEF LinkStarts
<1>2. CASE ~MaySpeak(r)
  <2>1. chain'[r] = Tail(c) /\ UNCHANGED <<playing, said>>
    BY <1>1, <1>2 DEF LinkStarts, soundVars, TypeOK
  <2>2. /\ Unheard(Tail(c), FALSE, got) = DOMAIN Tail(c)
        /\ Order(said[r], Tail(c), DOMAIN Tail(c), batch[r], pendingPhrases[r], queued[r])
        /\ \A i \in DOMAIN Tail(c) : i + 1 \in DOMAIN c /\ Tail(c)[i] = c[i + 1]
    BY <1>1, UnlinkedAt
  <2>3. turn[r] = "aborted" \/ r \in cancelled \/ queued[r] = 0
    BY <1>1, <1>2, Abandoned DEF MaySpeak
  <2>4. turn[r] \notin {"playback", "over"}
    BY <1>1 DEF RunAt, PumpAt
  <2> HIDE DEF c
  <2>5. LinksAt(r)'
    BY <1>1, <2>1, <2>2 DEF RunAt, LinksAt, c, streamVars
  <2>6. PumpAt(r)' /\ SilencedAt(r)'
    BY <1>1, <2>1, <2>4 DEF RunAt, PumpAt, SilencedAt, turnVars, workVars
  <2>7. PhrasesAt(r)'
    <3>1. playing'[r] = FALSE /\ got' = got
      BY <1>1, <2>1 DEF streamVars, TypeOK
    <3> QED
      BY <1>1, <2>1, <2>2, <2>3, <3>1, EmptyComplete DEF PhrasesAt, OrderAt, CompleteAt, turnVars, workVars
  <2> QED
    BY <2>5, <2>6, <2>7 DEF RunAt
<1>3. CASE MaySpeak(r)
  <2>1. playing'[r] = TRUE /\ UNCHANGED chain
    BY <1>1, <1>3 DEF LinkStarts, TypeOK
  <2>2. LinksAt(r)' /\ PumpAt(r)'
    BY <1>1, <2>1 DEF RunAt, LinksAt, PumpAt, streamVars, turnVars, workVars
  <2>3. SilencedAt(r)'
    BY <1>1, <1>3, <2>1 DEF SilencedAt, MaySpeak, Turns, turnVars
  <2>4. 1 \in Unheard(c, playing[r], got)
    BY <1>1 DEF Unheard
  <2>5. CASE link.kind = "neural" /\ ~got[link.utter]
    <3>1. said' = said
      BY <1>1, <1>3, <2>5 DEF LinkStarts
    <3>2. Unheard(c, TRUE, got) = Unheard(c, playing[r], got)
      BY <1>1, <2>5 DEF Unheard
    <3>3. PhrasesAt(r)'
      BY <1>1, <2>1, <3>1, <3>2 DEF RunAt, PhrasesAt, OrderAt, CompleteAt, streamVars, turnVars, workVars
    <3> QED
      BY <2>2, <2>3, <3>3 DEF RunAt
  <2>6. CASE link.kind = "system" \/ got[link.utter]
    <3>1. said'[r] = said[r] \o link.phrases
      <4>1. said' = [said EXCEPT ![r] = said[r] \o link.phrases]
        BY <1>1, <1>3, <2>6 DEF LinkStarts
      <4> QED
        BY <4>1 DEF TypeOK
    <3>2. Unheard(c, TRUE, got) = Unheard(c, playing[r], got) \ {1}
      BY <1>1, <2>6 DEF Unheard
    <3>3. /\ Order(said'[r], c, Unheard(c, TRUE, got), batch[r], pendingPhrases[r], queued[r])
          /\ turn[r] # "aborted" /\ r \notin cancelled /\ ~failed[r]
               => Complete(said'[r], c, Unheard(c, TRUE, got), batch[r], pendingPhrases[r], queued[r])
      BY <2>4, <3>1, <3>2, SpokenAt
    <3>4. PhrasesAt(r)'
      BY <1>1, <2>1, <3>3 DEF PhrasesAt, OrderAt, CompleteAt, streamVars, turnVars, workVars
    <3> QED
      BY <2>2, <2>3, <3>4 DEF RunAt
  <2> QED
    BY <1>1, <2>5, <2>6
<1> QED
  BY <1>2, <1>3

LEMMA LinkResolvesStep ==
  ASSUME TypeOK, Turns, NEW r \in Runs, RunAt(r), LinkResolves(r)
  PROVE  RunAt(r)'
<1> DEFINE c == chain[r]
           link == c[1]
<1>1. /\ c # <<>> /\ playing[r] /\ Head(c) = link /\ link.kind \in {"neural", "system"} /\ 1 \in DOMAIN c
      /\ UNCHANGED <<streamVars, turnVars, workVars, said>>
      /\ chain'[r] = Tail(c) /\ playing'[r] = FALSE
  <2>1. c # <<>> /\ playing[r]
    BY DEF LinkResolves
  <2> QED
    BY <2>1, HeadLink DEF LinkResolves, TypeOK, soundVars
<1>2. failed[r] => failed'[r]
  BY DEF LinkResolves, TypeOK
<1>3. 1 \in Unheard(c, playing[r], got) => failed'[r] \/ voiceStream # r
  <2> SUFFICES ASSUME link.kind = "neural", ~got[link.utter] PROVE failed'[r] \/ voiceStream # r
    BY <1>1 DEF Unheard
  <2>1. failed' = [failed EXCEPT ![r] = failed[r] \/ voiceStream = r]
    BY <1>1 DEF LinkResolves
  <2> QED
    BY <2>1 DEF TypeOK
<1>4. voiceStream # r => turn[r] = "aborted" \/ r \in cancelled \/ queued[r] = 0
  BY <1>1, Abandoned
<1>5. turn[r] \notin {"playback", "over"}
  BY <1>1 DEF RunAt, PumpAt
<1>6. /\ Unheard(Tail(c), FALSE, got) = DOMAIN Tail(c)
      /\ Order(said[r], Tail(c), DOMAIN Tail(c), batch[r], pendingPhrases[r], queued[r])
      /\ (/\ 1 \notin Unheard(c, playing[r], got)
          /\ turn[r] # "aborted" /\ r \notin cancelled /\ ~failed[r])
             => Complete(said[r], Tail(c), DOMAIN Tail(c), batch[r], pendingPhrases[r], queued[r])
      /\ \A i \in DOMAIN Tail(c) : i + 1 \in DOMAIN c /\ Tail(c)[i] = c[i + 1]
  BY <1>1, UnlinkedAt
<1> HIDE DEF c
<1>7. LinksAt(r)'
  BY <1>1, <1>6 DEF RunAt, LinksAt, c, streamVars
<1>8. PumpAt(r)' /\ SilencedAt(r)'
  BY <1>1, <1>5 DEF RunAt, PumpAt, SilencedAt, turnVars, workVars
<1>9. PhrasesAt(r)'
  <2>1. OrderAt(r)'
    BY <1>1, <1>6 DEF OrderAt, streamVars, turnVars, workVars
  <2>2. ASSUME turn[r] # "aborted", r \notin cancelled, ~failed'[r]
        PROVE  Complete(said[r], Tail(c), DOMAIN Tail(c), batch[r], pendingPhrases[r], queued[r])
    BY <1>2, <1>3, <1>4, <1>6, <2>2, EmptyComplete
  <2> QED
    BY <1>1, <1>6, <2>1, <2>2 DEF PhrasesAt, CompleteAt, streamVars, turnVars, workVars
<1> QED
  BY <1>7, <1>8, <1>9 DEF RunAt

LEMMA PumpOpensStep ==
  ASSUME TypeOK, NEW r \in Runs, RunAt(r), PumpOpens(r)
  PROVE  RunAt(r)' /\ Forward /\ got' = got
<1>1. PICK u \in Utterances : /\ Open(u) /\ pump' = [pump EXCEPT ![r] = "await"]
                              /\ chain' = [chain EXCEPT ![r] = Append(chain[r], Link("neural", u, batch[r]))]
                              /\ batch' = [batch EXCEPT ![r] = <<>>]
  BY DEF PumpOpens
<1>2. /\ pump[r] = "prepare"
      /\ UNCHANGED <<turnVars, pendingPhrases, workerActive, playing, failed, said>>
  BY DEF PumpOpens, soundVars
<1>3. Forward /\ end'[u] = "open" /\ got' = got
  BY <1>1, OpenGoesForward
<1> DEFINE link == Link("neural", u, batch[r])
           c == chain[r]
           d == Append(c, link)
           left == Unheard(c, playing[r], got)
           s == said[r]
           b == batch[r]
           p == pendingPhrases[r]
           n == queued[r]
<1>4. link \in Links /\ link.kind = "neural" /\ link.utter = u /\ link.phrases = b
  BY DEF Link, Links, TypeOK
<1>5. /\ s \in Seq(Phrases) /\ c \in Seq(Links) /\ b \in Seq(Phrases) /\ p \in Seq(Phrases) /\ n \in Nat
      /\ left \in SUBSET DOMAIN c
  BY Parts
<1>6. chain'[r] = d /\ batch'[r] = <<>> /\ pump'[r] = "await"
  BY <1>1 DEF TypeOK
<1>7. /\ Order(s, c, left, b, p, n)
      /\ turn[r] # "aborted" /\ r \notin cancelled /\ ~failed[r] => Complete(s, c, left, b, p, n)
  BY DEF RunAt, PhrasesAt, OrderAt, CompleteAt
<1>8. /\ turn[r] \notin {"chain", "playback", "over"} /\ workerActive[r]
      /\ playing[r] => c # <<>>
  BY <1>2 DEF RunAt, PumpAt, SilencedAt
<1> HIDE DEF link
<1>9. /\ DOMAIN d = DOMAIN c \cup {Len(c) + 1} /\ d[Len(c) + 1] = link /\ \A i \in DOMAIN c : d[i] = c[i]
      /\ Len(c) + 1 \notin DOMAIN c
      /\ c # <<>> => 1 \in DOMAIN c
  BY <1>4, <1>5
<1> HIDE DEF c, d
<1>10. Unheard(d, playing[r], got) = left \cup {Len(c) + 1}
  BY <1>8, <1>9 DEF Unheard
<1> HIDE DEF left, s, b, p, n
<1>11. /\ Order(s, d, left \cup {Len(c) + 1}, <<>>, p, n)
       /\ Complete(s, c, left, b, p, n) => Complete(s, d, left \cup {Len(c) + 1}, <<>>, p, n)
  BY <1>4, <1>5, <1>7, Linked DEF d
<1>12. LinksAt(r)'
  <2>1. \A i \in DOMAIN c : IF c[i].kind = "system" THEN c[i].utter = None
                            ELSE c[i].utter \in Utterances /\ end'[c[i].utter] # "none"
    BY <1>3 DEF RunAt, LinksAt, Forward, c
  <2> QED
    BY <1>3, <1>4, <1>6, <1>9, <2>1 DEF LinksAt
<1>13. PumpAt(r)'
  BY <1>2, <1>6, <1>8 DEF PumpAt, turnVars
<1>14. SilencedAt(r)'
  <2> SUFFICES ASSUME playing[r]
               PROVE  d # <<>> /\ (r \in cancelled /\ d[1].kind = "neural" => end'[d[1].utter] # "open")
    BY <1>2, <1>6 DEF SilencedAt, turnVars
  <2>1. 1 \in DOMAIN c /\ d[1] = c[1] /\ d # <<>>
    BY <1>8, <1>9
  <2>2. r \in cancelled /\ c[1].kind = "neural" => end[c[1].utter] # "open"
    BY DEF RunAt, SilencedAt, c
  <2>3. c[1].kind = "neural" => c[1].utter \in Utterances /\ end[c[1].utter] # "none"
    BY <2>1 DEF RunAt, LinksAt, c
  <2> QED
    BY <1>3, <2>1, <2>2, <2>3 DEF Forward
<1>15. PhrasesAt(r)'
  BY <1>2, <1>3, <1>6, <1>7, <1>10, <1>11 DEF PhrasesAt, OrderAt, CompleteAt, turnVars, s, p, n
<1> QED
  BY <1>3, <1>12, <1>13, <1>14, <1>15 DEF RunAt

\* The pump takes the next batch from queue q, or ends.  c, left and n are those of the new
\* state; a batch that is dropped must have been shown to fail.
LEMMA LoopPhrases ==
  ASSUME TypeOK, NEW r \in Runs, NEW q \in Seq(Phrases), Takes(r, q) \/ Ends(r, q),
         NEW c \in Seq(Links), NEW left \in SUBSET DOMAIN c, NEW n \in Nat,
         Order(said[r], c, left, batch[r], q, n)
  PROVE  /\ Order(said[r], c, left, batch'[r], pendingPhrases'[r], n)
         /\ batch[r] = <<>> /\ Complete(said[r], c, left, batch[r], q, n)
              => Complete(said[r], c, left, batch'[r], pendingPhrases'[r], n)
<1> DEFINE s == said[r]
           b == batch[r]
<1>1. s \in Seq(Phrases) /\ b \in Seq(Phrases)
  BY Parts
<1>2. Order(s, c, left, b, q, n)
  OBVIOUS
<1>3. CASE Ends(r, q)
  <2>1. batch'[r] = <<>> /\ pendingPhrases'[r] = q
    BY <1>3 DEF Ends
  <2> HIDE DEF s, b
  <2>2. /\ Order(s, c, left, <<>>, q, n)
        /\ b = <<>> /\ Complete(s, c, left, b, q, n) => Complete(s, c, left, <<>>, q, n)
    BY <1>1, <1>2, Taken
  <2> QED
    BY <2>1, <2>2 DEF s, b
<1>4. CASE Takes(r, q)
  <2>1. PICK k \in 1 .. Len(q) : batch'[r] = SubSeq(q, 1, k) /\ pendingPhrases'[r] = SubSeq(q, k + 1, Len(q))
    BY <1>4 DEF Takes
  <2> HIDE DEF s, b
  <2>2. /\ Order(s, c, left, SubSeq(q, 1, k), SubSeq(q, k + 1, Len(q)), n)
        /\ b = <<>> /\ Complete(s, c, left, b, q, n)
             => Complete(s, c, left, SubSeq(q, 1, k), SubSeq(q, k + 1, Len(q)), n)
    BY <1>1, <1>2, Taken
  <2> QED
    BY <2>1, <2>2 DEF s, b
<1> QED
  BY <1>3, <1>4

LEMMA LoopStep ==
  ASSUME TypeOK, Turns, NEW r \in Runs, RunAt(r), PumpFails(r) \/ PumpGoesOn(r)
  PROVE  RunAt(r)' /\ \A q \in Runs \ {r} : SameRun(q)
<1> DEFINE p == pendingPhrases[r]
           c == chain[r]
           left == Unheard(c, playing[r], got)
<1>1. Loop(r, p) /\ UNCHANGED <<streamVars, turnVars, chain, playing, said>>
  BY DEF PumpFails, PumpGoesOn, PumpThrows, soundVars
<1>2. /\ \A q \in Runs : failed[q] => failed'[q]
      /\ \A q \in Runs \ {r} : failed'[q] = failed[q]
      /\ pump[r] = "prepare" => failed'[r] \/ voiceStream # r
  <2>1. CASE PumpThrows(r)
    BY <2>1 DEF PumpThrows, TypeOK
  <2>2. CASE UNCHANGED failed /\ pump[r] = "await"
    BY <2>2
  <2> QED
    BY <2>1, <2>2 DEF PumpFails, PumpGoesOn
<1>3. p \in Seq(Phrases) /\ c \in Seq(Links) /\ left \in SUBSET DOMAIN c /\ queued[r] \in Nat
  BY Parts
<1>4. (\A q \in Runs \ {r} : SameWork(q)) /\ (Takes(r, p) \/ Ends(r, p))
  BY <1>1, <1>3, LoopEffect
<1>5. \A q \in Runs \ {r} : SameRun(q)
  BY <1>1, <1>2, <1>4 DEF SameRun, turnVars
<1>6. /\ Order(said[r], c, left, batch[r], p, queued[r])
      /\ turn[r] # "aborted" /\ r \notin cancelled /\ ~failed[r]
           => Complete(said[r], c, left, batch[r], p, queued[r])
  BY DEF RunAt, PhrasesAt, OrderAt, CompleteAt
<1> HIDE DEF p, c, left
<1>7. /\ Order(said[r], c, left, batch'[r], pendingPhrases'[r], queued[r])
      /\ batch[r] = <<>> /\ Complete(said[r], c, left, batch[r], p, queued[r])
           => Complete(said[r], c, left, batch'[r], pendingPhrases'[r], queued[r])
  BY <1>3, <1>4, <1>6, LoopPhrases
<1>8. LinksAt(r)' /\ SilencedAt(r)'
  BY <1>1 DEF RunAt, LinksAt, SilencedAt, streamVars, turnVars
<1>9. PumpAt(r)'
  <2>1. turn[r] \in {"chain", "playback", "over"} => p = <<>>
    BY DEF RunAt, PumpAt, p
  <2>2. turn[r] \in {"playback", "over"} => chain[r] = <<>>
    BY DEF RunAt, PumpAt
  <2> QED
    BY <1>1, <1>4, <2>1, <2>2 DEF PumpAt, Takes, Ends, turnVars
<1>10. ASSUME turn[r] # "aborted", r \notin cancelled, ~failed'[r]
       PROVE  Complete(said[r], c, left, batch'[r], pendingPhrases'[r], queued[r])
  <2>1. CASE queued[r] = 0
    BY <2>1, EmptyComplete
  <2>2. CASE queued[r] # 0
    <3>1. pump[r] # "prepare"
      BY <1>2, <1>10, <2>2, Abandoned
    <3>2. batch[r] = <<>>
      BY <3>1 DEF RunAt, PumpAt
    <3> QED
      BY <1>2, <1>6, <1>7, <1>10, <3>2
  <2> QED
    BY <2>1, <2>2
<1>11. PhrasesAt(r)'
  BY <1>1, <1>7, <1>10 DEF PhrasesAt, OrderAt, CompleteAt, c, left, streamVars, turnVars
<1> QED
  BY <1>5, <1>8, <1>9, <1>11 DEF RunAt

\* Phrases are queued while the answer arrives.
LEMMA QueueStep ==
  ASSUME TypeOK, NEW r \in Runs, RunAt(r), NEW n \in {1, 2}, MayQueue(r, n), Queue(r, n),
         turn[r] = "answer", turn'[r] \in {"answer", "drain"},
         \A q \in Runs \ {r} : turn'[q] = turn[q],
         UNCHANGED <<streamVars, playing, failed, cancelled, said>>
  PROVE  RunAt(r)' /\ \A q \in Runs \ {r} : SameRun(q)
<1> DEFINE c == chain[r]
           left == Unheard(c, playing[r], got)
           k == queued[r]
           s == said[r]
           b == batch[r]
           p == pendingPhrases[r]
<1>1. /\ s \in Seq(Phrases) /\ c \in Seq(Links) /\ b \in Seq(Phrases) /\ p \in Seq(Phrases) /\ k \in Nat
      /\ left \in SUBSET DOMAIN c
  BY Parts
<1>2. /\ k + n \in 0 .. MaxPhrases /\ queued' = [queued EXCEPT ![r] = k + n]
      /\ \A q \in Runs \ {r} : SameWork(q)
  BY QueueEffect
<1>3. PICK x \in Seq(Phrases), y \in Seq(Links) :
         /\ Growth(x, y, k, k + n)
         /\ chain' = [chain EXCEPT ![r] = c \o y]
         /\ \/ /\ pendingPhrases'[r] = p \o x /\ batch'[r] = b /\ pump'[r] = pump[r]
               /\ workerActive'[r] = workerActive[r]
            \/ ~workerActive[r] /\ (Takes(r, p \o x) \/ Ends(r, p \o x))
  BY QueueEffect, Zenon
<1>4. queued'[r] = k + n /\ chain'[r] = c \o y /\ \A q \in Runs \ {r} : queued'[q] = queued[q] /\ chain'[q] = chain[q]
  BY <1>2, <1>3 DEF TypeOK
<1>5. \A q \in Runs \ {r} : SameRun(q)
  BY <1>2, <1>4 DEF SameRun
<1>6. /\ Order(s, c, left, b, p, k)
      /\ r \notin cancelled /\ ~failed[r] => Complete(s, c, left, b, p, k)
  BY DEF RunAt, PhrasesAt, OrderAt, CompleteAt
<1> DEFINE d == c \o y
           left2 == left \cup (DOMAIN d \ DOMAIN c)
           q == p \o x
<1>7. /\ q \in Seq(Phrases) /\ d \in Seq(Links) /\ left2 \in SUBSET DOMAIN d
  BY <1>1, <1>3
<1>8. /\ \A i \in DOMAIN c : i \in DOMAIN d /\ d[i] = c[i]
      /\ \A i \in DOMAIN d \ DOMAIN c : i - Len(c) \in DOMAIN y /\ d[i] = y[i - Len(c)]
      /\ c # <<>> => 1 \in DOMAIN c
      /\ c # <<>> => d # <<>>
  BY <1>1, <1>3
<1>9. playing[r] => c # <<>>
  BY DEF RunAt, SilencedAt
<1>10. Unheard(d, playing[r], got) = left2
  <2> HIDE DEF c, d
  <2> QED
    BY <1>8, <1>9 DEF Unheard
<1>11. k + n \in Nat /\ k <= k + n
  BY <1>1
<1> HIDE DEF c, left, k, s, b, p
<1>12. /\ Order(s, d, left2, b, q, k + n)
       /\ Complete(s, c, left, b, p, k) => Complete(s, d, left2, b, q, k + n)
  <2> DEFINE m == k + n
  <2>1. m \in Nat /\ k <= m
    BY <1>11
  <2>2. Growth(x, y, k, m)
    BY <1>3
  <2> HIDE DEF m
  <2>3. /\ Ordered(x) /\ Neural(x) /\ \A i \in DOMAIN x : k < x[i] /\ x[i] <= m
    BY <2>2 DEF Growth
  <2>4. /\ \A i \in DOMAIN y : /\ Ordered(y[i].phrases)
                               /\ \A j \in DOMAIN y[i].phrases :
                                     LET t == y[i].phrases[j] IN t \in Repeats /\ k < t /\ t <= m
        /\ \A i, j \in DOMAIN y : i < j => Before(y[i].phrases, y[j].phrases)
        /\ \A t \in k + 1 .. m : In(t, x) \/ \E i \in DOMAIN y : In(t, y[i].phrases)
    BY <2>2 DEF Growth
  <2>5. /\ Order(s, d, left2, b, q, m)
        /\ Complete(s, c, left, b, p, k) => Complete(s, d, left2, b, q, m)
    BY <1>1, <1>3, <1>6, <2>1, <2>3, <2>4, Added
  <2> QED
    BY <2>5 DEF m
<1>13. LinksAt(r)'
  <2>1. \A i \in DOMAIN c : IF c[i].kind = "system" THEN c[i].utter = None
                            ELSE c[i].utter \in Utterances /\ end[c[i].utter] # "none"
    BY DEF RunAt, LinksAt, c
  <2>2. \A i \in DOMAIN y : y[i].kind = "system" /\ y[i].utter = None
    BY <1>3 DEF Growth
  <2> HIDE DEF d
  <2>3. chain'[r] = d /\ end' = end
    BY <1>4 DEF d, streamVars
  <2> QED
    BY <1>8, <2>1, <2>2, <2>3 DEF LinksAt
<1>14. SilencedAt(r)'
  <2> SUFFICES ASSUME playing[r]
               PROVE  d # <<>> /\ (r \in cancelled /\ d[1].kind = "neural" => end[d[1].utter] # "open")
    BY <1>4 DEF SilencedAt, streamVars
  <2>1. 1 \in DOMAIN c /\ d[1] = c[1] /\ d # <<>>
    BY <1>8, <1>9
  <2>2. r \in cancelled /\ c[1].kind = "neural" => end[c[1].utter] # "open"
    BY DEF RunAt, SilencedAt, c
  <2> QED
    BY <2>1, <2>2
<1>15. (pump[r] # "settled" => workerActive[r]) /\ (pump[r] # "prepare" => b = <<>>)
  BY DEF RunAt, PumpAt, b
<1> HIDE DEF d, left2, q
<1>16. CASE /\ pendingPhrases'[r] = p \o x /\ batch'[r] = b /\ pump'[r] = pump[r]
            /\ workerActive'[r] = workerActive[r]
  <2>1. PumpAt(r)'
    BY <1>15, <1>16 DEF PumpAt
  <2>2. PhrasesAt(r)'
    BY <1>4, <1>6, <1>10, <1>12, <1>16 DEF PhrasesAt, OrderAt, CompleteAt, s, d, q, streamVars
  <2> QED
    BY <1>5, <1>13, <1>14, <2>1, <2>2 DEF RunAt
<1>17. CASE ~workerActive[r] /\ (Takes(r, p \o x) \/ Ends(r, p \o x))
  <2>1. PumpAt(r)'
    BY <1>17 DEF PumpAt, Takes, Ends
  <2>2. b = <<>>
    BY <1>15, <1>17
  <2>3. Takes(r, q) \/ Ends(r, q)
    BY <1>17 DEF q
  <2>4. /\ Order(said[r], d, left2, batch'[r], pendingPhrases'[r], k + n)
        /\ batch[r] = <<>> /\ Complete(said[r], d, left2, batch[r], q, k + n)
             => Complete(said[r], d, left2, batch'[r], pendingPhrases'[r], k + n)
    BY <1>7, <1>11, <1>12, <2>3, LoopPhrases DEF s, b
  <2>5. PhrasesAt(r)'
    BY <1>4, <1>6, <1>10, <1>12, <2>2, <2>4 DEF PhrasesAt, OrderAt, CompleteAt, s, b, d, streamVars
  <2> QED
    BY <1>5, <1>13, <1>14, <2>1, <2>5 DEF RunAt
<1> QED
  BY <1>3, <1>16, <1>17

\* The turn of reply r moves on.
LEMMA TurnStep ==
  ASSUME TypeOK, NEW r \in Runs, RunAt(r), StartReply(r) \/ AnswerFails(r) \/ ReplyGoesOn(r)
  PROVE  RunAt(r)' /\ \A q \in Runs \ {r} : SameRun(q)
<1>1. /\ UNCHANGED <<streamVars, queued, cancelled, said, workVars, chainVars>>
      /\ \A q \in Runs \ {r} : turn'[q] = turn[q]
  BY DEF StartReply, AnswerFails, ReplyGoesOn, Drained, ChainDone, PlaybackDone, TypeOK, soundVars
<1>2. \A q \in Runs \ {r} : SameRun(q)
  BY <1>1 DEF SameRun, SameWork, workVars, chainVars
<1>3. LinksAt(r)' /\ SilencedAt(r)'
  BY <1>1 DEF RunAt, LinksAt, SilencedAt, streamVars, chainVars
<1>4. PumpAt(r)'
  <2>1. PumpAt(r)
    BY DEF RunAt
  <2>2. /\ turn'[r] \in {"chain", "playback", "over"} => pump[r] # "prepare" /\ pendingPhrases[r] = <<>>
        /\ turn'[r] \in {"playback", "over"} => chain[r] = <<>>
    <3>1. CASE StartReply(r) \/ AnswerFails(r)
      BY <3>1 DEF StartReply, AnswerFails, TypeOK
    <3>2. CASE ReplyGoesOn(r)
      BY <2>1, <3>2 DEF PumpAt, ReplyGoesOn, Drained, ChainDone, PlaybackDone, WorkDone, TypeOK
    <3> QED
      BY <3>1, <3>2
  <2> QED
    BY <1>1, <2>1, <2>2 DEF PumpAt, workVars, chainVars
<1>5. PhrasesAt(r)'
  <2>1. turn'[r] # "aborted" => turn[r] # "aborted"
    BY DEF StartReply, AnswerFails, ReplyGoesOn, Drained, ChainDone, PlaybackDone, TypeOK
  <2> QED
    BY <1>1, <2>1 DEF RunAt, PhrasesAt, OrderAt, CompleteAt, streamVars, workVars, chainVars
<1> QED
  BY <1>2, <1>3, <1>4, <1>5 DEF RunAt

-----------------------------------------------------------------------------
(* The theorems. *)

LEMMA InvInit ==
  ASSUME Init
  PROVE  Inv
<1>1. TypeOK
  <2>1. <<>> \in Seq(Phrases) /\ <<>> \in Seq(Links) /\ 0 \in 0 .. MaxPhrases
    BY ReplyAssumption
  <2> QED
    BY <2>1 DEF Init, TypeOK
<1>2. Turns
  BY ReplyAssumption DEF Init, Turns
<1>3. ASSUME NEW r \in Runs PROVE RunAt(r)
  <2>1. /\ said[r] = <<>> /\ chain[r] = <<>> /\ batch[r] = <<>> /\ pendingPhrases[r] = <<>> /\ queued[r] = 0
        /\ ~playing[r] /\ pump[r] = "settled" /\ turn[r] = "no"
    BY DEF Init
  <2>2. LinksAt(r) /\ PumpAt(r) /\ SilencedAt(r)
    BY <2>1 DEF LinksAt, PumpAt, SilencedAt
  <2>3. OrderAt(r)
    <3>1. Unheard(<<>>, playing[r], got) = {} /\ DOMAIN <<>> = {}
      BY DEF Unheard
    <3> QED
      BY <2>1, <3>1, Nothing DEF OrderAt, Order
  <2>4. CompleteAt(r)
    BY <2>1, EmptyComplete DEF CompleteAt
  <2> QED
    BY <2>2, <2>3, <2>4 DEF RunAt, PhrasesAt
<1> QED
  BY <1>1, <1>2, <1>3 DEF Inv

LEMMA InvStep ==
  ASSUME Inv, [Next]_vars
  PROVE  Inv'
<1>1. CASE UNCHANGED vars
  <2>1. UNCHANGED <<streamVars, turnVars, workVars, chainVars, listenVars, soundVars>>
    BY <1>1 DEF vars
  <2>2. TypeOK'
    BY <2>1 DEF Inv, TypeOK, streamVars, turnVars, workVars, chainVars, listenVars, soundVars
  <2>3. Turns'
    BY <2>1 DEF Inv, Turns, turnVars
  <2>4. ASSUME NEW q \in Runs PROVE RunAt(q)'
    BY <2>1, Untouched DEF Inv, SameRun, SameWork, Forward, streamVars, turnVars, workVars, chainVars, soundVars
  <2> QED
    BY <2>2, <2>3, <2>4 DEF Inv
<1>2. CASE Next
  <2>1. TypeOK' /\ Turns'
    BY <1>2, TypeStep, TurnsStep DEF Inv
  <2>2. TypeOK /\ Turns /\ \A q \in Runs : RunAt(q)
    BY DEF Inv
  <2>3. ASSUME Elsewhere PROVE \A q \in Runs : RunAt(q)'
    BY <2>2, <2>3, AudioStep, CancelStep, ElsewhereStep
  <2>4. ASSUME NEW r \in Runs, StartReply(r) \/ AnswerFails(r) \/ ReplyGoesOn(r)
        PROVE  \A q \in Runs : RunAt(q)'
    <3>1. RunAt(r)' /\ \A q \in Runs \ {r} : SameRun(q)
      BY <2>2, <2>4, TurnStep
    <3>2. Forward /\ got' = got /\ cancelled' = cancelled
      BY <2>4 DEF StartReply, AnswerFails, ReplyGoesOn, Forward, streamVars
    <3> QED
      BY <2>2, <3>1, <3>2, OneReply
  <2>5. ASSUME NEW r \in Runs, Delta(r) PROVE \A q \in Runs : RunAt(q)'
    <3>1. PICK n \in {1, 2} : MayQueue(r, n) /\ Queue(r, n)
      BY <2>5 DEF Delta
    <3>2. /\ turn[r] = "answer" /\ turn' = turn /\ UNCHANGED <<streamVars, playing, failed, cancelled, said>>
      BY <2>5 DEF Delta, soundVars
    <3>3. RunAt(r)' /\ \A q \in Runs \ {r} : SameRun(q)
      BY <2>2, <3>1, <3>2, QueueStep
    <3>4. Forward /\ got' = got /\ cancelled' = cancelled
      BY <3>2 DEF Forward, streamVars
    <3> QED
      BY <2>2, <3>3, <3>4, OneReply
  <2>6. ASSUME NEW r \in Runs, FinishReply(r) PROVE \A q \in Runs : RunAt(q)'
    <3>1. /\ turn[r] = "answer" /\ turn'[r] = "drain" /\ \A q \in Runs \ {r} : turn'[q] = turn[q]
          /\ UNCHANGED <<streamVars, playing, failed, cancelled, said>>
      BY <2>2, <2>6 DEF FinishReply, soundVars, TypeOK
    <3>2. RunAt(r)' /\ \A q \in Runs \ {r} : SameRun(q)
      <4>1. CASE MayQueue(r, 1) /\ Queue(r, 1)
        BY <2>2, <3>1, <4>1, QueueStep
      <4>2. CASE UNCHANGED <<queued, chain, workVars>>
        <5>1. \A q \in Runs \ {r} : SameRun(q)
          BY <3>1, <4>2 DEF SameRun, SameWork, workVars
        <5>2. LinksAt(r)' /\ PumpAt(r)' /\ SilencedAt(r)' /\ PhrasesAt(r)'
          BY <2>2, <3>1, <4>2 DEF RunAt, LinksAt, PumpAt, SilencedAt, PhrasesAt, OrderAt, CompleteAt,
                                  streamVars, workVars
        <5> QED
          BY <5>1, <5>2 DEF RunAt
      <4> QED
        BY <2>6, <4>1, <4>2 DEF FinishReply
    <3>3. Forward /\ got' = got /\ cancelled' = cancelled
      BY <3>1 DEF Forward, streamVars
    <3> QED
      BY <2>2, <3>2, <3>3, OneReply
  <2>7. ASSUME NEW r \in Runs, PumpOpens(r) PROVE \A q \in Runs : RunAt(q)'
    <3>1. RunAt(r)' /\ Forward /\ got' = got
      BY <2>2, <2>7, PumpOpensStep
    <3>2. cancelled' = cancelled /\ \A q \in Runs \ {r} : SameRun(q)
      BY <2>2, <2>7 DEF PumpOpens, SameRun, SameWork, TypeOK, turnVars, soundVars
    <3> QED
      BY <2>2, <3>1, <3>2, OneReply
  <2>8. ASSUME NEW r \in Runs, PumpFails(r) \/ PumpGoesOn(r) PROVE \A q \in Runs : RunAt(q)'
    <3>1. RunAt(r)' /\ \A q \in Runs \ {r} : SameRun(q)
      BY <2>2, <2>8, LoopStep
    <3>2. Forward /\ got' = got /\ cancelled' = cancelled
      BY <2>8 DEF PumpFails, PumpGoesOn, Forward, streamVars, turnVars
    <3> QED
      BY <2>2, <3>1, <3>2, OneReply
  <2>9. ASSUME NEW r \in Runs, LinkStarts(r) \/ LinkResolves(r) PROVE \A q \in Runs : RunAt(q)'
    <3>1. RunAt(r)'
      BY <2>2, <2>9, LinkStartsStep, LinkResolvesStep
    <3>2. Forward /\ got' = got /\ cancelled' = cancelled /\ UNCHANGED <<turnVars, workVars>>
      BY <2>9 DEF LinkStarts, LinkResolves, Forward, streamVars, turnVars
    <3>3. \A q \in Runs \ {r} : chain'[q] = chain[q] /\ playing'[q] = playing[q] /\ failed'[q] = failed[q] /\ said'[q] = said[q]
      <4>1. CASE LinkStarts(r)
        BY <2>2, <4>1 DEF LinkStarts, TypeOK, soundVars
      <4>2. CASE LinkResolves(r)
        BY <2>2, <4>2 DEF LinkResolves, TypeOK, soundVars
      <4> QED
        BY <2>9, <4>1, <4>2
    <3>4. \A q \in Runs \ {r} : SameRun(q)
      BY <3>2, <3>3 DEF SameRun, SameWork, turnVars, workVars
    <3> QED
      BY <2>2, <3>1, <3>2, <3>4, OneReply
  <2>10. \A q \in Runs : RunAt(q)'
    BY <1>2, <2>3, <2>4, <2>5, <2>6, <2>7, <2>8, <2>9, StepCases
  <2> QED
    BY <2>1, <2>10 DEF Inv
<1> QED
  BY <1>1, <1>2

\* A spoken reply never repeats a phrase and each voice reads its phrases in the order of the
\* answer (pumpKokoroSynthesis, state.chain): for any number of turns, streams, presses of
\* Listen and phrases, however they are batched and whichever streams fail.
THEOREM InOrderHolds == Spec => []InOrder
<1>1. Init => Inv
  BY InvInit
<1>2. Inv /\ [Next]_vars => Inv'
  BY InvStep
<1>3. Inv => InOrder
  <2> SUFFICES ASSUME Inv, NEW r \in Runs, NEW i \in DOMAIN said[r], NEW j \in DOMAIN said[r], i < j
               PROVE  LET p == said[r][i]
                          q == said[r][j]
                      IN  p # q /\ ((p \in Repeats <=> q \in Repeats) => p < q)
    BY DEF InOrder, Inv
  <2>1. Ordered(said[r]) /\ said[r] \in Seq(Phrases)
    BY DEF Inv, RunAt, PhrasesAt, OrderAt, Order, TypeOK
  <2>2. said[r][i] \in Nat /\ said[r][j] \in Nat
    BY <2>1, NumbersIn
  <2>3. Same(said[r][i], said[r][j]) => said[r][i] < said[r][j]
    BY <2>1 DEF Ordered
  <2> QED
    BY <2>2, <2>3 DEF Same
<1> QED
  BY <1>1, <1>2, <1>3, PTL DEF Spec

\* finishVoiceStream is honest: a reply that comes to its end, neither cancelled nor shown to
\* have failed, has spoken every phrase of its answer.
THEOREM HonestEndHolds == Spec => []HonestEnd
<1>1. Init => Inv
  BY InvInit
<1>2. Inv /\ [Next]_vars => Inv'
  BY InvStep
<1>3. Inv => HonestEnd
  <2> SUFFICES ASSUME Inv, NEW r \in Runs, turn[r] = "over", r \notin cancelled, ~failed[r]
               PROVE  Range(said[r]) = 1 .. queued[r]
    BY DEF HonestEnd
  <2>1. TypeOK /\ RunAt(r)
    BY DEF Inv
  <2>2. chain[r] = <<>> /\ pendingPhrases[r] = <<>> /\ batch[r] = <<>>
    BY <2>1 DEF RunAt, PumpAt
  <2>3. Unheard(chain[r], playing[r], got) = {}
    BY <2>2 DEF Unheard
  <2>4. \A x \in 1 .. queued[r] : In(x, said[r])
    BY <2>1, <2>2, <2>3, Nothing DEF RunAt, PhrasesAt, CompleteAt, Complete
  <2>5. \A i \in DOMAIN said[r] : said[r][i] \in 1 .. queued[r]
    <3> SUFFICES ASSUME NEW i \in DOMAIN said[r] PROVE said[r][i] \in 1 .. queued[r]
      OBVIOUS
    <3>1. said[r][i] \in Phrases
      BY <2>1 DEF TypeOK
    <3>2. said[r][i] <= queued[r]
      BY <2>1 DEF RunAt, PhrasesAt, OrderAt, Order, Within
    <3>3. queued[r] \in Nat
      BY <2>1, Parts
    <3> QED
      BY <3>1, <3>2, <3>3, ReplyAssumption DEF Phrases
  <2> QED
    BY <2>4, <2>5 DEF Range, In
<1> QED
  BY <1>1, <1>2, <1>3, PTL DEF Spec

\* Once cancelHandsfree has ended a conversation no further phrase of its reply starts to
\* sound, although batches already asked for are still made and their links are on the chain.
THEOREM CancelledStaysQuietHolds == Spec => CancelledStaysQuiet
<1>1. Init => Inv
  BY InvInit
<1>2. Inv /\ [Next]_vars => Inv'
  BY InvStep
<1>3. Inv /\ [Next]_vars => [\A r \in cancelled : said'[r] = said[r]]_vars
  <2> SUFFICES ASSUME Inv, Next, NEW r \in cancelled PROVE said'[r] = said[r]
    OBVIOUS
  <2>1. TypeOK /\ Turns /\ RunAt(r) /\ r \in Runs
    BY DEF Inv, TypeOK
  <2>2. voiceStream # r
    BY <2>1 DEF Turns
  <2>3. ASSUME NEW u \in Utterances, Audio(u) PROVE said'[r] = said[r]
    <3>1. r \notin PlayedBy(u)
      <4> SUFFICES ASSUME r \in PlayedBy(u) PROVE FALSE
        OBVIOUS
      <4>1. playing[r] /\ chain[r] # <<>> /\ chain[r][1].utter = u /\ 1 \in DOMAIN chain[r]
            /\ chain[r][1].kind \in {"neural", "system"}
        BY <2>1, HeadLink DEF PlayedBy
      <4>2. chain[r][1].kind = "neural"
        BY <2>1, <4>1, ReplyAssumption DEF RunAt, LinksAt
      <4> QED
        BY <2>1, <2>3, <4>1, <4>2 DEF RunAt, SilencedAt, Audio
    <3> QED
      BY <2>1, <2>3, <3>1 DEF Audio
  <2>4. CASE Elsewhere
    BY <2>3, <2>4 DEF Elsewhere, AudioSteps, StreamEnds, SourcesEnd, SystemEnds, Cancel, Listen, ListenSteps,
                      ListenOpens, ListenResolves, soundVars
  <2>5. ASSUME NEW q \in Runs, LinkStarts(q) PROVE said'[r] = said[r]
    BY <2>1, <2>2, <2>5 DEF LinkStarts, MaySpeak, TypeOK, soundVars
  <2>6. ASSUME NEW q \in Runs, \/ StartReply(q) \/ Delta(q) \/ FinishReply(q) \/ AnswerFails(q)
                               \/ PumpOpens(q) \/ PumpFails(q) \/ PumpGoesOn(q)
                               \/ LinkResolves(q) \/ ReplyGoesOn(q)
        PROVE  said'[r] = said[r]
    BY <2>6 DEF StartReply, Delta, FinishReply, AnswerFails, PumpOpens, PumpFails, PumpGoesOn,
                LinkResolves, ReplyGoesOn, soundVars
  <2> QED
    BY <2>4, <2>5, <2>6, StepCases
<1> QED
  BY <1>1, <1>2, <1>3, PTL DEF Spec, CancelledStaysQuiet
=============================================================================
