--------------------------- MODULE MossVoiceProofs ---------------------------
(***************************************************************************)
(* Theorems about MossVoice for any number of files, tabs, requests, text  *)
(* chunks and frames.                                                      *)
(***************************************************************************)
EXTENDS MossVoice, SequenceTheorems, TLAPS

(***************************************************************************)
(* The files.                                                              *)
(***************************************************************************)
\* Files are written in order: one that exists has only good ones before it, and a tab is
\* about to write a file only when the ones before it are good.
StoreInv ==
    /\ Store!TypeOK
    /\ \A t \in Tabs : prep[t] \in {"fetch", "write"} =>
          at[t] <= NFiles /\ \A g \in 1 .. NFiles : g < at[t] => file[g] = "good"
    /\ \A f, g \in 1 .. NFiles : g < f /\ file[f] # "absent" => file[g] = "good"

\* A preparation moves on: the others stay where they are.
LEMMA GoToEffect ==
  ASSUME Store!TypeOK, NEW t \in Tabs, NEW f \in 1 .. NFiles + 1,
         NEW where \in {"idle", "check", "fetch", "write", "load", "ready"}, Store!GoTo(t, where, f)
  PROVE  /\ prep' \in [Tabs -> {"idle", "check", "fetch", "write", "load", "ready"}]
         /\ at' \in [Tabs -> 1 .. NFiles + 1]
         /\ prep'[t] = where /\ at'[t] = f
         /\ \A u \in Tabs \ {t} : prep'[u] = prep[u] /\ at'[u] = at[u]
  BY DEF Store!TypeOK, Store!GoTo

\* Every step of a preparation, and a crash, keep the order of the files.
LEMMA StoreStepInv ==
  ASSUME StoreInv, Store!Next
  PROVE  StoreInv'
<1> USE MossAssumption
<1>1. PICK t \in Tabs : Store!Prepare(t) \/ Store!Step(t) \/ Store!Crash(t)
  BY DEF Store!Next
<1>2. /\ Store!TypeOK /\ at[t] \in 1 .. NFiles + 1 /\ 1 \in 1 .. NFiles + 1 /\ NFiles \in Nat
      /\ file \in [1 .. NFiles -> {"absent", "empty", "good"}]
  BY DEF StoreInv, Store!TypeOK, Store!Files
<1>3. ASSUME file' = file, crashes' \in 0 .. MaxCrashes,
             NEW where \in {"idle", "check", "load", "ready"}, NEW f \in 1 .. NFiles + 1,
             Store!GoTo(t, where, f)
      PROVE  StoreInv'
  <2>1. /\ prep' \in [Tabs -> {"idle", "check", "fetch", "write", "load", "ready"}]
        /\ at' \in [Tabs -> 1 .. NFiles + 1] /\ prep'[t] = where
        /\ \A u \in Tabs \ {t} : prep'[u] = prep[u] /\ at'[u] = at[u]
    BY <1>2, <1>3, GoToEffect
  <2> QED
    BY <1>3, <2>1 DEF StoreInv, Store!TypeOK
<1>4. CASE Store!Prepare(t)
  BY <1>2, <1>3, <1>4 DEF Store!Prepare, StoreInv, Store!TypeOK
<1>5. CASE Store!Check(t)
  <2>1. file' = file /\ crashes' \in 0 .. MaxCrashes
    BY <1>5 DEF Store!Check, StoreInv, Store!TypeOK
  <2>2. CASE at[t] > NFiles
    BY <1>2, <1>3, <1>5, <2>1, <2>2 DEF Store!Check
  <2>3. CASE at[t] <= NFiles /\ file[at[t]] = "absent"
    <3>1. Store!GoTo(t, "fetch", 1)
      BY <1>2, <1>5, <2>3 DEF Store!Check
    <3>2. /\ prep' \in [Tabs -> {"idle", "check", "fetch", "write", "load", "ready"}]
          /\ at' \in [Tabs -> 1 .. NFiles + 1] /\ at'[t] = 1
          /\ \A u \in Tabs \ {t} : prep'[u] = prep[u] /\ at'[u] = at[u]
      BY <1>2, <3>1, GoToEffect
    <3> QED
      BY <1>2, <2>1, <3>2 DEF StoreInv, Store!TypeOK
  <2>4. CASE at[t] <= NFiles /\ file[at[t]] # "absent"
    <3>1. Store!GoTo(t, "check", at[t] + 1) /\ at[t] + 1 \in 1 .. NFiles + 1
      BY <1>2, <1>5, <2>4 DEF Store!Check
    <3> QED
      BY <1>3, <2>1, <3>1
  <2> QED
    BY <1>2, <2>2, <2>3, <2>4
<1>6. CASE Store!Fetch(t)
  <2>1. Store!GoTo(t, "write", at[t]) /\ prep[t] = "fetch" /\ crashes' = crashes
    BY <1>6 DEF Store!Fetch
  <2>2. /\ prep' \in [Tabs -> {"idle", "check", "fetch", "write", "load", "ready"}]
        /\ at' \in [Tabs -> 1 .. NFiles + 1] /\ at'[t] = at[t]
        /\ \A u \in Tabs \ {t} : prep'[u] = prep[u] /\ at'[u] = at[u]
    BY <1>2, <2>1, GoToEffect
  <2>3. /\ file' \in [1 .. NFiles -> {"absent", "empty", "good"}]
        /\ \A f \in 1 .. NFiles : file[f] = "good" => file'[f] = "good"
        /\ \A f \in 1 .. NFiles : file'[f] # "absent" => file[f] # "absent" \/ f = at[t]
    BY <1>2, <1>6 DEF Store!Fetch, Store!Opened, Store!Files
  <2> QED
    BY <1>2, <2>1, <2>2, <2>3 DEF StoreInv, Store!TypeOK, Store!Files
<1>7. CASE Store!Close(t)
  <2>1. prep[t] = "write" /\ crashes' = crashes /\ file' = [file EXCEPT ![at[t]] = "good"]
        /\ at[t] \in 1 .. NFiles
    BY <1>2, <1>7 DEF Store!Close, StoreInv
  <2>2. /\ file' \in [1 .. NFiles -> {"absent", "empty", "good"}] /\ file'[at[t]] = "good"
        /\ \A f \in 1 .. NFiles : f # at[t] => file'[f] = file[f]
    BY <1>2, <2>1
  <2>3. \A f, g \in 1 .. NFiles : g < f /\ file'[f] # "absent" => file'[g] = "good"
    BY <1>2, <2>1, <2>2 DEF StoreInv
  <2>4. \A g \in 1 .. NFiles : g < at[t] + 1 => file'[g] = "good"
    BY <1>2, <2>1, <2>2 DEF StoreInv
  <2>5. CASE at[t] = NFiles
    <3>1. Store!GoTo(t, "load", 1)
      BY <1>7, <2>5 DEF Store!Close
    <3>2. /\ prep' \in [Tabs -> {"idle", "check", "fetch", "write", "load", "ready"}]
          /\ at' \in [Tabs -> 1 .. NFiles + 1] /\ prep'[t] = "load"
          /\ \A u \in Tabs \ {t} : prep'[u] = prep[u] /\ at'[u] = at[u]
      BY <1>2, <3>1, GoToEffect
    <3> QED
      BY <1>2, <2>1, <2>2, <2>3, <3>2 DEF StoreInv, Store!TypeOK, Store!Files
  <2>6. CASE at[t] # NFiles
    <3>1. Store!GoTo(t, "fetch", at[t] + 1) /\ at[t] + 1 \in 1 .. NFiles
      BY <1>2, <1>7, <2>1, <2>6 DEF Store!Close
    <3>2. /\ prep' \in [Tabs -> {"idle", "check", "fetch", "write", "load", "ready"}]
          /\ at' \in [Tabs -> 1 .. NFiles + 1] /\ at'[t] = at[t] + 1
          /\ \A u \in Tabs \ {t} : prep'[u] = prep[u] /\ at'[u] = at[u]
      BY <1>2, <3>1, GoToEffect
    <3> QED
      BY <1>2, <2>1, <2>2, <2>3, <2>4, <3>1, <3>2 DEF StoreInv, Store!TypeOK, Store!Files
  <2> QED
    BY <2>5, <2>6
<1>8. CASE Store!Load(t)
  BY <1>2, <1>3, <1>8 DEF Store!Load, StoreInv, Store!TypeOK
<1>9. CASE Store!Fail(t)
  BY <1>2, <1>3, <1>9 DEF Store!Fail, StoreInv, Store!TypeOK
<1>10. CASE Store!Crash(t)
  BY <1>2, <1>3, <1>10 DEF Store!Crash, StoreInv, Store!TypeOK
<1> QED
  BY <1>1, <1>4, <1>5, <1>6, <1>7, <1>8, <1>9, <1>10 DEF Store!Step

\* Files that every tab of the origin shares: whatever downloads fail or run at the same
\* time and whichever tab dies, a complete set has an empty file at its end at most.
THEOREM BrokenOnlyAtLastHolds == Spec => []BrokenOnlyAtLast
<1>1. Init => StoreInv
  BY MossAssumption DEF Init, Store!Init, StoreInv, Store!TypeOK, Store!Files
<1>2. StoreInv /\ [Next]_vars => StoreInv'
  <2> SUFFICES ASSUME StoreInv, [Next]_vars PROVE StoreInv'
    OBVIOUS
  <2>1. CASE Store!Next
    BY <2>1, StoreStepInv
  <2>2. CASE UNCHANGED storeVars
    BY <2>2 DEF storeVars, StoreInv, Store!TypeOK
  <2> QED
    BY <2>1, <2>2 DEF Next, vars
<1>3. StoreInv => BrokenOnlyAtLast
  BY MossAssumption DEF StoreInv, BrokenOnlyAtLast
<1> QED
  BY <1>1, <1>2, <1>3, PTL DEF Spec

(***************************************************************************)
(* One synthesis.                                                          *)
(***************************************************************************)
Jobs ==
    [pc : Runtime!Awaits \cup {"none", "gone", "over"}, chunks : 0 .. MaxChunks,
     chunk : 1 .. MaxChunks, frames : 0 .. MaxFrames,
     pending : 0 .. MaxFrames, sounded : BOOLEAN, cancelled : BOOLEAN,
     heard : (0 .. MaxChunks) \X (0 .. MaxFrames)]

\* What is true of the local state of a synthesis: audio was made of all frames but the
\* pending ones, nothing is pending between two text chunks, and a cancelled one awaits
\* the tokenizer or a turn of the event loop.
Fine(j) ==
    /\ j.pending <= j.frames
    /\ j.pc \in {"none", "split"} => j.chunk = 1
    /\ j.pc \in {"none", "split", "between", "encode"} => j.heard[1] < j.chunk /\ j.pending = 0
    /\ j.pc \in {"between", "encode", "top", "mid", "ack", "flush", "pause"} => j.chunk <= j.chunks
    /\ j.pc = "pause" => j.chunk < j.chunks
    /\ j.pc \in {"flush", "pause", "over", "gone"} => j.pending = 0
    /\ j.pc \in {"top", "mid", "ack", "flush", "pause"} =>
          j.heard = <<j.chunk, j.frames - j.pending>> \/ (j.heard[1] < j.chunk /\ j.frames = j.pending)
    /\ j.pc = "mid" => j.frames < MaxFrames
    /\ j.cancelled => j.pc \in {"split", "between", "encode", "top", "mid"}

JobsInv == job \in [Requests -> Jobs] /\ (\A r \in Requests : Fine(job[r])) /\ skipped = {}

\* What a step of request r does: it changes the local state of r alone, a cancelled
\* request stays cancelled as long as it lives and makes no frame, and none that is over
\* comes back.
Moves(r) ==
    /\ job' \in [Requests -> Jobs]
    /\ \A q \in Requests \ {r} : job'[q] = job[q]
    /\ Fine(job'[r])
    /\ job'[r].pc # "none"
    /\ job[r].cancelled /\ job'[r].pc \in Runtime!Awaits => job'[r].cancelled
    /\ job[r].cancelled => job'[r].frames <= job[r].frames
    /\ skipped' = {}

\* A request that is over keeps nothing pending.
LEMMA EndedFine ==
    /\ Runtime!Idle \in Jobs /\ Runtime!Gone \in Jobs /\ Runtime!Over \in Jobs
    /\ Fine(Runtime!Idle) /\ Fine(Runtime!Gone) /\ Fine(Runtime!Over)
    /\ Runtime!Gone.pc = "gone" /\ Runtime!Over.pc = "over"
    /\ Runtime!Gone.frames = 0 /\ Runtime!Over.frames = 0
<1>1. 0 \in 0 .. MaxChunks /\ 1 \in 1 .. MaxChunks /\ 0 \in 0 .. MaxFrames
  BY MossAssumption
<1>2. Runtime!Idle \in Jobs
  BY <1>1 DEF Jobs, Runtime!Idle
<1>3. Runtime!Gone \in Jobs /\ Runtime!Over \in Jobs
  BY <1>2 DEF Jobs, Runtime!Gone, Runtime!Over
<1>4. ASSUME NEW j \in {Runtime!Idle, Runtime!Gone, Runtime!Over}
      PROVE  /\ j.chunk = 1 /\ j.frames = 0 /\ j.pending = 0 /\ j.heard[1] = 0
             /\ ~j.cancelled
  BY DEF Runtime!Idle, Runtime!Gone, Runtime!Over
<1>5. Runtime!Idle.pc = "none" /\ Runtime!Gone.pc = "gone" /\ Runtime!Over.pc = "over"
  BY DEF Runtime!Idle, Runtime!Gone, Runtime!Over
<1>6. ASSUME NEW j \in {Runtime!Idle, Runtime!Gone, Runtime!Over} PROVE Fine(j)
  BY <1>4, <1>5 DEF Fine
<1> QED
  BY <1>2, <1>3, <1>4, <1>5, <1>6

\* One local state is replaced.
LEMMA Replaced ==
  ASSUME JobsInv, NEW r \in Requests, NEW j \in Jobs, job' = [job EXCEPT ![r] = j], Fine(j),
         j.pc # "none", job[r].cancelled /\ j.pc \in Runtime!Awaits => j.cancelled,
         job[r].cancelled => j.frames <= job[r].frames, skipped' = {}
  PROVE  Moves(r) /\ job'[r] = j
  BY DEF JobsInv, Moves

\* A text chunk ends (decodePendingFrames, synthesizeVoiceClone).
LEMMA ChunkDoneFine ==
  ASSUME NEW j \in Jobs, Fine(j), j.pending = 0,
         j.pc \in {"top", "mid", "flush"}
  PROVE  /\ Runtime!ChunkDone(j) \in Jobs /\ Fine(Runtime!ChunkDone(j))
         /\ Runtime!ChunkDone(j).pc \in {"over", "gone", "pause"}
         /\ j.cancelled => Runtime!ChunkDone(j).pc \in {"over", "gone"}
         /\ Runtime!ChunkDone(j).frames <= j.frames
<1>1. CASE j.chunk = j.chunks \/ j.cancelled
  <2>1. Runtime!ChunkDone(j) \in {Runtime!Over, Runtime!Gone} /\ j.frames \in Nat
    BY <1>1, MossAssumption DEF Runtime!ChunkDone, Jobs
  <2> QED
    BY <2>1, EndedFine
<1>2. CASE ~(j.chunk = j.chunks \/ j.cancelled)
  <2> DEFINE k == [j EXCEPT !.pc = "pause"]
  <2>1. Runtime!ChunkDone(j) = k
    BY <1>2 DEF Runtime!ChunkDone
  <2>2. /\ k \in Jobs /\ k.pc = "pause" /\ k.chunk = j.chunk /\ k.chunks = j.chunks
        /\ k.frames = j.frames /\ k.pending = j.pending /\ k.heard = j.heard /\ k.cancelled = FALSE
    BY <1>2 DEF Jobs, Runtime!Awaits
  <2>3. j.frames \in Nat /\ j.pending \in Nat /\ j.chunk \in Nat /\ j.chunks \in Nat
    BY MossAssumption DEF Jobs
  <2>4. Fine(k)
    BY <1>2, <2>2, <2>3 DEF Fine
  <2> QED
    BY <1>2, <2>1, <2>2, <2>3, <2>4
<1> QED
  BY <1>1, <1>2

\* The bounds of a local state as numbers.
LEMMA JobNumbers ==
  ASSUME NEW j \in Jobs
  PROVE  /\ j.frames \in Nat /\ j.frames <= MaxFrames /\ MaxFrames \in Nat
         /\ j.pending \in Nat /\ j.pending <= MaxFrames
         /\ j.chunk \in Nat /\ 1 <= j.chunk /\ j.chunk <= MaxChunks /\ MaxChunks \in Nat
         /\ j.chunks \in Nat /\ j.chunks <= MaxChunks
         /\ j.heard \in (0 .. MaxChunks) \X (0 .. MaxFrames) /\ j.heard[1] \in Nat
         /\ j.sounded \in BOOLEAN /\ j.cancelled \in BOOLEAN
  BY MossAssumption DEF Jobs

\* A step that only moves a synthesis to another await.
LEMMA GoToMoves ==
  ASSUME JobsInv, NEW r \in Requests, NEW where \in Runtime!Awaits, Runtime!GoTo(r, where),
         Fine([job[r] EXCEPT !.pc = where]), UNCHANGED skipped
  PROVE  /\ Moves(r) /\ job'[r].pc = where /\ job'[r].chunk = job[r].chunk
         /\ job'[r].frames = job[r].frames /\ job'[r].pending = job[r].pending
         /\ job'[r].cancelled = job[r].cancelled
<1> DEFINE j == [job[r] EXCEPT !.pc = where]
<1>1. job[r] \in Jobs
  BY DEF JobsInv
<1>2. job' = [job EXCEPT ![r] = j]
  BY DEF Runtime!GoTo
<1>3. /\ j \in Jobs /\ j.pc = where /\ j.chunk = job[r].chunk /\ j.frames = job[r].frames
      /\ j.pending = job[r].pending /\ j.cancelled = job[r].cancelled
  BY <1>1 DEF Jobs
<1>4. j.pc # "none" /\ j.frames <= job[r].frames /\ skipped' = {}
  BY <1>1, <1>3, JobNumbers DEF JobsInv, Runtime!Awaits
<1> HIDE DEF j
<1>5. Moves(r) /\ job'[r] = j
  BY <1>2, <1>3, <1>4, Replaced DEF j
<1> QED
  BY <1>3, <1>5

\* A request ends, for whatever reason.
LEMMA EndMoves ==
  ASSUME JobsInv, NEW r \in Requests, NEW j \in {Runtime!Gone, Runtime!Over},
         job' = [job EXCEPT ![r] = j], skipped' = {}
  PROVE  Moves(r) /\ job'[r] = j /\ job'[r].pc \in {"gone", "over"} /\ (j = Runtime!Gone => job'[r].pc = "gone")
<1>1. job[r] \in Jobs /\ job[r].frames \in Nat
  BY JobNumbers DEF JobsInv
<1>2. /\ j \in Jobs /\ Fine(j) /\ j.pc \in {"gone", "over"} /\ j.frames = 0
      /\ j.pc # "none" /\ j.pc \notin Runtime!Awaits /\ (j = Runtime!Gone => j.pc = "gone")
  <2>1. j \in Jobs /\ Fine(j) /\ j.pc \in {"gone", "over"} /\ j.frames = 0
        /\ (j = Runtime!Gone => j.pc = "gone")
    BY EndedFine
  <2> QED
    BY <2>1 DEF Runtime!Awaits
<1>3. j.frames <= job[r].frames
  BY <1>1, <1>2
<1>4. Moves(r) /\ job'[r] = j
  BY <1>2, <1>3, Replaced
<1> QED
  BY <1>2, <1>4

\* handleSynthesize.
LEMMA SynthesizeMoves ==
  ASSUME JobsInv, NEW r \in Requests, Runtime!Synthesize(r)
  PROVE  Moves(r) /\ job'[r].pc = "split" /\ ~job'[r].cancelled
<1>1. job[r] \in Jobs /\ Fine(job[r]) /\ job[r].pc = "none" /\ ~job[r].cancelled
  BY DEF JobsInv, Runtime!Synthesize, Fine
<1>2. Fine([job[r] EXCEPT !.pc = "split"])
  BY <1>1 DEF Fine, Jobs
<1> QED
  BY <1>1, <1>2, GoToMoves DEF Runtime!Synthesize, Runtime!Awaits, Runtime!audioVars

\* cancelActiveRequest.
LEMMA CancelMoves ==
  ASSUME JobsInv, NEW r \in Requests, Runtime!Cancel(r)
  PROVE  /\ Moves(r)
         /\ \/ job'[r].pc = "gone" /\ job[r].pc \in {"ack", "flush", "pause"}
            \/ /\ job'[r].pc = job[r].pc /\ job'[r].chunk = job[r].chunk
               /\ job'[r].frames = job[r].frames /\ job'[r].pending = job[r].pending
               /\ job'[r].cancelled
<1>1. job[r] \in Jobs /\ Fine(job[r]) /\ job[r].pc \in Runtime!Awaits /\ ~job[r].cancelled /\ skipped' = {}
  BY DEF JobsInv, Runtime!Cancel, Runtime!Live, Runtime!audioVars
<1>2. CASE Runtime!AwaitsAck(r)
  <2>1. job' = [job EXCEPT ![r] = Runtime!Gone]
    BY <1>2 DEF Runtime!Cancel
  <2> QED
    BY <1>1, <1>2, <2>1, EndMoves DEF Runtime!AwaitsAck
<1>3. CASE ~Runtime!AwaitsAck(r)
  <2> DEFINE j == [job[r] EXCEPT !.cancelled = TRUE]
  <2>1. job' = [job EXCEPT ![r] = j]
    BY <1>3 DEF Runtime!Cancel
  <2>2. /\ j \in Jobs /\ j.pc = job[r].pc /\ j.chunk = job[r].chunk /\ j.chunks = job[r].chunks
        /\ j.frames = job[r].frames /\ j.pending = job[r].pending /\ j.heard = job[r].heard
        /\ j.cancelled
    BY <1>1 DEF Jobs
  <2> HIDE DEF j
  <2>3. Fine(j) /\ j.pc # "none"
    BY <1>1, <1>3, <2>2 DEF Fine, Runtime!AwaitsAck, Runtime!Awaits
  <2>4. Moves(r) /\ job'[r] = j
    BY <1>1, <2>1, <2>2, <2>3, Replaced
  <2> QED
    BY <2>2, <2>4
<1> QED
  BY <1>2, <1>3

\* splitVoiceCloneText.
LEMMA SplitMoves ==
  ASSUME JobsInv, NEW r \in Requests, Runtime!Split(r)
  PROVE  Moves(r) /\ job'[r].pc = "between" /\ job'[r].cancelled = job[r].cancelled
<1>1. job[r] \in Jobs /\ Fine(job[r]) /\ job[r].pc = "split" /\ skipped' = {}
  BY DEF JobsInv, Runtime!Split, Runtime!audioVars
<1>2. PICK n \in 1 .. MaxChunks : job' = [job EXCEPT ![r].pc = "between", ![r].chunks = n]
  BY DEF Runtime!Split
<1> DEFINE j == [job[r] EXCEPT !.pc = "between", !.chunks = n]
<1>3. /\ j \in Jobs /\ j.pc = "between" /\ j.chunk = job[r].chunk /\ j.chunks = n
      /\ j.frames = job[r].frames /\ j.pending = job[r].pending /\ j.heard = job[r].heard
      /\ j.cancelled = job[r].cancelled
  <2>1. n \in 0 .. MaxChunks
    BY MossAssumption
  <2> QED
    BY <1>1, <2>1 DEF Jobs, Runtime!Awaits
<1>4. job' = [job EXCEPT ![r] = j]
  BY <1>1, <1>2 DEF JobsInv
<1> HIDE DEF j
<1>5. Fine(j) /\ j.frames <= job[r].frames
  BY <1>1, <1>3, JobNumbers DEF Fine
<1>6. Moves(r) /\ job'[r] = j
  BY <1>1, <1>3, <1>4, <1>5, Replaced
<1> QED
  BY <1>3, <1>6

\* The yield before a text chunk.
LEMMA NextChunkMoves ==
  ASSUME JobsInv, NEW r \in Requests, Runtime!NextChunk(r)
  PROVE  /\ Moves(r)
         /\ \/ job[r].cancelled /\ job'[r].pc = "gone"
            \/ ~job[r].cancelled /\ job'[r].pc = "encode" /\ ~job'[r].cancelled
<1>1. job[r] \in Jobs /\ Fine(job[r]) /\ job[r].pc = "between" /\ skipped' = {}
  BY DEF JobsInv, Runtime!NextChunk, Runtime!audioVars
<1>2. CASE job[r].cancelled
  <2>1. job' = [job EXCEPT ![r] = Runtime!Gone]
    BY <1>2 DEF Runtime!NextChunk
  <2> QED
    BY <1>1, <1>2, <2>1, EndMoves
<1>3. CASE ~job[r].cancelled
  <2>1. Fine([job[r] EXCEPT !.pc = "encode"])
    BY <1>1 DEF Fine, Jobs
  <2> QED
    BY <1>1, <1>3, <2>1, GoToMoves DEF Runtime!NextChunk, Runtime!Awaits, Runtime!audioVars
<1> QED
  BY <1>2, <1>3

\* The first step of a text chunk.
LEMMA BeginMoves ==
  ASSUME JobsInv, NEW r \in Requests, Runtime!Begin(r)
  PROVE  /\ Moves(r) /\ job'[r].pc = "top" /\ job'[r].cancelled = job[r].cancelled
         /\ job'[r].frames = 0 /\ job'[r].pending = 0 /\ job'[r].chunk = job[r].chunk
<1>1. job[r] \in Jobs /\ Fine(job[r]) /\ job[r].pc = "encode" /\ skipped' = {}
  BY DEF JobsInv, Runtime!Begin, Runtime!audioVars
<1> DEFINE j == [job[r] EXCEPT !.pc = "top", !.frames = 0, !.pending = 0, !.sounded = FALSE]
<1>2. job' = [job EXCEPT ![r] = j]
  BY <1>1 DEF JobsInv, Runtime!Begin
<1>3. 0 \in 0 .. MaxFrames
  BY MossAssumption
<1>4. /\ j \in Jobs /\ j.pc = "top" /\ j.chunk = job[r].chunk /\ j.chunks = job[r].chunks
      /\ j.frames = 0 /\ j.pending = 0 /\ j.heard = job[r].heard /\ j.cancelled = job[r].cancelled
  BY <1>1, <1>3 DEF Jobs, Runtime!Awaits
<1> HIDE DEF j
<1>5. Fine(j) /\ j.frames <= job[r].frames
  BY <1>1, <1>4, JobNumbers DEF Fine
<1>6. Moves(r) /\ job'[r] = j
  BY <1>1, <1>2, <1>4, <1>5, Replaced
<1> QED
  BY <1>4, <1>6

\* The first channels of a frame.
LEMMA HalfFrameMoves ==
  ASSUME JobsInv, NEW r \in Requests, Runtime!HalfFrame(r)
  PROVE  /\ Moves(r) /\ job'[r].pc = "mid" /\ job'[r].cancelled = job[r].cancelled
         /\ job'[r].frames = job[r].frames /\ job'[r].pending = job[r].pending
         /\ job'[r].chunk = job[r].chunk
<1>1. job[r] \in Jobs /\ Fine(job[r]) /\ job[r].pc = "top" /\ job[r].frames < MaxFrames
  BY DEF JobsInv, Runtime!HalfFrame
<1>2. Fine([job[r] EXCEPT !.pc = "mid"])
  BY <1>1 DEF Fine, Jobs
<1> QED
  BY <1>1, <1>2, GoToMoves DEF Runtime!HalfFrame, Runtime!Awaits, Runtime!audioVars

\* The tokenizer or a session fails.
LEMMA ThrowMoves ==
  ASSUME JobsInv, NEW r \in Requests, Runtime!Throw(r)
  PROVE  Moves(r) /\ job'[r].pc = "gone"
<1>1. skipped' = {} /\ job' = [job EXCEPT ![r] = Runtime!Gone]
  BY DEF JobsInv, Runtime!Throw, Runtime!audioVars
<1> QED
  BY <1>1, EndMoves

\* The frames that are decoded next are the ones after those already heard.
LEMMA DecodedInOrder ==
  ASSUME JobsInv, NEW r \in Requests, NEW n, job[r].pc \in {"top", "mid"}, Runtime!RunFrames(r, n)
  PROVE  skipped' = {}
<1>1. job[r] \in Jobs /\ Fine(job[r]) /\ skipped = {}
  BY DEF JobsInv
<1>2. \/ job[r].heard = <<job[r].chunk, job[r].frames - job[r].pending>>
      \/ job[r].heard[1] < job[r].chunk /\ job[r].frames = job[r].pending
  BY <1>1 DEF Fine
<1>3. /\ job[r].frames \in Nat /\ job[r].pending \in Nat
      /\ job[r].frames - job[r].pending + 1 - 1 = job[r].frames - job[r].pending
      /\ (job[r].frames = job[r].pending => job[r].frames - job[r].pending + 1 = 1)
  BY <1>1, JobNumbers
<1> QED
  BY <1>1, <1>2, <1>3 DEF Runtime!RunFrames

\* A synthesis runs out of frames or finds itself cancelled: what is pending becomes audio.
LEMMA StopsMoves ==
  ASSUME JobsInv, NEW r \in Requests, Runtime!Stops(r)
  PROVE  /\ Moves(r) /\ job[r].pc \in {"top", "mid"}
         /\ job'[r].pc \in {"gone", "over", "flush", "pause"}
         /\ \/ UNCHANGED <<codec, blurred>>
            \/ Runtime!RunFrames(r, job[r].pending) /\ job[r].pending > 0
<1>1. /\ job[r] \in Jobs /\ Fine(job[r]) /\ skipped = {}
      /\ job[r].pc \in {"top", "mid"} /\ Runtime!Flush(r)
  BY DEF JobsInv, Runtime!Stops
<1>2. CASE job[r].pending = 0
  <2> DEFINE j == Runtime!ChunkDone(job[r])
  <2>1. job' = [job EXCEPT ![r] = j] /\ UNCHANGED <<codec, skipped, blurred>>
    BY <1>1, <1>2 DEF Runtime!Flush, Runtime!FlushCount, Runtime!audioVars
  <2>2. /\ j \in Jobs /\ Fine(j) /\ j.pc \in {"over", "gone", "pause"}
        /\ job[r].cancelled => j.pc \in {"over", "gone"}
        /\ j.frames <= job[r].frames
    BY <1>1, <1>2, ChunkDoneFine
  <2> HIDE DEF j
  <2>3. Moves(r) /\ job'[r] = j
    BY <1>1, <2>1, <2>2, Replaced DEF Runtime!Awaits
  <2> QED
    BY <1>1, <2>1, <2>2, <2>3
<1>3. CASE job[r].pending # 0
  <2> DEFINE n == job[r].pending
             j == [job[r] EXCEPT !.pending = 0, !.heard = Runtime!Heard(r, n)]
             sent == IF j.cancelled THEN Runtime!Gone ELSE [j EXCEPT !.pc = "flush"]
             done == Runtime!ChunkDone(j)
  <2>1. /\ Runtime!RunFrames(r, n)
        /\ job' = [job EXCEPT ![r] = done] \/ job' = [job EXCEPT ![r] = sent]
    BY <1>1, <1>3 DEF Runtime!Flush, Runtime!FlushCount
  <2>2. skipped' = {} /\ n > 0
    BY <1>1, <1>3, <2>1, DecodedInOrder, JobNumbers
  <2>3. Runtime!Heard(r, n) = <<job[r].chunk, job[r].frames>>
    BY <1>1, JobNumbers DEF Runtime!Heard
  <2>4. Runtime!Heard(r, n) \in (0 .. MaxChunks) \X (0 .. MaxFrames) /\ 0 \in 0 .. MaxFrames
    BY <1>1, <2>3, JobNumbers
  <2>5. /\ j \in Jobs /\ j.pc = job[r].pc /\ j.chunk = job[r].chunk /\ j.chunks = job[r].chunks
        /\ j.frames = job[r].frames /\ j.pending = 0 /\ j.heard = <<j.chunk, j.frames>>
        /\ j.cancelled = job[r].cancelled
    BY <1>1, <2>3, <2>4 DEF Jobs
  <2> HIDE DEF j, n
  <2>6. Fine(j)
    BY <1>1, <2>5, JobNumbers DEF Fine
  <2>7. /\ done \in Jobs /\ Fine(done) /\ done.pc \in {"over", "gone", "pause"}
        /\ j.cancelled => done.pc \in {"over", "gone"}
        /\ done.frames <= job[r].frames
    BY <1>1, <2>5, <2>6, ChunkDoneFine
  <2> HIDE DEF done
  <2>8. /\ sent \in Jobs /\ Fine(sent) /\ sent.pc \in {"gone", "flush"}
        /\ j.cancelled => sent.pc = "gone"
        /\ sent.frames <= job[r].frames
    <3>1. CASE j.cancelled
      BY <1>1, <3>1, EndedFine, JobNumbers
    <3>2. CASE ~j.cancelled
      <4> DEFINE k == [j EXCEPT !.pc = "flush"]
      <4>1. /\ k \in Jobs /\ k.pc = "flush" /\ k.chunk = j.chunk /\ k.chunks = j.chunks
            /\ k.frames = j.frames /\ k.pending = 0 /\ k.heard = j.heard /\ k.cancelled = j.cancelled
        BY <2>5 DEF Jobs, Runtime!Awaits
      <4> HIDE DEF k
      <4>2. Fine(k)
        BY <1>1, <2>5, <2>6, <3>2, <4>1, JobNumbers DEF Fine
      <4>3. sent = k
        BY <3>2 DEF k
      <4>4. k.frames <= job[r].frames
        BY <1>1, <2>5, <4>1, JobNumbers
      <4> QED
        BY <3>2, <4>1, <4>2, <4>3, <4>4
    <3> QED
      BY <3>1, <3>2
  <2> HIDE DEF sent
  <2>9. CASE job' = [job EXCEPT ![r] = done]
    <3>1. Moves(r) /\ job'[r] = done
      BY <2>2, <2>5, <2>7, <2>9, Replaced DEF Runtime!Awaits
    <3> QED
      BY <1>1, <2>1, <2>2, <2>7, <3>1 DEF n
  <2>10. CASE job' = [job EXCEPT ![r] = sent]
    <3>1. Moves(r) /\ job'[r] = sent
      BY <2>2, <2>5, <2>8, <2>10, Replaced DEF Runtime!Awaits
    <3> QED
      BY <1>1, <2>1, <2>2, <2>8, <3>1 DEF n
  <2> QED
    BY <2>1, <2>9, <2>10
<1> QED
  BY <1>2, <1>3

\* A frame more, and the audio of some of the pending ones.
LEMMA FrameMoves ==
  ASSUME JobsInv, NEW r \in Requests, Runtime!Frame(r)
  PROVE  /\ Moves(r) /\ job[r].pc = "mid" /\ ~job[r].cancelled /\ ~job'[r].cancelled
         /\ job[r].frames < MaxFrames
         /\ job'[r].pc \in {"top", "ack"} /\ job'[r].chunk = job[r].chunk
         /\ job'[r].frames = job[r].frames + 1
         /\ \E n \in 0 .. job[r].pending + 1 :
               /\ job'[r].pending = job[r].pending + 1 - n
               /\ IF n = 0 THEN UNCHANGED <<codec, blurred>> ELSE Runtime!RunFrames(r, n)
<1>1. /\ job[r] \in Jobs /\ Fine(job[r]) /\ skipped = {}
      /\ job[r].pc = "mid" /\ ~job[r].cancelled
  BY DEF JobsInv, Runtime!Frame, Runtime!Look
<1>2. PICK n \in Runtime!DecodeCounts(r, job[r].pending + 1) : \E sound \in BOOLEAN :
         /\ job' = [job EXCEPT ![r] =
                      [job[r] EXCEPT
                         !.frames = job[r].frames + 1,
                         !.pending = job[r].pending + 1 - n,
                         !.heard = IF n = 0 THEN job[r].heard ELSE Runtime!Heard(r, n),
                         !.sounded = job[r].sounded \/ (n > 0 /\ sound),
                         !.pc = IF n > 0 /\ sound THEN "ack" ELSE "top"]]
         /\ IF n = 0 THEN UNCHANGED <<codec, Runtime!audioVars>> ELSE Runtime!RunFrames(r, n)
  BY Zenon DEF Runtime!Frame
<1>0. PICK sound \in BOOLEAN :
         /\ job' = [job EXCEPT ![r] =
                      [job[r] EXCEPT
                         !.frames = job[r].frames + 1,
                         !.pending = job[r].pending + 1 - n,
                         !.heard = IF n = 0 THEN job[r].heard ELSE Runtime!Heard(r, n),
                         !.sounded = job[r].sounded \/ (n > 0 /\ sound),
                         !.pc = IF n > 0 /\ sound THEN "ack" ELSE "top"]]
         /\ IF n = 0 THEN UNCHANGED <<codec, Runtime!audioVars>> ELSE Runtime!RunFrames(r, n)
  BY <1>2
<1>3. /\ job[r].frames \in Nat /\ job[r].frames < MaxFrames /\ MaxFrames \in Nat
      /\ job[r].pending \in Nat /\ job[r].pending <= job[r].frames
      /\ job[r].chunk \in Nat /\ job[r].chunk <= MaxChunks
  BY <1>1, JobNumbers DEF Fine
<1>4. n \in 0 .. job[r].pending + 1
  BY <1>2, <1>3 DEF Runtime!DecodeCounts
<1>5. skipped' = {}
  BY <1>0, <1>1, DecodedInOrder DEF Runtime!audioVars
<1> DEFINE h == IF n = 0 THEN job[r].heard ELSE Runtime!Heard(r, n)
           s == job[r].sounded \/ (n > 0 /\ sound)
           c == IF n > 0 /\ sound THEN "ack" ELSE "top"
<1>6. /\ job[r].frames + 1 \in 0 .. MaxFrames /\ job[r].pending + 1 - n \in 0 .. MaxFrames /\ s \in BOOLEAN /\ c \in {"ack", "top"}
      /\ job[r].pending + 1 - n <= job[r].frames + 1
  BY <1>3, <1>4
<1>7. /\ h \in (0 .. MaxChunks) \X (0 .. MaxFrames)
      /\ h = <<job[r].chunk, job[r].frames + 1 - (job[r].pending + 1 - n)>> \/ (h[1] < job[r].chunk /\ job[r].frames + 1 = job[r].pending + 1 - n)
  <2>1. CASE n = 0
    BY <1>1, <1>3, <2>1, JobNumbers DEF Fine
  <2>2. CASE n # 0
    <3>1. h = <<job[r].chunk, job[r].frames - job[r].pending + n>>
      BY <2>2 DEF Runtime!Heard
    <3>2. job[r].frames - job[r].pending + n = job[r].frames + 1 - (job[r].pending + 1 - n)
          /\ job[r].frames - job[r].pending + n \in 0 .. MaxFrames
      BY <1>3, <1>4
    <3>3. h = <<job[r].chunk, job[r].frames + 1 - (job[r].pending + 1 - n)>>
      BY <3>1, <3>2
    <3>4. job[r].chunk \in 0 .. MaxChunks
      BY <1>3, MossAssumption
    <3>5. h \in (0 .. MaxChunks) \X (0 .. MaxFrames)
      <4> DEFINE f == job[r].frames - job[r].pending + n
      <4>1. f \in 0 .. MaxFrames /\ h = <<job[r].chunk, f>>
        BY <3>1, <3>2
      <4> HIDE DEF f, h
      <4> QED
        BY <3>4, <4>1
    <3> QED
      BY <3>3, <3>5
  <2> QED
    BY <2>1, <2>2
<1>8. PICK f \in 0 .. MaxFrames : f = job[r].frames + 1
  BY <1>6
<1>9. PICK q \in 0 .. MaxFrames : q = job[r].pending + 1 - n
  BY <1>6
<1> DEFINE j == [job[r] EXCEPT !.frames = f, !.pending = q, !.heard = h, !.sounded = s, !.pc = c]
<1>10. job' = [job EXCEPT ![r] = j]
  BY <1>0, <1>8, <1>9
<1> HIDE DEF h, s, c
<1>11. /\ h = <<job[r].chunk, f - q>> \/ (h[1] < job[r].chunk /\ f = q)
       /\ q <= f
  <2>1. f - q = job[r].frames + 1 - (job[r].pending + 1 - n)
    BY <1>3, <1>4, <1>8, <1>9
  <2>2. h = <<job[r].chunk, f - q>> \/ (h[1] < job[r].chunk /\ f = q)
    <3> DEFINE d == job[r].frames + 1 - (job[r].pending + 1 - n)
    <3>1. d = f - q
      BY <2>1
    <3>2. h = <<job[r].chunk, d>> \/ (h[1] < job[r].chunk /\ f = q)
      BY <1>7, <1>8, <1>9
    <3> HIDE DEF d
    <3> QED
      BY <3>1, <3>2
  <2> QED
    BY <1>6, <1>8, <1>9, <2>2
<1>13. /\ j \in Jobs /\ j.pc = c /\ j.chunk = job[r].chunk /\ j.chunks = job[r].chunks
       /\ j.frames = f /\ j.pending = q /\ j.heard = h /\ j.cancelled = job[r].cancelled
  BY <1>1, <1>6, <1>7 DEF Jobs, Runtime!Awaits
<1> HIDE DEF j
<1>14. Fine(j)
  BY <1>1, <1>6, <1>11, <1>13 DEF Fine
<1>15. Moves(r) /\ job'[r] = j
  BY <1>1, <1>5, <1>6, <1>10, <1>13, <1>14, Replaced
<1>12. IF n = 0 THEN UNCHANGED <<codec, blurred>> ELSE Runtime!RunFrames(r, n)
  BY <1>0 DEF Runtime!audioVars
<1> QED
  BY <1>1, <1>3, <1>4, <1>6, <1>8, <1>9, <1>12, <1>13, <1>15

\* The page has answered a piece, or a pause.
LEMMA AckMoves ==
  ASSUME JobsInv, NEW r \in Requests, Runtime!Ack(r)
  PROVE  /\ Moves(r) /\ job[r].pc \in {"ack", "flush", "pause"} /\ ~job[r].cancelled
         /\ \/ job'[r].pc \in {"gone", "over", "pause", "between"}
            \/ /\ job[r].pc = "ack" /\ job'[r].pc = "top" /\ job'[r].chunk = job[r].chunk
               /\ job'[r].frames = job[r].frames /\ job'[r].pending = job[r].pending
<1>1. /\ job[r] \in Jobs /\ Fine(job[r]) /\ skipped = {} /\ skipped' = {}
      /\ job[r].pc \in {"ack", "flush", "pause"} /\ ~job[r].cancelled
  BY DEF JobsInv, Runtime!Ack, Runtime!AwaitsAck, Runtime!audioVars, Fine
<1>2. CASE job' = [job EXCEPT ![r] = Runtime!Gone]
  BY <1>1, <1>2, EndMoves
<1>3. CASE job[r].pc = "ack" /\ job' = [job EXCEPT ![r] = [job[r] EXCEPT !.pc = "top"]]
  <2>1. Fine([job[r] EXCEPT !.pc = "top"])
    BY <1>1, <1>3 DEF Fine, Jobs
  <2>2. Runtime!GoTo(r, "top")
    BY <1>3 DEF Runtime!GoTo
  <2> QED
    BY <1>1, <1>3, <2>1, <2>2, GoToMoves DEF Runtime!Awaits
<1>4. CASE job[r].pc = "flush" /\ job' = [job EXCEPT ![r] = Runtime!ChunkDone(job[r])]
  <2> DEFINE j == Runtime!ChunkDone(job[r])
  <2>1. /\ j \in Jobs /\ Fine(j) /\ j.pc \in {"over", "gone", "pause"}
        /\ j.frames <= job[r].frames
    <3>1. job[r].pending = 0
      BY <1>1, <1>4 DEF Fine
    <3> QED
      BY <1>1, <1>4, <3>1, ChunkDoneFine
  <2> HIDE DEF j
  <2>2. Moves(r) /\ job'[r] = j
    BY <1>1, <1>4, <2>1, Replaced DEF j
  <2> QED
    BY <1>1, <2>1, <2>2
<1>5. CASE /\ job[r].pc = "pause"
           /\ job' = [job EXCEPT ![r] = [job[r] EXCEPT !.pc = "between", !.chunk = job[r].chunk + 1]]
  <2> DEFINE j == [job[r] EXCEPT !.pc = "between", !.chunk = job[r].chunk + 1]
  <2>1. /\ job[r].chunk + 1 \in 1 .. MaxChunks /\ job[r].chunk < job[r].chunks
        /\ job[r].chunk \in Nat /\ job[r].chunks \in Nat
    BY <1>1, <1>5, JobNumbers DEF Fine
  <2>2. /\ j \in Jobs /\ j.pc = "between" /\ j.chunk = job[r].chunk + 1 /\ j.chunks = job[r].chunks
        /\ j.frames = job[r].frames /\ j.pending = job[r].pending /\ j.heard = job[r].heard
        /\ j.cancelled = job[r].cancelled
    BY <1>1, <2>1 DEF Jobs, Runtime!Awaits
  <2> HIDE DEF j
  <2>3. job[r].heard[1] <= job[r].chunk /\ job[r].heard[1] \in Nat
    BY <1>1, <1>5, <2>1, JobNumbers DEF Fine
  <2>4. Fine(j)
    BY <1>1, <1>5, <2>1, <2>2, <2>3 DEF Fine
  <2>5. Moves(r) /\ job'[r] = j
    BY <1>1, <1>5, <2>2, <2>4, Replaced DEF j
  <2> QED
    BY <1>1, <2>2, <2>5
<1>6. \/ job' = [job EXCEPT ![r] = Runtime!Gone]
      \/ job[r].pc = "ack" /\ job' = [job EXCEPT ![r] = [job[r] EXCEPT !.pc = "top"]]
      \/ job[r].pc = "flush" /\ job' = [job EXCEPT ![r] = Runtime!ChunkDone(job[r])]
      \/ /\ job[r].pc = "pause"
         /\ job' = [job EXCEPT ![r] = [job[r] EXCEPT !.pc = "between", !.chunk = job[r].chunk + 1]]
  BY <1>1 DEF Runtime!Ack, Runtime!Accepted
<1> QED
  BY <1>2, <1>3, <1>4, <1>5, <1>6

(***************************************************************************)
(* The caches, the tokenizer and the types.                                *)
(***************************************************************************)
Histories ==
    {Runtime!Mix, Runtime!Fresh} \cup (Requests \X (1 .. MaxChunks) \X (0 .. MaxFrames))

Caches ==
    /\ tokenizer \in Seq(Requests)
    /\ past \in Histories /\ local \in Histories /\ codec \in Histories
    /\ mixed \subseteq Requests /\ blurred \subseteq Requests
    /\ crowd \in [Requests -> {"alone", "after", "shared"}]

\* One element of a sequence is taken out; the ones behind it move up.
LEMMA Removal ==
  ASSUME NEW S, NEW s \in Seq(S), NEW i \in 1 .. Len(s)
  PROVE  LET t == SubSeq(s, 1, i - 1) \o SubSeq(s, i + 1, Len(s))
         IN  /\ t \in Seq(S) /\ Len(t) = Len(s) - 1
             /\ \A k \in 1 .. Len(s) - 1 : k < i => t[k] = s[k]
             /\ \A k \in 1 .. Len(s) - 1 : i <= k => t[k] = s[k + 1]
<1> DEFINE u == SubSeq(s, 1, i - 1)
           v == SubSeq(s, i + 1, Len(s))
<1>1. Len(s) \in Nat
  OBVIOUS
<1>2. u \in Seq(S) /\ Len(u) = i - 1 /\ \A k \in 1 .. i - 1 : u[k] = s[k]
  BY <1>1
<1>3. v \in Seq(S) /\ Len(v) = Len(s) - i /\ \A k \in 1 .. Len(s) - i : v[k] = s[i + k]
  BY <1>1
<1> HIDE DEF u, v
<1>4. u \o v \in Seq(S) /\ Len(u \o v) = Len(u) + Len(v)
  BY <1>2, <1>3, ConcatProperties
<1>5. ASSUME NEW k \in 1 .. Len(s) - 1, k < i PROVE (u \o v)[k] = s[k]
  BY <1>1, <1>2, <1>3, <1>5, ConcatProperties
<1>6. ASSUME NEW k \in 1 .. Len(s) - 1, i <= k PROVE (u \o v)[k] = s[k + 1]
  <2>1. PICK m \in 1 .. Len(s) - i : m = k - (i - 1)
    BY <1>1, <1>6
  <2>2. (u \o v)[k] = v[m]
    BY <1>1, <1>2, <1>3, <1>6, <2>1, ConcatProperties
  <2>3. i + m = k + 1
    BY <1>1, <1>6, <2>1
  <2> QED
    BY <1>3, <2>2, <2>3
<1>7. Len(u \o v) = Len(s) - 1
  BY <1>1, <1>2, <1>3, <1>4
<1> QED
  BY <1>4, <1>5, <1>6, <1>7 DEF u, v

\* The answer to r leaves the tokenizer's queue; the others keep their order.
LEMMA ForgetEffect ==
  ASSUME tokenizer \in Seq(Requests), NEW r \in Requests, Runtime!Forget(r)
  PROVE  /\ tokenizer' \in Seq(Requests)
         /\ \E m \in [DOMAIN tokenizer' -> DOMAIN tokenizer] :
               /\ \A k \in DOMAIN tokenizer' : tokenizer'[k] = tokenizer[m[k]]
               /\ \A j, k \in DOMAIN tokenizer' : j < k => m[j] < m[k]
               /\ \E p \in Nat :
                     /\ p \in DOMAIN tokenizer => tokenizer[p] = r
                     /\ p \notin DOMAIN tokenizer => \A k \in DOMAIN tokenizer : tokenizer[k] # r
                     /\ \A k \in DOMAIN tokenizer' : m[k] # p
                     /\ \A i \in DOMAIN tokenizer : i # p => \E k \in DOMAIN tokenizer' : m[k] = i
<1>1. Len(tokenizer) \in Nat /\ DOMAIN tokenizer = 1 .. Len(tokenizer)
  OBVIOUS
<1>2. ASSUME NEW i \in DOMAIN tokenizer, tokenizer[i] = r,
             tokenizer' = SubSeq(tokenizer, 1, i - 1) \o SubSeq(tokenizer, i + 1, Len(tokenizer))
      PROVE  /\ tokenizer' \in Seq(Requests)
             /\ \E m \in [DOMAIN tokenizer' -> DOMAIN tokenizer] :
                   /\ \A k \in DOMAIN tokenizer' : tokenizer'[k] = tokenizer[m[k]]
                   /\ \A j, k \in DOMAIN tokenizer' : j < k => m[j] < m[k]
                   /\ \A k \in DOMAIN tokenizer' : m[k] # i
                   /\ \A h \in DOMAIN tokenizer : h # i => \E k \in DOMAIN tokenizer' : m[k] = h
  <2>1. i \in 1 .. Len(tokenizer)
    BY <1>1
  <2>2. /\ tokenizer' \in Seq(Requests) /\ Len(tokenizer') = Len(tokenizer) - 1
        /\ \A k \in 1 .. Len(tokenizer) - 1 : k < i => tokenizer'[k] = tokenizer[k]
        /\ \A k \in 1 .. Len(tokenizer) - 1 : i <= k => tokenizer'[k] = tokenizer[k + 1]
    BY <1>2, <2>1, Removal
  <2>3. DOMAIN tokenizer' = 1 .. Len(tokenizer) - 1
    BY <2>2
  <2> DEFINE m == [k \in DOMAIN tokenizer' |-> IF k < i THEN k ELSE k + 1]
  <2>4. m \in [DOMAIN tokenizer' -> DOMAIN tokenizer]
    BY <1>1, <2>1, <2>3
  <2>5. \A k \in DOMAIN tokenizer' : tokenizer'[k] = tokenizer[m[k]]
    BY <1>1, <2>1, <2>2, <2>3
  <2>6. /\ \A j, k \in DOMAIN tokenizer' : j < k => m[j] < m[k]
        /\ \A k \in DOMAIN tokenizer' : m[k] # i
    BY <1>1, <2>1, <2>3
  <2>7. ASSUME NEW h \in DOMAIN tokenizer, h # i
        PROVE  \E k \in DOMAIN tokenizer' : m[k] = h
    <3>1. CASE h < i
      <4>1. h \in DOMAIN tokenizer' /\ m[h] = h
        BY <1>1, <2>1, <2>3, <3>1
      <4> QED
        BY <4>1
    <3>2. CASE ~(h < i)
      <4>1. h - 1 \in DOMAIN tokenizer' /\ ~(h - 1 < i) /\ h - 1 + 1 = h
        BY <1>1, <2>1, <2>3, <2>7, <3>2
      <4>2. m[h - 1] = h
        BY <4>1
      <4> QED
        BY <4>1, <4>2
    <3> QED
      BY <3>1, <3>2
  <2> HIDE DEF m
  <2> QED
    BY <2>2, <2>4, <2>5, <2>6, <2>7
<1>3. ASSUME \A i \in DOMAIN tokenizer : tokenizer[i] # r, tokenizer' = tokenizer
      PROVE  /\ tokenizer' \in Seq(Requests)
             /\ \E m \in [DOMAIN tokenizer' -> DOMAIN tokenizer] :
                   /\ \A k \in DOMAIN tokenizer' : tokenizer'[k] = tokenizer[m[k]]
                   /\ \A j, k \in DOMAIN tokenizer' : j < k => m[j] < m[k]
                   /\ \A k \in DOMAIN tokenizer' : m[k] # 0
                   /\ \A h \in DOMAIN tokenizer : h # 0 => \E k \in DOMAIN tokenizer' : m[k] = h
  <2> DEFINE m == [k \in DOMAIN tokenizer |-> k]
  <2>1. m \in [DOMAIN tokenizer' -> DOMAIN tokenizer] /\ \A k \in DOMAIN tokenizer : m[k] = k
    BY <1>3
  <2> HIDE DEF m
  <2> QED
    BY <1>1, <1>3, <2>1
<1>4. CASE \E i \in DOMAIN tokenizer :
              /\ tokenizer[i] = r
              /\ tokenizer' = SubSeq(tokenizer, 1, i - 1) \o SubSeq(tokenizer, i + 1, Len(tokenizer))
  <2>1. PICK i \in DOMAIN tokenizer :
              /\ tokenizer[i] = r
              /\ tokenizer' = SubSeq(tokenizer, 1, i - 1) \o SubSeq(tokenizer, i + 1, Len(tokenizer))
    BY <1>4
  <2>2. i \in Nat
    BY <1>1
  <2>3. PICK m \in [DOMAIN tokenizer' -> DOMAIN tokenizer] :
              /\ \A k \in DOMAIN tokenizer' : tokenizer'[k] = tokenizer[m[k]]
              /\ \A j, k \in DOMAIN tokenizer' : j < k => m[j] < m[k]
              /\ \A k \in DOMAIN tokenizer' : m[k] # i
              /\ \A h \in DOMAIN tokenizer : h # i => \E k \in DOMAIN tokenizer' : m[k] = h
    BY <1>2, <2>1
  <2>4. \E p \in Nat :
              /\ p \in DOMAIN tokenizer => tokenizer[p] = r
              /\ p \notin DOMAIN tokenizer => \A k \in DOMAIN tokenizer : tokenizer[k] # r
              /\ \A k \in DOMAIN tokenizer' : m[k] # p
              /\ \A h \in DOMAIN tokenizer : h # p => \E k \in DOMAIN tokenizer' : m[k] = h
    BY <1>2, <2>1, <2>2, <2>3
  <2> QED
    BY <1>2, <2>1, <2>3, <2>4
<1>5. CASE (\A i \in DOMAIN tokenizer : tokenizer[i] # r) /\ UNCHANGED tokenizer
  <2>1. 0 \in Nat /\ 0 \notin DOMAIN tokenizer
    BY <1>1
  <2>3. PICK m \in [DOMAIN tokenizer' -> DOMAIN tokenizer] :
              /\ \A k \in DOMAIN tokenizer' : tokenizer'[k] = tokenizer[m[k]]
              /\ \A j, k \in DOMAIN tokenizer' : j < k => m[j] < m[k]
              /\ \A k \in DOMAIN tokenizer' : m[k] # 0
              /\ \A h \in DOMAIN tokenizer : h # 0 => \E k \in DOMAIN tokenizer' : m[k] = h
    BY <1>3, <1>5
  <2>4. \E p \in Nat :
              /\ p \in DOMAIN tokenizer => tokenizer[p] = r
              /\ p \notin DOMAIN tokenizer => \A k \in DOMAIN tokenizer : tokenizer[k] # r
              /\ \A k \in DOMAIN tokenizer' : m[k] # p
              /\ \A h \in DOMAIN tokenizer : h # p => \E k \in DOMAIN tokenizer' : m[k] = h
    BY <1>5, <2>1, <2>3
  <2> QED
    BY <1>3, <1>5, <2>1, <2>3, <2>4
<1> QED
  BY <1>4, <1>5 DEF Runtime!Forget

\* The frames of a chunk up to a number are a history.
LEMMA UpToHistory ==
  ASSUME JobsInv, NEW r \in Requests, NEW k \in 0 .. MaxFrames
  PROVE  Runtime!UpTo(r, k) \in Histories
<1>1. job[r].chunk \in 1 .. MaxChunks
  BY DEF JobsInv, Jobs
<1> QED
  BY <1>1 DEF Runtime!UpTo, Histories

\* What the codec has seen stays a history, and whose audio is blurred a set of requests.
LEMMA DecodedTypes ==
  ASSUME JobsInv, Caches, NEW r \in Requests, NEW n \in Nat, n >= 1,
         job[r].pc \in {"top", "mid"},
         job[r].frames - job[r].pending + n <= MaxFrames, Runtime!RunFrames(r, n)
  PROVE  codec' \in Histories /\ blurred' \subseteq Requests
<1>1. /\ job[r].frames \in Nat /\ job[r].pending \in Nat /\ job[r].pending <= job[r].frames
      /\ MaxFrames \in Nat
  BY JobNumbers DEF JobsInv, Fine
<1>2. PICK f \in Nat : f = job[r].frames - job[r].pending + 1
  BY <1>1
<1>3. f + n - 1 \in 0 .. MaxFrames
  BY <1>1, <1>2
<1>4. codec' = Runtime!Add(codec, r, f, f + n - 1)
      /\ blurred' = IF codec' = Runtime!Mix THEN blurred \cup {r} ELSE blurred
  BY <1>2 DEF Runtime!RunFrames
<1>5. Runtime!UpTo(r, f + n - 1) \in Histories
  BY <1>3, UpToHistory
<1>6. codec' \in {Runtime!UpTo(r, f + n - 1), Runtime!Mix}
  BY <1>4 DEF Runtime!Add
<1> QED
  BY <1>4, <1>5, <1>6 DEF Histories, Caches

\* A step of the synthesizer keeps the types, and its local states go on as Moves says.
LEMMA StepTypes ==
  ASSUME JobsInv, Caches, NEW r \in Requests,
         Runtime!Synthesize(r) \/ Runtime!Cancel(r) \/ Runtime!Step(r)
  PROVE  Moves(r) /\ Caches'
<1>1. /\ job[r] \in Jobs /\ Fine(job[r]) /\ tokenizer \in Seq(Requests)
      /\ job[r].frames \in Nat /\ job[r].frames <= MaxFrames /\ MaxFrames \in Nat
      /\ job[r].pending \in Nat /\ job[r].pending <= job[r].frames
  BY JobNumbers DEF JobsInv, Caches, Fine
<1>2. Append(tokenizer, r) \in Seq(Requests)
  BY <1>1
<1>3. CASE Runtime!Synthesize(r)
  <2>1. crowd' \in [Requests -> {"alone", "after", "shared"}]
    BY <1>3 DEF Runtime!Synthesize, Caches
  <2> QED
    BY <1>2, <1>3, <2>1, SynthesizeMoves
    DEF Runtime!Synthesize, Runtime!cacheVars, Runtime!audioVars, Caches
<1>4. CASE Runtime!Cancel(r)
  BY <1>4, CancelMoves DEF Runtime!Cancel, Runtime!cacheVars, Runtime!audioVars, Caches
<1>5. CASE Runtime!Split(r)
  <2>1. tokenizer' \in Seq(Requests)
    BY <1>1, <1>5, ForgetEffect DEF Runtime!Split
  <2> QED
    BY <1>5, <2>1, SplitMoves DEF Runtime!Split, Runtime!cacheVars, Runtime!audioVars, Caches
<1>6. CASE Runtime!NextChunk(r)
  <2>1. tokenizer' \in Seq(Requests)
    BY <1>1, <1>2, <1>6 DEF Runtime!NextChunk
  <2> QED
    BY <1>6, <2>1, NextChunkMoves
    DEF Runtime!NextChunk, Runtime!cacheVars, Runtime!audioVars, Caches
<1>7. CASE Runtime!Begin(r)
  <2>1. tokenizer' \in Seq(Requests)
    BY <1>1, <1>7, ForgetEffect DEF Runtime!Begin
  <2>2. codec' \in Histories
    BY <1>7 DEF Runtime!Begin, Runtime!ResetCodec, Histories
  <2>3. past' \in Histories
    BY <1>1, <1>7, UpToHistory DEF Runtime!Begin
  <2> QED
    BY <1>7, <2>1, <2>2, <2>3, BeginMoves DEF Runtime!Begin, Runtime!audioVars, Caches
<1>8. CASE Runtime!HalfFrame(r)
  <2>1. local' \in Histories
    BY <1>1, <1>8, UpToHistory DEF Runtime!HalfFrame
  <2> QED
    BY <1>8, <2>1, HalfFrameMoves DEF Runtime!HalfFrame, Runtime!audioVars, Caches
<1>9. CASE Runtime!Frame(r)
  <2>1. /\ Moves(r) /\ job[r].pc = "mid" /\ job[r].frames < MaxFrames
    BY <1>9, FrameMoves
  <2>2. PICK n \in 0 .. job[r].pending + 1 :
              IF n = 0 THEN UNCHANGED <<codec, blurred>> ELSE Runtime!RunFrames(r, n)
    BY <1>9, FrameMoves
  <2>3. codec' \in Histories /\ blurred' \subseteq Requests
    <3>1. CASE n = 0
      BY <2>2, <3>1 DEF Caches
    <3>2. CASE n # 0
      <4>1. n \in Nat /\ n >= 1 /\ job[r].frames - job[r].pending + n <= MaxFrames
        BY <1>1, <2>1, <3>2
      <4> QED
        BY <2>1, <2>2, <3>2, <4>1, DecodedTypes
    <3> QED
      BY <3>1, <3>2
  <2>4. past' \in Histories
    <3>1. past' \in {Runtime!UpTo(r, job[r].frames + 1), Runtime!Mix}
      BY <1>9 DEF Runtime!Frame, Runtime!Add
    <3>2. job[r].frames + 1 \in 0 .. MaxFrames
      BY <1>1, <2>1
    <3>3. Runtime!UpTo(r, job[r].frames + 1) \in Histories
      BY <3>2, UpToHistory
    <3> QED
      BY <3>1, <3>3 DEF Histories
  <2>5. mixed' \subseteq Requests /\ UNCHANGED <<tokenizer, local, crowd>>
    BY <1>9 DEF Runtime!Frame, Caches
  <2> QED
    BY <2>1, <2>3, <2>4, <2>5 DEF Caches
<1>10. CASE Runtime!Stops(r)
  <2>1. /\ Moves(r) /\ job[r].pc \in {"top", "mid"}
        /\ \/ UNCHANGED <<codec, blurred>>
           \/ Runtime!RunFrames(r, job[r].pending) /\ job[r].pending > 0
    BY <1>10, StopsMoves
  <2>2. codec' \in Histories /\ blurred' \subseteq Requests
    <3>1. CASE UNCHANGED <<codec, blurred>>
      BY <3>1 DEF Caches
    <3>2. CASE Runtime!RunFrames(r, job[r].pending) /\ job[r].pending > 0
      <4>1. job[r].pending >= 1 /\ job[r].frames - job[r].pending + job[r].pending <= MaxFrames
        BY <1>1, <3>2
      <4> QED
        BY <1>1, <2>1, <3>2, <4>1, DecodedTypes
    <3> QED
      BY <2>1, <3>1, <3>2
  <2>3. local' \in Histories
    <3>1. CASE job[r].frames = MaxFrames \/ job[r].cancelled
      BY <1>10, <3>1 DEF Runtime!Stops, Caches
    <3>2. CASE ~(job[r].frames = MaxFrames \/ job[r].cancelled)
      <4>1. job[r].frames + 1 \in 0 .. MaxFrames
        BY <1>1, <3>2
      <4> QED
        BY <1>10, <3>2, <4>1, UpToHistory DEF Runtime!Stops
    <3> QED
      BY <3>1, <3>2
  <2> QED
    BY <1>10, <2>1, <2>2, <2>3 DEF Runtime!Stops, Caches
<1>11. CASE Runtime!Ack(r)
  BY <1>11, AckMoves DEF Runtime!Ack, Runtime!cacheVars, Runtime!audioVars, Caches
<1>12. CASE Runtime!Throw(r)
  <2>1. tokenizer' \in Seq(Requests)
    BY <1>1, <1>12, ForgetEffect DEF Runtime!Throw
  <2> QED
    BY <1>12, <2>1, ThrowMoves DEF Runtime!Throw, Runtime!cacheVars, Runtime!audioVars, Caches
<1> QED
  BY <1>3, <1>4, <1>5, <1>6, <1>7, <1>8, <1>9, <1>10, <1>11, <1>12 DEF Runtime!Step

(***************************************************************************)
(* Whole speech, and cancelling.                                           *)
(***************************************************************************)
\* The step of one request leaves every local state in order.
LEMMA MovesInv ==
  ASSUME JobsInv, NEW r \in Requests, Moves(r)
  PROVE  JobsInv'
<1>1. ASSUME NEW q \in Requests PROVE Fine(job'[q])
  BY DEF JobsInv, Moves
<1> QED
  BY <1>1 DEF JobsInv, Moves, Fine

\* Local states, caches and types, from the first state on.
LEMMA TypesHold == Spec => [](StoreInv /\ JobsInv /\ Caches)
<1>1. Init => StoreInv /\ JobsInv /\ Caches
  <2> SUFFICES ASSUME Init PROVE StoreInv /\ JobsInv /\ Caches
    OBVIOUS
  <2>1. StoreInv
    BY MossAssumption DEF Init, Store!Init, StoreInv, Store!TypeOK, Store!Files
  <2>2. JobsInv
    BY EndedFine DEF Init, Runtime!Init, JobsInv
  <2>3. Caches
    BY DEF Init, Runtime!Init, Caches, Histories
  <2> QED
    BY <2>1, <2>2, <2>3
<1>2. StoreInv /\ JobsInv /\ Caches /\ [Next]_vars => (StoreInv /\ JobsInv /\ Caches)'
  <2> SUFFICES ASSUME StoreInv, JobsInv, Caches, [Next]_vars
               PROVE  StoreInv' /\ JobsInv' /\ Caches'
    OBVIOUS
  <2>1. StoreInv'
    <3>1. CASE Store!Next
      BY <3>1, StoreStepInv
    <3>2. CASE UNCHANGED storeVars
      BY <3>2 DEF storeVars, StoreInv, Store!TypeOK
    <3> QED
      BY <3>1, <3>2 DEF Next, vars
  <2>2. CASE UNCHANGED runtimeVars
    BY <2>1, <2>2 DEF runtimeVars, JobsInv, Caches, Fine
  <2>3. CASE Runtime!Next
    <3>1. PICK r \in Requests : Runtime!Synthesize(r) \/ Runtime!Cancel(r) \/ Runtime!Step(r)
      BY <2>3 DEF Runtime!Next
    <3> QED
      BY <2>1, <3>1, StepTypes, MovesInv
  <2> QED
    BY <2>2, <2>3 DEF Next, vars
<1> QED
  BY <1>1, <1>2, PTL DEF Spec

\* Every frame of a request becomes audio once and in order, and none is left at the end
\* of a text chunk, however the requests interleave, are cancelled or fail
\* (decodePendingFrames).
THEOREM WholeSpeechHolds == Spec => []WholeSpeech
<1>1. StoreInv /\ JobsInv /\ Caches => WholeSpeech
  <2> SUFFICES ASSUME StoreInv, JobsInv, Caches PROVE WholeSpeech
    OBVIOUS
  <2>1. Runtime!TypeOK
    <3>1. \A h \in {past, local, codec} :
             h \in {Runtime!Mix, Runtime!Fresh}
             \/ h \in Requests \X (1 .. MaxChunks) \X (0 .. MaxFrames)
      BY DEF Caches, Histories
    <3> QED
      BY <3>1 DEF Runtime!TypeOK, Caches, JobsInv, Jobs
  <2>2. TypeOK
    BY <2>1 DEF TypeOK, StoreInv
  <2> QED
    BY <2>2 DEF WholeSpeech, JobsInv, Fine
<1> QED
  BY <1>1, TypesHold, PTL

\* A cancelled request computes no further frame, whatever it was waiting for
\* (generateAudioFrames).
THEOREM StopsPromptlyHolds == Spec => StopsPromptly
<1> DEFINE Prompt == \A r \in Requests : job[r].cancelled => job'[r].frames <= job[r].frames
<1>1. JobsInv /\ Caches /\ [Next]_vars => [Prompt]_vars
  <2> SUFFICES ASSUME JobsInv, Caches, Next PROVE Prompt
    OBVIOUS
  <2>1. \A r \in Requests : job[r].frames \in Nat
    BY JobNumbers DEF JobsInv
  <2>2. CASE UNCHANGED runtimeVars
    BY <2>1, <2>2 DEF runtimeVars
  <2>3. CASE Runtime!Next
    <3>1. PICK q \in Requests : Runtime!Synthesize(q) \/ Runtime!Cancel(q) \/ Runtime!Step(q)
      BY <2>3 DEF Runtime!Next
    <3>2. Moves(q)
      BY <3>1, StepTypes
    <3> QED
      BY <2>1, <3>2 DEF Moves
  <2> QED
    BY <2>2, <2>3 DEF Next
<1>2. [][Prompt]_vars <=> StopsPromptly
  BY DEF StopsPromptly
<1> HIDE DEF Prompt
<1> QED
  BY <1>1, <1>2, TypesHold, PTL DEF Spec

(***************************************************************************)
(* Own speech: which requests can be under way together.                   *)
(***************************************************************************)
Waits(r) == job[r].pc \in {"split", "encode"}

\* The tokenizer is asked for exactly the requests that await it, for each once.
Waiting ==
    /\ \A i \in DOMAIN tokenizer : Waits(tokenizer[i])
    /\ \A r \in Requests : Waits(r) => \E i \in DOMAIN tokenizer : tokenizer[i] = r
    /\ \A i, j \in DOMAIN tokenizer : tokenizer[i] = tokenizer[j] => i = j

\* Requests arrive in the order of their ids.
Arrival == \A q, r \in Requests : q < r /\ job[r].pc # "none" => job[q].pc # "none"

\* Of two requests that are both under way neither is alone, and unless the earlier one
\* is cancelled both are shared.
Meet == \A q, r \in Requests : q < r /\ Runtime!Live(q) /\ Runtime!Live(r) =>
            /\ crowd[q] # "alone" /\ crowd[r] # "alone"
            /\ job[q].cancelled \/ (crowd[q] = "shared" /\ crowd[r] = "shared")

\* A request that is not shared cannot overtake an earlier one at the tokenizer.
Behind == \A q, r \in Requests :
            q < r /\ Waits(q) /\ Runtime!Live(r) /\ crowd[r] # "shared" =>
               /\ job[r].pc = "split"
               /\ \A i, j \in DOMAIN tokenizer : tokenizer[i] = q /\ tokenizer[j] = r => i < j

Company == Waiting /\ Arrival /\ Meet /\ Behind

\* Every step but the arrival of a request is one of a request under way, and leaves the
\* record of who met whom alone.
LEMMA StepLive ==
  ASSUME NEW r \in Requests, Runtime!Cancel(r) \/ Runtime!Step(r)
  PROVE  Runtime!Live(r) /\ UNCHANGED crowd
<1>1. CASE Runtime!Cancel(r)
  BY <1>1 DEF Runtime!Cancel
<1>2. CASE Runtime!Split(r)
  BY <1>2 DEF Runtime!Split, Runtime!Live, Runtime!Awaits
<1>3. CASE Runtime!NextChunk(r)
  BY <1>3 DEF Runtime!NextChunk, Runtime!Live, Runtime!Awaits
<1>4. CASE Runtime!Begin(r)
  BY <1>4 DEF Runtime!Begin, Runtime!Live, Runtime!Awaits
<1>5. CASE Runtime!HalfFrame(r)
  BY <1>5 DEF Runtime!HalfFrame, Runtime!Live, Runtime!Awaits
<1>6. CASE Runtime!Frame(r)
  BY <1>6 DEF Runtime!Frame, Runtime!Live, Runtime!Awaits
<1>7. CASE Runtime!Stops(r)
  BY <1>7 DEF Runtime!Stops, Runtime!Live, Runtime!Awaits
<1>8. CASE Runtime!Ack(r)
  BY <1>8 DEF Runtime!Ack, Runtime!AwaitsAck, Runtime!Live, Runtime!Awaits
<1>9. CASE Runtime!Throw(r)
  BY <1>9 DEF Runtime!Throw
<1> QED
  BY <1>1, <1>2, <1>3, <1>4, <1>5, <1>6, <1>7, <1>8, <1>9 DEF Runtime!Step

\* What the arrival of a request does to the record of who met whom.
LEMMA SynthesizeCrowd ==
  ASSUME Caches, NEW r \in Requests, Runtime!Synthesize(r), NEW q \in Requests
  PROVE  /\ crowd[q] = "shared" => crowd'[q] = "shared"
         /\ crowd[q] # "alone" => crowd'[q] # "alone"
         /\ q # r /\ Runtime!Live(q) => crowd'[q] # "alone" /\ crowd'[r] # "alone"
         /\ q # r /\ Runtime!Live(q) /\ ~job[q].cancelled =>
               crowd'[q] = "shared" /\ crowd'[r] = "shared"
<1> DEFINE others == {p \in Requests : Runtime!Live(p)}
           live == {p \in others : ~job[p].cancelled}
<1>1. ASSUME NEW p \in Requests
      PROVE  crowd'[p] = IF live # {} /\ p \in live \cup {r} THEN "shared"
                         ELSE IF others # {} /\ p \in others \cup {r}
                                  /\ crowd[p] = "alone" THEN "after"
                         ELSE crowd[p]
  BY DEF Runtime!Synthesize
<1>2. crowd[q] \in {"alone", "after", "shared"} /\ crowd[r] \in {"alone", "after", "shared"}
  BY DEF Caches
<1>3. Runtime!Live(q) => q \in others
  OBVIOUS
<1>4. Runtime!Live(q) /\ ~job[q].cancelled => q \in live
  OBVIOUS
<1> HIDE DEF others, live
<1> QED
  BY <1>1, <1>2, <1>3, <1>4

\* Who is under way together, after a step of a request under way.
LEMMA MeetStep ==
  ASSUME JobsInv, Caches, Arrival, Meet, NEW r \in Requests, Moves(r),
         Runtime!Live(r), UNCHANGED crowd
  PROVE  Arrival' /\ Meet'
<1>1. \A q \in Requests : /\ Runtime!Live(q)' => Runtime!Live(q)
                          /\ job[q].cancelled /\ Runtime!Live(q)' => job'[q].cancelled
                          /\ job[q].pc # "none" => job'[q].pc # "none"
                          /\ job'[q].pc # "none" => job[q].pc # "none"
  BY DEF Moves, Runtime!Live, Runtime!Awaits
<1>2. Arrival'
  BY <1>1 DEF Arrival
<1>3. Meet'
  <2> SUFFICES ASSUME NEW q \in Requests, NEW s \in Requests, q < s,
                      Runtime!Live(q)', Runtime!Live(s)'
               PROVE  /\ crowd'[q] # "alone" /\ crowd'[s] # "alone"
                      /\ job'[q].cancelled \/ (crowd'[q] = "shared" /\ crowd'[s] = "shared")
    BY DEF Meet
  <2> QED
    BY <1>1 DEF Meet
<1> QED
  BY <1>2, <1>3

\* The same after the arrival of a request.
LEMMA MeetSynthesize ==
  ASSUME JobsInv, Caches, Arrival, Meet, NEW r \in Requests, Runtime!Synthesize(r)
  PROVE  Arrival' /\ Meet'
<1>1. /\ job[r].pc = "none" /\ job'[r].pc = "split"
      /\ \A q \in Requests : q < r => job[q].pc # "none"
      /\ \A q \in Requests \ {r} : job'[q] = job[q]
  BY SynthesizeMoves DEF Runtime!Synthesize, Moves
<1>2. Requests \subseteq Nat
  BY MossAssumption
<1>3. Arrival'
  <2> SUFFICES ASSUME NEW q \in Requests, NEW s \in Requests, q < s, job'[s].pc # "none"
               PROVE  job'[q].pc # "none"
    BY DEF Arrival
  <2> QED
    BY <1>1, <1>2 DEF Arrival
<1>4. Meet'
  <2> SUFFICES ASSUME NEW q \in Requests, NEW s \in Requests, q < s,
                      Runtime!Live(q)', Runtime!Live(s)'
               PROVE  /\ crowd'[q] # "alone" /\ crowd'[s] # "alone"
                      /\ job'[q].cancelled \/ (crowd'[q] = "shared" /\ crowd'[s] = "shared")
    BY DEF Meet
  <2>1. CASE q # r /\ s # r
    <3>1. Runtime!Live(q) /\ Runtime!Live(s) /\ job'[q] = job[q]
      BY <1>1, <2>1 DEF Runtime!Live
    <3> QED
      BY <3>1, SynthesizeCrowd DEF Meet
  <2>2. CASE s = r
    <3>1. q # r
      BY <1>2, <2>2
    <3>2. Runtime!Live(q) /\ job'[q] = job[q]
      BY <1>1, <3>1 DEF Runtime!Live
    <3> QED
      BY <2>2, <3>1, <3>2, SynthesizeCrowd
  <2>3. CASE q = r
    <3>1. s # r
      BY <1>2, <2>3
    <3>2. job[s].pc # "none"
      BY <1>1, <3>1 DEF Runtime!Live, Runtime!Awaits
    <3> QED
      BY <1>1, <2>3, <3>2 DEF Arrival
  <2> QED
    BY <2>1, <2>2, <2>3
<1> QED
  BY <1>3, <1>4

\* A request leaves the tokenizer's queue and awaits it no longer.
LEMMA QueueForget ==
  ASSUME JobsInv, Caches, Waiting, Behind, NEW r \in Requests, Moves(r), Runtime!Live(r),
         Runtime!Forget(r), ~Waits(r)', UNCHANGED crowd,
         \A q \in Requests : q < r /\ Waits(q) /\ crowd[r] # "shared" => ~Runtime!Live(r)'
  PROVE  Waiting' /\ Behind'
<1>1. tokenizer \in Seq(Requests)
  BY DEF Caches
<1>2. tokenizer' \in Seq(Requests)
  BY <1>1, ForgetEffect
<1>3. PICK m \in [DOMAIN tokenizer' -> DOMAIN tokenizer] :
               /\ \A k \in DOMAIN tokenizer' : tokenizer'[k] = tokenizer[m[k]]
               /\ \A j, k \in DOMAIN tokenizer' : j < k => m[j] < m[k]
               /\ \E p \in Nat :
                     /\ p \in DOMAIN tokenizer => tokenizer[p] = r
                     /\ p \notin DOMAIN tokenizer => \A k \in DOMAIN tokenizer : tokenizer[k] # r
                     /\ \A k \in DOMAIN tokenizer' : m[k] # p
                     /\ \A i \in DOMAIN tokenizer : i # p => \E k \in DOMAIN tokenizer' : m[k] = i
  BY <1>1, ForgetEffect
<1>4. PICK p \in Nat :
                     /\ p \in DOMAIN tokenizer => tokenizer[p] = r
                     /\ p \notin DOMAIN tokenizer => \A k \in DOMAIN tokenizer : tokenizer[k] # r
                     /\ \A k \in DOMAIN tokenizer' : m[k] # p
                     /\ \A i \in DOMAIN tokenizer : i # p => \E k \in DOMAIN tokenizer' : m[k] = i
  BY <1>3
<1>5. /\ DOMAIN tokenizer \subseteq Nat /\ DOMAIN tokenizer' \subseteq Nat
      /\ \A i \in DOMAIN tokenizer : tokenizer[i] \in Requests
      /\ \A i \in DOMAIN tokenizer' : tokenizer'[i] \in Requests
  BY <1>1, <1>2
<1>6. \A q \in Requests : q # r => job'[q] = job[q]
  BY DEF Moves
<1>7. \A k \in DOMAIN tokenizer' : tokenizer'[k] # r
  BY <1>3, <1>4 DEF Waiting
<1>8. Waiting'
  <2>1. ASSUME NEW k \in DOMAIN tokenizer' PROVE job'[tokenizer'[k]].pc \in {"split", "encode"}
    <3>1. tokenizer'[k] \in Requests /\ Waits(tokenizer'[k]) /\ tokenizer'[k] # r
      BY <1>3, <1>5, <1>7 DEF Waiting
    <3> QED
      BY <1>6, <3>1 DEF Waits
  <2>2. ASSUME NEW q \in Requests, Waits(q)' PROVE \E k \in DOMAIN tokenizer' : tokenizer'[k] = q
    <3>1. q # r /\ Waits(q)
      BY <1>6, <2>2 DEF Waits
    <3>2. PICK i \in DOMAIN tokenizer : tokenizer[i] = q
      BY <3>1 DEF Waiting
    <3>3. i # p
      BY <1>4, <3>1, <3>2
    <3> QED
      BY <1>3, <1>4, <3>2, <3>3
  <2>3. ASSUME NEW j \in DOMAIN tokenizer', NEW k \in DOMAIN tokenizer', tokenizer'[j] = tokenizer'[k]
        PROVE  j = k
    <3>1. m[j] = m[k] /\ m[j] \in Nat
      BY <1>3, <1>5, <2>3 DEF Waiting
    <3> QED
      BY <1>3, <1>5, <3>1
  <2> QED
    BY <2>1, <2>2, <2>3 DEF Waiting, Waits
<1>9. Behind'
  <2> SUFFICES ASSUME NEW q \in Requests, NEW s \in Requests, q < s, Waits(q)',
                      Runtime!Live(s)', crowd'[s] # "shared"
               PROVE  /\ job'[s].pc = "split"
                      /\ \A i, j \in DOMAIN tokenizer' :
                            tokenizer'[i] = q /\ tokenizer'[j] = s => i < j
    BY DEF Behind
  <2>1. q # r /\ Waits(q)
    BY <1>6 DEF Waits
  <2>2. s # r
    BY <2>1
  <2>3. Runtime!Live(s) /\ job'[s] = job[s] /\ crowd[s] # "shared"
    BY <1>6, <2>2 DEF Runtime!Live
  <2>4. job[s].pc = "split" /\ \A i, j \in DOMAIN tokenizer : tokenizer[i] = q /\ tokenizer[j] = s => i < j
    BY <2>1, <2>3 DEF Behind
  <2>5. ASSUME NEW i \in DOMAIN tokenizer', NEW j \in DOMAIN tokenizer', tokenizer'[i] = q, tokenizer'[j] = s
        PROVE  i < j
    <3>1. m[i] < m[j]
      BY <1>3, <2>4, <2>5
    <3>2. ~(j < i) /\ i # j
      <4>1. m[i] \in Nat /\ m[j] \in Nat
        BY <1>3, <1>5
      <4> QED
        BY <1>3, <3>1, <4>1
    <3> QED
      BY <1>5, <3>2
  <2> QED
    BY <2>3, <2>4, <2>5
<1> QED
  BY <1>8, <1>9

\* A request asks the tokenizer.
LEMMA QueueAppend ==
  ASSUME JobsInv, Caches, Waiting, Behind, NEW r \in Requests, Moves(r), ~Waits(r), Waits(r)',
         tokenizer' = Append(tokenizer, r),
         \A q \in Requests : crowd[q] = "shared" => crowd'[q] = "shared",
         \A s \in Requests : r < s /\ Runtime!Live(s)' => crowd'[s] = "shared",
         \A q \in Requests : q < r /\ Waits(q) /\ crowd'[r] # "shared" => job'[r].pc = "split"
  PROVE  Waiting' /\ Behind'
<1>1. tokenizer \in Seq(Requests)
  BY DEF Caches
<1> DEFINE n == Len(tokenizer)
<1>2. /\ n \in Nat /\ DOMAIN tokenizer = 1 .. n /\ DOMAIN tokenizer' = 1 .. n + 1
      /\ \A i \in 1 .. n : tokenizer'[i] = tokenizer[i] /\ tokenizer[i] \in Requests
      /\ tokenizer'[n + 1] = r
  BY <1>1
<1> HIDE DEF n
<1>3. \A i \in 1 .. n : tokenizer[i] # r
  BY <1>2 DEF Waiting
<1>4. \A q \in Requests : q # r => job'[q] = job[q]
  BY DEF Moves
<1>5. \A i \in 1 .. n + 1 : i \in 1 .. n \/ i = n + 1
  BY <1>2
<1>6. Waiting'
  <2>1. ASSUME NEW k \in DOMAIN tokenizer' PROVE job'[tokenizer'[k]].pc \in {"split", "encode"}
    BY <1>2, <1>3, <1>4, <1>5 DEF Waiting, Waits
  <2>2. ASSUME NEW q \in Requests, Waits(q)' PROVE \E k \in DOMAIN tokenizer' : tokenizer'[k] = q
    <3>1. CASE q = r
      <4>1. n + 1 \in DOMAIN tokenizer'
        BY <1>2
      <4> QED
        BY <1>2, <3>1, <4>1
    <3>2. CASE q # r
      <4>1. PICK i \in DOMAIN tokenizer : tokenizer[i] = q
        BY <1>4, <2>2, <3>2 DEF Waiting, Waits
      <4>2. i \in DOMAIN tokenizer'
        BY <1>2
      <4> QED
        BY <1>2, <4>1, <4>2
    <3> QED
      BY <3>1, <3>2
  <2>3. ASSUME NEW j \in DOMAIN tokenizer', NEW k \in DOMAIN tokenizer', tokenizer'[j] = tokenizer'[k]
        PROVE  j = k
    BY <1>2, <1>3, <1>5, <2>3 DEF Waiting
  <2> QED
    BY <2>1, <2>2, <2>3 DEF Waiting, Waits
<1>7. Behind'
  <2> SUFFICES ASSUME NEW q \in Requests, NEW s \in Requests, q < s, Waits(q)',
                      Runtime!Live(s)', crowd'[s] # "shared"
               PROVE  /\ job'[s].pc = "split"
                      /\ \A i, j \in DOMAIN tokenizer' :
                            tokenizer'[i] = q /\ tokenizer'[j] = s => i < j
    BY DEF Behind
  <2>1. q # r
    OBVIOUS
  <2>2. Waits(q) /\ q \in Nat /\ s \in Nat
    BY <1>4, <2>1, MossAssumption DEF Waits
  <2>3. CASE s = r
    <3>1. ASSUME NEW i \in DOMAIN tokenizer', NEW j \in DOMAIN tokenizer', tokenizer'[i] = q, tokenizer'[j] = s
          PROVE  i < j
      BY <1>2, <1>3, <1>5, <2>1, <2>3, <3>1
    <3> QED
      BY <2>2, <2>3, <3>1
  <2>4. CASE s # r
    <3>1. Runtime!Live(s) /\ job'[s] = job[s] /\ crowd[s] # "shared"
      BY <1>4, <2>4 DEF Runtime!Live
    <3>2. job[s].pc = "split" /\ \A i, j \in DOMAIN tokenizer : tokenizer[i] = q /\ tokenizer[j] = s => i < j
      BY <2>2, <3>1 DEF Behind
    <3>3. ASSUME NEW i \in DOMAIN tokenizer', NEW j \in DOMAIN tokenizer', tokenizer'[i] = q, tokenizer'[j] = s
          PROVE  i < j
      <4>1. i \in 1 .. n /\ j \in 1 .. n
        BY <1>2, <1>5, <2>1, <2>4, <3>3
      <4> QED
        BY <1>2, <3>2, <3>3, <4>1
    <3> QED
      BY <3>1, <3>2, <3>3
  <2> QED
    BY <2>3, <2>4
<1> QED
  BY <1>6, <1>7

\* A step that leaves the tokenizer alone.
LEMMA QueueKept ==
  ASSUME JobsInv, Caches, Waiting, Behind, NEW r \in Requests, Moves(r), Runtime!Live(r),
         Waits(r)' <=> Waits(r), Waits(r) => job'[r].pc = job[r].pc,
         UNCHANGED <<tokenizer, crowd>>
  PROVE  Waiting' /\ Behind'
<1>1. /\ tokenizer \in Seq(Requests)
      /\ \A i \in DOMAIN tokenizer : tokenizer[i] \in Requests
  BY DEF Caches
<1>2. \A q \in Requests : /\ Waits(q)' <=> Waits(q)
                          /\ Waits(q) => job'[q].pc = job[q].pc
                          /\ Runtime!Live(q)' => Runtime!Live(q)
  BY DEF Moves, Waits, Runtime!Live
<1>3. Waiting'
  <2>1. ASSUME NEW k \in DOMAIN tokenizer PROVE Waits(tokenizer[k])'
    BY <1>1, <1>2 DEF Waiting
  <2> QED
    BY <1>2, <2>1 DEF Waiting
<1>4. Behind'
  <2> SUFFICES ASSUME NEW q \in Requests, NEW s \in Requests, q < s, Waits(q)',
                      Runtime!Live(s)', crowd'[s] # "shared"
               PROVE  /\ job'[s].pc = "split"
                      /\ \A i, j \in DOMAIN tokenizer' :
                            tokenizer'[i] = q /\ tokenizer'[j] = s => i < j
    BY DEF Behind
  <2>1. job[s].pc = "split" /\ \A i, j \in DOMAIN tokenizer : tokenizer[i] = q /\ tokenizer[j] = s => i < j
    BY <1>2 DEF Behind
  <2> QED
    BY <1>2, <2>1 DEF Waits
<1> QED
  BY <1>3, <1>4

\* A request that is answered first has no earlier one waiting, unless it is shared.
LEMMA AnsweredFirst ==
  ASSUME Caches, Waiting, Behind, NEW r \in Requests, Runtime!Answered(r), Runtime!Live(r),
         NEW q \in Requests, q < r, Waits(q)
  PROVE  crowd[r] = "shared"
<1>1. 1 \in DOMAIN tokenizer /\ tokenizer[1] = r /\ DOMAIN tokenizer \subseteq Nat \ {0}
  BY DEF Caches, Runtime!Answered
<1>2. PICK i \in DOMAIN tokenizer : tokenizer[i] = q
  BY DEF Waiting
<1>3. ~(i < 1)
  BY <1>1
<1> QED
  BY <1>1, <1>2, <1>3 DEF Behind

\* Who is under way together, after any step of the synthesizer.
LEMMA CompanyStep ==
  ASSUME JobsInv, Caches, Company, NEW r \in Requests,
         Runtime!Synthesize(r) \/ Runtime!Cancel(r) \/ Runtime!Step(r)
  PROVE  Company'
<1> USE DEF Company
<1>1. Moves(r)
  BY StepTypes
<1>2. ASSUME Runtime!Cancel(r) \/ Runtime!Step(r)
      PROVE  Arrival' /\ Meet' /\ Runtime!Live(r) /\ UNCHANGED crowd
  BY <1>1, <1>2, StepLive, MeetStep
<1>3. CASE Runtime!Synthesize(r)
  <2>1. Arrival' /\ Meet'
    BY <1>3, MeetSynthesize
  <2>2. ~Waits(r) /\ Waits(r)' /\ job'[r].pc = "split" /\ job[r].pc = "none"
    BY <1>3, SynthesizeMoves DEF Runtime!Synthesize, Waits
  <2>3. \A q \in Requests : crowd[q] = "shared" => crowd'[q] = "shared"
    BY <1>3, SynthesizeCrowd
  <2>4. ASSUME NEW s \in Requests, r < s, Runtime!Live(s)' PROVE crowd'[s] = "shared"
    <3>1. s # r
      BY <2>4, MossAssumption
    <3>2. job[s].pc # "none"
      BY <1>1, <2>4, <3>1 DEF Moves, Runtime!Live, Runtime!Awaits
    <3> QED
      BY <2>2, <2>4, <3>2 DEF Arrival
  <2>5. tokenizer' = Append(tokenizer, r)
    BY <1>3 DEF Runtime!Synthesize
  <2> QED
    BY <1>1, <2>1, <2>2, <2>3, <2>4, <2>5, QueueAppend
<1>4. CASE Runtime!Cancel(r)
  <2>1. /\ Waits(r)' <=> Waits(r)
        /\ Waits(r) => job'[r].pc = job[r].pc
    <3>1. job[r] \in Jobs
      BY DEF JobsInv
    <3>2. CASE Runtime!AwaitsAck(r)
      <4>1. job'[r] = Runtime!Gone
        BY <1>4, <3>2 DEF Runtime!Cancel, JobsInv
      <4> QED
        BY <3>2, <4>1, EndedFine DEF Waits, Runtime!AwaitsAck
    <3>3. CASE ~Runtime!AwaitsAck(r)
      <4>1. job'[r].pc = job[r].pc
        BY <1>4, <3>1, <3>3 DEF Runtime!Cancel, JobsInv, Jobs
      <4> QED
        BY <4>1 DEF Waits
    <3> QED
      BY <3>2, <3>3
  <2>2. UNCHANGED tokenizer
    BY <1>4 DEF Runtime!Cancel
  <2> QED
    BY <1>1, <1>2, <1>4, <2>1, <2>2, QueueKept
<1>5. CASE Runtime!Split(r)
  <2>1. /\ Runtime!Answered(r) /\ Runtime!Forget(r) /\ ~Waits(r)'
    BY <1>5, SplitMoves DEF Runtime!Split, Waits
  <2>2. Arrival' /\ Meet' /\ Runtime!Live(r) /\ UNCHANGED crowd
    BY <1>2, <1>5 DEF Runtime!Step
  <2> QED
    BY <1>1, <2>1, <2>2, AnsweredFirst, QueueForget
<1>6. CASE Runtime!NextChunk(r)
  <2>1. Arrival' /\ Meet' /\ Runtime!Live(r) /\ UNCHANGED crowd /\ ~Waits(r) /\ job[r].pc = "between"
    BY <1>2, <1>6 DEF Runtime!Step, Runtime!NextChunk, Waits
  <2>2. CASE job[r].cancelled
    <3>1. UNCHANGED tokenizer /\ job'[r].pc = "gone"
      BY <1>6, <2>2, NextChunkMoves DEF Runtime!NextChunk
    <3> QED
      BY <1>1, <2>1, <3>1, QueueKept DEF Waits
  <2>3. CASE ~job[r].cancelled
    <3>1. tokenizer' = Append(tokenizer, r) /\ job'[r].pc = "encode" /\ Waits(r)'
      BY <1>6, <2>3, NextChunkMoves DEF Runtime!NextChunk, Waits
    <3>2. ASSUME NEW s \in Requests, r < s, Runtime!Live(s)' PROVE crowd'[s] = "shared"
      <4>1. s # r
        BY <3>2, MossAssumption
      <4>2. Runtime!Live(s)
        BY <1>1, <3>2, <4>1 DEF Moves, Runtime!Live
      <4> QED
        BY <2>1, <2>3, <3>2, <4>2 DEF Meet
    <3>3. ASSUME NEW q \in Requests, q < r, Waits(q), crowd'[r] # "shared"
          PROVE  job'[r].pc = "split"
      BY <2>1, <3>3 DEF Behind
    <3> QED
      BY <1>1, <2>1, <3>1, <3>2, <3>3, QueueAppend
  <2> QED
    BY <2>2, <2>3
<1>7. CASE Runtime!Begin(r)
  <2>1. /\ Runtime!Answered(r) /\ Runtime!Forget(r) /\ ~Waits(r)'
    BY <1>7, BeginMoves DEF Runtime!Begin, Waits
  <2>2. Arrival' /\ Meet' /\ Runtime!Live(r) /\ UNCHANGED crowd
    BY <1>2, <1>7 DEF Runtime!Step
  <2> QED
    BY <1>1, <2>1, <2>2, AnsweredFirst, QueueForget
<1>8. CASE Runtime!Throw(r)
  <2>1. /\ Runtime!Forget(r) /\ ~Waits(r)' /\ ~Runtime!Live(r)'
    BY <1>8, ThrowMoves DEF Runtime!Throw, Waits, Runtime!Live, Runtime!Awaits
  <2>2. Arrival' /\ Meet' /\ Runtime!Live(r) /\ UNCHANGED crowd
    BY <1>2, <1>8 DEF Runtime!Step
  <2> QED
    BY <1>1, <2>1, <2>2, QueueForget
<1>9. CASE Runtime!HalfFrame(r) \/ Runtime!Frame(r) \/ Runtime!Stops(r) \/ Runtime!Ack(r)
  <2>1. ~Waits(r) /\ ~Waits(r)'
    BY <1>9, HalfFrameMoves, FrameMoves, StopsMoves, AckMoves
    DEF Waits, Runtime!HalfFrame
  <2>2. UNCHANGED tokenizer
    BY <1>9 DEF Runtime!HalfFrame, Runtime!Frame, Runtime!Stops, Runtime!Ack
  <2>3. Arrival' /\ Meet' /\ Runtime!Live(r) /\ UNCHANGED crowd
    BY <1>2, <1>9 DEF Runtime!Step
  <2> QED
    BY <1>1, <2>1, <2>2, <2>3, QueueKept
<1> QED
  BY <1>3, <1>4, <1>5, <1>6, <1>7, <1>8, <1>9 DEF Runtime!Step

(***************************************************************************)
(* Own speech: what the caches hold.                                       *)
(***************************************************************************)
Speaking(r) == job[r].pc \in {"top", "mid", "ack"}

\* The caches hold the frames of a request that is not shared; the codec session, those
\* of one that is alone.
OwnOf(r) ==
    /\ crowd[r] # "shared" /\ ~job[r].cancelled =>
         /\ Speaking(r) => past = Runtime!UpTo(r, job[r].frames)
         /\ job[r].pc = "mid" => local = Runtime!UpTo(r, job[r].frames + 1)
    /\ crowd[r] = "alone" /\ Speaking(r) =>
         \/ codec = Runtime!UpTo(r, job[r].frames - job[r].pending)
         \/ codec = Runtime!Fresh /\ job[r].frames = job[r].pending

Own == \A r \in Requests : OwnOf(r)

\* A request that speaks is not alone when another one takes a step, and unless that one
\* is cancelled, and past its last answer of the tokenizer, it is cancelled or shared.
LEMMA Untouched ==
  ASSUME Company, NEW r \in Requests, NEW q \in Requests, q # r, Runtime!Live(r), Speaking(q)
  PROVE  /\ crowd[q] # "alone"
         /\ ~job[r].cancelled \/ Waits(r) => job[q].cancelled \/ crowd[q] = "shared"
<1>1. Runtime!Live(q) /\ job[q].pc # "split"
  BY DEF Speaking, Runtime!Live, Runtime!Awaits
<1>2. CASE q < r
  BY <1>1, <1>2 DEF Company, Meet
<1>3. CASE r < q
  BY <1>1, <1>3 DEF Company, Meet, Behind
<1>4. q < r \/ r < q
  BY MossAssumption
<1> QED
  BY <1>2, <1>3, <1>4

\* The others keep what is theirs.
LEMMA OwnOthers ==
  ASSUME JobsInv, Company, Own, NEW r \in Requests, Moves(r), Runtime!Live(r),
         UNCHANGED crowd, job[r].cancelled /\ ~Waits(r) => UNCHANGED <<past, local>>,
         NEW q \in Requests, q # r
  PROVE  OwnOf(q)'
<1>1. job'[q] = job[q] /\ crowd'[q] = crowd[q]
  BY DEF Moves
<1>2. \A k : Runtime!UpTo(q, k)' = Runtime!UpTo(q, k)
  BY <1>1 DEF Runtime!UpTo
<1>3. CASE ~Speaking(q)
  BY <1>1, <1>3 DEF OwnOf, Speaking
<1>4. CASE Speaking(q)
  <2>1. crowd'[q] # "alone"
    BY <1>1, <1>4, Untouched
  <2>2. CASE job[q].cancelled \/ crowd[q] = "shared"
    BY <1>1, <2>1, <2>2 DEF OwnOf
  <2>3. CASE ~(job[q].cancelled \/ crowd[q] = "shared")
    <3>1. UNCHANGED <<past, local>>
      BY <1>4, <2>3, Untouched, Zenon
    <3>2. OwnOf(q)
      BY DEF Own
    <3> QED
      BY <1>1, <1>2, <2>1, <3>1, <3>2 DEF OwnOf, Speaking
  <2> QED
    BY <2>2, <2>3
<1> QED
  BY <1>3, <1>4

\* The frames of a chunk are never taken for anything else.
LEMMA UpToIsNotMix ==
  ASSUME JobsInv, NEW r \in Requests, NEW k
  PROVE  Runtime!UpTo(r, k) # Runtime!Mix /\ Runtime!UpTo(r, k) # Runtime!Fresh
<1>1. job[r].chunk # 0
  BY JobNumbers DEF JobsInv
<1> QED
  BY <1>1 DEF Runtime!UpTo, Runtime!Mix, Runtime!Fresh

\* Audio of a request that is alone is made from its own frames.
LEMMA OwnAudio ==
  ASSUME JobsInv, NEW r \in Requests, OwnOf(r), Speaking(r), crowd[r] = "alone",
         NEW n \in Nat, Runtime!RunFrames(r, n)
  PROVE  /\ codec' = Runtime!UpTo(r, job[r].frames - job[r].pending + n)
         /\ blurred' = blurred
<1>1. /\ job[r].frames \in Nat /\ job[r].pending \in Nat /\ job[r].pending <= job[r].frames
  BY JobNumbers DEF JobsInv, Fine
<1>2. PICK f \in Nat : f = job[r].frames - job[r].pending + 1
  BY <1>1
<1>3. f - 1 = job[r].frames - job[r].pending /\ f + n - 1 = job[r].frames - job[r].pending + n
      /\ (job[r].frames = job[r].pending => f = 1)
  BY <1>1, <1>2
<1>4. codec' = Runtime!Add(codec, r, f, f + n - 1)
      /\ blurred' = IF codec' = Runtime!Mix THEN blurred \cup {r} ELSE blurred
  BY <1>2 DEF Runtime!RunFrames
<1>5. codec = Runtime!UpTo(r, f - 1) \/ (f = 1 /\ codec = Runtime!Fresh)
  BY <1>3 DEF OwnOf
<1>6. codec' = Runtime!UpTo(r, f + n - 1)
  BY <1>4, <1>5 DEF Runtime!Add
<1>7. codec' # Runtime!Mix
  BY <1>6, UpToIsNotMix
<1> QED
  BY <1>3, <1>4, <1>6, <1>7

SpeechInv == JobsInv /\ Caches /\ Company /\ Own /\ OwnSpeech

\* The own frames of the request that takes a step.
LEMMA OwnItself ==
  ASSUME SpeechInv, NEW r \in Requests, Runtime!Cancel(r) \/ Runtime!Step(r), Moves(r),
         UNCHANGED crowd
  PROVE  OwnOf(r)'
<1>1. /\ JobsInv /\ OwnOf(r) /\ job[r] \in Jobs /\ Fine(job[r])
      /\ job[r].frames \in Nat /\ job[r].pending \in Nat /\ job[r].pending <= job[r].frames
  BY JobNumbers DEF SpeechInv, JobsInv, Own, Fine
<1>2. ASSUME job'[r].chunk = job[r].chunk, NEW k
      PROVE  Runtime!UpTo(r, k)' = Runtime!UpTo(r, k)
  BY <1>2 DEF Runtime!UpTo
<1>3. CASE ~Speaking(r)'
  BY <1>3 DEF OwnOf, Speaking
<1>4. CASE Runtime!Cancel(r) /\ Speaking(r)'
  <2>1. /\ job'[r].pc = job[r].pc /\ job'[r].chunk = job[r].chunk
        /\ job'[r].frames = job[r].frames /\ job'[r].pending = job[r].pending
        /\ job'[r].cancelled
    BY <1>1, <1>4, CancelMoves DEF Speaking
  <2>2. UNCHANGED codec
    BY <1>4 DEF Runtime!Cancel, Runtime!cacheVars
  <2> QED
    BY <1>1, <1>2, <2>1, <2>2 DEF OwnOf, Speaking
<1>5. CASE Runtime!Begin(r)
  <2>1. /\ job'[r].pc = "top" /\ job'[r].frames = 0 /\ job'[r].pending = 0
        /\ job'[r].chunk = job[r].chunk
    BY <1>1, <1>5, BeginMoves
  <2>2. past' = Runtime!UpTo(r, 0) /\ codec' = Runtime!Fresh
    BY <1>5 DEF Runtime!Begin, Runtime!ResetCodec
  <2>3. past' = Runtime!UpTo(r, 0)'
    BY <1>2, <2>1, <2>2
  <2>4. Runtime!Fresh' = Runtime!Fresh
    BY DEF Runtime!Fresh
  <2> QED
    BY <2>1, <2>2, <2>3, <2>4 DEF OwnOf, Speaking
<1>6. CASE Runtime!HalfFrame(r)
  <2>1. /\ job'[r].pc = "mid" /\ job'[r].cancelled = job[r].cancelled
        /\ job'[r].frames = job[r].frames /\ job'[r].pending = job[r].pending
        /\ job'[r].chunk = job[r].chunk
    BY <1>1, <1>6, HalfFrameMoves
  <2>2. /\ job[r].pc = "top" /\ local' = Runtime!UpTo(r, job[r].frames + 1)
        /\ UNCHANGED <<past, codec>>
    BY <1>6 DEF Runtime!HalfFrame
  <2> QED
    BY <1>1, <1>2, <2>1, <2>2 DEF OwnOf, Speaking
<1>7. CASE Runtime!Frame(r)
  <2>1. /\ job[r].pc = "mid" /\ ~job[r].cancelled
        /\ job'[r].pc \in {"top", "ack"} /\ job'[r].chunk = job[r].chunk
        /\ job'[r].frames = job[r].frames + 1
    BY <1>1, <1>7, FrameMoves
  <2>2. PICK n \in 0 .. job[r].pending + 1 :
               /\ job'[r].pending = job[r].pending + 1 - n
               /\ IF n = 0 THEN UNCHANGED <<codec, blurred>> ELSE Runtime!RunFrames(r, n)
    BY <1>1, <1>7, FrameMoves
  <2>3. ASSUME crowd[r] # "shared" PROVE past' = Runtime!UpTo(r, job[r].frames + 1)
    <3>1. past = Runtime!UpTo(r, job[r].frames)
      BY <1>1, <2>1, <2>3 DEF OwnOf, Speaking
    <3>2. past' = Runtime!Add(past, r, job[r].frames + 1, job[r].frames + 1)
      BY <1>7 DEF Runtime!Frame
    <3> QED
      BY <1>1, <3>1, <3>2 DEF Runtime!Add, Runtime!UpTo
  <2>4. ASSUME crowd[r] = "alone"
        PROVE  \/ codec' = Runtime!UpTo(r, job'[r].frames - job'[r].pending)
               \/ codec' = Runtime!Fresh /\ job'[r].frames = job'[r].pending
    <3>1. CASE n = 0
      <4>1. /\ job'[r].frames - job'[r].pending = job[r].frames - job[r].pending
            /\ (job[r].frames = job[r].pending => job'[r].frames = job'[r].pending)
        BY <1>1, <2>1, <2>2, <3>1
      <4> QED
        BY <1>1, <2>1, <2>2, <2>4, <3>1, <4>1 DEF OwnOf, Speaking
    <3>2. CASE n # 0
      <4>1. n \in Nat /\ job'[r].frames - job'[r].pending = job[r].frames - job[r].pending + n
        BY <1>1, <2>1, <2>2
      <4>2. codec' = Runtime!UpTo(r, job[r].frames - job[r].pending + n)
        BY <1>1, <2>1, <2>2, <2>4, <3>2, <4>1, OwnAudio DEF Speaking
      <4> QED
        BY <4>1, <4>2
    <3> QED
      BY <3>1, <3>2
  <2> QED
    BY <1>2, <2>1, <2>3, <2>4 DEF OwnOf, Speaking, Runtime!Fresh
<1>8. CASE Runtime!Ack(r) /\ Speaking(r)'
  <2>1. /\ job[r].pc = "ack" /\ job'[r].pc = "top" /\ job'[r].chunk = job[r].chunk
        /\ job'[r].frames = job[r].frames /\ job'[r].pending = job[r].pending
        /\ ~job[r].cancelled
    BY <1>1, <1>8, AckMoves DEF Speaking
  <2>2. UNCHANGED <<past, codec>>
    BY <1>8 DEF Runtime!Ack, Runtime!cacheVars
  <2> QED
    BY <1>1, <1>2, <2>1, <2>2 DEF OwnOf, Speaking
<1>9. CASE Runtime!Split(r) \/ Runtime!NextChunk(r) \/ Runtime!Stops(r) \/ Runtime!Throw(r)
  <2>1. ~Speaking(r)'
    BY <1>1, <1>9, SplitMoves, NextChunkMoves, StopsMoves, ThrowMoves DEF Speaking
  <2> QED
    BY <1>3, <2>1
<1> QED
  BY <1>3, <1>4, <1>5, <1>6, <1>7, <1>8, <1>9 DEF Runtime!Step

\* A cancelled request changes what others compute from only when it begins a chunk.
LEMMA CancelledLeavesCaches ==
  ASSUME JobsInv, NEW r \in Requests, Runtime!Cancel(r) \/ Runtime!Step(r),
         job[r].cancelled, ~Waits(r)
  PROVE  UNCHANGED <<past, local>>
<1>1. ~Runtime!Cancel(r) /\ ~Runtime!Begin(r) /\ ~Runtime!HalfFrame(r) /\ ~Runtime!Split(r)
  BY DEF Runtime!Cancel, Runtime!Begin, Runtime!HalfFrame, Runtime!Split, Waits
<1>2. ~Runtime!Frame(r)
  BY FrameMoves
<1>3. CASE Runtime!NextChunk(r)
  BY <1>3 DEF Runtime!NextChunk, Runtime!cacheVars
<1>4. CASE Runtime!Stops(r)
  BY <1>4 DEF Runtime!Stops
<1>5. CASE Runtime!Ack(r)
  BY <1>5 DEF Runtime!Ack, Runtime!cacheVars
<1>6. CASE Runtime!Throw(r)
  BY <1>6 DEF Runtime!Throw, Runtime!cacheVars
<1> QED
  BY <1>1, <1>2, <1>3, <1>4, <1>5, <1>6 DEF Runtime!Step

\* A step adds no request to mixed or blurred that should not be there.
LEMMA OwnSpeechStep ==
  ASSUME SpeechInv, NEW r \in Requests, Runtime!Cancel(r) \/ Runtime!Step(r), UNCHANGED crowd
  PROVE  OwnSpeech'
<1>1. /\ JobsInv /\ Caches /\ OwnOf(r) /\ OwnSpeech
      /\ job[r].frames \in Nat /\ job[r].pending \in Nat
      /\ crowd[r] \in {"alone", "after", "shared"}
  BY JobNumbers DEF SpeechInv, JobsInv, Own, Caches
<1>2. SUFFICES /\ mixed' \in {mixed, mixed \cup {r}} /\ (mixed' # mixed => crowd[r] = "shared")
               /\ blurred' \in {blurred, blurred \cup {r}} /\ (blurred' # blurred => crowd[r] # "alone")
  BY <1>1 DEF OwnSpeech
<1>3. CASE Runtime!Frame(r)
  <2>1. job[r].pc = "mid" /\ ~job[r].cancelled /\ Speaking(r)
    BY <1>1, <1>3, FrameMoves DEF Speaking
  <2>2. mixed' \in {mixed, mixed \cup {r}} /\ (mixed' # mixed => crowd[r] = "shared")
    <3>1. CASE crowd[r] = "shared"
      BY <1>3, <3>1 DEF Runtime!Frame
    <3>2. CASE crowd[r] # "shared"
      <4>1. past = Runtime!UpTo(r, job[r].frames) /\ local = Runtime!UpTo(r, job[r].frames + 1)
        BY <1>1, <2>1, <3>2 DEF OwnOf
      <4>2. job[r].frames + 1 - 1 = job[r].frames
        BY <1>1
      <4>3. past = Runtime!UpTo(r, job[r].frames + 1 - 1)
        BY <4>1, <4>2, Zenon
      <4>4. mixed' = IF /\ local = Runtime!UpTo(r, job[r].frames + 1)
                        /\ past = Runtime!UpTo(r, job[r].frames + 1 - 1)
                     THEN mixed ELSE mixed \cup {r}
        BY <1>1, <1>3 DEF Runtime!Frame, Runtime!UpTo
      <4>5. mixed' = mixed
        BY <4>1, <4>3, <4>4
      <4> QED
        BY <4>5
    <3> QED
      BY <3>1, <3>2
  <2>3. PICK n \in 0 .. job[r].pending + 1 :
              IF n = 0 THEN UNCHANGED <<codec, blurred>> ELSE Runtime!RunFrames(r, n)
    BY <1>1, <1>3, FrameMoves
  <2>4. blurred' \in {blurred, blurred \cup {r}} /\ (blurred' # blurred => crowd[r] # "alone")
    <3>1. n \in Nat
      BY <1>1, <2>3
    <3>2. CASE n = 0
      BY <2>3, <3>2
    <3>3. CASE n # 0
      BY <1>1, <2>1, <2>3, <3>1, <3>3, OwnAudio DEF Runtime!RunFrames
    <3> QED
      BY <3>2, <3>3
  <2> QED
    BY <2>2, <2>4
<1>4. CASE Runtime!Stops(r)
  <2>1. Speaking(r) /\ mixed' = mixed
    BY <1>1, <1>4, StopsMoves DEF Speaking, Runtime!Stops
  <2>2. \/ UNCHANGED <<codec, blurred>>
        \/ Runtime!RunFrames(r, job[r].pending) /\ job[r].pending > 0
    BY <1>1, <1>4, StopsMoves
  <2>3. blurred' \in {blurred, blurred \cup {r}} /\ (blurred' # blurred => crowd[r] # "alone")
    BY <1>1, <2>1, <2>2, OwnAudio DEF Runtime!RunFrames
  <2> QED
    BY <2>1, <2>3
<1>5. CASE Runtime!Cancel(r)
  BY <1>5 DEF Runtime!Cancel, Runtime!audioVars
<1>6. CASE Runtime!Split(r)
  BY <1>6 DEF Runtime!Split, Runtime!audioVars
<1>7. CASE Runtime!NextChunk(r)
  BY <1>7 DEF Runtime!NextChunk, Runtime!audioVars
<1>8. CASE Runtime!Begin(r)
  BY <1>8 DEF Runtime!Begin, Runtime!audioVars
<1>9. CASE Runtime!HalfFrame(r)
  BY <1>9 DEF Runtime!HalfFrame, Runtime!audioVars
<1>10. CASE Runtime!Ack(r)
  BY <1>10 DEF Runtime!Ack, Runtime!audioVars
<1>11. CASE Runtime!Throw(r)
  BY <1>11 DEF Runtime!Throw, Runtime!audioVars
<1> QED
  BY <1>3, <1>4, <1>5, <1>6, <1>7, <1>8, <1>9, <1>10, <1>11 DEF Runtime!Step

\* The arrival of a request changes nothing that is computed from.
LEMMA ArrivalStep ==
  ASSUME SpeechInv, NEW r \in Requests, Runtime!Synthesize(r)
  PROVE  Own' /\ OwnSpeech'
<1>1. /\ JobsInv /\ Caches /\ Own /\ OwnSpeech
  BY DEF SpeechInv
<1>2. /\ job'[r].pc = "split" /\ \A q \in Requests : q # r => job'[q] = job[q]
      /\ UNCHANGED <<past, local, codec, mixed, blurred>>
  BY <1>1, SynthesizeMoves DEF Moves, Runtime!Synthesize, Runtime!cacheVars, Runtime!audioVars
<1>3. \A q \in Requests : /\ crowd[q] = "shared" => crowd'[q] = "shared"
                          /\ crowd[q] # "alone" => crowd'[q] # "alone"
  BY <1>1, SynthesizeCrowd
<1>4. ASSUME NEW q \in Requests PROVE OwnOf(q)'
  <2>1. CASE q = r
    BY <1>2, <2>1 DEF OwnOf, Speaking
  <2>2. CASE q # r
    <3>1. job'[q] = job[q] /\ OwnOf(q)
      BY <1>1, <1>2, <2>2 DEF Own
    <3>2. \A k : Runtime!UpTo(q, k)' = Runtime!UpTo(q, k)
      BY <3>1 DEF Runtime!UpTo
    <3> QED
      BY <1>2, <1>3, <3>1, <3>2 DEF OwnOf, Speaking
  <2> QED
    BY <2>1, <2>2
<1>5. OwnSpeech'
  BY <1>1, <1>2, <1>3 DEF OwnSpeech
<1> QED
  BY <1>4, <1>5 DEF Own

\* The frames of a request that meets none but cancelled ones, and the audio of one that
\* meets none at all, come from its own text and frames, for any number of requests,
\* chunks and frames (generateAudioFrames, codecStreamingSession.reset).
THEOREM OwnSpeechHolds == Spec => []OwnSpeech
<1>1. Init => SpeechInv
  <2> SUFFICES ASSUME Init PROVE SpeechInv
    OBVIOUS
  <2>1. JobsInv /\ (\A r \in Requests : job[r].pc = "none")
    BY EndedFine DEF Init, Runtime!Init, JobsInv, Runtime!Idle
  <2>2. Caches
    BY DEF Init, Runtime!Init, Caches, Histories
  <2>3. tokenizer = <<>> /\ mixed = {} /\ blurred = {}
    BY DEF Init, Runtime!Init
  <2>4. Company
    BY <2>1, <2>3 DEF Company, Waiting, Arrival, Meet, Behind, Waits, Runtime!Live, Runtime!Awaits
  <2>5. Own
    BY <2>1 DEF Own, OwnOf, Speaking
  <2> QED
    BY <2>1, <2>2, <2>3, <2>4, <2>5 DEF SpeechInv, OwnSpeech
<1>2. SpeechInv /\ [Next]_vars => SpeechInv'
  <2> SUFFICES ASSUME SpeechInv, [Next]_vars PROVE SpeechInv'
    OBVIOUS
  <2>1. CASE UNCHANGED runtimeVars
    BY <2>1 DEF runtimeVars, SpeechInv, JobsInv, Fine, Caches, Company, Waiting, Arrival, Meet,
                Behind, Waits, Own, OwnOf, Speaking, OwnSpeech, Runtime!Live, Runtime!UpTo
  <2>2. CASE Runtime!Next
    <3>1. PICK r \in Requests : Runtime!Synthesize(r) \/ Runtime!Cancel(r) \/ Runtime!Step(r)
      BY <2>2 DEF Runtime!Next
    <3>2. Moves(r) /\ JobsInv' /\ Caches' /\ Company'
      BY <3>1, StepTypes, MovesInv, CompanyStep DEF SpeechInv
    <3>3. Own' /\ OwnSpeech'
      <4>1. CASE Runtime!Synthesize(r)
        BY <4>1, ArrivalStep
      <4>2. CASE Runtime!Cancel(r) \/ Runtime!Step(r)
        <5>1. Runtime!Live(r) /\ UNCHANGED crowd
          BY <4>2, StepLive
        <5>2. job[r].cancelled /\ ~Waits(r) => UNCHANGED <<past, local>>
          BY <4>2, CancelledLeavesCaches DEF SpeechInv
        <5>3. ASSUME NEW q \in Requests PROVE OwnOf(q)'
          <6>1. CASE q = r
            BY <3>2, <4>2, <5>1, <6>1, OwnItself
          <6>2. CASE q # r
            BY <3>2, <5>1, <5>2, <6>2, OwnOthers DEF SpeechInv
          <6> QED
            BY <6>1, <6>2
        <5>4. OwnSpeech'
          BY <4>2, <5>1, OwnSpeechStep
        <5> QED
          BY <5>3, <5>4 DEF Own
      <4> QED
        BY <3>1, <4>1, <4>2
    <3> QED
      BY <3>2, <3>3 DEF SpeechInv
  <2> QED
    BY <2>1, <2>2 DEF Next, vars
<1>3. SpeechInv => OwnSpeech
  BY DEF SpeechInv
<1> QED
  BY <1>1, <1>2, <1>3, PTL DEF Spec
=============================================================================
