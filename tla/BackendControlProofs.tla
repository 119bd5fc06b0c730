------------------------- MODULE BackendControlProofs -------------------------
(***************************************************************************)
(* Theorems about BackendControl for any number of backends, handlers and  *)
(* process ids: the generation gate and the agreement of the gateway with  *)
(* the selection file, whatever requests occur; when no visual turn        *)
(* occurs, that switches leave at most one model process, and a known one; *)
(* and when no switch occurs, that a visual turn has the memory to itself. *)
(***************************************************************************)
EXTENDS BackendControl, FiniteSetTheorems, TLAPS

(***************************************************************************)
(* The threads.                                                            *)
(***************************************************************************)
Sub == {"stop", "kill", "start", "record"}

\* Where a thread is in its own code: a subroutine is part of the step it returns to.
Place(x) == IF thread[x].pc \in Sub THEN thread[x].ret ELSE thread[x].pc

\* A switch holds the selection slot, or the lock.
OnSlot == {"rename", "started", "wait", "poll", "commit", "restore", "maystart", "clear"}
OnLock == {"virtual", "restart", "restarted", "unlock"}
Critical(x) == Place(x) \in OnSlot \cup OnLock

Stopping == {"rename", "virtual", "restart", "restore", "session", "close", "exit"}
Starting == {"unlock", "restarted", "started", "clear", "ungate"}

Pcs == Sub \cup OnSlot \cup OnLock \cup
       {"idle", "check", "differs", "claim", "lock", "probe", "enter", "generate", "gate",
        "pause", "session", "analyze", "release", "ungate", "quit", "close", "exit"}

ThreadStates ==
    [pc : Pcs, op : Requests \cup {"none", "watch"}, name : Backends \cup {Molmo, None},
     prev : Backends \cup {Molmo, None}, pid : Pids \cup {None},
     ret : Stopping \cup Starting \cup {"none"}, ok : BOOLEAN, paused : BOOLEAN]

\* What the place of a thread says about its local state.
Placed(x) ==
    /\ thread[x].pc \in {"stop", "kill"} => thread[x].ret \in Stopping
    /\ thread[x].pc \in {"start", "record"} => thread[x].ret \in Starting
    /\ thread[x].op \in {"select", "watch"} => thread[x].name \in Backends
    /\ thread[x].pc = "check" => thread[x].op \in {"select", "virtual", "runtime"}
    /\ thread[x].pc = "differs" => thread[x].op \in {"select", "virtual"}
    /\ Place(x) \in {"claim", "rename", "started", "wait", "poll", "commit"} =>
          thread[x].op \in {"select", "watch"}
    /\ Critical(x) => thread[x].prev \in Backends \cup {Molmo}

ThreadsOK ==
    /\ thread \in [Threads -> ThreadStates]
    /\ \A x \in Threads : Placed(x)

(***************************************************************************)
(* What a step does to the threads.                                        *)
(***************************************************************************)
\* A step of thread x leaves the local states of the others alone.
Goes(x) ==
    /\ thread' \in [Threads -> ThreadStates]
    /\ \A y \in Threads : y # x => thread'[y] = thread[y]

\* The fields that a step of x leaves alone, except the ones named.
Keeps(x) == /\ thread'[x].op = thread[x].op /\ thread'[x].name = thread[x].name
            /\ thread'[x].paused = thread[x].paused

LEMMA IdleState == /\ Idle \in ThreadStates /\ Idle.pc = "idle" /\ Idle.op = "none" /\ Idle.name = None
                   /\ Idle.prev = None /\ Idle.pid = None /\ Idle.ret = "none"
                   /\ Idle.ok = FALSE /\ Idle.paused = FALSE
  BY DEF Idle, ThreadStates, Pcs

\* One local state is replaced.
LEMMA Updated ==
  ASSUME ThreadsOK, NEW x \in Threads, NEW t \in ThreadStates, thread' = [thread EXCEPT ![x] = t]
  PROVE  Goes(x) /\ thread'[x] = t
  BY DEF ThreadsOK, Goes

\* The others stay where they are.
LEMMA OthersStay ==
  ASSUME ThreadsOK, NEW x \in Threads, Goes(x), NEW y \in Threads, y # x
  PROVE  /\ thread'[y] = thread[y] /\ Place(y)' = Place(y) /\ (Critical(y)' <=> Critical(y))
         /\ Placed(y)'
<1>1. thread'[y] = thread[y] /\ Placed(y)
  BY DEF Goes, ThreadsOK
<1>2. Place(y)' = Place(y)
  BY <1>1 DEF Place
<1>3. Critical(y)' <=> Critical(y)
  BY <1>2 DEF Critical
<1> QED
  BY <1>1, <1>2, <1>3 DEF Placed

LEMMA OthersPlaced ==
  ASSUME ThreadsOK, NEW x \in Threads, Goes(x), Placed(x)'
  PROVE  ThreadsOK'
<1>1. ASSUME NEW y \in Threads PROVE Placed(y)'
  BY OthersStay
<1> QED
  BY <1>1 DEF ThreadsOK, Goes

LEMMA GotoEffect ==
  ASSUME ThreadsOK, NEW x \in Threads, NEW pc \in Pcs, Goto(x, pc)
  PROVE  /\ Goes(x) /\ Keeps(x) /\ thread'[x].pc = pc /\ thread'[x].prev = thread[x].prev
         /\ thread'[x].pid = thread[x].pid /\ thread'[x].ret = thread[x].ret
         /\ thread'[x].ok = thread[x].ok
<1>1. thread[x] \in ThreadStates
  BY DEF ThreadsOK
<1> DEFINE t == [thread[x] EXCEPT !.pc = pc]
<1>2. thread' = [thread EXCEPT ![x] = t]
  BY <1>1 DEF Goto, ThreadsOK
<1>3. /\ t \in ThreadStates /\ t.pc = pc /\ t.op = thread[x].op /\ t.name = thread[x].name
      /\ t.prev = thread[x].prev /\ t.pid = thread[x].pid /\ t.ret = thread[x].ret
      /\ t.ok = thread[x].ok /\ t.paused = thread[x].paused
  BY <1>1 DEF ThreadStates
<1> HIDE DEF t
<1>4. Goes(x) /\ thread'[x] = t
  BY <1>2, <1>3, Updated
<1> QED
  BY <1>3, <1>4 DEF Keeps

LEMMA CallEffect ==
  ASSUME ThreadsOK, NEW x \in Threads, NEW sub \in Sub, NEW ret \in Stopping \cup Starting,
         Call(x, sub, ret)
  PROVE  /\ Goes(x) /\ Keeps(x) /\ thread'[x].pc = sub /\ thread'[x].ret = ret
         /\ thread'[x].prev = thread[x].prev /\ thread'[x].pid = thread[x].pid
         /\ thread'[x].ok = thread[x].ok
<1>1. thread[x] \in ThreadStates
  BY DEF ThreadsOK
<1> DEFINE t == [thread[x] EXCEPT !.pc = sub, !.ret = ret]
<1>2. thread' = [thread EXCEPT ![x] = t]
  BY <1>1 DEF Call, ThreadsOK
<1>3. /\ t \in ThreadStates /\ t.pc = sub /\ t.op = thread[x].op /\ t.name = thread[x].name
      /\ t.prev = thread[x].prev /\ t.pid = thread[x].pid /\ t.ret = ret
      /\ t.ok = thread[x].ok /\ t.paused = thread[x].paused
  <2>1. sub \in Pcs /\ ret \in Stopping \cup Starting \cup {"none"}
    BY DEF Pcs
  <2> QED
    BY <1>1, <2>1 DEF ThreadStates
<1> HIDE DEF t
<1>4. Goes(x) /\ thread'[x] = t
  BY <1>2, <1>3, Updated
<1> QED
  BY <1>3, <1>4 DEF Keeps

LEMMA ReturnEffect ==
  ASSUME ThreadsOK, NEW x \in Threads, Return(x)
  PROVE  Goes(x) /\ thread'[x] = Idle
  BY IdleState, Updated DEF Return

\* A switch begins: what was is noted, and the old model is stopped.
LEMMA BeginEffect ==
  ASSUME ThreadsOK, NEW x \in Threads, NEW ret \in Stopping, backend \in Backends \cup {Molmo},
         thread' = [thread EXCEPT ![x].prev = backend, ![x].pc = "stop", ![x].ret = ret]
  PROVE  /\ Goes(x) /\ Keeps(x) /\ thread'[x].pc = "stop" /\ thread'[x].ret = ret
         /\ thread'[x].prev = backend /\ thread'[x].pid = thread[x].pid
         /\ thread'[x].ok = thread[x].ok
<1>1. thread[x] \in ThreadStates
  BY DEF ThreadsOK
<1> DEFINE t == [thread[x] EXCEPT !.prev = backend, !.pc = "stop", !.ret = ret]
<1>2. thread' = [thread EXCEPT ![x] = t]
  BY <1>1 DEF ThreadsOK
<1>3. /\ t \in ThreadStates /\ t.pc = "stop" /\ t.op = thread[x].op /\ t.name = thread[x].name
      /\ t.prev = backend /\ t.pid = thread[x].pid /\ t.ret = ret
      /\ t.ok = thread[x].ok /\ t.paused = thread[x].paused
  BY <1>1 DEF ThreadStates, Pcs, Sub
<1> HIDE DEF t
<1>4. Goes(x) /\ thread'[x] = t
  BY <1>2, <1>3, Updated
<1> QED
  BY <1>3, <1>4 DEF Keeps

\* backend_stop has taken the pid.
LEMMA StopEffect ==
  ASSUME ThreadsOK, NEW x \in Threads, thread[x].pc = "stop", TypeOK,
         thread' = [thread EXCEPT ![x].pid = backendPid,
                                   ![x].pc = IF backendPid = None THEN thread[x].ret ELSE "kill"]
  PROVE  /\ Goes(x) /\ Keeps(x)
         /\ thread'[x].pc = (IF backendPid = None THEN thread[x].ret ELSE "kill")
         /\ thread'[x].prev = thread[x].prev /\ thread'[x].pid = backendPid
         /\ thread'[x].ret = thread[x].ret /\ thread'[x].ok = thread[x].ok
<1>1. thread[x] \in ThreadStates /\ Placed(x)
  BY DEF ThreadsOK
<1>2. backendPid \in Pids \cup {None} /\ (IF backendPid = None THEN thread[x].ret ELSE "kill") \in Pcs
  BY <1>1 DEF Placed, Pcs, Sub, OnSlot, OnLock, Stopping, Starting, TypeOK
<1> DEFINE t == [thread[x] EXCEPT !.pid = backendPid,
                                    !.pc = IF backendPid = None THEN thread[x].ret ELSE "kill"]
<1>3. thread' = [thread EXCEPT ![x] = t]
  BY <1>1 DEF ThreadsOK
<1>4. /\ t \in ThreadStates
      /\ t.pc = (IF backendPid = None THEN thread[x].ret ELSE "kill") /\ t.op = thread[x].op
      /\ t.name = thread[x].name /\ t.prev = thread[x].prev /\ t.pid = backendPid
      /\ t.ret = thread[x].ret /\ t.ok = thread[x].ok /\ t.paused = thread[x].paused
  BY <1>1, <1>2 DEF ThreadStates
<1> HIDE DEF t
<1>5. Goes(x) /\ thread'[x] = t
  BY <1>3, <1>4, Updated
<1> QED
  BY <1>4, <1>5 DEF Keeps

\* backend_stop returns.
LEMMA KillEffect ==
  ASSUME ThreadsOK, NEW x \in Threads, thread[x].pc = "kill",
         thread' = [thread EXCEPT ![x].pc = thread[x].ret, ![x].pid = None]
  PROVE  /\ Goes(x) /\ Keeps(x)
         /\ thread'[x].pc = thread[x].ret /\ thread'[x].prev = thread[x].prev
         /\ thread'[x].pid = None /\ thread'[x].ret = thread[x].ret
         /\ thread'[x].ok = thread[x].ok
<1>1. thread[x] \in ThreadStates /\ Placed(x)
  BY DEF ThreadsOK
<1>2. thread[x].ret \in Pcs
  BY <1>1 DEF Placed, Pcs, Sub, OnSlot, OnLock, Stopping, Starting, TypeOK
<1> DEFINE t == [thread[x] EXCEPT !.pc = thread[x].ret, !.pid = None]
<1>3. thread' = [thread EXCEPT ![x] = t]
  BY <1>1 DEF ThreadsOK
<1>4. /\ t \in ThreadStates
      /\ t.pc = thread[x].ret /\ t.op = thread[x].op /\ t.name = thread[x].name
      /\ t.prev = thread[x].prev /\ t.pid = None /\ t.ret = thread[x].ret
      /\ t.ok = thread[x].ok /\ t.paused = thread[x].paused
  BY <1>1, <1>2 DEF ThreadStates
<1> HIDE DEF t
<1>5. Goes(x) /\ thread'[x] = t
  BY <1>3, <1>4, Updated
<1> QED
  BY <1>4, <1>5 DEF Keeps

\* backend_start returns without a child.
LEMMA StartEffect ==
  ASSUME ThreadsOK, NEW x \in Threads, thread[x].pc = "start", NEW b \in BOOLEAN,
         thread' = [thread EXCEPT ![x].pc = thread[x].ret, ![x].ok = b]
  PROVE  /\ Goes(x) /\ Keeps(x)
         /\ thread'[x].pc = thread[x].ret /\ thread'[x].prev = thread[x].prev
         /\ thread'[x].pid = thread[x].pid /\ thread'[x].ret = thread[x].ret
         /\ thread'[x].ok = b
<1>1. thread[x] \in ThreadStates /\ Placed(x)
  BY DEF ThreadsOK
<1>2. thread[x].ret \in Pcs
  BY <1>1 DEF Placed, Pcs, Sub, OnSlot, OnLock, Stopping, Starting, TypeOK
<1> DEFINE t == [thread[x] EXCEPT !.pc = thread[x].ret, !.ok = b]
<1>3. thread' = [thread EXCEPT ![x] = t]
  BY <1>1 DEF ThreadsOK
<1>4. /\ t \in ThreadStates
      /\ t.pc = thread[x].ret /\ t.op = thread[x].op /\ t.name = thread[x].name
      /\ t.prev = thread[x].prev /\ t.pid = thread[x].pid /\ t.ret = thread[x].ret
      /\ t.ok = b /\ t.paused = thread[x].paused
  BY <1>1, <1>2 DEF ThreadStates
<1> HIDE DEF t
<1>5. Goes(x) /\ thread'[x] = t
  BY <1>3, <1>4, Updated
<1> QED
  BY <1>4, <1>5 DEF Keeps

\* backend_start has forked.
LEMMA ForkEffect ==
  ASSUME ThreadsOK, NEW x \in Threads, thread[x].pc = "start", NEW p \in Pids,
         thread' = [thread EXCEPT ![x].pc = "record", ![x].pid = p]
  PROVE  /\ Goes(x) /\ Keeps(x)
         /\ thread'[x].pc = "record" /\ thread'[x].prev = thread[x].prev /\ thread'[x].pid = p
         /\ thread'[x].ret = thread[x].ret /\ thread'[x].ok = thread[x].ok
<1>1. thread[x] \in ThreadStates /\ Placed(x)
  BY DEF ThreadsOK
<1>2. "record" \in Pcs
  BY <1>1 DEF Placed, Pcs, Sub, OnSlot, OnLock, Stopping, Starting, TypeOK
<1> DEFINE t == [thread[x] EXCEPT !.pc = "record", !.pid = p]
<1>3. thread' = [thread EXCEPT ![x] = t]
  BY <1>1 DEF ThreadsOK
<1>4. /\ t \in ThreadStates
      /\ t.pc = "record" /\ t.op = thread[x].op /\ t.name = thread[x].name
      /\ t.prev = thread[x].prev /\ t.pid = p /\ t.ret = thread[x].ret /\ t.ok = thread[x].ok
      /\ t.paused = thread[x].paused
  BY <1>1, <1>2 DEF ThreadStates
<1> HIDE DEF t
<1>5. Goes(x) /\ thread'[x] = t
  BY <1>3, <1>4, Updated
<1> QED
  BY <1>4, <1>5 DEF Keeps

\* backend_start returns.
LEMMA RecordEffect ==
  ASSUME ThreadsOK, NEW x \in Threads, thread[x].pc = "record",
         thread' = [thread EXCEPT ![x].pc = thread[x].ret, ![x].ok = TRUE, ![x].pid = None]
  PROVE  /\ Goes(x) /\ Keeps(x)
         /\ thread'[x].pc = thread[x].ret /\ thread'[x].prev = thread[x].prev
         /\ thread'[x].pid = None /\ thread'[x].ret = thread[x].ret /\ thread'[x].ok = TRUE
<1>1. thread[x] \in ThreadStates /\ Placed(x)
  BY DEF ThreadsOK
<1>2. thread[x].ret \in Pcs
  BY <1>1 DEF Placed, Pcs, Sub, OnSlot, OnLock, Stopping, Starting, TypeOK
<1> DEFINE t == [thread[x] EXCEPT !.pc = thread[x].ret, !.ok = TRUE, !.pid = None]
<1>3. thread' = [thread EXCEPT ![x] = t]
  BY <1>1 DEF ThreadsOK
<1>4. /\ t \in ThreadStates
      /\ t.pc = thread[x].ret /\ t.op = thread[x].op /\ t.name = thread[x].name
      /\ t.prev = thread[x].prev /\ t.pid = None /\ t.ret = thread[x].ret /\ t.ok = TRUE
      /\ t.paused = thread[x].paused
  BY <1>1, <1>2 DEF ThreadStates
<1> HIDE DEF t
<1>5. Goes(x) /\ thread'[x] = t
  BY <1>3, <1>4, Updated
<1> QED
  BY <1>4, <1>5 DEF Keeps

(***************************************************************************)
(* Every step leaves the threads in order.                                 *)
(***************************************************************************)
\* A step of x that is not the beginning or the end of a generation.
Quiet(x) == Goes(x) /\ Placed(x)' /\ thread[x].pc # "generate" /\ thread'[x].pc # "generate"

\* A subroutine is part of the step it returns to.
LEMMA SubThreads ==
  ASSUME TypeOK, ThreadsOK, NEW x \in Threads, Subroutine(x)
  PROVE  Quiet(x) /\ Place(x)' = Place(x) /\ thread[x].pc \in Sub /\ Keeps(x)
         /\ thread'[x].prev = thread[x].prev
<1> USE DEF Quiet
<1>1. thread[x] \in ThreadStates /\ Placed(x)
  BY DEF ThreadsOK
<1>2. SUFFICES /\ Goes(x) /\ Keeps(x) /\ thread[x].pc \in Sub
               /\ thread'[x].prev = thread[x].prev /\ thread'[x].ret = thread[x].ret
               /\ thread'[x].pc \in {thread[x].ret, "kill", "record"}
               /\ thread'[x].pc = "kill" => thread[x].pc = "stop"
               /\ thread'[x].pc = "record" => thread[x].pc = "start"
  <2>1. thread[x].ret \notin Sub /\ thread[x].ret \notin {"generate", "check", "differs", "claim"}
    BY <1>1, <1>2 DEF Placed, Sub, Stopping, Starting
  <2>2. Place(x)' = Place(x) /\ Place(x) = thread[x].ret
    BY <1>2, <2>1 DEF Place, Sub
  <2>3. Critical(x)' <=> Critical(x)
    BY <2>2 DEF Critical
  <2>4. Placed(x)'
    BY <1>1, <1>2, <2>1, <2>2, <2>3 DEF Placed, Keeps, Sub
  <2> QED
    BY <1>2, <2>1, <2>2, <2>4 DEF Sub
<1>0. thread[x].pc \in Sub => thread[x].ret \notin Sub
  BY <1>1 DEF Placed, Sub, Stopping, Starting
<1>3. CASE Stop(x)
  <2>1. thread[x].pc = "stop"
    BY <1>3 DEF Stop, At
  <2>2. thread' = [thread EXCEPT ![x].pid = backendPid,
                                 ![x].pc = IF backendPid = None THEN thread[x].ret ELSE "kill"]
    BY <1>3 DEF Stop
  <2>3. /\ Goes(x) /\ Keeps(x) /\ thread'[x].prev = thread[x].prev /\ thread'[x].ret = thread[x].ret
        /\ thread'[x].pc \in {thread[x].ret, "kill"}
    BY <2>1, <2>2, StopEffect
  <2> QED
    BY <1>0, <2>1, <2>3 DEF Sub
<1>4. CASE Kill(x)
  BY <1>0, <1>4, KillEffect DEF Kill, At, Sub
<1>5. CASE Start(x)
  <2>1. thread[x].pc = "start"
    BY <1>5 DEF Start, At
  <2>2. CASE \E b \in BOOLEAN : thread' = [thread EXCEPT ![x].pc = thread[x].ret, ![x].ok = b]
    BY <1>0, <2>1, <2>2, StartEffect DEF Sub
  <2>3. CASE \E p \in Pids : thread' = [thread EXCEPT ![x].pc = "record", ![x].pid = p]
    BY <2>1, <2>3, ForkEffect DEF Sub
  <2> QED
    BY <1>5, <2>2, <2>3 DEF Start, Forkable
<1>6. CASE Record(x)
  BY <1>0, <1>6, RecordEffect DEF Record, At, Sub
<1> QED
  BY <1>3, <1>4, <1>5, <1>6 DEF Subroutine

\* A thread that only moves to another place of its code, or returns.
LEMMA GotoQuiet ==
  ASSUME ThreadsOK, NEW x \in Threads, NEW pc \in Pcs \ (Sub \cup {"generate"}), Goto(x, pc),
         thread[x].pc # "generate",
         pc = "check" => thread[x].op \in {"select", "virtual", "runtime"},
         pc = "differs" => thread[x].op \in {"select", "virtual"},
         pc \in {"claim", "rename", "started", "wait", "poll", "commit"} => thread[x].op \in {"select", "watch"},
         pc \in OnSlot \cup OnLock => Critical(x)
  PROVE  Quiet(x) /\ Place(x)' = pc /\ Keeps(x) /\ thread'[x].prev = thread[x].prev
         /\ thread'[x].pc = pc /\ thread'[x].ok = thread[x].ok /\ thread'[x].pid = thread[x].pid
<1>1. /\ Goes(x) /\ Keeps(x) /\ thread'[x].pc = pc /\ thread'[x].prev = thread[x].prev
      /\ thread'[x].ok = thread[x].ok /\ thread'[x].pid = thread[x].pid
  BY GotoEffect
<1>2. Place(x)' = pc
  BY <1>1 DEF Place
<1>3. Placed(x)
  BY DEF ThreadsOK
<1>4. Placed(x)'
  BY <1>1, <1>2, <1>3 DEF Placed, Keeps, Critical, Sub
<1> QED
  BY <1>1, <1>2, <1>4 DEF Quiet

LEMMA CallQuiet ==
  ASSUME ThreadsOK, NEW x \in Threads, NEW sub \in {"stop", "start"}, NEW ret, Call(x, sub, ret),
         IF sub = "stop" THEN ret \in Stopping ELSE ret \in Starting,
         thread[x].pc # "generate",
         ret \in {"rename", "started"} => thread[x].op \in {"select", "watch"},
         ret \in OnSlot \cup OnLock => Critical(x)
  PROVE  Quiet(x) /\ Place(x)' = ret /\ Keeps(x) /\ thread'[x].prev = thread[x].prev
         /\ thread'[x].pc = sub /\ thread'[x].ok = thread[x].ok /\ thread'[x].pid = thread[x].pid
<1>1. /\ Goes(x) /\ Keeps(x) /\ thread'[x].pc = sub /\ thread'[x].prev = thread[x].prev
      /\ thread'[x].ret = ret
      /\ thread'[x].ok = thread[x].ok /\ thread'[x].pid = thread[x].pid
  BY CallEffect DEF Sub
<1>2. Place(x)' = ret
  BY <1>1 DEF Place, Sub
<1>3. Placed(x)
  BY DEF ThreadsOK
<1>4. ret \notin {"claim", "wait", "poll", "commit"}
  BY DEF Stopping, Starting
<1>5. Placed(x)'
  BY <1>1, <1>2, <1>3, <1>4 DEF Placed, Keeps, Critical
<1> QED
  BY <1>1, <1>2, <1>5 DEF Quiet

LEMMA IdlePlaced ==
  ASSUME NEW x \in Threads, thread[x] = Idle
  PROVE  Placed(x) /\ Place(x) = "idle" /\ ~Critical(x)
<1>1. Place(x) = "idle"
  BY IdleState DEF Place, Sub
<1> QED
  BY <1>1, IdleState DEF Placed, Critical, OnSlot, OnLock

LEMMA ReturnQuiet ==
  ASSUME ThreadsOK, NEW x \in Threads, Return(x)
  PROVE  Goes(x) /\ Placed(x)' /\ Place(x)' = "idle" /\ thread'[x] = Idle
         /\ thread'[x].pc = "idle" /\ (thread[x].pc # "generate" => Quiet(x))
<1>1. Goes(x) /\ thread'[x] = Idle
  BY ReturnEffect
<1>2. Place(x)' = "idle"
  BY <1>1, IdleState DEF Place, Sub
<1>3. Placed(x)'
  BY <1>1, <1>2, IdleState DEF Placed, Critical, OnSlot, OnLock
<1> QED
  BY <1>1, <1>2, <1>3, IdleState DEF Quiet

\* A thread outside the subroutines is where its pc says.
LEMMA PcPlace ==
  ASSUME NEW x \in Threads, thread[x].pc \notin Sub
  PROVE  Place(x) = thread[x].pc
  BY DEF Place

Plain == {"idle", "check", "differs", "claim", "lock", "probe", "enter", "generate", "gate",
          "pause", "session", "analyze", "release", "ungate", "quit", "close", "exit"}

LEMMA PlainPlace ==
  ASSUME NEW x
  PROVE  Place(x) \in Plain => ~Critical(x)
  BY DEF Plain, Critical, OnSlot, OnLock

\* The requests that change the resident chat model.
Switches == {"select", "virtual", "runtime"}

\* The request handlers outside switches: what they do to their thread.
LEMMA ReceiveStep ==
  ASSUME TypeOK, ThreadsOK, NEW h \in Handlers, Receive(h)
  PROVE  /\ Quiet(h) /\ Place(h) = "idle" /\ Place(h)' \in {"check", "gate", "probe", "quit"}
         /\ Place(h)' = "gate" => "vision" \in Enabled
         /\ Place(h)' = "check" => Enabled \cap Switches # {}
         /\ gateway = "up" /\ ~thread'[h].paused
<1>1. h \in Threads /\ thread[h] = Idle /\ gateway = "up"
  BY DEF Receive, Threads
<1>2. PICK op \in Enabled \cap Requests : \E n \in Backends \cup {Molmo, None} :
          /\ (n \in Backends) = (op = "select")
          /\ thread' = [thread EXCEPT ![h] = [Idle EXCEPT !.pc = FirstStep(op), !.op = op, !.name = n]]
  BY DEF Receive
<1>3. PICK n \in Backends \cup {Molmo, None} :
          /\ (n \in Backends) = (op = "select")
          /\ thread' = [thread EXCEPT ![h] = [Idle EXCEPT !.pc = FirstStep(op), !.op = op, !.name = n]]
  BY <1>2
<1>4. /\ FirstStep(op) \in {"check", "gate", "probe", "quit"}
      /\ (FirstStep(op) = "gate" => op = "vision")
      /\ (FirstStep(op) = "check" => op \in {"select", "virtual", "runtime"})
  BY <1>2 DEF Requests, FirstStep
<1> DEFINE c == FirstStep(op)
           t == [Idle EXCEPT !.pc = c, !.op = op, !.name = n]
<1>5. c \in {"check", "gate", "probe", "quit"} /\ c \in Pcs
  BY <1>4 DEF Pcs
<1>6. thread' = [thread EXCEPT ![h] = t]
  BY <1>3
<1>7. (c = "gate" => op = "vision") /\ (c = "check" => op \in {"select", "virtual", "runtime"})
  BY <1>4
<1> HIDE DEF c
<1>8. /\ t \in ThreadStates /\ t.pc = c /\ t.op = op /\ t.name = n /\ ~t.paused
  BY <1>1, <1>2, <1>3, <1>5, IdleState DEF ThreadStates
<1> HIDE DEF t
<1>9. Goes(h) /\ thread'[h] = t
  BY <1>1, <1>6, <1>8, Updated
<1>10. Place(h)' = c /\ Place(h) = "idle"
  BY <1>1, <1>5, <1>8, <1>9, IdleState DEF Place, Sub
<1>11. Placed(h)'
  BY <1>3, <1>5, <1>7, <1>8, <1>9, <1>10, BackendAssumption
  DEF Placed, Critical, OnSlot, OnLock, Requests
<1> QED
  BY <1>1, <1>2, <1>5, <1>7, <1>8, <1>9, <1>10, <1>11, IdleState DEF Quiet, Switches

LEMMA CheckStep ==
  ASSUME TypeOK, ThreadsOK, NEW h \in Handlers, CheckIdle(h) \/ Differs(h)
  PROVE  Quiet(h) /\ Place(h) \in Plain /\ Place(h)' \in {"idle", "lock", "differs", "claim"}
<1>1. h \in Threads /\ Placed(h) /\ thread[h].pc \in {"check", "differs"} /\ thread[h].pc # "generate"
  BY DEF CheckIdle, Differs, At, Threads, ThreadsOK
<1>2. Place(h) = thread[h].pc
  BY <1>1 DEF Place, Sub
<1>3. CASE Return(h)
  BY <1>1, <1>2, <1>3, ReturnQuiet DEF Plain
<1>4. CASE Goto(h, "lock") \/ (Goto(h, "differs") /\ thread[h].op \in {"select", "virtual"})
           \/ (Goto(h, "claim") /\ thread[h].op = "select")
  <2>1. {"lock", "differs", "claim"} \subseteq Pcs \ (Sub \cup {"generate"})
        /\ \A p \in {"lock", "differs", "claim"} : p \notin OnSlot \cup OnLock
    BY DEF Pcs, Sub, OnSlot, OnLock
  <2> QED
    BY <1>1, <1>2, <1>4, <2>1, GotoQuiet DEF Plain
<1>5. (CheckIdle(h) /\ thread[h].op = "runtime" => Return(h) \/ Goto(h, "lock"))
      /\ (CheckIdle(h) /\ thread[h].op # "runtime" => Return(h) \/ Goto(h, "differs"))
      /\ (Differs(h) /\ thread[h].op = "virtual" => Return(h) \/ Goto(h, "lock"))
      /\ (Differs(h) /\ thread[h].op # "virtual" => Return(h) \/ Goto(h, "claim"))
  BY DEF CheckIdle, Differs
<1>6. (CheckIdle(h) => thread[h].op \in {"select", "virtual", "runtime"})
      /\ (Differs(h) => thread[h].op \in {"select", "virtual"})
  BY <1>1 DEF Placed, CheckIdle, Differs, At
<1> QED
  BY <1>3, <1>4, <1>5, <1>6

LEMMA ChatQuietStep ==
  ASSUME TypeOK, ThreadsOK, NEW h \in Handlers, ChatProbe(h) \/ Quit(h) \/ Close(h)
  PROVE  /\ Quiet(h) /\ Place(h) \in Plain /\ Place(h)' \in {"enter", "idle", "close"}
         /\ ChatProbe(h) => Place(h)' # "close"
         /\ Close(h) => Place(h)' = "idle" /\ Place(h) = "close"
<1>1. h \in Threads /\ thread[h].pc \in {"probe", "quit", "close"}
      /\ (Close(h) => thread[h].pc = "close") /\ (ChatProbe(h) => thread[h].pc = "probe")
  BY DEF ChatProbe, Quit, Close, At, Threads
<1>2. Place(h) = thread[h].pc
  BY <1>1 DEF Place, Sub
<1>3. CASE Return(h) /\ thread[h].pc \in {"probe", "close"}
  BY <1>1, <1>2, <1>3, ReturnQuiet DEF Plain
<1>4. CASE Goto(h, "enter") /\ thread[h].pc = "probe"
  <2>1. "enter" \in Pcs \ (Sub \cup {"generate"}) /\ "enter" \notin OnSlot \cup OnLock
    BY DEF Pcs, Sub, OnSlot, OnLock
  <2> QED
    BY <1>1, <1>2, <1>4, <2>1, GotoQuiet DEF Plain
<1>5. CASE Call(h, "stop", "close") /\ thread[h].pc = "quit"
  BY <1>1, <1>2, <1>5, CallQuiet DEF Plain, Stopping, OnSlot, OnLock
<1> QED
  BY <1>1, <1>3, <1>4, <1>5 DEF ChatProbe, Quit, Close, At

\* A generation begins or ends.
LEMMA GenerationStep ==
  ASSUME TypeOK, ThreadsOK, NEW h \in Handlers, ChatEnter(h) \/ ChatLeave(h)
  PROVE  /\ Goes(h) /\ Placed(h)' /\ Place(h) \in {"enter", "generate"} /\ Place(h) = thread[h].pc
         /\ Place(h)' \in {"idle", "generate"} /\ Place(h)' = thread'[h].pc
         /\ ChatLeave(h) => thread[h].pc = "generate" /\ thread'[h].pc = "idle"
         /\ ChatEnter(h) => /\ thread[h].pc = "enter"
                            /\ thread'[h].pc = "generate" \/ (Quiet(h) /\ UNCHANGED generating)
<1>1. h \in Threads /\ thread[h].pc \in {"enter", "generate"} /\ Placed(h)
  BY DEF ChatEnter, ChatLeave, At, Threads, ThreadsOK
<1>2. Place(h) = thread[h].pc
  BY <1>1 DEF Place, Sub
<1>3. CASE Return(h)
  <2>1. ChatEnter(h) => UNCHANGED generating
    <3>1. ASSUME Goto(h, "generate") PROVE FALSE
      BY <1>1, <1>3, <3>1, GotoEffect, ReturnEffect, IdleState DEF Pcs
    <3> QED
      BY <3>1 DEF ChatEnter
  <2> QED
    BY <1>1, <1>2, <1>3, <2>1, ReturnQuiet DEF ChatEnter, ChatLeave, At
<1>4. CASE Goto(h, "generate") /\ thread[h].pc = "enter" /\ ~ChatLeave(h)
  <2>1. Goes(h) /\ Keeps(h) /\ thread'[h].pc = "generate" /\ thread'[h].prev = thread[h].prev
    BY <1>1, <1>4, GotoEffect DEF Pcs
  <2>2. Place(h)' = "generate"
    BY <2>1 DEF Place, Sub
  <2>3. Placed(h)'
    BY <1>1, <2>1, <2>2 DEF Placed, Keeps, Critical, OnSlot, OnLock
  <2> QED
    BY <1>1, <1>2, <1>4, <2>1, <2>2, <2>3
<1> QED
  BY <1>3, <1>4 DEF ChatEnter, ChatLeave, At

\* The steps of a visual turn.
VisionStep(h) ==
    \/ VisionGate(h) \/ VisionPause(h) \/ VisionSession(h) \/ VisionAnalyzed(h)
    \/ VisionRelease(h) \/ VisionUngate(h)

Visuals == {"gate", "pause", "session", "analyze", "release", "ungate"}

LEMMA VisionThread ==
  ASSUME TypeOK, ThreadsOK, NEW h \in Handlers, VisionStep(h)
  PROVE  /\ Quiet(h) /\ Place(h) \in Visuals /\ Place(h)' \in Visuals \cup {"idle"}
         /\ Place(h) = thread[h].pc /\ thread'[h].pc # "record"
<1>1. h \in Threads /\ thread[h].pc \in Visuals /\ Placed(h) /\ thread[h] \in ThreadStates
  BY DEF VisionStep, VisionGate, VisionPause, VisionSession, VisionAnalyzed, VisionRelease,
         VisionUngate, At, Threads, ThreadsOK, Visuals
<1>2. Place(h) = thread[h].pc /\ thread[h].pc # "generate"
  BY <1>1 DEF Place, Sub, Visuals
<1>3. CASE Return(h)
  BY <1>1, <1>2, <1>3, ReturnQuiet
<1>4. CASE \E pc \in {"pause", "session", "analyze", "release", "ungate"} : Goto(h, pc)
  <2>1. \A pc \in {"pause", "session", "analyze", "release", "ungate"} :
           pc \in Pcs \ (Sub \cup {"generate"}) /\ pc \notin OnSlot \cup OnLock /\ pc \in Visuals
    BY DEF Pcs, Sub, OnSlot, OnLock, Visuals
  <2> QED
    BY <1>1, <1>2, <1>4, <2>1, GotoQuiet
<1>5. CASE Call(h, "start", "ungate")
  BY <1>1, <1>2, <1>5, CallQuiet DEF Starting, OnSlot, OnLock, Visuals
<1>6. CASE thread' = [thread EXCEPT ![h].paused = TRUE, ![h].pc = "stop", ![h].ret = "session"]
  <2> DEFINE t == [thread[h] EXCEPT !.paused = TRUE, !.pc = "stop", !.ret = "session"]
  <2>1. thread' = [thread EXCEPT ![h] = t]
    BY <1>1, <1>6 DEF ThreadsOK
  <2>2. /\ t \in ThreadStates /\ t.pc = "stop" /\ t.ret = "session"
        /\ t.op = thread[h].op /\ t.name = thread[h].name
    BY <1>1 DEF ThreadStates, Pcs, Sub, Stopping
  <2> HIDE DEF t
  <2>3. Goes(h) /\ thread'[h] = t
    BY <1>1, <2>1, <2>2, Updated
  <2>4. Place(h)' = "session"
    BY <2>2, <2>3 DEF Place, Sub
  <2>5. Placed(h)'
    BY <1>1, <2>2, <2>3, <2>4 DEF Placed, Critical, OnSlot, OnLock, Stopping
  <2> QED
    BY <1>1, <1>2, <2>2, <2>3, <2>4, <2>5 DEF Quiet, Visuals
<1> QED
  BY <1>3, <1>4, <1>5, <1>6
  DEF VisionStep, VisionGate, VisionPause, VisionSession, VisionAnalyzed, VisionRelease, VisionUngate

\* A switch takes the slot or the lock.
LEMMA EnterStep ==
  ASSUME TypeOK, ThreadsOK, NEW h \in Handlers, Claim(h) \/ LockSelection(h)
  PROVE  /\ Quiet(h) /\ Place(h) \in Plain /\ lock = None
         /\ \/ Place(h)' = "idle" /\ UNCHANGED <<active, lock>>
            \/ /\ active = None /\ thread'[h].pc = "stop" /\ thread'[h].prev = backend
               /\ \/ Place(h)' = "rename" /\ active' \in Backends /\ UNCHANGED lock
                  \/ Place(h)' \in {"virtual", "restart"} /\ lock' = h /\ UNCHANGED active
<1>1. h \in Threads /\ thread[h].pc \in {"claim", "lock"} /\ Placed(h) /\ lock = None
      /\ (Claim(h) => thread[h].pc = "claim") /\ (LockSelection(h) => thread[h].pc = "lock")
  BY DEF Claim, LockSelection, At, Threads, ThreadsOK
<1>2. Place(h) = thread[h].pc /\ Place(h) \in Plain
  BY <1>1 DEF Place, Sub, Plain
<1>3. CASE Return(h) /\ UNCHANGED <<active, lock>>
  BY <1>1, <1>2, <1>3, ReturnQuiet
<1>4. ASSUME NEW ret \in {"rename", "virtual", "restart"}, active = None,
             ret = "rename" => thread[h].op \in {"select", "watch"},
             thread' = [thread EXCEPT ![h].prev = backend, ![h].pc = "stop", ![h].ret = ret]
      PROVE  Quiet(h) /\ thread'[h].pc = "stop" /\ thread'[h].prev = backend /\ Place(h)' = ret
  <2>1. backend \in Backends \cup {Molmo} /\ ret \in Stopping
    BY DEF TypeOK, Stopping
  <2>2. /\ Goes(h) /\ Keeps(h) /\ thread'[h].pc = "stop" /\ thread'[h].ret = ret
        /\ thread'[h].prev = backend
    BY <1>1, <1>4, <2>1, BeginEffect
  <2>3. Place(h)' = ret
    BY <2>2 DEF Place, Sub
  <2>4. Placed(h)'
    BY <1>1, <1>4, <2>1, <2>2, <2>3 DEF Placed, Keeps
  <2> QED
    BY <1>1, <2>2, <2>3, <2>4 DEF Quiet
<1>5. CASE Claim(h) /\ ~(Return(h) /\ UNCHANGED active)
  <2>1. thread[h].op \in {"select", "watch"} /\ thread[h].name \in Backends
    BY <1>1, <1>2, <1>5 DEF Placed
  <2>2. /\ active = None /\ active' = thread[h].name /\ UNCHANGED lock
        /\ thread' = [thread EXCEPT ![h].prev = backend, ![h].pc = "stop", ![h].ret = "rename"]
    BY <1>5 DEF Claim
  <2> QED
    BY <1>1, <1>2, <1>4, <2>1, <2>2
<1>6. CASE LockSelection(h) /\ ~(Return(h) /\ UNCHANGED lock)
  <2>1. active = None /\ lock' = h /\ UNCHANGED active
    BY <1>6 DEF LockSelection
  <2>2. PICK ret \in {"virtual", "restart"} :
           thread' = [thread EXCEPT ![h].prev = backend, ![h].pc = "stop", ![h].ret = ret]
    BY <1>6 DEF LockSelection
  <2> QED
    BY <1>1, <1>2, <1>4, <2>1, <2>2
<1> QED
  BY <1>3, <1>5, <1>6 DEF Claim, LockSelection

\* A step within a switch, from one place of its code to another.
Proceeds(x, from, to) ==
    /\ Quiet(x) /\ Keeps(x) /\ thread'[x].prev = thread[x].prev
    /\ Place(x) = from /\ thread[x].pc = from /\ Place(x)' = to
    /\ thread'[x].ok = thread[x].ok

LEMMA GotoProceeds ==
  ASSUME ThreadsOK, NEW x \in Threads, NEW from \in OnSlot \cup OnLock, thread[x].pc = from,
         NEW to \in OnSlot \cup OnLock, Goto(x, to),
         to \in {"rename", "started", "wait", "poll", "commit"} => thread[x].op \in {"select", "watch"}
  PROVE  Proceeds(x, from, to) /\ thread'[x].pc = to
<1>1. from \notin Sub /\ from # "generate" /\ to \in Pcs \ (Sub \cup {"generate"})
      /\ to \notin {"check", "differs", "claim"}
  BY DEF OnSlot, OnLock, Sub, Pcs
<1>2. Place(x) = from
  BY <1>1 DEF Place
<1>3. Critical(x)
  BY <1>2 DEF Critical
<1> QED
  BY <1>1, <1>2, <1>3, GotoQuiet DEF Proceeds

LEMMA CallProceeds ==
  ASSUME ThreadsOK, NEW x \in Threads, NEW from \in OnSlot \cup OnLock, thread[x].pc = from,
         NEW sub \in {"stop", "start"}, NEW to, Call(x, sub, to),
         IF sub = "stop" THEN to \in Stopping ELSE to \in Starting,
         to \in {"rename", "started"} => thread[x].op \in {"select", "watch"}
  PROVE  Proceeds(x, from, to) /\ thread'[x].pc = sub
<1>1. from \notin Sub /\ from # "generate"
  BY DEF OnSlot, OnLock, Sub
<1>2. Place(x) = from
  BY <1>1 DEF Place
<1>3. Critical(x)
  BY <1>2 DEF Critical
<1> QED
  BY <1>1, <1>2, <1>3, CallQuiet DEF Proceeds

\* A switch gives the slot or the lock back.
LEMMA LeaveStep ==
  ASSUME ThreadsOK, NEW x \in Threads, Unlock(x) \/ ClearSelection(x)
  PROVE  /\ Quiet(x) /\ Place(x) \in {"unlock", "clear"} /\ Place(x)' = "idle"
         /\ (Unlock(x) => Place(x) = "unlock") /\ (ClearSelection(x) => Place(x) = "clear")
<1>1. thread[x].pc \in {"unlock", "clear"} /\ (Unlock(x) => thread[x].pc = "unlock")
      /\ (ClearSelection(x) => thread[x].pc = "clear") /\ Return(x)
  BY DEF Unlock, ClearSelection, At
<1>2. Place(x) = thread[x].pc
  BY <1>1 DEF Place, Sub
<1> QED
  BY <1>1, <1>2, ReturnQuiet

\* The steps under the lock.
LEMMA LockedStep ==
  ASSUME ThreadsOK, NEW h \in Threads, CommitVirtual(h) \/ Restart(h) \/ Restarted(h)
  PROVE  /\ CommitVirtual(h) => Proceeds(h, "virtual", "unlock") /\ thread'[h].pc \in {"unlock", "start"}
         /\ Restart(h) => Proceeds(h, "restart", "restarted") /\ thread'[h].pc = "start"
         /\ Restarted(h) => /\ Proceeds(h, "restarted", "unlock")
                            /\ \/ thread'[h].pc = "unlock"
                               \/ thread'[h].pc = "start" /\ ~thread[h].ok
<1>1. {"virtual", "unlock", "restart", "restarted"} \subseteq OnSlot \cup OnLock
      /\ {"unlock", "restarted"} \subseteq Starting
  BY DEF OnSlot, OnLock, Starting
<1>2. CASE CommitVirtual(h)
  <2>1. thread[h].pc = "virtual" /\ (Goto(h, "unlock") \/ Call(h, "start", "unlock"))
    BY <1>2 DEF CommitVirtual, At
  <2>2. ~Restart(h) /\ ~Restarted(h)
    BY <2>1 DEF Restart, Restarted, At
  <2> QED
    BY <1>1, <2>1, <2>2, GotoProceeds, CallProceeds
<1>3. CASE Restart(h)
  <2>1. thread[h].pc = "restart" /\ Call(h, "start", "restarted")
    BY <1>3 DEF Restart, At
  <2>2. ~CommitVirtual(h) /\ ~Restarted(h)
    BY <2>1 DEF CommitVirtual, Restarted, At
  <2> QED
    BY <1>1, <2>1, <2>2, CallProceeds
<1>4. CASE Restarted(h)
  <2>1. thread[h].pc = "restarted" /\ (Goto(h, "unlock") \/ (Call(h, "start", "unlock") /\ ~thread[h].ok))
    BY <1>4 DEF Restarted, At
  <2>2. ~CommitVirtual(h) /\ ~Restart(h)
    BY <2>1 DEF CommitVirtual, Restart, At
  <2> QED
    BY <1>1, <2>1, <2>2, GotoProceeds, CallProceeds
<1> QED
  BY <1>2, <1>3, <1>4

\* The new model is started; a handler that could not rolls back itself.
LEMMA RenameStep ==
  ASSUME ThreadsOK, NEW h \in Threads, Rename(h)
  PROVE  Proceeds(h, "rename", "started") /\ thread'[h].pc = "start"
<1>1. thread[h].pc = "rename" /\ Call(h, "start", "started")
  BY DEF Rename, At
<1>2. Placed(h) /\ Place(h) = "rename"
  BY <1>1 DEF ThreadsOK, Place, Sub
<1>3. thread[h].op \in {"select", "watch"} /\ "rename" \in OnSlot \cup OnLock /\ "started" \in Starting
  BY <1>2 DEF Placed, OnSlot, Starting
<1> QED
  BY <1>1, <1>3, CallProceeds

LEMMA FailedStep ==
  ASSUME ThreadsOK, NEW h \in Threads, Started(h), ~thread[h].ok
  PROVE  Proceeds(h, "started", "restore") /\ thread'[h].pc = "stop"
<1>1. thread[h].pc = "started" /\ Call(h, "stop", "restore")
  BY DEF Started, At
<1>2. "started" \in OnSlot \cup OnLock /\ "restore" \in Stopping
  BY DEF OnSlot, Stopping
<1> QED
  BY <1>1, <1>2, CallProceeds

\* The rollback, in the handler or in the watchdog.
LEMMA RollbackStep ==
  ASSUME ThreadsOK, NEW x \in Threads, Restore(x) \/ MayStart(x)
  PROVE  /\ Restore(x) => Proceeds(x, "restore", "maystart") /\ thread'[x].pc = "maystart"
         /\ MayStart(x) => Proceeds(x, "maystart", "clear") /\ thread'[x].pc \in {"clear", "start"}
<1>1. {"restore", "maystart", "clear"} \subseteq OnSlot \cup OnLock /\ "clear" \in Starting
  BY DEF OnSlot, Starting
<1>2. CASE Restore(x)
  <2>1. thread[x].pc = "restore" /\ Goto(x, "maystart") /\ ~MayStart(x)
    BY <1>2 DEF Restore, MayStart, At
  <2> QED
    BY <1>1, <2>1, GotoProceeds
<1>3. CASE MayStart(x)
  <2>1. thread[x].pc = "maystart" /\ (Goto(x, "clear") \/ Call(x, "start", "clear")) /\ ~Restore(x)
    BY <1>3 DEF Restore, MayStart, At
  <2> QED
    BY <1>1, <2>1, GotoProceeds, CallProceeds
<1> QED
  BY <1>2, <1>3

\* The watchdog's loop.
LEMMA WatchStep ==
  ASSUME ThreadsOK, WatchStopping \/ WatchPoll \/ WatchTimeout \/ WatchCommit
  PROVE  /\ Watchdog \in Threads
         /\ WatchStopping => \/ Proceeds(Watchdog, "wait", "clear") /\ stopping
                             \/ Proceeds(Watchdog, "wait", "poll")
         /\ WatchPoll => \/ Proceeds(Watchdog, "poll", "restore")
                         \/ Proceeds(Watchdog, "poll", "commit")
                         \/ Proceeds(Watchdog, "poll", "wait")
         /\ WatchTimeout => Proceeds(Watchdog, "poll", "restore")
         /\ WatchCommit => \/ Proceeds(Watchdog, "commit", "clear") /\ file' = thread[Watchdog].name
                           \/ Proceeds(Watchdog, "commit", "restore") /\ UNCHANGED file
         /\ \/ thread'[Watchdog].pc \in {"clear", "poll", "commit", "wait"}
            \/ Place(Watchdog)' = "restore" /\ thread'[Watchdog].pc = "stop"
<1>1. Watchdog \in Threads
  BY DEF Threads
<1>2. {"wait", "poll", "commit", "clear", "restore"} \subseteq OnSlot \cup OnLock /\ "restore" \in Stopping
  BY DEF OnSlot, Stopping
<1>3. thread[Watchdog].pc \in {"wait", "poll", "commit"}
  BY DEF WatchStopping, WatchPoll, WatchTimeout, WatchCommit, At
<1>4. thread[Watchdog].op \in {"select", "watch"}
  <2>1. Place(Watchdog) = thread[Watchdog].pc
    BY <1>3 DEF Place, Sub
  <2> QED
    BY <1>1, <1>3, <2>1 DEF ThreadsOK, Placed
<1>5. ASSUME NEW from \in {"wait", "poll", "commit"}, thread[Watchdog].pc = from,
             NEW to \in {"poll", "wait", "commit", "clear"}, Goto(Watchdog, to)
      PROVE  Proceeds(Watchdog, from, to) /\ thread'[Watchdog].pc = to
  BY <1>1, <1>2, <1>4, <1>5, GotoProceeds
<1>6. ASSUME NEW from \in {"wait", "poll", "commit"}, thread[Watchdog].pc = from,
             Call(Watchdog, "stop", "restore")
      PROVE  Proceeds(Watchdog, from, "restore") /\ thread'[Watchdog].pc = "stop" /\ Place(Watchdog)' = "restore"
  BY <1>1, <1>2, <1>6, CallProceeds DEF Proceeds
<1>7. CASE WatchStopping
  <2>1. thread[Watchdog].pc = "wait" /\ ~WatchPoll /\ ~WatchTimeout /\ ~WatchCommit
        /\ ((Goto(Watchdog, "clear") /\ stopping) \/ Goto(Watchdog, "poll"))
    BY <1>7 DEF WatchStopping, WatchPoll, WatchTimeout, WatchCommit, At
  <2> QED
    BY <1>1, <1>5, <2>1
<1>8. CASE WatchPoll \/ WatchTimeout
  <2>1. thread[Watchdog].pc = "poll" /\ ~WatchStopping /\ ~WatchCommit
        /\ (Goto(Watchdog, "commit") \/ Goto(Watchdog, "wait") \/ Call(Watchdog, "stop", "restore"))
        /\ (WatchTimeout => Call(Watchdog, "stop", "restore"))
    BY <1>8 DEF WatchStopping, WatchPoll, WatchTimeout, WatchCommit, At
  <2> QED
    BY <1>1, <1>5, <1>6, <2>1
<1>9. CASE WatchCommit
  <2>1. thread[Watchdog].pc = "commit" /\ ~WatchStopping /\ ~WatchPoll /\ ~WatchTimeout
        /\ \/ Goto(Watchdog, "clear") /\ file' = thread[Watchdog].name
           \/ Call(Watchdog, "stop", "restore") /\ UNCHANGED file
    BY <1>9 DEF WatchStopping, WatchPoll, WatchTimeout, WatchCommit, At
  <2> QED
    BY <1>1, <1>5, <1>6, <2>1
<1> QED
  BY <1>7, <1>8, <1>9

\* The handler hands the switch over to the watchdog.
LEMMA HandOverStep ==
  ASSUME ThreadsOK, NEW h \in Handlers, Started(h), thread[h].ok
  PROVE  /\ ThreadsOK' /\ h # Watchdog /\ h \in Threads /\ Watchdog \in Threads
         /\ thread[h].pc = "started" /\ Place(h) = "started" /\ Place(h)' = "idle" /\ thread'[h].pc = "idle"
         /\ Place(Watchdog)' = "wait" /\ thread'[Watchdog].pc = "wait"
         /\ thread'[Watchdog].name = thread[h].name /\ thread'[Watchdog].prev = thread[h].prev
         /\ \A y \in Threads \ {h, Watchdog} : thread'[y] = thread[y] /\ Place(y)' = Place(y)
<1>1. h # Watchdog /\ h \in Threads /\ Watchdog \in Threads
  BY BackendAssumption DEF Threads
<1>2. /\ thread[h].pc = "started" /\ Place(h) = "started" /\ thread[h] \in ThreadStates /\ Placed(h)
  BY <1>1 DEF Started, At, Place, Sub, ThreadsOK
<1>3. thread[h].name \in Backends /\ thread[h].prev \in Backends \cup {Molmo}
  BY <1>2 DEF Placed, Critical, OnSlot
<1> DEFINE w == [Idle EXCEPT !.pc = "wait", !.op = "watch", !.name = thread[h].name, !.prev = thread[h].prev]
<1>4. thread' = [thread EXCEPT ![h] = Idle, ![Watchdog] = w]
  BY DEF Started
<1>5. /\ w \in ThreadStates /\ w.pc = "wait" /\ w.op = "watch"
      /\ w.name = thread[h].name /\ w.prev = thread[h].prev
  BY <1>3, IdleState DEF ThreadStates, Pcs, OnSlot
<1> HIDE DEF w
<1>6. /\ thread' \in [Threads -> ThreadStates] /\ thread'[h] = Idle /\ thread'[Watchdog] = w
      /\ \A y \in Threads \ {h, Watchdog} : thread'[y] = thread[y]
  BY <1>1, <1>4, <1>5, IdleState DEF ThreadsOK
<1>7. Place(h)' = "idle" /\ thread'[h].pc = "idle" /\ Placed(h)'
  <2>1. Place(h)' = "idle"
    BY <1>6, IdleState DEF Place, Sub
  <2> QED
    BY <1>6, <2>1, IdleState DEF Placed, Critical, OnSlot, OnLock
<1>8. Place(Watchdog)' = "wait" /\ Placed(Watchdog)'
  <2>1. Place(Watchdog)' = "wait"
    BY <1>5, <1>6 DEF Place, Sub
  <2> QED
    BY <1>3, <1>5, <1>6, <2>1 DEF Placed
<1>9. ASSUME NEW y \in Threads \ {h, Watchdog} PROVE Placed(y)' /\ Place(y)' = Place(y)
  <2>1. thread'[y] = thread[y] /\ Placed(y)
    BY <1>6 DEF ThreadsOK
  <2>2. Place(y)' = Place(y)
    BY <2>1 DEF Place
  <2> QED
    BY <2>1, <2>2 DEF Placed, Critical
<1>10. ThreadsOK'
  BY <1>6, <1>7, <1>8, <1>9 DEF ThreadsOK
<1> QED
  BY <1>1, <1>2, <1>5, <1>6, <1>7, <1>8, <1>9, <1>10

\* main stops the backend and ends the process.
LEMMA MainStopStep ==
  ASSUME ThreadsOK, MainStop, thread[Main].pc = "idle"
  PROVE  Main \in Threads /\ Quiet(Main) /\ Place(Main) = "idle" /\ Place(Main)' = "exit"
<1>1. Main \in Threads /\ Call(Main, "stop", "exit")
  BY DEF Threads, MainStop
<1>2. Place(Main) = "idle"
  BY DEF Place, Sub
<1> QED
  BY <1>1, <1>2, CallQuiet DEF Stopping, OnSlot, OnLock

LEMMA ExitStep ==
  ASSUME Exit
  PROVE  ThreadsOK' /\ \A x \in Threads : thread'[x] = Idle /\ Place(x)' = "idle"
<1>1. thread' = [x \in Threads |-> Idle]
  BY DEF Exit
<1>2. thread' \in [Threads -> ThreadStates] /\ \A x \in Threads : thread'[x] = Idle
  BY <1>1, IdleState
<1>3. ASSUME NEW x \in Threads PROVE Place(x)' = "idle" /\ Placed(x)'
  <2>1. Place(x)' = "idle"
    BY <1>2, IdleState DEF Place, Sub
  <2> QED
    BY <1>2, <2>1, IdleState DEF Placed, Critical, OnSlot, OnLock
<1> QED
  BY <1>2, <1>3 DEF ThreadsOK

\* The steps of a thread that are neither a generation's beginning or end nor a hand-over.
Ordinary(x) ==
    \/ x \in Handlers /\ (Receive(x) \/ CheckIdle(x) \/ Differs(x) \/ ChatProbe(x) \/ Quit(x) \/ Close(x)
                          \/ VisionStep(x) \/ Claim(x) \/ LockSelection(x) \/ Unlock(x)
                          \/ CommitVirtual(x) \/ Restart(x) \/ Restarted(x) \/ Rename(x)
                          \/ (Started(x) /\ ~thread[x].ok))
    \/ x = Watchdog /\ (WatchStopping \/ WatchPoll \/ WatchTimeout \/ WatchCommit)
    \/ x \in Handlers \cup {Watchdog} /\ Rollback(x)
    \/ x \in Threads /\ Subroutine(x)

LEMMA OrdinaryQuiet ==
  ASSUME TypeOK, ThreadsOK, NEW x \in Threads, Ordinary(x)
  PROVE  Quiet(x)
<1>1. CASE Receive(x) /\ x \in Handlers
  BY <1>1, ReceiveStep
<1>2. CASE (CheckIdle(x) \/ Differs(x)) /\ x \in Handlers
  BY <1>2, CheckStep
<1>3. CASE (ChatProbe(x) \/ Quit(x) \/ Close(x)) /\ x \in Handlers
  BY <1>3, ChatQuietStep
<1>4. CASE VisionStep(x) /\ x \in Handlers
  BY <1>4, VisionThread
<1>5. CASE (Claim(x) \/ LockSelection(x)) /\ x \in Handlers
  BY <1>5, EnterStep
<1>6. CASE Unlock(x) \/ ClearSelection(x)
  BY <1>6, LeaveStep
<1>7. CASE CommitVirtual(x) \/ Restart(x) \/ Restarted(x)
  BY <1>7, LockedStep DEF Proceeds
<1>8. CASE Rename(x) \/ (Started(x) /\ ~thread[x].ok)
  BY <1>8, RenameStep, FailedStep DEF Proceeds
<1>9. CASE Restore(x) \/ MayStart(x)
  BY <1>9, RollbackStep DEF Proceeds
<1>10. CASE x = Watchdog /\ (WatchStopping \/ WatchPoll \/ WatchTimeout \/ WatchCommit)
  BY <1>10, WatchStep DEF Proceeds
<1>11. CASE Subroutine(x)
  BY <1>11, SubThreads
<1> QED
  BY <1>1, <1>2, <1>3, <1>4, <1>5, <1>6, <1>7, <1>8, <1>9, <1>10, <1>11 DEF Ordinary, Rollback

\* What a step of the gateway can be.
LEMMA StepKinds ==
  ASSUME Next
  PROVE  \/ \E x \in Threads : Ordinary(x)
         \/ \E h \in Handlers : ChatEnter(h) \/ ChatLeave(h) \/ (Started(h) /\ thread[h].ok)
         \/ Signal \/ MainStop \/ Exit \/ ChildListens \/ ChildDies
<1>1. Handlers \subseteq Threads /\ Watchdog \in Threads /\ Main \in Threads
  BY DEF Threads
<1>2. ASSUME NEW h \in Handlers, Receive(h) \/ HandlerStep(h)
      PROVE  Ordinary(h) \/ ChatEnter(h) \/ ChatLeave(h) \/ (Started(h) /\ thread[h].ok)
  BY <1>1, <1>2 DEF HandlerStep, Ordinary, VisionStep
<1>3. ASSUME WatchdogStep PROVE Ordinary(Watchdog)
  BY <1>1, <1>3 DEF WatchdogStep, Ordinary
<1>4. ASSUME Subroutine(Main) PROVE Ordinary(Main)
  BY <1>1, <1>4 DEF Ordinary
<1> QED
  BY <1>1, <1>2, <1>3, <1>4 DEF Next, MainStep

(***************************************************************************)
(* The children.                                                           *)
(***************************************************************************)
ChildRecords == [pid : Pids, up : BOOLEAN, dying : BOOLEAN]

\* Children have ids of their own.
OwnPids == \A c, d \in children : c.pid = d.pid => c = d

ChildrenOK == children \subseteq ChildRecords /\ OwnPids

\* No model process comes into being.
Shrinks == ChildrenOK' /\ \A c \in Resident' : \E d \in Resident : d.pid = c.pid

\* backend_stop signals the recorded child: what is left resident is another one.
LEMMA StopChildren ==
  ASSUME ChildrenOK, NEW x \in Threads, Stop(x)
  PROVE  Shrinks /\ \A c \in Resident' : c \in Resident /\ c.pid # backendPid
<1> DEFINE f(c) == IF c.pid = backendPid THEN [c EXCEPT !.dying = TRUE] ELSE c
<1>1. children' = {f(c) : c \in children}
  BY DEF Stop
<1>2. ASSUME NEW c \in children
      PROVE  /\ f(c) \in ChildRecords /\ f(c).pid = c.pid
             /\ ~f(c).dying => f(c) = c /\ c.pid # backendPid
  <2>1. c \in ChildRecords
    BY DEF ChildrenOK
  <2>2. CASE c.pid = backendPid
    BY <2>1, <2>2 DEF ChildRecords
  <2>3. CASE c.pid # backendPid
    BY <2>1, <2>3
  <2> QED
    BY <2>2, <2>3
<1> HIDE DEF f
<1>3. children' \subseteq ChildRecords
  BY <1>1, <1>2
<1>4. OwnPids'
  <2> SUFFICES ASSUME NEW c \in children', NEW d \in children', c.pid = d.pid PROVE c = d
    BY DEF OwnPids
  <2>1. PICK a \in children : c = f(a)
    BY <1>1
  <2>2. PICK b \in children : d = f(b)
    BY <1>1
  <2>3. a = b
    BY <1>2, <2>1, <2>2 DEF ChildrenOK, OwnPids
  <2> QED
    BY <2>1, <2>2, <2>3
<1>5. ASSUME NEW c \in Resident' PROVE c \in Resident /\ c.pid # backendPid
  <2>1. c \in children' /\ ~c.dying
    BY DEF Resident
  <2>2. PICK a \in children : c = f(a)
    BY <1>1, <2>1
  <2> QED
    BY <1>2, <2>1, <2>2 DEF Resident
<1> QED
  BY <1>3, <1>4, <1>5 DEF Shrinks, ChildrenOK

\* A child is waited for, or dies.
LEMMA FewerChildren ==
  ASSUME ChildrenOK, children' \subseteq children
  PROVE  Shrinks
<1>1. Resident' \subseteq Resident
  BY DEF Resident
<1> QED
  BY <1>1 DEF Shrinks, ChildrenOK, OwnPids

\* A child listens.
LEMMA ListenChildren ==
  ASSUME ChildrenOK, ChildListens
  PROVE  Shrinks
<1>1. PICK c \in children : ~c.dying /\ children' = (children \ {c}) \cup {[c EXCEPT !.up = TRUE]}
  BY DEF ChildListens
<1> DEFINE u == [c EXCEPT !.up = TRUE]
<1>2. c \in ChildRecords /\ c \in Resident
  BY <1>1 DEF ChildrenOK, Resident
<1>3. u \in ChildRecords /\ u.pid = c.pid
  BY <1>2 DEF ChildRecords
<1>4. children' = (children \ {c}) \cup {u}
  BY <1>1
<1> HIDE DEF u
<1>5. children' \subseteq ChildRecords
  BY <1>3, <1>4 DEF ChildrenOK
<1>6. OwnPids'
  <2> SUFFICES ASSUME NEW a \in children', NEW b \in children', a.pid = b.pid PROVE a = b
    BY DEF OwnPids
  <2>1. (a = u \/ (a \in children /\ a # c)) /\ (b = u \/ (b \in children /\ b # c))
    BY <1>4
  <2> QED
    BY <1>3, <2>1 DEF ChildrenOK, OwnPids
<1>7. ASSUME NEW a \in Resident' PROVE \E d \in Resident : d.pid = a.pid
  <2>1. a = u \/ (a \in children /\ ~a.dying)
    BY <1>4 DEF Resident
  <2> QED
    BY <1>2, <1>3, <2>1 DEF Resident
<1> QED
  BY <1>5, <1>6, <1>7 DEF Shrinks, ChildrenOK

\* backend_start forks a child with an id of its own.
LEMMA ForkChildren ==
  ASSUME ChildrenOK, NEW p \in Forkable, children' = children \cup {Child(p)}
  PROVE  /\ ChildrenOK' /\ p \in Pids
         /\ \A c \in Resident' : c \in Resident \/ (c = Child(p) /\ c.pid = p)
<1> DEFINE n == Child(p)
<1>1. p \in Pids /\ \A c \in children : c.pid # p
  BY DEF Forkable
<1>2. n \in ChildRecords /\ n.pid = p
  BY <1>1 DEF Child, ChildRecords
<1> HIDE DEF n
<1>3. children' = children \cup {n}
  BY DEF n
<1>4. children' \subseteq ChildRecords
  BY <1>2, <1>3 DEF ChildrenOK
<1>5. OwnPids'
  <2> SUFFICES ASSUME NEW a \in children', NEW b \in children', a.pid = b.pid PROVE a = b
    BY DEF OwnPids
  <2>1. (a = n \/ a \in children) /\ (b = n \/ b \in children)
    BY <1>3
  <2> QED
    BY <1>1, <1>2, <2>1 DEF ChildrenOK, OwnPids
<1>6. ASSUME NEW c \in Resident' PROVE c \in Resident \/ (c = n /\ c.pid = p)
  BY <1>2, <1>3 DEF Resident
<1> QED
  BY <1>1, <1>4, <1>5, <1>6 DEF ChildrenOK, n

\* backend_start leaves the children in order.
LEMMA StartChildren ==
  ASSUME ChildrenOK, NEW x \in Threads, Start(x)
  PROVE  ChildrenOK'
<1>1. CASE UNCHANGED children
  BY <1>1, FewerChildren DEF Shrinks
<1>2. CASE \E p \in Forkable : children' = children \cup {Child(p)}
  BY <1>2, ForkChildren
<1> QED
  BY <1>1, <1>2 DEF Start

(***************************************************************************)
(* Types and the generation gate.                                          *)
(***************************************************************************)
\* TypeOK but for the counter.
TypeBase ==
    /\ backend \in Backends \cup {Molmo} /\ file \in Backends \cup {Molmo}
    /\ backendPid \in Pids \cup {None}
    /\ active \in Backends \cup {None} /\ lock \in Handlers \cup {None}
    /\ specialist \in BOOLEAN /\ session \in {"none", "resident", "cancelled"}
    /\ stopping \in BOOLEAN /\ gateway \in {"up", "draining", "closing", "down"}

\* main waits until the server has stopped.
MainIdle == gateway \in {"up", "draining"} => thread[Main].pc = "idle"

BaseInv == TypeOK /\ ThreadsOK /\ ChildrenOK /\ MainIdle

LEMMA SubTypes ==
  ASSUME BaseInv, NEW x \in Threads, Subroutine(x)
  PROVE  TypeBase' /\ ChildrenOK'
<1> USE DEF switch, gate, life, BaseInv, TypeOK, TypeBase
<1>1. CASE Stop(x)
  BY <1>1, StopChildren DEF Stop, Shrinks
<1>2. CASE Kill(x)
  <2>1. children' \subseteq children
    BY <1>2 DEF Kill
  <2> QED
    BY <1>2, <2>1, FewerChildren DEF Kill, Shrinks
<1>3. CASE Start(x)
  BY <1>3, StartChildren DEF Start
<1>4. CASE Record(x)
  <2>1. backendPid' \in Pids \cup {None} /\ children' = children
    BY <1>4 DEF Record, ThreadsOK, ThreadStates
  <2> QED
    BY <1>4, <2>1, FewerChildren DEF Record, Shrinks
<1> QED
  BY <1>1, <1>2, <1>3, <1>4 DEF Subroutine

\* The steps outside the subroutines keep the types.
LEMMA OtherTypes ==
  ASSUME BaseInv, Next, ~\E x \in Threads : Subroutine(x)
  PROVE  TypeBase'
<1> USE DEF switch, processes, gate, life, BaseInv, TypeOK, TypeBase
<1>0. /\ \A h \in Handlers : h \in Threads /\ Placed(h)
      /\ Watchdog \in Threads /\ Placed(Watchdog) /\ Main \in Threads
  BY DEF Threads, ThreadsOK
<1>1. ASSUME NEW h \in Handlers, Receive(h) \/ CheckIdle(h) \/ Differs(h) \/ Restart(h) \/ Restarted(h)
                                 \/ Started(h) \/ Quit(h)
      PROVE  TypeBase'
  BY <1>1 DEF Receive, CheckIdle, Differs, Restart, Restarted, Started, Quit
<1>2. ASSUME NEW h \in Handlers, ChatProbe(h) \/ ChatEnter(h) \/ ChatLeave(h) \/ Close(h)
      PROVE  TypeBase'
  BY <1>2 DEF ChatProbe, Reap, ChatEnter, ChatLeave, Close
<1>3. ASSUME NEW h \in Handlers, VisionStep(h)
      PROVE  TypeBase'
  BY <1>3 DEF VisionStep, VisionGate, VisionPause, VisionSession, VisionAnalyzed, VisionRelease, VisionUngate
<1>4. ASSUME NEW h \in Handlers, Claim(h) \/ LockSelection(h)
      PROVE  TypeBase'
  <2>1. active' \in Backends \cup {None} /\ lock' \in Handlers \cup {None}
    BY <1>4, EnterStep
  <2> QED
    BY <1>4, <2>1 DEF Claim, LockSelection
<1>5. ASSUME NEW x \in Threads, Unlock(x) \/ ClearSelection(x) \/ MayStart(x)
      PROVE  TypeBase'
  BY <1>5 DEF Unlock, ClearSelection, MayStart
<1>6. ASSUME NEW x \in Threads, CommitVirtual(x) \/ Restore(x)
      PROVE  TypeBase'
  <2>1. Place(x) \in {"virtual", "restore"} /\ Placed(x)
    BY <1>6 DEF CommitVirtual, Restore, At, Place, Sub, ThreadsOK
  <2>2. thread[x].prev \in Backends \cup {Molmo}
    BY <2>1 DEF Placed, Critical, OnSlot, OnLock
  <2> QED
    BY <1>6, <2>2 DEF CommitVirtual, Restore
<1>7. ASSUME NEW x \in Threads, Rename(x)
      PROVE  TypeBase'
  <2>1. Place(x) = "rename" /\ Placed(x)
    BY <1>7 DEF Rename, At, Place, Sub, ThreadsOK
  <2>2. thread[x].name \in Backends
    BY <2>1 DEF Placed
  <2> QED
    BY <1>7, <2>2 DEF Rename
<1>8. ASSUME WatchCommit PROVE TypeBase'
  <2>1. Place(Watchdog) = "commit"
    BY <1>8 DEF WatchCommit, At, Place, Sub
  <2>2. thread[Watchdog].name \in Backends
    BY <1>0, <2>1 DEF Placed
  <2> QED
    BY <1>8, <2>2 DEF WatchCommit
<1>9. ASSUME WatchStopping \/ WatchPoll \/ WatchTimeout PROVE TypeBase'
  BY <1>9 DEF WatchStopping, WatchPoll, WatchTimeout, Reap
<1>10. ASSUME Signal \/ MainStop \/ Exit PROVE TypeBase'
  BY <1>10 DEF Signal, MainStop, Exit
<1>11. ASSUME ChildListens \/ ChildDies PROVE TypeBase'
  BY <1>11 DEF ChildListens, ChildDies
<1>12. ASSUME NEW h \in Handlers, Receive(h) \/ HandlerStep(h) PROVE TypeBase'
  BY <1>0, <1>1, <1>2, <1>3, <1>4, <1>5, <1>6, <1>7, <1>12 DEF HandlerStep, VisionStep, Rollback
<1>13. ASSUME WatchdogStep PROVE TypeBase'
  BY <1>0, <1>5, <1>6, <1>8, <1>9, <1>13 DEF WatchdogStep, Rollback
<1> QED
  BY <1>0, <1>10, <1>11, <1>12, <1>13 DEF Next, MainStep

\* The children are left alone, and their record is dropped only when it is of none.
Untouched == children' = children /\ (backendPid' = backendPid \/ ~ChildRunning)

\* Only backend_stop, backend_start and the children themselves change the children.
LEMMA ChildrenKept ==
  ASSUME Next, ~\E x \in Threads : Subroutine(x), ~ChildListens, ~ChildDies
  PROVE  Untouched
<1> USE DEF processes, Untouched, Reap
<1>1. Handlers \subseteq Threads /\ Watchdog \in Threads /\ Main \in Threads
  BY DEF Threads
<1>2. ASSUME NEW x, Receive(x) \/ CheckIdle(x) \/ Differs(x) \/ Claim(x) \/ LockSelection(x) \/ Unlock(x)
      PROVE  Untouched
  BY <1>2 DEF Receive, CheckIdle, Differs, Claim, LockSelection, Unlock
<1>3. ASSUME NEW x, CommitVirtual(x) \/ Restart(x) \/ Restarted(x) \/ Rename(x) \/ Started(x) \/ Rollback(x)
      PROVE  Untouched
  BY <1>3 DEF CommitVirtual, Restart, Restarted, Rename, Started, Rollback, Restore, MayStart, ClearSelection
<1>4. ASSUME NEW x, ChatProbe(x) \/ ChatEnter(x) \/ ChatLeave(x) \/ VisionStep(x) \/ Quit(x) \/ Close(x)
      PROVE  Untouched
  BY <1>4 DEF ChatProbe, ChatEnter, ChatLeave, Quit, Close, VisionStep, VisionGate, VisionPause,
              VisionSession, VisionAnalyzed, VisionRelease, VisionUngate
<1>5. ASSUME WatchStopping \/ WatchPoll \/ WatchTimeout \/ WatchCommit \/ Signal \/ MainStop \/ Exit
      PROVE  Untouched
  BY <1>5 DEF WatchStopping, WatchPoll, WatchTimeout, WatchCommit, Signal, MainStop, Exit
<1>6. ASSUME NEW h \in Handlers, Receive(h) \/ HandlerStep(h) PROVE Untouched
  BY <1>1, <1>2, <1>3, <1>4, <1>6 DEF HandlerStep, VisionStep
<1>7. ASSUME WatchdogStep PROVE Untouched
  BY <1>1, <1>3, <1>5, <1>7 DEF WatchdogStep
<1> QED
  BY <1>1, <1>5, <1>6, <1>7 DEF Next, MainStep

\* Every step keeps the types, but for the counter.
LEMMA BaseStep ==
  ASSUME BaseInv, Next
  PROVE  TypeBase' /\ ChildrenOK'
<1>1. CASE \E x \in Threads : Subroutine(x)
  BY <1>1, SubTypes
<1>2. CASE ~\E x \in Threads : Subroutine(x)
  <2>1. TypeBase'
    BY <1>2, OtherTypes
  <2>2. CASE ChildListens
    BY <2>1, <2>2, ListenChildren DEF BaseInv, Shrinks
  <2>3. CASE ChildDies
    <3>1. children' \subseteq children
      BY <2>3 DEF ChildDies
    <3> QED
      BY <2>1, <3>1, FewerChildren DEF BaseInv, Shrinks
  <2>4. CASE ~ChildListens /\ ~ChildDies
    <3>1. children' \subseteq children
      BY <1>2, <2>4, ChildrenKept DEF Untouched
    <3> QED
      BY <2>1, <3>1, FewerChildren DEF BaseInv, Shrinks
  <2> QED
    BY <2>2, <2>3, <2>4
<1> QED
  BY <1>1, <1>2

\* Only shutdown changes the state of the server.
LEMMA LifeKept ==
  ASSUME Next
  PROVE  \/ UNCHANGED life
         \/ \E h \in Handlers : Quit(h) \/ Close(h)
         \/ Signal \/ MainStop \/ Exit
<1>1. ASSUME NEW x, Receive(x) \/ CheckIdle(x) \/ Differs(x) \/ Claim(x) \/ LockSelection(x) \/ Unlock(x)
                    \/ CommitVirtual(x) \/ Restart(x) \/ Restarted(x) \/ Rename(x) \/ Started(x) \/ Rollback(x)
      PROVE  UNCHANGED life
  BY <1>1 DEF Receive, CheckIdle, Differs, Claim, LockSelection, Unlock, CommitVirtual, Restart, Restarted,
              Rename, Started, Rollback, Restore, MayStart, ClearSelection
<1>2. ASSUME NEW x, ChatProbe(x) \/ ChatEnter(x) \/ ChatLeave(x) \/ VisionStep(x) \/ Subroutine(x)
      PROVE  UNCHANGED life
  BY <1>2 DEF ChatProbe, ChatEnter, ChatLeave, VisionStep, VisionGate, VisionPause,
              VisionSession, VisionAnalyzed, VisionRelease, VisionUngate,
              Subroutine, Stop, Kill, Start, Record
<1>3. ASSUME WatchStopping \/ WatchPoll \/ WatchTimeout \/ WatchCommit \/ ChildListens \/ ChildDies
      PROVE  UNCHANGED life
  BY <1>3 DEF WatchStopping, WatchPoll, WatchTimeout, WatchCommit, ChildListens, ChildDies
<1>4. ASSUME NEW h \in Handlers, Receive(h) \/ HandlerStep(h) PROVE UNCHANGED life \/ Quit(h) \/ Close(h)
  BY <1>1, <1>2, <1>4 DEF HandlerStep, VisionStep
<1>5. ASSUME WatchdogStep PROVE UNCHANGED life
  BY <1>1, <1>2, <1>3, <1>5 DEF WatchdogStep
<1> QED
  BY <1>2, <1>3, <1>4, <1>5 DEF Next, MainStep

\* A server that is up or draining was so before, unless the process has ended.
LEMMA GatewayStep ==
  ASSUME Next, gateway' \in {"up", "draining"}
  PROVE  gateway \in {"up", "draining"} /\ ~MainStop /\ ~Exit
<1>1. ~MainStop /\ ~Exit
  BY DEF MainStop, Exit
<1>2. CASE UNCHANGED life
  BY <1>1, <1>2 DEF life
<1>3. CASE Signal \/ \E h \in Handlers : Quit(h) \/ Close(h)
  BY <1>1, <1>3 DEF Signal, Quit, Close
<1> QED
  BY <1>1, <1>2, <1>3, LifeKept

\* Every step leaves the threads in order.
LEMMA ThreadsStep ==
  ASSUME BaseInv, Next
  PROVE  ThreadsOK' /\ MainIdle'
<1> USE DEF BaseInv
<1>0. Main \in Threads /\ Main \notin Handlers /\ Main # Watchdog
  BY BackendAssumption DEF Threads
<1>2. CASE \E x \in Threads : Ordinary(x)
  <2>1. PICK x \in Threads : Ordinary(x)
    BY <1>2
  <2>2. Quiet(x)
    BY <2>1, OrdinaryQuiet
  <2>3. ThreadsOK'
    BY <2>2, OthersPlaced DEF Quiet
  <2>4. x # Main \/ thread[Main].pc # "idle"
    <3>1. Subroutine(Main) => thread[Main].pc # "idle"
      BY <1>0, SubThreads DEF Sub
    <3> QED
      BY <1>0, <2>1, <3>1 DEF Ordinary
  <2>5. x # Main => thread'[Main] = thread[Main]
    BY <1>0, <2>2 DEF Goes, Quiet
  <2>6. ASSUME gateway' \in {"up", "draining"} PROVE thread'[Main].pc = "idle"
    BY <2>4, <2>5, <2>6, GatewayStep DEF MainIdle
  <2> QED
    BY <2>3, <2>6 DEF MainIdle
<1>3. CASE \E h \in Handlers : ChatEnter(h) \/ ChatLeave(h)
  <2>1. PICK h \in Handlers : ChatEnter(h) \/ ChatLeave(h)
    BY <1>3
  <2>2. Goes(h) /\ Placed(h)' /\ h \in Threads /\ h # Main
    BY <1>0, <2>1, GenerationStep DEF Threads
  <2>3. ThreadsOK'
    BY <2>2, OthersPlaced
  <2> QED
    BY <1>0, <2>2, <2>3, GatewayStep DEF Goes, MainIdle
<1>4. CASE \E h \in Handlers : Started(h) /\ thread[h].ok
  <2>1. PICK h \in Handlers : Started(h) /\ thread[h].ok
    BY <1>4
  <2>2. ThreadsOK' /\ \A y \in Threads \ {h, Watchdog} : thread'[y] = thread[y]
    BY <2>1, HandOverStep
  <2> QED
    BY <1>0, <2>2, GatewayStep DEF MainIdle
<1>5. CASE MainStop
  <2>1. thread[Main].pc = "idle"
    BY <1>5 DEF MainStop, MainIdle
  <2>2. Quiet(Main)
    BY <1>5, <2>1, MainStopStep
  <2>3. ThreadsOK'
    BY <1>0, <2>2, OthersPlaced DEF Quiet
  <2> QED
    BY <1>5, <2>3, GatewayStep DEF MainIdle
<1>6. CASE Exit
  BY <1>6, ExitStep, GatewayStep DEF MainIdle
<1>7. CASE Signal \/ ChildListens \/ ChildDies
  <2>1. UNCHANGED thread
    BY <1>7 DEF Signal, ChildListens, ChildDies
  <2> QED
    BY <2>1, GatewayStep DEF MainIdle, ThreadsOK, Placed, Place, Critical
<1> QED
  BY <1>2, <1>3, <1>4, <1>5, <1>6, <1>7, StepKinds

(***************************************************************************)
(* The generation gate.                                                    *)
(***************************************************************************)
\* The counter is the number of generations, and a visual turn excludes them.
Gate ==
    gateway # "down" => generating = Cardinality(Generations) /\ (specialist => Generations = {})

GateInv == BaseInv /\ Gate

\* Only a generation's beginning and end change the counter; only a visual turn that finds
\* it at zero closes the gate.
LEMMA GateFields ==
  ASSUME Next
  PROVE  /\ UNCHANGED generating \/ \E h \in Handlers : ChatEnter(h) \/ ChatLeave(h)
         /\ specialist' => specialist \/ (generating = 0 /\ gateway # "down")
         /\ gateway = "down" => UNCHANGED <<generating, gateway, thread, specialist>>
<1> USE DEF gate, life
<1> DEFINE P == UNCHANGED generating /\ (specialist' => specialist \/ (generating = 0 /\ gateway # "down"))
<1>1. ASSUME NEW x, Receive(x) \/ CheckIdle(x) \/ Differs(x) \/ Claim(x) \/ LockSelection(x) \/ Unlock(x)
                    \/ CommitVirtual(x) \/ Restart(x) \/ Restarted(x) \/ Rename(x) \/ Started(x) \/ Rollback(x)
      PROVE  P /\ gateway # "down"
  <2>1. ASSUME Receive(x) \/ CheckIdle(x) \/ Differs(x) \/ Claim(x) \/ LockSelection(x) \/ Unlock(x)
        PROVE  UNCHANGED gate /\ gateway # "down"
    BY <2>1 DEF Receive, CheckIdle, Differs, Claim, LockSelection, Unlock, At
  <2>2. ASSUME CommitVirtual(x) \/ Restart(x) \/ Restarted(x) \/ Rename(x) \/ Started(x) \/ Rollback(x)
        PROVE  UNCHANGED gate /\ gateway # "down"
    BY <2>2 DEF CommitVirtual, Restart, Restarted, Rename, Started, Rollback, Restore, MayStart,
                ClearSelection, At
  <2> QED
    BY <1>1, <2>1, <2>2
<1>2. ASSUME NEW x, ChatProbe(x) \/ VisionStep(x) \/ Quit(x) \/ Close(x) \/ Subroutine(x)
      PROVE  P /\ gateway # "down"
  BY <1>2 DEF ChatProbe, Quit, Close, VisionStep, VisionGate, VisionPause, VisionSession, VisionAnalyzed,
              VisionRelease, VisionUngate, Subroutine, Stop, Kill, Start, Record, At
<1>3. ASSUME NEW x, ChatEnter(x) \/ ChatLeave(x) PROVE UNCHANGED specialist /\ gateway # "down"
  BY <1>3 DEF ChatEnter, ChatLeave, At
<1>4. ASSUME WatchStopping \/ WatchPoll \/ WatchTimeout \/ WatchCommit \/ Signal \/ MainStop \/ Exit
      PROVE  P /\ gateway # "down"
  BY <1>4 DEF WatchStopping, WatchPoll, WatchTimeout, WatchCommit, Signal, MainStop, Exit, At
<1>5. ASSUME ChildListens \/ ChildDies PROVE P /\ UNCHANGED <<gateway, thread, specialist>>
  BY <1>5 DEF ChildListens, ChildDies
<1> HIDE DEF P
<1>6. ASSUME NEW h \in Handlers, Receive(h) \/ HandlerStep(h)
      PROVE  gateway # "down" /\ (P \/ ((ChatEnter(h) \/ ChatLeave(h)) /\ UNCHANGED specialist))
  BY <1>1, <1>2, <1>3, <1>6 DEF HandlerStep, VisionStep
<1>7. ASSUME WatchdogStep \/ MainStep PROVE P /\ gateway # "down"
  BY <1>1, <1>2, <1>4, <1>7 DEF WatchdogStep, MainStep
<1> QED
  BY <1>4, <1>5, <1>6, <1>7 DEF Next, P

\* The other steps neither begin nor end a generation.
LEMMA GenerationsKept ==
  ASSUME BaseInv, Next, ~Exit, ~\E h \in Handlers : ChatEnter(h) \/ ChatLeave(h)
  PROVE  Generations' = Generations
<1> USE DEF BaseInv
<1>0. Handlers \subseteq Threads /\ Main \in Threads /\ Watchdog \notin Handlers
  BY BackendAssumption DEF Threads
<1>1. ASSUME NEW x \in Threads, Quiet(x) PROVE Generations' = Generations
  <2>1. ASSUME NEW h \in Handlers PROVE thread'[h].pc = "generate" <=> thread[h].pc = "generate"
    BY <1>0, <1>1 DEF Quiet, Goes
  <2> QED
    BY <2>1 DEF Generations
<1>2. CASE \E x \in Threads : Ordinary(x)
  BY <1>1, <1>2, OrdinaryQuiet
<1>3. CASE \E h \in Handlers : Started(h) /\ thread[h].ok
  <2>1. PICK h \in Handlers : Started(h) /\ thread[h].ok
    BY <1>3
  <2>2. /\ thread[h].pc = "started" /\ thread'[h].pc = "idle"
        /\ \A y \in Threads \ {h, Watchdog} : thread'[y] = thread[y]
    BY <2>1, HandOverStep
  <2>3. ASSUME NEW y \in Handlers PROVE thread'[y].pc = "generate" <=> thread[y].pc = "generate"
    BY <1>0, <2>2
  <2> QED
    BY <2>3 DEF Generations
<1>4. CASE MainStop
  <2>1. thread[Main].pc = "idle"
    BY <1>4 DEF MainStop, MainIdle
  <2> QED
    BY <1>1, <1>4, <2>1, MainStopStep
<1>5. CASE Signal \/ ChildListens \/ ChildDies
  BY <1>5 DEF Signal, ChildListens, ChildDies, Generations
<1> QED
  BY <1>2, <1>3, <1>4, <1>5, StepKinds

\* The generations under way are finitely many.
LEMMA GenerationsFinite ==
  ASSUME NEW G, G \subseteq Handlers
  PROVE  IsFiniteSet(G) /\ Cardinality(G) \in 0 .. Cardinality(Handlers)
<1>1. IsFiniteSet(Handlers)
  BY BackendAssumption
<1>2. IsFiniteSet(G) /\ Cardinality(G) <= Cardinality(Handlers)
  BY <1>1, FS_Subset
<1>3. Cardinality(G) \in Nat /\ Cardinality(Handlers) \in Nat
  BY <1>1, <1>2, FS_CardinalityType
<1> QED
  BY <1>2, <1>3

\* A generation passes the gate.
LEMMA EnterGate ==
  ASSUME GateInv, NEW h \in Handlers, ChatEnter(h), thread'[h].pc = "generate"
  PROVE  /\ generating' = Cardinality(Generations') /\ ~specialist'
         /\ UNCHANGED gateway
<1>1. TypeOK /\ ThreadsOK /\ h \in Threads
  BY DEF GateInv, BaseInv, Threads
<1>2. thread[h].pc = "enter" /\ Goes(h) /\ gateway # "down"
  BY <1>1, GenerationStep DEF ChatEnter, At
<1>3. ~Return(h)
  BY <1>1, ReturnQuiet
<1>4. generating' = generating + 1 /\ ~specialist /\ UNCHANGED <<specialist, gateway>>
  BY <1>3 DEF ChatEnter, life
<1>5. Generations' = Generations \cup {h} /\ h \notin Generations
  <2>1. ASSUME NEW y \in Handlers PROVE y \in Generations' <=> y \in Generations \/ y = h
    BY <1>2, <2>1 DEF Goes, Generations, Threads
  <2> QED
    BY <1>2, <2>1 DEF Generations
<1>6. IsFiniteSet(Generations)
  BY GenerationsFinite DEF Generations
<1>7. Cardinality(Generations') = Cardinality(Generations) + 1
  BY <1>5, <1>6, FS_AddElement
<1> QED
  BY <1>2, <1>4, <1>7 DEF GateInv, Gate

\* A generation leaves.
LEMMA LeaveGate ==
  ASSUME GateInv, NEW h \in Handlers, ChatLeave(h)
  PROVE  generating' = Cardinality(Generations') /\ (specialist' => Generations' = {})
         /\ UNCHANGED gateway
<1>1. TypeOK /\ ThreadsOK /\ h \in Threads
  BY DEF GateInv, BaseInv, Threads
<1>2. thread[h].pc = "generate" /\ thread'[h].pc = "idle" /\ Goes(h) /\ gateway # "down"
  BY <1>1, GenerationStep DEF ChatLeave, At
<1>3. generating' = generating - 1 /\ UNCHANGED <<specialist, gateway>>
  BY DEF ChatLeave, life
<1>4. Generations' = Generations \ {h} /\ h \in Generations
  <2>1. ASSUME NEW y \in Handlers PROVE y \in Generations' <=> y \in Generations /\ y # h
    BY <1>2, <2>1 DEF Goes, Generations, Threads
  <2> QED
    BY <1>2, <2>1 DEF Generations
<1>5. IsFiniteSet(Generations)
  BY GenerationsFinite DEF Generations
<1>6. Cardinality(Generations') = Cardinality(Generations) - 1
  BY <1>4, <1>5, FS_RemoveElement
<1> QED
  BY <1>2, <1>3, <1>4, <1>6 DEF GateInv, Gate

\* Every step keeps the gate.
LEMMA GateStep ==
  ASSUME GateInv, Next
  PROVE  GateInv'
<1>1. BaseInv /\ Gate
  BY DEF GateInv
<1>2. TypeBase' /\ ChildrenOK' /\ ThreadsOK' /\ MainIdle'
  BY <1>1, BaseStep, ThreadsStep
<1>3. Gate' /\ (gateway' = "down" => UNCHANGED generating)
  <2>1. ASSUME NEW h \in Handlers, ChatLeave(h) \/ (ChatEnter(h) /\ thread'[h].pc = "generate")
        PROVE  Gate' /\ UNCHANGED gateway
    BY <2>1, EnterGate, LeaveGate DEF Gate
  <2>2. ASSUME NEW h \in Handlers, ChatLeave(h) \/ ChatEnter(h) PROVE gateway # "down"
    BY <2>2 DEF ChatEnter, ChatLeave, At
  <2>3. ASSUME NEW h \in Handlers, ChatEnter(h), thread'[h].pc # "generate"
        PROVE  Generations' = Generations /\ UNCHANGED <<generating, specialist>>
    <3>1. Quiet(h) /\ UNCHANGED generating /\ h \in Threads
      BY <1>1, <2>3, GenerationStep DEF BaseInv, Threads
    <3>2. ASSUME NEW y \in Handlers PROVE thread'[y].pc = "generate" <=> thread[y].pc = "generate"
      BY <3>1 DEF Quiet, Goes, Threads
    <3>3. UNCHANGED specialist
      BY <2>3 DEF ChatEnter
    <3> QED
      BY <3>1, <3>2, <3>3 DEF Generations
  <2>4. CASE Exit
    BY <2>4 DEF Exit, Gate, gate
  <2>5. ASSUME Generations' = Generations, UNCHANGED generating, gateway' # "down" PROVE Gate'
    <3>1. gateway # "down"
      BY <2>5, GateFields
    <3>2. generating = Cardinality(Generations) /\ (specialist => Generations = {})
      BY <1>1, <3>1 DEF Gate
    <3>3. generating = 0 => Generations = {}
      BY <3>2, GenerationsFinite, FS_EmptySet DEF Generations
    <3> QED
      BY <2>5, <3>2, <3>3, GateFields DEF Gate
  <2>6. CASE ~Exit /\ ~\E h \in Handlers : ChatEnter(h) \/ ChatLeave(h)
    BY <1>1, <2>5, <2>6, GenerationsKept, GateFields DEF Gate
  <2>7. ASSUME NEW h \in Handlers, ChatEnter(h) \/ ChatLeave(h) PROVE gateway' # "down"
    BY <2>2, <2>7 DEF ChatEnter, ChatLeave, life
  <2> QED
    BY <2>1, <2>3, <2>4, <2>5, <2>6, <2>7 DEF Gate
<1>4. generating' \in 0 .. Cardinality(Handlers)
  <2>1. CASE gateway' = "down"
    BY <1>1, <1>3, <2>1 DEF BaseInv, TypeOK
  <2>2. CASE gateway' # "down"
    <3>1. Generations' \subseteq Handlers
      BY DEF Generations
    <3>2. Cardinality(Generations') \in 0 .. Cardinality(Handlers)
      BY <3>1, GenerationsFinite
    <3> QED
      BY <1>3, <2>2, <3>2 DEF Gate
  <2> QED
    BY <2>1, <2>2
<1>5. TypeOK'
  BY <1>2, <1>4 DEF TypeBase, TypeOK, ChildrenOK, ChildRecords
<1> QED
  BY <1>2, <1>3, <1>5 DEF GateInv, BaseInv

\* A gateway that has just started.
LEMMA InitThreads ==
  ASSUME Init
  PROVE  BaseInv /\ \A x \in Threads : thread[x] = Idle /\ Place(x) = "idle" /\ ~Critical(x)
<1>1. \A x \in Threads : thread[x] = Idle
  BY DEF Init
<1>2. ThreadsOK
  BY <1>1, IdleState, IdlePlaced DEF Init, ThreadsOK
<1>3. children \subseteq ChildRecords /\ OwnPids
  <2>1. CASE children = {}
    BY <2>1 DEF OwnPids
  <2>2. CASE backendPid \in Pids /\ children = {Child(backendPid)}
    <3>1. Child(backendPid) \in ChildRecords
      BY <2>2 DEF Child, ChildRecords
    <3> QED
      BY <2>2, <3>1 DEF OwnPids
  <2> QED
    BY <2>1, <2>2 DEF Init
<1>4. TypeOK
  <2>1. 0 \in 0 .. Cardinality(Handlers)
    BY BackendAssumption, FS_CardinalityType
  <2> QED
    BY <1>3, <2>1 DEF Init, TypeOK, ChildRecords
<1>5. MainIdle
  BY <1>1, IdleState DEF MainIdle, Threads
<1> QED
  BY <1>1, <1>2, <1>3, <1>4, <1>5, IdlePlaced DEF BaseInv, ChildrenOK

\* The generation gate is sound whatever requests occur, for any number of handlers:
\* g->generating counts the generations under way, never goes below zero, and none of
\* them runs during a visual turn (generation_gate_mu, vision_turn_start).
THEOREM GateExclusiveHolds == Spec => []GateExclusive
<1>1. Init => GateInv
  <2> SUFFICES ASSUME Init PROVE GateInv
    OBVIOUS
  <2>1. BaseInv /\ \A x \in Threads : thread[x] = Idle
    BY InitThreads
  <2>2. Generations = {}
    BY <2>1, IdleState DEF Generations, Threads
  <2> QED
    BY <2>1, <2>2, FS_EmptySet DEF GateInv, Gate, Init
<1>2. GateInv /\ [Next]_vars => GateInv'
  <2>1. ASSUME GateInv, UNCHANGED vars PROVE GateInv'
    BY <2>1 DEF vars, GateInv, BaseInv, Gate, TypeOK, ThreadsOK, Placed, Place, Critical, ChildrenOK,
                OwnPids, MainIdle, Generations
  <2> QED
    BY <2>1, GateStep
<1>3. GateInv => GateExclusive
  BY DEF GateInv, BaseInv, Gate, GateExclusive
<1> QED
  BY <1>1, <1>2, <1>3, PTL DEF Spec

(***************************************************************************)
(* Switches.                                                               *)
(***************************************************************************)
\* One switch at a time: the slot and the lock exclude each other.
OneSwitch ==
    /\ \A x \in Threads : Place(x) \in OnSlot => active # None
    /\ \A x \in Threads : Place(x) \in OnLock => lock = x
    /\ \A x, y \in Threads : Critical(x) /\ Critical(y) => x = y

\* A gateway that closes has raised its flag.
Flagged ==
    /\ gateway # "up" => stopping
    /\ \A x \in Threads : Place(x) = "close" => stopping

\* What the switch of x has done so far to the backend and the selection file.
Agrees(x) ==
    /\ Place(x) \in OnLock \cup {"rename", "maystart", "clear"} => backend = file
    /\ Place(x) \in {"rename", "virtual", "restore"} => thread[x].prev = file
    /\ Place(x) \in {"started", "wait", "poll", "commit"} =>
          backend = thread[x].name /\ thread[x].prev = file

Settled ==
    ~stopping => /\ (\A x \in Threads : ~Critical(x)) => backend = file
                 /\ \A x \in Threads : Agrees(x)

SwitchInv == GateInv /\ OneSwitch /\ Flagged /\ Settled

\* Visual turns aside, who has stopped the old model and not forked a new one.
NoVisual == \A x \in Threads : Place(x) \notin Visuals

Emptied(x) ==
    /\ Critical(x)
    /\ \/ thread[x].pc \in {"kill", "start", "rename", "restore", "maystart", "virtual", "restart"}
       \/ thread[x].pc = "restarted" /\ ~thread[x].ok

\* At most one model is resident: none once the old one is stopped, and then only the one
\* that is about to be recorded.
Residents ==
    /\ \A c, d \in Resident : c = d
    /\ \A x \in Threads : Emptied(x) => Resident = {}
    /\ \A x \in Threads, c \in Resident : thread[x].pc = "record" => c.pid = thread[x].pid

ProcessInv == SwitchInv /\ NoVisual /\ Residents /\ Tracked

(***************************************************************************)
(* What a step does to a switch.                                           *)
(***************************************************************************)
\* A step outside any switch.
Outside(x) ==
    /\ Quiet(x) /\ ~Critical(x) /\ thread[x].pc \notin Sub
    /\ Place(x)' \in Plain /\ thread'[x].pc # "record" /\ UNCHANGED switch
    /\ Place(x)' = "close" => stopping'
    /\ Place(x)' \in Visuals => Place(x) \in Visuals \/ "vision" \in Enabled

\* A switch takes the slot or the lock.
Begins(x) ==
    /\ Quiet(x) /\ thread[x].pc \notin Sub /\ lock = None /\ active = None
    /\ thread'[x].pc = "stop" /\ thread'[x].prev = backend /\ UNCHANGED <<backend, file>>
    /\ \/ Place(x)' = "rename" /\ active' # None /\ UNCHANGED lock
       \/ Place(x)' \in {"virtual", "restart"} /\ lock' = x /\ UNCHANGED active

\* It gives it back.
Leaves(x) ==
    /\ Quiet(x) /\ thread[x].pc \notin Sub /\ Place(x) \in {"unlock", "clear"} /\ Place(x)' = "idle"
    /\ thread'[x].pc = "idle" /\ UNCHANGED <<backend, file>>

\* It goes on.
Runs(x) ==
    /\ Quiet(x) /\ UNCHANGED <<active, lock>> /\ thread[x].pc \notin Sub /\ thread'[x].pc # "record"
    /\ Emptied(x)' => Emptied(x)
    /\ \/ Proceeds(x, "virtual", "unlock") /\ (backend' = file' \/ (backend' = thread[x].prev /\ UNCHANGED file))
       \/ Proceeds(x, "rename", "started") /\ backend' = thread[x].name /\ UNCHANGED file
       \/ Proceeds(x, "restore", "maystart") /\ backend' = thread[x].prev /\ UNCHANGED file
       \/ Proceeds(x, "commit", "clear") /\ file' = thread[x].name /\ UNCHANGED backend
       \/ Proceeds(x, "wait", "clear") /\ stopping /\ UNCHANGED <<backend, file>>
       \/ /\ UNCHANGED <<backend, file>>
          /\ \/ Proceeds(x, "restart", "restarted") \/ Proceeds(x, "restarted", "unlock")
             \/ Proceeds(x, "started", "restore") \/ Proceeds(x, "maystart", "clear")
             \/ Proceeds(x, "wait", "poll") \/ Proceeds(x, "poll", "restore")
             \/ Proceeds(x, "poll", "commit") \/ Proceeds(x, "poll", "wait")
             \/ Proceeds(x, "commit", "restore")

\* The steps of a switch under the lock, and of its handler.
LEMMA HandlerRuns ==
  ASSUME ThreadsOK, NEW x \in Threads,
         \/ CommitVirtual(x) \/ Restart(x) \/ Restarted(x) \/ Rename(x) \/ (Started(x) /\ ~thread[x].ok)
         \/ Restore(x) \/ MayStart(x)
  PROVE  Runs(x)
<1> USE DEF switch
<1>1. CASE CommitVirtual(x)
  <2>1. Proceeds(x, "virtual", "unlock") /\ thread'[x].pc \in {"unlock", "start"}
    BY <1>1, LockedStep
  <2>2. Quiet(x) /\ thread[x].pc \notin Sub /\ Emptied(x)
    BY <2>1 DEF Proceeds, Sub, Emptied, Critical, OnLock
  <2>3. UNCHANGED <<active, lock>> /\ (backend' = file' \/ (backend' = thread[x].prev /\ UNCHANGED file))
    BY <1>1 DEF CommitVirtual
  <2> QED
    BY <2>1, <2>2, <2>3 DEF Runs
<1>2. CASE Restart(x)
  <2>1. Proceeds(x, "restart", "restarted") /\ thread'[x].pc = "start"
    BY <1>2, LockedStep
  <2>2. Quiet(x) /\ thread[x].pc \notin Sub /\ Emptied(x)
    BY <2>1 DEF Proceeds, Sub, Emptied, Critical, OnLock
  <2> QED
    BY <1>2, <2>1, <2>2 DEF Runs, Restart
<1>3. CASE Restarted(x)
  <2>1. Proceeds(x, "restarted", "unlock")
        /\ (thread'[x].pc = "unlock" \/ (thread'[x].pc = "start" /\ ~thread[x].ok))
    BY <1>3, LockedStep
  <2>2. Quiet(x) /\ thread[x].pc \notin Sub /\ (Emptied(x)' => Emptied(x))
    BY <2>1 DEF Proceeds, Sub, Emptied, Critical, OnLock
  <2> QED
    BY <1>3, <2>1, <2>2 DEF Runs, Restarted
<1>4. CASE Rename(x)
  <2>1. Proceeds(x, "rename", "started") /\ thread'[x].pc = "start"
    BY <1>4, RenameStep
  <2>2. Quiet(x) /\ thread[x].pc \notin Sub /\ Emptied(x)
    BY <2>1 DEF Proceeds, Sub, Emptied, Critical, OnSlot
  <2> QED
    BY <1>4, <2>1, <2>2 DEF Runs, Rename
<1>5. CASE Started(x) /\ ~thread[x].ok
  <2>1. Proceeds(x, "started", "restore") /\ thread'[x].pc = "stop"
    BY <1>5, FailedStep
  <2>2. Quiet(x) /\ thread[x].pc \notin Sub /\ ~Emptied(x)'
    BY <2>1 DEF Proceeds, Sub, Emptied
  <2> QED
    BY <1>5, <2>1, <2>2 DEF Runs, Started
<1>6. CASE Restore(x)
  <2>1. Proceeds(x, "restore", "maystart") /\ thread'[x].pc = "maystart"
    BY <1>6, RollbackStep
  <2>2. Quiet(x) /\ thread[x].pc \notin Sub /\ Emptied(x)
    BY <2>1 DEF Proceeds, Sub, Emptied, Critical, OnSlot
  <2> QED
    BY <1>6, <2>1, <2>2 DEF Runs, Restore
<1>7. CASE MayStart(x)
  <2>1. Proceeds(x, "maystart", "clear") /\ thread'[x].pc \in {"clear", "start"}
    BY <1>7, RollbackStep
  <2>2. Quiet(x) /\ thread[x].pc \notin Sub /\ Emptied(x)
    BY <2>1 DEF Proceeds, Sub, Emptied, Critical, OnSlot
  <2> QED
    BY <1>7, <2>1, <2>2 DEF Runs, MayStart
<1> QED
  BY <1>1, <1>2, <1>3, <1>4, <1>5, <1>6, <1>7

\* The steps of the watchdog.
LEMMA WatchRuns ==
  ASSUME ThreadsOK, WatchStopping \/ WatchPoll \/ WatchTimeout \/ WatchCommit
  PROVE  Runs(Watchdog)
<1> USE DEF switch
<1>1. \/ thread'[Watchdog].pc \in {"clear", "poll", "commit", "wait"}
      \/ thread'[Watchdog].pc = "stop"
  BY WatchStep
<1>2. ~Emptied(Watchdog)' /\ thread'[Watchdog].pc # "record"
  BY <1>1 DEF Emptied
<1>3. Quiet(Watchdog) /\ thread[Watchdog].pc \notin Sub
  BY WatchStep DEF Proceeds, Sub
<1>4. CASE WatchStopping
  BY <1>2, <1>3, <1>4, WatchStep DEF Runs, WatchStopping
<1>5. CASE WatchPoll \/ WatchTimeout
  BY <1>2, <1>3, <1>5, WatchStep DEF Runs, WatchPoll, WatchTimeout
<1>6. CASE WatchCommit
  BY <1>2, <1>3, <1>6, WatchStep DEF Runs, WatchCommit
<1> QED
  BY <1>4, <1>5, <1>6

\* That is all a thread does, subroutines aside.
LEMMA Moves ==
  ASSUME TypeOK, ThreadsOK, NEW x \in Threads, Ordinary(x)
  PROVE  Outside(x) \/ Begins(x) \/ Leaves(x) \/ Runs(x) \/ Subroutine(x)
<1> USE DEF switch
<1>0. /\ {"check", "probe", "quit", "idle", "lock", "differs", "claim", "enter", "close"} \subseteq Plain \ Visuals
      /\ Visuals \subseteq Plain /\ "close" \notin Visuals /\ "gate" # "close"
  BY DEF Plain, Visuals
<1>1. CASE x \in Handlers /\ Receive(x)
  <2>1. /\ Quiet(x) /\ Place(x) = "idle"
        /\ Place(x)' \in {"check", "probe", "quit"} \/ (Place(x)' = "gate" /\ "vision" \in Enabled)
    BY <1>1, ReceiveStep
  <2>2. ~Critical(x) /\ thread[x].pc \notin Sub
    BY <1>1, <2>1, IdleState DEF Critical, OnSlot, OnLock, Receive, Sub
  <2>3. thread'[x].pc # "record"
    BY <2>1 DEF Quiet, Placed, Place, Sub, Starting
  <2>4. Place(x)' \in Plain
    BY <1>0, <2>1 DEF Plain
  <2> QED
    BY <1>0, <1>1, <2>1, <2>2, <2>3, <2>4 DEF Outside, Receive
<1>2. CASE x \in Handlers /\ (CheckIdle(x) \/ Differs(x))
  <2>1. Quiet(x) /\ Place(x) \in Plain /\ Place(x)' \in {"idle", "lock", "differs", "claim"}
    BY <1>2, CheckStep
  <2>2. ~Critical(x) /\ thread[x].pc \notin Sub
    BY <1>2, <2>1, PlainPlace DEF CheckIdle, Differs, At, Sub
  <2>3. thread'[x].pc # "record"
    BY <2>1 DEF Quiet, Placed, Place, Sub, Starting
  <2> QED
    BY <1>0, <1>2, <2>1, <2>2, <2>3 DEF Outside, CheckIdle, Differs
<1>3. CASE x \in Handlers /\ (ChatProbe(x) \/ Quit(x) \/ Close(x))
  <2>1. Quiet(x) /\ Place(x) \in Plain /\ Place(x)' \in {"enter", "idle", "close"}
        /\ (Place(x)' = "close" => Quit(x))
    BY <1>3, ChatQuietStep
  <2>2. ~Critical(x) /\ thread[x].pc \notin Sub
    BY <1>3, <2>1, PlainPlace DEF ChatProbe, Quit, Close, At, Sub
  <2>3. thread'[x].pc # "record"
    BY <2>1 DEF Quiet, Placed, Place, Sub, Starting
  <2>4. Place(x)' = "close" => stopping'
    BY <2>1 DEF Quit
  <2> QED
    BY <1>0, <1>3, <2>1, <2>2, <2>3, <2>4 DEF Outside, ChatProbe, Quit, Close
<1>4. CASE x \in Handlers /\ VisionStep(x)
  <2>1. /\ Quiet(x) /\ Place(x) \in Visuals /\ Place(x)' \in Visuals \cup {"idle"}
        /\ Place(x) = thread[x].pc /\ thread'[x].pc # "record"
    BY <1>4, VisionThread
  <2>2. ~Critical(x) /\ thread[x].pc \notin Sub
    BY <2>1 DEF Critical, Visuals, OnSlot, OnLock, Sub
  <2>3. UNCHANGED switch
    BY <1>4 DEF VisionStep, VisionGate, VisionPause, VisionSession, VisionAnalyzed, VisionRelease, VisionUngate
  <2>4. Place(x)' \in Plain /\ Place(x)' # "close"
    BY <1>0, <2>1 DEF Plain
  <2> QED
    BY <2>1, <2>2, <2>3, <2>4 DEF Outside
<1>5. CASE x \in Handlers /\ (Claim(x) \/ LockSelection(x))
  <2>1. Quiet(x) /\ Place(x) \in Plain /\ thread[x].pc \notin Sub /\ UNCHANGED <<backend, file>> /\ lock = None
    BY <1>5, EnterStep DEF Claim, LockSelection, At, Sub
  <2>2. CASE Place(x)' = "idle" /\ UNCHANGED <<active, lock>>
    <3>1. thread'[x].pc # "record"
      BY <2>1, <2>2 DEF Quiet, Placed, Place, Sub, Starting
    <3> QED
      BY <1>0, <2>1, <2>2, <3>1, PlainPlace DEF Outside
  <2>3. CASE ~(Place(x)' = "idle" /\ UNCHANGED <<active, lock>>)
    BY <1>5, <2>1, <2>3, EnterStep, BackendAssumption DEF Begins
  <2> QED
    BY <2>2, <2>3
<1>6. CASE Unlock(x) \/ ClearSelection(x)
  <2>1. Quiet(x) /\ Place(x) \in {"unlock", "clear"} /\ Place(x)' = "idle"
    BY <1>6, LeaveStep
  <2>2. thread'[x].pc = "idle" /\ thread[x].pc \notin Sub
    BY <1>6, ReturnQuiet DEF Unlock, ClearSelection, At, Sub
  <2> QED
    BY <1>6, <2>1, <2>2 DEF Leaves, Unlock, ClearSelection
<1>7. CASE \/ CommitVirtual(x) \/ Restart(x) \/ Restarted(x) \/ Rename(x) \/ (Started(x) /\ ~thread[x].ok)
           \/ Restore(x) \/ MayStart(x)
  BY <1>7, HandlerRuns
<1>8. CASE x = Watchdog /\ (WatchStopping \/ WatchPoll \/ WatchTimeout \/ WatchCommit)
  BY <1>8, WatchRuns
<1> QED
  BY <1>1, <1>2, <1>3, <1>4, <1>5, <1>6, <1>7, <1>8 DEF Ordinary, Rollback

(***************************************************************************)
(* Every step keeps the switch in order.                                   *)
(***************************************************************************)
\* A thread outside a switch says nothing about the backend or the model processes.
LEMMA NotInSwitch ==
  ASSUME NEW x
  PROVE  /\ ~Critical(x) => Agrees(x) /\ ~Emptied(x)
         /\ ~Critical(x)' => Agrees(x)' /\ ~Emptied(x)'
  BY DEF Agrees, Emptied, Critical, OnSlot, OnLock

\* backend_start is called within a switch only.
LEMMA StartsInSwitch ==
  ASSUME ThreadsOK, NoVisual, NEW x \in Threads, thread[x].pc \in {"start", "record"}
  PROVE  Critical(x)
<1>1. thread[x].ret \in Starting /\ Place(x) = thread[x].ret
  BY DEF ThreadsOK, Placed, Place, Sub
<1>2. Place(x) \notin Visuals
  BY DEF NoVisual
<1> QED
  BY <1>1, <1>2 DEF Starting, Visuals, Critical, OnSlot, OnLock

\* Nothing is under way when the slot and the lock are free.
LEMMA FreeSlot ==
  ASSUME OneSwitch, active = None, lock = None, NEW x \in Threads
  PROVE  ~Critical(x)
<1>1. x # None
  BY BackendAssumption
<1> QED
  BY <1>1 DEF OneSwitch, Critical

\* The slot and the lock.
LEMMA OneSwitchStep ==
  ASSUME SwitchInv, Next
  PROVE  OneSwitch'
<1> USE DEF SwitchInv, GateInv, BaseInv
<1>0. Handlers \subseteq Threads /\ Main \in Threads /\ Watchdog \in Threads
  BY DEF Threads
<1>1. ASSUME NEW x \in Threads, Goes(x), ~Critical(x)', UNCHANGED switch
      PROVE  OneSwitch'
  <2>1. ASSUME NEW y \in Threads, y # x PROVE Place(y)' = Place(y) /\ (Critical(y)' <=> Critical(y))
    BY <1>1, <2>1, OthersStay
  <2>2. Place(x)' \notin OnSlot /\ Place(x)' \notin OnLock
    BY <1>1 DEF Critical
  <2>3. UNCHANGED <<active, lock>>
    BY <1>1 DEF switch
  <2> QED
    BY <1>1, <2>1, <2>2, <2>3 DEF OneSwitch
<1>2. ASSUME NEW x \in Threads, Goes(x), \A y \in Threads \ {x} : ~Critical(y),
             Place(x)' \in OnSlot => active' # None, Place(x)' \in OnLock => lock' = x
      PROVE  OneSwitch'
  <2>1. ASSUME NEW y \in Threads, y # x PROVE Place(y)' = Place(y) /\ ~Critical(y)'
    BY <1>2, <2>1, OthersStay
  <2>2. ASSUME NEW y \in Threads, y # x PROVE Place(y)' \notin OnSlot /\ Place(y)' \notin OnLock
    BY <2>1, <2>2 DEF Critical
  <2> QED
    BY <1>2, <2>1, <2>2 DEF OneSwitch
<1>3. ASSUME NEW x \in Threads, Critical(x) PROVE \A y \in Threads \ {x} : ~Critical(y)
  BY <1>3 DEF OneSwitch
<1>4. CASE \E x \in Threads : Ordinary(x)
  <2>1. PICK x \in Threads : Ordinary(x)
    BY <1>4
  <2>2. CASE Outside(x)
    <3>1. ~Critical(x)'
      BY <2>2 DEF Outside, Critical, Plain, OnSlot, OnLock
    <3> QED
      BY <1>1, <2>2, <3>1 DEF Outside, Quiet
  <2>3. CASE Begins(x)
    <3>1. \A y \in Threads \ {x} : ~Critical(y)
      BY <2>3, FreeSlot DEF Begins
    <3>2. /\ Place(x)' \in OnSlot => active' # None
          /\ Place(x)' \in OnLock => lock' = x
      BY <2>3 DEF Begins, OnSlot, OnLock
    <3> QED
      BY <1>2, <2>3, <3>1, <3>2 DEF Begins, Quiet
  <2>4. CASE Leaves(x)
    <3>1. Critical(x) /\ Place(x)' \notin OnSlot \cup OnLock
      BY <2>4 DEF Leaves, Critical, OnSlot, OnLock
    <3> QED
      BY <1>2, <1>3, <2>4, <3>1 DEF Leaves, Quiet
  <2>5. CASE Runs(x)
    <3>1. /\ Critical(x)
          /\ (Place(x)' \in OnSlot => Place(x) \in OnSlot) /\ (Place(x)' \in OnLock => Place(x) \in OnLock)
      BY <2>5 DEF Runs, Proceeds, Critical, OnSlot, OnLock
    <3>2. (Place(x)' \in OnSlot => active' # None) /\ (Place(x)' \in OnLock => lock' = x)
      BY <2>5, <3>1 DEF Runs, OneSwitch
    <3> QED
      BY <1>2, <1>3, <2>5, <3>1, <3>2 DEF Runs, Quiet
  <2>6. CASE Subroutine(x)
    <3>1. Goes(x) /\ Place(x)' = Place(x)
      BY <2>6, SubThreads DEF Quiet
    <3>2. UNCHANGED switch
      BY <2>6 DEF Subroutine, Stop, Kill, Start, Record, switch
    <3>3. ASSUME NEW y \in Threads PROVE Place(y)' = Place(y)
      BY <3>1, OthersStay
    <3> QED
      BY <3>2, <3>3 DEF OneSwitch, Critical, switch
  <2> QED
    BY <2>1, <2>2, <2>3, <2>4, <2>5, <2>6, Moves
<1>5. CASE \E h \in Handlers : ChatEnter(h) \/ ChatLeave(h)
  <2>1. PICK h \in Handlers : ChatEnter(h) \/ ChatLeave(h)
    BY <1>5
  <2>2. Goes(h) /\ Place(h)' \in {"idle", "generate"} /\ UNCHANGED switch
    BY <2>1, GenerationStep DEF ChatEnter, ChatLeave
  <2> QED
    BY <1>0, <1>1, <2>2 DEF Critical, OnSlot, OnLock
<1>6. CASE \E h \in Handlers : Started(h) /\ thread[h].ok
  <2>1. PICK h \in Handlers : Started(h) /\ thread[h].ok
    BY <1>6
  <2>2. /\ h \in Threads /\ h # Watchdog /\ Place(h) = "started" /\ Place(h)' = "idle" /\ Place(Watchdog)' = "wait"
        /\ \A y \in Threads \ {h, Watchdog} : Place(y)' = Place(y)
    BY <2>1, HandOverStep
  <2>3. Critical(h) /\ active # None
    BY <2>2 DEF Critical, OneSwitch, OnSlot
  <2>4. ASSUME NEW y \in Threads, y # Watchdog PROVE ~Critical(y)'
    <3>1. CASE y = h
      BY <2>2, <3>1 DEF Critical, OnSlot, OnLock
    <3>2. CASE y # h
      BY <1>3, <2>2, <2>3, <2>4, <3>2 DEF Critical
    <3> QED
      BY <3>1, <3>2
  <2>5. ASSUME NEW y \in Threads, y # Watchdog PROVE Place(y)' \notin OnSlot /\ Place(y)' \notin OnLock
    BY <2>4, <2>5 DEF Critical
  <2>6. active' # None
    BY <2>1, <2>3 DEF Started, switch
  <2>7. Place(Watchdog)' \notin OnLock
    BY <2>2 DEF OnLock
  <2> QED
    BY <2>4, <2>5, <2>6, <2>7 DEF OneSwitch
<1>7. CASE MainStop
  <2>1. thread[Main].pc = "idle"
    BY <1>7 DEF MainStop, MainIdle
  <2>2. Quiet(Main) /\ Place(Main)' = "exit" /\ UNCHANGED switch
    BY <1>7, <2>1, MainStopStep DEF MainStop
  <2> QED
    BY <1>0, <1>1, <2>2 DEF Critical, OnSlot, OnLock, Quiet
<1>8. CASE Exit
  <2>1. \A x \in Threads : Place(x)' = "idle"
    BY <1>8, ExitStep
  <2> QED
    BY <2>1 DEF OneSwitch, Critical, OnSlot, OnLock
<1>9. CASE Signal \/ ChildListens \/ ChildDies
  <2>1. UNCHANGED <<thread, active, lock>>
    BY <1>9 DEF Signal, ChildListens, ChildDies, switch
  <2> QED
    BY <2>1 DEF OneSwitch, Critical, Place
<1> QED
  BY <1>4, <1>5, <1>6, <1>7, <1>8, <1>9, StepKinds

\* The flag.
LEMMA FlaggedStep ==
  ASSUME SwitchInv, Next
  PROVE  Flagged' /\ (stopping => stopping')
<1> USE DEF SwitchInv, GateInv, BaseInv
<1>0. Handlers \subseteq Threads /\ Main \in Threads
  BY DEF Threads
<1>1. (stopping => stopping') /\ (gateway' # "up" => stopping')
  <2>1. CASE UNCHANGED life
    BY <2>1 DEF life, Flagged
  <2>2. CASE \E h \in Handlers : Quit(h)
    BY <2>2 DEF Quit, TypeOK
  <2>3. CASE \E h \in Handlers : Close(h)
    <3>1. PICK h \in Handlers : Close(h)
      BY <2>3
    <3>2. Place(h) = "close"
      BY <3>1, ChatQuietStep
    <3> QED
      BY <1>0, <3>1, <3>2 DEF Close, Flagged
  <2>4. CASE Signal
    BY <2>4 DEF Signal
  <2>5. CASE MainStop
    BY <2>5 DEF MainStop, Flagged
  <2>6. CASE Exit
    <3>1. gateway # "up"
      <4>1. thread[Main].pc # "idle"
        BY <2>6 DEF Exit, At
      <4> QED
        BY <4>1 DEF MainIdle
    <3> QED
      BY <2>6, <3>1 DEF Exit, Flagged
  <2> QED
    BY <2>1, <2>2, <2>3, <2>4, <2>5, <2>6, LifeKept
<1>2. ASSUME NEW x \in Threads, Goes(x), Place(x)' = "close" => stopping' PROVE Flagged'
  <2>1. ASSUME NEW y \in Threads, y # x PROVE Place(y)' = Place(y)
    BY <1>2, <2>1, OthersStay
  <2> QED
    BY <1>1, <1>2, <2>1 DEF Flagged
<1>3. CASE \E x \in Threads : Ordinary(x)
  <2>1. PICK x \in Threads : Ordinary(x)
    BY <1>3
  <2>2. CASE Outside(x)
    BY <1>1, <1>2, <2>2 DEF Outside, Quiet
  <2>3. CASE Begins(x) \/ Leaves(x) \/ Runs(x)
    <3>1. Goes(x) /\ Place(x)' # "close"
      BY <2>3 DEF Begins, Leaves, Runs, Proceeds, Quiet
    <3> QED
      BY <1>1, <1>2, <3>1
  <2>4. CASE Subroutine(x)
    BY <1>1, <1>2, <2>4, SubThreads DEF Quiet, Flagged
  <2> QED
    BY <2>1, <2>2, <2>3, <2>4, Moves
<1>4. CASE \E h \in Handlers : ChatEnter(h) \/ ChatLeave(h)
  BY <1>0, <1>1, <1>2, <1>4, GenerationStep
<1>5. CASE \E h \in Handlers : Started(h) /\ thread[h].ok
  <2>1. PICK h \in Handlers : Started(h) /\ thread[h].ok
    BY <1>5
  <2>2. /\ Place(h)' = "idle" /\ Place(Watchdog)' = "wait"
        /\ \A y \in Threads \ {h, Watchdog} : Place(y)' = Place(y)
    BY <2>1, HandOverStep
  <2> QED
    BY <1>1, <2>2 DEF Flagged
<1>6. CASE MainStop
  <2>1. thread[Main].pc = "idle"
    BY <1>6 DEF MainStop, MainIdle
  <2> QED
    BY <1>0, <1>1, <1>2, <1>6, <2>1, MainStopStep DEF Quiet
<1>7. CASE Exit
  BY <1>1, <1>7, ExitStep DEF Flagged
<1>8. CASE Signal \/ ChildListens \/ ChildDies
  <2>1. UNCHANGED thread
    BY <1>8 DEF Signal, ChildListens, ChildDies
  <2> QED
    BY <1>1, <2>1 DEF Flagged, Place
<1> QED
  BY <1>1, <1>3, <1>4, <1>5, <1>6, <1>7, <1>8, StepKinds

\* The backend and the selection file.
LEMMA SettledStep ==
  ASSUME SwitchInv, Next
  PROVE  Settled'
<1> USE DEF SwitchInv, GateInv, BaseInv
<1> SUFFICES ASSUME ~stopping' PROVE Settled'
  BY DEF Settled
<1>0. Handlers \subseteq Threads /\ Main \in Threads /\ Watchdog \in Threads
  BY DEF Threads
<1>1. ~stopping /\ gateway = "up"
  BY FlaggedStep DEF Flagged
<1>2. ((\A x \in Threads : ~Critical(x)) => backend = file) /\ \A x \in Threads : Agrees(x)
  BY <1>1 DEF Settled
<1>3. ASSUME NEW x \in Threads, Critical(x) PROVE \A y \in Threads \ {x} : ~Critical(y)
  BY <1>3 DEF OneSwitch
<1>4. ASSUME NEW x \in Threads, Goes(x), ~Critical(x), ~Critical(x)', UNCHANGED <<backend, file>>
      PROVE  Settled'
  <2>1. ASSUME NEW y \in Threads PROVE Agrees(y)' /\ (Critical(y)' <=> Critical(y))
    <3>1. CASE y = x
      BY <1>4, <3>1, NotInSwitch
    <3>2. CASE y # x
      <4>1. thread'[y] = thread[y] /\ Place(y)' = Place(y) /\ (Critical(y)' <=> Critical(y)) /\ Agrees(y)
        BY <1>2, <1>4, <3>2, OthersStay
      <4> QED
        BY <1>4, <4>1 DEF Agrees
    <3> QED
      BY <3>1, <3>2
  <2> QED
    BY <1>2, <1>4, <2>1 DEF Settled
<1>5. ASSUME NEW x \in Threads, Goes(x), \A y \in Threads \ {x} : ~Critical(y),
             Agrees(x)', Critical(x)' \/ backend' = file'
      PROVE  Settled'
  <2>1. ASSUME NEW y \in Threads PROVE Agrees(y)'
    BY <1>5, OthersStay, NotInSwitch
  <2> QED
    BY <1>5, <2>1 DEF Settled
<1>6. CASE \E x \in Threads : Ordinary(x)
  <2>1. PICK x \in Threads : Ordinary(x)
    BY <1>6
  <2>2. CASE Outside(x)
    <3>1. ~Critical(x)'
      BY <2>2 DEF Outside, Critical, Plain, OnSlot, OnLock
    <3> QED
      BY <1>4, <2>2, <3>1 DEF Outside, Quiet, switch
  <2>3. CASE Begins(x)
    <3>1. \A y \in Threads : ~Critical(y)
      BY <2>3, FreeSlot DEF Begins
    <3>2. backend = file /\ UNCHANGED <<backend, file>> /\ thread'[x].prev = backend
      BY <1>2, <2>3, <3>1 DEF Begins
    <3>3. Place(x)' \in {"rename", "virtual", "restart"}
      BY <2>3 DEF Begins
    <3>4. Agrees(x)' /\ Critical(x)'
      BY <3>2, <3>3 DEF Agrees, Critical, OnSlot, OnLock
    <3> QED
      BY <1>5, <2>3, <3>1, <3>4 DEF Begins, Quiet
  <2>4. CASE Leaves(x)
    <3>1. Critical(x) /\ backend = file /\ ~Critical(x)'
      BY <1>2, <2>4 DEF Leaves, Agrees, Critical, OnSlot, OnLock
    <3>2. Agrees(x)'
      BY <3>1, NotInSwitch
    <3> QED
      BY <1>3, <1>5, <2>4, <3>1, <3>2 DEF Leaves, Quiet
  <2>5. CASE Runs(x)
    <3>1. Agrees(x)
      BY <1>2
    <3>2. Critical(x) /\ Critical(x)'
      BY <2>5 DEF Runs, Proceeds, Critical, OnSlot, OnLock
    <3>3. Agrees(x)'
      BY <1>1, <2>5, <3>1 DEF Runs, Proceeds, Keeps, Agrees, OnLock
    <3> QED
      BY <1>3, <1>5, <2>5, <3>2, <3>3 DEF Runs, Quiet
  <2>6. CASE Subroutine(x)
    <3>1. Goes(x) /\ Place(x)' = Place(x) /\ thread'[x].name = thread[x].name /\ thread'[x].prev = thread[x].prev
      BY <2>6, SubThreads DEF Quiet, Keeps
    <3>2. UNCHANGED <<backend, file>>
      BY <2>6 DEF Subroutine, Stop, Kill, Start, Record, switch
    <3>3. ASSUME NEW y \in Threads
          PROVE  Place(y)' = Place(y) /\ thread'[y].name = thread[y].name /\ thread'[y].prev = thread[y].prev
      BY <3>1, OthersStay
    <3>4. ASSUME NEW y \in Threads PROVE Agrees(y)' /\ (Critical(y)' <=> Critical(y))
      <4>1. Agrees(y)
        BY <1>2
      <4> QED
        BY <3>2, <3>3, <4>1 DEF Agrees, Critical
    <3> QED
      BY <1>2, <3>2, <3>4 DEF Settled
  <2> QED
    BY <2>1, <2>2, <2>3, <2>4, <2>5, <2>6, Moves
<1>7. CASE \E h \in Handlers : ChatEnter(h) \/ ChatLeave(h)
  <2>1. PICK h \in Handlers : ChatEnter(h) \/ ChatLeave(h)
    BY <1>7
  <2>2. /\ Goes(h) /\ Place(h) \in {"enter", "generate"} /\ Place(h)' \in {"idle", "generate"}
        /\ UNCHANGED <<backend, file>>
    BY <2>1, GenerationStep DEF ChatEnter, ChatLeave, switch
  <2>3. ~Critical(h) /\ ~Critical(h)'
    BY <2>2 DEF Critical, OnSlot, OnLock
  <2> QED
    BY <1>0, <1>4, <2>2, <2>3
<1>8. CASE \E h \in Handlers : Started(h) /\ thread[h].ok
  <2>1. PICK h \in Handlers : Started(h) /\ thread[h].ok
    BY <1>8
  <2>2. /\ h \in Threads /\ h # Watchdog /\ Place(h) = "started" /\ Place(h)' = "idle" /\ Place(Watchdog)' = "wait"
        /\ thread'[Watchdog].name = thread[h].name /\ thread'[Watchdog].prev = thread[h].prev
        /\ \A y \in Threads \ {h, Watchdog} : Place(y)' = Place(y)
    BY <2>1, HandOverStep
  <2>3. Critical(h) /\ backend = thread[h].name /\ thread[h].prev = file /\ UNCHANGED <<backend, file>>
    <3>1. Agrees(h)
      BY <1>2, <2>2
    <3> QED
      BY <2>1, <2>2, <3>1 DEF Critical, OnSlot, Agrees, Started, switch
  <2>4. Agrees(Watchdog)' /\ Critical(Watchdog)'
    BY <2>2, <2>3 DEF Agrees, Critical, OnSlot, OnLock
  <2>5. ASSUME NEW y \in Threads, y # Watchdog PROVE ~Critical(y)'
    <3>1. CASE y = h
      BY <2>2, <3>1 DEF Critical, OnSlot, OnLock
    <3>2. CASE y # h
      BY <1>3, <2>2, <2>3, <2>5, <3>2 DEF Critical
    <3> QED
      BY <3>1, <3>2
  <2>6. ASSUME NEW y \in Threads PROVE Agrees(y)'
    BY <2>4, <2>5, NotInSwitch
  <2> QED
    BY <1>0, <2>4, <2>6 DEF Settled
<1>9. ~MainStop /\ ~Exit /\ ~Signal
  BY <1>1 DEF MainStop, Exit, Signal, At, MainIdle
<1>10. CASE ChildListens \/ ChildDies
  <2>1. UNCHANGED <<thread, backend, file>>
    BY <1>10 DEF ChildListens, ChildDies, switch
  <2> QED
    BY <1>2, <2>1 DEF Settled, Agrees, Critical, Place
<1> QED
  BY <1>6, <1>7, <1>8, <1>9, <1>10, StepKinds

(***************************************************************************)
(* The model processes of a switch.                                        *)
(***************************************************************************)
\* A step that neither forks nor records a child, nor begins to.
LEMMA ResidentsKept ==
  ASSUME ProcessInv, Shrinks, gateway' # "down" => gateway # "down",
         backendPid' = backendPid \/ \A c \in Resident' : c.pid # backendPid,
         \A y \in Threads : Emptied(y)' => Emptied(y),
         \A y \in Threads : thread'[y].pc = "record" => thread[y].pc = "record" /\ thread'[y].pid = thread[y].pid,
         gateway' # "down" => \A y \in Threads : thread[y].pc = "record" =>
                                  thread'[y].pc = "record" /\ thread'[y].pid = thread[y].pid
  PROVE  Residents' /\ Tracked'
<1>1. Residents /\ Tracked
  BY DEF ProcessInv
<1>2. OwnPids' /\ \A c \in Resident' : \E d \in Resident : d.pid = c.pid
  BY DEF Shrinks, ChildrenOK
<1>3. ASSUME NEW c \in Resident', NEW d \in Resident' PROVE c = d
  <2>1. c.pid = d.pid
    BY <1>1, <1>2 DEF Residents
  <2> QED
    BY <1>2, <2>1 DEF OwnPids, Resident
<1>4. ASSUME NEW y \in Threads, Emptied(y)' PROVE Resident' = {}
  BY <1>1, <1>2, <1>4 DEF Residents
<1>5. ASSUME NEW y \in Threads, NEW c \in Resident', thread'[y].pc = "record" PROVE c.pid = thread'[y].pid
  BY <1>1, <1>2, <1>5 DEF Residents
<1>6. Residents'
  BY <1>3, <1>4, <1>5 DEF Residents
<1>7. ASSUME gateway' # "down", NEW c \in Resident'
      PROVE  c.pid = backendPid' \/ \E y \in Threads : thread'[y].pc = "record" /\ thread'[y].pid = c.pid
  <2>1. PICK d \in Resident : d.pid = c.pid
    BY <1>2
  <2>2. d.pid = backendPid \/ \E y \in Threads : thread[y].pc = "record" /\ thread[y].pid = d.pid
    BY <1>1, <1>7 DEF Tracked
  <2> QED
    BY <1>7, <2>1, <2>2
<1> QED
  BY <1>6, <1>7 DEF Tracked

\* backend_stop in a switch leaves no model; elsewhere (shutdown) it leaves one that is
\* about to be recorded.
LEMMA StopResidents ==
  ASSUME ProcessInv, NEW x \in Threads, Stop(x)
  PROVE  Residents' /\ Tracked'
<1> USE DEF ProcessInv, SwitchInv, GateInv, BaseInv
<1>1. /\ Shrinks /\ \A c \in Resident' : c \in Resident /\ c.pid # backendPid
  BY StopChildren
<1>2. /\ Quiet(x) /\ Place(x)' = Place(x) /\ thread[x].pc = "stop" /\ gateway # "down"
      /\ UNCHANGED gateway
  BY SubThreads DEF Subroutine, Stop, At, life
<1>3. thread'[x].pc # "record"
  <2>1. /\ thread' = [thread EXCEPT ![x].pid = backendPid,
                               ![x].pc = IF backendPid = None THEN thread[x].ret ELSE "kill"]
    BY DEF Stop
  <2>2. thread'[x].pc \in {thread[x].ret, "kill"} /\ thread[x].ret \in Stopping
    BY <1>2, <2>1, StopEffect DEF ThreadsOK, Placed
  <2> QED
    BY <2>2 DEF Stopping
<1>4. ASSUME NEW y \in Threads, y # x
      PROVE  thread'[y] = thread[y] /\ (Emptied(y)' <=> Emptied(y))
  BY <1>2, <1>4, OthersStay DEF Quiet, Emptied
<1>5. CASE Critical(x)
  <2>1. ASSUME NEW y \in Threads PROVE thread[y].pc # "record"
    BY <1>2, <1>5, StartsInSwitch DEF OneSwitch
  <2>2. Resident' = {}
    BY <1>1, <1>2, <2>1 DEF Tracked
  <2> QED
    BY <2>2 DEF Residents, Tracked
<1>6. CASE ~Critical(x)
  <2>1. ~Emptied(x)'
    BY <1>2, <1>6 DEF Critical, Emptied
  <2>2. \A y \in Threads : Emptied(y)' => Emptied(y)
    BY <1>4, <2>1
  <2>3. \A y \in Threads : (thread'[y].pc = "record" <=> thread[y].pc = "record")
                           /\ (thread[y].pc = "record" => thread'[y].pid = thread[y].pid)
    BY <1>2, <1>3, <1>4
  <2> QED
    BY <1>1, <1>2, <2>2, <2>3, ResidentsKept
<1> QED
  BY <1>5, <1>6

\* backend_start runs in a switch that has stopped the old model.
LEMMA StartResidents ==
  ASSUME ProcessInv, NEW x \in Threads, Start(x)
  PROVE  Residents' /\ Tracked'
<1> USE DEF ProcessInv, SwitchInv, GateInv, BaseInv
<1>1. thread[x].pc = "start" /\ Quiet(x)
  BY SubThreads DEF Subroutine, Start, At
<1>2. Critical(x)
  BY <1>1, StartsInSwitch
<1>3. Resident = {}
  BY <1>1, <1>2 DEF Emptied, Residents
<1>4. CASE UNCHANGED children
  <2>1. Resident' = {}
    BY <1>3, <1>4 DEF Resident
  <2> QED
    BY <2>1 DEF Residents, Tracked
<1>5. CASE \E p \in Forkable : /\ children' = children \cup {Child(p)}
                               /\ thread' = [thread EXCEPT ![x].pc = "record", ![x].pid = p]
  <2>1. PICK p \in Forkable : /\ children' = children \cup {Child(p)}
                              /\ thread' = [thread EXCEPT ![x].pc = "record", ![x].pid = p]
    BY <1>5
  <2>2. p \in Pids /\ \A c \in Resident' : c = Child(p) /\ c.pid = p
    BY <1>3, <2>1, ForkChildren
  <2>3. thread'[x].pc = "record" /\ thread'[x].pid = p
    BY <1>1, <2>1, <2>2, ForkEffect
  <2>4. ASSUME NEW y \in Threads, y # x PROVE ~Emptied(y)' /\ thread'[y].pc # "record"
    <3>1. ~Critical(y)
      BY <1>2, <2>4 DEF OneSwitch
    <3>2. thread[y].pc # "record"
      BY <3>1, StartsInSwitch
    <3> QED
      BY <1>1, <2>4, <3>1, <3>2, OthersStay, NotInSwitch DEF Quiet
  <2>5. ~Emptied(x)'
    BY <2>3 DEF Emptied
  <2>6. Residents'
    BY <2>2, <2>3, <2>4, <2>5 DEF Residents
  <2> QED
    BY <2>2, <2>3, <2>6 DEF Tracked
<1> QED
  BY <1>4, <1>5 DEF Start

\* The child of a switch is recorded.
LEMMA RecordResidents ==
  ASSUME ProcessInv, NEW x \in Threads, Record(x)
  PROVE  Residents' /\ Tracked'
<1> USE DEF ProcessInv, SwitchInv, GateInv, BaseInv
<1>1. thread[x].pc = "record" /\ Quiet(x) /\ Place(x)' = Place(x)
  BY SubThreads DEF Subroutine, Record, At
<1>2. Critical(x) /\ thread[x].ret \in Starting
  BY <1>1, StartsInSwitch DEF ThreadsOK, Placed
<1>3. Resident' = Resident /\ backendPid' = thread[x].pid
  BY DEF Record, Resident
<1>4. thread'[x].pc = thread[x].ret /\ thread'[x].ok
  BY <1>1, RecordEffect DEF Record
<1>5. ~Emptied(x)' /\ thread'[x].pc # "record"
  BY <1>2, <1>4 DEF Emptied, Starting
<1>6. ASSUME NEW y \in Threads, y # x PROVE ~Emptied(y)' /\ thread'[y].pc # "record"
  <2>1. ~Critical(y)
    BY <1>2, <1>6 DEF OneSwitch
  <2>2. thread[y].pc # "record"
    BY <2>1, StartsInSwitch
  <2> QED
    BY <1>1, <1>6, <2>1, <2>2, OthersStay, NotInSwitch DEF Quiet
<1>7. \A c \in Resident : c.pid = thread[x].pid
  BY <1>1 DEF Residents
<1>8. Residents'
  BY <1>3, <1>5, <1>6 DEF Residents
<1> QED
  BY <1>3, <1>7, <1>8 DEF Tracked

\* backend_stop has waited for the child.
LEMMA KillResidents ==
  ASSUME ProcessInv, NEW x \in Threads, Kill(x)
  PROVE  Residents' /\ Tracked'
<1> USE DEF ProcessInv, SwitchInv, GateInv, BaseInv
<1>1. /\ thread[x].pc = "kill" /\ Quiet(x) /\ Place(x)' = Place(x) /\ UNCHANGED <<gateway, backendPid>>
      /\ children' \subseteq children
  BY SubThreads DEF Subroutine, Kill, At, life
<1>2. Shrinks
  BY <1>1, FewerChildren
<1>3. thread'[x].pc # "record" /\ (Emptied(x)' => Emptied(x))
  <2>1. thread'[x].pc = thread[x].ret /\ thread[x].ret \in Stopping
    BY <1>1, KillEffect DEF Kill, ThreadsOK, Placed
  <2> QED
    BY <1>1, <2>1 DEF Stopping, Emptied, Critical
<1>4. ASSUME NEW y \in Threads, y # x
      PROVE  thread'[y] = thread[y] /\ (Emptied(y)' <=> Emptied(y))
  BY <1>1, <1>4, OthersStay DEF Quiet, Emptied
<1>5. \A y \in Threads : Emptied(y)' => Emptied(y)
  BY <1>3, <1>4
<1>6. \A y \in Threads : (thread'[y].pc = "record" <=> thread[y].pc = "record")
                         /\ (thread[y].pc = "record" => thread'[y].pid = thread[y].pid)
  BY <1>1, <1>3, <1>4
<1> QED
  BY <1>1, <1>2, <1>5, <1>6, ResidentsKept

\* No visual turn begins.
LEMMA VisualsStep ==
  ASSUME "vision" \notin Enabled, SwitchInv, NoVisual, Next
  PROVE  NoVisual'
<1> USE DEF SwitchInv, GateInv, BaseInv
<1>0. Handlers \subseteq Threads /\ Main \in Threads
  BY DEF Threads
<1>1. ASSUME NEW x \in Threads, Goes(x), Place(x)' \notin Visuals PROVE NoVisual'
  <2>1. ASSUME NEW y \in Threads, y # x PROVE Place(y)' = Place(y)
    BY <1>1, <2>1, OthersStay
  <2> QED
    BY <1>1, <2>1 DEF NoVisual
<1>2. CASE \E x \in Threads : Ordinary(x)
  <2>1. PICK x \in Threads : Ordinary(x)
    BY <1>2
  <2>2. CASE Outside(x)
    BY <1>1, <2>2 DEF Outside, Quiet, NoVisual
  <2>3. CASE Begins(x) \/ Leaves(x) \/ Runs(x)
    <3>1. Goes(x) /\ Place(x)' \notin Visuals
      BY <2>3 DEF Begins, Leaves, Runs, Proceeds, Quiet, Visuals
    <3> QED
      BY <1>1, <3>1
  <2>4. CASE Subroutine(x)
    BY <1>1, <2>4, SubThreads DEF Quiet, NoVisual
  <2> QED
    BY <2>1, <2>2, <2>3, <2>4, Moves
<1>3. CASE \E h \in Handlers : ChatEnter(h) \/ ChatLeave(h)
  BY <1>0, <1>1, <1>3, GenerationStep DEF Visuals
<1>4. CASE \E h \in Handlers : Started(h) /\ thread[h].ok
  <2>1. PICK h \in Handlers : Started(h) /\ thread[h].ok
    BY <1>4
  <2>2. /\ Place(h)' = "idle" /\ Place(Watchdog)' = "wait"
        /\ \A y \in Threads \ {h, Watchdog} : Place(y)' = Place(y)
    BY <2>1, HandOverStep
  <2> QED
    BY <2>2 DEF NoVisual, Visuals
<1>5. CASE MainStop
  <2>1. thread[Main].pc = "idle"
    BY <1>5 DEF MainStop, MainIdle
  <2> QED
    BY <1>0, <1>1, <1>5, <2>1, MainStopStep DEF Quiet, Visuals
<1>6. CASE Exit
  BY <1>6, ExitStep DEF NoVisual, Visuals
<1>7. CASE Signal \/ ChildListens \/ ChildDies
  <2>1. UNCHANGED thread
    BY <1>7 DEF Signal, ChildListens, ChildDies
  <2> QED
    BY <2>1 DEF NoVisual, Place
<1> QED
  BY <1>2, <1>3, <1>4, <1>5, <1>6, <1>7, StepKinds

\* Every step keeps the model processes in order.
LEMMA ResidentsStep ==
  ASSUME "vision" \notin Enabled, ProcessInv, Next
  PROVE  Residents' /\ Tracked'
<1> USE DEF ProcessInv, SwitchInv, GateInv, BaseInv
<1>0. Handlers \subseteq Threads /\ Main \in Threads /\ Watchdog \in Threads
  BY DEF Threads
<1>1. gateway' # "down" => gateway # "down"
  BY GateFields
<1>2. CASE \E x \in Threads : Subroutine(x)
  BY <1>2, StopResidents, KillResidents, StartResidents, RecordResidents DEF Subroutine
<1>3. CASE ChildListens \/ ChildDies
  <2>1. Shrinks
    <3>1. CASE ChildListens
      BY <3>1, ListenChildren
    <3>2. CASE ChildDies
      <4>1. children' \subseteq children
        BY <3>2 DEF ChildDies
      <4> QED
        BY <4>1, FewerChildren
    <3> QED
      BY <1>3, <3>1, <3>2
  <2>2. UNCHANGED <<thread, backendPid>>
    BY <1>3 DEF ChildListens, ChildDies
  <2>3. \A y \in Threads : Emptied(y)' => Emptied(y)
    BY <2>2 DEF Emptied, Critical, Place
  <2> QED
    BY <1>1, <2>1, <2>2, <2>3, ResidentsKept
<1>4. CASE ~(\E x \in Threads : Subroutine(x)) /\ ~ChildListens /\ ~ChildDies
  <2>1. Untouched
    BY <1>4, ChildrenKept
  <2>2. Shrinks
    BY <2>1, FewerChildren DEF Untouched
  <2>3. backendPid' = backendPid \/ \A c \in Resident' : c.pid # backendPid
    BY <2>1 DEF Untouched, ChildRunning, Resident
  <2>4. ASSUME NEW x \in Threads, Goes(x), thread[x].pc # "record", thread'[x].pc # "record",
               Emptied(x)' => Emptied(x)
        PROVE  Residents' /\ Tracked'
    <3>1. ASSUME NEW y \in Threads, y # x
          PROVE  thread'[y] = thread[y] /\ (Emptied(y)' <=> Emptied(y))
      BY <2>4, <3>1, OthersStay DEF Emptied
    <3>2. \A y \in Threads : Emptied(y)' => Emptied(y)
      BY <2>4, <3>1
    <3>3. \A y \in Threads : (thread'[y].pc = "record" <=> thread[y].pc = "record")
                             /\ (thread[y].pc = "record" => thread'[y].pid = thread[y].pid)
      BY <2>4, <3>1
    <3> QED
      BY <1>1, <2>2, <2>3, <3>2, <3>3, ResidentsKept
  <2>5. CASE \E x \in Threads : Ordinary(x)
    <3>1. PICK x \in Threads : Ordinary(x)
      BY <2>5
    <3>2. CASE Outside(x)
      <4>1. ~Critical(x)'
        BY <3>2 DEF Outside, Critical, Plain, OnSlot, OnLock
      <4> QED
        BY <2>4, <3>2, <4>1, NotInSwitch DEF Outside, Quiet, Sub
    <3>3. CASE Begins(x) \/ Leaves(x)
      <4>1. ~Emptied(x)' /\ thread'[x].pc # "record" /\ thread[x].pc \notin Sub /\ Goes(x)
        BY <3>3 DEF Begins, Leaves, Emptied, Quiet
      <4> QED
        BY <2>4, <4>1 DEF Sub
    <3>4. CASE Runs(x)
      BY <2>4, <3>4 DEF Runs, Quiet, Sub
    <3> QED
      BY <1>4, <3>1, <3>2, <3>3, <3>4, Moves
  <2>6. CASE \E h \in Handlers : ChatEnter(h) \/ ChatLeave(h)
    <3>1. PICK h \in Handlers : ChatEnter(h) \/ ChatLeave(h)
      BY <2>6
    <3>2. /\ Goes(h) /\ Place(h) = thread[h].pc /\ Place(h)' = thread'[h].pc
          /\ Place(h) \in {"enter", "generate"} /\ Place(h)' \in {"idle", "generate"}
      BY <3>1, GenerationStep
    <3>3. ~Emptied(h)'
      BY <3>2 DEF Emptied
    <3> QED
      BY <1>0, <2>4, <3>2, <3>3
  <2>7. CASE \E h \in Handlers : Started(h) /\ thread[h].ok
    <3>1. PICK h \in Handlers : Started(h) /\ thread[h].ok
      BY <2>7
    <3>2. /\ h \in Threads /\ thread[h].pc = "started" /\ Place(h) = "started" /\ thread'[h].pc = "idle"
          /\ thread'[Watchdog].pc = "wait"
          /\ \A y \in Threads \ {h, Watchdog} : thread'[y] = thread[y] /\ Place(y)' = Place(y)
      BY <3>1, HandOverStep
    <3>3. Critical(h)
      BY <3>2 DEF Critical, OnSlot
    <3>4. thread[Watchdog].pc # "record" \/ Watchdog = h
      BY <1>0, <3>2, <3>3, StartsInSwitch DEF OneSwitch
    <3>5. ASSUME NEW y \in Threads PROVE Emptied(y)' => Emptied(y)
      BY <3>2 DEF Emptied, Critical
    <3>6. \A y \in Threads : (thread'[y].pc = "record" <=> thread[y].pc = "record")
                             /\ (thread[y].pc = "record" => thread'[y].pid = thread[y].pid)
      BY <3>2, <3>4
    <3> QED
      BY <1>1, <2>2, <2>3, <3>5, <3>6, ResidentsKept
  <2>8. CASE MainStop
    <3>1. thread[Main].pc = "idle"
      BY <2>8 DEF MainStop, MainIdle
    <3>2. Quiet(Main) /\ Place(Main)' = "exit"
      BY <2>8, <3>1, MainStopStep
    <3>3. ~Critical(Main)' /\ thread'[Main].pc # "record"
      BY <3>2 DEF Critical, OnSlot, OnLock, Quiet, Placed, Place, Sub, Starting
    <3> QED
      BY <1>0, <2>4, <3>1, <3>2, <3>3, NotInSwitch DEF Quiet
  <2>9. CASE Exit
    <3>1. \A y \in Threads : thread'[y].pc = "idle" /\ ~Emptied(y)'
      BY <2>9, ExitStep, IdleState DEF Emptied
    <3>2. gateway' = "down"
      BY <2>9 DEF Exit
    <3> QED
      BY <2>2, <2>3, <3>1, <3>2, ResidentsKept
  <2>10. CASE Signal
    <3>1. UNCHANGED thread
      BY <2>10 DEF Signal
    <3>2. \A y \in Threads : Emptied(y)' => Emptied(y)
      BY <3>1 DEF Emptied, Critical, Place
    <3> QED
      BY <1>1, <2>2, <2>3, <3>1, <3>2, ResidentsKept
  <2> QED
    BY <1>4, <2>5, <2>6, <2>7, <2>8, <2>9, <2>10, StepKinds
<1> QED
  BY <1>2, <1>3, <1>4

LEMMA SwitchInit ==
  ASSUME Init
  PROVE  SwitchInv /\ ProcessInv
<1>1. BaseInv /\ \A x \in Threads : thread[x] = Idle /\ Place(x) = "idle" /\ ~Critical(x)
  BY InitThreads
<1>2. GateInv
  <2>1. Generations = {}
    BY <1>1, IdleState DEF Generations, Threads
  <2> QED
    BY <1>1, <2>1, FS_EmptySet DEF GateInv, Gate, Init
<1>3. NoVisual /\ OneSwitch /\ Flagged
  BY <1>1 DEF NoVisual, Visuals, OneSwitch, Flagged, OnSlot, OnLock, Init
<1>4. Settled
  BY <1>1, NotInSwitch DEF Settled, Init
<1>5. \A c \in Resident : c.pid = backendPid /\ c = Child(backendPid)
  <2>1. CASE children = {}
    BY <2>1 DEF Resident
  <2>2. CASE children = {Child(backendPid)}
    BY <2>2 DEF Resident, Child
  <2> QED
    BY <2>1, <2>2 DEF Init
<1>6. \A x \in Threads : ~Emptied(x) /\ thread[x].pc # "record"
  BY <1>1, NotInSwitch, IdleState
<1>7. Residents /\ Tracked
  BY <1>5, <1>6 DEF Residents, Tracked
<1> QED
  BY <1>2, <1>3, <1>4, <1>7 DEF SwitchInv, ProcessInv

LEMMA SwitchStep ==
  ASSUME SwitchInv, [Next]_vars
  PROVE  SwitchInv'
<1>1. CASE Next
  <2>1. GateInv'
    BY <1>1, GateStep DEF SwitchInv
  <2> QED
    BY <1>1, <2>1, OneSwitchStep, FlaggedStep, SettledStep DEF SwitchInv
<1>2. CASE UNCHANGED vars
  <2>1. GateInv'
    BY <1>2 DEF vars, SwitchInv, GateInv, BaseInv, Gate, TypeOK, ThreadsOK, Placed, Place, Critical,
                ChildrenOK, OwnPids, MainIdle, Generations
  <2>2. OneSwitch' /\ Flagged' /\ Settled'
    BY <1>2 DEF vars, SwitchInv, OneSwitch, Flagged, Place, Critical, Settled, Agrees
  <2> QED
    BY <2>1, <2>2 DEF SwitchInv
<1> QED
  BY <1>1, <1>2

\* However a switch ended, committed by the watchdog or rolled back, the gateway is on the
\* backend that the selection file names: for any number of handlers and backends, whatever
\* requests occur (selection_watchdog, selection_restore_previous, gateway_handler).
THEOREM SettledAgreesHolds == Spec => []SettledAgrees
<1>1. Init => SwitchInv
  BY SwitchInit
<1>2. SwitchInv /\ [Next]_vars => SwitchInv'
  BY SwitchStep
<1>3. SwitchInv => SettledAgrees
  BY FreeSlot DEF SwitchInv, Settled, SettledAgrees
<1> QED
  BY <1>1, <1>2, <1>3, PTL DEF Spec

\* The invariant of the model processes, when no visual turn occurs.
LEMMA ProcessInvariant ==
  ASSUME "vision" \notin Enabled
  PROVE  Spec => []ProcessInv
<1>1. Init => ProcessInv
  BY SwitchInit
<1>2. ProcessInv /\ [Next]_vars => ProcessInv'
  <2>1. ASSUME ProcessInv, [Next]_vars PROVE SwitchInv'
    BY <2>1, SwitchStep DEF ProcessInv
  <2>2. ASSUME ProcessInv, Next PROVE ProcessInv'
    BY <2>1, <2>2, VisualsStep, ResidentsStep DEF ProcessInv
  <2>3. ASSUME ProcessInv, UNCHANGED vars PROVE ProcessInv'
    <3>1. NoVisual' /\ Residents' /\ Tracked'
      BY <2>3 DEF vars, ProcessInv, NoVisual, Place, Critical, Residents, Resident, Emptied, Tracked
    <3> QED
      BY <2>1, <2>3, <3>1 DEF ProcessInv
  <2> QED
    BY <2>2, <2>3
<1> QED
  BY <1>1, <1>2, PTL DEF Spec

\* Residents that are all the same are at most one.
LEMMA AtMostOne ==
  ASSUME \A c, d \in Resident : c = d
  PROVE  OneBackend
<1>1. CASE Resident = {}
  <2>1. Cardinality(Resident) = 0
    BY <1>1, FS_EmptySet
  <2> QED
    BY <2>1 DEF OneBackend
<1>2. CASE \E c \in Resident : TRUE
  <2>1. PICK c \in Resident : TRUE
    BY <1>2
  <2>2. Resident = {c}
    BY <2>1
  <2>3. Cardinality({c}) = 1
    BY FS_Singleton
  <2> QED
    BY <2>2, <2>3 DEF OneBackend
<1> QED
  BY <1>1, <1>2

\* Two chat models are never resident at once (backend_start after backend_stop), for any
\* number of handlers, backends and process ids, when no visual turn occurs.
THEOREM OneBackendHolds ==
  ASSUME "vision" \notin Enabled
  PROVE  Spec => []OneBackend
<1>1. ProcessInv => OneBackend
  BY AtMostOne DEF ProcessInv, Residents
<1> QED
  BY <1>1, ProcessInvariant, PTL

\* No model process is lost while the gateway runs: g->backend_pid or a thread in
\* backend_start knows it, when no visual turn occurs.
THEOREM TrackedHolds ==
  ASSUME "vision" \notin Enabled
  PROVE  Spec => []Tracked
<1>1. ProcessInv => Tracked
  BY DEF ProcessInv
<1> QED
  BY <1>1, ProcessInvariant, PTL

(***************************************************************************)
(* Visual turns, when no request switches the model.                       *)
(***************************************************************************)
\* Where a visual turn is once it has closed the gate.
Turning == Visuals \ {"gate"}

\* One visual turn at a time: it has closed the gate, and it alone may have paused the model.
OneTurn ==
    /\ \A x \in Threads : Place(x) \in Turning \cup {"idle", "gate", "probe", "enter", "generate",
                                                     "quit", "close", "exit"}
    /\ \A x \in Threads : Place(x) \in Turning => specialist
    /\ \A x, y \in Threads : Place(x) \in Turning /\ Place(y) \in Turning => x = y
    /\ \A x \in Threads : thread[x].paused => Place(x) \in Turning \ {"pause"}

\* The turn has stopped the model it paused, and not forked it again.
Cleared(x) ==
    \/ thread[x].pc = "start"
    \/ /\ thread[x].paused /\ thread[x].pc # "stop"
       /\ Place(x) \in {"session", "analyze", "release"}

\* No model beside the helper of a turn that paused it, and then only the one that is
\* about to be recorded.
Alone ==
    /\ \A c, d \in Resident : c = d
    /\ \A x \in Threads : Cleared(x) => Resident = {}
    /\ \A x \in Threads, c \in Resident : thread[x].pc = "record" => c.pid = thread[x].pid

TurnInv == GateInv /\ OneTurn /\ Alone /\ Tracked

\* Without switches backend_start is called by a visual turn, and backend_stop by one or
\* by shutdown.
LEMMA TurnCalls ==
  ASSUME ThreadsOK, OneTurn, NEW x \in Threads
  PROVE  /\ thread[x].pc \in {"start", "record"} => Place(x) = "ungate"
         /\ thread[x].pc \in {"stop", "kill"} => Place(x) \in {"session", "close", "exit"}
<1>1. Placed(x) /\ Place(x) \in Turning \cup {"idle", "gate", "probe", "enter", "generate",
                                              "quit", "close", "exit"}
  BY DEF ThreadsOK, OneTurn
<1>2. thread[x].pc \in Sub => Place(x) = thread[x].ret
  BY DEF Place
<1> QED
  BY <1>1, <1>2 DEF Placed, Sub, Starting, Stopping, Turning, Visuals

\* A step of a thread outside backend_stop and backend_start.
Takes(x) ==
    /\ Goes(x) /\ thread[x].pc \notin Sub /\ thread'[x].pc # "record"
    /\ Cleared(x)' => Cleared(x)

\* The steps of a visual turn.
LEMMA TurnStep ==
  ASSUME TypeOK, ThreadsOK, OneTurn, NEW h \in Handlers, VisionStep(h)
  PROVE  /\ Takes(h) /\ (thread'[h].paused => Place(h)' \in Turning \ {"pause"})
         /\ \/ Place(h)' \in Turning /\ specialist' /\ (Place(h) \in Turning \/ ~specialist)
            \/ /\ Place(h)' = "idle" /\ thread'[h].pc = "idle"
               /\ UNCHANGED specialist \/ Place(h) \in Turning
<1>1. h \in Threads /\ thread[h].pc \in Visuals /\ Placed(h) /\ thread[h] \in ThreadStates
  BY DEF VisionStep, VisionGate, VisionPause, VisionSession, VisionAnalyzed, VisionRelease,
         VisionUngate, At, Threads, ThreadsOK, Visuals
<1>2. Place(h) = thread[h].pc /\ thread[h].pc # "generate" /\ thread[h].pc \notin Sub
  BY <1>1 DEF Place, Sub, Visuals
<1>3. thread[h].pc \in {"gate", "pause"} => ~thread[h].paused
  BY <1>1, <1>2 DEF OneTurn, Turning, Visuals
<1>4. thread[h].pc # "gate" => specialist /\ Place(h) \in Turning
  BY <1>1, <1>2 DEF OneTurn, Turning, Visuals
<1>5. ASSUME Return(h)
      PROVE  Takes(h) /\ ~thread'[h].paused /\ Place(h)' = "idle" /\ thread'[h].pc = "idle"
  <2>1. Goes(h) /\ thread'[h] = Idle /\ Place(h)' = "idle" /\ thread'[h].pc = "idle"
    BY <1>1, <1>5, ReturnQuiet
  <2> QED
    BY <1>2, <2>1, IdleState DEF Takes, Cleared
<1>6. ASSUME NEW pc \in Turning, Goto(h, pc)
      PROVE  /\ Goes(h) /\ Keeps(h) /\ thread'[h].pc = pc /\ Place(h)' = pc /\ Place(h)' \in Turning
             /\ pc \notin Sub
  <2>1. pc \in Pcs /\ pc \notin Sub
    BY DEF Pcs, Sub, Turning, Visuals
  <2>2. Goes(h) /\ Keeps(h) /\ thread'[h].pc = pc
    BY <1>1, <1>6, <2>1, GotoEffect
  <2>3. Place(h)' = pc
    BY <2>1, <2>2 DEF Place
  <2> QED
    BY <2>1, <2>2, <2>3
<1>7. CASE VisionGate(h)
  <2>1. CASE Return(h) /\ UNCHANGED specialist
    BY <1>5, <2>1
  <2>2. CASE Goto(h, "pause") /\ ~specialist /\ specialist'
    <3>1. "pause" \in Turning /\ thread[h].pc = "gate"
      BY <1>7 DEF Turning, Visuals, VisionGate, At
    <3> QED
      BY <1>2, <1>3, <1>6, <2>2, <3>1 DEF Takes, Cleared, Keeps
  <2> QED
    BY <1>7, <2>1, <2>2 DEF VisionGate
<1>8. CASE VisionPause(h)
  <2>0. thread[h].pc = "pause" /\ UNCHANGED specialist
    BY <1>8 DEF VisionPause, At, gate
  <2>1. CASE Goto(h, "session")
    <3>1. "session" \in Turning
      BY DEF Turning, Visuals
    <3> QED
      BY <1>2, <1>3, <1>4, <1>6, <2>0, <2>1, <3>1 DEF Takes, Cleared, Keeps
  <2>2. CASE thread' = [thread EXCEPT ![h].paused = TRUE, ![h].pc = "stop", ![h].ret = "session"]
    <3> DEFINE t == [thread[h] EXCEPT !.paused = TRUE, !.pc = "stop", !.ret = "session"]
    <3>1. thread' = [thread EXCEPT ![h] = t]
      BY <1>1, <2>2 DEF ThreadsOK
    <3>2. t \in ThreadStates /\ t.pc = "stop" /\ t.ret = "session"
      BY <1>1 DEF ThreadStates, Pcs, Sub, Stopping
    <3> HIDE DEF t
    <3>3. Goes(h) /\ thread'[h] = t
      BY <1>1, <3>1, <3>2, Updated
    <3>4. Place(h)' = "session" /\ Place(h)' \in Turning
      BY <3>2, <3>3 DEF Place, Sub, Turning, Visuals
    <3> QED
      BY <1>2, <1>4, <2>0, <3>2, <3>3, <3>4 DEF Takes, Cleared
  <2> QED
    BY <1>8, <2>1, <2>2 DEF VisionPause
<1>9. CASE VisionSession(h) \/ VisionAnalyzed(h)
  <2>1. thread[h].pc \in {"session", "analyze"} /\ UNCHANGED specialist
    BY <1>9 DEF VisionSession, VisionAnalyzed, At, gate
  <2>2. PICK pc \in {"analyze", "release"} : Goto(h, pc)
    BY <1>9 DEF VisionSession, VisionAnalyzed
  <2>3. pc \in Turning
    BY DEF Turning, Visuals
  <2>4. thread'[h].paused = thread[h].paused /\ thread'[h].pc = pc /\ Place(h)' = pc /\ Goes(h)
    BY <1>6, <2>2, <2>3 DEF Keeps
  <2> QED
    BY <1>2, <1>4, <2>1, <2>3, <2>4 DEF Takes, Cleared
<1>10. CASE VisionRelease(h)
  <2>0. thread[h].pc = "release" /\ UNCHANGED specialist
    BY <1>10 DEF VisionRelease, At
  <2>1. CASE Goto(h, "ungate")
    <3>1. "ungate" \in Turning
      BY DEF Turning, Visuals
    <3> QED
      BY <1>2, <1>4, <1>6, <2>0, <2>1, <3>1 DEF Takes, Cleared
  <2>2. CASE thread[h].paused /\ Call(h, "start", "ungate")
    <3>1. Quiet(h) /\ Place(h)' = "ungate" /\ thread'[h].pc = "start"
      BY <1>1, <1>2, <2>2, CallQuiet DEF Starting, OnSlot, OnLock
    <3>2. "ungate" \in Turning \ {"pause"}
      BY DEF Turning, Visuals
    <3> QED
      BY <1>2, <1>4, <2>0, <2>2, <3>1, <3>2 DEF Takes, Cleared, Quiet
  <2> QED
    BY <1>10, <2>1, <2>2 DEF VisionRelease
<1>11. CASE VisionUngate(h)
  BY <1>2, <1>4, <1>5, <1>11 DEF VisionUngate, At
<1> QED
  BY <1>7, <1>8, <1>9, <1>10, <1>11 DEF VisionStep

\* The specialist flag is changed by visual turns only.
LEMMA SpecialistKept ==
  ASSUME Next, ~\E h \in Handlers : VisionStep(h)
  PROVE  UNCHANGED specialist
<1> USE DEF gate
<1>1. ASSUME NEW x, Receive(x) \/ CheckIdle(x) \/ Differs(x) \/ Claim(x) \/ LockSelection(x) \/ Unlock(x)
                    \/ CommitVirtual(x) \/ Restart(x) \/ Restarted(x) \/ Rename(x) \/ Started(x) \/ Rollback(x)
      PROVE  UNCHANGED specialist
  BY <1>1 DEF Receive, CheckIdle, Differs, Claim, LockSelection, Unlock, CommitVirtual, Restart, Restarted,
              Rename, Started, Rollback, Restore, MayStart, ClearSelection
<1>2. ASSUME NEW x, ChatProbe(x) \/ ChatEnter(x) \/ ChatLeave(x) \/ Quit(x) \/ Close(x) \/ Subroutine(x)
      PROVE  UNCHANGED specialist
  BY <1>2 DEF ChatProbe, ChatEnter, ChatLeave, Quit, Close, Subroutine, Stop, Kill, Start, Record
<1>3. ASSUME WatchStopping \/ WatchPoll \/ WatchTimeout \/ WatchCommit \/ Signal \/ MainStop \/ Exit
             \/ ChildListens \/ ChildDies
      PROVE  UNCHANGED specialist
  BY <1>3 DEF WatchStopping, WatchPoll, WatchTimeout, WatchCommit, Signal, MainStop, Exit, ChildListens,
              ChildDies
<1>4. ASSUME NEW h \in Handlers, Receive(h) \/ HandlerStep(h) PROVE UNCHANGED specialist
  BY <1>1, <1>2, <1>4 DEF HandlerStep, VisionStep
<1>5. ASSUME WatchdogStep \/ MainStep PROVE UNCHANGED specialist
  BY <1>1, <1>2, <1>3, <1>5 DEF WatchdogStep, MainStep
<1> QED
  BY <1>3, <1>4, <1>5 DEF Next

\* The steps that occur when no request switches the model.
LEMMA TurnKinds ==
  ASSUME TypeOK, ThreadsOK, OneTurn, Next
  PROVE  \/ \E x \in Threads : Subroutine(x)
         \/ \E h \in Handlers : \/ Receive(h) \/ ChatProbe(h) \/ Quit(h) \/ Close(h) \/ VisionStep(h)
                                \/ ChatEnter(h) \/ ChatLeave(h)
         \/ Signal \/ MainStop \/ Exit \/ ChildListens \/ ChildDies
<1> DEFINE Stays == {"idle", "gate", "probe", "enter", "generate", "quit", "close", "exit"}
<1>1. Handlers \subseteq Threads /\ Watchdog \in Threads /\ Main \in Threads
  BY DEF Threads
<1>2. ASSUME NEW x \in Threads, NEW pc \in OnSlot \cup OnLock \cup {"check", "differs", "claim", "lock"}
      PROVE  thread[x].pc # pc
  <2>1. pc \notin Sub /\ pc \notin Turning \cup Stays
    BY DEF OnSlot, OnLock, Sub, Turning, Visuals
  <2>2. Place(x) \in Turning \cup Stays
    BY DEF OneTurn
  <2> QED
    BY <2>1, <2>2 DEF Place
<1>3. ASSUME NEW x \in Threads
      PROVE  /\ ~CheckIdle(x) /\ ~Differs(x) /\ ~Claim(x) /\ ~LockSelection(x)
             /\ ~Unlock(x) /\ ~CommitVirtual(x) /\ ~Restart(x) /\ ~Restarted(x) /\ ~Rename(x)
             /\ ~Started(x) /\ ~Rollback(x)
  <2>1. \A pc \in {"check", "differs", "claim", "lock", "unlock", "virtual", "restart", "restarted",
                   "rename", "started", "restore", "maystart", "clear"} : ~At(x, pc)
    BY <1>2 DEF At, OnSlot, OnLock
  <2> QED
    BY <2>1 DEF CheckIdle, Differs, Claim, LockSelection, Unlock, CommitVirtual, Restart, Restarted, Rename,
                Started, Rollback, Restore, MayStart, ClearSelection
<1>4. ~WatchStopping /\ ~WatchPoll /\ ~WatchTimeout /\ ~WatchCommit
  <2>1. \A pc \in {"wait", "poll", "commit"} : ~At(Watchdog, pc)
    BY <1>1, <1>2 DEF At, OnSlot
  <2> QED
    BY <2>1 DEF WatchStopping, WatchPoll, WatchTimeout, WatchCommit
<1> QED
  BY <1>1, <1>3, <1>4 DEF Next, HandlerStep, WatchdogStep, MainStep, VisionStep

\* What a step of a thread outside the visual turns does.
LEMMA ElsewhereStep ==
  ASSUME Enabled \cap Switches = {}, TypeOK, ThreadsOK, OneTurn, NEW h \in Handlers,
         Receive(h) \/ ChatProbe(h) \/ Quit(h) \/ Close(h) \/ ChatEnter(h) \/ ChatLeave(h)
  PROVE  /\ Takes(h) /\ ~thread'[h].paused
         /\ Place(h)' \in {"idle", "gate", "probe", "enter", "generate", "quit", "close"}
<1>1. h \in Threads
  BY DEF Threads
<1>2. SUFFICES /\ Goes(h) /\ thread[h].pc \notin Sub /\ ~thread'[h].paused
               /\ Place(h)' \in {"idle", "gate", "probe", "enter", "generate", "quit", "close"}
  <2>1. thread'[h].pc # "start" /\ thread'[h].pc # "record"
    <3>1. CASE Receive(h)
      BY <1>2, <3>1, ReceiveStep DEF Quiet, Placed, Place, Sub, Starting
    <3>2. CASE ChatProbe(h) \/ Quit(h) \/ Close(h)
      BY <1>2, <3>2, ChatQuietStep DEF Quiet, Placed, Place, Sub, Starting
    <3>3. CASE ChatEnter(h) \/ ChatLeave(h)
      BY <3>3, GenerationStep
    <3> QED
      BY <3>1, <3>2, <3>3
  <2> QED
    BY <1>2, <2>1 DEF Takes, Cleared
<1>3. CASE Receive(h)
  <2>1. thread[h].pc \notin Sub
    BY <1>3, IdleState DEF Receive, Sub
  <2> QED
    BY <1>3, <2>1, ReceiveStep DEF Quiet
<1>4. ASSUME NEW pc \in {"probe", "quit", "close", "enter", "generate"}, thread[h].pc = pc
      PROVE  thread[h].pc \notin Sub /\ ~thread[h].paused
  <2>1. thread[h].pc \notin Sub /\ Place(h) = pc
    BY <1>4 DEF Place, Sub
  <2>2. Place(h) \notin Turning
    BY <2>1 DEF Turning, Visuals
  <2> QED
    BY <1>1, <2>1, <2>2 DEF OneTurn
<1>5. ASSUME Return(h) PROVE ~thread'[h].paused
  BY <1>1, <1>5, ReturnEffect, IdleState
<1>6. CASE ChatProbe(h) \/ Quit(h) \/ Close(h)
  <2>1. thread[h].pc \in {"probe", "quit", "close"}
    BY <1>6 DEF ChatProbe, Quit, Close, At
  <2>2. ASSUME Goto(h, "enter") PROVE ~thread'[h].paused
    BY <1>1, <1>4, <2>1, <2>2, GotoEffect DEF Pcs, Keeps
  <2>3. ASSUME Call(h, "stop", "close") PROVE ~thread'[h].paused
    BY <1>1, <1>4, <2>1, <2>3, CallEffect DEF Sub, Stopping, Keeps
  <2>4. ~thread'[h].paused
    BY <1>5, <1>6, <2>2, <2>3 DEF ChatProbe, Quit, Close
  <2> QED
    BY <1>4, <1>6, <2>1, <2>4, ChatQuietStep DEF Quiet
<1>7. CASE ChatEnter(h) \/ ChatLeave(h)
  <2>1. thread[h].pc \in {"enter", "generate"}
    BY <1>7 DEF ChatEnter, ChatLeave, At
  <2>2. ASSUME Goto(h, "generate") PROVE ~thread'[h].paused
    BY <1>1, <1>4, <2>1, <2>2, GotoEffect DEF Pcs, Keeps
  <2>3. ~thread'[h].paused
    BY <1>5, <1>7, <2>2 DEF ChatEnter, ChatLeave
  <2> QED
    BY <1>4, <1>7, <2>1, <2>3, GenerationStep
<1> QED
  BY <1>3, <1>6, <1>7

\* Every step leaves at most one visual turn.
LEMMA OneTurnStep ==
  ASSUME Enabled \cap Switches = {}, BaseInv, OneTurn, Next
  PROVE  OneTurn'
<1> DEFINE Stays == {"idle", "gate", "probe", "enter", "generate", "quit", "close", "exit"}
<1> USE DEF BaseInv
<1>0. Handlers \subseteq Threads /\ Main \in Threads /\ Main \notin Handlers
  BY BackendAssumption DEF Threads
<1>1. ASSUME NEW x \in Threads, Goes(x), Place(x)' \in Turning \cup Stays,
             Place(x)' \in Turning => specialist' /\ (Place(x) \in Turning \/ ~specialist),
             UNCHANGED specialist \/ Place(x) \in Turning \/ Place(x)' \in Turning,
             thread'[x].paused => Place(x)' \in Turning \ {"pause"}
      PROVE  OneTurn'
  <2>1. ASSUME NEW y \in Threads, y # x PROVE thread'[y] = thread[y] /\ Place(y)' = Place(y)
    BY <1>1, <2>1, OthersStay
  <2>2. ASSUME NEW y \in Threads, y # x, Place(y)' \in Turning
        PROVE  Place(x)' \notin Turning /\ specialist'
    <3>1. Place(y) \in Turning /\ specialist
      BY <2>1, <2>2 DEF OneTurn
    <3>2. Place(x) \notin Turning
      BY <2>2, <3>1 DEF OneTurn
    <3> QED
      BY <1>1, <3>1, <3>2
  <2>3. \A y \in Threads : Place(y)' \in Turning \cup Stays
    BY <1>1, <2>1 DEF OneTurn
  <2>4. \A y \in Threads : Place(y)' \in Turning => specialist'
    BY <1>1, <2>2
  <2>5. \A y, z \in Threads : Place(y)' \in Turning /\ Place(z)' \in Turning => y = z
    <3> SUFFICES ASSUME NEW y \in Threads, NEW z \in Threads, Place(y)' \in Turning,
                        Place(z)' \in Turning, y # z
                 PROVE  FALSE
      OBVIOUS
    <3>1. y # x /\ z # x
      BY <2>2
    <3> QED
      BY <2>1, <3>1 DEF OneTurn
  <2>6. \A y \in Threads : thread'[y].paused => Place(y)' \in Turning \ {"pause"}
    BY <1>1, <2>1 DEF OneTurn
  <2> QED
    BY <2>3, <2>4, <2>5, <2>6 DEF OneTurn
<1>2. CASE \E x \in Threads : Subroutine(x)
  <2>1. PICK x \in Threads : Subroutine(x)
    BY <1>2
  <2>2. Goes(x) /\ Place(x)' = Place(x) /\ thread'[x].paused = thread[x].paused
    BY <2>1, SubThreads DEF Quiet, Keeps
  <2>3. UNCHANGED specialist
    BY <2>1 DEF Subroutine, Stop, Kill, Start, Record, gate
  <2> QED
    BY <1>1, <2>2, <2>3 DEF OneTurn
<1>3. CASE \E h \in Handlers : VisionStep(h)
  <2>1. PICK h \in Handlers : VisionStep(h)
    BY <1>3
  <2>2. /\ Goes(h) /\ (thread'[h].paused => Place(h)' \in Turning \ {"pause"})
        /\ \/ Place(h)' \in Turning /\ specialist' /\ (Place(h) \in Turning \/ ~specialist)
           \/ Place(h)' = "idle" /\ (UNCHANGED specialist \/ Place(h) \in Turning)
    BY <2>1, TurnStep DEF Takes
  <2>3. "idle" \notin Turning
    BY DEF Turning, Visuals
  <2> QED
    BY <1>0, <1>1, <2>2, <2>3
<1>4. CASE ~\E h \in Handlers : VisionStep(h)
  <2>0. UNCHANGED specialist /\ Stays \cap Turning = {}
    BY <1>4, SpecialistKept DEF Turning, Visuals
  <2>1. ASSUME NEW h \in Handlers, \/ Receive(h) \/ ChatProbe(h) \/ Quit(h) \/ Close(h) \/ ChatEnter(h)
                                   \/ ChatLeave(h)
        PROVE  OneTurn'
    <3>1. Goes(h) /\ ~thread'[h].paused /\ Place(h)' \in Stays
      BY <2>1, ElsewhereStep DEF Takes
    <3> QED
      BY <1>0, <1>1, <2>0, <3>1
  <2>2. CASE MainStop
    <3>1. thread[Main].pc = "idle" /\ Call(Main, "stop", "exit")
      BY <2>2 DEF MainStop, MainIdle
    <3>2. Goes(Main) /\ Place(Main) = "idle" /\ Place(Main)' = "exit"
      BY <2>2, <3>1, MainStopStep DEF Quiet
    <3>3. thread'[Main].paused = thread[Main].paused
      BY <1>0, <3>1, CallEffect DEF Sub, Stopping, Keeps
    <3>4. ~thread[Main].paused
      BY <1>0, <2>0, <3>2 DEF OneTurn
    <3> QED
      BY <1>0, <1>1, <2>0, <3>2, <3>3, <3>4
  <2>3. CASE Exit
    BY <2>0, <2>3, ExitStep, IdleState DEF OneTurn
  <2>4. CASE Signal \/ ChildListens \/ ChildDies
    <3>1. UNCHANGED thread
      BY <2>4 DEF Signal, ChildListens, ChildDies
    <3> QED
      BY <2>0, <3>1 DEF OneTurn, Place
  <2> QED
    BY <1>2, <1>4, <2>1, <2>2, <2>3, <2>4, TurnKinds
<1> QED
  BY <1>3, <1>4

\* A step that neither forks nor records a child, nor begins to.
LEMMA AloneKept ==
  ASSUME TurnInv, Shrinks, gateway' # "down" => gateway # "down",
         backendPid' = backendPid \/ \A c \in Resident' : c.pid # backendPid,
         \A y \in Threads : Cleared(y)' => Cleared(y),
         \A y \in Threads : thread'[y].pc = "record" => thread[y].pc = "record" /\ thread'[y].pid = thread[y].pid,
         gateway' # "down" => \A y \in Threads : thread[y].pc = "record" =>
                                  thread'[y].pc = "record" /\ thread'[y].pid = thread[y].pid
  PROVE  Alone' /\ Tracked'
<1>1. Alone /\ Tracked
  BY DEF TurnInv
<1>2. OwnPids' /\ \A c \in Resident' : \E d \in Resident : d.pid = c.pid
  BY DEF Shrinks, ChildrenOK
<1>3. ASSUME NEW c \in Resident', NEW d \in Resident' PROVE c = d
  <2>1. c.pid = d.pid
    BY <1>1, <1>2 DEF Alone
  <2> QED
    BY <1>2, <2>1 DEF OwnPids, Resident
<1>4. ASSUME NEW y \in Threads, Cleared(y)' PROVE Resident' = {}
  BY <1>1, <1>2, <1>4 DEF Alone
<1>5. ASSUME NEW y \in Threads, NEW c \in Resident', thread'[y].pc = "record" PROVE c.pid = thread'[y].pid
  BY <1>1, <1>2, <1>5 DEF Alone
<1>6. Alone'
  BY <1>3, <1>4, <1>5 DEF Alone
<1>7. ASSUME gateway' # "down", NEW c \in Resident'
      PROVE  c.pid = backendPid' \/ \E y \in Threads : thread'[y].pc = "record" /\ thread'[y].pid = c.pid
  <2>1. PICK d \in Resident : d.pid = c.pid
    BY <1>2
  <2>2. d.pid = backendPid \/ \E y \in Threads : thread[y].pc = "record" /\ thread[y].pid = d.pid
    BY <1>1, <1>7 DEF Tracked
  <2> QED
    BY <1>7, <2>1, <2>2
<1> QED
  BY <1>6, <1>7 DEF Tracked

\* The same for a step of one thread.
LEMMA AloneMoved ==
  ASSUME TurnInv, NEW x \in Threads, Goes(x), Cleared(x)' => Cleared(x), Shrinks,
         thread[x].pc # "record", thread'[x].pc # "record", gateway' # "down" => gateway # "down",
         backendPid' = backendPid \/ \A c \in Resident' : c.pid # backendPid
  PROVE  Alone' /\ Tracked'
<1>1. ASSUME NEW y \in Threads, y # x
      PROVE  thread'[y] = thread[y] /\ (Cleared(y)' <=> Cleared(y))
  BY <1>1, OthersStay DEF Cleared, TurnInv, GateInv, BaseInv
<1>2. \A y \in Threads : Cleared(y)' => Cleared(y)
  BY <1>1
<1>3. \A y \in Threads : (thread'[y].pc = "record" <=> thread[y].pc = "record")
                         /\ (thread[y].pc = "record" => thread'[y].pid = thread[y].pid)
  BY <1>1
<1> QED
  BY <1>2, <1>3, AloneKept

\* A visual turn is the only one that calls backend_start.
LEMMA TurnStarts ==
  ASSUME TurnInv, NEW x \in Threads, NEW y \in Threads, y # x, Place(x) \in Turning
  PROVE  thread[y].pc \notin {"start", "record"} /\ ~Cleared(y)
<1> USE DEF TurnInv, GateInv, BaseInv
<1>1. Place(y) \notin Turning
  BY DEF OneTurn
<1>2. "ungate" \in Turning /\ {"session", "analyze", "release"} \subseteq Turning
  BY DEF Turning, Visuals
<1>3. thread[y].pc \notin {"start", "record"}
  BY <1>1, <1>2, TurnCalls
<1> QED
  BY <1>1, <1>2, <1>3 DEF Cleared

\* backend_stop in a visual turn leaves no model; in shutdown, the one about to be recorded.
LEMMA StopAlone ==
  ASSUME TurnInv, NEW x \in Threads, Stop(x)
  PROVE  Alone' /\ Tracked'
<1> USE DEF TurnInv, GateInv, BaseInv
<1>1. Shrinks /\ \A c \in Resident' : c \in Resident /\ c.pid # backendPid
  BY StopChildren
<1>2. /\ Goes(x) /\ Place(x)' = Place(x) /\ thread[x].pc = "stop" /\ gateway # "down"
      /\ UNCHANGED gateway /\ thread'[x].paused = thread[x].paused
  BY SubThreads DEF Subroutine, Stop, At, life, Quiet, Keeps
<1>3. Place(x) \in {"session", "close", "exit"}
  BY <1>2, TurnCalls
<1>4. CASE Place(x) = "session"
  <2>1. Place(x) \in Turning
    BY <1>4 DEF Turning, Visuals
  <2>2. \A y \in Threads : thread[y].pc # "record"
    BY <1>2, <2>1, TurnStarts
  <2>3. Resident' = {}
    BY <1>1, <1>2, <2>2 DEF Tracked
  <2> QED
    BY <2>3 DEF Alone, Tracked
<1>5. CASE Place(x) \in {"close", "exit"}
  <2>1. ~thread[x].paused
    BY <1>5 DEF OneTurn, Turning, Visuals
  <2>2. thread' = [thread EXCEPT ![x].pid = backendPid,
                                 ![x].pc = IF backendPid = None THEN thread[x].ret ELSE "kill"]
    BY DEF Stop
  <2>3. thread'[x].pc \in {thread[x].ret, "kill"} /\ thread[x].ret \in Stopping
    BY <1>2, <2>2, StopEffect DEF ThreadsOK, Placed
  <2>4. thread'[x].pc \notin {"start", "record"}
    BY <2>3 DEF Stopping
  <2>5. ~Cleared(x)'
    BY <1>2, <2>1, <2>4 DEF Cleared
  <2> QED
    BY <1>1, <1>2, <2>4, <2>5, AloneMoved
<1> QED
  BY <1>3, <1>4, <1>5

\* backend_stop has waited for the child.
LEMMA KillAlone ==
  ASSUME TurnInv, NEW x \in Threads, Kill(x)
  PROVE  Alone' /\ Tracked'
<1> USE DEF TurnInv, GateInv, BaseInv
<1>1. /\ thread[x].pc = "kill" /\ Goes(x) /\ Place(x)' = Place(x) /\ UNCHANGED <<gateway, backendPid>>
      /\ children' \subseteq children /\ thread'[x].paused = thread[x].paused
  BY SubThreads DEF Subroutine, Kill, At, life, Quiet, Keeps
<1>2. Shrinks
  BY <1>1, FewerChildren
<1>3. thread'[x].pc = thread[x].ret /\ thread[x].ret \in Stopping
  BY <1>1, KillEffect DEF Kill, ThreadsOK, Placed
<1>4. thread'[x].pc \notin {"start", "record"} /\ (Cleared(x)' => Cleared(x))
  BY <1>1, <1>3 DEF Stopping, Cleared
<1> QED
  BY <1>1, <1>2, <1>4, AloneMoved

\* The visual turn that starts the model again has stopped it before.
LEMMA StartAlone ==
  ASSUME TurnInv, NEW x \in Threads, Start(x)
  PROVE  Alone' /\ Tracked'
<1> USE DEF TurnInv, GateInv, BaseInv
<1>1. thread[x].pc = "start" /\ Goes(x)
  BY SubThreads DEF Subroutine, Start, At, Quiet
<1>2. Place(x) \in Turning
  BY <1>1, TurnCalls DEF Turning, Visuals
<1>3. Resident = {}
  BY <1>1 DEF Cleared, Alone
<1>4. CASE UNCHANGED children
  <2>1. Resident' = {}
    BY <1>3, <1>4 DEF Resident
  <2> QED
    BY <2>1 DEF Alone, Tracked
<1>5. CASE \E p \in Forkable : /\ children' = children \cup {Child(p)}
                               /\ thread' = [thread EXCEPT ![x].pc = "record", ![x].pid = p]
  <2>1. PICK p \in Forkable : /\ children' = children \cup {Child(p)}
                              /\ thread' = [thread EXCEPT ![x].pc = "record", ![x].pid = p]
    BY <1>5
  <2>2. p \in Pids /\ \A c \in Resident' : c = Child(p) /\ c.pid = p
    BY <1>3, <2>1, ForkChildren
  <2>3. /\ thread'[x].pc = "record" /\ thread'[x].pid = p /\ thread'[x].ret = thread[x].ret
    BY <1>1, <2>1, <2>2, ForkEffect
  <2>4. ASSUME NEW y \in Threads, y # x PROVE ~Cleared(y)' /\ thread'[y].pc # "record"
    <3>1. thread[y].pc # "record" /\ ~Cleared(y)
      BY <1>2, <2>4, TurnStarts
    <3> QED
      BY <1>1, <2>4, <3>1, OthersStay DEF Cleared
  <2>5. ~Cleared(x)'
    <3>1. Place(x)' = Place(x) /\ Place(x) = "ungate"
      BY <1>1, <2>3, TurnCalls DEF Place, Sub
    <3> QED
      BY <2>3, <3>1 DEF Cleared
  <2>6. Alone'
    BY <2>2, <2>3, <2>4, <2>5 DEF Alone
  <2> QED
    BY <2>2, <2>3, <2>6 DEF Tracked
<1> QED
  BY <1>4, <1>5 DEF Start

\* The model started again is recorded.
LEMMA RecordAlone ==
  ASSUME TurnInv, NEW x \in Threads, Record(x)
  PROVE  Alone' /\ Tracked'
<1> USE DEF TurnInv, GateInv, BaseInv
<1>1. thread[x].pc = "record" /\ Goes(x) /\ Place(x)' = Place(x)
  BY SubThreads DEF Subroutine, Record, At, Quiet
<1>2. Place(x) = "ungate" /\ thread[x].ret \in Starting
  BY <1>1, TurnCalls DEF ThreadsOK, Placed
<1>3. Resident' = Resident /\ backendPid' = thread[x].pid
  BY DEF Record, Resident
<1>4. thread'[x].pc = thread[x].ret
  BY <1>1, RecordEffect DEF Record
<1>5. ~Cleared(x)' /\ thread'[x].pc # "record"
  BY <1>1, <1>2, <1>4 DEF Cleared, Starting
<1>6. ASSUME NEW y \in Threads, y # x PROVE ~Cleared(y)' /\ thread'[y].pc # "record"
  <2>1. Place(x) \in Turning
    BY <1>2 DEF Turning, Visuals
  <2>2. thread[y].pc # "record" /\ ~Cleared(y)
    BY <1>6, <2>1, TurnStarts
  <2> QED
    BY <1>1, <1>6, <2>2, OthersStay DEF Cleared
<1>7. \A c \in Resident : c.pid = thread[x].pid
  BY <1>1 DEF Alone
<1>8. Alone'
  BY <1>3, <1>5, <1>6 DEF Alone
<1> QED
  BY <1>3, <1>7, <1>8 DEF Tracked

\* Every step keeps the model away from the helper of a turn that paused it.
LEMMA AloneStep ==
  ASSUME Enabled \cap Switches = {}, TurnInv, Next
  PROVE  Alone' /\ Tracked'
<1> USE DEF TurnInv, GateInv, BaseInv
<1>0. Handlers \subseteq Threads /\ Main \in Threads
  BY DEF Threads
<1>1. gateway' # "down" => gateway # "down"
  BY GateFields
<1>2. CASE \E x \in Threads : Subroutine(x)
  BY <1>2, StopAlone, KillAlone, StartAlone, RecordAlone DEF Subroutine
<1>3. ASSUME UNCHANGED thread, Shrinks,
             backendPid' = backendPid \/ \A c \in Resident' : c.pid # backendPid
      PROVE  Alone' /\ Tracked'
  <2>1. \A y \in Threads : Cleared(y)' => Cleared(y)
    BY <1>3 DEF Cleared, Place
  <2> QED
    BY <1>1, <1>3, <2>1, AloneKept
<1>4. CASE ChildListens
  BY <1>3, <1>4, ListenChildren DEF ChildListens
<1>5. CASE ChildDies
  <2>1. children' \subseteq children
    BY <1>5 DEF ChildDies
  <2> QED
    BY <1>3, <1>5, <2>1, FewerChildren DEF ChildDies
<1>6. CASE ~(\E x \in Threads : Subroutine(x)) /\ ~ChildListens /\ ~ChildDies
  <2>1. Untouched
    BY <1>6, ChildrenKept
  <2>2. Shrinks
    BY <2>1, FewerChildren DEF Untouched
  <2>3. backendPid' = backendPid \/ \A c \in Resident' : c.pid # backendPid
    BY <2>1 DEF Untouched, ChildRunning, Resident
  <2>4. ASSUME NEW x \in Threads, Takes(x) PROVE Alone' /\ Tracked'
    BY <1>1, <2>2, <2>3, <2>4, AloneMoved DEF Takes, Sub
  <2>5. ASSUME NEW h \in Handlers, \/ Receive(h) \/ ChatProbe(h) \/ Quit(h) \/ Close(h) \/ VisionStep(h)
                                   \/ ChatEnter(h) \/ ChatLeave(h)
        PROVE  Alone' /\ Tracked'
    BY <1>0, <2>4, <2>5, ElsewhereStep, TurnStep
  <2>6. CASE MainStop
    <3>1. thread[Main].pc = "idle" /\ Call(Main, "stop", "exit")
      BY <2>6 DEF MainStop, MainIdle
    <3>2. Goes(Main) /\ Place(Main)' = "exit" /\ thread'[Main].pc = "stop"
      BY <1>0, <2>6, <3>1, MainStopStep, CallEffect DEF Quiet, Sub, Stopping
    <3> QED
      BY <1>0, <2>4, <3>1, <3>2 DEF Takes, Cleared, Sub
  <2>7. CASE Exit
    <3>1. \A y \in Threads : thread'[y].pc = "idle" /\ ~Cleared(y)'
      BY <2>7, ExitStep, IdleState DEF Cleared
    <3>2. gateway' = "down"
      BY <2>7 DEF Exit
    <3> QED
      BY <2>2, <2>3, <3>1, <3>2, AloneKept
  <2>8. CASE Signal
    BY <1>3, <2>2, <2>3, <2>8 DEF Signal
  <2> QED
    BY <1>6, <2>5, <2>6, <2>7, <2>8, TurnKinds
<1> QED
  BY <1>2, <1>4, <1>5, <1>6

\* The invariant of the visual turns, when no request switches the model.
LEMMA TurnInvariant ==
  ASSUME Enabled \cap Switches = {}
  PROVE  Spec => []TurnInv
<1>1. Init => TurnInv
  <2> SUFFICES ASSUME Init PROVE TurnInv
    OBVIOUS
  <2>1. /\ BaseInv /\ GateInv /\ Tracked /\ Residents
        /\ \A x \in Threads : thread[x] = Idle /\ Place(x) = "idle"
    BY SwitchInit, InitThreads DEF ProcessInv, SwitchInv
  <2>2. OneTurn
    BY <2>1, IdleState DEF OneTurn, Turning, Visuals
  <2>3. Alone
    BY <2>1, IdleState DEF Alone, Cleared, Residents
  <2> QED
    BY <2>1, <2>2, <2>3 DEF TurnInv
<1>2. TurnInv /\ [Next]_vars => TurnInv'
  <2>1. ASSUME TurnInv, Next PROVE TurnInv'
    <3>1. GateInv'
      BY <2>1, GateStep DEF TurnInv
    <3>2. OneTurn'
      BY <2>1, OneTurnStep DEF TurnInv, GateInv
    <3>3. Alone' /\ Tracked'
      BY <2>1, AloneStep
    <3> QED
      BY <3>1, <3>2, <3>3 DEF TurnInv
  <2>2. ASSUME TurnInv, UNCHANGED vars PROVE TurnInv'
    <3>1. GateInv'
      BY <2>2 DEF vars, TurnInv, GateInv, BaseInv, Gate, TypeOK, ThreadsOK, Placed, Place, Critical,
                  ChildrenOK, OwnPids, MainIdle, Generations
    <3>2. OneTurn' /\ Alone' /\ Tracked'
      BY <2>2 DEF vars, TurnInv, OneTurn, Place, Alone, Resident, Cleared, Tracked
    <3> QED
      BY <3>1, <3>2 DEF TurnInv
  <2> QED
    BY <2>1, <2>2
<1> QED
  BY <1>1, <1>2, PTL DEF Spec

\* A visual turn that paused the chat model has the memory to itself
\* (vision_turn_start, vision_turn_release_runtime): no chat model is resident beside
\* its helper, whatever turns, chats, deaths of children and shutdowns interleave, for any
\* number of handlers, when no request switches the model.
THEOREM OneDecoderHolds ==
  ASSUME Enabled \cap Switches = {}
  PROVE  Spec => []OneDecoder
<1>1. TurnInv => OneDecoder
  <2> SUFFICES ASSUME TurnInv, NEW h \in Handlers, thread[h].paused, thread[h].pc = "analyze"
               PROVE  Resident = {}
    BY DEF OneDecoder
  <2>1. h \in Threads /\ Cleared(h)
    BY DEF Threads, Cleared, Place, Sub
  <2> QED
    BY <2>1 DEF TurnInv, Alone
<1> QED
  BY <1>1, TurnInvariant, PTL

\* Pausing and restarting the chat model for visual turns never leaves two of them, nor one
\* that the gateway does not know, when no request switches the model.
THEOREM TurnsKeepOneBackend ==
  ASSUME Enabled \cap Switches = {}
  PROVE  Spec => [](OneBackend /\ Tracked)
<1>1. TurnInv => OneBackend /\ Tracked
  BY AtMostOne DEF TurnInv, Alone
<1> QED
  BY <1>1, TurnInvariant, PTL
=============================================================================
