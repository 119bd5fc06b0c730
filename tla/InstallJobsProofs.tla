-------------------------- MODULE InstallJobsProofs --------------------------
(***************************************************************************)
(* The safety of model downloads when requests arrive one at a time, for   *)
(* any catalog, number of artifacts, jobs, worker threads and restarts.    *)
(*                                                                         *)
(* With two handlers at once the slot can be claimed twice (InstallRace),  *)
(* so the theorems are about OneAtATime.  The inductive invariant says     *)
(* which of a job's state, its worker's program counter, the slot, the     *)
(* recorded curl and the curl processes go together.                       *)
(***************************************************************************)
EXTENDS InstallJobs, FiniteSetTheorems, TLAPS

\* Requests arrive one at a time: there is at most one handler.
OneAtATime == \A g, h \in Handlers : g = h

(***************************************************************************)
(* The inductive invariant.                                                *)
(***************************************************************************)
\* A gateway that no longer serves has no handler, one that is down no thread.
Quiet ==
    /\ gateway # "up" => \A h \in Handlers : handler[h] = Free
    /\ gateway = "down" => active = None /\ curlPid = None /\ \A w \in Workers : worker[w] = Gone

\* The slot is the one live worker's; a handler that is about to claim it finds it free.
Slot ==
    /\ \A w \in Workers : worker[w] # Gone => worker[w].job = active /\ active \in JobIds
    /\ \A v, w \in Workers : worker[v] # Gone /\ worker[w] # Gone => v = w
    /\ active # None => \E w \in Workers : worker[w].job = active
    /\ \A h \in Handlers : handler[h].pc \in {"save", "activate"} => active = None

\* A job has a model exactly when it exists.
Named == \A j \in JobIds : (jobs[j].state = "absent") = (jobs[j].model = None)

\* A worker's job is in the state its program counter says; its exit status is that of
\* the curl it is looking at, and a signal status comes with the flag.
WorkerOK(w) ==
    LET r == worker[w]
    IN  /\ r.pc = "idle" => r = Gone
        /\ r.pc = "load" => jobs[r.job].state = "queued" /\ r.art = 1
        /\ r.pc \notin {"idle", "load", "clear"} =>
              jobs[r.job].state \in InProgress /\ jobs[r.job].model = r.model
        /\ r.pc = "clear" => jobs[r.job].state \notin InProgress
        /\ r.pc \in {"forked", "wait", "fetched", "verify", "hash"} => r.art <= NArtifacts
        /\ r.pc = "installing" => r.art = NArtifacts + 1
        /\ r.rc # "none" => r.pc \in {"forked", "wait", "fetched"}
        /\ r.rc = "signal" => signal # 0

\* Only a curl that is waited for is recorded.
Recorded == curlPid # None => worker[curlPid].pc = "wait"

\* A curl is its worker's, on the artifact that worker is at; or a shutdown has left it
\* and its model is among the abandoned ones.
CurlOK(c) ==
    /\ Waited(c) => LET r == worker[c.owner]
                    IN  /\ r.pc \in {"forked", "wait"} /\ r.rc = "none"
                        /\ c.dir = r.job /\ c.art = r.art
                        /\ c.killed => signal # 0
    /\ ~Waited(c) /\ c.dir \in JobIds => jobs[c.dir].model \in abandoned
    /\ c.dir \in Models => c.dir \in abandoned

OneCurl == \A c, d \in curls : Waited(c) /\ Waited(d) /\ c.owner = d.owner => c = d

\* What a handler read of its job still holds when it writes it.
HandlerOK(h) ==
    LET r == handler[h]
    IN  /\ r.pc \in {"busy", "save"} => r.op \in {"install", "resume", "retry"}
        /\ r.pc \in {"busy", "save"} /\ r.op = "install" => r.model \in Models
        /\ (r.pc \in {"busy", "save"} /\ r.op = "resume") \/ r.pc = "flip" =>
              r.job \in JobIds /\ jobs[r.job] = [state |-> "paused", model |-> r.model]
        /\ r.pc \in {"busy", "save"} /\ r.op = "retry" =>
              r.job \in JobIds /\ jobs[r.job].state \in {"failed", "canceled"}
              /\ jobs[r.job].model = r.model
        /\ r.pc = "activate" => r.job \in JobIds /\ jobs[r.job].state = "queued"
        /\ r.pc = "kill" => signal # 0 \/ \A w \in Workers : worker[w] = Gone

\* HonestStatus, as long as there are threads.
Attended ==
    Running => \A j \in JobIds : jobs[j].state \in InProgress =>
        \/ \E w \in Workers : worker[w].job = j
        \/ \E h \in Handlers : handler[h].job = j /\ handler[h].pc = "activate"

Complete ==
    \A j \in JobIds : jobs[j].state = "installed" =>
        \A a \in Artifacts : published[jobs[j].model][a] # "none"

\* What a worker has passed is verified, what it has published is in place.
FilesOK(w) ==
    LET r == worker[w]
    IN  /\ r.pc \in {"artifact", "forked", "wait", "fetched", "verify", "hash", "installing"}
           /\ r.model \notin abandoned =>
              \A b \in Artifacts : b < r.art => staged[r.job][b] = "good"
        /\ r.pc = "publish" /\ r.model \notin abandoned =>
              \A b \in Artifacts : b >= r.art => staged[r.job][b] = "good"
        /\ r.pc = "publish" =>
              \A b \in Artifacts : b < r.art => published[r.model][b] # "none"

Inv ==
    /\ OneAtATime
    /\ TypeOK
    /\ Quiet
    /\ Slot
    /\ Named
    /\ \A w \in Workers : WorkerOK(w)
    /\ Recorded
    /\ \A c \in curls : CurlOK(c)
    /\ OneCurl
    /\ \A h \in Handlers : HandlerOK(h)
    /\ Attended
    /\ Complete
    /\ \A w \in Workers : FilesOK(w)
    /\ VerifiedBeforePublish

(***************************************************************************)
(* Facts about the current state.                                          *)
(***************************************************************************)
LEMMA TypeFacts == ASSUME TypeOK
    PROVE  /\ \A j \in JobIds : jobs[j].state \in JobStates \cup {"absent"}
                                /\ jobs[j].model \in Models \cup {None}
           /\ \A w \in Workers : /\ worker[w].pc \in WorkerPcs
                                 /\ worker[w].job \in JobIds \cup {None}
                                 /\ worker[w].model \in Models \cup {None}
                                 /\ worker[w].art \in 1 .. NArtifacts + 1
                                 /\ worker[w].rc \in {"none", "ok", "error", "signal"}
           /\ \A h \in Handlers : /\ handler[h].pc \in HandlerPcs
                                  /\ handler[h].job \in JobIds \cup {None}
                                  /\ handler[h].model \in Models \cup {None}
           /\ \A c \in curls : /\ c.owner \in Workers /\ c.born \in 0 .. restarts
                               /\ c.dir \in JobIds \cup Models \cup {None}
                               /\ c.art \in Artifacts /\ c.killed \in BOOLEAN
  <1>1. \A j \in JobIds : jobs[j].state \in JobStates \cup {"absent"}
                          /\ jobs[j].model \in Models \cup {None}
    BY DEF TypeOK
  <1>2. \A w \in Workers : /\ worker[w].pc \in WorkerPcs
                           /\ worker[w].job \in JobIds \cup {None}
                           /\ worker[w].model \in Models \cup {None}
                           /\ worker[w].art \in 1 .. NArtifacts + 1
                           /\ worker[w].rc \in {"none", "ok", "error", "signal"}
    BY DEF TypeOK
  <1>3. \A h \in Handlers : /\ handler[h].pc \in HandlerPcs
                            /\ handler[h].job \in JobIds \cup {None}
                            /\ handler[h].model \in Models \cup {None}
    BY DEF TypeOK
  <1>4. \A c \in curls : /\ c.owner \in Workers /\ c.born \in 0 .. restarts
                         /\ c.dir \in JobIds \cup Models \cup {None}
                         /\ c.art \in Artifacts /\ c.killed \in BOOLEAN
    BY DEF TypeOK
  <1> QED
    BY <1>1, <1>2, <1>3, <1>4

\* A worker that is somewhere holds the slot, alone.
LEMMA LiveFacts == ASSUME Inv, NEW w \in Workers, worker[w].pc # "idle"
    PROVE  /\ worker[w] # Gone
           /\ worker[w].job = active /\ active \in JobIds /\ active # None
           /\ \A v \in Workers : v # w => worker[v] = Gone
           /\ \A h \in Handlers : handler[h].pc \notin {"save", "activate"}
           /\ \A c \in curls : Waited(c) => c.owner = w
           /\ gateway # "down"
  <1>1. worker[w] # Gone
    BY DEF Gone
  <1>2. worker[w].job = active /\ active \in JobIds /\ active # None
    BY <1>1, InstallAssumption DEF Inv, Slot
  <1>3. \A v \in Workers : v # w => worker[v] = Gone
    BY <1>1 DEF Inv, Slot
  <1>4. \A h \in Handlers : handler[h].pc \notin {"save", "activate"}
    BY <1>2 DEF Inv, Slot
  <1>5. ASSUME NEW c \in curls, Waited(c) PROVE c.owner = w
    <2>1. worker[c.owner].pc \in {"forked", "wait"} /\ c.owner \in Workers
      BY <1>5, TypeFacts DEF Inv, CurlOK
    <2> QED
      BY <2>1, <1>3 DEF Gone
  <1>6. gateway # "down"
    BY <1>1 DEF Inv, Quiet
  <1> QED
    BY <1>1, <1>2, <1>3, <1>4, <1>5, <1>6

\* The job of a worker that is between its start and its end.
LEMMA JobFacts == ASSUME Inv, NEW w \in Workers, worker[w].pc \notin {"idle", "load", "clear"}
    PROVE  /\ jobs[worker[w].job].state \in InProgress
           /\ jobs[worker[w].job].model = worker[w].model
           /\ worker[w].model \in Models
  <1>1. jobs[worker[w].job].state \in InProgress /\ jobs[worker[w].job].model = worker[w].model
    BY DEF Inv, WorkerOK
  <1>2. worker[w].job \in JobIds
    BY LiveFacts
  <1>3. jobs[worker[w].job].model # None
    BY <1>1, <1>2 DEF Inv, Named, InProgress
  <1> QED
    BY <1>1, <1>2, <1>3, TypeFacts DEF Inv

(***************************************************************************)
(* What a step of worker w leaves alone.  It may save its own job, unless  *)
(* it is only about to clear the slot.                                     *)
(***************************************************************************)
OwnStep(w) ==
    /\ \A v \in Workers : v # w => worker'[v] = worker[v]
    /\ worker'[w].pc # "idle" /\ worker'[w].job = worker[w].job
    /\ \A j \in JobIds : j # worker[w].job => jobs'[j] = jobs[j]
    /\ jobs'[worker[w].job].model = jobs[worker[w].job].model
    /\ jobs'[worker[w].job].state # "absent"
    /\ UNCHANGED <<active, signal, handler, gateway, restarts, abandoned>>

LEMMA OwnStepFrame ==
    ASSUME Inv, NEW w \in Workers, worker[w].pc \notin {"idle", "clear"}, OwnStep(w)
    PROVE  /\ Quiet' /\ Slot' /\ Named'
           /\ \A h \in Handlers : HandlerOK(h)'
           /\ Attended'
           /\ \A v \in Workers : v # w => WorkerOK(v)' /\ FilesOK(v)'
  <1> DEFINE j == worker[w].job
  <1>1. /\ worker[w] # Gone
        /\ j = active /\ active \in JobIds /\ active # None
        /\ \A v \in Workers : v # w => worker[v] = Gone
        /\ \A h \in Handlers : handler[h].pc \notin {"save", "activate"}
        /\ gateway # "down"
    BY LiveFacts
  <1>2. worker'[w] # Gone
    BY DEF OwnStep, Gone
  <1>3. jobs[j].state \in InProgress
    <2>1. CASE worker[w].pc = "load"
      BY <2>1 DEF Inv, WorkerOK, InProgress
    <2>2. CASE worker[w].pc # "load"
      BY <2>2, JobFacts
    <2> QED
      BY <2>1, <2>2
  <1>4. Quiet'
    BY <1>1 DEF Inv, Quiet, OwnStep
  <1>5. Slot'
    BY <1>1, <1>2 DEF Inv, Slot, OwnStep
  <1>6. Named'
    <2>1. jobs[j].model # None
      BY <1>1, <1>3 DEF Inv, Named, InProgress
    <2> QED
      BY <1>1, <2>1 DEF Inv, Named, OwnStep
  <1>7. ASSUME NEW h \in Handlers PROVE HandlerOK(h)'
    <2>1. HandlerOK(h)
      BY DEF Inv
    <2>2. /\ (handler[h].pc = "busy" /\ handler[h].op = "resume") \/ handler[h].pc = "flip" =>
                handler[h].job # j
          /\ handler[h].pc = "busy" /\ handler[h].op = "retry" => handler[h].job # j
      BY <2>1, <1>3 DEF HandlerOK, InProgress
    <2>3. handler[h].pc = "kill" => signal # 0
      BY <2>1, <1>1 DEF HandlerOK
    <2> QED
      BY <2>1, <2>2, <2>3, <1>1 DEF HandlerOK, OwnStep
  <1>8. Attended'
    BY <1>1 DEF Inv, Attended, OwnStep, Running
  <1>9. ASSUME NEW v \in Workers, v # w PROVE WorkerOK(v)' /\ FilesOK(v)'
    BY <1>1, <1>9 DEF OwnStep, WorkerOK, FilesOK, Gone
  <1> QED
    BY <1>4, <1>5, <1>6, <1>7, <1>8, <1>9

LEMMA OwnStepInv ==
    ASSUME Inv, NEW w \in Workers, worker[w].pc \notin {"idle", "clear"}, OwnStep(w),
           TypeOK', WorkerOK(w)', Recorded', \A c \in curls' : CurlOK(c)', OneCurl', Complete',
           FilesOK(w)', VerifiedBeforePublish'
    PROVE  Inv'
  <1>1. /\ Quiet' /\ Slot' /\ Named'
        /\ \A h \in Handlers : HandlerOK(h)'
        /\ Attended'
        /\ \A v \in Workers : v # w => WorkerOK(v)' /\ FilesOK(v)'
    BY OwnStepFrame
  <1>2. OneAtATime
    BY DEF Inv
  <1> QED
    BY <1>1, <1>2 DEF Inv, OneAtATime

\* A worker has no curl except while it waits for one.
LEMMA NoCurl == ASSUME Inv, NEW w \in Workers, worker[w].pc \notin {"idle", "forked", "wait"}
    PROVE  \A c \in curls : ~Waited(c)
  BY LiveFacts DEF Inv, CurlOK

\* The curl processes when a worker step starts, stops and moves none of them.
LEMMA CurlsStay ==
    ASSUME Inv, NEW w \in Workers, worker[w].pc \notin {"idle", "clear"}, OwnStep(w),
           UNCHANGED curls,
           \/ \A c \in curls : ~Waited(c)
           \/ /\ worker'[w].pc \in {"forked", "wait"}
              /\ worker'[w].rc = worker[w].rc /\ worker'[w].art = worker[w].art
    PROVE  (\A c \in curls' : CurlOK(c)') /\ OneCurl'
  <1>1. ASSUME NEW c \in curls PROVE Waited(c)' <=> Waited(c)
    BY DEF Waited, Running, OwnStep
  <1>2. ASSUME NEW c \in curls PROVE CurlOK(c)'
    <2>1. CurlOK(c) /\ (Waited(c)' <=> Waited(c)) /\ c.owner \in Workers
      BY <1>1, TypeFacts DEF Inv
    <2>2. c.dir \in JobIds => jobs'[c.dir].model = jobs[c.dir].model
      BY DEF OwnStep
    <2>3. Waited(c) => c.owner = w
      BY LiveFacts
    <2>4. abandoned' = abandoned /\ signal' = signal /\ worker'[w].job = worker[w].job
      BY DEF OwnStep
    <2> QED
      BY <2>1, <2>2, <2>3, <2>4 DEF CurlOK
  <1>3. OneCurl'
    BY <1>1 DEF Inv, OneCurl
  <1> QED
    BY <1>2, <1>3

\* The curl processes when the worker moves or unlinks a file: none is its own, and
\* those that follow the file stay with its model.
Follows(w, c, d) ==
    /\ c.owner = d.owner /\ c.born = d.born
    /\ c.dir \in {d.dir, None} \/ (d.dir = worker[w].job /\ c.dir = worker[w].model)

LEMMA CurlsFollow ==
    ASSUME Inv, NEW w \in Workers, worker[w].pc \notin {"idle", "load", "clear", "forked", "wait"},
           OwnStep(w), \A c \in curls' : \E d \in curls : Follows(w, c, d)
    PROVE  (\A c \in curls' : CurlOK(c)') /\ OneCurl'
  <1>1. ASSUME NEW c \in curls' PROVE ~Waited(c)' /\ CurlOK(c)'
    <2>1. PICK d \in curls : Follows(w, c, d)
      OBVIOUS
    <2>2. ~Waited(d) /\ CurlOK(d)
      BY NoCurl DEF Inv
    <2>3. ~Waited(c)'
      BY <2>1, <2>2 DEF Waited, Running, OwnStep, Follows
    <2>4. worker[w].job \in JobIds /\ jobs[worker[w].job].model = worker[w].model
          /\ worker[w].model \in Models
      BY LiveFacts, JobFacts
    <2>5. \A j \in JobIds : jobs'[j].model = jobs[j].model
      BY DEF OwnStep
    <2>6. abandoned' = abandoned
      BY DEF OwnStep
    <2>7. CASE c.dir = d.dir
      BY <2>2, <2>3, <2>5, <2>6, <2>7 DEF CurlOK
    <2>8. CASE c.dir = None
      BY <2>3, <2>8, InstallAssumption DEF CurlOK
    <2>9. CASE d.dir = worker[w].job /\ c.dir = worker[w].model
      <3>1. c.dir \in abandoned /\ c.dir \notin JobIds
        BY <2>2, <2>4, <2>9, InstallAssumption DEF CurlOK
      <3> QED
        BY <2>3, <2>6, <3>1 DEF CurlOK
    <2> QED
      BY <2>1, <2>3, <2>7, <2>8, <2>9 DEF Follows
  <1> QED
    BY <1>1 DEF OneCurl

CurlRecords(n) == [owner : Workers, born : 0 .. n, dir : JobIds \cup Models \cup {None},
                   art : Artifacts, killed : BOOLEAN]

LEMMA MovedFollows ==
    ASSUME NEW n, NEW cs \in SUBSET CurlRecords(n), NEW dir, NEW a,
           NEW new \in JobIds \cup Models \cup {None}
    PROVE  /\ Moved(cs, dir, a, new) \in SUBSET CurlRecords(n)
           /\ \A c \in Moved(cs, dir, a, new) : \E d \in cs :
                 /\ c.owner = d.owner /\ c.born = d.born /\ c.art = d.art
                 /\ c.dir = d.dir \/ (d.dir = dir /\ d.art = a /\ c.dir = new)
  BY DEF Moved, CurlRecords

(***************************************************************************)
(* One lemma per action of the worker.                                     *)
(***************************************************************************)
\* Replacing a job and moving a worker keeps both well typed.
LEMMA SaveType ==
    ASSUME TypeOK, NEW j \in JobIds, NEW m \in Models \cup {None},
           NEW s \in JobStates \cup {"absent"}, install_job_save(j, m, s)
    PROVE  /\ jobs' \in [JobIds -> [state : JobStates \cup {"absent"}, model : Models \cup {None}]]
           /\ jobs'[j] = [state |-> s, model |-> m]
           /\ \A i \in JobIds : i # j => jobs'[i] = jobs[i]
  BY DEF TypeOK, install_job_save

WorkerRecords == [pc : WorkerPcs, job : JobIds \cup {None}, model : Models \cup {None},
                  art : 1 .. NArtifacts + 1, rc : {"none", "ok", "error", "signal"}]

LEMMA WGotoType ==
    ASSUME TypeOK, NEW w \in Workers, NEW pc \in WorkerPcs, WGoto(w, pc)
    PROVE  /\ worker' \in [Workers -> WorkerRecords]
           /\ worker'[w].pc = pc /\ worker'[w].job = worker[w].job
           /\ worker'[w].model = worker[w].model /\ worker'[w].art = worker[w].art
           /\ worker'[w].rc = worker[w].rc
           /\ \A v \in Workers : v # w => worker'[v] = worker[v]
  BY DEF TypeOK, WGoto, WorkerRecords

LEMMA WMoveType ==
    ASSUME TypeOK, NEW w \in Workers, NEW pc \in WorkerPcs, NEW art \in 1 .. NArtifacts + 1,
           worker' = [worker EXCEPT ![w].pc = pc, ![w].art = art]
    PROVE  /\ worker' \in [Workers -> WorkerRecords]
           /\ worker'[w].pc = pc /\ worker'[w].job = worker[w].job
           /\ worker'[w].model = worker[w].model /\ worker'[w].art = art
           /\ worker'[w].rc = worker[w].rc
           /\ \A v \in Workers : v # w => worker'[v] = worker[v]
  BY DEF TypeOK, WorkerRecords

\* The state and the type of a step that saves the worker's job and moves its counter,
\* and touches nothing else.
LEMMA SaveStep ==
    ASSUME Inv, NEW w \in Workers, worker[w].pc \notin {"idle", "load", "clear", "forked", "wait"},
           NEW s \in JobStates, install_job_save(worker[w].job, worker[w].model, s),
           worker' \in [Workers -> WorkerRecords],
           \A v \in Workers : v # w => worker'[v] = worker[v],
           worker'[w].pc # "idle", worker'[w].job = worker[w].job,
           UNCHANGED <<staged, published, memory, curls, handler, life>>
    PROVE  /\ OwnStep(w) /\ TypeOK' /\ Recorded'
           /\ jobs'[worker[w].job] = [state |-> s, model |-> worker[w].model]
           /\ (\A c \in curls' : CurlOK(c)') /\ OneCurl'
           /\ VerifiedBeforePublish'
           /\ s # "installed" => Complete'
  <1> DEFINE j == worker[w].job
  <1>1. j \in JobIds /\ worker[w].model \in Models /\ TypeOK
    BY LiveFacts, JobFacts DEF Inv
  <1>2. jobs[j].model = worker[w].model
    BY JobFacts
  <1>3. /\ jobs' \in [JobIds -> [state : JobStates \cup {"absent"}, model : Models \cup {None}]]
        /\ jobs'[j] = [state |-> s, model |-> worker[w].model]
        /\ \A i \in JobIds : i # j => jobs'[i] = jobs[i]
    BY <1>1, SaveType
  <1>4. OwnStep(w)
    BY <1>1, <1>2, <1>3 DEF OwnStep, memory, life, JobStates, InProgress, Terminal
  <1>5. TypeOK'
    BY <1>1, <1>3 DEF TypeOK, WorkerRecords, memory, life
  <1>6. Recorded'
    <2>1. curlPid \in Workers \cup {None}
      BY <1>1 DEF TypeOK
    <2>2. curlPid # None => curlPid # w
      BY DEF Inv, Recorded
    <2> QED
      BY <2>1, <2>2 DEF Inv, Recorded, memory
  <1>7. (\A c \in curls' : CurlOK(c)') /\ OneCurl'
    BY <1>4, NoCurl, CurlsStay
  <1>8. VerifiedBeforePublish'
    BY DEF Inv, VerifiedBeforePublish, life
  <1>9. s # "installed" => Complete'
    BY <1>1, <1>3 DEF Inv, Complete
  <1> QED
    BY <1>3, <1>4, <1>5, <1>6, <1>7, <1>8, <1>9

LEMMA WorkerVerifyInv == ASSUME Inv, NEW w \in Workers, WorkerVerify(w) PROVE Inv'
  <1> USE DEF WorkerVerify, At
  <1>1. TypeOK /\ WorkerOK(w) /\ FilesOK(w)
    BY DEF Inv
  <1>2. /\ worker' \in [Workers -> WorkerRecords]
        /\ worker'[w].pc = "hash" /\ worker'[w].job = worker[w].job
        /\ worker'[w].model = worker[w].model /\ worker'[w].art = worker[w].art
        /\ worker'[w].rc = worker[w].rc
        /\ \A v \in Workers : v # w => worker'[v] = worker[v]
    BY <1>1, WGotoType DEF WorkerPcs
  <1>3. "verifying" \in JobStates
    BY DEF JobStates, InProgress
  <1>4. /\ OwnStep(w) /\ TypeOK' /\ Recorded'
        /\ jobs'[worker[w].job] = [state |-> "verifying", model |-> worker[w].model]
        /\ (\A c \in curls' : CurlOK(c)') /\ OneCurl'
        /\ VerifiedBeforePublish' /\ Complete'
    BY <1>2, <1>3, SaveStep
  <1>5. WorkerOK(w)'
    BY <1>1, <1>2, <1>4 DEF WorkerOK, InProgress, memory
  <1>6. FilesOK(w)'
    BY <1>1, <1>2 DEF FilesOK, life
  <1> QED
    BY <1>4, <1>5, <1>6, OwnStepInv

LEMMA WorkerStoppedInv == ASSUME Inv, NEW w \in Workers, WorkerStopped(w) PROVE Inv'
  <1> USE DEF WorkerStopped, At
  <1> DEFINE s == IF signal = 1 THEN "paused" ELSE "canceled"
  <1>1. TypeOK /\ WorkerOK(w) /\ FilesOK(w)
    BY DEF Inv
  <1>2. /\ worker' \in [Workers -> WorkerRecords]
        /\ worker'[w].pc = "clear" /\ worker'[w].job = worker[w].job
        /\ worker'[w].model = worker[w].model /\ worker'[w].art = worker[w].art
        /\ worker'[w].rc = worker[w].rc
        /\ \A v \in Workers : v # w => worker'[v] = worker[v]
    BY <1>1, WGotoType DEF WorkerPcs
  <1>3. s \in JobStates /\ s \notin InProgress /\ s # "installed"
    BY DEF JobStates, InProgress, Terminal
  <1>s. install_job_save(worker[w].job, worker[w].model, s)
    OBVIOUS
  <1> HIDE DEF s
  <1>4. /\ OwnStep(w) /\ TypeOK' /\ Recorded'
        /\ jobs'[worker[w].job] = [state |-> s, model |-> worker[w].model]
        /\ (\A c \in curls' : CurlOK(c)') /\ OneCurl'
        /\ VerifiedBeforePublish' /\ Complete'
    BY <1>2, <1>3, <1>s, SaveStep
  <1>5. WorkerOK(w)'
    BY <1>1, <1>2, <1>3, <1>4 DEF WorkerOK, memory
  <1>6. FilesOK(w)'
    BY <1>2 DEF FilesOK
  <1> QED
    BY <1>4, <1>5, <1>6, OwnStepInv

LEMMA WorkerFailedInv == ASSUME Inv, NEW w \in Workers, WorkerFailed(w) PROVE Inv'
  <1> USE DEF WorkerFailed, At
  <1>1. TypeOK /\ WorkerOK(w) /\ FilesOK(w)
    BY DEF Inv
  <1>2. /\ worker' \in [Workers -> WorkerRecords]
        /\ worker'[w].pc = "clear" /\ worker'[w].job = worker[w].job
        /\ worker'[w].model = worker[w].model /\ worker'[w].art = worker[w].art
        /\ worker'[w].rc = worker[w].rc
        /\ \A v \in Workers : v # w => worker'[v] = worker[v]
    BY <1>1, WGotoType DEF WorkerPcs
  <1>3. "failed" \in JobStates
    BY DEF JobStates, Terminal
  <1>4. /\ OwnStep(w) /\ TypeOK' /\ Recorded'
        /\ jobs'[worker[w].job] = [state |-> "failed", model |-> worker[w].model]
        /\ (\A c \in curls' : CurlOK(c)') /\ OneCurl'
        /\ VerifiedBeforePublish' /\ Complete'
    BY <1>2, <1>3, SaveStep
  <1>5. WorkerOK(w)'
    BY <1>1, <1>2, <1>4 DEF WorkerOK, InProgress, memory
  <1>6. FilesOK(w)'
    BY <1>2 DEF FilesOK
  <1> QED
    BY <1>4, <1>5, <1>6, OwnStepInv

LEMMA WorkerInstallingInv == ASSUME Inv, NEW w \in Workers, WorkerInstalling(w) PROVE Inv'
  <1> USE DEF WorkerInstalling, At
  <1>1. TypeOK /\ WorkerOK(w) /\ FilesOK(w)
    BY DEF Inv
  <1>2. /\ worker' \in [Workers -> WorkerRecords]
        /\ worker'[w].pc = "publish" /\ worker'[w].job = worker[w].job
        /\ worker'[w].model = worker[w].model /\ worker'[w].art = 1
        /\ worker'[w].rc = worker[w].rc
        /\ \A v \in Workers : v # w => worker'[v] = worker[v]
    <2>1. 1 \in 1 .. NArtifacts + 1
      BY InstallAssumption
    <2>2. worker' = [worker EXCEPT ![w].pc = "publish", ![w].art = 1]
      OBVIOUS
    <2> QED
      BY <1>1, <2>1, <2>2, WMoveType DEF WorkerPcs
  <1>3. "installing" \in JobStates
    BY DEF JobStates, InProgress
  <1>4. /\ OwnStep(w) /\ TypeOK' /\ Recorded'
        /\ jobs'[worker[w].job] = [state |-> "installing", model |-> worker[w].model]
        /\ (\A c \in curls' : CurlOK(c)') /\ OneCurl'
        /\ VerifiedBeforePublish' /\ Complete'
    BY <1>2, <1>3, SaveStep
  <1>5. WorkerOK(w)'
    BY <1>1, <1>2, <1>4 DEF WorkerOK, InProgress, memory
  <1>6. FilesOK(w)'
    <2>1. worker[w].art = NArtifacts + 1
      BY <1>1 DEF WorkerOK
    <2>2. \A b \in Artifacts : b < NArtifacts + 1 /\ b >= 1
      BY InstallAssumption DEF Artifacts
    <2>3. worker[w].model \notin abandoned => \A b \in Artifacts : staged[worker[w].job][b] = "good"
      BY <1>1, <2>1, <2>2 DEF FilesOK
    <2>4. \A b \in Artifacts : ~(b < 1)
      BY <2>2, InstallAssumption DEF Artifacts
    <2> QED
      BY <1>2, <2>3, <2>4 DEF FilesOK, life
  <1> QED
    BY <1>4, <1>5, <1>6, OwnStepInv

\* The same for a step that only moves the worker.
LEMMA MoveStep ==
    ASSUME Inv, NEW w \in Workers, worker[w].pc \notin {"idle", "load", "clear", "forked", "wait"},
           worker' \in [Workers -> WorkerRecords],
           \A v \in Workers : v # w => worker'[v] = worker[v],
           worker'[w].pc # "idle", worker'[w].job = worker[w].job,
           UNCHANGED <<disk, memory, curls, handler, life>>
    PROVE  /\ OwnStep(w) /\ TypeOK' /\ Recorded'
           /\ (\A c \in curls' : CurlOK(c)') /\ OneCurl'
           /\ VerifiedBeforePublish' /\ Complete'
  <1> DEFINE j == worker[w].job
  <1>1. j \in JobIds /\ TypeOK
    BY LiveFacts DEF Inv
  <1>2. jobs[j].state # "absent"
    BY JobFacts DEF InProgress
  <1>4. OwnStep(w)
    BY <1>1, <1>2 DEF OwnStep, disk, memory, life
  <1>5. TypeOK'
    BY <1>1 DEF TypeOK, WorkerRecords, disk, memory, life
  <1>6. Recorded'
    <2>1. curlPid \in Workers \cup {None}
      BY <1>1 DEF TypeOK
    <2>2. curlPid # None => curlPid # w
      BY DEF Inv, Recorded
    <2> QED
      BY <2>1, <2>2 DEF Inv, Recorded, memory
  <1>7. (\A c \in curls' : CurlOK(c)') /\ OneCurl'
    BY <1>4, NoCurl, CurlsStay
  <1>8. VerifiedBeforePublish'
    BY DEF Inv, VerifiedBeforePublish, life, disk
  <1>9. Complete'
    BY DEF Inv, Complete, disk
  <1> QED
    BY <1>4, <1>5, <1>6, <1>7, <1>8, <1>9

\* A worker that gives up, whatever it had.
LEMMA GiveUpInv ==
    ASSUME Inv, NEW w \in Workers, worker[w].pc \in {"artifact", "publish"},
           NEW pc \in {"failed", "stopped"}, WGoto(w, pc),
           UNCHANGED <<disk, memory, curls, handler, life>>
    PROVE  Inv'
  <1>1. TypeOK /\ WorkerOK(w)
    BY DEF Inv
  <1>2. /\ worker' \in [Workers -> WorkerRecords]
        /\ worker'[w].pc = pc /\ worker'[w].job = worker[w].job
        /\ worker'[w].model = worker[w].model /\ worker'[w].art = worker[w].art
        /\ worker'[w].rc = worker[w].rc
        /\ \A v \in Workers : v # w => worker'[v] = worker[v]
    BY <1>1, WGotoType DEF WorkerPcs
  <1>3. /\ OwnStep(w) /\ TypeOK' /\ Recorded'
        /\ (\A c \in curls' : CurlOK(c)') /\ OneCurl'
        /\ VerifiedBeforePublish' /\ Complete'
    BY <1>2, MoveStep
  <1>4. WorkerOK(w)'
    BY <1>1, <1>2 DEF WorkerOK, disk, memory
  <1>5. FilesOK(w)'
    BY <1>2 DEF FilesOK
  <1> QED
    BY <1>3, <1>4, <1>5, OwnStepInv

LEMMA WorkerArtifactInv == ASSUME Inv, NEW w \in Workers, WorkerArtifact(w) PROVE Inv'
  <1> DEFINE j == worker[w].job
             a == worker[w].art
  <1>1. TypeOK /\ WorkerOK(w) /\ FilesOK(w) /\ worker[w].pc = "artifact"
        /\ UNCHANGED <<disk, memory, handler, life>>
    BY DEF Inv, WorkerArtifact, At
  <1>2. j \in JobIds /\ a \in 1 .. NArtifacts + 1 /\ NArtifacts \in Nat \ {0}
    BY <1>1, LiveFacts, TypeFacts, InstallAssumption
  <1>3. ASSUME NEW pc \in {"installing", "verify"}, WGoto(w, pc), UNCHANGED curls,
               pc = "installing" => a > NArtifacts, pc = "verify" => a <= NArtifacts
        PROVE  Inv'
    <2>1. /\ worker' \in [Workers -> WorkerRecords]
          /\ worker'[w].pc = pc /\ worker'[w].job = worker[w].job
          /\ worker'[w].model = worker[w].model /\ worker'[w].art = worker[w].art
          /\ worker'[w].rc = worker[w].rc
          /\ \A v \in Workers : v # w => worker'[v] = worker[v]
      BY <1>1, <1>3, WGotoType DEF WorkerPcs
    <2>2. /\ OwnStep(w) /\ TypeOK' /\ Recorded'
          /\ (\A c \in curls' : CurlOK(c)') /\ OneCurl'
          /\ VerifiedBeforePublish' /\ Complete'
      BY <1>1, <1>3, <2>1, MoveStep
    <2>3. a > NArtifacts => a = NArtifacts + 1
      BY <1>2
    <2>4. WorkerOK(w)'
      BY <1>1, <1>3, <2>1, <2>3 DEF WorkerOK, disk, memory
    <2>5. FilesOK(w)'
      BY <1>1, <1>3, <2>1 DEF FilesOK, disk, life
    <2> QED
      BY <1>1, <2>2, <2>4, <2>5, OwnStepInv
  <1>4. ASSUME a <= NArtifacts, WGoto(w, "forked"),
               curls' = curls \cup {[owner |-> w, born |-> restarts, dir |-> j, art |-> a,
                                     killed |-> FALSE]}
        PROVE  Inv'
    <2>n. PICK n : n = [owner |-> w, born |-> restarts, dir |-> j, art |-> a, killed |-> FALSE]
      OBVIOUS
    <2>1. /\ worker' \in [Workers -> WorkerRecords]
          /\ worker'[w].pc = "forked" /\ worker'[w].job = worker[w].job
          /\ worker'[w].model = worker[w].model /\ worker'[w].art = worker[w].art
          /\ worker'[w].rc = worker[w].rc
          /\ \A v \in Workers : v # w => worker'[v] = worker[v]
      BY <1>1, <1>4, WGotoType DEF WorkerPcs
    <2>2. jobs[j].state # "absent"
      BY <1>1, JobFacts DEF InProgress
    <2>3. OwnStep(w)
      BY <1>1, <1>2, <2>1, <2>2 DEF OwnStep, disk, memory, life
    <2>4. n \in [owner : Workers, born : 0 .. restarts, dir : JobIds \cup Models \cup {None},
                 art : Artifacts, killed : BOOLEAN]
      <3>1. a \in Artifacts
        BY <1>2, <1>4 DEF Artifacts
      <3>2. restarts \in 0 .. restarts
        BY <1>1, InstallAssumption DEF TypeOK
      <3> QED
        BY <1>2, <2>n, <3>1, <3>2
    <2>5. TypeOK'
      <3>1. curls' \subseteq [owner : Workers, born : 0 .. restarts,
                              dir : JobIds \cup Models \cup {None}, art : Artifacts,
                              killed : BOOLEAN]
        BY <1>1, <1>4, <2>n, <2>4 DEF TypeOK
      <3>2. restarts' = restarts
        BY <1>1 DEF life
      <3> QED
        BY <1>1, <2>1, <3>1, <3>2 DEF TypeOK, WorkerRecords, disk, memory, life
    <2>6. Recorded'
      <3>1. curlPid \in Workers \cup {None} /\ (curlPid # None => curlPid # w)
        BY <1>1 DEF TypeOK, Inv, Recorded
      <3> QED
        BY <1>1, <2>1, <3>1 DEF Inv, Recorded, memory
    <2>7. \A c \in curls : ~Waited(c)
      BY <1>1, NoCurl
    <2>8. ASSUME NEW c \in curls PROVE ~Waited(c)' /\ CurlOK(c)'
      <3>1. ~Waited(c)' /\ ~Waited(c) /\ CurlOK(c)
        BY <1>1, <2>7 DEF Waited, Running, life, Inv
      <3> QED
        BY <1>1, <3>1 DEF CurlOK, disk, life
    <2>9. CurlOK(n)'
      <3>1. j \notin Models /\ Running
        BY <1>2, InstallAssumption DEF WorkerArtifact, At
      <3>2. worker[w].rc = "none"
        BY <1>1 DEF WorkerOK
      <3>3. Waited(n)'
        BY <1>1, <2>n, <3>1 DEF Waited, Running, life
      <3> QED
        BY <1>1, <2>n, <2>1, <3>1, <3>2, <3>3 DEF CurlOK
    <2>10. (\A c \in curls' : CurlOK(c)') /\ OneCurl'
      <3>1. curls' = curls \cup {n}
        BY <1>4, <2>n
      <3> QED
        BY <2>8, <2>9, <3>1 DEF OneCurl
    <2>11. VerifiedBeforePublish' /\ Complete'
      BY <1>1 DEF Inv, VerifiedBeforePublish, Complete, life, disk
    <2>12. WorkerOK(w)'
      BY <1>1, <1>4, <2>1 DEF WorkerOK, disk, memory
    <2>13. FilesOK(w)'
      BY <1>1, <2>1 DEF FilesOK, disk, life
    <2> QED
      BY <1>1, <2>3, <2>5, <2>6, <2>10, <2>11, <2>12, <2>13, OwnStepInv
  <1>5. ASSUME NEW pc \in {"failed", "stopped"}, WGoto(w, pc), UNCHANGED curls PROVE Inv'
    BY <1>1, <1>5, GiveUpInv
  <1> QED
    BY <1>3, <1>4, <1>5 DEF WorkerArtifact

LEMMA WorkerRecordInv == ASSUME Inv, NEW w \in Workers, WorkerRecord(w) PROVE Inv'
  <1>1. TypeOK /\ WorkerOK(w) /\ FilesOK(w) /\ worker[w].pc = "forked" /\ curlPid' = w
        /\ WGoto(w, "wait") /\ UNCHANGED <<disk, active, signal, curls, handler, life>>
    BY DEF Inv, WorkerRecord, At
  <1>2. /\ worker' \in [Workers -> WorkerRecords]
        /\ worker'[w].pc = "wait" /\ worker'[w].job = worker[w].job
        /\ worker'[w].model = worker[w].model /\ worker'[w].art = worker[w].art
        /\ worker'[w].rc = worker[w].rc
        /\ \A v \in Workers : v # w => worker'[v] = worker[v]
    BY <1>1, WGotoType DEF WorkerPcs
  <1>3. OwnStep(w)
    BY <1>1, <1>2, LiveFacts, JobFacts DEF OwnStep, disk, life, InProgress
  <1>4. TypeOK'
    BY <1>1, <1>2 DEF TypeOK, WorkerRecords, disk, life
  <1>5. Recorded' /\ VerifiedBeforePublish' /\ Complete'
    BY <1>1, <1>2 DEF Inv, Recorded, VerifiedBeforePublish, Complete, life, disk
  <1>6. (\A c \in curls' : CurlOK(c)') /\ OneCurl'
    BY <1>1, <1>2, <1>3, CurlsStay
  <1>7. WorkerOK(w)'
    BY <1>1, <1>2 DEF WorkerOK, disk
  <1>8. FilesOK(w)'
    BY <1>1, <1>2 DEF FilesOK, disk, life
  <1> QED
    BY <1>1, <1>3, <1>4, <1>5, <1>6, <1>7, <1>8, OwnStepInv

LEMMA WorkerReapInv == ASSUME Inv, NEW w \in Workers, WorkerReap(w) PROVE Inv'
  <1>1. TypeOK /\ WorkerOK(w) /\ FilesOK(w) /\ worker[w].pc = "wait" /\ curlPid' = None
        /\ WGoto(w, "fetched") /\ UNCHANGED <<disk, active, signal, curls, handler, life>>
        /\ Mine(w) = {}
    BY DEF Inv, WorkerReap, At
  <1>2. /\ worker' \in [Workers -> WorkerRecords]
        /\ worker'[w].pc = "fetched" /\ worker'[w].job = worker[w].job
        /\ worker'[w].model = worker[w].model /\ worker'[w].art = worker[w].art
        /\ worker'[w].rc = worker[w].rc
        /\ \A v \in Workers : v # w => worker'[v] = worker[v]
    BY <1>1, WGotoType DEF WorkerPcs
  <1>3. OwnStep(w)
    BY <1>1, <1>2, LiveFacts, JobFacts DEF OwnStep, disk, life, InProgress
  <1>4. TypeOK'
    BY <1>1, <1>2 DEF TypeOK, WorkerRecords, disk, life
  <1>5. Recorded' /\ VerifiedBeforePublish' /\ Complete'
    BY <1>1, <1>2 DEF Inv, Recorded, VerifiedBeforePublish, Complete, life, disk
  <1>6. \A c \in curls : ~Waited(c)
    BY <1>1, LiveFacts DEF Mine, Waited
  <1>7. (\A c \in curls' : CurlOK(c)') /\ OneCurl'
    BY <1>1, <1>3, <1>6, CurlsStay
  <1>8. WorkerOK(w)'
    BY <1>1, <1>2 DEF WorkerOK, disk
  <1>9. FilesOK(w)'
    BY <1>1, <1>2 DEF FilesOK, disk, life
  <1> QED
    BY <1>1, <1>3, <1>4, <1>5, <1>7, <1>8, <1>9, OwnStepInv

LEMMA WDoneType ==
    ASSUME TypeOK, NEW w \in Workers, NEW pc \in WorkerPcs,
           worker' = [worker EXCEPT ![w].pc = pc, ![w].rc = "none"]
    PROVE  /\ worker' \in [Workers -> WorkerRecords]
           /\ worker'[w].pc = pc /\ worker'[w].job = worker[w].job
           /\ worker'[w].model = worker[w].model /\ worker'[w].art = worker[w].art
           /\ worker'[w].rc = "none"
           /\ \A v \in Workers : v # w => worker'[v] = worker[v]
  BY DEF TypeOK, WorkerRecords

\* A file of the wrong size or checksum is unlinked and the job fails.
LEMMA UnlinkInv ==
    ASSUME Inv, NEW w \in Workers, worker[w].pc \in {"fetched", "hash"},
           UnlinkStaged(worker[w].job, worker[w].art),
           worker' \in [Workers -> WorkerRecords],
           \A v \in Workers : v # w => worker'[v] = worker[v],
           worker'[w].pc = "failed", worker'[w].job = worker[w].job,
           worker'[w].model = worker[w].model, worker'[w].rc = "none",
           UNCHANGED <<jobs, published, memory, handler, life>>
    PROVE  Inv'
  <1> DEFINE j == worker[w].job
             a == worker[w].art
  <1>1. TypeOK /\ WorkerOK(w)
    BY DEF Inv
  <1>2. j \in JobIds /\ a \in Artifacts
    <2>1. a \in 1 .. NArtifacts + 1 /\ a <= NArtifacts
      BY <1>1, TypeFacts DEF WorkerOK
    <2> QED
      BY <2>1, LiveFacts, InstallAssumption DEF Artifacts
  <1>3. jobs[j].state # "absent"
    BY JobFacts DEF InProgress
  <1>4. OwnStep(w)
    BY <1>2, <1>3 DEF OwnStep, memory, life
  <1>5. /\ curls \in SUBSET CurlRecords(restarts)
        /\ curls' = Moved(curls, j, a, None)
    BY <1>1 DEF TypeOK, UnlinkStaged, CurlRecords
  <1>6. /\ curls' \in SUBSET CurlRecords(restarts)
        /\ \A c \in curls' : \E d \in curls :
              /\ c.owner = d.owner /\ c.born = d.born /\ c.art = d.art
              /\ c.dir = d.dir \/ (d.dir = j /\ d.art = a /\ c.dir = None)
    BY <1>5, MovedFollows
  <1>7. TypeOK'
    <2>1. staged' \in [JobIds -> [Artifacts -> Contents]]
      <3>1. [staged[j] EXCEPT ![a] = "none"] \in [Artifacts -> Contents]
        BY <1>1, <1>2 DEF TypeOK, Contents
      <3> QED
        BY <1>1, <1>2, <3>1 DEF TypeOK, UnlinkStaged
    <2>2. restarts' = restarts
      BY DEF life
    <2> QED
      BY <1>1, <1>6, <2>1, <2>2 DEF TypeOK, WorkerRecords, CurlRecords, memory, life
  <1>8. Recorded'
    <2>1. curlPid \in Workers \cup {None} /\ (curlPid # None => curlPid # w)
      BY <1>1 DEF TypeOK, Inv, Recorded
    <2> QED
      BY <2>1 DEF Inv, Recorded, memory
  <1>9. (\A c \in curls' : CurlOK(c)') /\ OneCurl'
    <2>1. \A c \in curls' : \E d \in curls : Follows(w, c, d)
      BY <1>6 DEF Follows
    <2> QED
      BY <1>4, <2>1, CurlsFollow
  <1>10. VerifiedBeforePublish' /\ Complete'
    BY DEF Inv, VerifiedBeforePublish, Complete, life
  <1>11. WorkerOK(w)'
    BY <1>1 DEF WorkerOK, memory
  <1>12. FilesOK(w)'
    BY DEF FilesOK
  <1> QED
    BY <1>4, <1>7, <1>8, <1>9, <1>10, <1>11, <1>12, OwnStepInv

LEMMA WorkerFetchedInv == ASSUME Inv, NEW w \in Workers, WorkerFetched(w) PROVE Inv'
  <1>1. TypeOK /\ WorkerOK(w) /\ FilesOK(w) /\ worker[w].pc = "fetched"
        /\ UNCHANGED <<jobs, published, memory, handler, life>>
    BY DEF Inv, WorkerFetched, At
  <1>2. ASSUME NEW pc \in {"stopped", "failed", "verify"}, UNCHANGED <<staged, curls>>,
               worker' = [worker EXCEPT ![w].pc = pc, ![w].rc = "none"]
        PROVE  Inv'
    <2>1. /\ worker' \in [Workers -> WorkerRecords]
          /\ worker'[w].pc = pc /\ worker'[w].job = worker[w].job
          /\ worker'[w].model = worker[w].model /\ worker'[w].art = worker[w].art
          /\ worker'[w].rc = "none"
          /\ \A v \in Workers : v # w => worker'[v] = worker[v]
      BY <1>1, <1>2, WDoneType DEF WorkerPcs
    <2>2. /\ OwnStep(w) /\ TypeOK' /\ Recorded'
          /\ (\A c \in curls' : CurlOK(c)') /\ OneCurl'
          /\ VerifiedBeforePublish' /\ Complete'
      BY <1>1, <1>2, <2>1, MoveStep DEF disk
    <2>3. WorkerOK(w)'
      BY <1>1, <2>1 DEF WorkerOK, memory
    <2>4. FilesOK(w)'
      BY <1>1, <1>2, <2>1 DEF FilesOK, life
    <2> QED
      BY <1>1, <2>2, <2>3, <2>4, OwnStepInv
  <1>3. ASSUME UnlinkStaged(worker[w].job, worker[w].art),
               worker' = [worker EXCEPT ![w].pc = "failed", ![w].rc = "none"]
        PROVE  Inv'
    <2>1. /\ worker' \in [Workers -> WorkerRecords]
          /\ worker'[w].pc = "failed" /\ worker'[w].job = worker[w].job
          /\ worker'[w].model = worker[w].model /\ worker'[w].art = worker[w].art
          /\ worker'[w].rc = "none"
          /\ \A v \in Workers : v # w => worker'[v] = worker[v]
      BY <1>1, <1>3, WDoneType DEF WorkerPcs
    <2> QED
      BY <1>1, <1>3, <2>1, UnlinkInv
  <1> QED
    BY <1>2, <1>3 DEF WorkerFetched

LEMMA WorkerHashInv == ASSUME Inv, NEW w \in Workers, WorkerHash(w) PROVE Inv'
  <1> DEFINE j == worker[w].job
             a == worker[w].art
  <1>1. TypeOK /\ WorkerOK(w) /\ FilesOK(w) /\ worker[w].pc = "hash"
        /\ UNCHANGED <<jobs, published, memory, handler, life>>
    BY DEF Inv, WorkerHash, At
  <1>2. a \in 1 .. NArtifacts + 1 /\ a <= NArtifacts /\ NArtifacts \in Nat
    BY <1>1, TypeFacts, InstallAssumption DEF WorkerOK
  <1>3. ASSUME WGoto(w, "failed"), UnlinkStaged(j, a) PROVE Inv'
    <2>1. /\ worker' \in [Workers -> WorkerRecords]
          /\ worker'[w].pc = "failed" /\ worker'[w].job = worker[w].job
          /\ worker'[w].model = worker[w].model /\ worker'[w].art = worker[w].art
          /\ worker'[w].rc = worker[w].rc
          /\ \A v \in Workers : v # w => worker'[v] = worker[v]
      BY <1>1, <1>3, WGotoType DEF WorkerPcs
    <2>2. worker[w].rc = "none"
      BY <1>1 DEF WorkerOK
    <2> QED
      BY <1>1, <1>3, <2>1, <2>2, UnlinkInv
  <1>4. ASSUME WGoto(w, "stopped"), UNCHANGED <<staged, curls>> PROVE Inv'
    <2>1. /\ worker' \in [Workers -> WorkerRecords]
          /\ worker'[w].pc = "stopped" /\ worker'[w].job = worker[w].job
          /\ worker'[w].model = worker[w].model /\ worker'[w].art = worker[w].art
          /\ worker'[w].rc = worker[w].rc
          /\ \A v \in Workers : v # w => worker'[v] = worker[v]
      BY <1>1, <1>4, WGotoType DEF WorkerPcs
    <2>2. /\ OwnStep(w) /\ TypeOK' /\ Recorded'
          /\ (\A c \in curls' : CurlOK(c)') /\ OneCurl'
          /\ VerifiedBeforePublish' /\ Complete'
      BY <1>1, <1>4, <2>1, MoveStep DEF disk
    <2>3. WorkerOK(w)'
      BY <1>1, <2>1 DEF WorkerOK, memory
    <2>4. FilesOK(w)'
      BY <2>1 DEF FilesOK
    <2> QED
      BY <1>1, <2>2, <2>3, <2>4, OwnStepInv
  <1>5. ASSUME worker' = [worker EXCEPT ![w].pc = "artifact", ![w].art = a + 1],
               staged[j][a] = "good", UNCHANGED <<staged, curls>>
        PROVE  Inv'
    <2>0. a + 1 \in 1 .. NArtifacts + 1 /\ "artifact" \in WorkerPcs
      BY <1>2 DEF WorkerPcs
    <2>1. /\ worker' \in [Workers -> WorkerRecords]
          /\ worker'[w].pc = "artifact" /\ worker'[w].job = worker[w].job
          /\ worker'[w].model = worker[w].model /\ worker'[w].art = a + 1
          /\ worker'[w].rc = worker[w].rc
          /\ \A v \in Workers : v # w => worker'[v] = worker[v]
      BY <1>1, <1>5, <2>0, WMoveType
    <2>2. /\ OwnStep(w) /\ TypeOK' /\ Recorded'
          /\ (\A c \in curls' : CurlOK(c)') /\ OneCurl'
          /\ VerifiedBeforePublish' /\ Complete'
      BY <1>1, <1>5, <2>1, MoveStep DEF disk
    <2>3. WorkerOK(w)'
      BY <1>1, <2>1 DEF WorkerOK, memory
    <2>4. FilesOK(w)'
      <3>1. \A b \in Artifacts : b < a + 1 => b < a \/ b = a
        BY <1>2 DEF Artifacts
      <3>2. worker[w].model \notin abandoned =>
               \A b \in Artifacts : b < a + 1 => staged[j][b] = "good"
        BY <1>1, <1>5, <3>1 DEF FilesOK
      <3> QED
        BY <1>1, <1>5, <2>1, <3>2 DEF FilesOK, life
    <2> QED
      BY <1>1, <2>2, <2>3, <2>4, OwnStepInv
  <1> QED
    BY <1>3, <1>4, <1>5 DEF WorkerHash

LEMMA WorkerStartInv == ASSUME Inv, NEW w \in Workers, WorkerStart(w) PROVE Inv'
  <1> DEFINE j == worker[w].job
             m == jobs[j].model
  <1>1. TypeOK /\ WorkerOK(w) /\ FilesOK(w) /\ worker[w].pc = "load"
        /\ UNCHANGED <<staged, published, memory, curls, handler, life>>
    BY DEF Inv, WorkerStart, At
  <1>2. j \in JobIds /\ jobs[j].state = "queued"
    BY <1>1, LiveFacts DEF WorkerOK
  <1>3. m \in Models /\ jobs[j] # NoJob
    <2>1. m # None
      BY <1>2 DEF Inv, Named
    <2> QED
      BY <1>1, <1>2, <2>1, TypeFacts DEF NoJob
  <1>4. ASSUME NEW s \in {"failed", "downloading"}, install_job_save(j, m, s),
               worker' \in [Workers -> WorkerRecords],
               \A v \in Workers : v # w => worker'[v] = worker[v],
               worker'[w].job = j, worker'[w].rc = worker[w].rc, worker'[w].art = 1,
               \/ s = "failed" /\ worker'[w].pc = "clear"
               \/ s = "downloading" /\ worker'[w].pc = "artifact" /\ worker'[w].model = m
        PROVE  Inv'
    <2>1. s \in JobStates /\ s # "absent" /\ s # "installed"
      BY DEF JobStates, InProgress, Terminal
    <2>2. /\ jobs' \in [JobIds -> [state : JobStates \cup {"absent"}, model : Models \cup {None}]]
          /\ jobs'[j] = [state |-> s, model |-> m]
          /\ \A i \in JobIds : i # j => jobs'[i] = jobs[i]
      BY <1>1, <1>2, <1>3, <1>4, <2>1, SaveType
    <2>3. OwnStep(w)
      BY <1>1, <1>2, <1>4, <2>1, <2>2 DEF OwnStep, memory, life
    <2>4. TypeOK'
      BY <1>1, <1>4, <2>2 DEF TypeOK, WorkerRecords, memory, life
    <2>5. Recorded'
      <3>1. curlPid \in Workers \cup {None} /\ (curlPid # None => curlPid # w)
        BY <1>1 DEF TypeOK, Inv, Recorded
      <3> QED
        BY <1>1, <1>4, <3>1 DEF Inv, Recorded, memory
    <2>6. (\A c \in curls' : CurlOK(c)') /\ OneCurl'
      BY <1>1, <2>3, NoCurl, CurlsStay
    <2>7. VerifiedBeforePublish'
      BY <1>1 DEF Inv, VerifiedBeforePublish, life
    <2>8. Complete'
      BY <1>1, <1>2, <2>1, <2>2 DEF Inv, Complete
    <2>9. worker[w].rc = "none"
      BY <1>1 DEF WorkerOK
    <2>10. WorkerOK(w)'
      BY <1>4, <2>2, <2>9 DEF WorkerOK, InProgress
    <2>11. FilesOK(w)'
      <3>1. \A b \in Artifacts : ~(b < 1)
        BY InstallAssumption DEF Artifacts
      <3> QED
        BY <1>4, <3>1 DEF FilesOK
    <2> QED
      BY <1>1, <2>3, <2>4, <2>5, <2>6, <2>7, <2>8, <2>10, <2>11, OwnStepInv
  <1>5. worker[w].art = 1
    BY <1>1 DEF WorkerOK
  <1>6. ASSUME install_job_save(j, m, "failed"), WGoto(w, "clear") PROVE Inv'
    <2>1. /\ worker' \in [Workers -> WorkerRecords]
          /\ worker'[w].pc = "clear" /\ worker'[w].job = worker[w].job
          /\ worker'[w].model = worker[w].model /\ worker'[w].art = worker[w].art
          /\ worker'[w].rc = worker[w].rc
          /\ \A v \in Workers : v # w => worker'[v] = worker[v]
      BY <1>1, <1>6, WGotoType DEF WorkerPcs
    <2> QED
      BY <1>4, <1>5, <1>6, <2>1
  <1>7. ASSUME install_job_save(j, m, "downloading"),
               worker' = [worker EXCEPT ![w].pc = "artifact", ![w].model = m]
        PROVE  Inv'
    <2>1. worker \in [Workers -> WorkerRecords] /\ "artifact" \in WorkerPcs
      BY <1>1 DEF TypeOK, WorkerRecords, WorkerPcs
    <2>2. /\ worker' \in [Workers -> WorkerRecords]
          /\ worker'[w].pc = "artifact" /\ worker'[w].job = worker[w].job
          /\ worker'[w].model = m /\ worker'[w].art = worker[w].art
          /\ worker'[w].rc = worker[w].rc
          /\ \A v \in Workers : v # w => worker'[v] = worker[v]
      <3> HIDE DEF m
      <3> QED
        BY <1>3, <1>7, <2>1 DEF WorkerRecords
    <2> QED
      BY <1>4, <1>5, <1>7, <2>2
  <1> QED
    BY <1>3, <1>6, <1>7 DEF WorkerStart

LEMMA WorkerPublishInv == ASSUME Inv, NEW w \in Workers, WorkerPublish(w) PROVE Inv'
  <1> DEFINE j == worker[w].job
             a == worker[w].art
             m == worker[w].model
  <1>1. TypeOK /\ WorkerOK(w) /\ FilesOK(w) /\ worker[w].pc = "publish"
        /\ UNCHANGED <<memory, handler, life>>
    BY DEF Inv, WorkerPublish, At
  <1>2. j \in JobIds /\ m \in Models /\ jobs[j].model = m /\ jobs[j].state \in InProgress
        /\ a \in 1 .. NArtifacts + 1 /\ NArtifacts \in Nat
    BY <1>1, LiveFacts, JobFacts, TypeFacts, InstallAssumption
  <1>3. ASSUME a <= NArtifacts, staged[j][a] # "none", UNCHANGED jobs,
               published' = [published EXCEPT ![m] = [published[m] EXCEPT ![a] = staged[j][a]]],
               staged' = [staged EXCEPT ![j] = [staged[j] EXCEPT ![a] = "none"]],
               curls' = Moved(Moved(curls, m, a, None), j, a, m),
               worker' = [worker EXCEPT ![w].art = a + 1]
        PROVE  Inv'
    <2>1. a \in Artifacts /\ a + 1 \in 1 .. NArtifacts + 1
      BY <1>2, <1>3 DEF Artifacts
    <2>2. /\ worker' \in [Workers -> WorkerRecords]
          /\ worker'[w].pc = "publish" /\ worker'[w].job = worker[w].job
          /\ worker'[w].model = worker[w].model /\ worker'[w].art = a + 1
          /\ worker'[w].rc = worker[w].rc
          /\ \A v \in Workers : v # w => worker'[v] = worker[v]
      <3>1. worker \in [Workers -> WorkerRecords]
        BY <1>1 DEF TypeOK, WorkerRecords
      <3>2. PICK n : n = a + 1
        OBVIOUS
      <3>3. worker' = [worker EXCEPT ![w].art = n] /\ n \in 1 .. NArtifacts + 1
        BY <1>3, <2>1, <3>2
      <3>4. /\ worker' \in [Workers -> WorkerRecords]
            /\ worker'[w].pc = worker[w].pc /\ worker'[w].job = worker[w].job
            /\ worker'[w].model = worker[w].model /\ worker'[w].art = n
            /\ worker'[w].rc = worker[w].rc
            /\ \A v \in Workers : v # w => worker'[v] = worker[v]
        BY <3>1, <3>3 DEF WorkerRecords
      <3> QED
        BY <1>1, <3>2, <3>4
    <2>3. OwnStep(w)
      BY <1>1, <1>2, <1>3, <2>2 DEF OwnStep, memory, life, InProgress
    <2>4. PICK cs : cs = Moved(curls, m, a, None)
      OBVIOUS
    <2>5. /\ cs \in SUBSET CurlRecords(restarts)
          /\ \A c \in cs : \E d \in curls :
                /\ c.owner = d.owner /\ c.born = d.born /\ c.art = d.art
                /\ c.dir = d.dir \/ (d.dir = m /\ d.art = a /\ c.dir = None)
      <3>1. curls \in SUBSET CurlRecords(restarts)
        BY <1>1 DEF TypeOK, CurlRecords
      <3> QED
        BY <2>4, <3>1, MovedFollows
    <2>6. /\ curls' \in SUBSET CurlRecords(restarts)
          /\ \A c \in curls' : \E d \in cs :
                /\ c.owner = d.owner /\ c.born = d.born /\ c.art = d.art
                /\ c.dir = d.dir \/ (d.dir = j /\ d.art = a /\ c.dir = m)
      <3>1. curls' = Moved(cs, j, a, m)
        BY <1>3, <2>4
      <3>2. cs \in SUBSET CurlRecords(restarts) /\ m \in JobIds \cup Models \cup {None}
        BY <1>2, <2>5
      <3> HIDE DEF j, a, m
      <3> QED
        BY <3>1, <3>2, MovedFollows
    <2>7. \A c \in curls' : \E d \in curls : Follows(w, c, d)
      <3>1. j # None
        BY <1>2, InstallAssumption
      <3> SUFFICES ASSUME NEW c \in curls' PROVE \E d \in curls : Follows(w, c, d)
        OBVIOUS
      <3>2. PICK e \in cs : /\ c.owner = e.owner /\ c.born = e.born
                            /\ c.dir = e.dir \/ (e.dir = j /\ c.dir = m)
        BY <2>6
      <3>3. PICK d \in curls : /\ e.owner = d.owner /\ e.born = d.born
                               /\ e.dir = d.dir \/ e.dir = None
        BY <2>5
      <3>4. Follows(w, c, d)
        BY <3>1, <3>2, <3>3 DEF Follows
      <3> QED
        BY <3>4
    <2>8. (\A c \in curls' : CurlOK(c)') /\ OneCurl'
      BY <1>1, <2>3, <2>7, CurlsFollow
    <2>9. /\ staged' \in [JobIds -> [Artifacts -> Contents]]
          /\ \A b \in Artifacts : b # a => staged'[j][b] = staged[j][b]
      <3>1. PICK f : f = [staged[j] EXCEPT ![a] = "none"]
        OBVIOUS
      <3>2. f \in [Artifacts -> Contents] /\ \A b \in Artifacts : b # a => f[b] = staged[j][b]
        BY <1>1, <1>2, <2>1, <3>1 DEF TypeOK, Contents
      <3> QED
        BY <1>1, <1>2, <1>3, <3>1, <3>2 DEF TypeOK
    <2>10. /\ published' \in [Models -> [Artifacts -> Contents]]
           /\ published'[m][a] = staged[j][a]
           /\ \A b \in Artifacts : b # a => published'[m][b] = published[m][b]
           /\ \A k \in Models : k # m => published'[k] = published[k]
      <3>1. PICK f : f = [published[m] EXCEPT ![a] = staged[j][a]]
        OBVIOUS
      <3>2. f \in [Artifacts -> Contents] /\ f[a] = staged[j][a]
            /\ \A b \in Artifacts : b # a => f[b] = published[m][b]
        BY <1>1, <1>2, <2>1, <3>1 DEF TypeOK
      <3> QED
        BY <1>1, <1>2, <1>3, <3>1, <3>2 DEF TypeOK
    <2>11. TypeOK'
      <3>1. restarts' = restarts
        BY <1>1 DEF life
      <3> QED
        BY <1>1, <1>3, <2>2, <2>6, <2>9, <2>10, <3>1 DEF TypeOK, WorkerRecords, CurlRecords, memory, life
    <2>12. Recorded'
      <3>1. curlPid \in Workers \cup {None} /\ (curlPid # None => curlPid # w)
        BY <1>1 DEF TypeOK, Inv, Recorded
      <3> QED
        BY <1>1, <2>2, <3>1 DEF Inv, Recorded, memory
    <2>13. VerifiedBeforePublish'
      <3>1. m \notin abandoned => staged[j][a] = "good"
        BY <1>1, <1>2, <2>1 DEF FilesOK, Artifacts
      <3>2. abandoned' = abandoned
        BY <1>1 DEF life
      <3> QED
        BY <2>10, <3>1, <3>2 DEF Inv, VerifiedBeforePublish
    <2>14. \A k \in Models, b \in Artifacts : published[k][b] # "none" => published'[k][b] # "none"
      BY <1>3, <2>10
    <2>15. Complete'
      <3>1. \A i \in JobIds : jobs[i].state = "installed" => jobs[i].model \in Models
        BY <1>1, TypeFacts DEF Inv, Named
      <3> QED
        BY <1>3, <2>14, <3>1 DEF Inv, Complete
    <2>16. WorkerOK(w)'
      BY <1>1, <1>3, <2>2 DEF WorkerOK, memory
    <2>17. FilesOK(w)'
      <3>1. \A b \in Artifacts : /\ b >= a + 1 => b >= a /\ b # a
                                 /\ b < a + 1 => b < a \/ b = a
        BY <1>2 DEF Artifacts
      <3>2. abandoned' = abandoned
        BY <1>1 DEF life
      <3>3. m \notin abandoned => \A b \in Artifacts : b >= a + 1 => staged'[j][b] = "good"
        BY <1>1, <2>9, <3>1 DEF FilesOK
      <3>4. \A b \in Artifacts : b < a + 1 => published'[m][b] # "none"
        BY <1>1, <1>2, <1>3, <2>10, <2>14, <3>1 DEF FilesOK
      <3> QED
        BY <2>2, <3>2, <3>3, <3>4 DEF FilesOK
    <2> QED
      BY <1>1, <2>3, <2>8, <2>11, <2>12, <2>13, <2>15, <2>16, <2>17, OwnStepInv
  <1>4. ASSUME WGoto(w, "failed"), UNCHANGED <<disk, curls>> PROVE Inv'
    BY <1>1, <1>4, GiveUpInv
  <1>5. ASSUME a > NArtifacts, install_job_save(j, m, "installed"), WGoto(w, "clear"),
               UNCHANGED <<staged, published, curls>>
        PROVE  Inv'
    <2>1. /\ worker' \in [Workers -> WorkerRecords]
          /\ worker'[w].pc = "clear" /\ worker'[w].job = worker[w].job
          /\ worker'[w].model = worker[w].model /\ worker'[w].art = worker[w].art
          /\ worker'[w].rc = worker[w].rc
          /\ \A v \in Workers : v # w => worker'[v] = worker[v]
      BY <1>1, <1>5, WGotoType DEF WorkerPcs
    <2>2. "installed" \in JobStates
      BY DEF JobStates, Terminal
    <2>3. /\ OwnStep(w) /\ TypeOK' /\ Recorded'
          /\ jobs'[worker[w].job] = [state |-> "installed", model |-> worker[w].model]
          /\ (\A c \in curls' : CurlOK(c)') /\ OneCurl'
          /\ VerifiedBeforePublish'
      BY <1>1, <1>5, <2>1, <2>2, SaveStep
    <2>4. Complete'
      <3>1. \A b \in Artifacts : published[m][b] # "none"
        <4>1. \A b \in Artifacts : b < a
          BY <1>2, <1>5 DEF Artifacts
        <4> QED
          BY <1>1, <4>1 DEF FilesOK
      <3>2. \A i \in JobIds : i # j => jobs'[i] = jobs[i]
        BY <2>3 DEF OwnStep
      <3> QED
        BY <1>5, <2>3, <3>1, <3>2 DEF Inv, Complete
    <2>5. WorkerOK(w)'
      BY <1>1, <2>1, <2>3 DEF WorkerOK, InProgress, memory
    <2>6. FilesOK(w)'
      BY <2>1 DEF FilesOK
    <2> QED
      BY <1>1, <2>3, <2>4, <2>5, <2>6, OwnStepInv
  <1> QED
    BY <1>3, <1>4, <1>5 DEF WorkerPublish

LEMMA ClearInv == ASSUME Inv, NEW w \in Workers, install_clear_active(w) PROVE Inv'
  <1>1. /\ TypeOK /\ WorkerOK(w) /\ worker[w].pc = "clear"
        /\ active' = None /\ curlPid' = None /\ signal' = 0
        /\ worker' = [worker EXCEPT ![w] = Gone]
        /\ UNCHANGED <<disk, curls, handler, life>>
    BY DEF Inv, install_clear_active, At
  <1>2. /\ worker[w].job = active /\ active \in JobIds /\ active # None
        /\ \A v \in Workers : v # w => worker[v] = Gone
        /\ \A h \in Handlers : handler[h].pc \notin {"save", "activate"}
        /\ gateway # "down"
    BY <1>1, LiveFacts
  <1>3. \A v \in Workers : worker'[v] = Gone
    BY <1>1, <1>2 DEF TypeOK
  <1>4. \A c \in curls : ~Waited(c)
    BY <1>1, NoCurl
  <1>5. TypeOK'
    <2>1. Gone \in [pc : WorkerPcs, job : JobIds \cup {None}, model : Models \cup {None},
                    art : 1 .. NArtifacts + 1, rc : {"none", "ok", "error", "signal"}]
      BY InstallAssumption DEF Gone, WorkerPcs
    <2> QED
      BY <1>1, <2>1 DEF TypeOK, disk, life
  <1>6. Quiet' /\ Slot' /\ Named'
    BY <1>1, <1>2, <1>3 DEF Inv, Quiet, Slot, Named, disk, life
  <1>7. ASSUME NEW v \in Workers PROVE WorkerOK(v)' /\ FilesOK(v)'
    BY <1>3 DEF WorkerOK, FilesOK, Gone
  <1>8. Recorded'
    BY <1>1 DEF Recorded
  <1>9. ASSUME NEW c \in curls PROVE ~Waited(c)' /\ CurlOK(c)'
    BY <1>1, <1>4 DEF Inv, CurlOK, Waited, Running, disk, life
  <1>10. OneCurl'
    BY <1>1, <1>9 DEF OneCurl
  <1>11. ASSUME NEW h \in Handlers PROVE HandlerOK(h)'
    BY <1>1, <1>3 DEF Inv, HandlerOK, disk
  <1>12. Attended'
    <2>1. jobs[active].state \notin InProgress
      BY <1>1, <1>2 DEF WorkerOK
    <2> QED
      BY <1>1, <1>2, <2>1, InstallAssumption DEF Inv, Attended, Running, disk, life, Gone
  <1>13. Complete' /\ VerifiedBeforePublish' /\ OneAtATime
    BY <1>1 DEF Inv, Complete, VerifiedBeforePublish, disk, life
  <1> QED
    BY <1>1, <1>5, <1>6, <1>7, <1>8, <1>9, <1>10, <1>11, <1>12, <1>13 DEF Inv, OneAtATime

LEMMA WorkerStepInv == ASSUME Inv, NEW w \in Workers, WorkerStep(w) PROVE Inv'
  BY WorkerStartInv, WorkerArtifactInv, WorkerRecordInv, WorkerReapInv, WorkerFetchedInv,
     WorkerVerifyInv, WorkerHashInv, WorkerStoppedInv, WorkerFailedInv, WorkerInstallingInv,
     WorkerPublishInv, ClearInv DEF WorkerStep

(***************************************************************************)
(* The handlers.                                                           *)
(***************************************************************************)
HandlerRecords == [pc : HandlerPcs, op : {"none", "install", "pause", "cancel", "resume", "retry"},
                   job : JobIds \cup {None}, model : Models \cup {None}]

\* A step of handler h that changes nothing but its own counter: what it must show.
LEMMA AskInv ==
    ASSUME Inv, NEW h \in Handlers, handler' \in [Handlers -> HandlerRecords],
           gateway = "up",
           handler[h].pc # "activate",
           handler'[h].pc = "save" => active = None,
           handler'[h].pc # "activate", HandlerOK(h)',
           UNCHANGED <<jobs, staged, published, active, signal, curlPid, curls, worker, life>>
    PROVE  Inv'
  <1>1. \A g \in Handlers : g = h
    BY DEF Inv, OneAtATime
  <1>2. TypeOK'
    BY DEF Inv, TypeOK, HandlerRecords, life
  <1>3. Quiet' /\ Named'
    BY DEF Inv, Quiet, Named, life
  <1>4. Slot'
    BY <1>1 DEF Inv, Slot
  <1>5. \A w \in Workers : WorkerOK(w)' /\ FilesOK(w)'
    BY DEF Inv, WorkerOK, FilesOK, life
  <1>6. \A c \in curls' : CurlOK(c)'
    BY DEF Inv, CurlOK, Waited, Running, life
  <1>7. OneCurl' /\ Recorded'
    BY DEF Inv, OneCurl, Recorded, Waited, Running, life
  <1>8. Attended'
    BY <1>1 DEF Inv, Attended, Running, life
  <1>9. Complete' /\ VerifiedBeforePublish' /\ OneAtATime
    BY DEF Inv, Complete, VerifiedBeforePublish, life
  <1> QED
    BY <1>1, <1>2, <1>3, <1>4, <1>5, <1>6, <1>7, <1>8, <1>9 DEF Inv, OneAtATime

LEMMA HandlerUp == ASSUME Inv, NEW h \in Handlers, handler[h].pc # "idle" PROVE gateway = "up"
  BY DEF Inv, Quiet, Free

LEMMA FreeType == Free \in HandlerRecords
  BY DEF Free, HandlerRecords, HandlerPcs

LEMMA ReturnType ==
    ASSUME TypeOK, NEW h \in Handlers, Return(h)
    PROVE  handler' \in [Handlers -> HandlerRecords] /\ handler'[h] = Free
           /\ \A g \in Handlers : g # h => handler'[g] = handler[g]
  BY FreeType DEF TypeOK, Return, HandlerRecords

LEMMA GotoType ==
    ASSUME TypeOK, NEW h \in Handlers, NEW pc \in HandlerPcs, Goto(h, pc)
    PROVE  /\ handler' \in [Handlers -> HandlerRecords]
           /\ handler'[h].pc = pc /\ handler'[h].op = handler[h].op
           /\ handler'[h].job = handler[h].job /\ handler'[h].model = handler[h].model
  BY DEF TypeOK, Goto, HandlerRecords

LEMMA FreeOK == ASSUME NEW h \in Handlers, handler'[h] = Free PROVE HandlerOK(h)'
  BY DEF HandlerOK, Free

LEMMA ReceiveInv == ASSUME Inv, NEW h \in Handlers, Receive(h) PROVE Inv'
  <1>1. /\ TypeOK /\ gateway = "up" /\ handler[h] = Free
        /\ UNCHANGED <<jobs, staged, published, active, signal, curlPid, curls, worker, life>>
    BY DEF Inv, Receive
  <1>2. ASSUME NEW n \in HandlerRecords, handler' = [handler EXCEPT ![h] = n],
               n.pc \in {"busy", "flip", "is_active"},
               /\ n.pc = "busy" => n.op \in {"install", "resume", "retry"}
               /\ n.pc = "busy" /\ n.op = "install" => n.model \in Models
               /\ (n.pc = "busy" /\ n.op = "resume") \/ n.pc = "flip" =>
                     n.job \in JobIds /\ jobs[n.job] = [state |-> "paused", model |-> n.model]
               /\ n.pc = "busy" /\ n.op = "retry" =>
                     n.job \in JobIds /\ jobs[n.job].state \in {"failed", "canceled"}
                     /\ jobs[n.job].model = n.model
        PROVE  Inv'
    <2>1. handler' \in [Handlers -> HandlerRecords] /\ handler'[h] = n
      BY <1>1, <1>2 DEF TypeOK, HandlerRecords
    <2>2. HandlerOK(h)'
      BY <1>1, <1>2, <2>1 DEF HandlerOK
    <2>3. handler[h].pc # "activate"
      BY <1>1 DEF Free
    <2> QED
      BY <1>1, <1>2, <2>1, <2>2, <2>3, AskInv
  <1>3. \A j \in JobIds : /\ jobs[j].model \in Models \cup {None}
                          /\ jobs[j] = [state |-> jobs[j].state, model |-> jobs[j].model]
    BY <1>1 DEF TypeOK
  <1>4. PICK r \in Requests : \/ InstallScan(h, r) \/ ResumeLoad(h, r) \/ RetryLoad(h, r)
                              \/ StopLoad(h, r) \/ CancelPausedLoad(h, r)
    BY DEF Receive
  <1>5. CASE InstallScan(h, r)
    <2>1. r.op = "install" /\ r.model \in Models
      BY <1>5 DEF InstallScan, Requests
    <2>2. PICK n : n = [pc |-> "busy", op |-> r.op, job |-> None, model |-> r.model]
      OBVIOUS
    <2>3. n \in HandlerRecords /\ handler' = [handler EXCEPT ![h] = n]
      BY <1>5, <2>1, <2>2 DEF HandlerRecords, HandlerPcs, InstallScan
    <2> QED
      BY <1>2, <2>1, <2>2, <2>3
  <1>6. CASE ResumeLoad(h, r) \/ RetryLoad(h, r) \/ StopLoad(h, r) \/ CancelPausedLoad(h, r)
    <2>1. r.op \in {"pause", "cancel", "resume", "retry"} /\ r.job \in JobIds
      BY <1>6 DEF ResumeLoad, RetryLoad, StopLoad, CancelPausedLoad, Requests
    <2>2. ASSUME NEW pc \in {"busy", "flip", "is_active"}
          PROVE  [pc |-> pc, op |-> r.op, job |-> r.job, model |-> jobs[r.job].model]
                    \in HandlerRecords
      BY <1>3, <2>1 DEF HandlerRecords, HandlerPcs
    <2>3. CASE ResumeLoad(h, r) \/ RetryLoad(h, r)
      <3>1. PICK n : n = [pc |-> "busy", op |-> r.op, job |-> r.job, model |-> jobs[r.job].model]
        OBVIOUS
      <3>2. n \in HandlerRecords /\ handler' = [handler EXCEPT ![h] = n]
        BY <2>2, <2>3, <3>1 DEF ResumeLoad, RetryLoad
      <3>3. /\ r.op = "resume" => jobs[r.job].state = "paused"
            /\ r.op = "retry" => jobs[r.job].state \in {"failed", "canceled"}
            /\ r.op \in {"resume", "retry"}
        BY <2>3 DEF ResumeLoad, RetryLoad
      <3> QED
        BY <1>2, <1>3, <2>1, <3>1, <3>2, <3>3
    <2>4. CASE StopLoad(h, r)
      <3>1. PICK n : n = [pc |-> "is_active", op |-> r.op, job |-> r.job,
                          model |-> jobs[r.job].model]
        OBVIOUS
      <3>2. n \in HandlerRecords /\ handler' = [handler EXCEPT ![h] = n]
        BY <2>2, <2>4, <3>1 DEF StopLoad
      <3> QED
        BY <1>2, <3>1, <3>2
    <2>5. CASE CancelPausedLoad(h, r)
      <3>1. PICK n : n = [pc |-> "flip", op |-> r.op, job |-> r.job, model |-> jobs[r.job].model]
        OBVIOUS
      <3>2. n \in HandlerRecords /\ handler' = [handler EXCEPT ![h] = n]
        BY <2>2, <2>5, <3>1 DEF CancelPausedLoad
      <3>3. jobs[r.job].state = "paused"
        BY <2>5 DEF CancelPausedLoad
      <3> QED
        BY <1>2, <1>3, <2>1, <3>1, <3>2, <3>3
    <2> QED
      BY <1>6, <2>3, <2>4, <2>5
  <1> QED
    BY <1>4, <1>5, <1>6

\* A handler that found the slot free: nobody works, and no curl is waited for.
LEMMA IdleFacts ==
    ASSUME Inv, NEW h \in Handlers, handler[h].pc \in {"save", "activate"}
    PROVE  /\ active = None /\ gateway = "up"
           /\ \A w \in Workers : worker[w] = Gone
           /\ \A c \in curls : ~Waited(c)
           /\ curlPid = None
  <1>1. active = None /\ gateway = "up"
    BY HandlerUp DEF Inv, Slot
  <1>2. \A w \in Workers : worker[w] = Gone
    BY <1>1, InstallAssumption DEF Inv, Slot
  <1>3. \A c \in curls : ~Waited(c)
    BY <1>2, TypeFacts DEF Inv, CurlOK, Gone
  <1>4. curlPid = None
    BY <1>2 DEF Inv, TypeOK, Recorded, Gone
  <1> QED
    BY <1>1, <1>2, <1>3, <1>4

\* What a handler must show that writes jobs, and moves their directories, while the
\* slot is free.
LEMMA IdleWriteInv ==
    ASSUME Inv, NEW h \in Handlers, handler[h].pc = "save",
           handler' \in [Handlers -> HandlerRecords], HandlerOK(h)', handler'[h].pc # "kill",
           jobs' \in [JobIds -> [state : JobStates \cup {"absent"}, model : Models \cup {None}]],
           staged' \in [JobIds -> [Artifacts -> Contents]],
           curls' \in SUBSET CurlRecords(restarts),
           \A c \in curls' : \E d \in curls :
              /\ c.owner = d.owner /\ c.born = d.born
              /\ c.dir \in JobIds => d.dir \in JobIds /\ jobs'[c.dir].model = jobs[d.dir].model
              /\ c.dir \in Models => c.dir = d.dir,
           Named', Attended', Complete',
           UNCHANGED <<published, active, signal, curlPid, worker, life>>
    PROVE  Inv'
  <1>1. /\ active = None /\ gateway = "up"
        /\ \A w \in Workers : worker[w] = Gone
        /\ \A c \in curls : ~Waited(c)
    BY IdleFacts
  <1>2. \A g \in Handlers : g = h
    BY DEF Inv, OneAtATime
  <1>3. TypeOK'
    <2>1. restarts' = restarts
      BY DEF life
    <2> QED
      BY <2>1 DEF Inv, TypeOK, HandlerRecords, CurlRecords, life
  <1>4. Quiet'
    BY <1>1 DEF Quiet, life
  <1>5. Slot'
    BY <1>1 DEF Inv, Slot
  <1>6. \A w \in Workers : WorkerOK(w)' /\ FilesOK(w)'
    BY <1>1 DEF WorkerOK, FilesOK, Gone
  <1>7. Recorded'
    BY DEF Inv, Recorded
  <1>8. ASSUME NEW c \in curls' PROVE ~Waited(c)' /\ CurlOK(c)'
    <2>1. PICK d \in curls :
              /\ c.owner = d.owner /\ c.born = d.born
              /\ c.dir \in JobIds => d.dir \in JobIds /\ jobs'[c.dir].model = jobs[d.dir].model
              /\ c.dir \in Models => c.dir = d.dir
      OBVIOUS
    <2>2. ~Waited(d) /\ CurlOK(d)
      BY <1>1 DEF Inv
    <2>3. ~Waited(c)' /\ abandoned' = abandoned
      BY <2>1, <2>2 DEF Waited, Running, life
    <2> QED
      BY <2>1, <2>2, <2>3 DEF CurlOK
  <1>9. OneCurl'
    BY <1>8 DEF OneCurl
  <1>10. VerifiedBeforePublish' /\ OneAtATime
    BY DEF Inv, VerifiedBeforePublish, life
  <1> QED
    BY <1>2, <1>3, <1>4, <1>5, <1>6, <1>7, <1>8, <1>9, <1>10 DEF Inv, OneAtATime

LEMMA UnusedFacts == ASSUME Inv, NEW j \in Unused
    PROVE  /\ j \in JobIds /\ jobs[j].state = "absent" /\ jobs[j].model = None
           /\ \A h \in Handlers : handler[h].job # j
  BY DEF Unused, NoJob

\* The next job of a handler that is moved on to claim the slot.
LEMMA GotoJobType ==
    ASSUME TypeOK, NEW h \in Handlers, NEW j \in JobIds,
           handler' = [handler EXCEPT ![h].pc = "activate", ![h].job = j]
    PROVE  handler' \in [Handlers -> HandlerRecords] /\ handler'[h].pc = "activate"
           /\ handler'[h].job = j
  <1>1. "activate" \in HandlerPcs
    BY DEF HandlerPcs
  <1>2. handler \in [Handlers -> HandlerRecords]
    BY DEF TypeOK, HandlerRecords
  <1> QED
    BY <1>1, <1>2 DEF HandlerRecords

\* Nothing else is in progress while the slot is free.
LEMMA IdleJobs ==
    ASSUME Inv, NEW h \in Handlers, handler[h].pc = "save", NEW i \in JobIds
    PROVE  jobs[i].state \notin InProgress
  <1>1. \A w \in Workers : worker[w].job # i
    BY IdleFacts, InstallAssumption DEF Gone
  <1>2. \A g \in Handlers : handler[g].pc # "activate"
    BY DEF Inv, OneAtATime
  <1> QED
    BY <1>1, <1>2, IdleFacts DEF Inv, Attended, Running

LEMMA SameCurls ==
    ASSUME Inv, NEW h \in Handlers, handler[h].pc = "save", UNCHANGED curls,
           \A i \in JobIds : jobs[i].model \in Models => jobs'[i].model = jobs[i].model
    PROVE  /\ curls' \in SUBSET CurlRecords(restarts)
           /\ \A c \in curls' : \E d \in curls :
                 /\ c.owner = d.owner /\ c.born = d.born
                 /\ c.dir \in JobIds => d.dir \in JobIds /\ jobs'[c.dir].model = jobs[d.dir].model
                 /\ c.dir \in Models => c.dir = d.dir
  <1>1. curls' \in SUBSET CurlRecords(restarts)
    BY DEF Inv, TypeOK, CurlRecords
  <1>2. abandoned \subseteq Models
    BY DEF Inv, TypeOK
  <1>3. ASSUME NEW c \in curls
        PROVE  c.dir \in JobIds => jobs'[c.dir].model = jobs[c.dir].model
    BY <1>2, IdleFacts DEF Inv, CurlOK
  <1> QED
    BY <1>1, <1>3

LEMMA SaveNewInv ==
    ASSUME Inv, NEW h \in Handlers, handler[h].pc = "save",
           NEW j \in JobIds, NEW m \in Models,
           \/ j \in Unused
           \/ jobs[j].model = m /\ jobs[j].state = "paused",
           install_job_save(j, m, "queued"),
           handler' \in [Handlers -> HandlerRecords],
           handler'[h].pc = "activate", handler'[h].job = j,
           UNCHANGED <<staged, curls, published, active, signal, curlPid, worker, life>>
    PROVE  Inv'
  <1>1. "queued" \in JobStates \cup {"absent"} /\ TypeOK
    BY DEF JobStates, InProgress, Inv
  <1>2. /\ jobs' \in [JobIds -> [state : JobStates \cup {"absent"}, model : Models \cup {None}]]
        /\ jobs'[j] = [state |-> "queued", model |-> m]
        /\ \A i \in JobIds : i # j => jobs'[i] = jobs[i]
    BY <1>1, SaveType
  <1>3. /\ curls' \in SUBSET CurlRecords(restarts)
        /\ \A c \in curls' : \E d \in curls :
              /\ c.owner = d.owner /\ c.born = d.born
              /\ c.dir \in JobIds => d.dir \in JobIds /\ jobs'[c.dir].model = jobs[d.dir].model
              /\ c.dir \in Models => c.dir = d.dir
    <2>1. \A i \in JobIds : jobs[i].model \in Models => jobs'[i].model = jobs[i].model
      BY <1>2, UnusedFacts, InstallAssumption
    <2> QED
      BY <2>1, SameCurls
  <1>4. Named'
    BY <1>2, InstallAssumption DEF Inv, Named
  <1>5. Attended'
    BY <1>2, IdleJobs DEF Attended
  <1>6. Complete'
    BY <1>2 DEF Inv, Complete
  <1>7. HandlerOK(h)'
    BY <1>2 DEF HandlerOK
  <1>8. staged' \in [JobIds -> [Artifacts -> Contents]]
    BY <1>1 DEF TypeOK
  <1> QED
    BY <1>2, <1>3, <1>4, <1>5, <1>6, <1>7, <1>8, IdleWriteInv

\* A retry renames the old job's directory; the new job.json is written or not.
LEMMA RenameInv ==
    ASSUME Inv, NEW h \in Handlers, handler[h].pc = "save", handler[h].op = "retry",
           NEW j \in Unused, NEW s \in {"queued", "failed", "canceled"},
           jobs' = [jobs EXCEPT ![handler[h].job] = NoJob,
                                ![j] = [state |-> s, model |-> handler[h].model]],
           MoveStaged(handler[h].job, j),
           handler' \in [Handlers -> HandlerRecords], HandlerOK(h)',
           handler'[h].pc \in {"idle", "activate"},
           s = "queued" => handler'[h].pc = "activate" /\ handler'[h].job = j,
           UNCHANGED <<published, active, signal, curlPid, worker, life>>
    PROVE  Inv'
  <1> DEFINE o == handler[h].job
             m == handler[h].model
  <1>1. TypeOK /\ HandlerOK(h)
    BY DEF Inv
  <1>2. /\ o \in JobIds /\ jobs[o].state \in {"failed", "canceled"} /\ jobs[o].model = m
        /\ m \in Models
    <2>1. o \in JobIds /\ jobs[o].state \in {"failed", "canceled"} /\ jobs[o].model = m
      BY <1>1 DEF HandlerOK
    <2>2. m # None
      BY <2>1 DEF Inv, Named
    <2> QED
      BY <1>1, <2>1, <2>2, TypeFacts
  <1>3. j \in JobIds /\ jobs[j].state = "absent" /\ jobs[j].model = None /\ j # o
    BY UnusedFacts
  <1>4. s \in JobStates
    BY DEF JobStates, InProgress, Terminal
  <1>5. /\ jobs' \in [JobIds -> [state : JobStates \cup {"absent"}, model : Models \cup {None}]]
        /\ jobs'[j] = [state |-> s, model |-> m]
        /\ jobs'[o].state = "absent" /\ jobs'[o].model = None
        /\ \A i \in JobIds : i # j /\ i # o => jobs'[i] = jobs[i]
    <2>1. NoJob \in [state : JobStates \cup {"absent"}, model : Models \cup {None}]
          /\ NoJob.state = "absent" /\ NoJob.model = None
      BY DEF NoJob
    <2>2. PICK n : n = [state |-> s, model |-> m]
      OBVIOUS
    <2>3. n \in [state : JobStates \cup {"absent"}, model : Models \cup {None}]
      BY <1>2, <1>4, <2>2
    <2>4. jobs' = [jobs EXCEPT ![o] = NoJob, ![j] = n]
      BY <2>2
    <2>5. jobs \in [JobIds -> [state : JobStates \cup {"absent"}, model : Models \cup {None}]]
      BY <1>1 DEF TypeOK
    <2>6. PICK R : R = [state : JobStates \cup {"absent"}, model : Models \cup {None}]
      OBVIOUS
    <2>7. /\ jobs' \in [JobIds -> R] /\ jobs'[j] = n /\ jobs'[o] = NoJob
          /\ \A i \in JobIds : i # j /\ i # o => jobs'[i] = jobs[i]
      <3> HIDE DEF o
      <3> QED
        BY <1>2, <1>3, <2>1, <2>3, <2>4, <2>5, <2>6
    <2> QED
      BY <2>1, <2>2, <2>6, <2>7
  <1>6. staged' \in [JobIds -> [Artifacts -> Contents]]
    <2>1. staged[o] \in [Artifacts -> Contents]
          /\ [a \in Artifacts |-> "none"] \in [Artifacts -> Contents]
      BY <1>1, <1>2 DEF TypeOK, Contents
    <2> QED
      BY <1>1, <1>2, <1>3, <2>1 DEF TypeOK, MoveStaged
  <1>7. /\ curls' \in SUBSET CurlRecords(restarts)
        /\ \A c \in curls' : \E d \in curls :
              /\ c.owner = d.owner /\ c.born = d.born
              /\ (d.dir = o /\ c.dir = j) \/ (d.dir # o /\ c.dir = d.dir)
    <2>1. curls \in SUBSET CurlRecords(restarts)
      BY <1>1 DEF TypeOK, CurlRecords
    <2>2. curls' = {IF d.dir = o THEN [d EXCEPT !.dir = j] ELSE d : d \in curls}
      BY DEF MoveStaged
    <2> HIDE DEF o
    <2>3. ASSUME NEW d \in curls
          PROVE  /\ [d EXCEPT !.dir = j] \in CurlRecords(restarts)
                 /\ [d EXCEPT !.dir = j].owner = d.owner /\ [d EXCEPT !.dir = j].born = d.born
                 /\ [d EXCEPT !.dir = j].dir = j
      BY <1>3, <2>1 DEF CurlRecords
    <2> QED
      BY <2>1, <2>2, <2>3
  <1>8. \A c \in curls' : \E d \in curls :
              /\ c.owner = d.owner /\ c.born = d.born
              /\ c.dir \in JobIds => d.dir \in JobIds /\ jobs'[c.dir].model = jobs[d.dir].model
              /\ c.dir \in Models => c.dir = d.dir
    <2> SUFFICES ASSUME NEW c \in curls'
                 PROVE  \E d \in curls :
                    /\ c.owner = d.owner /\ c.born = d.born
                    /\ c.dir \in JobIds => /\ d.dir \in JobIds
                                           /\ jobs'[c.dir].model = jobs[d.dir].model
                    /\ c.dir \in Models => c.dir = d.dir
      OBVIOUS
    <2>1. PICK d \in curls : /\ c.owner = d.owner /\ c.born = d.born
                             /\ (d.dir = o /\ c.dir = j) \/ (d.dir # o /\ c.dir = d.dir)
      BY <1>7
    <2>2. d.dir # j
      BY <1>3, IdleFacts, InstallAssumption DEF Inv, CurlOK, TypeOK
    <2>3. j \notin Models
      BY <1>3, InstallAssumption
    <2>4. c.dir \in JobIds => d.dir \in JobIds /\ jobs'[c.dir].model = jobs[d.dir].model
      BY <1>2, <1>5, <2>1, <2>2
    <2> QED
      BY <2>1, <2>3, <2>4
  <1>9. Named'
    BY <1>2, <1>5, <1>4, InstallAssumption DEF Inv, Named, JobStates, InProgress, Terminal
  <1>10. Attended'
    <2>1. \A i \in JobIds : jobs[i].state \notin InProgress
      BY IdleJobs
    <2>2. s \in InProgress => s = "queued"
      BY DEF InProgress
    <2>3. "absent" \notin InProgress
      BY DEF InProgress
    <2> QED
      BY <1>3, <1>5, <2>1, <2>2, <2>3 DEF Attended
  <1>11. Complete'
    BY <1>5 DEF Inv, Complete
  <1> QED
    BY <1>5, <1>6, <1>7, <1>8, <1>9, <1>10, <1>11, IdleWriteInv

LEMMA SaveQueuedInv == ASSUME Inv, NEW h \in Handlers, SaveQueued(h) PROVE Inv'
  <1>1. TypeOK /\ HandlerOK(h) /\ handler[h].pc = "save"
        /\ UNCHANGED <<published, active, signal, curlPid, worker, life>>
    BY DEF Inv, SaveQueued
  <1>2. ASSUME handler[h].op = "install", NEW j \in Unused,
               install_job_save(j, handler[h].model, "queued"),
               handler' = [handler EXCEPT ![h].pc = "activate", ![h].job = j],
               UNCHANGED <<staged, curls>>
        PROVE  Inv'
    <2>1. j \in JobIds /\ handler[h].model \in Models
      BY <1>1, <1>2, UnusedFacts DEF HandlerOK
    <2>2. handler' \in [Handlers -> HandlerRecords] /\ handler'[h].pc = "activate"
          /\ handler'[h].job = j
      BY <1>1, <1>2, <2>1, GotoJobType
    <2> QED
      BY <1>1, <1>2, <2>1, <2>2, SaveNewInv
  <1>3. ASSUME handler[h].op = "resume", install_job_save(handler[h].job, handler[h].model, "queued"),
               Goto(h, "activate"), UNCHANGED <<staged, curls>>
        PROVE  Inv'
    <2>1. handler[h].job \in JobIds /\ jobs[handler[h].job].state = "paused"
          /\ jobs[handler[h].job].model = handler[h].model
      BY <1>1, <1>3 DEF HandlerOK
    <2>2. handler[h].model \in Models
      BY <1>1, <2>1, TypeFacts DEF Inv, Named
    <2>3. handler' \in [Handlers -> HandlerRecords] /\ handler'[h].pc = "activate"
          /\ handler'[h].job = handler[h].job
      BY <1>1, <1>3, GotoType DEF HandlerPcs
    <2> QED
      BY <1>1, <1>3, <2>1, <2>2, <2>3, SaveNewInv
  <1>4. ASSUME handler[h].op = "retry", NEW j \in Unused,
               jobs' = [jobs EXCEPT ![handler[h].job] = NoJob,
                                    ![j] = [state |-> "queued", model |-> handler[h].model]],
               MoveStaged(handler[h].job, j),
               handler' = [handler EXCEPT ![h].pc = "activate", ![h].job = j]
        PROVE  Inv'
    <2>1. j \in JobIds /\ j # handler[h].job /\ handler[h].job \in JobIds
      BY <1>1, <1>4, UnusedFacts DEF HandlerOK
    <2>2. handler' \in [Handlers -> HandlerRecords] /\ handler'[h].pc = "activate"
          /\ handler'[h].job = j
      BY <1>1, <1>4, <2>1, GotoJobType
    <2>3. jobs'[j].state = "queued"
      BY <1>1, <1>4, <2>1 DEF TypeOK
    <2>4. HandlerOK(h)'
      BY <2>1, <2>2, <2>3 DEF HandlerOK
    <2> QED
      BY <1>1, <1>4, <2>2, <2>4, RenameInv
  <1> QED
    BY <1>2, <1>3, <1>4 DEF SaveQueued

LEMMA SaveFailsInv == ASSUME Inv, NEW h \in Handlers, SaveFails(h) PROVE Inv'
  <1>1. TypeOK /\ HandlerOK(h) /\ handler[h].pc = "save" /\ Return(h)
        /\ UNCHANGED <<published, active, signal, curlPid, worker, life>>
    BY DEF Inv, SaveFails
  <1>2. handler' \in [Handlers -> HandlerRecords] /\ handler'[h] = Free /\ HandlerOK(h)'
        /\ handler'[h].pc = "idle"
    BY <1>1, ReturnType, FreeOK DEF Free
  <1>3. CASE UNCHANGED <<jobs, staged, curls>>
    BY <1>1, <1>2, <1>3, HandlerUp, AskInv
  <1>4. ASSUME handler[h].op = "retry", NEW j \in Unused,
               jobs' = [jobs EXCEPT ![handler[h].job] = NoJob, ![j] = jobs[handler[h].job]],
               MoveStaged(handler[h].job, j)
        PROVE  Inv'
    <2>1. /\ handler[h].job \in JobIds
          /\ jobs[handler[h].job].state \in {"failed", "canceled"}
          /\ jobs[handler[h].job].model = handler[h].model
      BY <1>1, <1>4 DEF HandlerOK
    <2>2. jobs[handler[h].job] = [state |-> jobs[handler[h].job].state, model |-> handler[h].model]
      BY <1>1, <2>1 DEF TypeOK
    <2>3. PICK s : s = jobs[handler[h].job].state
      OBVIOUS
    <2>4. jobs' = [jobs EXCEPT ![handler[h].job] = NoJob,
                               ![j] = [state |-> s, model |-> handler[h].model]]
      BY <1>4, <2>2, <2>3
    <2>5. s \in {"failed", "canceled"}
      BY <2>1, <2>3
    <2> QED
      BY <1>1, <1>2, <1>4, <2>4, <2>5, RenameInv
  <1> QED
    BY <1>3, <1>4 DEF SaveFails

LEMMA CheckBusyInv == ASSUME Inv, NEW h \in Handlers, CheckBusy(h) PROVE Inv'
  <1>1. /\ TypeOK /\ HandlerOK(h) /\ handler[h].pc = "busy" /\ gateway = "up"
        /\ UNCHANGED <<jobs, staged, published, active, signal, curlPid, curls, worker, life>>
    BY HandlerUp DEF Inv, CheckBusy
  <1>2. CASE active # None
    <2>1. handler' \in [Handlers -> HandlerRecords] /\ handler'[h] = Free /\ HandlerOK(h)'
          /\ handler'[h].pc = "idle"
      BY <1>1, <1>2, ReturnType, FreeOK DEF CheckBusy, Free
    <2> QED
      BY <1>1, <2>1, AskInv
  <1>3. CASE active = None
    <2>1. /\ handler' \in [Handlers -> HandlerRecords]
          /\ handler'[h].pc = "save" /\ handler'[h].op = handler[h].op
          /\ handler'[h].job = handler[h].job /\ handler'[h].model = handler[h].model
      BY <1>1, <1>3, GotoType DEF CheckBusy, HandlerPcs
    <2>2. HandlerOK(h)'
      BY <1>1, <2>1 DEF HandlerOK
    <2> QED
      BY <1>1, <1>3, <2>1, <2>2, AskInv
  <1> QED
    BY <1>2, <1>3

LEMMA CheckActiveInv == ASSUME Inv, NEW h \in Handlers, CheckActive(h) PROVE Inv'
  <1>1. /\ TypeOK /\ HandlerOK(h) /\ handler[h].pc = "is_active" /\ gateway = "up"
        /\ UNCHANGED <<jobs, staged, published, active, signal, curlPid, curls, worker, life>>
    BY HandlerUp DEF Inv, CheckActive
  <1>2. CASE Return(h)
    <2>1. handler' \in [Handlers -> HandlerRecords] /\ handler'[h] = Free /\ HandlerOK(h)'
          /\ handler'[h].pc = "idle"
      BY <1>1, <1>2, ReturnType, FreeOK DEF Free
    <2> QED
      BY <1>1, <2>1, AskInv
  <1>3. CASE Goto(h, "signal")
    <2>1. /\ handler' \in [Handlers -> HandlerRecords]
          /\ handler'[h].pc = "signal"
      BY <1>1, <1>3, GotoType DEF HandlerPcs
    <2>2. HandlerOK(h)'
      BY <2>1 DEF HandlerOK
    <2> QED
      BY <1>1, <2>1, <2>2, AskInv
  <1> QED
    BY <1>2, <1>3 DEF CheckActive

LEMMA RaiseSignalInv == ASSUME Inv, NEW h \in Handlers, RaiseSignal(h) PROVE Inv'
  <1>1. /\ TypeOK /\ handler[h].pc = "signal" /\ gateway = "up" /\ Goto(h, "kill")
        /\ signal' \in {1, 2}
        /\ UNCHANGED <<jobs, staged, published, active, curlPid, curls, worker, life>>
    BY HandlerUp DEF Inv, RaiseSignal
  <1>2. handler' \in [Handlers -> HandlerRecords] /\ handler'[h].pc = "kill"
    BY <1>1, GotoType DEF HandlerPcs
  <1>3. signal' # 0 /\ signal' \in 0 .. 2
    BY <1>1
  <1>4. \A g \in Handlers : g = h
    BY DEF Inv, OneAtATime
  <1>5. TypeOK'
    BY <1>1, <1>2, <1>3 DEF TypeOK, HandlerRecords, life
  <1>6. Quiet' /\ Named' /\ Complete' /\ VerifiedBeforePublish' /\ OneAtATime
    BY <1>1 DEF Inv, Quiet, Named, Complete, VerifiedBeforePublish, life
  <1>7. Slot'
    BY <1>1, <1>2, <1>4 DEF Inv, Slot
  <1>8. \A w \in Workers : WorkerOK(w)' /\ FilesOK(w)'
    BY <1>1, <1>3 DEF Inv, WorkerOK, FilesOK, life
  <1>9. \A c \in curls' : CurlOK(c)'
    BY <1>1, <1>3 DEF Inv, CurlOK, Waited, Running, life
  <1>10. OneCurl' /\ Recorded'
    BY <1>1 DEF Inv, OneCurl, Recorded, Waited, Running, life
  <1>11. HandlerOK(h)'
    BY <1>2, <1>3 DEF HandlerOK
  <1>12. Attended'
    BY <1>1, <1>4 DEF Inv, Attended, Running, life
  <1> QED
    BY <1>4, <1>5, <1>6, <1>7, <1>8, <1>9, <1>10, <1>11, <1>12 DEF Inv, OneAtATime

\* SIGTERM reaches only the recorded curl, and the flag is up by then.
LEMMA TerminateCurls ==
    ASSUME Inv, Terminate(curlPid), UNCHANGED <<jobs, worker, abandoned, restarts>>,
           Running' <=> Running, signal # 0 => signal' # 0, curlPid # None => signal' # 0
    PROVE  /\ curls' \in SUBSET CurlRecords(restarts)
           /\ \A c \in curls' : CurlOK(c)'
           /\ OneCurl'
  <1> DEFINE F(d) == IF d \in Mine(curlPid) THEN [d EXCEPT !.killed = TRUE] ELSE d
  <1>1. curls' = {F(d) : d \in curls}
    BY DEF Terminate
  <1>2. ASSUME NEW d \in curls
        PROVE  /\ F(d) \in CurlRecords(restarts)
               /\ F(d).owner = d.owner /\ F(d).born = d.born /\ F(d).dir = d.dir /\ F(d).art = d.art
               /\ F(d).killed => d.killed \/ d \in Mine(curlPid)
    <2>1. d \in CurlRecords(restarts)
      BY DEF Inv, TypeOK, CurlRecords
    <2> QED
      BY <2>1 DEF CurlRecords
  <1> HIDE DEF F
  <1>3. ASSUME NEW c, NEW d \in curls, c = F(d) PROVE (Waited(c)' <=> Waited(d)) /\ CurlOK(c)'
    <2>1. CurlOK(d) /\ d.owner \in Workers
      BY TypeFacts DEF Inv
    <2>2. /\ c.owner = d.owner /\ c.born = d.born /\ c.dir = d.dir /\ c.art = d.art
          /\ c.killed => d.killed \/ d \in Mine(curlPid)
      BY <1>2, <1>3
    <2>3. Waited(c)' <=> Waited(d)
      BY <2>2 DEF Waited
    <2>4. d \in Mine(curlPid) => signal' # 0
      BY <2>1, InstallAssumption DEF Mine
    <2>5. Waited(d) /\ c.killed => signal' # 0
      BY <2>1, <2>2, <2>4 DEF CurlOK
    <2> QED
      BY <2>1, <2>2, <2>3, <2>5 DEF CurlOK
  <1>4. OneCurl'
    <2> SUFFICES ASSUME NEW c \in curls', NEW e \in curls', Waited(c)', Waited(e)',
                        c.owner = e.owner
                 PROVE  c = e
      BY DEF OneCurl
    <2>1. PICK d \in curls : c = F(d)
      BY <1>1
    <2>2. PICK g \in curls : e = F(g)
      BY <1>1
    <2>3. Waited(d) /\ Waited(g) /\ d.owner = g.owner
      BY <1>2, <1>3, <2>1, <2>2
    <2> QED
      BY <2>1, <2>2, <2>3 DEF Inv, OneCurl
  <1> QED
    BY <1>1, <1>2, <1>3, <1>4

LEMMA KillCurlInv == ASSUME Inv, NEW h \in Handlers, KillCurl(h) PROVE Inv'
  <1>1. /\ TypeOK /\ HandlerOK(h) /\ handler[h].pc = "kill" /\ gateway = "up" /\ Return(h)
        /\ Terminate(curlPid)
        /\ UNCHANGED <<jobs, staged, published, active, signal, curlPid, worker, life>>
    BY HandlerUp DEF Inv, KillCurl
  <1>2. handler' \in [Handlers -> HandlerRecords] /\ handler'[h] = Free /\ HandlerOK(h)'
        /\ handler'[h].pc = "idle"
    BY <1>1, ReturnType, FreeOK DEF Free
  <1>3. \A g \in Handlers : g = h
    BY DEF Inv, OneAtATime
  <1>4. curlPid # None => signal' # 0
    <2>1. curlPid # None => curlPid \in Workers /\ worker[curlPid] # Gone
      BY <1>1 DEF Inv, TypeOK, Recorded, Gone
    <2> QED
      BY <1>1, <2>1 DEF HandlerOK
  <1>5. /\ curls' \in SUBSET CurlRecords(restarts)
        /\ \A c \in curls' : CurlOK(c)'
        /\ OneCurl'
    BY <1>1, <1>4, TerminateCurls DEF Running, life
  <1>6. TypeOK'
    <2>1. restarts' = restarts
      BY <1>1 DEF life
    <2> QED
      BY <1>1, <1>2, <1>5, <2>1 DEF TypeOK, HandlerRecords, CurlRecords, life
  <1>7. Quiet' /\ Named' /\ Complete' /\ VerifiedBeforePublish' /\ OneAtATime
    BY <1>1 DEF Inv, Quiet, Named, Complete, VerifiedBeforePublish, life
  <1>8. Slot' /\ Recorded'
    BY <1>1, <1>2, <1>3 DEF Inv, Slot, Recorded
  <1>9. \A w \in Workers : WorkerOK(w)' /\ FilesOK(w)'
    BY <1>1 DEF Inv, WorkerOK, FilesOK, life
  <1>10. Attended'
    BY <1>1, <1>2, <1>3 DEF Inv, Attended, Running, life
  <1> QED
    BY <1>2, <1>3, <1>5, <1>6, <1>7, <1>8, <1>9, <1>10 DEF Inv, OneAtATime

LEMMA GoneType == Gone \in WorkerRecords /\ Gone.art = 1 /\ Gone.rc = "none"
  BY InstallAssumption DEF Gone, WorkerRecords, WorkerPcs

LEMMA ActivateInv == ASSUME Inv, NEW h \in Handlers, Activate(h) PROVE Inv'
  <1> DEFINE j == handler[h].job
  <1>1. /\ TypeOK /\ HandlerOK(h) /\ handler[h].pc = "activate" /\ Return(h)
        /\ install_spawn_worker(j)
        /\ UNCHANGED <<jobs, staged, published, curlPid, curls, life>>
    BY DEF Inv, Activate
  <1>2. j \in JobIds /\ jobs[j].state = "queued"
    BY <1>1 DEF HandlerOK
  <1>3. /\ active = None /\ gateway = "up" /\ curlPid = None
        /\ \A w \in Workers : worker[w] = Gone
        /\ \A c \in curls : ~Waited(c)
    BY <1>1, IdleFacts
  <1>4. PICK n : n = [Gone EXCEPT !.pc = "load", !.job = j]
    OBVIOUS
  <1>5. n \in WorkerRecords /\ n.pc = "load" /\ n.job = j /\ n.art = 1 /\ n.rc = "none"
    BY <1>2, <1>4, GoneType DEF WorkerRecords, WorkerPcs
  <1>6. PICK w \in Workers : worker' = [worker EXCEPT ![w] = n]
    BY <1>1, <1>4 DEF install_spawn_worker
  <1>7. /\ worker' \in [Workers -> WorkerRecords] /\ worker'[w] = n
        /\ \A v \in Workers : v # w => worker'[v] = Gone
    BY <1>1, <1>3, <1>5, <1>6 DEF TypeOK, WorkerRecords
  <1>8. active' = j /\ signal' = 0
    BY <1>1 DEF install_spawn_worker
  <1>9. handler' \in [Handlers -> HandlerRecords] /\ handler'[h] = Free /\ HandlerOK(h)'
        /\ handler'[h].pc = "idle"
    BY <1>1, ReturnType, FreeOK DEF Free
  <1>10. \A g \in Handlers : g = h
    BY DEF Inv, OneAtATime
  <1>11. TypeOK'
    BY <1>1, <1>2, <1>7, <1>8, <1>9 DEF TypeOK, WorkerRecords, HandlerRecords, life
  <1>12. Quiet' /\ Named' /\ Complete' /\ VerifiedBeforePublish' /\ OneAtATime
    BY <1>1, <1>3 DEF Inv, Quiet, Named, Complete, VerifiedBeforePublish, life
  <1>13. Slot'
    BY <1>2, <1>5, <1>7, <1>8, <1>9, <1>10 DEF Slot
  <1>14. Recorded'
    BY <1>1, <1>3 DEF Recorded
  <1>15. \A v \in Workers : WorkerOK(v)' /\ FilesOK(v)'
    <2>1. WorkerOK(w)' /\ FilesOK(w)'
      BY <1>1, <1>2, <1>5, <1>7 DEF WorkerOK, FilesOK
    <2>2. ASSUME NEW v \in Workers, v # w PROVE WorkerOK(v)' /\ FilesOK(v)'
      BY <1>7, <2>2 DEF WorkerOK, FilesOK, Gone
    <2> QED
      BY <2>1, <2>2
  <1>16. \A c \in curls' : ~Waited(c)' /\ CurlOK(c)'
    BY <1>1, <1>3 DEF Inv, CurlOK, Waited, Running, life
  <1>17. OneCurl'
    BY <1>16 DEF OneCurl
  <1>18. Attended'
    <2>1. \A i \in JobIds : jobs[i].state \in InProgress => i = j
      BY <1>3, <1>10, InstallAssumption DEF Inv, Attended, Running, Gone
    <2> QED
      BY <1>1, <1>5, <1>7, <2>1 DEF Attended
  <1> QED
    BY <1>9, <1>10, <1>11, <1>12, <1>13, <1>14, <1>15, <1>16, <1>17, <1>18 DEF Inv, OneAtATime

LEMMA FlipPausedInv == ASSUME Inv, NEW h \in Handlers, FlipPaused(h) PROVE Inv'
  <1> DEFINE j == handler[h].job
             m == handler[h].model
  <1>1. /\ TypeOK /\ HandlerOK(h) /\ handler[h].pc = "flip" /\ Return(h) /\ gateway = "up"
        /\ install_job_save(j, m, "canceled")
        /\ UNCHANGED <<staged, published, active, signal, curlPid, curls, worker, life>>
    BY HandlerUp DEF Inv, FlipPaused
  <1>2. j \in JobIds /\ jobs[j].state = "paused" /\ jobs[j].model = m
        /\ m \in Models \cup {None} /\ "canceled" \in JobStates \cup {"absent"}
    BY <1>1, TypeFacts DEF HandlerOK, JobStates, Terminal
  <1>3. /\ jobs' \in [JobIds -> [state : JobStates \cup {"absent"}, model : Models \cup {None}]]
        /\ jobs'[j] = [state |-> "canceled", model |-> m]
        /\ \A i \in JobIds : i # j => jobs'[i] = jobs[i]
    BY <1>1, <1>2, SaveType
  <1>4. \A i \in JobIds : jobs'[i].model = jobs[i].model
    BY <1>2, <1>3
  <1>5. handler' \in [Handlers -> HandlerRecords] /\ handler'[h] = Free /\ HandlerOK(h)'
        /\ handler'[h].pc = "idle"
    BY <1>1, ReturnType, FreeOK DEF Free
  <1>6. \A g \in Handlers : g = h
    BY DEF Inv, OneAtATime
  <1>7. TypeOK'
    BY <1>1, <1>3, <1>5 DEF TypeOK, HandlerRecords, life
  <1>8. Quiet' /\ VerifiedBeforePublish' /\ OneAtATime
    BY <1>1 DEF Inv, Quiet, VerifiedBeforePublish, life
  <1>9. Slot' /\ Recorded'
    BY <1>1, <1>5, <1>6 DEF Inv, Slot, Recorded
  <1>10. Named' /\ Complete'
    BY <1>1, <1>2, <1>3 DEF Inv, Named, Complete
  <1>11. ASSUME NEW w \in Workers PROVE WorkerOK(w)' /\ FilesOK(w)'
    <2>1. WorkerOK(w) /\ FilesOK(w)
      BY DEF Inv
    <2>2. CASE worker[w].pc = "idle"
      BY <1>1, <2>1, <2>2 DEF WorkerOK, FilesOK
    <2>3. CASE worker[w].pc # "idle"
      <3>1. worker[w].job \in JobIds
        BY <2>3, LiveFacts
      <3>2. worker[w].pc # "clear" => worker[w].job # j
        BY <1>2, <2>1, <2>3 DEF WorkerOK, InProgress
      <3>3. "canceled" \notin InProgress
        BY DEF InProgress
      <3>4. WorkerOK(w)'
        BY <1>1, <1>3, <2>1, <2>3, <3>1, <3>2, <3>3 DEF WorkerOK
      <3>5. FilesOK(w)'
        BY <1>1, <2>1 DEF FilesOK, life
      <3> QED
        BY <3>4, <3>5
    <2> QED
      BY <2>2, <2>3
  <1>12. \A c \in curls' : CurlOK(c)'
    BY <1>1, <1>4 DEF Inv, CurlOK, Waited, Running, life
  <1>13. OneCurl'
    BY <1>1 DEF Inv, OneCurl, Waited, Running, life
  <1>14. Attended'
    BY <1>1, <1>3, <1>5, <1>6 DEF Inv, Attended, Running, life, InProgress
  <1> QED
    BY <1>5, <1>6, <1>7, <1>8, <1>9, <1>10, <1>11, <1>12, <1>13, <1>14 DEF Inv, OneAtATime

LEMMA HandlerStepInv == ASSUME Inv, NEW h \in Handlers, HandlerStep(h) PROVE Inv'
  BY CheckBusyInv, SaveQueuedInv, SaveFailsInv, ActivateInv, FlipPausedInv, CheckActiveInv,
     RaiseSignalInv, KillCurlInv DEF HandlerStep

(***************************************************************************)
(* curl, shutdown, power loss and restart.                                 *)
(***************************************************************************)
LEMMA CurlEndsInv == ASSUME Inv, CurlEnds PROVE Inv'
  <1>1. TypeOK /\ UNCHANGED <<jobs, memory, handler, life>>
    BY DEF Inv, CurlEnds
  <1>2. PICK c \in curls, rc \in {"ok", "error", "signal"}, v \in Contents \ {"none"} :
          /\ (rc = "signal") = c.killed
          /\ curls' = curls \ {c}
          /\ worker' = IF Waited(c) THEN [worker EXCEPT ![c.owner].rc = rc] ELSE worker
          /\ staged' = IF c.dir \in JobIds
                         THEN [staged EXCEPT ![c.dir] = [staged[c.dir] EXCEPT ![c.art] = v]]
                         ELSE staged
          /\ published' = IF c.dir \in Models
                            THEN [published EXCEPT ![c.dir] = [published[c.dir] EXCEPT ![c.art] = v]]
                            ELSE published
    BY DEF CurlEnds
  <1>3. /\ CurlOK(c) /\ c.owner \in Workers /\ c.art \in Artifacts
    BY <1>1, TypeFacts DEF Inv
  <1>4. /\ staged' \in [JobIds -> [Artifacts -> Contents]]
        /\ \A i \in JobIds, b \in Artifacts :
              i # c.dir \/ b # c.art => staged'[i][b] = staged[i][b]
    <2>1. CASE c.dir \in JobIds
      <3>1. PICK f : f = [staged[c.dir] EXCEPT ![c.art] = v]
        OBVIOUS
      <3>2. f \in [Artifacts -> Contents]
            /\ \A b \in Artifacts : b # c.art => f[b] = staged[c.dir][b]
        BY <1>1, <1>3, <2>1, <3>1 DEF TypeOK
      <3>3. staged' = [staged EXCEPT ![c.dir] = f]
        BY <1>2, <2>1, <3>1
      <3> QED
        BY <1>1, <2>1, <3>2, <3>3 DEF TypeOK
    <2>2. CASE c.dir \notin JobIds
      BY <1>1, <1>2, <2>2 DEF TypeOK
    <2> QED
      BY <2>1, <2>2
  <1>5. /\ published' \in [Models -> [Artifacts -> Contents]]
        /\ \A k \in Models, b \in Artifacts :
              \/ published'[k][b] = published[k][b]
              \/ k \in abandoned /\ published'[k][b] # "none"
    <2>1. CASE c.dir \in Models
      <3>1. PICK f : f = [published[c.dir] EXCEPT ![c.art] = v]
        OBVIOUS
      <3>2. f \in [Artifacts -> Contents]
            /\ \A b \in Artifacts : f[b] = published[c.dir][b] \/ f[b] # "none"
        BY <1>1, <1>3, <2>1, <3>1 DEF TypeOK
      <3>3. published' = [published EXCEPT ![c.dir] = f]
        BY <1>2, <2>1, <3>1
      <3>4. c.dir \in abandoned
        BY <1>3, <2>1 DEF CurlOK
      <3> QED
        BY <1>1, <2>1, <3>2, <3>3, <3>4 DEF TypeOK
    <2>2. CASE c.dir \notin Models
      BY <1>1, <1>2, <2>2 DEF TypeOK
    <2> QED
      BY <2>1, <2>2
  <1>6. /\ worker' \in [Workers -> WorkerRecords]
        /\ \A u \in Workers :
              /\ worker'[u].pc = worker[u].pc /\ worker'[u].job = worker[u].job
              /\ worker'[u].model = worker[u].model /\ worker'[u].art = worker[u].art
              /\ worker'[u] = worker[u] \/ (u = c.owner /\ Waited(c) /\ worker'[u].rc = rc)
    <2>1. worker \in [Workers -> WorkerRecords]
      BY <1>1 DEF TypeOK, WorkerRecords
    <2> QED
      BY <1>2, <1>3, <2>1 DEF WorkerRecords
  <1>7. \A u \in Workers : worker'[u] = Gone <=> worker[u] = Gone
    <2>1. Waited(c) => worker[c.owner].pc # "idle"
      BY <1>3 DEF CurlOK
    <2> QED
      BY <1>6, <2>1 DEF Gone
  <1>8. TypeOK'
    BY <1>1, <1>2, <1>4, <1>5, <1>6 DEF TypeOK, WorkerRecords, memory, life
  <1>9. Quiet' /\ Slot' /\ Named' /\ OneAtATime
    BY <1>1, <1>6, <1>7 DEF Inv, Quiet, Slot, Named, memory, life
  <1>10. ASSUME NEW u \in Workers PROVE WorkerOK(u)'
    <2>1. WorkerOK(u)
      BY DEF Inv
    <2>2. CASE worker'[u] = worker[u]
      BY <1>1, <2>1, <2>2 DEF WorkerOK, memory
    <2>3. CASE u = c.owner /\ Waited(c) /\ worker'[u].rc = rc
      <3>1. worker[u].pc \in {"forked", "wait"} /\ (c.killed => signal # 0)
        BY <1>3, <2>3 DEF CurlOK
      <3> QED
        BY <1>1, <1>2, <1>6, <2>1, <2>3, <3>1 DEF WorkerOK, memory
    <2> QED
      BY <1>6, <2>2, <2>3
  <1>11. Recorded'
    BY <1>1, <1>6 DEF Inv, TypeOK, Recorded, memory
  <1>12. ASSUME NEW d \in curls' PROVE CurlOK(d)' /\ (Waited(d)' <=> Waited(d)) /\ d \in curls
    <2>1. d \in curls /\ d # c /\ CurlOK(d) /\ d.owner \in Workers
      BY <1>1, <1>2, TypeFacts DEF Inv
    <2>2. Waited(d)' <=> Waited(d)
      BY <1>1 DEF Waited, Running, life
    <2>3. Waited(d) => worker'[d.owner] = worker[d.owner]
      <3>1. Waited(c) /\ Waited(d) => c.owner # d.owner
        BY <2>1 DEF Inv, OneCurl
      <3> QED
        BY <1>6, <2>1, <3>1
    <2> QED
      BY <1>1, <2>1, <2>2, <2>3 DEF CurlOK, memory, life
  <1>13. OneCurl'
    BY <1>12 DEF Inv, OneCurl
  <1>14. ASSUME NEW h \in Handlers PROVE HandlerOK(h)'
    BY <1>1, <1>7 DEF Inv, HandlerOK, memory
  <1>15. Attended'
    BY <1>1, <1>6 DEF Inv, Attended, Running, life
  <1>16. Complete'
    <2>1. \A i \in JobIds : jobs[i].state = "installed" => jobs[i].model \in Models
      BY <1>1, TypeFacts DEF Inv, Named
    <2> QED
      BY <1>1, <1>5, <2>1 DEF Inv, Complete
  <1>17. VerifiedBeforePublish'
    BY <1>1, <1>5 DEF Inv, VerifiedBeforePublish, life
  <1>18. ASSUME NEW u \in Workers PROVE FilesOK(u)'
    <2>1. FilesOK(u)
      BY DEF Inv
    <2>2. CASE worker[u].pc \in {"idle", "load", "clear", "stopped", "failed"}
      BY <1>6, <2>2 DEF FilesOK
    <2>3. CASE worker[u].pc \notin {"idle", "load", "clear", "stopped", "failed"}
      <3>1. /\ worker[u].job \in JobIds /\ worker[u].model \in Models
            /\ jobs[worker[u].job].model = worker[u].model
            /\ Waited(c) => c.owner = u
        BY <2>3, LiveFacts, JobFacts
      <3>2. CASE Waited(c)
        <4>1. c.art = worker[u].art /\ worker[u].pc \in {"forked", "wait"}
          BY <1>3, <3>1, <3>2 DEF CurlOK
        <4>2. \A b \in Artifacts : b < worker[u].art => b # c.art
          BY <1>3, <4>1, InstallAssumption DEF Artifacts
        <4> QED
          BY <1>1, <1>4, <1>6, <2>1, <3>1, <4>1, <4>2 DEF FilesOK, life
      <3>3. CASE ~Waited(c)
        <4>1. c.dir = worker[u].job => worker[u].model \in abandoned
          BY <1>3, <3>1, <3>3 DEF CurlOK
        <4>2. worker[u].model \notin abandoned =>
                 \A b \in Artifacts : staged'[worker[u].job][b] = staged[worker[u].job][b]
          BY <1>4, <3>1, <4>1
        <4>3. \A b \in Artifacts : published[worker[u].model][b] # "none" =>
                 published'[worker[u].model][b] # "none"
          BY <1>5, <3>1
        <4> QED
          BY <1>1, <1>6, <2>1, <4>2, <4>3 DEF FilesOK, life
      <3> QED
        BY <3>2, <3>3
    <2> QED
      BY <2>2, <2>3
  <1> QED
    BY <1>8, <1>9, <1>10, <1>11, <1>12, <1>13, <1>14, <1>15, <1>16, <1>17, <1>18
    DEF Inv, OneAtATime

LEMMA StopServingInv == ASSUME Inv, StopServing PROVE Inv'
  <1>1. /\ gateway = "up" /\ gateway' = "stopping" /\ \A h \in Handlers : handler[h] = Free
        /\ UNCHANGED <<disk, memory, curls, worker, handler, restarts, abandoned>>
    BY DEF StopServing
  <1>2. TypeOK'
    BY <1>1 DEF Inv, TypeOK, disk, memory
  <1>3. Quiet' /\ Slot' /\ Named' /\ Recorded' /\ Complete' /\ VerifiedBeforePublish' /\ OneAtATime
    BY <1>1 DEF Inv, Quiet, Slot, Named, Recorded, Complete, VerifiedBeforePublish, disk, memory
  <1>4. \A w \in Workers : WorkerOK(w)' /\ FilesOK(w)'
    BY <1>1 DEF Inv, WorkerOK, FilesOK, disk, memory
  <1>5. \A c \in curls : Waited(c)' <=> Waited(c)
    BY <1>1 DEF Waited, Running
  <1>6. (\A c \in curls' : CurlOK(c)') /\ OneCurl'
    BY <1>1, <1>5 DEF Inv, CurlOK, OneCurl, disk, memory
  <1>7. \A h \in Handlers : HandlerOK(h)'
    BY <1>1 DEF HandlerOK, Free
  <1>8. Attended'
    BY <1>1 DEF Inv, Attended, Running, disk
  <1> QED
    BY <1>2, <1>3, <1>4, <1>6, <1>7, <1>8 DEF Inv, OneAtATime

LEMMA StopWorkerInv == ASSUME Inv, StopWorker PROVE Inv'
  <1>1. /\ gateway = "stopping" /\ gateway' = "killing" /\ signal' = 1 /\ Terminate(curlPid)
        /\ UNCHANGED <<disk, active, curlPid, worker, handler, restarts, abandoned>>
    BY DEF StopWorker
  <1>2. /\ curls' \in SUBSET CurlRecords(restarts)
        /\ \A c \in curls' : CurlOK(c)'
        /\ OneCurl'
    BY <1>1, TerminateCurls DEF Running, disk
  <1>3. TypeOK'
    <2>1. signal' \in 0 .. 2
      BY <1>1
    <2> QED
      BY <1>1, <1>2, <2>1 DEF Inv, TypeOK, CurlRecords, disk
  <1>4. Quiet' /\ Slot' /\ Named' /\ Recorded' /\ Complete' /\ VerifiedBeforePublish' /\ OneAtATime
    BY <1>1 DEF Inv, Quiet, Slot, Named, Recorded, Complete, VerifiedBeforePublish, disk
  <1>5. \A w \in Workers : WorkerOK(w)' /\ FilesOK(w)'
    BY <1>1 DEF Inv, WorkerOK, FilesOK, disk
  <1>6. \A h \in Handlers : HandlerOK(h)'
    BY <1>1 DEF Inv, Quiet, HandlerOK, Free
  <1>7. Attended'
    BY <1>1 DEF Inv, Attended, Running, disk
  <1> QED
    BY <1>2, <1>3, <1>4, <1>5, <1>6, <1>7 DEF Inv, OneAtATime

LEMMA ExitInv == ASSUME Inv, Exit PROVE Inv'
  <1>1. /\ TypeOK /\ gateway # "up" /\ gateway' = "down"
        /\ active' = None /\ signal' = 0 /\ curlPid' = None
        /\ worker' = [w \in Workers |-> Gone]
        /\ curls' = curls \ Mine(curlPid)
        /\ abandoned' = abandoned \cup {jobs[c.dir].model : c \in {d \in curls' : d.dir \in JobIds}}
        /\ UNCHANGED <<disk, handler, restarts>>
    BY DEF Inv, Exit
  <1>2. \A h \in Handlers : handler[h] = Free
    BY <1>1 DEF Inv, Quiet
  <1>3. abandoned' \subseteq Models
    <2>1. ASSUME NEW c \in curls', c.dir \in JobIds PROVE jobs[c.dir].model \in Models
      <3>1. CurlOK(c) /\ c.owner \in Workers
        BY <1>1, TypeFacts DEF Inv
      <3>2. CASE Waited(c)
        <4>1. worker[c.owner].pc \in {"forked", "wait"} /\ c.dir = worker[c.owner].job
          BY <3>1, <3>2 DEF CurlOK
        <4> QED
          BY <3>1, <4>1, JobFacts
      <3>3. CASE ~Waited(c)
        BY <1>1, <2>1, <3>1, <3>3 DEF CurlOK, TypeOK
      <3> QED
        BY <3>2, <3>3
    <2> QED
      BY <1>1, <2>1 DEF TypeOK
  <1>4. TypeOK'
    <2>1. signal' \in 0 .. 2
      BY <1>1
    <2>2. worker' \in [Workers -> WorkerRecords]
      BY <1>1, GoneType
    <2> QED
      BY <1>1, <1>3, <2>1, <2>2 DEF TypeOK, WorkerRecords, disk
  <1>5. Quiet' /\ Slot' /\ Named' /\ Recorded' /\ Complete' /\ OneAtATime
    BY <1>1, <1>2 DEF Inv, Quiet, Slot, Named, Recorded, Complete, disk, Free
  <1>6. \A w \in Workers : WorkerOK(w)' /\ FilesOK(w)'
    BY <1>1 DEF WorkerOK, FilesOK, Gone
  <1>7. ASSUME NEW c \in curls' PROVE ~Waited(c)' /\ CurlOK(c)'
    <2>1. ~Waited(c)'
      BY <1>1 DEF Waited, Running
    <2>2. CurlOK(c) /\ jobs' = jobs
      BY <1>1 DEF Inv, disk
    <2>3. c.dir \in JobIds => jobs[c.dir].model \in abandoned'
      BY <1>1
    <2>4. c.dir \in Models => c.dir \in abandoned'
      BY <1>1, <2>2 DEF CurlOK
    <2> QED
      BY <2>1, <2>2, <2>3, <2>4 DEF CurlOK
  <1>8. OneCurl'
    BY <1>7 DEF OneCurl
  <1>9. \A h \in Handlers : HandlerOK(h)'
    BY <1>1, <1>2 DEF HandlerOK, Free
  <1>10. Attended'
    BY <1>1 DEF Attended, Running
  <1>11. VerifiedBeforePublish'
    BY <1>1 DEF Inv, VerifiedBeforePublish, disk
  <1> QED
    BY <1>4, <1>5, <1>6, <1>7, <1>8, <1>9, <1>10, <1>11 DEF Inv, OneAtATime

LEMMA LosePowerInv == ASSUME Inv, LosePower PROVE Inv'
  <1>1. /\ TypeOK /\ gateway' = "down"
        /\ active' = None /\ signal' = 0 /\ curlPid' = None
        /\ worker' = [w \in Workers |-> Gone]
        /\ handler' = [h \in Handlers |-> Free]
        /\ curls' = {}
        /\ UNCHANGED <<jobs, restarts, abandoned>>
    BY DEF Inv, LosePower
  <1>2. staged' \in [JobIds -> [Artifacts -> Contents]]
    <2>1. ASSUME NEW j \in JobIds, NEW a \in Artifacts PROVE staged[j][a] \in Contents
      BY <1>1 DEF TypeOK
    <2>2. "partial" \in Contents
      BY DEF Contents
    <2> QED
      BY <2>1, <2>2 DEF LosePower
  <1>3. /\ published' \in [Models -> [Artifacts -> Contents]]
        /\ \A k \in Models, b \in Artifacts :
              \/ published'[k][b] = published[k][b]
              \/ k \in abandoned /\ published'[k][b] # "none"
    <2>1. ASSUME NEW j \in Models, NEW a \in Artifacts PROVE published[j][a] \in Contents
      BY <1>1 DEF TypeOK
    <2>2. "partial" \in Contents
      BY DEF Contents
    <2>3. published' \in [Models -> [Artifacts -> Contents]]
      BY <2>1, <2>2 DEF LosePower
    <2>4. ASSUME NEW k \in Models, NEW b \in Artifacts
          PROVE  \/ published'[k][b] = published[k][b]
                 \/ k \in abandoned /\ published'[k][b] # "none"
      <3>1. published'[k][b] = IF \E c \in curls : c.dir = k /\ c.art = b THEN "partial"
                               ELSE published[k][b]
        BY DEF LosePower
      <3>2. (\E c \in curls : c.dir = k /\ c.art = b) => k \in abandoned
        BY DEF Inv, CurlOK
      <3> QED
        BY <3>1, <3>2
    <2> QED
      BY <2>3, <2>4
  <1>4. TypeOK'
    <2>1. signal' \in 0 .. 2
      BY <1>1
    <2>2. worker' \in [Workers -> WorkerRecords] /\ handler' \in [Handlers -> HandlerRecords]
      BY <1>1, GoneType, FreeType
    <2> QED
      BY <1>1, <1>2, <1>3, <2>1, <2>2 DEF TypeOK, WorkerRecords, HandlerRecords
  <1>5. Quiet' /\ Slot' /\ Named' /\ Recorded' /\ OneAtATime
    BY <1>1 DEF Inv, Quiet, Slot, Named, Recorded, Free
  <1>6. \A w \in Workers : WorkerOK(w)' /\ FilesOK(w)'
    BY <1>1 DEF WorkerOK, FilesOK, Gone
  <1>7. (\A c \in curls' : CurlOK(c)') /\ OneCurl'
    BY <1>1 DEF OneCurl
  <1>8. \A h \in Handlers : HandlerOK(h)'
    BY <1>1 DEF HandlerOK, Free
  <1>9. Attended'
    BY <1>1 DEF Attended, Running
  <1>10. Complete'
    <2>1. \A i \in JobIds : jobs[i].state = "installed" => jobs[i].model \in Models
      BY <1>1, TypeFacts DEF Inv, Named
    <2> QED
      BY <1>1, <1>3, <2>1 DEF Inv, Complete
  <1>11. VerifiedBeforePublish'
    BY <1>1, <1>3 DEF Inv, VerifiedBeforePublish
  <1> QED
    BY <1>4, <1>5, <1>6, <1>7, <1>8, <1>9, <1>10, <1>11 DEF Inv, OneAtATime

LEMMA RepairFacts == ASSUME TypeOK, NEW j \in JobIds
    PROVE  /\ Repair(j) \in [state : JobStates \cup {"absent"}, model : Models \cup {None}]
           /\ Repair(j).model = jobs[j].model
           /\ Repair(j).state \notin InProgress
           /\ Repair(j).state = "absent" <=> jobs[j].state = "absent"
           /\ Repair(j).state = "installed" <=> jobs[j].state = "installed"
  <1>1. jobs[j] \in [state : JobStates \cup {"absent"}, model : Models \cup {None}]
    BY DEF TypeOK
  <1>2. "paused" \in JobStates /\ "paused" \notin InProgress
    BY DEF JobStates, InProgress
  <1>3. "absent" \notin InProgress /\ "installed" \notin InProgress
    BY DEF InProgress
  <1> QED
    BY <1>1, <1>2, <1>3 DEF Repair

LEMMA RestartInv == ASSUME Inv, Restart PROVE Inv'
  <1>1. /\ TypeOK /\ gateway = "down" /\ restarts < Restarts /\ restarts' = restarts + 1
        /\ gateway' = "up" /\ jobs' = [j \in JobIds |-> Repair(j)]
        /\ UNCHANGED <<staged, published, memory, curls, worker, handler, abandoned>>
    BY DEF Inv, Restart
  <1>2. /\ active = None /\ curlPid = None /\ \A w \in Workers : worker[w] = Gone
        /\ \A h \in Handlers : handler[h] = Free
    BY <1>1 DEF Inv, Quiet
  <1>3. restarts \in Nat /\ restarts' \in 0 .. Restarts /\ 0 .. restarts \subseteq 0 .. restarts'
    BY <1>1, InstallAssumption DEF TypeOK
  <1>4. /\ jobs' \in [JobIds -> [state : JobStates \cup {"absent"}, model : Models \cup {None}]]
        /\ \A j \in JobIds : /\ jobs'[j].model = jobs[j].model
                             /\ jobs'[j].state \notin InProgress
                             /\ jobs'[j].state = "absent" <=> jobs[j].state = "absent"
                             /\ jobs'[j].state = "installed" <=> jobs[j].state = "installed"
    BY <1>1, RepairFacts
  <1>5. TypeOK'
    <2>1. curls' \in SUBSET CurlRecords(restarts')
      BY <1>1, <1>3 DEF TypeOK, CurlRecords
    <2> QED
      BY <1>1, <1>3, <1>4, <2>1 DEF TypeOK, CurlRecords, memory
  <1>6. Quiet' /\ Slot' /\ Recorded' /\ OneAtATime
    BY <1>1, <1>2 DEF Inv, Quiet, Slot, Recorded, memory, Free
  <1>7. Named' /\ Complete'
    BY <1>1, <1>4 DEF Inv, Named, Complete
  <1>8. \A w \in Workers : WorkerOK(w)' /\ FilesOK(w)'
    BY <1>1, <1>2 DEF WorkerOK, FilesOK, Gone
  <1>9. ASSUME NEW c \in curls' PROVE ~Waited(c)' /\ CurlOK(c)'
    <2>1. CurlOK(c) /\ ~Waited(c) /\ c.born \in 0 .. restarts
      BY <1>1, TypeFacts DEF Inv, Waited, Running
    <2>2. ~Waited(c)'
      BY <1>1, <1>3, <2>1 DEF Waited
    <2> QED
      BY <1>1, <1>4, <2>1, <2>2 DEF CurlOK
  <1>10. OneCurl'
    BY <1>9 DEF OneCurl
  <1>11. \A h \in Handlers : HandlerOK(h)'
    BY <1>1, <1>2 DEF HandlerOK, Free
  <1>12. Attended'
    BY <1>4 DEF Attended
  <1>13. VerifiedBeforePublish'
    BY <1>1 DEF Inv, VerifiedBeforePublish
  <1> QED
    BY <1>5, <1>6, <1>7, <1>8, <1>9, <1>10, <1>11, <1>12, <1>13 DEF Inv, OneAtATime

(***************************************************************************)
(* The invariant.                                                          *)
(***************************************************************************)
LEMMA InvInit == OneAtATime /\ Init => Inv
  <1> SUFFICES ASSUME OneAtATime, Init PROVE Inv
    OBVIOUS
  <1>1. TypeOK
    <2>1. NoJob \in [state : JobStates \cup {"absent"}, model : Models \cup {None}]
      BY DEF NoJob
    <2>2. 0 \in 0 .. 2 /\ 0 \in 0 .. Restarts /\ "none" \in Contents
      BY InstallAssumption DEF Contents
    <2>3. worker \in [Workers -> WorkerRecords] /\ handler \in [Handlers -> HandlerRecords]
      BY GoneType, FreeType DEF Init
    <2> QED
      BY <2>1, <2>2, <2>3 DEF Init, TypeOK, WorkerRecords, HandlerRecords
  <1>2. Quiet /\ Slot /\ Recorded /\ OneCurl /\ VerifiedBeforePublish
    BY DEF Init, Quiet, Slot, Recorded, OneCurl, VerifiedBeforePublish, Free
  <1>3. Named /\ Attended /\ Complete
    BY DEF Init, Named, Attended, Complete, NoJob, InProgress
  <1>4. \A w \in Workers : WorkerOK(w) /\ FilesOK(w)
    BY DEF Init, WorkerOK, FilesOK, Gone
  <1>5. (\A c \in curls : CurlOK(c)) /\ \A h \in Handlers : HandlerOK(h)
    BY DEF Init, HandlerOK, Free
  <1> QED
    BY <1>1, <1>2, <1>3, <1>4, <1>5 DEF Inv

LEMMA InvStep == Inv /\ [Next]_vars => Inv'
  <1> SUFFICES ASSUME Inv, [Next]_vars PROVE Inv'
    OBVIOUS
  <1>1. CASE \E h \in Handlers : Receive(h) \/ HandlerStep(h)
    BY <1>1, ReceiveInv, HandlerStepInv
  <1>2. CASE \E w \in Workers : WorkerStep(w)
    BY <1>2, WorkerStepInv
  <1>3. CASE CurlEnds \/ StopServing \/ StopWorker \/ Exit \/ LosePower \/ Restart
    BY <1>3, CurlEndsInv, StopServingInv, StopWorkerInv, ExitInv, LosePowerInv, RestartInv
  <1>4. CASE UNCHANGED vars
    <2>1. TypeOK' /\ Quiet' /\ Slot' /\ Named' /\ Recorded' /\ Complete' /\ VerifiedBeforePublish'
      BY <1>4 DEF Inv, vars, TypeOK, Quiet, Slot, Named, Recorded, Complete, VerifiedBeforePublish
    <2>2. \A w \in Workers : WorkerOK(w)' /\ FilesOK(w)'
      BY <1>4 DEF Inv, vars, WorkerOK, FilesOK
    <2>3. (\A c \in curls' : CurlOK(c)') /\ OneCurl'
      BY <1>4 DEF Inv, vars, CurlOK, OneCurl, Waited, Running
    <2>4. (\A h \in Handlers : HandlerOK(h)') /\ Attended' /\ OneAtATime
      BY <1>4 DEF Inv, vars, HandlerOK, Attended, Running
    <2> QED
      BY <2>1, <2>2, <2>3, <2>4 DEF Inv, OneAtATime
  <1> QED
    BY <1>1, <1>2, <1>3, <1>4 DEF Next

LEMMA InvHolds == OneAtATime /\ Spec => []Inv
  BY InvInit, InvStep, PTL DEF Spec

(***************************************************************************)
(* The theorems.                                                           *)
(***************************************************************************)
\* With requests one at a time, the slot (active_install_job_id) is claimed exactly while
\* a worker thread runs for it, through pauses, failures, shutdown, power loss and restart:
\* install_clear_active and the restart free it, and nothing transfers without it.
THEOREM SlotExactHolds == OneAtATime /\ Spec => []SlotExact
  <1>1. Inv => SlotExact
    BY DEF Inv, Slot, SlotExact
  <1> QED
    BY <1>1, InvHolds, PTL

\* With requests one at a time there is never a second install worker: the one stop flag
\* and the one recorded curl belong to the transfer that reads them.
THEOREM OneTransferHolds == OneAtATime /\ Spec => []OneTransfer
  <1>1. Inv => OneTransfer
    <2> SUFFICES ASSUME Inv PROVE Cardinality(Live) <= 1
      BY DEF OneTransfer
    <2>1. \A v, w \in Live : v = w
      BY DEF Inv, Slot, Live
    <2>2. CASE Live = {}
      BY <2>2, FS_EmptySet
    <2>3. CASE Live # {}
      <3>1. PICK w : w \in Live
        BY <2>3
      <3>2. Live = {w}
        BY <2>1, <3>1
      <3>3. Cardinality({w}) = 1
        BY FS_Singleton
      <3> QED
        BY <3>2, <3>3
    <2> QED
      BY <2>2, <2>3
  <1> QED
    BY <1>1, InvHolds, PTL

\* With requests one at a time, no job claims to be in progress that nobody works on, and
\* an installed one has every artifact of its model in place, across shutdown, power loss
\* and install_jobs_repair_after_restart.
THEOREM HonestStatusHolds == OneAtATime /\ Spec => []HonestStatus
  <1>1. Inv => HonestStatus
    BY DEF Inv, Attended, Complete, HonestStatus, Running
  <1> QED
    BY <1>1, InvHolds, PTL

\* With requests one at a time, install_worker renames only verified bytes into a model's
\* install path, unless a shutdown has left a curl downloading for that very model.
THEOREM VerifiedBeforePublishHolds == OneAtATime /\ Spec => []VerifiedBeforePublish
  <1>1. Inv => VerifiedBeforePublish
    BY DEF Inv
  <1> QED
    BY <1>1, InvHolds, PTL

\* A worker step writes no job but its own, which is in progress.
LEMMA WorkerWrites ==
    ASSUME Inv, NEW w \in Workers, WorkerStep(w), NEW j \in JobIds, jobs[j].state = "canceled"
    PROVE  jobs'[j] = jobs[j]
  <1>1. TypeOK
    BY DEF Inv
  <1>2. CASE worker[w].pc = "clear"
    <2>1. UNCHANGED disk
      BY <1>2 DEF WorkerStep, WorkerStart, WorkerArtifact, WorkerRecord, WorkerReap, WorkerFetched,
         WorkerVerify, WorkerHash, WorkerStopped, WorkerFailed, WorkerInstalling, WorkerPublish,
         install_clear_active, At
    <2> QED
      BY <2>1 DEF disk
  <1>3. CASE worker[w].pc = "idle"
    BY <1>3 DEF WorkerStep, WorkerStart, WorkerArtifact, WorkerRecord, WorkerReap, WorkerFetched,
       WorkerVerify, WorkerHash, WorkerStopped, WorkerFailed, WorkerInstalling, WorkerPublish,
       install_clear_active, At
  <1>4. CASE worker[w].pc \notin {"idle", "clear"}
    <2>1. worker[w].job \in JobIds
      BY <1>4, LiveFacts
    <2>2. worker[w].job # j
      BY <1>4 DEF Inv, WorkerOK, InProgress
    <2>3. \/ jobs' = jobs
          \/ \E m, s : install_job_save(worker[w].job, m, s)
      <3>1. CASE WorkerVerify(w) \/ WorkerStopped(w) \/ WorkerFailed(w) \/ WorkerInstalling(w)
        BY <3>1 DEF WorkerVerify, WorkerStopped, WorkerFailed, WorkerInstalling
      <3>4. CASE WorkerStart(w)
        BY <3>4 DEF WorkerStart
      <3>2. CASE WorkerPublish(w)
        BY <3>2 DEF WorkerPublish, disk
      <3>3. CASE WorkerArtifact(w) \/ WorkerRecord(w) \/ WorkerReap(w) \/ WorkerFetched(w)
                 \/ WorkerHash(w) \/ install_clear_active(w)
        BY <3>3 DEF WorkerArtifact, WorkerRecord, WorkerReap, WorkerFetched, WorkerHash,
           install_clear_active, disk
      <3> QED
        BY <3>1, <3>2, <3>3, <3>4 DEF WorkerStep
    <2> QED
      BY <1>1, <2>1, <2>2, <2>3 DEF install_job_save, TypeOK
  <1> QED
    BY <1>2, <1>3, <1>4

\* A handler step writes a canceled job only to take its directory over.
LEMMA HandlerWrites ==
    ASSUME Inv, NEW h \in Handlers, Receive(h) \/ HandlerStep(h),
           NEW j \in JobIds, jobs[j].state = "canceled"
    PROVE  jobs'[j] \in {jobs[j], NoJob}
  <1>1. TypeOK /\ HandlerOK(h)
    BY DEF Inv
  <1>2. ASSUME NEW i \in Unused PROVE i \in JobIds /\ i # j
    BY UnusedFacts
  <1>3. CASE SaveQueued(h)
    <2>1. /\ handler[h].op = "resume" => handler[h].job \in JobIds /\ handler[h].job # j
          /\ handler[h].op = "retry" => handler[h].job \in JobIds
      BY <1>1, <1>3 DEF HandlerOK, SaveQueued
    <2>2. \/ \E i \in JobIds : i # j /\ \E m, s : install_job_save(i, m, s)
          \/ \E i \in JobIds, o \in JobIds :
                i # j /\ \E n : jobs' = [jobs EXCEPT ![o] = NoJob, ![i] = n]
      BY <1>2, <1>3, <2>1 DEF SaveQueued
    <2> QED
      BY <1>1, <2>2 DEF install_job_save, TypeOK
  <1>4. CASE SaveFails(h)
    <2>1. handler[h].op = "retry" => handler[h].job \in JobIds
      BY <1>1, <1>4 DEF HandlerOK, SaveFails
    <2>2. \/ jobs' = jobs
          \/ \E i \in JobIds, o \in JobIds :
                i # j /\ \E n : jobs' = [jobs EXCEPT ![o] = NoJob, ![i] = n]
      BY <1>2, <1>4, <2>1 DEF SaveFails
    <2> QED
      BY <1>1, <2>2 DEF TypeOK
  <1>5. CASE FlipPaused(h)
    <2>1. handler[h].job \in JobIds /\ handler[h].job # j
      BY <1>1, <1>5 DEF HandlerOK, FlipPaused
    <2> QED
      BY <1>1, <1>5, <2>1 DEF FlipPaused, install_job_save, TypeOK
  <1>6. CASE Receive(h) \/ CheckBusy(h) \/ Activate(h) \/ CheckActive(h) \/ RaiseSignal(h)
             \/ KillCurl(h)
    BY <1>6 DEF Receive, CheckBusy, Activate, CheckActive, RaiseSignal, KillCurl
  <1> QED
    BY <1>3, <1>4, <1>5, <1>6 DEF HandlerStep

\* With requests one at a time, a canceled job is written only by the retry that takes its
\* directory over: neither a late save of its worker nor the repair at a restart revives it.
THEOREM CancelSticksHolds == OneAtATime /\ Spec => CancelSticks
  <1>1. Inv /\ [Next]_vars =>
           [\A j \in JobIds : jobs[j].state = "canceled" =>
               jobs'[j].state \in {"canceled", "absent"}]_vars
    <2> SUFFICES ASSUME Inv, Next, NEW j \in JobIds, jobs[j].state = "canceled"
                 PROVE  jobs'[j].state \in {"canceled", "absent"}
      OBVIOUS
    <2>1. CASE \E h \in Handlers : Receive(h) \/ HandlerStep(h)
      BY <2>1, HandlerWrites DEF NoJob
    <2>2. CASE \E w \in Workers : WorkerStep(w)
      BY <2>2, WorkerWrites
    <2>3. CASE CurlEnds \/ StopServing \/ StopWorker \/ Exit \/ LosePower
      BY <2>3 DEF CurlEnds, StopServing, StopWorker, Exit, LosePower, disk
    <2>4. CASE Restart
      BY <2>4 DEF Restart, Repair, InProgress
    <2> QED
      BY <2>1, <2>2, <2>3, <2>4 DEF Next
  <1> QED
    BY <1>1, InvHolds, PTL DEF CancelSticks, Spec

\* With requests one at a time, a curl that pause, cancel or shutdown has signalled is not
\* reported as a failed download: the stop flag is still up when its worker looks.
THEOREM KilledIsNotFailedHolds == OneAtATime /\ Spec => KilledIsNotFailed
  <1>1. Inv /\ [Next]_vars =>
           [\A w \in Workers : worker[w].rc = "signal" => worker'[w].pc # "failed"]_vars
    <2> SUFFICES ASSUME Inv, Next, NEW w \in Workers, worker[w].rc = "signal"
                 PROVE  worker'[w].pc # "failed"
      OBVIOUS
    <2>1. TypeOK /\ worker[w].pc \in {"forked", "wait", "fetched"} /\ signal # 0
      BY DEF Inv, WorkerOK
    <2>2. CASE \E v \in Workers : WorkerStep(v)
      <3>1. PICK v \in Workers : WorkerStep(v)
        BY <2>2
      <3>2. v = w
        <4>1. worker[v].pc # "idle"
          BY <3>1 DEF WorkerStep, WorkerStart, WorkerArtifact, WorkerRecord, WorkerReap,
             WorkerFetched, WorkerVerify, WorkerHash, WorkerStopped, WorkerFailed,
             WorkerInstalling, WorkerPublish, install_clear_active, At
        <4> QED
          BY <2>1, <4>1, LiveFacts DEF Gone
      <3>3. WorkerRecord(w) \/ WorkerReap(w) \/ WorkerFetched(w)
        BY <2>1, <3>1, <3>2 DEF WorkerStep, WorkerStart, WorkerArtifact, WorkerVerify, WorkerHash,
           WorkerStopped, WorkerFailed, WorkerInstalling, WorkerPublish, install_clear_active, At
      <3>4. CASE WorkerRecord(w) \/ WorkerReap(w)
        BY <2>1, <3>4, WGotoType DEF WorkerRecord, WorkerReap, WorkerPcs
      <3>5. CASE WorkerFetched(w)
        <4>1. worker' = [worker EXCEPT ![w].pc = "stopped", ![w].rc = "none"]
          BY <2>1, <3>5 DEF WorkerFetched
        <4> QED
          BY <2>1, <4>1, WDoneType DEF WorkerPcs
      <3> QED
        BY <3>3, <3>4, <3>5
    <2>3. CASE \E h \in Handlers : Activate(h)
      <3>1. PICK h \in Handlers : Activate(h)
        BY <2>3
      <3>2. worker[w] = Gone
        BY <3>1, IdleFacts DEF Activate
      <3> QED
        BY <2>1, <3>2 DEF Gone
    <2>4. CASE \E h \in Handlers : Receive(h) \/ (HandlerStep(h) /\ ~Activate(h))
      BY <2>1, <2>4 DEF Receive, HandlerStep, CheckBusy, SaveQueued, SaveFails, FlipPaused,
         CheckActive, RaiseSignal, KillCurl
    <2>5. CASE CurlEnds
      BY <2>1, <2>5 DEF CurlEnds, TypeOK
    <2>6. CASE Exit \/ LosePower
      BY <2>6 DEF Exit, LosePower, Gone
    <2>7. CASE StopServing \/ StopWorker \/ Restart
      BY <2>1, <2>7 DEF StopServing, StopWorker, Restart
    <2> QED
      BY <2>2, <2>3, <2>4, <2>5, <2>6, <2>7 DEF Next
  <1> QED
    BY <1>1, InvHolds, PTL DEF KilledIsNotFailed, Spec
=============================================================================
