----------------------------- MODULE InstallJobs -----------------------------
(***************************************************************************)
(* Resumable model downloads: src/src/samosa_gateway.c, install_* and      *)
(* models_install_*.                                                       *)
(*                                                                         *)
(* A download is a job persisted under .installs/<job id>: a job.json with *)
(* its state, and the artifacts staged so far.  At most one worker thread  *)
(* is meant to transfer at a time: active is the slot, signal and curlPid  *)
(* are the worker's stop flag and its curl child.  Request handlers run    *)
(* one thread per connection; each step below is what a handler or the     *)
(* worker does between two points where another thread may run.            *)
(*                                                                         *)
(* curl, the network and the files it writes are external: a curl process  *)
(* ends when it likes and leaves any content in the file it has open,      *)
(* wherever that file has been renamed to by then.                         *)
(***************************************************************************)
EXTENDS Integers, FiniteSets

CONSTANTS
    Models,     \* (model_id, version) pairs of the catalog
    JobIds,     \* the ids durable_job_id_generate may return; also bounds the jobs
    Handlers,   \* request handler threads
    Workers,    \* install worker threads
    None,       \* no job, no process
    NArtifacts, \* artifacts of a model
    Shutdown,   \* BOOLEAN: the gateway may be shut down in an orderly way
    PowerLoss,  \* BOOLEAN: the machine may lose power (children die as well)
    Restarts    \* bound on the number of restarts

Artifacts == 1 .. NArtifacts

ASSUME InstallAssumption ==
    /\ NArtifacts \in Nat \ {0}
    /\ Restarts \in Nat
    /\ Shutdown \in BOOLEAN /\ PowerLoss \in BOOLEAN
    /\ None \notin JobIds \cup Handlers \cup Workers \cup Models
    /\ JobIds \cap Models = {}

InProgress == {"queued", "downloading", "verifying", "installing"}
Terminal   == {"installed", "failed", "canceled"}
JobStates  == InProgress \cup Terminal \cup {"paused"}

\* A file: absent, of another than the declared size, or of that size with the right
\* or the wrong checksum.
Contents == {"none", "partial", "good", "bad"}
Sized    == {"good", "bad"}

VARIABLES
    jobs,      \* job.json of each job id: state and model, "absent" when there is none
    staged,    \* the staged artifacts of each job directory
    published, \* the artifacts under each model's install paths
    active,    \* g->active_install_job_id
    signal,    \* g_install_stop_signal: 0 keep going, 1 pause, 2 cancel
    curlPid,   \* g_install_curl_pid: the worker whose curl is recorded
    curls,     \* running curl processes: the worker that forked it and the run of the
               \* gateway that was in; the directory (job or model) and artifact it has
               \* open, no directory once that file is unlinked; whether it was signalled
    worker,    \* install worker threads
    handler,   \* request handler threads
    gateway,   \* "up", "stopping", "killing" (curl signalled, polling), "down"
    restarts,  \* restarts so far
    abandoned  \* history: the models a shutdown has left a curl downloading for

disk == <<jobs, staged, published>>
memory == <<active, signal, curlPid>>
life == <<gateway, restarts, abandoned>>
vars == <<jobs, staged, published, active, signal, curlPid, curls, worker, handler,
          gateway, restarts, abandoned>>

NoJob == [state |-> "absent", model |-> None]
Gone  == [pc |-> "idle", job |-> None, model |-> None, art |-> 1, rc |-> "none"]
Free  == [pc |-> "idle", op |-> "none", job |-> None, model |-> None]

Init ==
    /\ jobs = [j \in JobIds |-> NoJob]
    /\ staged = [j \in JobIds |-> [a \in Artifacts |-> "none"]]
    /\ published = [m \in Models |-> [a \in Artifacts |-> "none"]]
    /\ active = None
    /\ signal = 0
    /\ curlPid = None
    /\ curls = {}
    /\ worker = [w \in Workers |-> Gone]
    /\ handler = [h \in Handlers |-> Free]
    /\ gateway = "up"
    /\ restarts = 0
    /\ abandoned = {}

(***************************************************************************)
(* Shared pieces.                                                          *)
(***************************************************************************)
\* install_job_save and install_job_event: replace job.json.
install_job_save(j, m, state) == jobs' = [jobs EXCEPT ![j] = [state |-> state, model |-> m]]

\* durable_job_id_generate: ids are 128 random bits, so a fresh one is known to nobody.
Unused == {j \in JobIds : /\ jobs[j] = NoJob
                          /\ \A w \in Workers : worker[w].job # j
                          /\ \A h \in Handlers : handler[h].job # j}

\* Claim the slot, clear the stop flag and start a worker thread.
install_spawn_worker(j) ==
    /\ active' = j
    /\ signal' = 0
    /\ \E w \in Workers : /\ worker[w] = Gone
                          /\ worker' = [worker EXCEPT ![w] = [Gone EXCEPT !.pc = "load", !.job = j]]

Running == gateway \in {"up", "stopping", "killing"}

(***************************************************************************)
(* Request handlers.  Each starts with one request and ends in Free.       *)
(***************************************************************************)
Requests == {[op |-> "install", job |-> None, model |-> m] : m \in Models}
            \cup {[op |-> o, job |-> j, model |-> None] :
                     o \in {"pause", "cancel", "resume", "retry"}, j \in JobIds}

Goto(h, pc) == handler' = [handler EXCEPT ![h].pc = pc]
Return(h) == handler' = [handler EXCEPT ![h] = Free]

\* models_install_handler: an existing nonterminal job of the model answers the request.
InstallScan(h, r) ==
    /\ r.op = "install"
    /\ \A j \in JobIds : ~(jobs[j].model = r.model /\ jobs[j].state \notin Terminal)
    /\ handler' = [handler EXCEPT ![h] = [pc |-> "busy", op |-> r.op, job |-> None,
                                          model |-> r.model]]

\* The four job handlers load job.json first and return unless its state allows them.
ResumeLoad(h, r) ==
    /\ r.op = "resume" /\ jobs[r.job].state = "paused"
    /\ handler' = [handler EXCEPT ![h] = [pc |-> "busy", op |-> r.op, job |-> r.job,
                                          model |-> jobs[r.job].model]]

RetryLoad(h, r) ==
    /\ r.op = "retry" /\ jobs[r.job].state \in {"failed", "canceled"}
    /\ handler' = [handler EXCEPT ![h] = [pc |-> "busy", op |-> r.op, job |-> r.job,
                                          model |-> jobs[r.job].model]]

StopLoad(h, r) ==
    /\ \/ r.op = "pause" /\ jobs[r.job].state \in {"queued", "downloading"}
       \/ r.op = "cancel" /\ jobs[r.job].state \in {"queued", "downloading", "verifying"}
    /\ handler' = [handler EXCEPT ![h] = [pc |-> "is_active", op |-> r.op, job |-> r.job,
                                          model |-> jobs[r.job].model]]

\* Canceling a paused job flips its persisted state directly, in a later step.
CancelPausedLoad(h, r) ==
    /\ r.op = "cancel" /\ jobs[r.job].state = "paused"
    /\ handler' = [handler EXCEPT ![h] = [pc |-> "flip", op |-> r.op, job |-> r.job,
                                          model |-> jobs[r.job].model]]

Receive(h) ==
    /\ gateway = "up" /\ handler[h] = Free
    /\ \E r \in Requests : \/ InstallScan(h, r) \/ ResumeLoad(h, r) \/ RetryLoad(h, r)
                           \/ StopLoad(h, r) \/ CancelPausedLoad(h, r)
    /\ UNCHANGED <<jobs, staged, published, active, signal, curlPid, curls, worker,
                   life>>

\* Mutant of CheckBusy: the slot is not looked at.
CheckBusy_never(h) ==
    /\ handler[h].pc = "busy"
    /\ Goto(h, "save")
    /\ UNCHANGED <<jobs, staged, published, active, signal, curlPid, curls, worker,
                   life>>

\* The busy test under install_mu; the lock is released before the job is saved.
CheckBusy(h) ==
    /\ handler[h].pc = "busy"
    /\ IF active # None THEN Return(h) ELSE Goto(h, "save")
    /\ UNCHANGED <<jobs, staged, published, active, signal, curlPid, curls, worker,
                   life>>

\* The file (dir, a) is renamed into directory new, or unlinked (None); a curl that has
\* it open follows it.
Moved(cs, dir, a, new) ==
    {IF c.dir = dir /\ c.art = a THEN [c EXCEPT !.dir = new] ELSE c : c \in cs}

\* rename(old_dir, new_dir): the files move, open ones too.
MoveStaged(old, new) ==
    /\ staged' = [staged EXCEPT ![new] = staged[old], ![old] = [a \in Artifacts |-> "none"]]
    /\ curls' = {IF c.dir = old THEN [c EXCEPT !.dir = new] ELSE c : c \in curls}

\* unlink(staged): a curl that has the file open goes on writing where nobody looks.
UnlinkStaged(j, a) ==
    /\ staged' = [staged EXCEPT ![j] = [staged[j] EXCEPT ![a] = "none"]]
    /\ curls' = Moved(curls, j, a, None)

\* Persist the new, the resumed or the retried job as queued.  A retry first renames
\* the old job's directory to the new id.
SaveQueued(h) ==
    LET r == handler[h]
    IN  /\ r.pc = "save"
        /\ \/ /\ r.op = "install"
              /\ \E j \in Unused :
                    /\ install_job_save(j, r.model, "queued")
                    /\ handler' = [handler EXCEPT ![h].pc = "activate", ![h].job = j]
              /\ UNCHANGED <<staged, curls>>
           \/ /\ r.op = "resume"
              /\ install_job_save(r.job, r.model, "queued")
              /\ Goto(h, "activate")
              /\ UNCHANGED <<staged, curls>>
           \/ /\ r.op = "retry"
              /\ \E j \in Unused :
                    /\ jobs' = [jobs EXCEPT ![r.job] = NoJob,
                                            ![j] = [state |-> "queued", model |-> r.model]]
                    /\ MoveStaged(r.job, j)
                    /\ handler' = [handler EXCEPT ![h].pc = "activate", ![h].job = j]
        /\ UNCHANGED <<published, active, signal, curlPid, worker, life>>

\* No id could be generated, or the new job.json could not be written: the handler
\* answers 500.  A retry has renamed the directory by then, old job.json included.
SaveFails(h) ==
    LET r == handler[h]
    IN  /\ r.pc = "save" /\ r.op \in {"install", "retry"}
        /\ Return(h)
        /\ \/ UNCHANGED <<jobs, staged, curls>>
           \/ /\ r.op = "retry"
              /\ \E j \in Unused :
                    /\ jobs' = [jobs EXCEPT ![r.job] = NoJob, ![j] = jobs[r.job]]
                    /\ MoveStaged(r.job, j)
        /\ UNCHANGED <<published, active, signal, curlPid, worker, life>>

Activate(h) ==
    /\ handler[h].pc = "activate"
    /\ install_spawn_worker(handler[h].job)
    /\ Return(h)
    /\ UNCHANGED <<jobs, staged, published, curlPid, curls, life>>

\* Canceling a paused job: the persisted state is flipped, as read when it was loaded.
FlipPaused(h) ==
    /\ handler[h].pc = "flip"
    /\ install_job_save(handler[h].job, handler[h].model, "canceled")
    /\ Return(h)
    /\ UNCHANGED <<staged, published, active, signal, curlPid, curls, worker, life>>

\* models_install_pause_handler and _cancel_handler: the slot is compared under the lock,
\* the flag is raised and curl signalled after it has been released.
CheckActive(h) ==
    /\ handler[h].pc = "is_active"
    /\ IF active # handler[h].job THEN Return(h) ELSE Goto(h, "signal")
    /\ UNCHANGED <<jobs, staged, published, active, signal, curlPid, curls, worker,
                   life>>

RaiseSignal(h) ==
    /\ handler[h].pc = "signal"
    /\ signal' = IF handler[h].op = "pause" THEN 1 ELSE 2
    /\ Goto(h, "kill")
    /\ UNCHANGED <<jobs, staged, published, active, curlPid, curls, worker, life>>

\* The curl that worker w has forked and waits for.
Mine(w) == {c \in curls : c.owner = w /\ c.born = restarts}

\* SIGTERM makes a curl process end; what it wrote so far stays.
Terminate(w) ==
    curls' = {IF c \in Mine(w) THEN [c EXCEPT !.killed = TRUE] ELSE c : c \in curls}

KillCurl(h) ==
    /\ handler[h].pc = "kill"
    /\ Terminate(curlPid)
    /\ Return(h)
    /\ UNCHANGED <<jobs, staged, published, active, signal, curlPid, worker, life>>

(***************************************************************************)
(* install_worker.                                                         *)
(***************************************************************************)
WGoto(w, pc) == worker' = [worker EXCEPT ![w].pc = pc]

At(w, pc) == Running /\ worker[w].pc = pc

\* Load the job; an unreadable one ends the thread, with the slot still claimed.  The
\* catalog lookup and the free space preflight may fail; otherwise the job becomes
\* downloading.
WorkerStart(w) ==
    LET j == worker[w].job
    IN  /\ At(w, "load")
        /\ \/ /\ jobs[j] = NoJob
              /\ worker' = [worker EXCEPT ![w] = Gone]
              /\ UNCHANGED jobs
           \/ /\ jobs[j] # NoJob
              /\ install_job_save(j, jobs[j].model, "failed")
              /\ WGoto(w, "clear")
           \/ /\ jobs[j] # NoJob
              /\ install_job_save(j, jobs[j].model, "downloading")
              /\ worker' = [worker EXCEPT ![w].pc = "artifact", ![w].model = jobs[j].model]
        /\ UNCHANGED <<staged, published, memory, curls, handler, life>>

\* Top of the artifact loop: an artifact the catalog gives no url fails the job; then
\* stop, skip a file of the right size, or fork curl.
WorkerArtifact(w) ==
    LET j == worker[w].job
        a == worker[w].art
    IN  /\ At(w, "artifact")
        /\ \/ a > NArtifacts /\ WGoto(w, "installing") /\ UNCHANGED curls
           \/ a <= NArtifacts /\ WGoto(w, "failed") /\ UNCHANGED curls
           \/ a <= NArtifacts /\ signal # 0 /\ WGoto(w, "stopped") /\ UNCHANGED curls
           \/ /\ a <= NArtifacts /\ signal = 0 /\ staged[j][a] \in Sized
              /\ WGoto(w, "verify") /\ UNCHANGED curls
           \/ /\ a <= NArtifacts /\ signal = 0 /\ staged[j][a] \notin Sized
              /\ WGoto(w, "forked")
              /\ curls' = curls \cup {[owner |-> w, born |-> restarts, dir |-> j, art |-> a,
                                       killed |-> FALSE]}
        /\ UNCHANGED <<disk, memory, handler, life>>

\* install_run_curl records the child only after fork has returned.
WorkerRecord(w) ==
    /\ At(w, "forked")
    /\ curlPid' = w
    /\ WGoto(w, "wait")
    /\ UNCHANGED <<disk, active, signal, curls, handler, life>>

\* waitpid has returned: curl is no longer running.
WorkerReap(w) ==
    /\ At(w, "wait")
    /\ Mine(w) = {}
    /\ curlPid' = None
    /\ WGoto(w, "fetched")
    /\ UNCHANGED <<disk, active, signal, curls, handler, life>>

\* Mutant of WorkerFetched: a nonzero exit is taken for a failure before the flag is read.
WorkerFetched_no_signal(w) ==
    LET j == worker[w].job
        a == worker[w].art
        then(pc) == worker' = [worker EXCEPT ![w].pc = pc, ![w].rc = "none"]
    IN  /\ At(w, "fetched")
        /\ then(IF worker[w].rc = "ok" /\ staged[j][a] \in Sized THEN "verify" ELSE "failed")
        /\ UNCHANGED <<disk, memory, curls, handler, life>>

\* The flag comes before curl's exit status; a file of another size is unlinked.
WorkerFetched(w) ==
    LET j == worker[w].job
        a == worker[w].art
        then(pc) == worker' = [worker EXCEPT ![w].pc = pc, ![w].rc = "none"]
        ok == worker[w].rc = "ok"
    IN  /\ At(w, "fetched")
        /\ \/ signal # 0 /\ then("stopped") /\ UNCHANGED <<staged, curls>>
           \/ signal = 0 /\ ~ok /\ then("failed") /\ UNCHANGED <<staged, curls>>
           \/ /\ signal = 0 /\ ok /\ staged[j][a] \notin Sized
              /\ then("failed")
              /\ UnlinkStaged(j, a)
           \/ /\ signal = 0 /\ ok /\ staged[j][a] \in Sized
              /\ then("verify") /\ UNCHANGED <<staged, curls>>
        /\ UNCHANGED <<jobs, published, memory, handler, life>>

WorkerVerify(w) ==
    /\ At(w, "verify")
    /\ install_job_save(worker[w].job, worker[w].model, "verifying")
    /\ WGoto(w, "hash")
    /\ UNCHANGED <<staged, published, memory, curls, handler, life>>

\* Mutant of WorkerHash: the checksum is not compared.
WorkerHash_unchecked(w) ==
    /\ At(w, "hash")
    /\ worker' = [worker EXCEPT ![w].pc = "artifact", ![w].art = @ + 1]
    /\ UNCHANGED <<disk, memory, curls, handler, life>>

\* A wrong checksum unlinks the file; a right one gives the flag a last chance.
WorkerHash(w) ==
    LET j == worker[w].job
        a == worker[w].art
    IN  /\ At(w, "hash")
        /\ IF staged[j][a] # "good"
             THEN WGoto(w, "failed") /\ UnlinkStaged(j, a)
             ELSE /\ IF signal # 0 THEN WGoto(w, "stopped")
                     ELSE worker' = [worker EXCEPT ![w].pc = "artifact", ![w].art = a + 1]
                  /\ UNCHANGED <<staged, curls>>
        /\ UNCHANGED <<jobs, published, memory, handler, life>>

WorkerStopped(w) ==
    /\ At(w, "stopped")
    /\ install_job_save(worker[w].job, worker[w].model, IF signal = 1 THEN "paused" ELSE "canceled")
    /\ WGoto(w, "clear")
    /\ UNCHANGED <<staged, published, memory, curls, handler, life>>

WorkerFailed(w) ==
    /\ At(w, "failed")
    /\ install_job_save(worker[w].job, worker[w].model, "failed")
    /\ WGoto(w, "clear")
    /\ UNCHANGED <<staged, published, memory, curls, handler, life>>

WorkerInstalling(w) ==
    /\ At(w, "installing")
    /\ install_job_save(worker[w].job, worker[w].model, "installing")
    /\ worker' = [worker EXCEPT ![w].pc = "publish", ![w].art = 1]
    /\ UNCHANGED <<staged, published, memory, curls, handler, life>>

\* rename(staged, final) for one artifact; it may fail.  The file it replaces is gone.
WorkerPublish(w) ==
    LET j == worker[w].job
        a == worker[w].art
        m == worker[w].model
    IN  /\ At(w, "publish")
        /\ \/ /\ a <= NArtifacts /\ staged[j][a] # "none"
              /\ published' = [published EXCEPT ![m] = [published[m] EXCEPT ![a] = staged[j][a]]]
              /\ staged' = [staged EXCEPT ![j] = [staged[j] EXCEPT ![a] = "none"]]
              /\ curls' = Moved(Moved(curls, m, a, None), j, a, m)
              /\ worker' = [worker EXCEPT ![w].art = a + 1]
              /\ UNCHANGED jobs
           \/ /\ a <= NArtifacts
              /\ WGoto(w, "failed")
              /\ UNCHANGED <<disk, curls>>
           \/ /\ a > NArtifacts
              /\ install_job_save(j, m, "installed")
              /\ WGoto(w, "clear")
              /\ UNCHANGED <<staged, published, curls>>
        /\ UNCHANGED <<memory, handler, life>>

\* Mutant of install_clear_active: the slot is not released.
install_clear_active_keeps_slot(w) ==
    /\ At(w, "clear")
    /\ curlPid' = None
    /\ signal' = 0
    /\ worker' = [worker EXCEPT ![w] = Gone]
    /\ UNCHANGED <<disk, active, curls, handler, life>>

\* install_clear_active, after which the thread ends.
install_clear_active(w) ==
    /\ At(w, "clear")
    /\ active' = None
    /\ curlPid' = None
    /\ signal' = 0
    /\ worker' = [worker EXCEPT ![w] = Gone]
    /\ UNCHANGED <<disk, curls, handler, life>>

(***************************************************************************)
(* curl (external): ends with any content and any exit status, with a      *)
(* signal status once it was signalled.  What it writes shows when it ends.*)
(***************************************************************************)
\* Some worker's waitpid will see it; otherwise the run that forked it is over.
Waited(c) == Running /\ c.born = restarts

CurlEnds ==
    /\ \E c \in curls, rc \in {"ok", "error", "signal"}, v \in Contents \ {"none"} :
          /\ (rc = "signal") = c.killed
          /\ curls' = curls \ {c}
          /\ worker' = IF Waited(c) THEN [worker EXCEPT ![c.owner].rc = rc] ELSE worker
          /\ staged' = IF c.dir \in JobIds
                         THEN [staged EXCEPT ![c.dir] = [staged[c.dir] EXCEPT ![c.art] = v]]
                         ELSE staged
          /\ published' = IF c.dir \in Models
                            THEN [published EXCEPT ![c.dir] = [published[c.dir] EXCEPT ![c.art] = v]]
                            ELSE published
    /\ UNCHANGED <<jobs, memory, handler, life>>

(***************************************************************************)
(* Shutdown, power loss and restart.                                       *)
(***************************************************************************)
\* The server stops accepting and waits for the handlers; main then runs
\* install_worker_stop_for_shutdown, which signals a recorded curl or does nothing.
StopServing ==
    /\ Shutdown /\ gateway = "up"
    /\ \A h \in Handlers : handler[h] = Free
    /\ gateway' = "stopping"
    /\ UNCHANGED <<disk, memory, curls, worker, handler, restarts, abandoned>>

StopWorker ==
    /\ gateway = "stopping"
    /\ curlPid # None
    /\ signal' = 1
    /\ Terminate(curlPid)
    /\ gateway' = "killing"
    /\ UNCHANGED <<disk, active, curlPid, worker, handler, restarts, abandoned>>

\* The process exits once the recorded curl is reaped, or there was none to signal, or
\* it is killed after eight seconds; worker threads die with the process, curl does not.
Exit ==
    /\ gateway \in {"stopping", "killing"}
    /\ curlPid = None \/ gateway = "killing"
    /\ gateway' = "down"
    /\ active' = None /\ signal' = 0 /\ curlPid' = None
    /\ worker' = [w \in Workers |-> Gone]
    /\ curls' = curls \ Mine(curlPid)
    /\ abandoned' = abandoned \cup {jobs[c.dir].model : c \in {d \in curls' : d.dir \in JobIds}}
    /\ UNCHANGED <<disk, handler, restarts>>

\* The machine goes down with all of its processes; a file being written is cut short.
LosePower ==
    LET cut(dir, a, v) == IF \E c \in curls : c.dir = dir /\ c.art = a THEN "partial" ELSE v
    IN  /\ PowerLoss /\ Running
        /\ gateway' = "down"
        /\ active' = None /\ signal' = 0 /\ curlPid' = None
        /\ worker' = [w \in Workers |-> Gone]
        /\ handler' = [h \in Handlers |-> Free]
        /\ curls' = {}
        /\ staged' = [j \in JobIds |-> [a \in Artifacts |-> cut(j, a, staged[j][a])]]
        /\ published' = [m \in Models |-> [a \in Artifacts |-> cut(m, a, published[m][a])]]
        /\ UNCHANGED <<jobs, restarts, abandoned>>

\* Mutant of Repair: a queued job is left as it is.
Repair_skips_queued(j) ==
    IF jobs[j].state \in InProgress \ {"queued"} THEN [jobs[j] EXCEPT !.state = "paused"]
    ELSE jobs[j]

\* Mutant of Repair: everything but an installed job becomes resumable.
Repair_canceled_too(j) ==
    IF jobs[j].state \in JobStates \ {"installed"} THEN [jobs[j] EXCEPT !.state = "paused"]
    ELSE jobs[j]

\* install_jobs_repair_after_restart, before the gateway serves any request.
Repair(j) ==
    IF jobs[j].state \in InProgress THEN [jobs[j] EXCEPT !.state = "paused"] ELSE jobs[j]

Restart ==
    /\ gateway = "down"
    /\ restarts < Restarts
    /\ restarts' = restarts + 1
    /\ gateway' = "up"
    /\ jobs' = [j \in JobIds |-> Repair(j)]
    /\ UNCHANGED <<staged, published, memory, curls, worker, handler, abandoned>>

WorkerStep(w) ==
    \/ WorkerStart(w) \/ WorkerArtifact(w) \/ WorkerRecord(w) \/ WorkerReap(w)
    \/ WorkerFetched(w) \/ WorkerVerify(w) \/ WorkerHash(w) \/ WorkerStopped(w)
    \/ WorkerFailed(w) \/ WorkerInstalling(w) \/ WorkerPublish(w) \/ install_clear_active(w)

HandlerStep(h) ==
    \/ CheckBusy(h) \/ SaveQueued(h) \/ SaveFails(h) \/ Activate(h) \/ FlipPaused(h)
    \/ CheckActive(h) \/ RaiseSignal(h) \/ KillCurl(h)

Next ==
    \/ \E h \in Handlers : Receive(h) \/ HandlerStep(h)
    \/ \E w \in Workers : WorkerStep(w)
    \/ CurlEnds
    \/ StopServing \/ StopWorker \/ Exit \/ LosePower \/ Restart

Spec == Init /\ [][Next]_vars

(***************************************************************************)
(* Properties.                                                             *)
(***************************************************************************)
WorkerPcs == {"idle", "load", "artifact", "forked", "wait", "fetched", "verify", "hash", "stopped",
              "failed", "installing", "publish", "clear"}
HandlerPcs == {"idle", "busy", "save", "activate", "flip", "is_active", "signal", "kill"}

\* Every variable keeps its type; the stop flag is one of its three values.
TypeOK ==
    /\ jobs \in [JobIds -> [state : JobStates \cup {"absent"}, model : Models \cup {None}]]
    /\ staged \in [JobIds -> [Artifacts -> Contents]]
    /\ published \in [Models -> [Artifacts -> Contents]]
    /\ active \in JobIds \cup {None}
    /\ signal \in 0 .. 2
    /\ curlPid \in Workers \cup {None}
    /\ curls \subseteq [owner : Workers, born : 0 .. restarts, dir : JobIds \cup Models \cup {None},
                       art : Artifacts, killed : BOOLEAN]
    /\ worker \in [Workers -> [pc : WorkerPcs, job : JobIds \cup {None}, model : Models \cup {None},
                               art : 1 .. NArtifacts + 1, rc : {"none", "ok", "error", "signal"}]]
    /\ handler \in [Handlers -> [pc : HandlerPcs,
                                 op : {"none", "install", "pause", "cancel", "resume", "retry"},
                                 job : JobIds \cup {None}, model : Models \cup {None}]]
    /\ gateway \in {"up", "stopping", "killing", "down"}
    /\ restarts \in 0 .. Restarts
    /\ abandoned \subseteq Models

\* The scope decision above install_job_dir: one active transfer at a time.  At most one
\* worker thread is past its start, so the one flag and the one pid it is controlled by
\* are its own.
Live == {w \in Workers : worker[w] # Gone}
OneTransfer == Cardinality(Live) <= 1

\* Only bytes that matched their checksum stand under a model's install path, whatever
\* is interrupted, canceled, retried or resumed in between: a working install is never
\* replaced by a bad one.  The one exception: a shutdown has left a curl downloading for
\* that very model.
VerifiedBeforePublish ==
    \A m \in Models \ abandoned, a \in Artifacts : published[m][a] \in {"none", "good"}

\* While the gateway serves requests, a job that claims to be in progress has a worker
\* or a handler about to start one: no job sits forever claiming activity that stopped.
\* And a job that says installed has all of its model's artifacts in place.
HonestStatus ==
    /\ gateway = "up" =>
          \A j \in JobIds : jobs[j].state \in InProgress =>
              \/ \E w \in Workers : worker[w].job = j
              \/ \E h \in Handlers : handler[h].job = j /\ handler[h].pc = "activate"
    /\ \A j \in JobIds : jobs[j].state = "installed" =>
          \A a \in Artifacts : published[jobs[j].model][a] # "none"

\* A canceled job stays canceled until a retry takes its directory over.
CancelSticks ==
    [][\A j \in JobIds : jobs[j].state = "canceled" => jobs'[j].state \in {"canceled", "absent"}]_vars

\* A curl that was signalled on purpose (pause, cancel, shutdown) is never reported as a
\* failed download: the flag is up by the time the worker looks at the exit status.
KilledIsNotFailed ==
    [][\A w \in Workers : worker[w].rc = "signal" => worker'[w].pc # "failed"]_vars

\* The slot is claimed exactly while a worker runs for it: no transfer without the slot,
\* and no slot that only a restart would free.
SlotExact ==
    /\ TypeOK
    /\ active # None => \E w \in Workers : worker[w].job = active
    /\ \A w \in Workers : worker[w] # Gone => active = worker[w].job

\* What the comment above install_worker_stop_for_shutdown promises the next start: the
\* bytes on disk are stable, no curl of an earlier run still writes to them.  Does not
\* hold (InstallOrphan.cfg): a curl that is forked and not yet recorded is left running.
StableBytes == gateway = "up" => \A c \in curls : Waited(c)
=============================================================================
