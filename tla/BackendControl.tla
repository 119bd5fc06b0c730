---------------------------- MODULE BackendControl ----------------------------
(***************************************************************************)
(* The model backend process and everything that stops and starts it:      *)
(* src/src/samosa_gateway.c, backend_*, selection_*, the select and        *)
(* runtime settings handlers, vision turns, and shutdown.                  *)
(*                                                                         *)
(* The gateway runs at most one chat model as a child process on a private *)
(* port.  A switch stops it, starts the requested one and hands over to a  *)
(* watchdog thread that waits for readiness and then commits the selection *)
(* file, or rolls back.  A visual turn may pause the model and restart it. *)
(* Handlers run one thread per connection; backend_stop and backend_start  *)
(* are subroutines of the threads (pc "stop", "kill", "start", "record",   *)
(* ret is where they return to), and one step is what a thread does        *)
(* between two points where another may run.                               *)
(***************************************************************************)
EXTENDS Integers, FiniteSets

CONSTANTS
    Backends,  \* chat models with a resident process
    Molmo,     \* the virtual backend: selectable, no resident process
    Handlers,  \* request handler threads
    Watchdog,  \* the selection watchdog thread
    Main,      \* main() after the server has stopped
    Pids,      \* process ids; bounds the children alive at once
    None,
    Enabled    \* the requests (and "signal") that may occur

Threads == Handlers \cup {Watchdog, Main}
Requests == {"select", "virtual", "runtime", "vision", "chat", "shutdown"}

ASSUME BackendAssumption ==
    /\ Enabled \subseteq Requests \cup {"signal"}
    /\ Molmo \notin Backends
    /\ None \notin Backends \cup {Molmo} \cup Pids \cup Threads
    /\ Watchdog \notin Handlers /\ Main \notin Handlers /\ Watchdog # Main
    /\ IsFiniteSet(Handlers)

VARIABLES
    backend,    \* g->backend: the backend the gateway is on
    file,       \* the durable model-backend selection file
    backendPid, \* g->backend_pid
    children,   \* running children: pid, listening and healthy, signalled to end
    active,     \* g->active_selection_job_id: the backend being switched to
    lock,       \* selection_mu, where it is held across steps
    generating, \* g->generating
    specialist, \* g->specialist_generation_active
    session,    \* the visual helper: "none", "resident", "cancelled"
    stopping,   \* g->stopping
    gateway,    \* "up", "draining" (handlers finish), "closing" (main), "down"
    thread

processes == <<backendPid, children>>
switch == <<backend, file, active, lock>>
gate == <<generating, specialist, session>>
life == <<stopping, gateway>>
vars == <<backend, file, backendPid, children, active, lock, generating, specialist,
          session, stopping, gateway, thread>>

Idle == [pc |-> "idle", op |-> "none", name |-> None, prev |-> None, pid |-> None,
         ret |-> "none", ok |-> FALSE, paused |-> FALSE]

Child(p) == [pid |-> p, up |-> FALSE, dying |-> FALSE]

\* load_config takes the backend from the selection file; main starts it before serving,
\* and serves without a model when that fails.
Init ==
    /\ backend \in Backends \cup {Molmo} /\ file = backend
    /\ \/ backendPid = None /\ children = {}
       \/ backend # Molmo /\ backendPid \in Pids /\ children = {Child(backendPid)}
    /\ active = None /\ lock = None
    /\ generating = 0 /\ specialist = FALSE /\ session = "none"
    /\ stopping = FALSE /\ gateway = "up"
    /\ thread = [x \in Threads |-> Idle]

(***************************************************************************)
(* Shared pieces.                                                          *)
(***************************************************************************)
At(x, pc) == gateway # "down" /\ thread[x].pc = pc
Goto(x, pc) == thread' = [thread EXCEPT ![x].pc = pc]
Return(x) == thread' = [thread EXCEPT ![x] = Idle]
Call(x, sub, ret) == thread' = [thread EXCEPT ![x].pc = sub, ![x].ret = ret]

\* backend_child_running: an exited child is reaped and forgotten.
ChildRunning == \E c \in children : c.pid = backendPid
Reap == backendPid' = IF ChildRunning THEN backendPid ELSE None

\* Something accepts connections on the private port.
PortTaken == \E c \in children : c.up

\* backend_probe of a resident backend: our child runs and the port answers.
Probe == ChildRunning /\ PortTaken

(***************************************************************************)
(* backend_stop.                                                           *)
(***************************************************************************)
\* Mutant of Stop: a child that does not answer yet is forgotten instead of signalled.
Stop_skips_loading(x) ==
    /\ At(x, "stop")
    /\ backendPid' = None
    /\ children' = {IF c.pid = backendPid /\ c.up THEN [c EXCEPT !.dying = TRUE] ELSE c : c \in children}
    /\ thread' = [thread EXCEPT ![x].pid = backendPid,
                                ![x].pc = IF backendPid = None THEN thread[x].ret ELSE "kill"]
    /\ UNCHANGED <<switch, gate, life>>

\* Take the pid under g->mu and signal it; the visual helper is cancelled too.
Stop(x) ==
    /\ At(x, "stop")
    /\ backendPid' = None
    /\ children' = {IF c.pid = backendPid THEN [c EXCEPT !.dying = TRUE] ELSE c : c \in children}
    /\ session' = IF session = "resident" THEN "cancelled" ELSE session
    /\ thread' = [thread EXCEPT ![x].pid = backendPid,
                                ![x].pc = IF backendPid = None THEN thread[x].ret ELSE "kill"]
    /\ UNCHANGED <<switch, generating, specialist, life>>

\* Wait for the child, which is killed after eight seconds.
Kill(x) ==
    /\ At(x, "kill")
    /\ children' = {c \in children : c.pid # thread[x].pid}
    /\ thread' = [thread EXCEPT ![x].pc = thread[x].ret, ![x].pid = None]
    /\ UNCHANGED <<backendPid, switch, gate, life>>

(***************************************************************************)
(* backend_start.                                                          *)
(***************************************************************************)
Forkable == {p \in Pids : /\ p # backendPid /\ \A c \in children : c.pid # p
                          /\ \A x \in Threads : thread[x].pid # p}

\* Refused when the model is not available, the port is taken or fork fails; the
\* virtual backend has nothing to start.
Start(x) ==
    /\ At(x, "start")
    /\ \/ /\ thread' = [thread EXCEPT ![x].pc = thread[x].ret, ![x].ok = FALSE]
          /\ UNCHANGED children
       \/ /\ backend = Molmo
          /\ thread' = [thread EXCEPT ![x].pc = thread[x].ret, ![x].ok = TRUE]
          /\ UNCHANGED children
       \/ /\ backend # Molmo /\ ~PortTaken
          /\ \E p \in Forkable :
                /\ children' = children \cup {Child(p)}
                /\ thread' = [thread EXCEPT ![x].pc = "record", ![x].pid = p]
    /\ UNCHANGED <<backendPid, switch, gate, life>>

Record(x) ==
    /\ At(x, "record")
    /\ backendPid' = thread[x].pid
    /\ thread' = [thread EXCEPT ![x].pc = thread[x].ret, ![x].ok = TRUE, ![x].pid = None]
    /\ UNCHANGED <<children, switch, gate, life>>

(***************************************************************************)
(* Requests.                                                               *)
(***************************************************************************)
FirstStep(op) == [select |-> "check", virtual |-> "check", runtime |-> "check",
                  vision |-> "gate", chat |-> "probe", shutdown |-> "quit"][op]

Receive(h) ==
    /\ gateway = "up" /\ thread[h] = Idle
    /\ \E op \in Enabled \cap Requests, n \in Backends \cup {Molmo, None} :
          /\ (n \in Backends) = (op = "select")
          /\ (n = Molmo) = (op = "virtual")
          /\ op = "runtime" => backend # Molmo
          /\ thread' = [thread EXCEPT ![h] = [Idle EXCEPT !.pc = FirstStep(op), !.op = op, !.name = n]]
    /\ UNCHANGED <<switch, processes, gate, life>>

\* 409 generation_active.
CheckIdle(h) ==
    /\ At(h, "check")
    /\ IF generating # 0 THEN Return(h)
       ELSE Goto(h, IF thread[h].op = "runtime" THEN "lock" ELSE "differs")
    /\ UNCHANGED <<switch, processes, gate, life>>

\* The requested backend is compared with g->backend outside the lock.
Differs(h) ==
    /\ At(h, "differs")
    /\ IF thread[h].name = backend THEN Return(h)
       ELSE Goto(h, IF thread[h].op = "virtual" THEN "lock" ELSE "claim")
    /\ UNCHANGED <<switch, processes, gate, life>>

\* Mutant of Claim: the slot is not tested again under the lock.
Claim_untested(h) ==
    /\ At(h, "claim") /\ lock = None
    /\ active' = thread[h].name
    /\ thread' = [thread EXCEPT ![h].prev = backend, ![h].pc = "stop", ![h].ret = "rename"]
    /\ UNCHANGED <<backend, file, lock, processes, gate, life>>

\* Test and claim the selection slot under the lock, with the job saved; busy after a
\* bounded wait, or a job that cannot be saved, ends the request.
Claim(h) ==
    /\ At(h, "claim") /\ lock = None
    /\ \/ Return(h) /\ UNCHANGED active
       \/ /\ active = None
          /\ active' = thread[h].name
          /\ thread' = [thread EXCEPT ![h].prev = backend, ![h].pc = "stop", ![h].ret = "rename"]
    /\ UNCHANGED <<backend, file, lock, processes, gate, life>>

\* The virtual backend and the settings keep the lock across stop and start.
LockSelection(h) ==
    /\ At(h, "lock") /\ lock = None
    /\ \/ Return(h) /\ UNCHANGED lock
       \/ /\ active = None
          /\ lock' = h
          /\ thread' = [thread EXCEPT ![h].prev = backend, ![h].pc = "stop",
                             ![h].ret = IF thread[h].op = "virtual" THEN "virtual" ELSE "restart"]
    /\ UNCHANGED <<backend, file, active, processes, gate, life>>

Unlock(h) ==
    /\ At(h, "unlock")
    /\ lock' = None
    /\ Return(h)
    /\ UNCHANGED <<backend, file, active, processes, gate, life>>

\* Commit the virtual backend, or put the previous one back when the write fails.
CommitVirtual(h) ==
    /\ At(h, "virtual")
    /\ \/ backend' = Molmo /\ file' = Molmo /\ Goto(h, "unlock")
       \/ /\ backend' = thread[h].prev /\ UNCHANGED file
          /\ IF stopping THEN Goto(h, "unlock") ELSE Call(h, "start", "unlock")
    /\ UNCHANGED <<active, lock, processes, gate, life>>

\* runtime_settings_handler: start with the new settings, else once more with the old.
Restart(h) ==
    /\ At(h, "restart")
    /\ Call(h, "start", "restarted")
    /\ UNCHANGED <<switch, processes, gate, life>>

Restarted(h) ==
    /\ At(h, "restarted")
    /\ IF thread[h].ok THEN Goto(h, "unlock") ELSE Call(h, "start", "unlock")
    /\ UNCHANGED <<switch, processes, gate, life>>

(***************************************************************************)
(* A switch, in the handler and then in the watchdog.                      *)
(***************************************************************************)
Rename(h) ==
    /\ At(h, "rename")
    /\ backend' = thread[h].name
    /\ Call(h, "start", "started")
    /\ UNCHANGED <<file, active, lock, processes, gate, life>>

\* The handler answers 202 and leaves the switch to the watchdog.
Started(h) ==
    /\ At(h, "started")
    /\ IF thread[h].ok
         THEN thread' = [thread EXCEPT ![h] = Idle, ![Watchdog] =
                            [Idle EXCEPT !.pc = "wait", !.op = "watch", !.name = thread[h].name,
                                         !.prev = thread[h].prev]]
         ELSE Call(h, "stop", "restore")
    /\ UNCHANGED <<switch, processes, gate, life>>

\* selection_watchdog, one turn of the loop: stopping is looked at first.
WatchStopping ==
    /\ At(Watchdog, "wait")
    /\ Goto(Watchdog, IF stopping THEN "clear" ELSE "poll")
    /\ UNCHANGED <<switch, processes, gate, life>>

\* Then the child, then the port, until the deadline.  A turn that finds neither changes
\* nothing, so the way back to the top is taken only for what the top would notice.
WatchPoll ==
    /\ At(Watchdog, "poll")
    /\ Reap
    /\ \/ ~ChildRunning /\ Call(Watchdog, "stop", "restore")
       \/ Probe /\ Goto(Watchdog, "commit")
       \/ ChildRunning /\ stopping /\ Goto(Watchdog, "wait")
    /\ UNCHANGED <<children, switch, gate, life>>

WatchTimeout ==
    /\ At(Watchdog, "poll")
    /\ Call(Watchdog, "stop", "restore")
    /\ UNCHANGED <<switch, processes, gate, life>>

\* Mutant of WatchCommit: the file is written before the fingerprint is compared.
WatchCommit_early ==
    /\ At(Watchdog, "commit")
    /\ file' = thread[Watchdog].name
    /\ \/ Goto(Watchdog, "clear")
       \/ Call(Watchdog, "stop", "restore")
    /\ UNCHANGED <<backend, active, lock, processes, gate, life>>

\* The weights changed under the load or the file cannot be written: roll back.
WatchCommit ==
    /\ At(Watchdog, "commit")
    /\ \/ file' = thread[Watchdog].name /\ Goto(Watchdog, "clear")
       \/ UNCHANGED file /\ Call(Watchdog, "stop", "restore")
    /\ UNCHANGED <<backend, active, lock, processes, gate, life>>

\* selection_restore_previous, after its backend_stop.
Restore(x) ==
    /\ At(x, "restore")
    /\ backend' = thread[x].prev
    /\ Goto(x, "maystart")
    /\ UNCHANGED <<file, active, lock, processes, gate, life>>

MayStart(x) ==
    /\ At(x, "maystart")
    /\ IF stopping THEN Goto(x, "clear") ELSE Call(x, "start", "clear")
    /\ UNCHANGED <<switch, processes, gate, life>>

\* Mutant of ClearSelection: a failed switch keeps the slot.
ClearSelection_keeps(x) ==
    /\ At(x, "clear") /\ lock = None
    /\ active' = IF x = Watchdog THEN None ELSE active
    /\ Return(x)
    /\ UNCHANGED <<backend, file, lock, processes, gate, life>>

\* The job is saved as selected or failed, then selection_clear_active.
ClearSelection(x) ==
    /\ At(x, "clear") /\ lock = None
    /\ active' = None
    /\ Return(x)
    /\ UNCHANGED <<backend, file, lock, processes, gate, life>>

(***************************************************************************)
(* Chat generations and visual turns.                                      *)
(***************************************************************************)
ChatProbe(h) ==
    /\ At(h, "probe")
    /\ Reap
    /\ IF backend # Molmo /\ Probe THEN Goto(h, "enter") ELSE Return(h)
    /\ UNCHANGED <<children, switch, gate, life>>

\* Mutant of ChatEnter: the gate is not looked at.
ChatEnter_ungated(h) ==
    /\ At(h, "enter")
    /\ generating' = generating + 1 /\ Goto(h, "generate")
    /\ UNCHANGED <<switch, processes, specialist, session, life>>

\* Connect, then pass the generation gate.
ChatEnter(h) ==
    /\ At(h, "enter")
    /\ IF specialist \/ ~PortTaken THEN Return(h) /\ UNCHANGED generating
       ELSE generating' = generating + 1 /\ Goto(h, "generate")
    /\ UNCHANGED <<switch, processes, specialist, session, life>>

\* The generation ends, also by its connection being shut down.
ChatLeave(h) ==
    /\ At(h, "generate")
    /\ generating' = generating - 1
    /\ Return(h)
    /\ UNCHANGED <<switch, processes, specialist, session, life>>

\* vision_turn_start: one specialist at a time, and none during a generation.
VisionGate(h) ==
    /\ At(h, "gate")
    /\ IF specialist \/ generating # 0 THEN Return(h) /\ UNCHANGED specialist
       ELSE specialist' = TRUE /\ Goto(h, "pause")
    /\ UNCHANGED <<switch, processes, generating, session, life>>

\* Mutant of VisionPause: the turn is marked as paused and the model left running.
VisionPause_marks_only(h) ==
    /\ At(h, "pause")
    /\ thread' = [thread EXCEPT ![h].paused = TRUE, ![h].pc = "session"]
    /\ UNCHANGED <<switch, processes, gate, life>>

\* On a small machine the chat model is stopped before Molmo2 is loaded.
VisionPause(h) ==
    /\ At(h, "pause")
    /\ \/ /\ backendPid # None
          /\ thread' = [thread EXCEPT ![h].paused = TRUE, ![h].pc = "stop", ![h].ret = "session"]
       \/ Goto(h, "session")
    /\ UNCHANGED <<switch, processes, gate, life>>

VisionSession(h) ==
    /\ At(h, "session")
    /\ \/ session' = "resident" /\ Goto(h, "analyze")
       \/ UNCHANGED session /\ Goto(h, "release")
    /\ UNCHANGED <<switch, processes, generating, specialist, life>>

VisionAnalyzed(h) ==
    /\ At(h, "analyze")
    /\ Goto(h, "release")
    /\ UNCHANGED <<switch, processes, gate, life>>

\* vision_turn_release_runtime: close the helper, restart a paused model, open the gate.
VisionRelease(h) ==
    /\ At(h, "release")
    /\ session' = "none"
    /\ IF thread[h].paused /\ ~stopping THEN Call(h, "start", "ungate") ELSE Goto(h, "ungate")
    /\ UNCHANGED <<switch, processes, generating, specialist, life>>

\* Mutant of VisionUngate: the gate stays closed when the model did not restart.
VisionUngate_on_success(h) ==
    /\ At(h, "ungate")
    /\ specialist' = (thread[h].paused /\ ~thread[h].ok)
    /\ Return(h)
    /\ UNCHANGED <<switch, processes, generating, session, life>>

VisionUngate(h) ==
    /\ At(h, "ungate")
    /\ specialist' = FALSE
    /\ Return(h)
    /\ UNCHANGED <<switch, processes, generating, session, life>>

(***************************************************************************)
(* Shutdown, and the children (external).                                  *)
(***************************************************************************)
\* POST /v1/shutdown: raise the flag, stop the backend, stop accepting.
Quit(h) ==
    /\ At(h, "quit")
    /\ stopping' = TRUE
    /\ Call(h, "stop", "close")
    /\ UNCHANGED <<switch, processes, gate, gateway>>

Close(h) ==
    /\ At(h, "close")
    /\ gateway' = IF gateway = "up" THEN "draining" ELSE gateway
    /\ Return(h)
    /\ UNCHANGED <<switch, processes, gate, stopping>>

\* A signal, or the browser lifecycle watchdog.
Signal ==
    /\ "signal" \in Enabled /\ gateway = "up"
    /\ stopping' = TRUE /\ gateway' = "draining"
    /\ UNCHANGED <<switch, processes, gate, thread>>

\* main, once every connection thread has ended.
MainStop ==
    /\ gateway = "draining"
    /\ \A h \in Handlers : thread[h] = Idle
    /\ gateway' = "closing"
    /\ Call(Main, "stop", "exit")
    /\ UNCHANGED <<switch, processes, gate, stopping>>

Exit ==
    /\ At(Main, "exit")
    /\ gateway' = "down"
    /\ thread' = [x \in Threads |-> Idle]
    /\ active' = None /\ lock' = None
    /\ UNCHANGED <<backend, file, processes, gate, stopping>>

\* A child listens once the port is free to bind, and may die at any time.
ChildListens ==
    /\ ~PortTaken
    /\ \E c \in children : ~c.dying /\ children' = (children \ {c}) \cup {[c EXCEPT !.up = TRUE]}
    /\ UNCHANGED <<backendPid, switch, gate, life, thread>>

ChildDies ==
    /\ \E c \in children : children' = children \ {c}
    /\ UNCHANGED <<backendPid, switch, gate, life, thread>>

Subroutine(x) == Stop(x) \/ Kill(x) \/ Start(x) \/ Record(x)
Rollback(x) == Restore(x) \/ MayStart(x) \/ ClearSelection(x)

HandlerStep(h) ==
    \/ CheckIdle(h) \/ Differs(h) \/ Claim(h) \/ LockSelection(h) \/ Unlock(h)
    \/ CommitVirtual(h) \/ Restart(h) \/ Restarted(h) \/ Rename(h) \/ Started(h)
    \/ ChatProbe(h) \/ ChatEnter(h) \/ ChatLeave(h)
    \/ VisionGate(h) \/ VisionPause(h) \/ VisionSession(h) \/ VisionAnalyzed(h)
    \/ VisionRelease(h) \/ VisionUngate(h) \/ Quit(h) \/ Close(h)
    \/ Subroutine(h) \/ Rollback(h)

WatchdogStep ==
    \/ WatchStopping \/ WatchPoll \/ WatchTimeout \/ WatchCommit
    \/ Subroutine(Watchdog) \/ Rollback(Watchdog)

MainStep == MainStop \/ Subroutine(Main) \/ Exit

Next ==
    \/ \E h \in Handlers : Receive(h) \/ HandlerStep(h)
    \/ WatchdogStep
    \/ Signal \/ MainStep
    \/ ChildListens \/ ChildDies

\* Threads keep running: every wait in them has a deadline.
Spec ==
    /\ Init /\ [][Next]_vars
    /\ \A h \in Handlers : WF_vars(HandlerStep(h))
    /\ WF_vars(WatchdogStep)

(***************************************************************************)
(* Properties.                                                             *)
(***************************************************************************)
\* Every variable keeps its type; g->generating never goes below zero.
TypeOK ==
    /\ backend \in Backends \cup {Molmo} /\ file \in Backends \cup {Molmo}
    /\ backendPid \in Pids \cup {None}
    /\ \A c \in children : c.pid \in Pids /\ c.up \in BOOLEAN /\ c.dying \in BOOLEAN
    /\ active \in Backends \cup {None} /\ lock \in Handlers \cup {None}
    /\ generating \in 0 .. Cardinality(Handlers)
    /\ specialist \in BOOLEAN /\ session \in {"none", "resident", "cancelled"}
    /\ stopping \in BOOLEAN /\ gateway \in {"up", "draining", "closing", "down"}

\* Two chat models are never resident at once: the old one is gone, or told to go,
\* before backend_start forks the next.
Resident == {c \in children : ~c.dying}
OneBackend == Cardinality(Resident) <= 1

\* No child is lost while the gateway runs: one that was not told to end is the recorded
\* one, or a thread is about to record it.
Tracked ==
    gateway # "down" =>
        \A c \in Resident :
            \/ c.pid = backendPid
            \/ \E x \in Threads : thread[x].pc = "record" /\ thread[x].pid = c.pid

\* Whenever no switch is under way the gateway is on the backend that the selection file
\* names, so a restart never contradicts the live process, however a switch ended.
SettledAgrees == active = None /\ lock = None /\ ~stopping => backend = file

\* The generation gate: g->generating counts the generations under way, and none runs
\* during a visual turn; the counter never goes below zero (TypeOK).
Generations == {h \in Handlers : thread[h].pc = "generate"}
GateExclusive ==
    /\ TypeOK
    /\ gateway # "down" =>
          generating = Cardinality(Generations) /\ (specialist => Generations = {})

\* A visual turn that paused the chat model has the memory to itself: no chat model is
\* resident beside its helper.
OneDecoder ==
    \A h \in Handlers : thread[h].paused /\ thread[h].pc = "analyze" /\ session = "resident"
                        => Resident = {}

\* Closing the gateway leaves no model process behind.
NothingLeft == gateway = "down" => children = {}

\* Every accepted switch is settled one day, to success or to a completed rollback.
SwitchSettles == active # None ~> active = None

\* The generation gate opens again after every visual turn.
GateOpens == specialist ~> ~specialist
=============================================================================
