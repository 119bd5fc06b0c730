----------------------------- MODULE ModelStore -----------------------------
(***************************************************************************)
(* The browser-managed files of the MOSS voice                             *)
(* (moss/browser_model_store.js) and the preparation of the voice          *)
(* (prepareBrowserTtsModel of src/assets/app.html, ensurePrepared of       *)
(* moss/browser_onnx_host.js).                                             *)
(*                                                                         *)
(* The files belong to the origin: every tab sees the same ones, and they  *)
(* outlive a tab that is closed or dies.  A file that is opened for writing *)
(* exists at once, empty if it is new, and gets its new content when the    *)
(* writer is closed; a writer that is aborted or lost leaves it as it was. *)
(*                                                                         *)
(* Files are numbered in the order of MODEL_REPOS.  A download fails as a  *)
(* whole: a repository tree, a response or a body that does not come.      *)
(***************************************************************************)
EXTENDS Naturals

CONSTANTS
    NFiles,         \* the required files of all repositories
    Tabs,
    MaxCrashes      \* tabs closed or lost while they prepare

VARIABLES
    file,       \* [1 .. NFiles -> {"absent", "empty", "good"}]
    prep,       \* [Tabs -> where ensurePrepared awaits]
    at,         \* [Tabs -> the file it is at]
    crashes

vars == <<file, prep, at, crashes>>

Files == 1 .. NFiles

TypeOK ==
    /\ file \in [Files -> {"absent", "empty", "good"}]
    /\ prep \in [Tabs -> {"idle", "check", "fetch", "write", "load", "ready"}]
    /\ at \in [Tabs -> 1 .. NFiles + 1]
    /\ crashes \in 0 .. MaxCrashes

Init ==
    /\ file = [f \in Files |-> "absent"]
    /\ prep = [t \in Tabs |-> "idle"]
    /\ at = [t \in Tabs |-> 1]
    /\ crashes = 0

GoTo(t, where, f) ==
    /\ prep' = [prep EXCEPT ![t] = where]
    /\ at' = [at EXCEPT ![t] = f]

\* prepareBrowserTtsModel: one preparation of a tab at a time, again after
\* one that failed.
Prepare(t) ==
    /\ prep[t] = "idle"
    /\ GoTo(t, "check", 1)
    /\ UNCHANGED <<file, crashes>>

\* hasCompleteExternalModelSet looks whether the files are there, one by one.
\* The first one that is not has all of them downloaded.
Check(t) ==
    /\ prep[t] = "check"
    /\ IF at[t] > NFiles
       THEN GoTo(t, "load", 1)
       ELSE IF file[at[t]] = "absent"
       THEN GoTo(t, "fetch", 1)
       ELSE GoTo(t, "check", at[t] + 1)
    /\ UNCHANGED <<file, crashes>>

\* Mutant of Opened: every file is created before the first is written.
Opened_all(S) == [f \in Files |-> IF file[f] = "absent" THEN "empty" ELSE file[f]]

\* Files opened for writing: the ones that were not there are there now.
Opened(S) ==
    [f \in Files |-> IF f \in S /\ file[f] = "absent" THEN "empty" ELSE file[f]]

\* downloadRepoFiles has the response; writeResponseToFile opens the file.
Fetch(t) ==
    /\ prep[t] = "fetch"
    /\ GoTo(t, "write", at[t])
    /\ file' = Opened({at[t]})
    /\ UNCHANGED crashes

\* The body is written and the file closed.
Close(t) ==
    /\ prep[t] = "write"
    /\ file' = [file EXCEPT ![at[t]] = "good"]
    /\ IF at[t] = NFiles THEN GoTo(t, "load", 1) ELSE GoTo(t, "fetch", at[t] + 1)
    /\ UNCHANGED crashes

\* warmup of the runtime reads what it needs, and works only on good files.
Load(t) ==
    /\ prep[t] = "load"
    /\ \A f \in Files : file[f] = "good"
    /\ GoTo(t, "ready", 1)
    /\ UNCHANGED <<file, crashes>>

\* An answer, a write or the warm-up fails: the preparation is over, and what
\* it has left behind stays.
Fail(t) ==
    /\ prep[t] \in {"fetch", "write", "load"}
    /\ GoTo(t, "idle", 1)
    /\ UNCHANGED <<file, crashes>>

\* A tab is closed or dies while it prepares, and is opened again.
Crash(t) ==
    /\ prep[t] \notin {"idle", "ready"}
    /\ crashes < MaxCrashes
    /\ crashes' = crashes + 1
    /\ GoTo(t, "idle", 1)
    /\ UNCHANGED file

\* The steps that a preparation takes by itself.
Step(t) == Check(t) \/ Fetch(t) \/ Close(t) \/ Load(t) \/ Fail(t)

Next == \E t \in Tabs : Prepare(t) \/ Step(t) \/ Crash(t)
=============================================================================
