--------------------------- MODULE MCBackendControl ---------------------------
(***************************************************************************)
(* Small instances of BackendControl.  Which requests occur is a constant  *)
(* of each run.                                                            *)
(***************************************************************************)
EXTENDS BackendControl, TLC

Symmetry == Permutations(Backends) \cup Permutations(Handlers) \cup Permutations(Pids)

Switching == {"select", "virtual", "runtime", "shutdown", "signal"}
Visual == {"vision", "chat", "signal"}
VisualSwitching == {"vision", "select"}
SelectingSignal == {"select", "signal"}
=============================================================================
