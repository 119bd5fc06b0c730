---------------------------- MODULE MCInstallJobs ----------------------------
(***************************************************************************)
(* Small instances of InstallJobs.  Workers are interchangeable, and so    *)
(* are job ids and models.                                                 *)
(***************************************************************************)
EXTENDS InstallJobs, TLC

Symmetry == Permutations(Workers) \cup Permutations(JobIds) \cup Permutations(Models)
=============================================================================
