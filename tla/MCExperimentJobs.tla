-------------------------- MODULE MCExperimentJobs --------------------------
(***************************************************************************)
(* Small instances of ExperimentJobs.                                      *)
(***************************************************************************)
EXTENDS ExperimentJobs, TLC

\* Threads are interchangeable.
Symmetric == Permutations(Thread)
==============================================================================
