------------------------ MODULE MCPopulationLifecycle ------------------------
(***************************************************************************)
(* A small instance of PopulationLifecycle.                                *)
(***************************************************************************)
EXTENDS PopulationLifecycle, TLC

\* Threads and people are interchangeable.
Symmetric == Permutations(Thread) \cup Permutations(Persona)
==============================================================================
