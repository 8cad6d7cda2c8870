-------------------------- MODULE MCDashboardCache --------------------------
(* Instances of DashboardCache for TLC. *)
EXTENDS DashboardCache, TLC

\* Readers are interchangeable, and so are writers.
ActorSymmetry == Permutations(Readers) \cup Permutations(Writers)
=============================================================================
