---------------------------- MODULE MCLifecycle -----------------------------
(* Instances of Lifecycle for TLC. *)
EXTENDS Lifecycle, TLC

CONSTANTS rescan, sweep, cleanup, r1, r2

MCJobs == {rescan, sweep, cleanup}
MCRequests == {r1, r2}
=============================================================================
