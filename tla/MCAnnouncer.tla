---------------------------- MODULE MCAnnouncer -----------------------------
(* Small instances of Announcer for TLC. *)
EXTENDS Announcer

\* lastErr, sweptAt and deferred are only ever written: states that differ in
\* them alone have the same futures
View == <<clock, asset, tableVars, backoff, workerVars, wire, cutoff, rescans, faults,
          accepted, goneAt, failure>>
=============================================================================
