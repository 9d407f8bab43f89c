------------------------------ MODULE Backoff -------------------------------
(***************************************************************************)
(* The announce backoff: how an error of the catalog is classed, and how   *)
(* long the sweep then leaves an asset alone.  Times are natural numbers   *)
(* (ticks).  A missing map entry and the zero BackoffEntry behave alike in *)
(* every method, so the map is a total function onto entries.  Durations   *)
(* do not wrap: with a maximum above 2^62 ns, 146 years, delay *= 2 could. *)
(***************************************************************************)
EXTENDS Integers

\* durations; NewBackoffState replaces what is not positive by a default
BackoffConfigs == [base: Nat \ {0}, max: Nat \ {0},
                   rejected: Nat \ {0}, unauthorized: Nat \ {0}]

Entries == [failCount: Nat, next: Nat]

NoEntry == [failCount |-> 0, next |-> 0]

Classes == {"ok", "rejected", "unauthorized", "permanent", "transient"}

\* the classes whose failures in a row are counted
Counted == {"permanent", "transient"}

Errors == {"nil", "ErrBadRequest", "ErrUnauthorized", "ErrNotFound",
           "ErrConflict", "ErrServer", "ErrUnexpected", "other"}

\* mutant: an asset may be tried one tick early
CanAttemptEarly(entry, now) == entry.next <= now + 1

CanAttempt(entry, now) == entry.next <= now

AtMost(d, max) == IF d > max THEN max ELSE d

\* the loop of NextAttempt: base, doubled i times, stopped at max
Delays(cfg) ==
  LET delay[i \in Nat] ==
        IF i = 0 THEN cfg.base
        ELSE IF delay[i - 1] >= cfg.max THEN cfg.max
        ELSE AtMost(2 * delay[i - 1], cfg.max)
  IN  delay

Doubled(cfg, failCount) == Delays(cfg)[IF failCount < 1 THEN 0 ELSE failCount - 1]

\* mutant: the jitter is added after the limit was applied
NextAttemptUnlimited(cfg, now, failCount) ==
  LET delay == Doubled(cfg, failCount)
  IN  {now + AtMost(delay, cfg.max) + extra : extra \in 0 .. (delay \div 4)}

\* the times NextAttempt may return: up to a quarter more, but never beyond max
NextAttempt(cfg, now, failCount) ==
  LET delay == Doubled(cfg, failCount)
  IN  {now + AtMost(delay + extra, cfg.max) : extra \in 0 .. (delay \div 4)}

\* mutant: a permanent failure starts the count again
RecordResetting(cfg, entry, class, now) ==
  CASE class = "ok" -> {NoEntry}
    [] class = "rejected" -> {[failCount |-> 0, next |-> now + cfg.rejected]}
    [] class = "unauthorized" -> {[failCount |-> 0, next |-> now + cfg.unauthorized]}
    [] class = "permanent" -> {[failCount |-> 0, next |-> now + cfg.max]}
    [] OTHER -> {[failCount |-> entry.failCount + 1, next |-> t] :
                   t \in NextAttempt(cfg, now, entry.failCount + 1)}

\* mutant: a new wait starts where the last one ends
RecordAccumulating(cfg, entry, class, now) ==
  CASE class = "ok" -> {NoEntry}
    [] class = "rejected" -> {[failCount |-> 0, next |-> now + entry.next + cfg.rejected]}
    [] class = "unauthorized" -> {[failCount |-> 0, next |-> now + cfg.unauthorized]}
    [] class = "permanent" -> {[failCount |-> entry.failCount + 1, next |-> now + cfg.max]}
    [] OTHER -> {[failCount |-> entry.failCount + 1, next |-> t] :
                   t \in NextAttempt(cfg, now, entry.failCount + 1)}

\* the entries Record may leave
Record(cfg, entry, class, now) ==
  CASE class = "ok" -> {NoEntry}
    [] class = "rejected" -> {[failCount |-> 0, next |-> now + cfg.rejected]}
    [] class = "unauthorized" -> {[failCount |-> 0, next |-> now + cfg.unauthorized]}
    [] class = "permanent" -> {[failCount |-> entry.failCount + 1, next |-> now + cfg.max]}
    [] OTHER -> {[failCount |-> entry.failCount + 1, next |-> t] :
                   t \in NextAttempt(cfg, now, entry.failCount + 1)}

ClassifyError(err) ==
  CASE err = "nil" -> "ok"
    [] err = "ErrNotFound" -> "rejected"
    [] err = "ErrUnauthorized" -> "unauthorized"
    [] err \in {"ErrBadRequest", "ErrConflict"} -> "permanent"
    [] OTHER -> "transient"

\* an error of Announce by the status of the reply
statusError(status) ==
  CASE status = 400 -> "ErrBadRequest"
    [] status \in {401, 403} -> "ErrUnauthorized"
    [] status = 404 -> "ErrNotFound"
    [] status = 409 -> "ErrConflict"
    [] status >= 500 -> "ErrServer"
    [] OTHER -> "ErrUnexpected"

AnnounceError(status) ==
  IF status \in 200 .. 299 THEN "nil" ELSE statusError(status)

-----------------------------------------------------------------------------
(* The schedule the loop is meant to compute, in closed form. *)

Power2[n \in Nat] == IF n = 0 THEN 1 ELSE 2 * Power2[n - 1]

\* the wait without jitter after so many failures in a row
LeastDelay(cfg, failures) == AtMost(cfg.base * Power2[failures - 1], cfg.max)
=============================================================================
