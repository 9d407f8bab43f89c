------------------------------ MODULE Retries -------------------------------
(***************************************************************************)
(* The backoff entry of one asset under every sequence of outcomes, with a *)
(* configuration chosen at the start.  Record is given the time at which   *)
(* its sweep began; nothing is assumed of the order of these times.        *)
(***************************************************************************)
EXTENDS Backoff

CONSTANTS
  Configs,     \* backoff configurations, as NewBackoffState leaves them
  Times,       \* times a sweep may begin at
  Replies,     \* HTTP statuses the catalog answers with
  MaxStreak    \* bound: failures in a row

ASSUME RetriesAssumption ==
  /\ Configs \subseteq BackoffConfigs
  /\ Times \subseteq Nat
  /\ Replies \subseteq Nat
  /\ MaxStreak \in Nat

VARIABLES
  cfg, entry,
  \* history, read by no action of the system
  last,        \* the error of the last outcome
  recorded,    \* the time Record was last given
  streak       \* failures in a row that count

retryVars == <<cfg, entry, last, recorded, streak>>

RetryInit ==
  /\ cfg \in Configs
  /\ entry = NoEntry
  /\ last = "nil"
  /\ recorded = 0
  /\ streak = 0

RecordOutcome(err, now) ==
  LET class == ClassifyError(err) IN
  /\ entry' \in Record(cfg, entry, class, now)
  /\ last' = err
  /\ recorded' = now
  /\ streak' = IF class \in Counted THEN streak + 1 ELSE 0
  /\ streak' <= MaxStreak
  /\ UNCHANGED cfg

\* Announce ends with a reply, or with an error that is none of the catalog's
RetryNext ==
  \E now \in Times :
    \/ \E status \in Replies : RecordOutcome(AnnounceError(status), now)
    \/ RecordOutcome("other", now)

RetrySpec == RetryInit /\ [][RetryNext]_retryVars

-----------------------------------------------------------------------------
\* BackoffSchedule.  After k failures in a row the asset waits min(max, base *
\* 2^(k-1)), plus at most a quarter and never more than max; a malformed or
\* conflicting request waits max; not found and unauthorized wait their own
\* configured time; success clears the entry (NextAttempt, Record, ClassifyError
\* and statusError together).
BackoffSchedule ==
  LET due == LeastDelay(cfg, streak) IN
  CASE last = "nil" -> entry = NoEntry
    [] last = "ErrNotFound" -> entry.next = recorded + cfg.rejected
    [] last = "ErrUnauthorized" -> entry.next = recorded + cfg.unauthorized
    [] last \in {"ErrBadRequest", "ErrConflict"} -> entry.next = recorded + cfg.max
    [] OTHER -> /\ recorded + due <= entry.next
                /\ entry.next <= recorded + AtMost((5 * due) \div 4, cfg.max)

\* NeverRetriesSooner.  A failure that follows a failure never shortens the
\* least wait: FailCount survives permanent failures and grows with each one
\* (Record keeps the entry's count).
NeverRetriesSooner ==
  [][(streak > 0 /\ streak' > streak) =>
       entry'.next >= recorded' + LeastDelay(cfg, streak)]_retryVars

\* RetryInv.  The inductive invariant: the entry's FailCount is the number of
\* failures in a row, whatever their classes, and its wait follows the schedule
\* (Record).
RetryInv ==
  /\ cfg \in Configs
  /\ entry \in Entries
  /\ last \in Errors
  /\ recorded \in Nat
  /\ streak \in Nat
  /\ entry.failCount = streak
  /\ ClassifyError(last) \in Counted <=> streak > 0
  /\ BackoffSchedule
=============================================================================
