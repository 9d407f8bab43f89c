----------------------------- MODULE MCBackoff ------------------------------
(* Retries for a range of configurations, also with a base above the maximum. *)
EXTENDS Retries

CONSTANTS MaxBase, MaxMax  \* bounds: durations tried for base and max

MCConfigs == [base: 1 .. MaxBase, max: 1 .. MaxMax, rejected: {7}, unauthorized: {3}]

\* the closed form's powers are those of the arithmetic
ASSUME PowersAssumption == \A n \in 0 .. MaxStreak : Power2[n] = 2 ^ n
=============================================================================
