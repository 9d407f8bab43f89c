----------------------------- MODULE AssetTable -----------------------------
(* What the rest of the provider sees of the index: the status of each row   *)
(* of "assets", of which one statement adds some and another marks some      *)
(* missing.  Module AssetIndex implements it, with rescans that overlap,     *)
(* fail and crash; module Announcer relies on nothing else.                  *)

CONSTANT Assets
VARIABLE status   \* status[a]: "none" when there is no row

Init == status \in [Assets -> {"none", "active"}]

\* the rows of S become active (UpsertAssets), or missing (MarkMissing)
Change(S, st) ==
  /\ S # {}
  /\ \A a \in S : IF st = "active" THEN status[a] # "active" ELSE status[a] = "active"
  /\ status' = [a \in Assets |-> IF a \in S THEN st ELSE status[a]]

Next == \E S \in SUBSET Assets, st \in {"active", "missing"} : Change(S, st)

Spec == Init /\ [][Next]_status
=============================================================================
