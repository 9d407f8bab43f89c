----------------------------- MODULE AtomicFile -----------------------------
(***************************************************************************)
(* What FileStore.Save promises: the file changes from one whole value to  *)
(* another in one step, and what a power loss brings back is a value that  *)
(* was in place, or no file when none has reached the disk.                *)
(***************************************************************************)
CONSTANTS Values, NoFile

VARIABLES
  file,       \* what a reader finds
  durable     \* what it would find after a power loss

Init == file = NoFile /\ durable = NoFile

Replace == file' \in Values /\ UNCHANGED durable

WriteBack == durable' = file /\ UNCHANGED file

LosePower == file' = durable /\ UNCHANGED durable

Spec == Init /\ [][Replace \/ WriteBack \/ LosePower]_<<file, durable>>
=============================================================================
