--------------------------- MODULE MCInstanceSlot ---------------------------
(* Small instances of InstanceSlot for TLC: the thread and pid sets are sets *)
(* of model values given in the .cfg files.                                  *)
EXTENDS InstanceSlot, TLC

\* Threads of one kind, and pids, are interchangeable (safety runs only).
Interchangeable == Permutations(Users) \cup Permutations(Wakers) \cup Permutations(Pids)
=============================================================================
