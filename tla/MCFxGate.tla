------------------------------- MODULE MCFxGate -------------------------------
(* FxGate with a main thread, which saves, restores, resets and rewinds, and *)
(* a worker that iterates, sorts, kills, allocates and restores.             *)
EXTENDS FxGate

CONSTANTS main, worker

MCMayDo ==
  [t \in Threads |->
     IF t = main THEN {"rewind", "save", "restore", "reset"}
     ELSE {"iterate", "try", "sort", "kill", "allocate", "restore"}]

=============================================================================
