--------------------------- MODULE MCCommandQueue ---------------------------
(***************************************************************************)
(* A small instance of the command queue for TLC.                          *)
(***************************************************************************)
EXTENDS CommandQueue, TLC

\* The clock runs long enough for every command to expire.
ASSUME ClockAssumption == LastEnqueue + TTL <= MaxTime

\* For safety runs only.
Symmetry == Permutations(Cmds) \cup Permutations(Handlers)
=============================================================================
