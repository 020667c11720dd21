---------------------------- MODULE MCBatchRunner -----------------------------
(***************************************************************************)
(* A small instance of the batch runner for TLC: a push node and an uplink *)
(* node, and one goroutine at a time, so that the semaphore bites.         *)
(***************************************************************************)
EXTENDS BatchRunner

CONSTANTS n1, n2

MCRequests == {<<"apply", {n1, n2}>>, <<"start", {n1, n2}>>, <<"stop", {n1}>>}

FairSpec == BatchInit /\ [][BatchNext]_batchVars /\ BatchFairness
=============================================================================
