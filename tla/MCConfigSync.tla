---------------------------- MODULE MCConfigSync ----------------------------
(***************************************************************************)
(* A small instance of configuration delivery for TLC.                     *)
(***************************************************************************)
EXTENDS ConfigSync, TLC
=============================================================================
