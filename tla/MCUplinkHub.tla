---------------------------- MODULE MCUplinkHub -----------------------------
(***************************************************************************)
(* A small instance of the uplink hub for TLC.                             *)
(***************************************************************************)
EXTENDS UplinkHub, TLC
=============================================================================
