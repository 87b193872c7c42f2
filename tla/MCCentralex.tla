---------------------------- MODULE MCCentralex ----------------------------
(* Instances of Centralex for TLC; the values are in the .cfg files. *)
EXTENDS Centralex, TLC
=============================================================================
