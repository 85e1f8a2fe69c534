----------------------------- MODULE MCLiveDemo ------------------------------
(***************************************************************************)
(* LiveDemo for TLC.                                                       *)
(***************************************************************************)
EXTENDS LiveDemo
=============================================================================
