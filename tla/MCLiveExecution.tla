---------------------------- MODULE MCLiveExecution ----------------------------
(* Instances of LiveExecution for TLC; the bounds are in the .cfg files.      *)
EXTENDS LiveExecution
================================================================================
