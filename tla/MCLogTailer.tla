---------------------------- MODULE MCLogTailer ----------------------------
(* LogTailer for TLC.                                                      *)
EXTENDS LogTailer, TLC
============================================================================
