----------------------------- MODULE MCVirtioNet -----------------------------
(* VirtioNet for TLC.                                                       *)
EXTENDS VirtioNet
=============================================================================
