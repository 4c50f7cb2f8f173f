----------------------------- MODULE MCVirtqueue -----------------------------
(* Virtqueue under the queue of the Linux drivers, for TLC.                 *)
EXTENDS ShimQueue
=============================================================================
