------------------------------- MODULE ShimQueue ------------------------------
(***************************************************************************)
(* The struct virtqueue that linuxkpi gives to Linux drivers (vq_add,      *)
(* virtqueue_kick and virtqueue_get_buf of linuxkpi/src/virtio.rs), over   *)
(* the kernel's Virtqueue: a token for each descriptor, which get_buf      *)
(* returns to the driver, and a num_free of its own, which counts a chain  *)
(* of any length as one descriptor when it comes back.                     *)
(*                                                                         *)
(* The driver's token for a request is the request itself.  A driver's     *)
(* calls do not overlap: queue callbacks are not invoked.                  *)
(***************************************************************************)
EXTENDS Virtqueue

CONSTANT NULL       \* the token of a descriptor that heads no request

ASSUME NullAssumption == NULL \notin Parts

VARIABLES
    tokens,         \* ShimVirtqueueState: the token of each head, or NULL
    vq_num_free     \* num_free of struct virtqueue

shimVars == <<tokens, vq_num_free>>

ShimInit ==
    /\ VirtqInit
    /\ tokens = [s \in Slots |-> NULL]
    /\ vq_num_free = QueueSize

(* The end of vq_add, where it takes a number off num_free (saturating),    *)
(* and virtqueue_kick.                                                      *)
VqAddWith(num) ==
    /\ Notify
    /\ tokens' = [tokens EXCEPT ![indices[1]] = parts]
    /\ vq_num_free' = IF num <= vq_num_free THEN vq_num_free - num ELSE 0

(* Mutant of VqAdd: a chain counts as one descriptor.                       *)
VqAddCountsOne == VqAddWith(1)

VqAdd == VqAddWith(Len(parts))

(* virtqueue_get_buf, where it has the id of the used element.              *)
GetBuf ==
    /\ ReadElement
    /\ tokens' = [tokens EXCEPT ![cur'] = NULL]
    /\ vq_num_free' = vq_num_free + 1

ShimDriver ==
    \/ VqAdd \/ GetBuf
    \/ (Fill \/ StoreRing \/ StoreIdx \/ FreeDescriptor) /\ UNCHANGED shimVars

ShimNext ==
    \/ ShimDriver
    \/ (Push \/ PopUsed \/ VirtqDevice) /\ UNCHANGED shimVars

(* The device finishes what it takes, and every driver polls the used ring  *)
(* again and again: virtio_blk::smoke, virtio_gpu::submit and the balloon   *)
(* in their waiting loops, virtio_net at every poll of net::poll_loop.      *)
ShimSpec ==
    /\ ShimInit /\ [][ShimNext]_<<virtqVars, shimVars>>
    /\ WF_virtqVars(ShimDriver) /\ SF_virtqVars(PopUsed)
    /\ WF_virtqVars(TakeHead) /\ WF_virtqVars(ReadDescriptor)
    /\ \A h \in Slots : SF_virtqVars(Complete(h))

-----------------------------------------------------------------------------
(* Every request with the device has a token at its head, the one it was    *)
(* added with, and no other descriptor has one, so virtqueue_get_buf        *)
(* returns each request's token once, whatever the order of completion; and *)
(* num_free of struct virtqueue, which drifts, never promises a Linux       *)
(* driver a descriptor that is not free.                                    *)
ShimMatchesQueue ==
    LET added == IF vpc = "notify" THEN InFlight \ {indices[1]} ELSE InFlight
    IN /\ {s \in Slots : tokens[s] # NULL} = added
       /\ \A s, t \in added : s # t => Range(tokens[s]) \cap Range(tokens[t]) = {}
       /\ vpc = "notify" => Request(indices[1]) = parts
       /\ vpc = "idle" => vq_num_free <= num_free
=============================================================================
