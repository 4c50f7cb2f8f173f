------------------------------ MODULE Virtqueue ------------------------------
(***************************************************************************)
(* The split virtqueue of arsenal-kernel/src/virtio.rs: the descriptor     *)
(* table with its free chain, the available ring and the used ring, all in *)
(* memory the device reads and writes while the driver runs.               *)
(*                                                                         *)
(* A driver owns its queue exclusively (&mut self), so its calls do not    *)
(* overlap; the device runs beside it.  Every access the two sides can see *)
(* of each other is a step, in program order, which is the order x86 keeps *)
(* (the comment above VIRTQ_DESC_F_NEXT).  push_descriptor makes the same  *)
(* accesses as push_chain with one part and is modelled by it.             *)
(*                                                                         *)
(* A buffer stands for an (addr, len, flags) tuple; of the flags only      *)
(* F_NEXT is kept apart, as the field more of a descriptor.                *)
(***************************************************************************)
EXTENDS Integers, Sequences, FiniteSets, Functions

CONSTANTS
    QueueSize,  \* descriptors, and entries of each ring
    IdxMod,     \* the ring indices count modulo this (2^16 in the code)
    MaxChain,   \* the longest chain a driver pushes
    Bufs,       \* the buffers of the driver
    NoBuf       \* the zero address of a descriptor not used yet

ASSUME SizeAssumption ==
    /\ QueueSize \in Nat \ {0}
    /\ IdxMod \in Nat /\ IdxMod > QueueSize /\ IdxMod % QueueSize = 0
    /\ MaxChain \in Nat \ {0}
    /\ NoBuf \notin Bufs

Slots == 0 .. QueueSize - 1
Indices == 0 .. IdxMod - 1

VARIABLES
    desc,           \* the descriptor table
    avail,          \* the available ring, written by the driver
    used,           \* the used ring, written by the device
    free_head, num_free, last_used_idx,     \* fields of Virtqueue
    vpc,             \* where the driver is in push_chain or pop_used
    parts,          \* push_chain: its argument
    indices,        \* push_chain: the descriptors it took
    cur,            \* pop_used: the descriptor it frees next
    part,           \* push_chain: the part its second loop is at
    kicked,         \* device: it was notified since it last found avail empty
    last_avail_idx, \* device: the next entry of avail it reads
    walk,           \* device: what it has read of a chain, from its head
    taken           \* device: the requests it works on, by head

queueVars == <<free_head, num_free, last_used_idx>>
callVars == <<vpc, parts, indices, cur, part>>
deviceVars == <<kicked, last_avail_idx, walk, taken>>
virtqVars == <<desc, avail, used, queueVars, callVars, deviceVars>>

(* A device that is not reading a chain.                                    *)
NoWalk == [head |-> 0, at |-> 0, seen |-> <<>>, busy |-> FALSE]

(* wrapping_add on a u16.                                                   *)
NextIdx(i) == (i + 1) % IdxMod

(* The end of a call: its locals are gone.                                  *)
Return ==
    /\ vpc' = "idle"
    /\ parts' = <<>> /\ indices' = <<>> /\ cur' = 0 /\ part' = 1

(* Virtqueue::new: every descriptor is free, linked to the one after it.    *)
VirtqInit ==
    /\ desc = [s \in Slots |-> [addr |-> NoBuf, more |-> FALSE,
                                next |-> IF s = QueueSize - 1 THEN 0 ELSE s + 1]]
    /\ avail = [idx |-> 0, ring |-> [s \in Slots |-> 0]]
    /\ used = [idx |-> 0, ring |-> [s \in Slots |-> 0]]
    /\ free_head = 0
    /\ num_free = QueueSize
    /\ last_used_idx = 0
    /\ vpc = "idle"
    /\ parts = <<>>
    /\ indices = <<>>
    /\ cur = 0
    /\ part = 1
    /\ kicked = FALSE
    /\ last_avail_idx = 0
    /\ walk = NoWalk
    /\ taken = <<>>

-----------------------------------------------------------------------------
(* Reading the table d: the k-th descriptor after s, and the chain at h,    *)
(* cut at QueueSize descriptors.                                            *)
Follow(d, s, k) ==
    LET at[i \in 0 .. k] == IF i = 0 THEN s ELSE d[at[i - 1]].next
    IN at[k]

ChainIn(d, h) ==
    LET upTo[k \in 1 .. QueueSize] ==
          IF k = 1 THEN <<h>>
          ELSE LET c == upTo[k - 1]
                   last == d[c[Len(c)]]
               IN IF last.more THEN Append(c, last.next) ELSE c
    IN upTo[QueueSize]

Chain(h) == ChainIn(desc, h)
Request(h) == LET c == Chain(h) IN [i \in DOMAIN c |-> desc[c[i]].addr]

(* The entries of a ring from index i up to its idx, oldest first.          *)
Pending(ring, i) ==
    [k \in 1 .. (ring.idx - i) % IdxMod |-> ring.ring[((i + k - 1) % IdxMod) % QueueSize]]

Waiting == Pending(avail, last_avail_idx)
Done == Pending(used, last_used_idx)
InFlight == Range(Waiting) \cup DOMAIN taken \cup Range(Done)

FreeChain == [k \in 1 .. num_free |-> Follow(desc, free_head, k - 1)]

-----------------------------------------------------------------------------
(* The first loop of push_chain: descriptors off the head of the free       *)
(* chain, which only the driver reads.                                      *)
Collect(p) ==
    /\ vpc = "idle"
    /\ indices' = [k \in 1 .. Len(p) |-> Follow(desc, free_head, k - 1)]
    /\ free_head' = Follow(desc, free_head, Len(p))
    /\ num_free' = num_free - Len(p)
    /\ parts' = p
    /\ vpc' = "fill"
    /\ UNCHANGED <<desc, avail, used, last_used_idx, cur, part, deviceVars>>

(* push_chain; it returns None when the parts do not fit.                   *)
PushChain(p) ==
    /\ p # <<>> /\ Len(p) <= num_free
    /\ Collect(p)

(* One round of the loop that fills the descriptors and links them.         *)
Fill ==
    /\ vpc = "fill"
    /\ desc' = [desc EXCEPT ![indices[part]] =
         [addr |-> parts[part],
          more |-> part < Len(parts),
          next |-> IF part < Len(parts) THEN indices[part + 1] ELSE 0]]
    /\ part' = part + 1
    /\ vpc' = IF part < Len(parts) THEN "fill" ELSE "ring"
    /\ UNCHANGED <<avail, used, queueVars, parts, indices, cur, deviceVars>>

(* The head goes into the available ring, then avail.idx shows it.          *)
StoreRing ==
    /\ vpc = "ring"
    /\ avail' = [avail EXCEPT !.ring[avail.idx % QueueSize] = indices[1]]
    /\ vpc' = "publish"
    /\ UNCHANGED <<desc, used, queueVars, parts, indices, cur, part, deviceVars>>

StoreIdx ==
    /\ vpc = "publish"
    /\ avail' = [avail EXCEPT !.idx = NextIdx(avail.idx)]
    /\ vpc' = "notify"
    /\ UNCHANGED <<desc, used, queueVars, parts, indices, cur, part, deviceVars>>

(* Every caller rings the doorbell after a push.                            *)
Notify ==
    /\ vpc = "notify"
    /\ kicked' = TRUE
    /\ Return
    /\ UNCHANGED <<desc, avail, used, queueVars, last_avail_idx, walk, taken>>

-----------------------------------------------------------------------------
(* Mutant of PopUsed: the indices are compared as if they did not wrap.     *)
PopUsedPlain ==
    /\ vpc = "idle"
    /\ used.idx # last_used_idx
    /\ vpc' = IF used.idx > last_used_idx THEN "element" ELSE "idle"
    /\ UNCHANGED <<desc, avail, used, queueVars, parts, indices, cur, part, deviceVars>>

(* pop_used: the load of used.idx; it returns None when nothing is new.     *)
PopUsed ==
    /\ vpc = "idle"
    /\ used.idx # last_used_idx
    /\ vpc' = "element"
    /\ UNCHANGED <<desc, avail, used, queueVars, parts, indices, cur, part, deviceVars>>

ReadElement ==
    /\ vpc = "element"
    /\ cur' = used.ring[last_used_idx % QueueSize]
    /\ last_used_idx' = NextIdx(last_used_idx)
    /\ vpc' = "free"
    /\ UNCHANGED <<desc, avail, used, free_head, num_free, parts, indices, part, deviceVars>>

(* Mutant of FreeDescriptor: only the head of the chain is freed.           *)
FreeDescriptorHead ==
    /\ vpc = "free"
    /\ desc' = [desc EXCEPT ![cur].next = free_head]
    /\ free_head' = cur
    /\ num_free' = num_free + 1
    /\ Return
    /\ UNCHANGED <<avail, used, last_used_idx, deviceVars>>

(* Mutant of FreeDescriptor: it clears the address of a descriptor, but of  *)
(* the one at the head of the free chain.                                   *)
FreeDescriptorClears ==
    /\ vpc = "free"
    /\ desc' = [desc EXCEPT ![cur].next = free_head, ![free_head].addr = NoBuf]
    /\ free_head' = cur
    /\ num_free' = num_free + 1
    /\ IF desc[cur].more
       THEN cur' = desc[cur].next /\ UNCHANGED <<vpc, parts, indices, part>>
       ELSE Return
    /\ UNCHANGED <<avail, used, last_used_idx, deviceVars>>

(* One round of the loop that gives the chain's descriptors back.           *)
FreeDescriptor ==
    /\ vpc = "free"
    /\ desc' = [desc EXCEPT ![cur].next = free_head]
    /\ free_head' = cur
    /\ num_free' = num_free + 1
    /\ IF desc[cur].more
       THEN cur' = desc[cur].next /\ UNCHANGED <<vpc, parts, indices, part>>
       ELSE Return
    /\ UNCHANGED <<avail, used, last_used_idx, deviceVars>>

-----------------------------------------------------------------------------
(* The device: once notified it serves the available ring until it is       *)
(* empty.  It reads the head of the next available chain, then the chain    *)
(* descriptor by descriptor, and has the request.                           *)
TakeHead ==
    /\ kicked /\ ~ walk.busy
    /\ last_avail_idx # avail.idx
    /\ LET h == avail.ring[last_avail_idx % QueueSize]
       IN walk' = [head |-> h, at |-> h, seen |-> <<>>, busy |-> TRUE]
    /\ UNCHANGED <<desc, avail, used, queueVars, callVars, kicked, last_avail_idx, taken>>

ReadDescriptor ==
    /\ walk.busy
    /\ LET d == desc[walk.at]
           seen == Append(walk.seen, d.addr)
       IN IF d.more
          THEN /\ walk' = [walk EXCEPT !.at = d.next, !.seen = seen]
               /\ UNCHANGED <<last_avail_idx, taken>>
          ELSE /\ walk' = NoWalk
               /\ last_avail_idx' = NextIdx(last_avail_idx)
               /\ taken' = [h \in DOMAIN taken \cup {walk.head} |->
                            IF h = walk.head THEN seen ELSE taken[h]]
    /\ UNCHANGED <<desc, avail, used, queueVars, callVars, kicked>>

DeviceRests ==
    /\ kicked /\ ~ walk.busy
    /\ last_avail_idx = avail.idx
    /\ kicked' = FALSE
    /\ UNCHANGED <<desc, avail, used, queueVars, callVars, last_avail_idx, walk, taken>>

(* It finishes the requests in any order: an entry of the used ring, then   *)
(* used.idx.                                                                *)
Complete(h) ==
    /\ h \in DOMAIN taken
    /\ used' = [idx |-> NextIdx(used.idx),
                ring |-> [used.ring EXCEPT ![used.idx % QueueSize] = h]]
    /\ taken' = [g \in DOMAIN taken \ {h} |-> taken[g]]
    /\ UNCHANGED <<desc, avail, queueVars, callVars, kicked, last_avail_idx, walk>>

-----------------------------------------------------------------------------
(* What a driver may push: buffers that are not with the device.            *)
Parts == UNION {[1 .. n -> Bufs] : n \in 1 .. MaxChain}
Lent == UNION {Range(Request(h)) : h \in InFlight}
Pushable == {p \in Parts : IsInjective(p) /\ Range(p) \cap Lent = {}}

Push == \E p \in Pushable : PushChain(p)
VirtqCall ==
    \/ Fill \/ StoreRing \/ StoreIdx \/ Notify
    \/ ReadElement \/ FreeDescriptor
VirtqDevice == TakeHead \/ DeviceRests \/ ReadDescriptor \/ \E h \in DOMAIN taken : Complete(h)

VirtqNext == Push \/ PopUsed \/ VirtqCall \/ VirtqDevice

VirtqSpec == VirtqInit /\ [][VirtqNext]_virtqVars

-----------------------------------------------------------------------------
(* The descriptors the call in progress has to itself: those push_chain     *)
(* took and has not published, those pop_used has still to free.            *)
Own ==
    CASE vpc \in {"fill", "ring", "publish"} -> indices
      [] vpc = "free" -> Chain(cur)
      [] OTHER -> <<>>

(* Everything that holds descriptors: the first num_free links of the free  *)
(* chain, the call in progress, and each request on its way.                *)
Holders ==
    {[place |-> "free", nr |-> 0, chain |-> FreeChain],
     [place |-> "call", nr |-> 0, chain |-> Own]}
    \cup {[place |-> "waiting", nr |-> i, chain |-> Chain(Waiting[i])] : i \in DOMAIN Waiting}
    \cup {[place |-> "taken", nr |-> h, chain |-> Chain(h)] : h \in DOMAIN taken}
    \cup {[place |-> "done", nr |-> i, chain |-> Chain(Done[i])] : i \in DOMAIN Done}

(* Where descriptor s is, and at which link.                                *)
Uses(s) == UNION {{p} \X {k \in DOMAIN p.chain : p.chain[k] = s} : p \in Holders}

(* No descriptor is lost, freed twice or shared by two requests, and no     *)
(* ring is overrun: at every access of push_chain and pop_used, and for any *)
(* order of completions, each descriptor is in exactly one place: a link of *)
(* the free chain, the call in progress, or the chain of one request that   *)
(* is on its way once.                                                      *)
DescriptorsPartitioned == \A s \in Slots : Cardinality(Uses(s)) = 1

(* The queue implements the exchange: whatever the device reads while the   *)
(* driver pushes and frees, it takes the pushed requests in order and with  *)
(* their own buffers, and pop_used returns each one once, in the order of   *)
(* completion.                                                              *)
Exchange == INSTANCE VirtqExchange WITH
        Capacity <- QueueSize,
        Requests <- Parts,
        waiting <- [i \in DOMAIN Waiting |-> Request(Waiting[i])],
        held <- {taken[h] : h \in DOMAIN taken},
        done <- [i \in DOMAIN Done |-> Request(Done[i])]
QueueIsExchange == Exchange!Spec

(* Every chain handed to the device comes back through pop_used, whatever   *)
(* the wrap-around of the indices.                                          *)
EveryRequestReaped == \A h \in Slots : h \in InFlight ~> h \notin InFlight
=============================================================================
