------------------------------ MODULE VirtioNet ------------------------------
(***************************************************************************)
(* The virtio-net driver of arsenal-kernel/src/virtio_net.rs under its     *)
(* caller, smoltcp: who owns each receive and transmit buffer while the    *)
(* device reads and writes them by DMA.                                    *)
(*                                                                         *)
(* The two queues are the exchange that module Virtqueue implements, with  *)
(* one descriptor per request; what matters here is the id a buffer gets   *)
(* from the LIFO free chain, since desc_to_buf and in_flight are indexed   *)
(* by it.  The driver runs under the NET mutex, the device beside it.      *)
(***************************************************************************)
EXTENDS Integers, Sequences, FiniteSets, Functions

CONSTANTS
    Size,       \* QUEUE_SIZE, the descriptors of each queue
    TxBoxes,    \* the heap blocks TxBuffers are allocated in
    Frames,     \* contents of received frames
    Nothing     \* the None of an Option

ASSUME BuffersAssumption ==
    /\ Size \in Nat \ {0}
    /\ Cardinality(TxBoxes) > Size      \* the heap does not run out
    /\ Nothing \notin TxBoxes /\ Nothing \notin Frames

Ids == 0 .. Size - 1
RxBufs == 0 .. Size - 1

VARIABLES
    rxFree, txFree,     \* the free chains, head first
    rxPosted,           \* id -> receive buffer, for the ids the device has
    rxUsed,             \* [id, frame] of the used ring entries not popped
    bytes,              \* what each receive buffer contains
    desc_to_buf,        \* RxState
    txPosted,           \* id -> heap block, for the ids the device has
    txUsed,             \* ids of the used ring entries not popped
    in_flight,          \* TxState: id -> heap block or Nothing
    pc,                 \* where the driver is
    token,              \* the receive buffer of VirtioNetRxToken, or Nothing
    due,                \* the frame that the token's used entry announced
    id,                 \* the id push_descriptor returned, before it is recorded
    tx_buf              \* the TxBuffer that consume holds, or Nothing

rxVars == <<rxFree, rxPosted, rxUsed, bytes, desc_to_buf>>
txVars == <<txFree, txPosted, txUsed, in_flight>>
nicVars == <<rxVars, txVars, pc, token, due, id, tx_buf>>

(* VirtioNet::new: every receive buffer is posted, in the order of the free *)
(* chain; nothing is in flight on the transmit queue.                       *)
NicInit ==
    /\ rxFree = <<>>
    /\ txFree = [i \in 1 .. Size |-> i - 1]
    /\ rxPosted = [i \in Ids |-> i]
    /\ rxUsed = <<>>
    /\ bytes = [b \in RxBufs |-> Nothing]
    /\ desc_to_buf = [i \in Ids |-> i]
    /\ txPosted = <<>>
    /\ txUsed = <<>>
    /\ in_flight = [i \in Ids |-> Nothing]
    /\ pc = "idle"
    /\ token = Nothing /\ due = Nothing
    /\ id = 0
    /\ tx_buf = Nothing

Without(f, i) == Restrict(f, DOMAIN f \ {i})
With(f, i, v) == [j \in DOMAIN f \cup {i} |-> IF j = i THEN v ELSE f[j]]

-----------------------------------------------------------------------------
(* Device::receive and Device::transmit begin with tx_reap.                 *)
Receive ==
    /\ pc = "idle"
    /\ pc' = "reap_rx"
    /\ UNCHANGED <<rxVars, txVars, token, due, id, tx_buf>>

Transmit ==
    /\ pc = "idle"
    /\ pc' = "reap_tx"
    /\ UNCHANGED <<rxVars, txVars, token, due, id, tx_buf>>

(* One round of tx_reap: pop_used, and the block of that id is freed.       *)
TxReap ==
    /\ pc \in {"reap_rx", "reap_tx"}
    /\ txUsed # <<>>
    /\ txFree' = <<Head(txUsed)>> \o txFree
    /\ txUsed' = Tail(txUsed)
    /\ in_flight' = [in_flight EXCEPT ![Head(txUsed)] = Nothing]
    /\ UNCHANGED <<rxVars, txPosted, pc, token, due, id, tx_buf>>

(* receive goes on: None when no frame is there, else the token for the     *)
(* buffer of the popped id.                                                 *)
RxEmpty ==
    /\ pc = "reap_rx" /\ txUsed = <<>>
    /\ rxUsed = <<>>
    /\ pc' = "idle"
    /\ UNCHANGED <<rxVars, txVars, token, due, id, tx_buf>>

(* Mutant of RxPop: the buffer is posted again before it is read.           *)
RxPopPostsFirst ==
    /\ pc = "reap_rx" /\ txUsed = <<>>
    /\ rxUsed # <<>>
    /\ LET e == Head(rxUsed)
       IN /\ rxPosted' = With(rxPosted, e.id, desc_to_buf[e.id])
          /\ token' = desc_to_buf[e.id]
          /\ due' = e.frame
    /\ rxUsed' = Tail(rxUsed)
    /\ pc' = "frame"
    /\ UNCHANGED <<rxFree, bytes, desc_to_buf, txVars, id, tx_buf>>

RxPop ==
    /\ pc = "reap_rx" /\ txUsed = <<>>
    /\ rxUsed # <<>>
    /\ LET e == Head(rxUsed)
       IN /\ rxFree' = <<e.id>> \o rxFree
          /\ token' = desc_to_buf[e.id]
          /\ due' = e.frame
    /\ rxUsed' = Tail(rxUsed)
    /\ pc' = "frame"
    /\ UNCHANGED <<rxPosted, bytes, desc_to_buf, txVars, id, tx_buf>>

(* transmit goes on: no token when the queue is full.                       *)
TxToken ==
    /\ pc = "reap_tx" /\ txUsed = <<>>
    /\ pc' = IF txFree = <<>> THEN "idle" ELSE "send"
    /\ UNCHANGED <<rxVars, txVars, token, due, id, tx_buf>>

-----------------------------------------------------------------------------
Alive == (Range(in_flight) \cup {tx_buf}) \ {Nothing}

(* VirtioNetTxToken::consume, from a transmit or in reply to a frame: the   *)
(* block is pushed, or dropped when the queue is full.                      *)
TxConsume(b) ==
    /\ pc \in {"send", "frame"}
    /\ b \in TxBoxes \ Alive
    /\ IF txFree = <<>>
       THEN /\ pc' = IF pc = "frame" THEN "repost" ELSE "idle"
            /\ UNCHANGED <<txVars, id, tx_buf>>
       ELSE /\ id' = Head(txFree)
            /\ txFree' = Tail(txFree)
            /\ txPosted' = With(txPosted, Head(txFree), b)
            /\ tx_buf' = b
            /\ pc' = IF pc = "frame" THEN "record_rx" ELSE "record_tx"
            /\ UNCHANGED <<txUsed, in_flight>>
    /\ UNCHANGED <<rxVars, token, due>>

(* Mutant of TxRecord: the box is dropped at the end of consume.            *)
TxRecordForgets ==
    /\ pc \in {"record_rx", "record_tx"}
    /\ tx_buf' = Nothing
    /\ pc' = IF pc = "record_rx" THEN "repost" ELSE "idle"
    /\ UNCHANGED <<rxVars, txVars, token, due, id>>

(* The block moves into in_flight, after the device may have finished it.   *)
TxRecord ==
    /\ pc \in {"record_rx", "record_tx"}
    /\ in_flight' = [in_flight EXCEPT ![id] = tx_buf]
    /\ tx_buf' = Nothing
    /\ pc' = IF pc = "record_rx" THEN "repost" ELSE "idle"
    /\ UNCHANGED <<rxVars, txFree, txPosted, txUsed, token, due, id>>

(* A token that is not used: a frame without a reply, nothing to send.      *)
NoSend ==
    /\ pc \in {"send", "frame"}
    /\ pc' = IF pc = "frame" THEN "repost" ELSE "idle"
    /\ UNCHANGED <<rxVars, txVars, token, due, id, tx_buf>>

(* Mutant of RxRepost: the buffer is not posted again.                      *)
RxRepostForgotten ==
    /\ pc = "repost"
    /\ pc' = "idle"
    /\ token' = Nothing /\ due' = Nothing
    /\ UNCHANGED <<rxVars, txVars, id, tx_buf>>

(* VirtioNetRxToken::consume after its closure: the buffer is posted again, *)
(* and recorded under its new id.                                           *)
RxRepost ==
    /\ pc = "repost"
    /\ rxFree # <<>>
    /\ id' = Head(rxFree)
    /\ rxFree' = Tail(rxFree)
    /\ rxPosted' = With(rxPosted, Head(rxFree), token)
    /\ pc' = "record"
    /\ UNCHANGED <<rxUsed, bytes, desc_to_buf, txVars, token, due, tx_buf>>

RxRecord ==
    /\ pc = "record"
    /\ desc_to_buf' = [desc_to_buf EXCEPT ![id] = token]
    /\ token' = Nothing /\ due' = Nothing
    /\ pc' = "idle"
    /\ UNCHANGED <<rxFree, rxPosted, rxUsed, bytes, txVars, id, tx_buf>>

-----------------------------------------------------------------------------
(* The device: it writes a frame into a posted buffer and reports it, and   *)
(* it finishes a transmit, in any order.                                    *)
DeviceReceives(i, f) ==
    /\ i \in DOMAIN rxPosted
    /\ bytes' = [bytes EXCEPT ![rxPosted[i]] = f]
    /\ rxPosted' = Without(rxPosted, i)
    /\ rxUsed' = Append(rxUsed, [id |-> i, frame |-> f])
    /\ UNCHANGED <<rxFree, desc_to_buf, txVars, pc, token, due, id, tx_buf>>

DeviceSends(i) ==
    /\ i \in DOMAIN txPosted
    /\ txPosted' = Without(txPosted, i)
    /\ txUsed' = Append(txUsed, i)
    /\ UNCHANGED <<rxVars, txFree, in_flight, pc, token, due, id, tx_buf>>

-----------------------------------------------------------------------------
DriverStep ==
    \/ TxReap \/ RxEmpty \/ RxPop \/ TxToken
    \/ TxRecord \/ NoSend \/ RxRepost \/ RxRecord
    \/ \E b \in TxBoxes : TxConsume(b)

Device ==
    \/ \E i \in Ids, f \in Frames : DeviceReceives(i, f)
    \/ \E i \in Ids : DeviceSends(i)

NicNext == Device \/ Receive \/ Transmit \/ DriverStep

NicSpec == NicInit /\ [][NicNext]_nicVars

(* net::poll_loop polls for ever, and smoltcp asks for a frame in each      *)
(* poll; the device owes the driver nothing.                                *)
NicFairSpec == NicSpec /\ WF_nicVars(DriverStep) /\ SF_nicVars(Receive)

-----------------------------------------------------------------------------
(* desc_to_buf leads from a completion to the buffer the device wrote, and  *)
(* that buffer keeps its frame until smoltcp has read it.                   *)
FramesIntact ==
    /\ \A i \in DOMAIN rxUsed : bytes[desc_to_buf[rxUsed[i].id]] = rxUsed[i].frame
    /\ pc \in {"frame", "record_rx"} => bytes[token] = due

(* The device never reads a transmit buffer that tx_reap or an assignment   *)
(* to in_flight has freed, and no two requests share one: a block lives     *)
(* exactly as long as its id is out, although it is recorded only after the *)
(* device may have finished with it.                                        *)
TxBuffersAlive ==
    /\ Range(txPosted) \subseteq Alive
    /\ IsInjective(txPosted)
    /\ \A i \in Ids :
         (i \in DOMAIN txPosted \cup Range(txUsed)) <=>
           (in_flight[i] # Nothing \/ (pc \in {"record_rx", "record_tx"} /\ id = i))

(* A buffer with a frame in it always goes back to the device: receiving    *)
(* never dries up however many transmits there are to reap.                 *)
BuffersRecycled ==
    \A b \in RxBufs : (b \notin Range(rxPosted)) ~> (b \in Range(rxPosted))
=============================================================================
