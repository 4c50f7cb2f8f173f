---------------------------- MODULE InputProofs ----------------------------
(***************************************************************************)
(* What reaches the kernel from outside.  Part 1: the buffers of           *)
(* virtio_net.rs for any queue size: smoltcp reads the frame the device    *)
(* announced, and the device never reads a transmit buffer that has been   *)
(* freed.  Part 2: the sockets, bytes and sentinels of net.rs for any      *)
(* number of leases lost and regained, and any sizes of the flights and    *)
(* the send buffer.  Part 3: with a single producer, the PS/2 handler or   *)
(* the HID poller, the ring of kbd.rs is a bounded FIFO, whatever its size *)
(* and wherever producer and shell are preempted.  Part 4: its handler and *)
(* decoder turn the bytes of the keyboard into what the user typed.  The   *)
(* four modules share no state.                                            *)
(***************************************************************************)
EXTENDS VirtioNet, NetStack, KbdRing, Keyboard, TLAPS

-----------------------------------------------------------------------------
(* Part 1: module VirtioNet.                                                *)

(* Every element of a queue is of the type of its elements.                 *)
LEMMA ElementIn ==
  ASSUME NEW S, NEW q \in Seq(S), NEW i \in DOMAIN q
  PROVE  q[i] \in S
OBVIOUS

Distinct(s) == \A i, j \in DOMAIN s : s[i] = s[j] => i = j
Held == pc \in {"frame", "record_rx", "repost"}
Recording == pc \in {"record_rx", "record_tx"}

(* With as many buffers as descriptors the free chain of the receive queue  *)
(* holds at most the id of the buffer that smoltcp has, so a buffer always  *)
(* gets its old id back.                                                    *)
RxInv ==
    /\ desc_to_buf = [i \in Ids |-> i]
    /\ DOMAIN rxPosted \subseteq Ids /\ \A i \in DOMAIN rxPosted : rxPosted[i] = i
    /\ bytes \in [RxBufs -> Frames \cup {Nothing}]
    /\ rxUsed \in Seq([id : Ids, frame : Frames])
    /\ \A n \in DOMAIN rxUsed : /\ bytes[rxUsed[n].id] = rxUsed[n].frame
                                /\ rxUsed[n].id \notin DOMAIN rxPosted
    /\ \A m, n \in DOMAIN rxUsed : rxUsed[m].id = rxUsed[n].id => m = n
    /\ ~Held => rxFree = <<>>
    /\ Held => /\ rxFree = <<token>> /\ token \in Ids /\ token \notin DOMAIN rxPosted
               /\ \A n \in DOMAIN rxUsed : rxUsed[n].id # token
    /\ pc \in {"frame", "record_rx"} => bytes[token] = due
    /\ pc = "record" => id = token /\ token \in Ids

(* An id is out as long as a block is recorded for it, or about to be; no   *)
(* block is recorded twice, and the device has the recorded one.            *)
Out == DOMAIN txPosted \cup Range(txUsed)
TxInv ==
    /\ txFree \in Seq(Ids) /\ Distinct(txFree)
    /\ txUsed \in Seq(Ids) /\ Distinct(txUsed)
    /\ DOMAIN txPosted \subseteq Ids
    /\ DOMAIN txPosted \cap Range(txUsed) = {} /\ Range(txFree) \cap Out = {}
    /\ in_flight \in [Ids -> TxBoxes \cup {Nothing}]
    /\ \A i, j \in Ids : in_flight[i] = in_flight[j] /\ in_flight[i] # Nothing => i = j
    /\ ~Recording => tx_buf = Nothing
    /\ Recording => /\ id \in Ids /\ tx_buf \in TxBoxes /\ in_flight[id] = Nothing
                    /\ \A i \in Ids : in_flight[i] # tx_buf
    /\ \A i \in Ids : i \in Out <=> (in_flight[i] # Nothing \/ (Recording /\ id = i))
    /\ \A i \in DOMAIN txPosted :
           txPosted[i] = IF in_flight[i] = Nothing THEN tx_buf ELSE in_flight[i]

BuffersInv == RxInv /\ TxInv

-----------------------------------------------------------------------------
(* The inductive invariant holds when smoke has posted the receive buffers. *)
LEMMA InitBuffersInv == NicInit => BuffersInv
<1> SUFFICES ASSUME NicInit PROVE BuffersInv
  BY Zenon
<1>1. RxInv
  BY DEF NicInit, RxInv, Held, RxBufs
<1>2. TxInv
  <2>1. Size \in Nat
    BY BuffersAssumption, Zenon
  <2>2. txFree \in Seq(Ids) /\ Distinct(txFree)
    BY <2>1 DEF NicInit, Ids, Distinct
  <2>3. DOMAIN txPosted = {} /\ Range(txUsed) = {} /\ txUsed \in Seq(Ids)
    BY DEF NicInit, Range
  <2> QED BY <2>2, <2>3, Zenon DEF NicInit, TxInv, Out, Recording, Distinct
<1> QED BY <1>1, <1>2, Zenon DEF BuffersInv

-----------------------------------------------------------------------------
(* The receive side.                                                        *)
LEMMA RxKept ==
  ASSUME RxInv, UNCHANGED rxVars, UNCHANGED <<token, due>>,
         Held' <=> Held, pc' # "record", pc' \in {"frame", "record_rx"} => pc \in {"frame", "record_rx"}
  PROVE  RxInv'
BY Zenon DEF RxInv, rxVars, Held

(* Every step preserves the half of the invariant about the receive side.   *)
LEMMA RxStep ==
  ASSUME BuffersInv, [NicNext]_nicVars
  PROVE  RxInv'
<1> USE DEF BuffersInv
<1>1. CASE UNCHANGED nicVars
  BY <1>1, Zenon DEF nicVars, rxVars, RxInv, Held
<1>2. CASE Receive \/ Transmit \/ TxReap \/ RxEmpty \/ TxToken \/ TxRecord \/ NoSend
  BY <1>2, RxKept, Zenon DEF Receive, Transmit, TxReap, RxEmpty, TxToken, TxRecord, NoSend, rxVars, Held
<1>3. CASE \E b \in TxBoxes : TxConsume(b)
  BY <1>3, RxKept, Zenon DEF TxConsume, Held
<1>4. CASE \E i \in Ids : DeviceSends(i)
  BY <1>4, Zenon DEF DeviceSends, rxVars, RxInv, Held
<1>5. CASE RxPop
  <2> DEFINE e == Head(rxUsed)
  <2>1. /\ pc = "reap_rx" /\ pc' = "frame" /\ rxUsed # <<>> /\ rxFree' = <<e.id>> \o rxFree
        /\ token' = desc_to_buf[e.id] /\ due' = e.frame /\ rxUsed' = Tail(rxUsed)
        /\ UNCHANGED <<rxPosted, bytes, desc_to_buf>>
    BY <1>5, Zenon DEF RxPop
  <2>2. /\ 1 \in DOMAIN rxUsed /\ e = rxUsed[1] /\ e.id \in Ids
        /\ rxUsed' \in Seq([id : Ids, frame : Frames])
        /\ \A n \in DOMAIN rxUsed' : n + 1 \in DOMAIN rxUsed /\ rxUsed'[n] = rxUsed[n + 1] /\ n \in Nat \ {0}
    <3>1. /\ rxUsed \in Seq([id : Ids, frame : Frames]) /\ Len(rxUsed) \in Nat \ {0}
          /\ DOMAIN rxUsed = 1 .. Len(rxUsed) /\ DOMAIN rxUsed' = 1 .. Len(rxUsed) - 1
          /\ \A n \in 1 .. Len(rxUsed) - 1 : rxUsed'[n] = rxUsed[n + 1]
      BY <2>1 DEF RxInv
    <3>2. e = rxUsed[1] /\ 1 \in DOMAIN rxUsed
      BY <3>1
    <3>3. rxUsed[1] \in [id : Ids, frame : Frames]
      BY <3>1, <3>2, ElementIn, Zenon
    <3>4. rxUsed' \in Seq([id : Ids, frame : Frames])
      BY <2>1, <3>1
    <3> QED BY <3>1, <3>2, <3>3, <3>4
  <2> HIDE DEF e
  <2>3. rxFree = <<>> /\ rxFree' = <<e.id>> /\ token' = e.id
    BY <2>1, <2>2 DEF RxInv, Held
  <2>4. bytes[e.id] = e.frame /\ e.id \notin DOMAIN rxPosted
    BY <2>2, Zenon DEF RxInv
  <2>5. \A n \in DOMAIN rxUsed' : /\ rxUsed'[n].id # e.id /\ bytes[rxUsed'[n].id] = rxUsed'[n].frame
                                  /\ rxUsed'[n].id \notin DOMAIN rxPosted
    BY <2>2 DEF RxInv
  <2>6. \A m, n \in DOMAIN rxUsed' : rxUsed'[m].id = rxUsed'[n].id => m = n
    <3> SUFFICES ASSUME NEW m \in DOMAIN rxUsed', NEW n \in DOMAIN rxUsed', rxUsed'[m].id = rxUsed'[n].id
                 PROVE  m = n
      BY Zenon
    <3>1. m + 1 = n + 1
      BY <2>2 DEF RxInv
    <3> QED BY <2>2, <3>1
  <2> QED BY <2>1, <2>2, <2>3, <2>4, <2>5, <2>6 DEF RxInv, Held
<1>6. CASE RxRepost
  <2>1. /\ pc = "repost" /\ pc' = "record" /\ id' = Head(rxFree) /\ rxFree' = Tail(rxFree)
        /\ rxPosted' = With(rxPosted, Head(rxFree), token)
        /\ UNCHANGED <<rxUsed, bytes, desc_to_buf, token, due>>
    BY <1>6, Zenon DEF RxRepost
  <2>2. Head(rxFree) = token /\ Tail(rxFree) = <<>> /\ token \in Ids
    <3>1. rxFree = <<token>> /\ token \in Ids
      BY <2>1, Zenon DEF RxInv, Held
    <3>2. Head(<<token>>) = token /\ Tail(<<token>>) = <<>>
      OBVIOUS
    <3> QED BY <3>1, <3>2, Zenon
  <2>3. DOMAIN rxPosted' = DOMAIN rxPosted \cup {token} /\ \A i \in DOMAIN rxPosted' : rxPosted'[i] = i
    BY <2>1, <2>2, Zenon DEF RxInv, With
  <2> QED BY <2>1, <2>2, <2>3, Zenon DEF RxInv, Held
<1>7. CASE RxRecord
  <2>1. desc_to_buf' = desc_to_buf
    BY <1>7, Zenon DEF RxRecord, RxInv
  <2> QED BY <1>7, <2>1, Zenon DEF RxRecord, RxInv, Held
<1>8. ASSUME NEW i \in Ids, NEW f \in Frames, DeviceReceives(i, f) PROVE RxInv'
  <2> DEFINE e == [id |-> i, frame |-> f]
  <2>1. /\ i \in DOMAIN rxPosted /\ rxPosted[i] = i
        /\ bytes' = [bytes EXCEPT ![i] = f] /\ rxPosted' = Without(rxPosted, i)
        /\ rxUsed' = Append(rxUsed, e)
        /\ UNCHANGED <<rxFree, desc_to_buf, pc, token, due, id>>
    BY <1>8, Zenon DEF DeviceReceives, RxInv
  <2>2. e \in [id : Ids, frame : Frames]
    BY Zenon
  <2>3. /\ rxUsed' \in Seq([id : Ids, frame : Frames])
        /\ \A n \in DOMAIN rxUsed' : (n \in DOMAIN rxUsed /\ rxUsed'[n] = rxUsed[n])
                                     \/ (n = Len(rxUsed) + 1 /\ rxUsed'[n] = e)
    BY <2>1, <2>2 DEF RxInv
  <2>4. DOMAIN rxPosted' = DOMAIN rxPosted \ {i} /\ \A j \in DOMAIN rxPosted' : rxPosted'[j] = j
    BY <2>1, Zenon DEF RxInv, Without, Restrict
  <2>5. bytes' \in [RxBufs -> Frames \cup {Nothing}] /\ bytes'[i] = f /\ \A j \in Ids \ {i} : bytes'[j] = bytes[j]
    BY <2>1, Zenon DEF RxInv, Ids, RxBufs
  <2>6. \A n \in DOMAIN rxUsed : rxUsed[n].id # i /\ rxUsed[n].id \in Ids
    <3>1. \A n \in DOMAIN rxUsed : rxUsed[n] \in [id : Ids, frame : Frames]
      BY ElementIn, Zenon DEF RxInv
    <3> QED BY <2>1, <3>1, Zenon DEF RxInv
  <2> QED BY <2>1, <2>3, <2>4, <2>5, <2>6 DEF RxInv, Held
<1> QED BY <1>1, <1>2, <1>3, <1>4, <1>5, <1>6, <1>7, <1>8, Zenon DEF NicNext, Device, DriverStep

-----------------------------------------------------------------------------
(* The transmit side.                                                       *)
(* Taking an element from the front of a list of distinct ones.             *)
LEMMA PopFront ==
  ASSUME NEW S, NEW s \in Seq(S), s # <<>>, Distinct(s)
  PROVE  /\ Head(s) \in S /\ Tail(s) \in Seq(S) /\ Distinct(Tail(s))
         /\ Range(s) = Range(Tail(s)) \cup {Head(s)} /\ Head(s) \notin Range(Tail(s))
<1> DEFINE t == Tail(s)
<1>1. /\ t \in Seq(S) /\ DOMAIN s = 1 .. Len(s) /\ Len(s) \in Nat /\ Len(s) > 0
      /\ DOMAIN t = 1 .. Len(s) - 1 /\ \A i \in 1 .. Len(s) - 1 : t[i] = s[i + 1]
      /\ Head(s) = s[1] /\ s[1] \in S
  OBVIOUS
<1> HIDE DEF t
<1>2. Distinct(t) /\ Head(s) \notin Range(t)
  <2>1. ASSUME NEW i \in DOMAIN t PROVE i \in Int /\ i + 1 \in DOMAIN s /\ t[i] = s[i + 1] /\ i + 1 # 1
    BY <1>1
  <2>2. ASSUME NEW i \in DOMAIN t, NEW j \in DOMAIN t, t[i] = t[j] PROVE i = j
    <3>1. i + 1 = j + 1
      BY <2>1, <2>2, Zenon DEF Distinct
    <3> QED BY <2>1, <3>1
  <2> QED BY <1>1, <2>1, <2>2 DEF Distinct, Range
<1>3. Range(s) = Range(t) \cup {Head(s)}
  <2>1. ASSUME NEW i \in DOMAIN s PROVE s[i] \in Range(t) \cup {Head(s)}
    <3>1. i = 1 \/ (i - 1 \in DOMAIN t /\ t[i - 1] = s[i])
      BY <1>1
    <3> QED BY <1>1, <3>1, Zenon DEF Range
  <2>2. ASSUME NEW i \in DOMAIN t PROVE t[i] \in Range(s)
    <3>1. i + 1 \in DOMAIN s /\ t[i] = s[i + 1]
      BY <1>1
    <3> QED BY <3>1, Zenon DEF Range
  <2>3. Head(s) \in Range(s)
    BY <1>1 DEF Range
  <2> QED BY <2>1, <2>2, <2>3, Zenon DEF Range
<1> QED BY <1>1, <1>2, <1>3, Zenon DEF t

(* Putting a new one at the back of it.                                     *)
LEMMA PushBack ==
  ASSUME NEW S, NEW s \in Seq(S), NEW e \in S, Distinct(s), e \notin Range(s)
  PROVE  /\ Append(s, e) \in Seq(S) /\ Distinct(Append(s, e))
         /\ Range(Append(s, e)) = Range(s) \cup {e}
<1> DEFINE r == Append(s, e)
<1>1. /\ r \in Seq(S) /\ DOMAIN s = 1 .. Len(s) /\ Len(s) \in Nat
      /\ DOMAIN r = 1 .. Len(s) + 1 /\ \A i \in 1 .. Len(s) : r[i] = s[i]
      /\ r[Len(s) + 1] = e
  OBVIOUS
<1> HIDE DEF r
<1>2. Distinct(r)
  BY <1>1 DEF Distinct, Range
<1>3. Range(r) = Range(s) \cup {e}
  BY <1>1 DEF Range
<1> QED BY <1>1, <1>2, <1>3, Zenon DEF r

(* Putting a new one at the front keeps the elements distinct.              *)
LEMMA PushFront ==
  ASSUME NEW S, NEW s \in Seq(S), NEW e \in S, Distinct(s), e \notin Range(s)
  PROVE  /\ <<e>> \o s \in Seq(S) /\ Distinct(<<e>> \o s)
         /\ Range(<<e>> \o s) = Range(s) \cup {e}
<1> DEFINE r == <<e>> \o s
<1>1. /\ r \in Seq(S)
      /\ DOMAIN s = 1 .. Len(s) /\ Len(s) \in Nat
      /\ DOMAIN r = 1 .. Len(s) + 1
      /\ \A i \in 2 .. Len(s) + 1 : r[i] = s[i - 1]
      /\ r[1] = e
  OBVIOUS
<1> HIDE DEF r
<1>2. \A i \in DOMAIN s : i + 1 \in DOMAIN r /\ r[i + 1] = s[i]
  BY <1>1
<1>3. \A i \in DOMAIN r : i = 1 \/ (i - 1 \in DOMAIN s /\ r[i] = s[i - 1])
  BY <1>1
<1>4. Range(r) = Range(s) \cup {e}
  <2>1. 1 \in DOMAIN r
    BY <1>1
  <2>2. ASSUME NEW x \in Range(r) PROVE x \in Range(s) \cup {e}
    <3>1. PICK i \in DOMAIN r : x = r[i]
      BY Zenon DEF Range
    <3>2. CASE i = 1
      BY <1>1, <3>1, <3>2, Zenon
    <3>3. CASE i # 1
      BY <1>3, <3>1, <3>3, Zenon DEF Range
    <3> QED BY <3>2, <3>3, Zenon
  <2>3. ASSUME NEW x \in Range(s) PROVE x \in Range(r)
    <3>1. PICK i \in DOMAIN s : x = s[i]
      BY Zenon DEF Range
    <3> QED BY <1>2, <3>1, Zenon DEF Range
  <2>4. e \in Range(r)
    BY <1>1, <2>1, Zenon DEF Range
  <2> QED BY <2>2, <2>3, <2>4, Zenon
<1>5. Distinct(r)
  <2> SUFFICES ASSUME NEW i \in DOMAIN r, NEW j \in DOMAIN r, r[i] = r[j], i # 1 PROVE i = j
    BY <1>1, Zenon DEF Distinct
  <2>1. i - 1 \in DOMAIN s /\ r[i] = s[i - 1]
    BY <1>3, Zenon
  <2>2. j # 1
    BY <1>1, <2>1, Zenon DEF Range
  <2>3. j - 1 \in DOMAIN s /\ r[j] = s[j - 1]
    BY <1>3, <2>2, Zenon
  <2>4. i - 1 = j - 1
    BY <2>1, <2>3, Zenon DEF Distinct
  <2> QED BY <1>1, <2>4
<1> QED BY <1>1, <1>4, <1>5, Zenon DEF r

(* A step that leaves the transmit side alone preserves its half.           *)
LEMMA TxKept ==
  ASSUME TxInv, UNCHANGED txVars, UNCHANGED tx_buf, ~Recording, ~Recording'
  PROVE  TxInv'
BY Zenon DEF TxInv, txVars, Out, Distinct

(* Every step preserves the half of the invariant about the transmit side.  *)
LEMMA TxStep ==
  ASSUME BuffersInv, [NicNext]_nicVars
  PROVE  TxInv'
<1> USE DEF BuffersInv
<1>1. CASE UNCHANGED nicVars
  BY <1>1, Zenon DEF nicVars, txVars, TxInv, Out, Distinct, Recording
<1>2. CASE Receive \/ Transmit \/ RxEmpty \/ RxPop \/ TxToken \/ NoSend \/ RxRepost \/ RxRecord
  BY <1>2, TxKept, Zenon DEF Receive, Transmit, RxEmpty, RxPop, TxToken, NoSend, RxRepost, RxRecord, Recording
<1>3. CASE \E i \in Ids, f \in Frames : DeviceReceives(i, f)
  BY <1>3, Zenon DEF DeviceReceives, txVars, TxInv, Out, Distinct, Recording
<1>4. CASE TxReap
  <2> DEFINE e == Head(txUsed)
  <2>1. /\ pc \in {"reap_rx", "reap_tx"} /\ pc' = pc /\ txUsed # <<>> /\ txFree' = <<e>> \o txFree
        /\ txUsed' = Tail(txUsed) /\ in_flight' = [in_flight EXCEPT ![e] = Nothing]
        /\ UNCHANGED <<txPosted, id, tx_buf>>
    BY <1>4, Zenon DEF TxReap
  <2>2. /\ e \in Ids /\ txUsed' \in Seq(Ids) /\ Distinct(txUsed')
        /\ Range(txUsed) = Range(txUsed') \cup {e} /\ e \notin Range(txUsed')
    BY <2>1, PopFront, Zenon DEF TxInv
  <2> HIDE DEF e
  <2>3. e \notin Range(txFree) /\ e \notin DOMAIN txPosted
    BY <2>2, Zenon DEF TxInv, Out
  <2>4. txFree' \in Seq(Ids) /\ Distinct(txFree') /\ Range(txFree') = Range(txFree) \cup {e}
    <3>1. txFree \in Seq(Ids) /\ Distinct(txFree)
      BY Zenon DEF TxInv
    <3> QED BY <2>1, <2>2, <2>3, <3>1, PushFront
  <2>5. /\ in_flight' \in [Ids -> TxBoxes \cup {Nothing}] /\ in_flight'[e] = Nothing
        /\ \A i \in Ids \ {e} : in_flight'[i] = in_flight[i]
    BY <2>1, <2>2, Zenon DEF TxInv
  <2>6. ~Recording /\ ~Recording'
    BY <2>1, Zenon DEF Recording
  <2> QED BY <2>1, <2>2, <2>3, <2>4, <2>5, <2>6 DEF TxInv, Out
<1>5. ASSUME NEW b \in TxBoxes, TxConsume(b) PROVE TxInv'
  <2>1. ~Recording /\ tx_buf = Nothing
    BY <1>5, Zenon DEF TxConsume, Recording, TxInv
  <2>2. CASE txFree = <<>>
    BY <1>5, <2>1, <2>2, TxKept, Zenon DEF TxConsume, Recording
  <2>3. CASE txFree # <<>>
    <3> DEFINE e == Head(txFree)
    <3>1. /\ b \notin Alive /\ id' = e /\ txFree' = Tail(txFree)
          /\ txPosted' = With(txPosted, e, b) /\ tx_buf' = b /\ pc' \in {"record_rx", "record_tx"}
          /\ UNCHANGED <<txUsed, in_flight>>
      BY <1>5, <2>3, Zenon DEF TxConsume
    <3>2. /\ e \in Ids /\ txFree' \in Seq(Ids) /\ Distinct(txFree')
          /\ Range(txFree) = Range(txFree') \cup {e} /\ e \notin Range(txFree')
      BY <2>3, <3>1, PopFront, Zenon DEF TxInv
    <3> HIDE DEF e
    <3>3. e \notin Out /\ in_flight[e] = Nothing
      BY <2>1, <3>2, Zenon DEF TxInv
    <3>4. \A i \in Ids : in_flight[i] # b
      BY <3>1, BuffersAssumption, Zenon DEF Alive, Range, TxInv
    <3>5. /\ DOMAIN txPosted' = DOMAIN txPosted \cup {e} /\ txPosted'[e] = b
          /\ \A i \in DOMAIN txPosted : txPosted'[i] = txPosted[i]
      BY <3>1, <3>3, Zenon DEF With, Out
    <3>6. Recording' /\ Out' = Out \cup {e}
      BY <3>1, <3>5, Zenon DEF Recording, Out
    <3>7. /\ txUsed' \in Seq(Ids) /\ Distinct(txUsed')
          /\ DOMAIN txPosted' \subseteq Ids /\ DOMAIN txPosted' \cap Range(txUsed') = {}
          /\ Range(txFree') \cap Out' = {}
      BY <3>1, <3>2, <3>3, <3>5, <3>6 DEF TxInv, Out
    <3>8. \A i \in DOMAIN txPosted : txPosted[i] = in_flight[i] /\ in_flight[i] # Nothing
      BY <2>1, Zenon DEF TxInv, Out
    <3>9. \A i \in DOMAIN txPosted' : txPosted'[i] = IF in_flight'[i] = Nothing THEN tx_buf' ELSE in_flight'[i]
      BY <3>1, <3>3, <3>5, <3>8, Zenon
    <3>10. \A i \in Ids : i \in Out' <=> (in_flight'[i] # Nothing \/ (Recording' /\ id' = i))
      BY <2>1, <3>1, <3>3, <3>6, Zenon DEF TxInv
    <3> QED BY <3>1, <3>2, <3>3, <3>4, <3>6, <3>7, <3>9, <3>10, Zenon DEF TxInv
  <2> QED BY <2>2, <2>3, Zenon
<1>6. CASE TxRecord
  <2>1. /\ Recording /\ ~Recording' /\ in_flight' = [in_flight EXCEPT ![id] = tx_buf] /\ tx_buf' = Nothing
        /\ UNCHANGED <<txFree, txPosted, txUsed, id>>
    BY <1>6, Zenon DEF TxRecord, Recording
  <2>2. /\ id \in Ids /\ tx_buf \in TxBoxes /\ in_flight[id] = Nothing /\ tx_buf # Nothing
        /\ \A i \in Ids : in_flight[i] # tx_buf
    BY <2>1, BuffersAssumption, Zenon DEF TxInv
  <2>3. /\ in_flight' \in [Ids -> TxBoxes \cup {Nothing}] /\ in_flight'[id] = tx_buf
        /\ \A i \in Ids \ {id} : in_flight'[i] = in_flight[i]
    BY <2>1, <2>2, Zenon DEF TxInv
  <2>4. Out' = Out
    BY <2>1, Zenon DEF Out
  <2>5. \A i \in DOMAIN txPosted' : txPosted'[i] = IF in_flight'[i] = Nothing THEN tx_buf' ELSE in_flight'[i]
    BY <2>1, <2>2, <2>3, Zenon DEF TxInv, Out
  <2> QED BY <2>1, <2>2, <2>3, <2>4, <2>5 DEF TxInv, Distinct
<1>7. ASSUME NEW i \in Ids, DeviceSends(i) PROVE TxInv'
  <2>1. /\ i \in DOMAIN txPosted /\ txPosted' = Without(txPosted, i) /\ txUsed' = Append(txUsed, i)
        /\ UNCHANGED <<txFree, in_flight, pc, id, tx_buf>>
    BY <1>7, Zenon DEF DeviceSends
  <2>2. i \notin Range(txUsed)
    BY <2>1, Zenon DEF TxInv
  <2>3. txUsed' \in Seq(Ids) /\ Distinct(txUsed') /\ Range(txUsed') = Range(txUsed) \cup {i}
    <3>1. txUsed \in Seq(Ids) /\ Distinct(txUsed)
      BY Zenon DEF TxInv
    <3>2. /\ Append(txUsed, i) \in Seq(Ids) /\ Distinct(Append(txUsed, i))
          /\ Range(Append(txUsed, i)) = Range(txUsed) \cup {i}
      BY <2>2, <3>1, PushBack, ZenonT(40)
    <3> QED BY <2>1, <3>2, Zenon DEF Distinct
  <2>4. /\ DOMAIN txPosted' = DOMAIN txPosted \ {i}
        /\ \A j \in DOMAIN txPosted' : txPosted'[j] = txPosted[j]
    BY <2>1, Zenon DEF Without, Restrict
  <2>5. Out' = Out /\ (Recording' <=> Recording)
    BY <2>1, <2>3, <2>4, Zenon DEF Out, Recording
  <2> QED BY <2>1, <2>2, <2>3, <2>4, <2>5, Zenon DEF TxInv
<1> QED BY <1>1, <1>2, <1>3, <1>4, <1>5, <1>6, <1>7, Zenon DEF NicNext, Device, DriverStep

-----------------------------------------------------------------------------
(* The inductive invariant of both sides always holds.                      *)
THEOREM BuffersInvariant == NicSpec => []BuffersInv
<1>1. BuffersInv /\ [NicNext]_nicVars => BuffersInv'
  BY RxStep, TxStep, Zenon DEF BuffersInv
<1> QED BY <1>1, InitBuffersInv, PTL DEF NicSpec

(* desc_to_buf leads smoltcp to the buffer the device wrote, and the frame  *)
(* stays in it until it has been read, for any queue size.                  *)
THEOREM FramesStayIntact == NicSpec => []FramesIntact
<1>1. BuffersInv => FramesIntact
  <2> SUFFICES ASSUME BuffersInv PROVE FramesIntact
    BY Zenon
  <2>1. \A n \in DOMAIN rxUsed : rxUsed[n] \in [id : Ids, frame : Frames]
    BY ElementIn, Zenon DEF BuffersInv, RxInv
  <2>2. \A n \in DOMAIN rxUsed : desc_to_buf[rxUsed[n].id] = rxUsed[n].id
    BY <2>1, Zenon DEF BuffersInv, RxInv
  <2> QED BY <2>2, Zenon DEF BuffersInv, RxInv, FramesIntact
<1> QED BY <1>1, BuffersInvariant, PTL

(* The device never reads a transmit buffer that has been freed, no two     *)
(* requests share one, and in_flight is freed exactly with its id.          *)
THEOREM TransmitBuffersLive == NicSpec => []TxBuffersAlive
<1>1. BuffersInv => TxBuffersAlive
  <2> SUFFICES ASSUME BuffersInv PROVE TxBuffersAlive
    BY Zenon
  <2> USE DEF BuffersInv
  <2>1. \A i \in DOMAIN txPosted : txPosted[i] # Nothing /\ i \in Ids
    BY BuffersAssumption, Zenon DEF TxInv, Out
  <2>2. Range(txPosted) \subseteq Alive
    <3>1. \A i \in DOMAIN txPosted : txPosted[i] \in Range(in_flight) \cup {tx_buf}
      BY <2>1, Zenon DEF TxInv, Range
    <3> QED BY <2>1, <3>1, Zenon DEF Alive, Range
  <2>3. IsInjective(txPosted)
    BY <2>1, Zenon DEF TxInv, Out, IsInjective
  <2> QED BY <2>2, <2>3, Zenon DEF TxInv, Out, Recording, TxBuffersAlive
<1> QED BY <1>1, BuffersInvariant, PTL

-----------------------------------------------------------------------------
(* Part 2: module NetStack.                                                 *)

TypesOf ==
    /\ sockets \in [Handles -> SocketRec \cup {None, DhcpSocket}]
    /\ peer \in [Handles -> [got : Int, sent : Int]]
    /\ tcp_handle \in Handles \cup {None} /\ tls_tcp_handle \in Handles \cup {None}
    /\ tls \in TlsRec \cup {None}
    /\ tcp_ok \in BOOLEAN /\ tls_ok \in BOOLEAN
    /\ oks \in [tcp : Nat, tls : Nat] /\ connects \in [tcp : Nat, tls : Nat]

(* A place of the SocketSet is taken exactly when a handle names it.        *)
Places ==
    /\ sockets[0] = DhcpSocket
    /\ \A h \in Handles \ {0} :
           sockets[h] # DhcpSocket /\ (sockets[h] = None <=> h \notin {tcp_handle, tls_tcp_handle})
    /\ tcp_handle # 0 /\ tls_tcp_handle # 0
    /\ tcp_handle # None => tcp_handle # tls_tcp_handle

(* A session has a socket, and the phases of pump_tls have a session.       *)
SessionHasSocket ==
    /\ tls # None => tls_tcp_handle # None
    /\ at \in {"drive_rustls", "flush"} => tls # None

(* What has been counted is what the flags and handles remember.            *)
CountsAreFlags ==
    /\ oks.tcp = (IF tcp_ok THEN 1 ELSE 0) /\ oks.tls = (IF tls_ok THEN 1 ELSE 0)
    /\ connects.tcp = (IF tcp_handle = None THEN 0 ELSE 1)

NetIInv == TypesOf /\ Places /\ SessionHasSocket /\ BytesConserved /\ CountsAreFlags

-----------------------------------------------------------------------------
(* With two handles and the DHCP socket there is always a free place.       *)
LEMMA FreePlace ==
  ASSUME TypesOf, Places, tcp_handle = None \/ tls_tcp_handle = None
  PROVE  FreeHandle \in Handles \ {0} /\ sockets[FreeHandle] = None
<1>1. MaxEvents \in Nat /\ {0, 1, 2} \subseteq Handles
  BY NetAssumption DEF Handles
<1>2. PICK k \in {1, 2} : sockets[k] = None
  <2>1. 1 \in Handles \ {0} /\ 2 \in Handles \ {0}
    BY <1>1
  <2>2. None \notin {1, 2}
    BY <1>1, NoneAssumption, Zenon
  <2>3. 1 \notin {tcp_handle, tls_tcp_handle} \/ 2 \notin {tcp_handle, tls_tcp_handle}
    BY <2>2
  <2> QED BY <2>1, <2>3, Zenon DEF Places
<1>3. Free \subseteq Nat /\ k \in Free
  BY <1>1, <1>2 DEF Free, Handles
<1>4. \E h \in Free : \A i \in Free : h <= i
  <2>1. CASE 1 \in Free
    BY <1>1, <1>3, <2>1, NoneAssumption DEF Free, Handles, Places
  <2>2. CASE 1 \notin Free
    <3>1. 2 \in Free /\ 0 \notin Free
      BY <1>1, <1>3, <2>2, NoneAssumption, Zenon DEF Free, Places
    <3>2. \A i \in Free : 2 <= i
      BY <1>3, <2>2, <3>1
    <3> QED BY <3>1, <3>2, Zenon
  <2> QED BY <2>1, <2>2, Zenon
<1>5. FreeHandle \in Free
  BY <1>4, Zenon DEF FreeHandle
<1> QED BY <1>5, NoneAssumption, Zenon DEF Free, Places

(* What the network does to one socket keeps the invariant.                 *)
LEMMA SocketStep ==
  ASSUME NetIInv, NEW h \in Handles, IsSocket(h), NEW new \in SocketRec,
         sockets' = [sockets EXCEPT ![h] = new],
         peer' \in [Handles -> [got : Int, sent : Int]],
         \A i \in Handles \ {h} : peer'[i] = peer[i],
         new.tx + peer'[h].got = sockets[h].tx + peer[h].got,
         UNCHANGED <<at, tcp, session, counts>>
  PROVE  NetIInv'
<1> USE DEF tcp, session, counts
<1>1. sockets[h] \in SocketRec /\ h # 0
  BY Zenon DEF IsSocket, NetIInv, TypesOf, Places
<1>2. TypesOf'
  BY Zenon DEF NetIInv, TypesOf
<1>3. 0 \in Handles
  BY NetAssumption DEF Handles
<1>4. Places'
  BY <1>1, <1>3, NoneAssumption, Zenon DEF NetIInv, TypesOf, Places
<1>5. SessionHasSocket' /\ CountsAreFlags'
  BY Zenon DEF NetIInv, SessionHasSocket, CountsAreFlags
<1>6. BytesConserved'
  <2> SUFFICES ASSUME tls_tcp_handle # None, tls # None
               PROVE  tls.encoded = tls.outgoing + sockets'[tls_tcp_handle].tx + peer'[tls_tcp_handle].got
    BY Zenon DEF BytesConserved
  <2>1. tls_tcp_handle \in Handles /\ tls \in TlsRec
    BY Zenon DEF NetIInv, TypesOf
  <2>2. tls.encoded = tls.outgoing + sockets[tls_tcp_handle].tx + peer[tls_tcp_handle].got
    BY Zenon DEF NetIInv, BytesConserved
  <2>3. CASE tls_tcp_handle = h
    <3>1. sockets'[h] = new
      BY Zenon DEF NetIInv, TypesOf
    <3>2. new.tx \in Int /\ peer'[h].got \in Int /\ sockets[h].tx \in Int /\ peer[h].got \in Int /\ tls.outgoing \in Int
      BY <1>1, <2>1, Zenon DEF NetIInv, TypesOf, SocketRec, TlsRec
    <3> QED BY <2>2, <2>3, <3>1, <3>2
  <2>4. CASE tls_tcp_handle # h
    BY <2>1, <2>2, <2>4, Zenon DEF NetIInv, TypesOf
  <2> QED BY <2>3, <2>4, Zenon
<1> QED BY <1>2, <1>4, <1>5, <1>6, Zenon DEF NetIInv

(* So does a round of drive_rustls, which keeps what is encoded in          *)
(* proportion to what is outgoing.                                          *)
LEMMA DriveStep ==
  ASSUME NetIInv, at = "drive_rustls", at' \in {"drive_rustls", "flush"},
         NEW new \in TlsRec, tls' = new,
         new.encoded - new.outgoing = tls.encoded - tls.outgoing,
         UNCHANGED <<sockets, tcp, tls_tcp_handle, tls_ok, peer, counts>>
  PROVE  NetIInv'
<1> USE DEF tcp, counts
<1>1. tls \in TlsRec /\ tls_tcp_handle \in Handles /\ tls # None
  BY Zenon DEF NetIInv, TypesOf, SessionHasSocket
<1>2. TypesOf' /\ Places' /\ CountsAreFlags' /\ SessionHasSocket'
  BY <1>1, NoneAssumption, Zenon DEF NetIInv, TypesOf, Places, CountsAreFlags, SessionHasSocket
<1>3. sockets[tls_tcp_handle] \in SocketRec
  BY <1>1, NoneAssumption, Zenon DEF NetIInv, TypesOf, Places
<1>4. sockets[tls_tcp_handle].tx \in Int /\ peer[tls_tcp_handle].got \in Int
      /\ {tls.outgoing, tls.encoded, new.outgoing, new.encoded} \subseteq Int
  BY <1>1, <1>3, Zenon DEF NetIInv, TypesOf, SocketRec, TlsRec
<1>5. tls.encoded = tls.outgoing + sockets[tls_tcp_handle].tx + peer[tls_tcp_handle].got
  BY <1>1, NoneAssumption, Zenon DEF NetIInv, BytesConserved
<1>6. new.encoded = new.outgoing + sockets[tls_tcp_handle].tx + peer[tls_tcp_handle].got
  BY <1>4, <1>5
<1>7. BytesConserved'
  BY <1>6, Zenon DEF BytesConserved
<1> QED BY <1>2, <1>7, Zenon DEF NetIInv

(* So do the send and receive loops of pump_tls.                            *)
LEMMA MoveStep ==
  ASSUME NetIInv, tls # None, tls_tcp_handle # None, NEW n \in Int,
         Move(n, tls.outgoing - Accepted), at' \in {"drive_rustls", "dhcp"},
         UNCHANGED <<tcp, tls_tcp_handle, tls_ok, peer, counts>>
  PROVE  NetIInv'
<1> USE DEF tcp, counts
<1> DEFINE h == tls_tcp_handle
<1>1. tls \in TlsRec /\ h \in Handles /\ h # 0 /\ 0 \in Handles
  BY NetAssumption DEF NetIInv, TypesOf, Places, Handles
<1>2. sockets[h] \in SocketRec /\ TxCap \in Int
  BY <1>1, NetAssumption, NoneAssumption DEF NetIInv, TypesOf, Places
<1>3. sockets[h].tx \in Int /\ sockets[h].rx \in Int /\ peer[h].got \in Int
      /\ {tls.outgoing, tls.encoded, tls.incoming} \subseteq Int
  BY <1>1, <1>2, Zenon DEF NetIInv, TypesOf, SocketRec, TlsRec
<1>4. Accepted \in Int
  BY <1>2, <1>3 DEF Accepted, Least
<1> DEFINE new == [sockets[h] EXCEPT !.tx = @ + Accepted, !.rx = @ - n]
<1>5. sockets' = [sockets EXCEPT ![h] = new]
  BY <1>1, Zenon DEF Move, NetIInv, TypesOf
<1>6. new \in SocketRec /\ new.tx = sockets[h].tx + Accepted
  <2>1. ASSUME NEW r \in SocketRec, NEW a \in Int
        PROVE  [r EXCEPT !.tx = @ + a, !.rx = @ - n]
               = [state |-> r.state, rx |-> r.rx - n, tx |-> r.tx + a]
    <3> DEFINE s == [r EXCEPT !.tx = @ + a]
    <3>1. s \in SocketRec /\ s = [state |-> r.state, rx |-> r.rx, tx |-> r.tx + a]
      BY DEF SocketRec
    <3> HIDE DEF s
    <3>2. [s EXCEPT !.rx = @ - n] = [state |-> s.state, rx |-> s.rx - n, tx |-> s.tx]
      BY <3>1 DEF SocketRec
    <3> QED BY <3>1, <3>2, Zenon DEF s
  <2>3. new = [state |-> sockets[h].state, rx |-> sockets[h].rx - n, tx |-> sockets[h].tx + Accepted]
    BY <1>2, <1>4, <2>1, Zenon
  <2>2. sockets[h].rx - n \in Int /\ sockets[h].tx + Accepted \in Int
    BY <1>3, <1>4
  <2> QED BY <1>2, <2>2, <2>3, Zenon DEF SocketRec
<1>7. tls' \in TlsRec /\ tls'.outgoing = tls.outgoing - Accepted /\ tls'.encoded = tls.encoded
  <2>1. tls' = [at |-> tls.at, incoming |-> tls.incoming + n, outgoing |-> tls.outgoing - Accepted,
                encoded |-> tls.encoded, handshake_done |-> tls.handshake_done]
    BY <1>1, Zenon DEF Move, TlsRec
  <2>2. tls.incoming + n \in Int /\ tls.outgoing - Accepted \in Int
    BY <1>3, <1>4
  <2> QED BY <1>1, <2>1, <2>2, Zenon DEF TlsRec
<1> HIDE DEF new
<1>8. TypesOf'
  BY <1>5, <1>6, <1>7, Zenon DEF NetIInv, TypesOf
<1>9. Places'
  BY <1>1, <1>2, <1>5, <1>6, NoneAssumption, Zenon DEF NetIInv, TypesOf, Places
<1>10. CountsAreFlags' /\ SessionHasSocket'
  BY <1>7, NoneAssumption, Zenon DEF NetIInv, CountsAreFlags, SessionHasSocket
<1>11. sockets'[h] = new
  BY <1>1, <1>5, Zenon DEF NetIInv, TypesOf
<1>12. BytesConserved'
  BY <1>3, <1>4, <1>6, <1>7, <1>11 DEF NetIInv, BytesConserved
<1> QED BY <1>8, <1>9, <1>10, <1>12, Zenon DEF NetIInv

-----------------------------------------------------------------------------
(* The inductive invariant holds when init has made the DHCP socket.        *)
LEMMA NetInitIInv == NetInit => NetIInv
<1> SUFFICES ASSUME NetInit PROVE NetIInv
  BY Zenon
<1>1. 0 \in Handles
  BY NetAssumption DEF Handles
<1>2. TypesOf
  <2>1. peer \in [Handles -> [got : Int, sent : Int]]
    BY DEF NetInit, NewPeer
  <2>2. sockets \in [Handles -> SocketRec \cup {None, DhcpSocket}]
    BY Zenon DEF NetInit
  <2>3. oks \in [tcp : Nat, tls : Nat] /\ connects \in [tcp : Nat, tls : Nat]
    BY Zenon DEF NetInit
  <2> QED BY <2>1, <2>2, <2>3, Zenon DEF NetInit, TypesOf
<1>3. Places
  BY <1>1, NoneAssumption, Zenon DEF NetInit, Places
<1>4. SessionHasSocket /\ BytesConserved /\ CountsAreFlags
  BY Zenon DEF NetInit, SessionHasSocket, BytesConserved, CountsAreFlags
<1> QED BY <1>2, <1>3, <1>4, Zenon DEF NetIInv

(* The network inside iface.poll.                                           *)
LEMMA NetworkStep ==
  ASSUME NetIInv, NEW h \in Handles,
         SynAck(h) \/ Reset(h) \/ PeerCloses(h) \/ SegmentOut(h) \/ SegmentIn(h)
  PROVE  NetIInv'
<1>1. IsSocket(h) /\ UNCHANGED <<at, tcp, session, counts>>
  BY Zenon DEF SynAck, Reset, PeerCloses, SegmentOut, SegmentIn, Socket, InState
<1>2. sockets[h] \in SocketRec /\ peer[h] \in [got : Int, sent : Int]
  BY <1>1, Zenon DEF IsSocket, NetIInv, TypesOf
<1>3. peer \in [Handles -> [got : Int, sent : Int]]
  BY Zenon DEF NetIInv, TypesOf
<1>4. CASE SynAck(h) \/ Reset(h) \/ PeerCloses(h)
  <2>1. PICK st \in {"Established", "Closed", "CloseWait"} :
            sockets' = [sockets EXCEPT ![h] = [sockets[h] EXCEPT !.state = st]] /\ UNCHANGED peer
    BY <1>4, Zenon DEF SynAck, Reset, PeerCloses, Socket
  <2> DEFINE new == [sockets[h] EXCEPT !.state = st]
  <2>2. new \in SocketRec /\ new.tx = sockets[h].tx
    BY <1>2, Zenon DEF SocketRec
  <2> QED BY <1>1, <1>3, <2>1, <2>2, SocketStep, Zenon
<1>5. CASE SegmentOut(h)
  <2> DEFINE new == [sockets[h] EXCEPT !.tx = @ - 1]
  <2>1. sockets' = [sockets EXCEPT ![h] = new] /\ peer' = [peer EXCEPT ![h].got = @ + 1]
    BY <1>5, Zenon DEF SegmentOut, Socket
  <2>2. new \in SocketRec /\ new.tx = sockets[h].tx - 1 /\ sockets[h].tx \in Int
    BY <1>2 DEF SocketRec
  <2>3. peer' \in [Handles -> [got : Int, sent : Int]] /\ peer'[h].got = peer[h].got + 1 /\ peer[h].got \in Int
    BY <1>2, <1>3, <2>1
  <2>4. \A i \in Handles \ {h} : peer'[i] = peer[i]
    BY <1>3, <2>1, Zenon
  <2>5. new.tx + peer'[h].got = sockets[h].tx + peer[h].got
    BY <2>2, <2>3
  <2> HIDE DEF new
  <2> QED BY <1>1, <2>1, <2>2, <2>3, <2>4, <2>5, SocketStep, Zenon
<1>6. CASE SegmentIn(h)
  <2> DEFINE new == [sockets[h] EXCEPT !.rx = @ + 1]
  <2>1. sockets' = [sockets EXCEPT ![h] = new] /\ peer' = [peer EXCEPT ![h].sent = @ + 1]
    BY <1>6, Zenon DEF SegmentIn, Socket
  <2>2. new \in SocketRec /\ new.tx = sockets[h].tx
    BY <1>2 DEF SocketRec
  <2>3. peer' \in [Handles -> [got : Int, sent : Int]] /\ peer'[h].got = peer[h].got
    BY <1>2, <1>3, <2>1
  <2>4. \A i \in Handles \ {h} : peer'[i] = peer[i]
    BY <1>3, <2>1, Zenon
  <2> HIDE DEF new
  <2> QED BY <1>1, <2>1, <2>2, <2>3, <2>4, SocketStep, Zenon
<1> QED BY <1>4, <1>5, <1>6, Zenon

(* drive_rustls.                                                            *)
DriveAction ==
    \/ EncodeHello \/ EncodeFinished \/ EncodeFails \/ BlockedHandshake
    \/ TakeFlight \/ RecordError \/ WriteTraffic

(* The steps of the TLS session itself, inside pump_tls.                    *)
LEMMA RustlsStep ==
  ASSUME NetIInv, DriveAction
  PROVE  NetIInv'
<1> USE DEF DriveAction
<1>1. /\ at = "drive_rustls" /\ at' \in {"drive_rustls", "flush"}
      /\ UNCHANGED <<sockets, tcp, tls_tcp_handle, tls_ok, peer, counts>>
  BY Zenon DEF EncodeHello, EncodeFinished, EncodeFails, BlockedHandshake, TakeFlight, RecordError,
         WriteTraffic, Encode, Drive
<1>2. tls \in TlsRec
  BY <1>1, Zenon DEF NetIInv, TypesOf, SessionHasSocket
<1>3. {tls.incoming, tls.outgoing, tls.encoded} \subseteq Int
      /\ Hello \in Int /\ Finished \in Int /\ Flight \in Int
  BY <1>2, NetAssumption DEF TlsRec
<1>4. tls' \in TlsRec /\ tls'.encoded - tls'.outgoing = tls.encoded - tls.outgoing
  <2>1. ASSUME NEW n \in Int, NEW a \in {"blocked", "traffic"},
               tls' = [tls EXCEPT !.outgoing = @ + n, !.encoded = @ + n, !.at = a]
        PROVE  <1>4!1 /\ <1>4!2
    <3>1. tls' = [at |-> a, incoming |-> tls.incoming, outgoing |-> tls.outgoing + n,
                  encoded |-> tls.encoded + n, handshake_done |-> tls.handshake_done]
      BY <1>2, <2>1, Zenon DEF TlsRec
    <3>2. tls.outgoing + n \in Int /\ tls.encoded + n \in Int
          /\ (tls.encoded + n) - (tls.outgoing + n) = tls.encoded - tls.outgoing
      BY <1>3
    <3>3. tls' \in TlsRec
      BY <1>2, <3>1, <3>2, Zenon DEF TlsRec
    <3> QED BY <3>1, <3>2, <3>3, Zenon
  <2>2. CASE EncodeHello \/ EncodeFinished
    BY <1>3, <2>1, <2>2, Zenon DEF EncodeHello, EncodeFinished, Encode, Drive
  <2>3. CASE EncodeFails \/ BlockedHandshake
    BY <1>2, <2>3, Zenon DEF EncodeFails, BlockedHandshake, Drive
  <2>4. CASE TakeFlight
    <3>1. tls' = [tls EXCEPT !.incoming = @ - Flight, !.at = "finished"]
      BY <2>4, Zenon DEF TakeFlight, Drive
    <3>2. tls' = [at |-> "finished", incoming |-> tls.incoming - Flight, outgoing |-> tls.outgoing,
                  encoded |-> tls.encoded, handshake_done |-> tls.handshake_done]
      BY <1>2, <3>1, Zenon DEF TlsRec
    <3>3. tls.incoming - Flight \in Int
      BY <1>3
    <3> QED BY <1>2, <3>2, <3>3, Zenon DEF TlsRec
  <2>5. CASE RecordError
    BY <1>2, <2>5, Zenon DEF RecordError, Drive, TlsRec
  <2>6. CASE WriteTraffic
    BY <1>2, <2>6, Zenon DEF WriteTraffic, Drive, TlsRec
  <2> QED BY <2>2, <2>3, <2>4, <2>5, <2>6, Zenon
<1> QED BY <1>1, <1>4, DriveStep, Zenon

(* The rest of an iteration of poll_loop.                                   *)
LEMMA TaskStep ==
  ASSUME NetIInv, TcpCheck \/ PumpIdle \/ NoEvent \/ PumpIn \/ PumpOut
  PROVE  NetIInv'
<1> USE DEF tcp, session, counts
<1>1. CASE PumpIdle \/ NoEvent
  BY <1>1 DEF PumpIdle, NoEvent, NetIInv, TypesOf, Places, SessionHasSocket, BytesConserved, CountsAreFlags
<1>2. CASE TcpCheck
  <2>1. TypesOf' /\ CountsAreFlags'
    <3>1. CASE tcp_ok' = TRUE /\ ~tcp_ok /\ oks' = [oks EXCEPT !.tcp = @ + 1]
      BY <1>2, <3>1 DEF TcpCheck, NetIInv, TypesOf, CountsAreFlags
    <3>2. CASE UNCHANGED <<tcp_ok, oks>>
      BY <1>2, <3>2, Zenon DEF TcpCheck, NetIInv, TypesOf, CountsAreFlags
    <3> QED BY <1>2, <3>1, <3>2, Zenon DEF TcpCheck
  <2>2. Places' /\ SessionHasSocket' /\ BytesConserved'
    BY <1>2, Zenon DEF TcpCheck, NetIInv, Places, SessionHasSocket, BytesConserved
  <2> QED BY <2>1, <2>2, Zenon DEF NetIInv
<1>3. CASE PumpIn
  <2>1. tls # None /\ tls_tcp_handle # None /\ tls_tcp_handle \in Handles /\ IsSocket(tls_tcp_handle)
    BY <1>3, Zenon DEF PumpIn, PumpInWith, Pumping, InState, NetIInv, TypesOf
  <2>2. sockets[tls_tcp_handle] \in SocketRec
    BY <2>1, Zenon DEF IsSocket, NetIInv, TypesOf
  <2>3. sockets[tls_tcp_handle].rx \in Int
    BY <2>2, Zenon DEF SocketRec
  <2> QED BY <1>3, <2>1, <2>3, MoveStep, Zenon DEF PumpIn, PumpInWith
<1>4. CASE PumpOut
  <2>1. tls # None /\ tls \in TlsRec /\ tls_tcp_handle # None /\ tls_tcp_handle \in Handles \ {0}
    BY <1>4, Zenon DEF PumpOut, PumpOutWith, NetIInv, TypesOf, SessionHasSocket, Places
  <2>2. CASE tls.handshake_done /\ ~tls_ok
    <3>1. /\ sockets' = [sockets EXCEPT ![tls_tcp_handle] = None]
          /\ tls_tcp_handle' = None /\ tls' = None /\ tls_ok' = TRUE /\ at' = "dhcp"
          /\ oks' = [oks EXCEPT !.tls = @ + 1]
          /\ UNCHANGED <<tcp, peer, connects, events>>
      BY <1>4, <2>2, Zenon DEF PumpOut, PumpOutWith
    <3>2. TypesOf'
      <4>1. oks' \in [tcp : Nat, tls : Nat]
        BY <3>1 DEF NetIInv, TypesOf
      <4>2. sockets' \in [Handles -> SocketRec \cup {None, DhcpSocket}]
        BY <3>1, Zenon DEF NetIInv, TypesOf
      <4> QED BY <3>1, <4>1, <4>2, Zenon DEF NetIInv, TypesOf
    <3>3. Places'
      <4>1. 0 \in Handles
        BY NetAssumption DEF Handles
      <4>2. sockets'[tls_tcp_handle] = None
            /\ \A h \in Handles \ {tls_tcp_handle} : sockets'[h] = sockets[h]
        BY <2>1, <3>1, Zenon DEF NetIInv, TypesOf
      <4>3. tcp_handle # tls_tcp_handle
        BY <2>1, Zenon DEF NetIInv, Places
      <4> QED BY <2>1, <3>1, <4>1, <4>2, <4>3, NoneAssumption, Zenon DEF NetIInv, Places
    <3>4. CountsAreFlags'
      BY <2>2, <3>1 DEF NetIInv, TypesOf, CountsAreFlags
    <3>5. SessionHasSocket' /\ BytesConserved'
      BY <3>1, Zenon DEF SessionHasSocket, BytesConserved
    <3> QED BY <3>2, <3>3, <3>4, <3>5, Zenon DEF NetIInv
  <2>3. CASE ~(tls.handshake_done /\ ~tls_ok)
    BY <1>4, <2>1, <2>3, MoveStep DEF PumpOut, PumpOutWith
  <2> QED BY <2>2, <2>3, Zenon
<1> QED BY <1>1, <1>2, <1>3, <1>4, Zenon

(* Leases and the probes they start.                                        *)
LEMMA LeaseStep ==
  ASSUME NetIInv, Deconfigure \/ (\E l \in Leases : Configure(l)) \/ StartTcp \/ StartTls
  PROVE  NetIInv'
<1> USE DEF tcp, session, counts
<1> DEFINE f == FreeHandle
<1>1. CASE Deconfigure \/ \E l \in Leases : Configure(l)
  BY <1>1 DEF Deconfigure, Configure, NetIInv, TypesOf, Places, SessionHasSocket, BytesConserved, CountsAreFlags
<1>2. NewSocket \in SocketRec /\ NewPeer \in [got : Int, sent : Int] /\ NewTls \in TlsRec
  BY DEF NewSocket, NewPeer, NewTls, SocketRec, TlsRec
<1>3. ASSUME AddSocket, tcp_handle = None \/ tls_tcp_handle = None
      PROVE  /\ f \in Handles \ {0} /\ f # tcp_handle /\ f # tls_tcp_handle
             /\ sockets' \in [Handles -> SocketRec \cup {None, DhcpSocket}]
             /\ peer' \in [Handles -> [got : Int, sent : Int]]
             /\ sockets'[f] = NewSocket /\ peer'[f] = NewPeer
             /\ \A h \in Handles \ {f} : sockets'[h] = sockets[h] /\ peer'[h] = peer[h]
  <2>1. f \in Handles \ {0} /\ sockets[f] = None
    BY <1>3, FreePlace, Zenon DEF NetIInv
  <2> HIDE DEF f
  <2>2. f # tcp_handle /\ f # tls_tcp_handle
    BY <2>1, Zenon DEF NetIInv, Places
  <2>3. sockets' = [sockets EXCEPT ![f] = NewSocket] /\ peer' = [peer EXCEPT ![f] = NewPeer]
    BY <1>3, Zenon DEF AddSocket, f
  <2> QED BY <1>2, <2>1, <2>2, <2>3, Zenon DEF NetIInv, TypesOf
<1> HIDE DEF f
<1>4. CASE StartTcp
  <2>1. CASE UNCHANGED <<sockets, peer, tcp_handle, connects>>
    BY <1>4, <2>1, Zenon DEF StartTcp, NetIInv, TypesOf, Places, SessionHasSocket, BytesConserved, CountsAreFlags
  <2>2. CASE ~UNCHANGED <<sockets, peer, tcp_handle, connects>>
    <3>1. /\ tcp_handle = None /\ AddSocket /\ tcp_handle' = f /\ at' = "start_tls"
          /\ connects' = [connects EXCEPT !.tcp = @ + 1]
          /\ UNCHANGED <<tcp_ok, session, oks, events>>
      BY <1>4, <2>2, Zenon DEF StartTcp, f
    <3>2. TypesOf' /\ CountsAreFlags'
      BY <1>3, <3>1, NoneAssumption DEF NetIInv, TypesOf, CountsAreFlags
    <3>3. Places'
      <4>0. 0 \in Handles
        BY NetAssumption DEF Handles
      <4>1. sockets'[0] = sockets[0]
        BY <1>3, <3>1, <4>0, Zenon
      <4>2. NewSocket \notin {None, DhcpSocket}
        BY <1>2, NoneAssumption, Zenon
      <4> QED BY <1>3, <3>1, <4>0, <4>1, <4>2, NoneAssumption, Zenon DEF NetIInv, Places
    <3>4. SessionHasSocket' /\ BytesConserved'
      BY <1>3, <3>1, Zenon DEF NetIInv, TypesOf, SessionHasSocket, BytesConserved
    <3> QED BY <3>2, <3>3, <3>4, Zenon DEF NetIInv
  <2> QED BY <2>1, <2>2, Zenon
<1>5. CASE StartTls
  <2>1. CASE UNCHANGED <<sockets, peer, tls_tcp_handle, tls, connects>>
    BY <1>5, <2>1, Zenon DEF StartTls, NetIInv, TypesOf, Places, SessionHasSocket, BytesConserved, CountsAreFlags
  <2>2. CASE ~UNCHANGED <<sockets, peer, tls_tcp_handle, tls, connects>>
    <3>1. /\ tls_tcp_handle = None /\ AddSocket /\ tls_tcp_handle' = f /\ at' = "iface_poll"
          /\ tls' \in {tls, NewTls}
          /\ connects' = [connects EXCEPT !.tls = @ + 1]
          /\ UNCHANGED <<tcp, tls_ok, oks, events>>
      BY <1>5, <2>2, Zenon DEF StartTls, f
    <3>2. TypesOf' /\ CountsAreFlags'
      BY <1>2, <1>3, <3>1, NoneAssumption DEF NetIInv, TypesOf, CountsAreFlags
    <3>3. Places'
      <4>0. 0 \in Handles
        BY NetAssumption DEF Handles
      <4>1. sockets'[0] = sockets[0]
        BY <1>3, <3>1, <4>0, Zenon
      <4>2. NewSocket \notin {None, DhcpSocket}
        BY <1>2, NoneAssumption, Zenon
      <4> QED BY <1>3, <3>1, <4>0, <4>1, <4>2, NoneAssumption, Zenon DEF NetIInv, Places
    <3>4. tls = None
      BY <3>1, Zenon DEF NetIInv, SessionHasSocket
    <3>5. SessionHasSocket'
      BY <1>3, <3>1, <3>4, NoneAssumption, Zenon DEF SessionHasSocket
    <3>6. BytesConserved'
      BY <1>3, <3>1, <3>4 DEF BytesConserved, NewTls, NewSocket, NewPeer
    <3> QED BY <3>2, <3>3, <3>5, <3>6, Zenon DEF NetIInv
  <2> QED BY <2>1, <2>2, Zenon
<1> QED BY <1>1, <1>4, <1>5, Zenon

-----------------------------------------------------------------------------
(* Every step of the poll loop and of the network preserves the invariant.  *)
LEMMA NetNextIInv == NetIInv /\ [NetNext]_netVars => NetIInv'
<1> SUFFICES ASSUME NetIInv, [NetNext]_netVars PROVE NetIInv'
  BY Zenon
<1>1. CASE UNCHANGED netVars
  BY <1>1, Zenon DEF netVars, tcp, session, counts, NetIInv, TypesOf, Places, SessionHasSocket, BytesConserved, CountsAreFlags
<1>2. CASE \E h \in Handles : SynAck(h) \/ Reset(h) \/ PeerCloses(h) \/ SegmentOut(h) \/ SegmentIn(h)
  BY <1>2, NetworkStep, Zenon
<1>3. CASE DriveAction
  BY <1>3, RustlsStep, Zenon
<1>4. CASE TcpCheck \/ PumpIdle \/ NoEvent \/ PumpIn \/ PumpOut
  BY <1>4, TaskStep, Zenon
<1>5. CASE Deconfigure \/ (\E l \in Leases : Configure(l)) \/ StartTcp \/ StartTls
  BY <1>5, LeaseStep, Zenon
<1> QED BY <1>1, <1>2, <1>3, <1>4, <1>5, Zenon DEF NetNext, Task, DriveAction

(* The three properties follow from the invariant.                          *)
LEMMA NetIInvImplies == NetIInv => HandlesMatchSockets /\ BytesConserved /\ ProbesOnce
<1> SUFFICES ASSUME NetIInv PROVE HandlesMatchSockets /\ ProbesOnce
  BY Zenon DEF NetIInv
<1>1. \A h \in Handles : IsSocket(h) <=> h \in {tcp_handle, tls_tcp_handle} \ {None}
  <2>1. 0 \in Handles
    BY NetAssumption DEF Handles
  <2> QED BY <2>1, NoneAssumption, Zenon DEF NetIInv, TypesOf, Places, IsSocket
<1>2. {tcp_handle, tls_tcp_handle} \ {None} \subseteq Handles
  BY Zenon DEF NetIInv, TypesOf
<1>3. HandlesMatchSockets
  BY <1>1, <1>2, Zenon DEF HandlesMatchSockets, NetIInv, Places
<1>4. ProbesOnce
  BY DEF ProbesOnce, NetIInv, TypesOf, CountsAreFlags
<1> QED BY <1>3, <1>4, Zenon

(* The handles of net.rs name live sockets, each its own, and no socket is  *)
(* without a handle, however often the lease is lost and granted again.     *)
THEOREM SocketsNeverLeak == NetSpec => []HandlesMatchSockets
BY NetInitIInv, NetNextIInv, NetIInvImplies, PTL DEF NetSpec

(* pump_tls neither loses nor repeats a byte, whatever the send buffer of   *)
(* the socket takes.                                                        *)
THEOREM PumpConservesBytes == NetSpec => []BytesConserved
BY NetInitIInv, NetNextIInv, NetIInvImplies, PTL DEF NetSpec

(* Each sentinel of net.rs is printed at most once and the TCP probe        *)
(* connects at most once.                                                   *)
THEOREM ProbedOnce == NetSpec => []ProbesOnce
BY NetInitIInv, NetNextIInv, NetIInvImplies, PTL DEF NetSpec

-----------------------------------------------------------------------------
(* Part 3: module KbdRing.                                                  *)

SingleProducer == \A p, q \in Producers : p = q

(* A push works on the head it loaded, and the free slot it found stays     *)
(* free; a pop works on the tail it loaded, and the byte it found stays.    *)
ProducerOwnsHead ==
    \A p \in Producers :
        /\ ppc[p] # "idle" => p_head[p] = head /\ p_byte[p] \in Bytes
        /\ ppc[p] \in {"write", "store"} => NextSlot(head) # tail
        /\ ppc[p] = "store" => buf[head] = p_byte[p]

ConsumerOwnsTail ==
    /\ cpc \in {"load_head", "read", "store"} => c_tail = tail
    /\ cpc \in {"read", "store"} => head # tail
    /\ cpc = "store" => c_byte = buf[tail]

IInv == TypeOK /\ ProducerOwnsHead /\ ConsumerOwnsTail

-----------------------------------------------------------------------------
(* The modular arithmetic of the indices.                                   *)
LEMMA ModFacts ==
  ASSUME NEW m \in Nat \ {0}, NEW a \in 0 .. m - 1, NEW b \in 0 .. m - 1
  PROVE  /\ a % m = a
         /\ (a + b) % m = IF a + b < m THEN a + b ELSE a + b - m
         /\ (a - b) % m = IF a >= b THEN a - b ELSE a - b + m
         /\ (a + 1) % m = IF a = m - 1 THEN 0 ELSE a + 1
<1>1. ASSUME NEW x \in 0 .. m - 1 PROVE x % m = x /\ (x - m) % m = x /\ (x + m) % m = x
  BY SMTT(30)
<1>2. (a + b) % m = IF a + b < m THEN a + b ELSE a + b - m
  <2>1. CASE a + b < m
    BY <1>1, <2>1
  <2>2. CASE ~(a + b < m)
    <3>1. a + b - m \in 0 .. m - 1 /\ (a + b - m) + m = a + b
      BY <2>2
    <3> QED BY <1>1, <2>2, <3>1, Zenon
  <2> QED BY <2>1, <2>2, Zenon
<1>3. (a - b) % m = IF a >= b THEN a - b ELSE a - b + m
  <2>1. CASE a >= b
    BY <1>1, <2>1
  <2>2. CASE ~(a >= b)
    <3>1. a - b + m \in 0 .. m - 1 /\ (a - b + m) - m = a - b
      BY <2>2
    <3> QED BY <1>1, <2>2, <3>1, Zenon
  <2> QED BY <2>1, <2>2, Zenon
<1>4. (a + 1) % m = IF a = m - 1 THEN 0 ELSE a + 1
  <2>1. m % m = 0
    BY SMTT(30)
  <2> QED BY <1>1, <2>1
<1> QED BY <1>1, <1>2, <1>3, <1>4, Zenon

(* The next index, without the remainder.                                   *)
LEMMA NextSlotIs ==
  ASSUME NEW i \in Slots
  PROVE  /\ NextSlot(i) = IF i = RingSize - 1 THEN 0 ELSE i + 1
         /\ NextSlot(i) \in Slots
         /\ NextSlot(i) # i
<1>1. RingSize \in Nat \ {0} /\ RingSize > 1 /\ i \in 0 .. RingSize - 1
  BY SizesAssumption DEF Slots
<1>2. (i + 1) % RingSize = IF i = RingSize - 1 THEN 0 ELSE i + 1
  BY <1>1, ModFacts, Zenon
<1> QED BY <1>1, <1>2 DEF NextSlot, Slots

(* The next index tells the slots apart.                                    *)
LEMMA NextSlotInjective ==
  ASSUME NEW i \in Slots, NEW j \in Slots, i # j PROVE NextSlot(i) # NextSlot(j)
BY NextSlotIs DEF Slots

-----------------------------------------------------------------------------
(* The empty ring satisfies the invariant.                                  *)
LEMMA InitInv == Init => IInv
BY SizesAssumption, BytesAssumption
   DEF Init, IInv, TypeOK, ProducerOwnsHead, ConsumerOwnsTail, Slots

(* Every step of a push keeps it.                                           *)
LEMMA PushInv ==
  ASSUME SingleProducer, IInv, NEW p \in Producers,
         PushStep(p) \/ \E b \in Bytes : RingPush(p, b)
  PROVE  IInv'
<1> USE DEF IInv, TypeOK, consumerVars
<1>1. ASSUME NEW b \in Bytes, RingPush(p, b) PROVE IInv'
  BY <1>1, Zenon DEF RingPush, ProducerOwnsHead, ConsumerOwnsTail, SingleProducer
<1>2. CASE LoadTail(p)
  BY <1>2, Zenon DEF LoadTail, ProducerOwnsHead, ConsumerOwnsTail, SingleProducer
<1>3. CASE CountDropped(p)
  <2>1. DROPPED' \in 0 .. CountMod - 1
    BY <1>3, SizesAssumption DEF CountDropped
  <2> QED BY <1>3, <2>1, Zenon DEF CountDropped, ProducerOwnsHead, ConsumerOwnsTail, SingleProducer
<1>4. CASE WriteSlot(p)
  BY <1>4, Zenon DEF WriteSlot, ProducerOwnsHead, ConsumerOwnsTail, SingleProducer
<1>5. CASE StoreHead(p)
  <2>1. head' = NextSlot(head) /\ head' \in Slots /\ head' # tail
    BY <1>5, NextSlotIs, Zenon DEF StoreHead, ProducerOwnsHead
  <2> QED BY <1>5, <2>1, Zenon DEF StoreHead, ProducerOwnsHead, ConsumerOwnsTail, SingleProducer
<1> QED BY <1>1, <1>2, <1>3, <1>4, <1>5, Zenon DEF PushStep

(* Every step of the shell keeps it.                                        *)
LEMMA ShellInv == ASSUME IInv, ShellStep PROVE IInv'
<1> USE DEF IInv, TypeOK, producerVars
<1>1. CASE RingPop
  BY <1>1, Zenon DEF RingPop, ProducerOwnsHead, ConsumerOwnsTail
<1>2. CASE LoadHead
  BY <1>2, Zenon DEF LoadHead, ProducerOwnsHead, ConsumerOwnsTail
<1>3. CASE ReadSlot
  BY <1>3, Zenon DEF ReadSlot, ProducerOwnsHead, ConsumerOwnsTail
<1>4. CASE StoreTail
  <2>1. tail' = NextSlot(tail) /\ tail' \in Slots /\ NextSlot(head) # tail'
    BY <1>4, NextSlotIs, NextSlotInjective, Zenon DEF StoreTail, ConsumerOwnsTail
  <2> QED BY <1>4, <2>1, Zenon DEF StoreTail, ProducerOwnsHead, ConsumerOwnsTail
<1>5. CASE Edit
  BY <1>5, SizesAssumption DEF Edit, ProducerOwnsHead, ConsumerOwnsTail
<1> QED BY <1>1, <1>2, <1>3, <1>4, <1>5, Zenon DEF ShellStep

(* Every step of the system keeps it.                                       *)
LEMMA StepInv == SingleProducer => (IInv /\ [Next]_vars => IInv')
<1> SUFFICES ASSUME SingleProducer, IInv, [Next]_vars PROVE IInv'
    BY Zenon
<1>1. CASE UNCHANGED vars
  BY <1>1, Zenon DEF vars, IInv, TypeOK, ProducerOwnsHead, ConsumerOwnsTail
<1> QED BY <1>1, PushInv, ShellInv, Zenon DEF Next

(* The inductive invariant of the single-producer ring.                     *)
THEOREM RingInvariant == SingleProducer => (Spec => []IInv)
<1> SUFFICES ASSUME SingleProducer PROVE Spec => []IInv
    BY Zenon
<1>1. IInv /\ [Next]_vars => IInv'
  BY StepInv, Zenon
<1> QED BY InitInv, <1>1, PTL DEF Spec

(* Indices and locals stay in range for every ring size.                    *)
THEOREM RingTypeCorrect == SingleProducer => (Spec => []TypeOK)
<1>1. IInv => TypeOK
  BY Zenon DEF IInv
<1> QED BY <1>1, RingInvariant, PTL

(* The claim in kbd.rs that producer and consumer never touch one slot.     *)
THEOREM RingSlotsDisjoint == SingleProducer => (Spec => []SlotsDisjoint)
<1>1. IInv => SlotsDisjoint
  BY Zenon DEF IInv, ProducerOwnsHead, ConsumerOwnsTail, SlotsDisjoint
<1> QED BY <1>1, RingInvariant, PTL

-----------------------------------------------------------------------------
(* The bytes in the ring.                                                   *)
SlotAt(i) == (tail + i - 1) % RingSize

(* How many there are, without the remainder.                               *)
LEMMA OccupiedIs ==
  ASSUME TypeOK
  PROVE  /\ Occupied = IF head >= tail THEN head - tail ELSE head - tail + RingSize
         /\ Occupied \in 0 .. RingSize - 1
<1>1. /\ RingSize \in Nat \ {0}
      /\ head \in 0 .. RingSize - 1 /\ tail \in 0 .. RingSize - 1
  BY SizesAssumption DEF TypeOK, Slots
<1>2. Occupied = IF head >= tail THEN head - tail ELSE head - tail + RingSize
  BY <1>1, ModFacts, Zenon DEF Occupied
<1> QED BY <1>1, <1>2

(* The slot of the i-th byte, without the remainder.                        *)
LEMMA SlotAtIs ==
  ASSUME TypeOK, NEW i \in 1 .. RingSize
  PROVE  /\ SlotAt(i) = IF tail + i - 1 < RingSize THEN tail + i - 1
                                                   ELSE tail + i - 1 - RingSize
         /\ SlotAt(i) \in Slots
<1>1. /\ RingSize \in Nat \ {0} /\ tail \in 0 .. RingSize - 1
      /\ i - 1 \in 0 .. RingSize - 1 /\ tail + (i - 1) = tail + i - 1
  BY SizesAssumption DEF TypeOK, Slots
<1>2. (tail + (i - 1)) % RingSize = IF tail + (i - 1) < RingSize
                                    THEN tail + (i - 1) ELSE tail + (i - 1) - RingSize
  BY <1>1, ModFacts, Zenon
<1> QED BY <1>1, <1>2 DEF SlotAt, Slots

(* The queue of the refinement mapping is a sequence of that length.        *)
LEMMA ContentsIs ==
  ASSUME TypeOK
  PROVE  /\ Contents = [i \in 1 .. Occupied |-> buf[SlotAt(i)]]
         /\ Contents \in Seq(Bytes \cup {NoByte})
         /\ Len(Contents) = Occupied
<1>1. Occupied \in Nat /\ Occupied < RingSize /\ RingSize \in Nat
  BY OccupiedIs, SizesAssumption
<1>2. \A i \in 1 .. Occupied : buf[SlotAt(i)] \in Bytes \cup {NoByte}
  BY <1>1, SlotAtIs DEF TypeOK
<1>3. Contents = [i \in 1 .. Occupied |-> buf[SlotAt(i)]]
  BY Zenon DEF Contents, SlotAt
<1> QED BY <1>1, <1>2, <1>3

(* The index behind the last byte is head, and no byte lives there.         *)
LEMMA HeadIsFree ==
  ASSUME TypeOK
  PROVE  /\ SlotAt(Occupied + 1) = head
         /\ \A i \in 1 .. Occupied : SlotAt(i) # head
<1>1. /\ RingSize \in Nat /\ RingSize > 1
      /\ head \in 0 .. RingSize - 1 /\ tail \in 0 .. RingSize - 1
  BY SizesAssumption, Zenon DEF TypeOK, Slots
<1>2. Occupied \in Nat /\ Occupied + 1 \in 1 .. RingSize
  BY <1>1, OccupiedIs
<1>3. SlotAt(Occupied + 1) = head
  <2> DEFINE k == Occupied + 1
  <2>1. SlotAt(k) = IF tail + k - 1 < RingSize THEN tail + k - 1 ELSE tail + k - 1 - RingSize
    BY <1>2, SlotAtIs, Zenon
  <2> QED BY <2>1, <1>1, <1>2, OccupiedIs
<1>4. ASSUME NEW i \in 1 .. Occupied PROVE SlotAt(i) # head
  BY <1>1, <1>2, OccupiedIs, SlotAtIs
<1> QED BY <1>3, <1>4, Zenon

(* A step that leaves the indices and the occupied slots alone leaves the   *)
(* queue alone.                                                             *)
LEMMA ContentsKept ==
  ASSUME TypeOK, UNCHANGED <<head, tail>>,
         \A i \in 1 .. Occupied : buf'[SlotAt(i)] = buf[SlotAt(i)]
  PROVE  Contents' = Contents
<1>1. Occupied' = Occupied /\ \A i \in 1 .. Occupied : SlotAt(i)' = SlotAt(i)
  BY Zenon DEF Occupied, SlotAt
<1>2. Contents' = [i \in 1 .. Occupied' |-> buf'[SlotAt(i)']]
  BY Zenon DEF Contents, SlotAt
<1> QED BY <1>1, <1>2, ContentsIs, Zenon

(* StoreHead appends the byte that was written.                             *)
LEMMA StoreHeadPushes ==
  ASSUME TypeOK, TypeOK', NextSlot(head) # tail, head' = NextSlot(head),
         UNCHANGED <<buf, tail>>
  PROVE  Contents' = Append(Contents, buf[head]) /\ Len(Contents) < RingSize - 1
<1>1. /\ RingSize \in Nat /\ RingSize > 1
      /\ head \in 0 .. RingSize - 1 /\ tail \in 0 .. RingSize - 1
      /\ head' = IF head = RingSize - 1 THEN 0 ELSE head + 1
  BY NextSlotIs, SizesAssumption, Zenon DEF TypeOK, Slots
<1>2. Occupied' = IF head' >= tail THEN head' - tail ELSE head' - tail + RingSize
  <2>1. head' \in 0 .. RingSize - 1 /\ RingSize \in Nat \ {0} /\ Occupied' = (head' - tail) % RingSize
    BY <1>1 DEF Occupied
  <2> HIDE DEF Occupied
  <2>2. ASSUME NEW h \in 0 .. RingSize - 1
        PROVE  (h - tail) % RingSize = IF h >= tail THEN h - tail ELSE h - tail + RingSize
    BY <1>1, <2>1, ModFacts, Zenon
  <2> QED BY <2>1, <2>2, Zenon
<1>3. Occupied' = Occupied + 1 /\ Occupied \in Nat /\ Occupied < RingSize - 1
  BY <1>1, <1>2, OccupiedIs
<1>4. Contents' = [i \in 1 .. Occupied + 1 |-> buf[SlotAt(i)]]
  BY <1>3, Zenon DEF Contents, SlotAt
<1>5. /\ Contents = [i \in 1 .. Occupied |-> buf[SlotAt(i)]]
      /\ Contents \in Seq(Bytes \cup {NoByte}) /\ Len(Contents) = Occupied
      /\ SlotAt(Occupied + 1) = head
  BY ContentsIs, HeadIsFree, Zenon
<1>6. Append(Contents, buf[head])
        = [i \in 1 .. Occupied + 1 |-> IF i = Occupied + 1 THEN buf[head] ELSE Contents[i]]
  BY <1>3, <1>5
<1>7. \A i \in 1 .. Occupied + 1 :
        buf[SlotAt(i)] = IF i = Occupied + 1 THEN buf[head] ELSE Contents[i]
  BY <1>3, <1>5
<1> QED BY <1>3, <1>4, <1>5, <1>6, <1>7, Zenon

(* StoreTail removes the byte that was read.                                *)
LEMMA StoreTailDelivers ==
  ASSUME TypeOK, TypeOK', head # tail, tail' = NextSlot(tail), UNCHANGED <<buf, head>>
  PROVE  /\ Contents # <<>>
         /\ Contents' = Tail(Contents)
         /\ Head(Contents) = buf[tail]
<1>1. /\ RingSize \in Nat /\ RingSize > 1
      /\ head \in 0 .. RingSize - 1 /\ tail \in 0 .. RingSize - 1
      /\ tail' = IF tail = RingSize - 1 THEN 0 ELSE tail + 1
  BY NextSlotIs, SizesAssumption, Zenon DEF TypeOK, Slots
<1>2. ASSUME NEW t \in 0 .. RingSize - 1
      PROVE  /\ (head - t) % RingSize = IF head >= t THEN head - t ELSE head - t + RingSize
             /\ \A j \in 0 .. RingSize - 1 :
                  (t + j) % RingSize = IF t + j < RingSize THEN t + j ELSE t + j - RingSize
  <2>1. RingSize \in Nat \ {0}
    BY <1>1
  <2>2. (head - t) % RingSize = IF head >= t THEN head - t ELSE head - t + RingSize
    BY <1>1, <2>1, ModFacts, Zenon
  <2>3. ASSUME NEW j \in 0 .. RingSize - 1
        PROVE  (t + j) % RingSize = IF t + j < RingSize THEN t + j ELSE t + j - RingSize
    BY <2>1, ModFacts, Zenon
  <2> QED BY <2>2, <2>3, Zenon
<1>3. tail' \in 0 .. RingSize - 1 /\ Occupied' = (head - tail') % RingSize
  <2>1. tail' \in 0 .. RingSize - 1
    BY <1>1
  <2> QED BY <2>1, Zenon DEF Occupied
<1>4. Occupied' = IF head >= tail' THEN head - tail' ELSE head - tail' + RingSize
  BY <1>2, <1>3, Zenon
<1>5. Occupied \in Nat /\ Occupied > 0 /\ Occupied < RingSize /\ Occupied' = Occupied - 1
  BY <1>1, <1>4, OccupiedIs
<1>6. ASSUME NEW i \in 1 .. Occupied - 1 PROVE SlotAt(i)' = SlotAt(i + 1)
  <2>1. i - 1 \in 0 .. RingSize - 1 /\ i + 1 \in 1 .. RingSize
    BY <1>1, <1>5
  <2>2. SlotAt(i)' = (tail' + (i - 1)) % RingSize
    BY <1>1, <1>3, <2>1, Zenon DEF SlotAt
  <2>3. SlotAt(i)' = IF tail' + (i - 1) < RingSize THEN tail' + (i - 1)
                                                  ELSE tail' + (i - 1) - RingSize
    BY <1>2, <1>3, <2>1, <2>2, Zenon
  <2>4. SlotAt(i + 1) = IF tail + (i + 1) - 1 < RingSize THEN tail + (i + 1) - 1
                                                        ELSE tail + (i + 1) - 1 - RingSize
    BY <2>1, SlotAtIs, Zenon
  <2> QED BY <1>1, <1>5, <2>1, <2>3, <2>4
<1>7. Contents' = [i \in 1 .. Occupied - 1 |-> buf[SlotAt(i)']]
  BY <1>5, Zenon DEF Contents, SlotAt
<1>8. /\ Contents = [i \in 1 .. Occupied |-> buf[SlotAt(i)]]
      /\ Contents \in Seq(Bytes \cup {NoByte}) /\ Len(Contents) = Occupied
  BY ContentsIs, Zenon
<1>9. Tail(Contents) = [i \in 1 .. Occupied - 1 |-> Contents[i + 1]]
  BY <1>5, <1>8
<1>10. \A i \in 1 .. Occupied - 1 : buf[SlotAt(i)'] = Contents[i + 1]
  BY <1>5, <1>6, <1>8
<1>11. SlotAt(1) = tail
  <2>1. 1 \in 1 .. RingSize
    BY <1>1
  <2> QED BY <1>1, <2>1, SlotAtIs
<1>12. Contents # <<>> /\ Head(Contents) = buf[tail]
  BY <1>5, <1>8, <1>11
<1>13. Contents' = Tail(Contents)
  BY <1>7, <1>9, <1>10, Zenon
<1> QED BY <1>12, <1>13, Zenon

-----------------------------------------------------------------------------
(* The refused bytes, with one producer.                                    *)
LEMMA RefusedIs ==
  ASSUME SingleProducer, TypeOK, NEW p \in Producers
  PROVE  Refused = IF ppc[p] = "full" THEN (DROPPED + 1) % CountMod ELSE DROPPED
<1>1. (\E q \in Producers : ppc[q] = "full") <=> ppc[p] = "full"
  BY Zenon DEF SingleProducer
<1>2. CountMod \in Nat \ {0} /\ DROPPED \in 0 .. CountMod - 1
  BY SizesAssumption, Zenon DEF TypeOK
<1>3. DROPPED % CountMod = DROPPED /\ DROPPED + 0 = DROPPED
  BY <1>2, ModFacts
<1> QED BY <1>1, <1>3, Zenon DEF Refused

(* The empty ring is the empty queue.                                       *)
LEMMA RefinesInit == Init => Fifo!Init
<1> SUFFICES ASSUME Init PROVE Fifo!Init
    BY Zenon
<1>1. TypeOK
  BY InitInv, Zenon DEF IInv
<1>2. Occupied = 0
  BY <1>1, OccupiedIs DEF Init
<1>3. Contents = <<>>
  BY <1>1, <1>2, ContentsIs
<1>4. Refused = 0
  <2>1. ~ \E p \in Producers : ppc[p] = "full"
    BY Zenon DEF Init
  <2>2. CountMod \in Nat \ {0} /\ 0 \in 0 .. CountMod - 1
    BY SizesAssumption
  <2>3. 0 % CountMod = 0
    BY <2>2, ModFacts, Zenon
  <2> QED BY <2>1, <2>3 DEF Init, Refused
<1> QED BY <1>3, <1>4, BytesAssumption, Zenon DEF Init, Fifo!Init

(* Every step of a push is a Push, a Drop or nothing to the queue.          *)
LEMMA PushRefines ==
  ASSUME SingleProducer, IInv, IInv', NEW p \in Producers,
         PushStep(p) \/ \E b \in Bytes : RingPush(p, b)
  PROVE  Fifo!Next \/ UNCHANGED Fifo!fifoVars
<1>1. /\ TypeOK /\ TypeOK' /\ received' = received
      /\ ppc \in [Producers -> {"idle", "load_tail", "full", "write", "store"}]
  BY Zenon DEF IInv, TypeOK, PushStep, LoadTail, CountDropped, WriteSlot, StoreHead, RingPush,
         consumerVars
<1>2. /\ Refused = IF ppc[p] = "full" THEN (DROPPED + 1) % CountMod ELSE DROPPED
      /\ Refused' = IF ppc'[p] = "full" THEN (DROPPED' + 1) % CountMod ELSE DROPPED'
  <2>1. Refused = IF ppc[p] = "full" THEN (DROPPED + 1) % CountMod ELSE DROPPED
    BY <1>1, RefusedIs, Zenon
  <2>2. (\E q \in Producers : ppc'[q] = "full") <=> ppc'[p] = "full"
    BY Zenon DEF SingleProducer
  <2>3. CountMod \in Nat \ {0} /\ DROPPED' \in 0 .. CountMod - 1
    BY <1>1, SizesAssumption, Zenon DEF TypeOK
  <2>4. DROPPED' % CountMod = DROPPED' /\ DROPPED' + 0 = DROPPED'
    <3>1. ASSUME NEW d \in 0 .. CountMod - 1 PROVE d % CountMod = d /\ d + 0 = d
      BY <2>3, ModFacts
    <3> QED BY <2>3, <3>1, Zenon
  <2>5. Refused' = IF ppc'[p] = "full" THEN (DROPPED' + 1) % CountMod ELSE DROPPED'
    BY <2>2, <2>4, Zenon DEF Refused
  <2> QED BY <2>1, <2>5, Zenon
<1>3. ASSUME NEW b \in Bytes, RingPush(p, b) PROVE UNCHANGED Fifo!fifoVars
  <2>1. Contents' = Contents
    BY <1>1, <1>3, ContentsKept, Zenon DEF RingPush
  <2> QED BY <1>1, <1>2, <1>3, <2>1, Zenon DEF RingPush, Fifo!fifoVars
<1>4. CASE LoadTail(p)
  <2>1. Contents' = Contents /\ DROPPED' = DROPPED /\ ppc[p] = "load_tail"
    BY <1>1, <1>4, ContentsKept, Zenon DEF LoadTail
  <2>2. CASE NextSlot(head) = tail
    <3>1. ppc'[p] = "full"
      BY <1>1, <1>4, <2>2, Zenon DEF LoadTail, IInv, ProducerOwnsHead
    <3>2. Len(Contents) = RingSize - 1
      <4>1. /\ RingSize \in Nat /\ RingSize > 1
            /\ head \in 0 .. RingSize - 1 /\ tail \in 0 .. RingSize - 1
            /\ tail = IF head = RingSize - 1 THEN 0 ELSE head + 1
        BY <1>1, <2>2, NextSlotIs, SizesAssumption, Zenon DEF TypeOK, Slots
      <4>2. Occupied = RingSize - 1
        BY <1>1, <4>1, OccupiedIs
      <4> QED BY <1>1, <4>2, ContentsIs, Zenon
    <3>3. Refused' = (Refused + 1) % CountMod
      BY <1>2, <2>1, <3>1, Zenon
    <3>4. Fifo!Drop
      BY <1>1, <2>1, <3>2, <3>3, Zenon DEF Fifo!Drop
    <3> QED BY <3>4, Zenon DEF Fifo!Next
  <2>3. CASE NextSlot(head) # tail
    <3>1. ppc'[p] = "write"
      BY <1>1, <1>4, <2>1, <2>3, Zenon DEF LoadTail, IInv, ProducerOwnsHead
    <3> QED BY <1>1, <1>2, <2>1, <3>1, Zenon DEF Fifo!fifoVars
  <2> QED BY <2>2, <2>3, Zenon
<1>5. CASE CountDropped(p)
  <2>1. /\ Contents' = Contents /\ ppc[p] = "full" /\ ppc'[p] = "idle"
        /\ DROPPED' = (DROPPED + 1) % CountMod
    BY <1>1, <1>5, ContentsKept, Zenon DEF CountDropped
  <2> QED BY <1>1, <1>2, <2>1, Zenon DEF Fifo!fifoVars
<1>6. CASE WriteSlot(p)
  <2>1. /\ buf' = [buf EXCEPT ![head] = p_byte[p]] /\ UNCHANGED <<head, tail, DROPPED>>
        /\ ppc[p] = "write" /\ ppc'[p] = "store"
    BY <1>1, <1>6, Zenon DEF WriteSlot, IInv, ProducerOwnsHead
  <2>2. \A i \in 1 .. Occupied : buf'[SlotAt(i)] = buf[SlotAt(i)]
    <3>1. \A i \in 1 .. Occupied : SlotAt(i) # head /\ SlotAt(i) \in Slots
      BY <1>1, HeadIsFree, SlotAtIs, OccupiedIs, SizesAssumption
    <3> QED BY <1>1, <2>1, <3>1, Zenon DEF TypeOK
  <2>3. Contents' = Contents
    BY <1>1, <2>1, <2>2, ContentsKept, Zenon
  <2> QED BY <1>1, <1>2, <2>1, <2>3, Zenon DEF Fifo!fifoVars
<1>7. CASE StoreHead(p)
  <2>1. /\ head' = NextSlot(head) /\ NextSlot(head) # tail
        /\ buf[head] = p_byte[p] /\ p_byte[p] \in Bytes
        /\ UNCHANGED <<buf, tail, DROPPED>> /\ ppc[p] = "store" /\ ppc'[p] = "idle"
    BY <1>1, <1>7, Zenon DEF StoreHead, IInv, ProducerOwnsHead
  <2>2. Contents' = Append(Contents, buf[head]) /\ Len(Contents) < RingSize - 1
    BY <1>1, <2>1, StoreHeadPushes, Zenon
  <2>3. Fifo!Push(p_byte[p])
    BY <1>1, <1>2, <2>1, <2>2, Zenon DEF Fifo!Push
  <2> QED BY <2>1, <2>3, Zenon DEF Fifo!Next
<1> QED BY <1>3, <1>4, <1>5, <1>6, <1>7, Zenon DEF PushStep

(* Every step of the shell is a Deliver or nothing to the queue.            *)
LEMMA ShellRefines ==
  ASSUME IInv, IInv', ShellStep
  PROVE  Fifo!Next \/ UNCHANGED Fifo!fifoVars
<1>1. TypeOK /\ TypeOK' /\ Refused' = Refused
  BY Zenon DEF IInv, Refused, ShellStep, RingPop, LoadHead, ReadSlot, StoreTail, Edit, producerVars
<1>2. CASE RingPop \/ LoadHead \/ ReadSlot \/ Edit
  <2>1. UNCHANGED <<buf, head, tail, received>>
    BY <1>2, Zenon DEF RingPop, LoadHead, ReadSlot, Edit
  <2>2. Contents' = Contents
    BY <1>1, <2>1, ContentsKept, Zenon
  <2> QED BY <1>1, <2>1, <2>2, Zenon DEF Fifo!fifoVars
<1>3. CASE StoreTail
  <2>1. /\ tail' = NextSlot(tail) /\ head # tail /\ UNCHANGED <<buf, head>>
        /\ received' = buf[tail]
    BY <1>3, Zenon DEF StoreTail, IInv, ConsumerOwnsTail
  <2>2. Contents # <<>> /\ Contents' = Tail(Contents) /\ Head(Contents) = buf[tail]
    BY <1>1, <2>1, StoreTailDelivers, Zenon
  <2>3. Fifo!Deliver
    BY <1>1, <2>1, <2>2, Zenon DEF Fifo!Deliver
  <2> QED BY <2>3, Zenon DEF Fifo!Next
<1> QED BY <1>2, <1>3, Zenon DEF ShellStep

(* ring_push and ring_pop implement the bounded FIFO that the shell relies  *)
(* on, for every ring size, when one producer feeds the ring.               *)
THEOREM RingRefinesFifo == SingleProducer => (Spec => RingIsFifo)
<1> SUFFICES ASSUME SingleProducer PROVE Spec => Fifo!Spec
    BY Zenon DEF RingIsFifo
<1>1. IInv /\ IInv' /\ [Next]_vars => [Fifo!Next]_Fifo!fifoVars
  <2> SUFFICES ASSUME IInv, IInv', [Next]_vars
               PROVE  Fifo!Next \/ UNCHANGED Fifo!fifoVars
      BY Zenon
  <2>1. CASE UNCHANGED vars
    BY <2>1, Zenon DEF vars, Fifo!fifoVars, Contents, Occupied, Refused
  <2> QED BY <2>1, PushRefines, ShellRefines, Zenon DEF Next
<1> QED BY RefinesInit, RingInvariant, <1>1, PTL DEF Spec, Fifo!Spec

-----------------------------------------------------------------------------
(* Part 4: module Keyboard.                                                 *)

(* A decoder inside a sequence or not, with the shift keys h down.          *)
Decoders == [e0 : BOOLEAN, e1 : 0 .. 2, l : BOOLEAN, r : BOOLEAN]
Like(d, e0, e1, h) ==
    /\ d \in Decoders /\ d.e0 = e0 /\ d.e1 = e1
    /\ d.l = TRUE <=> "L" \in h
    /\ d.r = TRUE <=> "R" \in h
AtRest(d, h) == Like(d, FALSE, 0, h)

(* decode_scancode of sc in d, after m characters of the text, adds the     *)
(* next one of it, or none.                                                 *)
Adds(d, sc, m, k, text) ==
    \/ k = m /\ Decoded(d, sc) = <<>>
    \/ k = m + 1 /\ k <= Len(text) /\ Decoded(d, sc) = <<text[k]>>

(* From decoder d and m characters of the text, the bytes s lead to decoder *)
(* e and all of the text: ds[i] and ts[i] are what i of them lead to.       *)
Leads(d, m, s, e, text) ==
    \E ds, ts :
        /\ ds[0] = d /\ ts[0] = m
        /\ \A i \in 0 .. Len(s) : ts[i] \in Nat
        /\ \A i \in 1 .. Len(s) :
              ds[i] = Decode(ds[i - 1], s[i]) /\ Adds(ds[i - 1], s[i], ts[i - 1], ts[i], text)
        /\ ds[Len(s)] = e /\ ts[Len(s)] = Len(text)

(* They lead to a decoder with the shift keys h down.                       *)
Ends(d, m, s, e0, e1, h, text) == \E e : Leads(d, m, s, e, text) /\ Like(e, e0, e1, h)

(* No bytes lead nowhere.                                                   *)
LEMMA LeadsNowhere ==
  ASSUME NEW d, NEW m, NEW e, NEW text
  PROVE  /\ Leads(d, m, <<>>, e, text) => d = e /\ m = Len(text)
         /\ d = e /\ m = Len(text) /\ m \in Nat => Leads(d, m, <<>>, e, text)
  <1>1. Leads(d, m, <<>>, e, text) => d = e /\ m = Len(text)
    BY Zenon DEF Leads
  <1>2. ASSUME d = e, m = Len(text), m \in Nat
        PROVE  Leads(d, m, <<>>, e, text)
    <2> DEFINE ds == [i \in {0} |-> d]
    <2> DEFINE ts == [i \in {0} |-> m]
    <2>1. ds[0] = d /\ ts[0] = m /\ Len(<<>>) = 0
      BY Zenon
    <2>2. \A i \in 0 .. Len(<<>>) : ts[i] \in Nat
      BY <1>2, <2>1
    <2>3. 1 .. Len(<<>>) = {}
      BY <2>1
    <2> HIDE DEF ds, ts
    <2> QED
      BY <1>2, <2>1, <2>2, <2>3, Zenon DEF Leads
  <1> QED
    BY <1>1, <1>2, Zenon

(* The first byte is handled.                                               *)
LEMMA LeadsOn ==
  ASSUME NEW S, NEW b \in S, NEW s \in Seq(S), NEW d, NEW m, NEW e, NEW text,
         Leads(d, m, <<b>> \o s, e, text)
  PROVE  \E k \in Nat : Adds(d, b, m, k, text) /\ Leads(Decode(d, b), k, s, e, text)
  <1> DEFINE q == <<b>> \o s
  <1>1. q \in Seq(S) /\ Len(q) = Len(s) + 1 /\ q[1] = b /\ \A i \in 1 .. Len(s) : q[i + 1] = s[i]
    OBVIOUS
  <1> HIDE DEF q
  <1>2. PICK ds, ts :
            /\ ds[0] = d /\ ts[0] = m
            /\ \A i \in 0 .. Len(q) : ts[i] \in Nat
            /\ \A i \in 1 .. Len(q) :
                  ds[i] = Decode(ds[i - 1], q[i]) /\ Adds(ds[i - 1], q[i], ts[i - 1], ts[i], text)
            /\ ds[Len(q)] = e /\ ts[Len(q)] = Len(text)
    BY Zenon DEF Leads, q
  <1>3. Len(s) \in Nat
    OBVIOUS
  <1>4. 1 \in 1 .. Len(q) /\ 1 \in 0 .. Len(q) /\ 1 - 1 = 0
    BY <1>1, <1>3
  <1>5. ds[1] = Decode(d, b) /\ Adds(d, b, m, ts[1], text) /\ ts[1] \in Nat
    BY <1>1, <1>2, <1>4, Zenon
  <1>6. /\ 0 \in 0 .. Len(s) /\ Len(s) \in 0 .. Len(s) /\ 0 + 1 = 1 /\ Len(s) + 1 = Len(q)
        /\ \A i \in 0 .. Len(s) : i + 1 \in 0 .. Len(q)
    BY <1>1, <1>3
  <1>7. \A i \in 1 .. Len(s) : /\ i \in 0 .. Len(s) /\ i - 1 \in 0 .. Len(s) /\ (i - 1) + 1 = i
                               /\ i + 1 \in 1 .. Len(q) /\ (i + 1) - 1 = i
    BY <1>1, <1>3
  <1> DEFINE es == [i \in 0 .. Len(s) |-> ds[i + 1]]
  <1> DEFINE us == [i \in 0 .. Len(s) |-> ts[i + 1]]
  <1>8. \A i \in 0 .. Len(s) : es[i] = ds[i + 1] /\ us[i] = ts[i + 1]
    BY Zenon
  <1> HIDE DEF es, us
  <1>9. /\ es[0] = ds[1] /\ us[0] = ts[1] /\ es[Len(s)] = e /\ us[Len(s)] = Len(text)
        /\ \A i \in 0 .. Len(s) : us[i] \in Nat
    BY <1>2, <1>6, <1>8, Zenon
  <1>10. ASSUME NEW i \in 1 .. Len(s)
         PROVE  es[i] = Decode(es[i - 1], s[i]) /\ Adds(es[i - 1], s[i], us[i - 1], us[i], text)
    <2>1. es[i] = ds[i + 1] /\ es[i - 1] = ds[i] /\ us[i] = ts[i + 1] /\ us[i - 1] = ts[i]
      BY <1>7, <1>8, Zenon
    <2>2. ds[i + 1] = Decode(ds[i], s[i]) /\ Adds(ds[i], s[i], ts[i], ts[i + 1], text)
      BY <1>1, <1>2, <1>7, Zenon
    <2> QED
      BY <2>1, <2>2, Zenon
  <1>11. Leads(ds[1], ts[1], s, e, text)
    BY <1>9, <1>10, Zenon DEF Leads
  <1> QED
    BY <1>5, <1>11, Zenon

(* The text grows: what was decoded stays what it was.                      *)
LEMMA AddsMore ==
  ASSUME NEW C, NEW text \in Seq(C), NEW c \in C, NEW d, NEW sc, NEW m \in Nat, NEW k \in Nat,
         Adds(d, sc, m, k, text)
  PROVE  Adds(d, sc, m, k, Append(text, c))
  BY DEF Adds

(* The indices of a sequence that gets one more element.                    *)
LEMMA OneMore ==
  ASSUME NEW n \in Nat
  PROVE  /\ 0 \in 0 .. n + 1 /\ n \in 0 .. n + 1 /\ n + 1 \in 0 .. n + 1
         /\ 0 # n + 1 /\ n # n + 1
         /\ \A i \in 0 .. n + 1 : i # n + 1 => i \in 0 .. n
         /\ \A i \in 1 .. n + 1 : /\ i \in 0 .. n + 1 /\ i - 1 \in 0 .. n + 1 /\ i - 1 # n + 1
                                  /\ i = n + 1 => i - 1 = n
                                  /\ i # n + 1 => i \in 1 .. n
  OBVIOUS

(* A byte follows: it adds a character to the text, or none.                *)
LEMMA LeadsFurther ==
  ASSUME NEW S, NEW b \in S, NEW s \in Seq(S), NEW d, NEW m, NEW e,
         NEW C, NEW text \in Seq(C), NEW more \in Seq(C),
         Leads(d, m, s, e, text),
         \/ more = text /\ Decoded(e, b) = <<>>
         \/ \E c \in C : more = Append(text, c) /\ Decoded(e, b) = <<c>>
  PROVE  Leads(d, m, Append(s, b), Decode(e, b), more)
  <1> DEFINE q == Append(s, b)
  <1> DEFINE n == Len(s)
  <1>1. q \in Seq(S) /\ Len(q) = n + 1 /\ q[n + 1] = b /\ n \in Nat /\ \A i \in 1 .. n : q[i] = s[i]
    OBVIOUS
  <1>2. PICK ds, ts :
            /\ ds[0] = d /\ ts[0] = m
            /\ \A i \in 0 .. n : ts[i] \in Nat
            /\ \A i \in 1 .. n :
                  ds[i] = Decode(ds[i - 1], s[i]) /\ Adds(ds[i - 1], s[i], ts[i - 1], ts[i], text)
            /\ ds[n] = e /\ ts[n] = Len(text)
    BY Zenon DEF Leads
  <1>3. Len(more) \in Nat /\ Adds(e, b, Len(text), Len(more), more)
    BY DEF Adds
  <1>4. \A i \in 1 .. n : Adds(ds[i - 1], s[i], ts[i - 1], ts[i], more)
    <2>1. ASSUME NEW i \in 1 .. n
          PROVE  Adds(ds[i - 1], s[i], ts[i - 1], ts[i], text) /\ ts[i] \in Nat /\ ts[i - 1] \in Nat
      <3>1. i \in 0 .. n /\ i - 1 \in 0 .. n
        BY <1>1, SMT
      <3> HIDE DEF n
      <3> QED
        BY <1>2, <3>1, Zenon
    <2>2. CASE more = text
      BY <2>1, <2>2, Zenon
    <2>3. CASE \E c \in C : more = Append(text, c)
      BY <2>1, <2>3, AddsMore, Zenon
    <2> QED
      BY <2>2, <2>3, Zenon
  <1> HIDE DEF n, q
  <1>5. /\ 0 \in 0 .. n + 1 /\ n \in 0 .. n + 1 /\ n + 1 \in 0 .. n + 1
        /\ 0 # n + 1 /\ n # n + 1
        /\ \A i \in 0 .. n + 1 : i # n + 1 => i \in 0 .. n
    BY <1>1, OneMore, Zenon
  <1>6. \A i \in 1 .. n + 1 : /\ i \in 0 .. n + 1 /\ i - 1 \in 0 .. n + 1 /\ i - 1 # n + 1
                              /\ i = n + 1 => i - 1 = n
                              /\ i # n + 1 => i \in 1 .. n
    BY <1>1, OneMore, Zenon
  <1> DEFINE es == [i \in 0 .. n + 1 |-> IF i = n + 1 THEN Decode(e, b) ELSE ds[i]]
  <1> DEFINE us == [i \in 0 .. n + 1 |-> IF i = n + 1 THEN Len(more) ELSE ts[i]]
  <1>7. /\ es[n + 1] = Decode(e, b) /\ us[n + 1] = Len(more)
        /\ \A i \in 0 .. n + 1 : i # n + 1 => es[i] = ds[i] /\ us[i] = ts[i]
    BY <1>5, Zenon
  <1> HIDE DEF es, us
  <1>8. /\ es[0] = d /\ us[0] = m /\ es[n] = e /\ us[n] = Len(text)
        /\ \A i \in 0 .. n + 1 : us[i] \in Nat
    BY <1>2, <1>3, <1>5, <1>7, Zenon
  <1>9. ASSUME NEW i \in 1 .. n + 1
        PROVE  es[i] = Decode(es[i - 1], q[i]) /\ Adds(es[i - 1], q[i], us[i - 1], us[i], more)
    <2>1. CASE i = n + 1
      <3>1. /\ es[i] = Decode(e, b) /\ es[i - 1] = e /\ q[i] = b
            /\ us[i] = Len(more) /\ us[i - 1] = Len(text)
        BY <1>1, <1>6, <1>7, <1>8, <2>1, Zenon
      <3> QED
        BY <1>3, <3>1, Zenon
    <2>2. CASE i # n + 1
      <3>1. i \in 1 .. n /\ i \in 0 .. n + 1 /\ i - 1 \in 0 .. n + 1 /\ i - 1 # n + 1
        BY <1>6, <2>2, Zenon
      <3>2. es[i] = ds[i] /\ us[i] = ts[i] /\ es[i - 1] = ds[i - 1] /\ us[i - 1] = ts[i - 1]
        BY <1>7, <2>2, <3>1, Zenon
      <3> QED
        BY <1>1, <1>2, <1>4, <3>1, <3>2, Zenon
    <2> QED
      BY <2>1, <2>2, Zenon
  <1>10. Leads(d, m, q, Decode(e, b), more)
    BY <1>1, <1>7, <1>8, <1>9, Zenon DEF Leads
  <1> QED
    BY <1>10, Zenon DEF q

-----------------------------------------------------------------------------
(* The bytes that were sent and not yet handled.                            *)
Sent == IF obf THEN <<data>> \o wire ELSE wire

Letters == {"upper", "lower"}

KTypes ==
    /\ wire \in Seq(Scancodes) /\ data \in Scancodes
    /\ obf \in BOOLEAN /\ irr \in BOOLEAN /\ ahead \in BOOLEAN
    /\ stage \in {"early", "routed", "drained", "up"}
    /\ out \in Seq(Letters) /\ typed \in Seq(Letters)
    /\ held \in SUBSET {"L", "R"}

(* Each byte in the buffer has its interrupt, and the bytes on their way    *)
(* lead from what was given to the ring to what was typed.                  *)
OnTheWay ==
    /\ stage # "up" => wire = <<>> /\ obf = FALSE
    /\ irr = obf
    /\ Len(out) <= Len(typed)
    /\ \A i \in 1 .. Len(out) : out[i] = typed[i]
    /\ Ends(decoder, Len(out), Sent, FALSE, 0, held, typed)

KInv ==
    /\ KTypes
    /\ stage # "early" => masked = FALSE
    /\ ahead = FALSE => OnTheWay

(* At the start nothing is on its way.                                      *)
LEMMA KInitInv == KeyboardInit => KInv
  <1> SUFFICES ASSUME KeyboardInit PROVE KInv
    BY Zenon
  <1>1. KTypes
    <2>1. "rel" \in Scancodes /\ <<>> \in Seq(Scancodes) /\ <<>> \in Seq(Letters)
      BY DEF Scancodes
    <2> QED
      BY <2>1, Zenon DEF KeyboardInit, KTypes
  <1>2. Sent = <<>> /\ Len(out) = 0 /\ Len(typed) = 0
    BY Zenon DEF KeyboardInit, Sent
  <1>3. Leads(decoder, Len(out), Sent, decoder, typed)
    BY <1>2, LeadsNowhere
  <1>4. AtRest(decoder, held)
    BY DEF KeyboardInit, AtRest, Like, Decoders
  <1>5. OnTheWay
    <2>1. Len(out) <= Len(typed) /\ \A i \in 1 .. Len(out) : out[i] = typed[i]
      BY <1>2
    <2> QED
      BY <1>3, <1>4, <2>1, Zenon DEF KeyboardInit, OnTheWay, Ends, AtRest
  <1> QED
    BY <1>1, <1>5, Zenon DEF KeyboardInit, KInv

(* What KInv says implies the property.                                     *)
LEMMA KInvImplies == KInv => TextIsWhatWasTyped
  <1> SUFFICES ASSUME KInv, ahead = FALSE
               PROVE  /\ Len(out) <= Len(typed)
                      /\ out = SubSeq(typed, 1, Len(out))
                      /\ Quiet => /\ out = typed
                                   /\ decoder = [e0 |-> FALSE, e1 |-> 0,
                                                 l |-> "L" \in held, r |-> "R" \in held]
    BY Zenon DEF TextIsWhatWasTyped, KInv, KTypes
  <1>1. KTypes /\ OnTheWay
    BY Zenon DEF KInv
  <1>2. out = SubSeq(typed, 1, Len(out))
    BY <1>1 DEF KTypes, OnTheWay
  <1>3. ASSUME Quiet
        PROVE  /\ out = typed
               /\ decoder = [e0 |-> FALSE, e1 |-> 0, l |-> "L" \in held, r |-> "R" \in held]
    <2>1. Sent = <<>>
      BY <1>3, <1>1, Zenon DEF Quiet, Sent, KTypes
    <2>2. AtRest(decoder, held) /\ Len(out) = Len(typed)
      BY <1>1, <2>1, LeadsNowhere, Zenon DEF OnTheWay, Ends, AtRest
    <2>3. out = typed
      BY <1>1, <2>2 DEF OnTheWay, KTypes
    <2>4. decoder = [e0 |-> FALSE, e1 |-> 0, l |-> "L" \in held, r |-> "R" \in held]
      BY <2>2 DEF AtRest, Like, Decoders
    <2> QED
      BY <2>3, <2>4, Zenon
  <1> QED
    BY <1>1, <1>2, <1>3, Zenon DEF OnTheWay

-----------------------------------------------------------------------------
(* decode_scancode outside of a sequence.                                   *)
LEMMA DecodeOutside ==
  ASSUME NEW d, d.e1 = 0, d.e0 = FALSE
  PROVE  /\ Decode(d, "E0") = [d EXCEPT !.e0 = TRUE]
         /\ Decode(d, "E1") = [d EXCEPT !.e1 = 2]
         /\ Decode(d, "LSP") = [d EXCEPT !.l = TRUE]
         /\ Decode(d, "LSR") = [d EXCEPT !.l = FALSE]
         /\ Decode(d, "RSP") = [d EXCEPT !.r = TRUE]
         /\ Decode(d, "RSR") = [d EXCEPT !.r = FALSE]
         /\ \A sc \in {"key", "other", "rel"} : Decode(d, sc) = d
  BY DEF Decode

(* decode_scancode inside of one.                                           *)
LEMMA DecodeInside ==
  ASSUME NEW d, NEW sc
  PROVE  /\ d.e1 = 0 /\ d.e0 = TRUE => Decode(d, sc) = [d EXCEPT !.e0 = FALSE]
         /\ d.e1 = 2 => Decode(d, sc) = [d EXCEPT !.e1 = 1]
         /\ d.e1 = 1 => Decode(d, sc) = [d EXCEPT !.e1 = 0]
  BY DEF Decode

(* A byte that starts a sequence, is in one, or is outside of any; and what *)
(* it adds to the text.                                                     *)
LEMMA DecodeStep ==
  ASSUME NEW d, NEW h
  PROVE  /\ AtRest(d, h) =>
              /\ Like(Decode(d, "E0"), TRUE, 0, h) /\ Like(Decode(d, "E1"), FALSE, 2, h)
              /\ AtRest(Decode(d, "LSP"), h \cup {"L"}) /\ AtRest(Decode(d, "LSR"), h \ {"L"})
              /\ AtRest(Decode(d, "RSP"), h \cup {"R"}) /\ AtRest(Decode(d, "RSR"), h \ {"R"})
              /\ \A sc \in {"key", "other", "rel"} : AtRest(Decode(d, sc), h)
         /\ Like(d, TRUE, 0, h) => \A sc : AtRest(Decode(d, sc), h)
         /\ Like(d, FALSE, 2, h) => \A sc : Like(Decode(d, sc), FALSE, 1, h)
         /\ Like(d, FALSE, 1, h) => \A sc : AtRest(Decode(d, sc), h)
  <1>1. AtRest(d, h) => Like([d EXCEPT !.e0 = TRUE], TRUE, 0, h)
    BY Zenon DEF AtRest, Like, Decoders
  <1>2. AtRest(d, h) => Like([d EXCEPT !.e1 = 2], FALSE, 2, h)
    BY DEF AtRest, Like, Decoders
  <1>3. AtRest(d, h) => AtRest([d EXCEPT !.l = TRUE], h \cup {"L"})
    BY Zenon DEF AtRest, Like, Decoders
  <1>4. AtRest(d, h) => AtRest([d EXCEPT !.l = FALSE], h \ {"L"})
    BY Zenon DEF AtRest, Like, Decoders
  <1>5. AtRest(d, h) => AtRest([d EXCEPT !.r = TRUE], h \cup {"R"})
    BY Zenon DEF AtRest, Like, Decoders
  <1>6. AtRest(d, h) => AtRest([d EXCEPT !.r = FALSE], h \ {"R"})
    BY Zenon DEF AtRest, Like, Decoders
  <1>7. Like(d, TRUE, 0, h) => AtRest([d EXCEPT !.e0 = FALSE], h)
    BY Zenon DEF AtRest, Like, Decoders
  <1>8. Like(d, FALSE, 2, h) => Like([d EXCEPT !.e1 = 1], FALSE, 1, h)
    BY DEF AtRest, Like, Decoders
  <1>9. Like(d, FALSE, 1, h) => AtRest([d EXCEPT !.e1 = 0], h)
    BY DEF AtRest, Like, Decoders
  <1>10. AtRest(d, h) => d.e1 = 0 /\ d.e0 = FALSE
    BY Zenon DEF AtRest, Like
  <1>11. AtRest(d, h) =>
              /\ Like(Decode(d, "E0"), TRUE, 0, h) /\ Like(Decode(d, "E1"), FALSE, 2, h)
              /\ AtRest(Decode(d, "LSP"), h \cup {"L"}) /\ AtRest(Decode(d, "LSR"), h \ {"L"})
              /\ AtRest(Decode(d, "RSP"), h \cup {"R"}) /\ AtRest(Decode(d, "RSR"), h \ {"R"})
              /\ \A sc \in {"key", "other", "rel"} : AtRest(Decode(d, sc), h)
    BY <1>1, <1>2, <1>3, <1>4, <1>5, <1>6, <1>10, DecodeOutside, Zenon
  <1>12. Like(d, TRUE, 0, h) => \A sc : AtRest(Decode(d, sc), h)
    BY <1>7, DecodeInside, Zenon DEF Like
  <1>13. Like(d, FALSE, 2, h) => \A sc : Like(Decode(d, sc), FALSE, 1, h)
    BY <1>8, DecodeInside, Zenon DEF Like
  <1>14. Like(d, FALSE, 1, h) => \A sc : AtRest(Decode(d, sc), h)
    BY <1>9, DecodeInside, Zenon DEF Like
  <1> QED
    BY <1>11, <1>12, <1>13, <1>14, Zenon

(* A character comes from a key outside of a sequence alone, in the case    *)
(* that the shift keys make.                                                *)
LEMMA DecodedStep ==
  ASSUME NEW d, NEW h
  PROVE  /\ AtRest(d, h) => \A sc : sc # "key" => Decoded(d, sc) = <<>>
         /\ AtRest(d, h) /\ h \in SUBSET {"L", "R"} => Decoded(d, "key") = <<Char(h # {})>>
         /\ Like(d, TRUE, 0, h) \/ Like(d, FALSE, 2, h) \/ Like(d, FALSE, 1, h) =>
               \A sc : Decoded(d, sc) = <<>>
  <1>1. AtRest(d, h) => \A sc : sc # "key" => Decoded(d, sc) = <<>>
    BY Zenon DEF Decoded
  <1>2. ASSUME AtRest(d, h), h \in SUBSET {"L", "R"}
        PROVE  Decoded(d, "key") = <<Char(h # {})>>
    <2>1. d.e1 = 0 /\ d.e0 = FALSE /\ ((d.l \/ d.r) <=> h # {})
      BY <1>2, Zenon DEF AtRest, Like, Decoders
    <2> QED
      BY <2>1, Zenon DEF Decoded, Char
  <1>3. Like(d, TRUE, 0, h) \/ Like(d, FALSE, 2, h) \/ Like(d, FALSE, 1, h) =>
               \A sc : Decoded(d, sc) = <<>>
    BY DEF Decoded, Like
  <1> QED
    BY <1>1, <1>2, <1>3, Zenon

(* The same for the bytes on their way.                                     *)
LEMMA EndsFurther ==
  ASSUME NEW d, NEW m, NEW s \in Seq(Scancodes), NEW h \in SUBSET {"L", "R"},
         NEW text \in Seq(Letters)
  PROVE  /\ Ends(d, m, s, FALSE, 0, h, text) =>
              /\ Ends(d, m, Append(s, "E0"), TRUE, 0, h, text)
              /\ Ends(d, m, Append(s, "E1"), FALSE, 2, h, text)
              /\ Ends(d, m, Append(s, "LSP"), FALSE, 0, h \cup {"L"}, text)
              /\ Ends(d, m, Append(s, "LSR"), FALSE, 0, h \ {"L"}, text)
              /\ Ends(d, m, Append(s, "RSP"), FALSE, 0, h \cup {"R"}, text)
              /\ Ends(d, m, Append(s, "RSR"), FALSE, 0, h \ {"R"}, text)
              /\ Ends(d, m, Append(s, "other"), FALSE, 0, h, text)
              /\ Ends(d, m, Append(s, "rel"), FALSE, 0, h, text)
              /\ Ends(d, m, Append(s, "key"), FALSE, 0, h, Append(text, Char(h # {})))
         /\ Ends(d, m, s, TRUE, 0, h, text) =>
              \A sc \in Scancodes : Ends(d, m, Append(s, sc), FALSE, 0, h, text)
         /\ Ends(d, m, s, FALSE, 2, h, text) =>
              \A sc \in Scancodes : Ends(d, m, Append(s, sc), FALSE, 1, h, text)
         /\ Ends(d, m, s, FALSE, 1, h, text) =>
              \A sc \in Scancodes : Ends(d, m, Append(s, sc), FALSE, 0, h, text)
  <1>1. ASSUME NEW e, Leads(d, m, s, e, text), NEW sc \in Scancodes, Decoded(e, sc) = <<>>
        PROVE  Leads(d, m, Append(s, sc), Decode(e, sc), text)
    BY <1>1, LeadsFurther, Zenon
  <1>2. /\ "E0" \in Scancodes /\ "E1" \in Scancodes /\ "LSP" \in Scancodes
        /\ "LSR" \in Scancodes /\ "RSP" \in Scancodes /\ "RSR" \in Scancodes
        /\ "other" \in Scancodes /\ "rel" \in Scancodes /\ "key" \in Scancodes
    BY Zenon DEF Scancodes
  <1>3. ASSUME NEW e, Leads(d, m, s, e, text), AtRest(e, h)
        PROVE  /\ Ends(d, m, Append(s, "E0"), TRUE, 0, h, text)
               /\ Ends(d, m, Append(s, "E1"), FALSE, 2, h, text)
               /\ Ends(d, m, Append(s, "LSP"), FALSE, 0, h \cup {"L"}, text)
               /\ Ends(d, m, Append(s, "LSR"), FALSE, 0, h \ {"L"}, text)
               /\ Ends(d, m, Append(s, "RSP"), FALSE, 0, h \cup {"R"}, text)
               /\ Ends(d, m, Append(s, "RSR"), FALSE, 0, h \ {"R"}, text)
               /\ Ends(d, m, Append(s, "other"), FALSE, 0, h, text)
               /\ Ends(d, m, Append(s, "rel"), FALSE, 0, h, text)
               /\ Ends(d, m, Append(s, "key"), FALSE, 0, h, Append(text, Char(h # {})))
    <2>1. \A sc \in Scancodes \ {"key"} : Leads(d, m, Append(s, sc), Decode(e, sc), text)
      BY <1>1, <1>3, DecodedStep, Zenon
    <2>2. /\ Leads(d, m, Append(s, "E0"), Decode(e, "E0"), text)
          /\ Leads(d, m, Append(s, "E1"), Decode(e, "E1"), text)
          /\ Leads(d, m, Append(s, "LSP"), Decode(e, "LSP"), text)
          /\ Leads(d, m, Append(s, "LSR"), Decode(e, "LSR"), text)
          /\ Leads(d, m, Append(s, "RSP"), Decode(e, "RSP"), text)
          /\ Leads(d, m, Append(s, "RSR"), Decode(e, "RSR"), text)
          /\ Leads(d, m, Append(s, "other"), Decode(e, "other"), text)
          /\ Leads(d, m, Append(s, "rel"), Decode(e, "rel"), text)
      BY <1>2, <2>1, Zenon
    <2>3. /\ Like(Decode(e, "E0"), TRUE, 0, h) /\ Like(Decode(e, "E1"), FALSE, 2, h)
          /\ AtRest(Decode(e, "LSP"), h \cup {"L"}) /\ AtRest(Decode(e, "LSR"), h \ {"L"})
          /\ AtRest(Decode(e, "RSP"), h \cup {"R"}) /\ AtRest(Decode(e, "RSR"), h \ {"R"})
          /\ AtRest(Decode(e, "key"), h) /\ AtRest(Decode(e, "other"), h)
          /\ AtRest(Decode(e, "rel"), h)
      BY <1>3, DecodeStep, Zenon
    <2>4. Leads(d, m, Append(s, "key"), Decode(e, "key"), Append(text, Char(h # {})))
      <3>1. Char(h # {}) \in Letters
        BY Zenon DEF Char, Letters
      <3>2. Append(text, Char(h # {})) \in Seq(Letters)
        BY <3>1
      <3>3. Decoded(e, "key") = <<Char(h # {})>>
        BY <1>3, DecodedStep, Zenon
      <3> QED
        BY <1>2, <1>3, <3>1, <3>2, <3>3, LeadsFurther, Zenon
    <2> QED
      BY <2>2, <2>3, <2>4, Zenon DEF Ends, AtRest
  <1>4. ASSUME NEW e, Leads(d, m, s, e, text),
               Like(e, TRUE, 0, h) \/ Like(e, FALSE, 2, h) \/ Like(e, FALSE, 1, h),
               NEW sc \in Scancodes
        PROVE  Leads(d, m, Append(s, sc), Decode(e, sc), text)
    BY <1>1, <1>4, DecodedStep, Zenon
  <1>5. Ends(d, m, s, TRUE, 0, h, text) =>
              \A sc \in Scancodes : Ends(d, m, Append(s, sc), FALSE, 0, h, text)
    BY <1>4, DecodeStep, Zenon DEF Ends, AtRest
  <1>6. Ends(d, m, s, FALSE, 2, h, text) =>
              \A sc \in Scancodes : Ends(d, m, Append(s, sc), FALSE, 1, h, text)
    BY <1>4, DecodeStep, Zenon DEF Ends, AtRest
  <1>7. Ends(d, m, s, FALSE, 1, h, text) =>
              \A sc \in Scancodes : Ends(d, m, Append(s, sc), FALSE, 0, h, text)
    BY <1>4, DecodeStep, Zenon DEF Ends, AtRest
  <1> QED
    BY <1>3, <1>5, <1>6, <1>7, Zenon DEF Ends, AtRest

(* The bytes of every stroke lead the decoder back to rest.                 *)
LEMMA StrokesEnd ==
  ASSUME NEW d, NEW m, NEW s \in Seq(Scancodes), NEW h \in SUBSET {"L", "R"},
         NEW text \in Seq(Letters), Ends(d, m, s, FALSE, 0, h, text)
  PROVE  /\ Ends(d, m, s \o <<"key", "rel">>, FALSE, 0, h, text \o <<Char(h # {})>>)
         /\ Ends(d, m, s \o <<"other", "rel">>, FALSE, 0, h, text)
         /\ Ends(d, m, s \o <<"E0", "key", "E0", "rel">>, FALSE, 0, h, text)
         /\ Ends(d, m, s \o <<"E0", "LSR", "E0", "key", "E0", "rel", "E0", "LSP">>, FALSE, 0, h, text)
         /\ Ends(d, m, s \o Pause, FALSE, 0, h, text)
         /\ Ends(d, m, s \o <<"LSP">>, FALSE, 0, h \cup {"L"}, text)
         /\ Ends(d, m, s \o <<"LSR">>, FALSE, 0, h \ {"L"}, text)
         /\ Ends(d, m, s \o <<"RSP">>, FALSE, 0, h \cup {"R"}, text)
         /\ Ends(d, m, s \o <<"RSR">>, FALSE, 0, h \ {"R"}, text)
  <1> DEFINE S == Scancodes
  <1> DEFINE A(q, x) == Append(q, x)
  <1>1. /\ "E0" \in S /\ "E1" \in S /\ "LSP" \in S /\ "LSR" \in S /\ "RSP" \in S /\ "RSR" \in S
        /\ "other" \in S /\ "rel" \in S /\ "key" \in S
    BY Zenon DEF Scancodes
  <1> HIDE DEF S
  <1>2. \A q \in Seq(S) : \A x \in S : A(q, x) \in Seq(S)
    OBVIOUS
  <1>3. s \in Seq(S)
    BY Zenon DEF S
  <1>4. s \o <<"LSP">> = A(s, "LSP") /\ s \o <<"LSR">> = A(s, "LSR")
    BY <1>1, <1>3
  <1>5. s \o <<"RSP">> = A(s, "RSP") /\ s \o <<"RSR">> = A(s, "RSR")
    BY <1>1, <1>3
  <1>6. s \o <<"key", "rel">> = A(A(s, "key"), "rel") /\ s \o <<"other", "rel">> = A(A(s, "other"), "rel")
    BY <1>1, <1>3
  <1>7. s \o <<"E0", "key", "E0", "rel">> = A(A(A(A(s, "E0"), "key"), "E0"), "rel")
    BY <1>1, <1>3
  <1>8. \A q \in Seq(S) : \A x \in S : A(q, x) \in Seq(S) /\ s \o A(q, x) = A(s \o q, x)
    BY <1>3
  <1>9. s \o Pause = A(A(A(A(A(A(s, "E1"), "other"), "other"), "E1"), "rel"), "rel")
    <2> DEFINE c == <<"E1", "other", "other", "E1">>
    <2>1. Pause = A(A(c, "rel"), "rel")
      BY DEF Pause
    <2>2. c \in Seq(S) /\ s \o c = A(A(A(A(s, "E1"), "other"), "other"), "E1")
      BY <1>1, <1>3
    <2> HIDE DEF A, c
    <2>3. A(c, "rel") \in Seq(S) /\ s \o A(c, "rel") = A(s \o c, "rel")
      BY <1>1, <1>8, <2>2, Zenon
    <2>4. s \o A(A(c, "rel"), "rel") = A(s \o A(c, "rel"), "rel")
      BY <1>1, <1>8, <2>3, Zenon
    <2> QED
      BY <2>1, <2>2, <2>3, <2>4, Zenon
  <1>10. s \o <<"E0", "LSR", "E0", "key", "E0", "rel", "E0", "LSP">> =
          A(A(A(A(A(A(A(A(s, "E0"), "LSR"), "E0"), "key"), "E0"), "rel"), "E0"), "LSP")
    <2> DEFINE c == <<"E0", "LSR", "E0", "key">>
    <2>1. <<"E0", "LSR", "E0", "key", "E0", "rel", "E0", "LSP">> =
            A(A(A(A(c, "E0"), "rel"), "E0"), "LSP")
      OBVIOUS
    <2>2. c \in Seq(S) /\ s \o c = A(A(A(A(s, "E0"), "LSR"), "E0"), "key")
      BY <1>1, <1>3
    <2> HIDE DEF A, c
    <2>3. A(c, "E0") \in Seq(S) /\ s \o A(c, "E0") = A(s \o c, "E0")
      BY <1>1, <1>8, <2>2, Zenon
    <2>4. A(A(c, "E0"), "rel") \in Seq(S) /\ s \o A(A(c, "E0"), "rel") = A(s \o A(c, "E0"), "rel")
      BY <1>1, <1>8, <2>3, Zenon
    <2>5. /\ A(A(A(c, "E0"), "rel"), "E0") \in Seq(S)
          /\ s \o A(A(A(c, "E0"), "rel"), "E0") = A(s \o A(A(c, "E0"), "rel"), "E0")
      BY <1>1, <1>8, <2>4, Zenon
    <2>6. s \o A(A(A(A(c, "E0"), "rel"), "E0"), "LSP") = A(s \o A(A(A(c, "E0"), "rel"), "E0"), "LSP")
      BY <1>1, <1>8, <2>5, Zenon
    <2> QED
      BY <2>1, <2>2, <2>3, <2>4, <2>5, <2>6, Zenon
  <1>11. text \o <<Char(h # {})>> = A(text, Char(h # {})) /\ A(text, Char(h # {})) \in Seq(Letters)
    <2>1. Char(h # {}) \in Letters
      BY Zenon DEF Char, Letters
    <2> HIDE DEF Letters
    <2> QED
      BY <2>1
  <1> HIDE DEF A
  <1>12. /\ A(s, "key") \in Seq(S) /\ A(s, "other") \in Seq(S) /\ A(s, "E0") \in Seq(S)
         /\ A(s, "E1") \in Seq(S)
    BY <1>1, <1>2, <1>3, Zenon
  <1> DEFINE E(q, e0, e1) == Ends(d, m, q, e0, e1, h, text)
  <1> HIDE DEF E
  <1>13. ASSUME NEW q \in Seq(S)
         PROVE  /\ E(q, FALSE, 0) => E(A(q, "E0"), TRUE, 0) /\ E(A(q, "E1"), FALSE, 2)
                                     /\ E(A(q, "rel"), FALSE, 0) /\ E(A(q, "other"), FALSE, 0)
                /\ \A sc \in S : /\ E(q, TRUE, 0) => E(A(q, sc), FALSE, 0)
                                 /\ E(q, FALSE, 2) => E(A(q, sc), FALSE, 1)
                                 /\ E(q, FALSE, 1) => E(A(q, sc), FALSE, 0)
    BY EndsFurther, Zenon DEF E, A, S
  <1>14. ASSUME NEW q \in Seq(S), E(q, FALSE, 0), NEW sc \in S
         PROVE  A(A(q, "E0"), sc) \in Seq(S) /\ E(A(A(q, "E0"), sc), FALSE, 0)
    BY <1>1, <1>2, <1>13, <1>14, Zenon
  <1>15. ASSUME NEW q \in Seq(S), E(q, FALSE, 0), NEW sc \in S
         PROVE  /\ A(A(A(q, "E1"), sc), sc) \in Seq(S) /\ E(A(A(A(q, "E1"), sc), sc), FALSE, 0)
    BY <1>1, <1>2, <1>13, <1>15, Zenon
  <1>16. E(s, FALSE, 0)
    BY Zenon DEF E
  <1>17. E(A(A(s, "other"), "rel"), FALSE, 0)
    BY <1>12, <1>3, <1>13, <1>16, Zenon
  <1>18. E(A(A(A(A(s, "E0"), "key"), "E0"), "rel"), FALSE, 0)
    BY <1>1, <1>3, <1>14, <1>16, Zenon
  <1>19. E(A(A(A(A(A(A(s, "E1"), "other"), "other"), "E1"), "rel"), "rel"), FALSE, 0)
    BY <1>1, <1>3, <1>15, <1>16, Zenon
  <1>20. E(A(A(A(A(A(A(A(A(s, "E0"), "LSR"), "E0"), "key"), "E0"), "rel"), "E0"), "LSP"), FALSE, 0)
    <2>1. A(A(A(A(s, "E0"), "LSR"), "E0"), "key") \in Seq(S)
          /\ E(A(A(A(A(s, "E0"), "LSR"), "E0"), "key"), FALSE, 0)
      BY <1>1, <1>3, <1>14, <1>16, Zenon
    <2> QED
      BY <1>1, <1>14, <2>1, Zenon
  <1>21. Ends(d, m, A(A(s, "key"), "rel"), FALSE, 0, h, A(text, Char(h # {})))
    BY <1>11, <1>12, EndsFurther, Zenon DEF A, S
  <1>22. /\ Ends(d, m, A(s, "LSP"), FALSE, 0, h \cup {"L"}, text)
         /\ Ends(d, m, A(s, "LSR"), FALSE, 0, h \ {"L"}, text)
         /\ Ends(d, m, A(s, "RSP"), FALSE, 0, h \cup {"R"}, text)
         /\ Ends(d, m, A(s, "RSR"), FALSE, 0, h \ {"R"}, text)
    BY EndsFurther, Zenon DEF A
  <1> QED
    BY <1>4, <1>5, <1>6, <1>7, <1>9, <1>10, <1>11, <1>17, <1>18, <1>19, <1>20, <1>21, <1>22, Zenon DEF E

(* A stroke keeps the invariant.                                            *)
LEMMA StrokeKeeps ==
  ASSUME KInv, NEW codes \in Seq(Scancodes), NEW sh \in SUBSET {"L", "R"},
         NEW text \in Seq(Letters), Stroke(codes, sh, text),
         OnTheWay => Ends(decoder, Len(out), Sent \o codes, FALSE, 0, sh, typed \o text)
  PROVE  KInv'
  <1>1. KTypes'
    <2>1. wire \o codes \in Seq(Scancodes) /\ typed \o text \in Seq(Letters)
      BY DEF KInv, KTypes
    <2> QED
      BY <2>1, Zenon DEF KInv, KTypes, Stroke
  <1>2. ASSUME ahead' = FALSE PROVE OnTheWay'
    <2>1. ahead = FALSE /\ stage = "up"
      BY <1>2, Zenon DEF Stroke, KInv, KTypes
    <2>2. OnTheWay /\ KTypes
      BY <2>1, Zenon DEF KInv
    <2>3. Sent' = Sent \o codes
      <3> DEFINE S == Scancodes
      <3>1. wire \in Seq(S) /\ data \in S /\ codes \in Seq(S)
        BY <2>2, Zenon DEF KTypes
      <3> HIDE DEF S
      <3>2. <<data>> \o (wire \o codes) = (<<data>> \o wire) \o codes
        BY <3>1
      <3> QED
        BY <3>2, Zenon DEF Sent, Stroke
    <2>4. Len(out) <= Len(typed \o text) /\ \A i \in 1 .. Len(out) : out[i] = (typed \o text)[i]
      BY <2>2 DEF OnTheWay, KTypes
    <2> QED
      BY <2>1, <2>2, <2>3, <2>4, Zenon DEF OnTheWay, Stroke
  <1> QED
    BY <1>1, <1>2, Zenon DEF KInv, Stroke

(* Every stroke does.                                                       *)
LEMMA UserTypesKeeps == KInv /\ UserTypes => KInv'
  <1> SUFFICES ASSUME KInv, UserTypes PROVE KInv'
    BY Zenon
  <1>1. KTypes /\ Sent \in Seq(Scancodes)
    BY DEF KInv, KTypes, Sent
  <1>2. /\ held \in SUBSET {"L", "R"} /\ typed \in Seq(Letters)
        /\ held \cup {"L"} \in SUBSET {"L", "R"} /\ held \ {"L"} \in SUBSET {"L", "R"}
        /\ held \cup {"R"} \in SUBSET {"L", "R"} /\ held \ {"R"} \in SUBSET {"L", "R"}
    BY <1>1, Zenon DEF KTypes
  <1>3. /\ <<"key", "rel">> \in Seq(Scancodes) /\ <<"other", "rel">> \in Seq(Scancodes)
        /\ Extended(held) \in Seq(Scancodes) /\ Pause \in Seq(Scancodes)
        /\ <<"LSP">> \in Seq(Scancodes) /\ <<"LSR">> \in Seq(Scancodes)
        /\ <<"RSP">> \in Seq(Scancodes) /\ <<"RSR">> \in Seq(Scancodes)
    <2> DEFINE S == Scancodes
    <2>1. /\ "E0" \in S /\ "E1" \in S /\ "LSP" \in S /\ "LSR" \in S /\ "RSP" \in S /\ "RSR" \in S
          /\ "other" \in S /\ "rel" \in S /\ "key" \in S
      BY Zenon DEF Scancodes
    <2> HIDE DEF S
    <2>2. <<"key", "rel">> \in Seq(S) /\ <<"other", "rel">> \in Seq(S)
      BY <2>1
    <2>3. Pause \in Seq(S)
      BY <2>1 DEF Pause
    <2>4. Extended(held) \in Seq(S)
      BY <2>1 DEF Extended
    <2>5. /\ <<"LSP">> \in Seq(S) /\ <<"LSR">> \in Seq(S)
          /\ <<"RSP">> \in Seq(S) /\ <<"RSR">> \in Seq(S)
      BY <2>1
    <2> QED
      BY <2>2, <2>3, <2>4, <2>5, Zenon DEF S
  <1>4. <<>> \in Seq(Letters) /\ <<Char(held # {})>> \in Seq(Letters)
    BY DEF Char, Letters
  <1>5. typed \o <<>> = typed
    BY <1>1 DEF KTypes
  <1> DEFINE Good(codes, sh, text) ==
          OnTheWay => Ends(decoder, Len(out), Sent \o codes, FALSE, 0, sh, typed \o text)
  <1>6. /\ Good(<<"key", "rel">>, held, <<Char(held # {})>>)
        /\ Good(<<"other", "rel">>, held, <<>>)
        /\ Good(Extended(held), held, <<>>) /\ Good(Pause, held, <<>>)
        /\ Good(<<"LSP">>, held \cup {"L"}, <<>>) /\ Good(<<"LSR">>, held \ {"L"}, <<>>)
        /\ Good(<<"RSP">>, held \cup {"R"}, <<>>) /\ Good(<<"RSR">>, held \ {"R"}, <<>>)
    <2> SUFFICES ASSUME OnTheWay
                 PROVE  /\ Good(<<"key", "rel">>, held, <<Char(held # {})>>)
                        /\ Good(<<"other", "rel">>, held, <<>>)
                        /\ Good(Extended(held), held, <<>>) /\ Good(Pause, held, <<>>)
                        /\ Good(<<"LSP">>, held \cup {"L"}, <<>>) /\ Good(<<"LSR">>, held \ {"L"}, <<>>)
                        /\ Good(<<"RSP">>, held \cup {"R"}, <<>>) /\ Good(<<"RSR">>, held \ {"R"}, <<>>)
      BY Zenon
    <2> DEFINE D == decoder
    <2> DEFINE M == Len(out)
    <2>1. Ends(D, M, Sent, FALSE, 0, held, typed)
      BY Zenon DEF OnTheWay
    <2> HIDE DEF D, M
    <2>2. /\ Ends(D, M, Sent \o <<"key", "rel">>, FALSE, 0, held, typed \o <<Char(held # {})>>)
          /\ Ends(D, M, Sent \o <<"other", "rel">>, FALSE, 0, held, typed)
          /\ Ends(D, M, Sent \o <<"E0", "key", "E0", "rel">>, FALSE, 0, held, typed)
          /\ Ends(D, M, Sent \o <<"E0", "LSR", "E0", "key", "E0", "rel", "E0", "LSP">>, FALSE, 0, held, typed)
          /\ Ends(D, M, Sent \o Pause, FALSE, 0, held, typed)
          /\ Ends(D, M, Sent \o <<"LSP">>, FALSE, 0, held \cup {"L"}, typed)
          /\ Ends(D, M, Sent \o <<"LSR">>, FALSE, 0, held \ {"L"}, typed)
          /\ Ends(D, M, Sent \o <<"RSP">>, FALSE, 0, held \cup {"R"}, typed)
          /\ Ends(D, M, Sent \o <<"RSR">>, FALSE, 0, held \ {"R"}, typed)
      BY <1>1, <1>2, <2>1, StrokesEnd, Zenon
    <2>3. Ends(D, M, Sent \o Extended(held), FALSE, 0, held, typed)
      BY <2>2, Zenon DEF Extended
    <2> QED
      BY <1>5, <2>2, <2>3, Zenon DEF D, M
  <1>7. \A codes \in Seq(Scancodes) : \A sh \in SUBSET {"L", "R"} : \A text \in Seq(Letters) :
            Good(codes, sh, text) /\ Stroke(codes, sh, text) => KInv'
    BY StrokeKeeps, Zenon
  <1> HIDE DEF Good
  <1> QED
    BY <1>2, <1>3, <1>4, <1>6, <1>7, Zenon DEF UserTypes

(* A byte goes into the buffer, with its interrupt.                         *)
LEMMA LoadByteKeeps == KInv /\ LoadByte => KInv'
  <1> SUFFICES ASSUME KInv, LoadByte PROVE KInv'
    BY Zenon
  <1> DEFINE S == Scancodes
  <1>1. KTypes /\ wire \in Seq(S) /\ wire # <<>> /\ obf = FALSE
    BY Zenon DEF KInv, KTypes, LoadByte
  <1> HIDE DEF S
  <1>2. /\ Head(wire) \in S /\ Tail(wire) \in Seq(S) /\ wire = <<Head(wire)>> \o Tail(wire)
    BY <1>1
  <1>3. KTypes'
    <2>1. (irr \/ ~masked) \in BOOLEAN
      BY Zenon
    <2> QED
      BY <1>1, <1>2, <2>1, Zenon DEF KTypes, LoadByte, userVars, S
  <1>4. ASSUME ahead = FALSE PROVE OnTheWay'
    <2>1. OnTheWay
      BY <1>4, Zenon DEF KInv
    <2>2. stage = "up" /\ masked = FALSE
      BY <1>1, <2>1, Zenon DEF OnTheWay, KInv
    <2>3. irr' = TRUE /\ obf' = TRUE
      BY <2>2, Zenon DEF LoadByte
    <2>4. Sent' = Sent
      BY <1>1, <1>2, <2>3, Zenon DEF Sent, LoadByte
    <2> QED
      BY <2>1, <2>2, <2>3, <2>4, Zenon DEF OnTheWay, LoadByte, userVars
  <1> QED
    BY <1>3, <1>4, Zenon DEF KInv, LoadByte, userVars

(* The boot, before the user types.                                         *)
LEMMA BootKeeps == KInv /\ Boot => KInv'
  <1> SUFFICES ASSUME KInv, Boot PROVE KInv'
    BY Zenon
  <1>1. KTypes'
    BY Zenon DEF KInv, KTypes, Boot, InitIrq, Drain, DrainEnds, Up, deviceVars, userVars
  <1>2. /\ stage # "up" /\ (stage' # "early" => masked' = FALSE) /\ ahead' = ahead
        /\ wire' = wire /\ data' = data /\ irr' = irr /\ decoder' = decoder /\ out' = out
        /\ held' = held /\ typed' = typed
    BY Zenon DEF KInv, Boot, InitIrq, Drain, DrainEnds, Up, deviceVars, userVars
  <1>3. ASSUME ahead = FALSE PROVE OnTheWay'
    <2>1. OnTheWay /\ obf = FALSE /\ wire = <<>>
      BY <1>2, <1>3, Zenon DEF KInv, OnTheWay
    <2>2. obf' = obf
      BY <2>1, Zenon DEF Boot, InitIrq, Drain, DrainEnds, Up, deviceVars
    <2>3. Sent' = Sent
      BY <1>2, <2>2, Zenon DEF Sent
    <2> QED
      BY <1>2, <2>1, <2>2, <2>3, Zenon DEF OnTheWay
  <1> QED
    BY <1>1, <1>2, <1>3, Zenon DEF KInv

(* The handler takes the first of the bytes on their way.                   *)
LEMMA HandlerKeeps == KInv /\ KeyboardHandler => KInv'
  <1> SUFFICES ASSUME KInv, KeyboardHandler PROVE KInv'
    BY Zenon
  <1>1. KTypes
    BY Zenon DEF KInv
  <1>2. Decoded(decoder, data) \in Seq(Letters)
    <2>1. Char(decoder.l \/ decoder.r) \in Letters
      BY Zenon DEF Char, Letters
    <2> HIDE DEF Letters
    <2>2. <<Char(decoder.l \/ decoder.r)>> \in Seq(Letters) /\ <<>> \in Seq(Letters)
      BY <2>1
    <2> QED
      BY <2>2, Zenon DEF Decoded
  <1>3. out' \in Seq(Letters)
    BY <1>1, <1>2 DEF KTypes, KeyboardHandler
  <1>4. KTypes'
    BY <1>1, <1>3, Zenon DEF KTypes, KeyboardHandler, userVars
  <1>5. ASSUME ahead = FALSE PROVE OnTheWay'
    <2>1. OnTheWay /\ obf = TRUE
      BY <1>1, <1>5, Zenon DEF KInv, OnTheWay, KeyboardHandler, KTypes
    <2>2. Sent = <<data>> \o wire /\ Sent' = wire
      BY <2>1, Zenon DEF Sent, KeyboardHandler
    <2>3. PICK e : Leads(decoder, Len(out), Sent, e, typed) /\ Like(e, FALSE, 0, held)
      BY <2>1, Zenon DEF OnTheWay, Ends
    <2>4. PICK k \in Nat : /\ Adds(decoder, data, Len(out), k, typed)
                           /\ Leads(Decode(decoder, data), k, wire, e, typed)
      BY <1>1, <2>2, <2>3, LeadsOn, Zenon DEF KTypes
    <2>5. /\ k = Len(out') /\ Len(out') <= Len(typed)
          /\ \A i \in 1 .. Len(out') : out'[i] = typed[i]
      <3>1. /\ out \in Seq(Letters) /\ typed \in Seq(Letters)
            /\ Len(out) <= Len(typed) /\ \A i \in 1 .. Len(out) : out[i] = typed[i]
        BY <1>1, <2>1, Zenon DEF KTypes, OnTheWay
      <3>2. out' = out \o Decoded(decoder, data)
        BY Zenon DEF KeyboardHandler
      <3> HIDE DEF Letters
      <3>3. CASE k = Len(out) /\ Decoded(decoder, data) = <<>>
        BY <3>1, <3>2, <3>3
      <3>4. CASE /\ k = Len(out) + 1 /\ k <= Len(typed)
                 /\ Decoded(decoder, data) = <<typed[k]>>
        <4> DEFINE c == typed[k]
        <4>1. out' = out \o <<c>> /\ c \in Letters
          <5>1. k \in 1 .. Len(typed)
            BY <3>1, <3>4
          <5> QED BY <3>1, <3>2, <3>4, <5>1
        <4> HIDE DEF c
        <4>2. /\ Len(out') = Len(out) + 1 /\ out'[Len(out) + 1] = c
              /\ \A i \in 1 .. Len(out) : out'[i] = out[i]
          <5>1. out \in Seq(Letters)
            BY <3>1, Zenon
          <5> QED BY <4>1, <5>1
        <4>3. Len(out) \in Nat /\ Len(typed) \in Nat
          BY <3>1
        <4>4. k = Len(out') /\ Len(out') <= Len(typed) /\ out'[k] = typed[k]
          BY <3>4, <4>2, Zenon DEF c
        <4> QED BY <3>1, <3>4, <4>2, <4>3, <4>4
      <3> QED
        BY <2>4, <3>3, <3>4, Zenon DEF Adds
    <2>6. Ends(decoder', Len(out'), Sent', FALSE, 0, held', typed')
      BY <2>2, <2>3, <2>4, <2>5, Zenon DEF Ends, KeyboardHandler, userVars
    <2> QED
      BY <2>1, <2>5, <2>6, Zenon DEF OnTheWay, KeyboardHandler, userVars
  <1> QED
    BY <1>4, <1>5, Zenon DEF KInv, KeyboardHandler, userVars

(* decode_scancode gives the ring a prefix of what was typed, in order and  *)
(* in the right case, and all of it once every byte has been handled; the   *)
(* decoder is then outside of any sequence and has the shift keys that are  *)
(* down.  For any number of strokes, unless one was made during the boot.   *)
THEOREM TypedTextArrives == KeyboardSpec => []TextIsWhatWasTyped
  <1>1. KInv /\ [KeyboardNext]_keyboardVars => KInv'
    <2> SUFFICES ASSUME KInv, [KeyboardNext]_keyboardVars PROVE KInv'
      BY Zenon
    <2>1. CASE UNCHANGED keyboardVars
      BY <2>1, Zenon DEF keyboardVars, KInv, KTypes, OnTheWay, Sent
    <2> QED
      BY <2>1, UserTypesKeeps, LoadByteKeeps, BootKeeps, HandlerKeeps, Zenon DEF KeyboardNext
  <1> QED
    BY KInitInv, <1>1, KInvImplies, PTL DEF KeyboardSpec
=============================================================================
