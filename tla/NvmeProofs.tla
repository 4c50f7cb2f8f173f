------------------------------ MODULE NvmeProofs ------------------------------
(***************************************************************************)
(* The phase tag of nvme.rs: for any queue size, poll_qe takes the entry   *)
(* at its head for new exactly when the controller has written it since    *)
(* the driver was last there.                                              *)
(***************************************************************************)
EXTENDS Nvme, TLAPS

QueueRec == [sq_tail : Slots, cq_head : Slots, cq_phase : {0, 1}, next_cid : Int]
DevRec == [sq_head : Slots, sq_tail : Slots, cq_tail : Slots, cq_head : Slots, phase : {0, 1}]

Types ==
    /\ q \in [Queues -> QueueRec] /\ dev \in [Queues -> DevRec]
    /\ posted \in [Queues -> Int] /\ taken \in [Queues -> Int]
    /\ DOMAIN cq = Queues /\ \A k \in Queues : DOMAIN cq[k] = Slots
    /\ \A b \in busy : b.queue \in Queues

(* The controller's tail t is n entries ahead of the driver's head h: on    *)
(* the same lap, or on the next one with the phases apart.                  *)
Lap(t, h, p, c, n) ==
    \/ p = c /\ t >= h /\ n = t - h
    \/ p # c /\ t < h /\ n = QSize + t - h

(* The entries before the tail have the phase of this lap, the others that  *)
(* of the lap before.                                                       *)
Ring(k) ==
    /\ \A s \in Slots : cq[k][s].phase = IF s < dev[k].cq_tail THEN dev[k].phase ELSE 1 - dev[k].phase
    /\ Lap(dev[k].cq_tail, q[k].cq_head, dev[k].phase, q[k].cq_phase, posted[k] - taken[k])
    /\ dev[k].cq_head = q[k].cq_head

(* A queue that nothing was submitted to.                                   *)
Quiet(k) ==
    /\ q[k].cq_head = 0 /\ q[k].cq_phase = 1
    /\ dev[k].cq_tail = 0 /\ dev[k].cq_head = 0 /\ dev[k].phase = 1
    /\ dev[k].sq_head = dev[k].sq_tail
    /\ posted[k] = taken[k]
    /\ \A b \in busy : b.queue # k

Early == {"init", "setup_admin", "wait_disabled", "program_admin"}
BringUp == Early \cup {"wait_ready", "identify_controller", "identify_namespace",
                       "setup_io_queue", "create_sq"}

Pending == {"poll", "wait_irq", "answered"}
Requests == {"identify_controller", "identify_namespace", "create_cq", "create_sq", "read"}

(* The rings are cleared only while they are unused.                        *)
Unused ==
    /\ pc \in Early => Quiet("admin")
    /\ pc \in BringUp => step # "read"
    /\ pc \in Pending => step \in Requests
    /\ step # "read" => Quiet("io")

IInv == Types /\ (\A k \in Queues : Ring(k)) /\ Unused

-----------------------------------------------------------------------------
(* The head of a completion queue after one more entry.                     *)
LEMMA NextSlotIs ==
  ASSUME NEW i \in Slots
  PROVE  NextSlot(i) \in Slots /\ NextSlot(i) = IF i = QSize - 1 THEN 0 ELSE i + 1
<1>1. QSize \in Nat \ {0, 1} /\ i \in 0 .. QSize - 1
  BY NvmeAssumption DEF Slots
<1>2. \A x \in 0 .. QSize - 1 : x % QSize = x
  BY <1>1, SMTT(30)
<1>3. QSize % QSize = 0
  BY <1>1, SMTT(30)
<1>4. NextSlot(i) = IF i = QSize - 1 THEN 0 ELSE i + 1
  BY <1>1, <1>2, <1>3 DEF NextSlot
<1> QED BY <1>1, <1>4 DEF Slots

(* One completion more: the tail moves, and the phase with the lap.         *)
LEMMA TailMoves ==
  ASSUME NEW t \in Slots, NEW h \in Slots, NEW p \in {0, 1}, NEW c \in {0, 1}, NEW n \in Int,
         Lap(t, h, p, c, n), NextSlot(t) # h
  PROVE  Lap(NextSlot(t), h, IF NextSlot(t) = 0 THEN 1 - p ELSE p, c, n + 1)
BY NextSlotIs, NvmeAssumption DEF Lap, Slots

(* One completion taken: the head moves, and its phase with the lap.        *)
LEMMA HeadMoves ==
  ASSUME NEW t \in Slots, NEW h \in Slots, NEW p \in {0, 1}, NEW c \in {0, 1}, NEW n \in Int,
         Lap(t, h, p, c, n), n > 0
  PROVE  Lap(t, NextSlot(h), p, IF NextSlot(h) = 0 THEN 1 - c ELSE c, n - 1)
BY NextSlotIs, NvmeAssumption DEF Lap, Slots

(* The phase at the head, from the position of head and tail.               *)
LEMMA HeadPhase ==
  ASSUME Types, NEW k \in Queues, Ring(k)
  PROVE  (HeadEntry(k).phase = q[k].cq_phase) <=> (posted[k] > taken[k])
<1> DEFINE t == dev[k].cq_tail
           h == q[k].cq_head
           p == dev[k].phase
           c == q[k].cq_phase
           n == posted[k] - taken[k]
<1>1. t \in 0 .. QSize - 1 /\ h \in 0 .. QSize - 1 /\ h \in Slots /\ p \in {0, 1} /\ c \in {0, 1}
      /\ posted[k] \in Int /\ taken[k] \in Int /\ QSize \in Nat
  BY NvmeAssumption DEF Types, QueueRec, DevRec, Slots
<1>2. HeadEntry(k).phase = (IF h < t THEN p ELSE 1 - p) /\ Lap(t, h, p, c, n)
  BY <1>1 DEF Ring, HeadEntry
<1> HIDE DEF t, h, p, c
<1>3. (IF h < t THEN p ELSE 1 - p) = c <=> posted[k] > taken[k]
  BY <1>1, <1>2 DEF Lap
<1> QED BY <1>2, <1>3 DEF c

(* A queue that is unused is consistent when its completions are zeroed.    *)
LEMMA QuietRing ==
  ASSUME Types, NEW k \in Queues, Quiet(k), \A s \in Slots : cq[k][s].phase = 0
  PROVE  Ring(k)
<1>1. posted[k] - taken[k] = 0 /\ QSize \in Nat
  BY NvmeAssumption DEF Types, Quiet
<1>2. \A s \in Slots : ~(s < 0)
  BY <1>1 DEF Slots
<1> QED BY <1>1, <1>2 DEF Quiet, Ring, Lap

-----------------------------------------------------------------------------
(* The inductive invariant holds of the zeroed queues.                      *)
LEMMA InitIInv == Init => IInv
<1> SUFFICES ASSUME Init PROVE IInv
  OBVIOUS
<1>1. 0 \in Slots
  BY NvmeAssumption DEF Slots
<1>2. NewQueue \in QueueRec /\ NewDev \in DevRec
  BY <1>1 DEF NewQueue, NewDev, QueueRec, DevRec
<1>3. Types
  BY <1>2 DEF Init, Types, Zeroed
<1>4. \A k \in Queues : Quiet(k)
  BY DEF Init, Quiet, NewQueue, NewDev
<1>5. \A k \in Queues : \A s \in Slots : cq[k][s].phase = 0
  BY DEF Init, Zeroed, Cqe
<1>6. Unused
  BY <1>4, NvmeAssumption DEF Init, Unused, Queues, Pending
<1> QED BY <1>3, <1>4, <1>5, <1>6, QuietRing DEF IInv

(* Steps that leave the rings alone.                                        *)
LEMMA RingsLeft ==
  ASSUME IInv, UNCHANGED <<q, cq, dev, busy, posted, taken>>,
         pc' \in Early => pc \in Early,
         pc' \in BringUp => step' # "read",
         pc' \in Pending => step' \in Requests,
         step' # "read" => step # "read"
  PROVE  IInv'
<1>1. Types' /\ \A k \in Queues : Ring(k)'
  BY DEF IInv, Types, Ring
<1>2. \A k \in Queues : Quiet(k)' <=> Quiet(k)
  BY DEF Quiet
<1>3. Unused'
  BY <1>2 DEF IInv, Unused, Queues
<1> QED BY <1>1, <1>3 DEF IInv

(* Steps of submit_qe, where a ring may be cleared that is unused.          *)
LEMMA Submits ==
  ASSUME IInv, NEW k \in Queues, NEW op, NEW f, SubmitQe(k, op, f),
         UNCHANGED <<busy, posted, taken>>,
         cq' = cq \/ (Quiet("io") /\ k = "admin" /\ cq' = [cq EXCEPT !["io"] = Zeroed]),
         pc' \notin BringUp, step' \in Requests,
         step' # "read" => step # "read" /\ k = "admin"
  PROVE  IInv'
<1> DEFINE next == NextSlot(q[k].sq_tail)
           cid == (q[k].next_cid + 1) % CidMod
<1>1. q[k] \in QueueRec /\ dev[k] \in DevRec /\ next \in Slots /\ cid \in Int
  BY NextSlotIs, NvmeAssumption DEF IInv, Types, QueueRec
<1> HIDE DEF next, cid
<1>2. /\ q' = [q EXCEPT ![k] = [sq_tail |-> next, cq_head |-> q[k].cq_head,
                                cq_phase |-> q[k].cq_phase, next_cid |-> cid]]
      /\ dev' = [dev EXCEPT ![k] = [sq_head |-> dev[k].sq_head, sq_tail |-> next,
                                    cq_tail |-> dev[k].cq_tail, cq_head |-> dev[k].cq_head,
                                    phase |-> dev[k].phase]]
  <2>1. ASSUME NEW r \in QueueRec
        PROVE  [r EXCEPT !.sq_tail = next, !.next_cid = cid]
               = [sq_tail |-> next, cq_head |-> r.cq_head, cq_phase |-> r.cq_phase, next_cid |-> cid]
    <3> DEFINE u == [r EXCEPT !.sq_tail = next]
    <3>1. u = [sq_tail |-> next, cq_head |-> r.cq_head, cq_phase |-> r.cq_phase, next_cid |-> r.next_cid]
          /\ u \in QueueRec
      BY <1>1 DEF QueueRec
    <3> HIDE DEF u
    <3>2. [u EXCEPT !.next_cid = cid]
          = [sq_tail |-> u.sq_tail, cq_head |-> u.cq_head, cq_phase |-> u.cq_phase, next_cid |-> cid]
      BY <3>1 DEF QueueRec
    <3> QED BY <3>1, <3>2 DEF u
  <2>2. q' = [q EXCEPT ![k] = [q[k] EXCEPT !.sq_tail = next, !.next_cid = cid]]
    BY <1>1 DEF SubmitQe, IInv, Types, next, cid
  <2>3. [dev[k] EXCEPT !.sq_tail = next]
        = [sq_head |-> dev[k].sq_head, sq_tail |-> next, cq_tail |-> dev[k].cq_tail,
           cq_head |-> dev[k].cq_head, phase |-> dev[k].phase]
    BY <1>1 DEF DevRec
  <2>4. dev' = [dev EXCEPT ![k] = [dev[k] EXCEPT !.sq_tail = next]]
    BY <1>1 DEF SubmitQe, IInv, Types, next
  <2> QED BY <1>1, <2>1, <2>2, <2>3, <2>4
<1>3. q' \in [Queues -> QueueRec] /\ dev' \in [Queues -> DevRec]
  BY <1>1, <1>2 DEF IInv, Types, QueueRec, DevRec
<1>4. \A j \in Queues : /\ q'[j].cq_head = q[j].cq_head /\ q'[j].cq_phase = q[j].cq_phase
                        /\ dev'[j].cq_tail = dev[j].cq_tail /\ dev'[j].cq_head = dev[j].cq_head
                        /\ dev'[j].phase = dev[j].phase
  BY <1>2 DEF IInv, Types
<1>5. \A j \in Queues \ {k} : q'[j] = q[j] /\ dev'[j] = dev[j]
  BY <1>2 DEF IInv, Types
<1>6. Types'
  BY <1>3 DEF IInv, Types, Zeroed
<1>7. ASSUME NEW j \in Queues PROVE Ring(j)'
  <2>1. CASE cq'[j] = cq[j]
    BY <1>4, <2>1 DEF IInv, Ring
  <2>2. CASE cq'[j] # cq[j]
    <3>1. j = "io" /\ cq'[j] = Zeroed /\ Quiet(j) /\ j # k
      BY <2>2 DEF IInv, Types
    <3>2. Quiet(j)'
      BY <1>5, <3>1 DEF Quiet
    <3>3. \A s \in Slots : cq'[j][s].phase = 0
      BY <3>1 DEF Zeroed, Cqe
    <3>4. posted'[j] - taken'[j] = 0 /\ QSize \in Nat /\ \A s \in Slots : ~(s < 0)
      BY <1>6, <3>2, NvmeAssumption DEF Types, Quiet, Slots
    <3> QED BY <3>2, <3>3, <3>4 DEF Quiet, Ring, Lap
  <2> QED BY <2>1, <2>2
<1>8. step' # "read" => Quiet("io")'
  BY <1>5 DEF IInv, Unused, Quiet, Queues
<1> QED BY <1>6, <1>7, <1>8 DEF IInv, Unused, BringUp

(* The controller fetches a command.                                        *)
LEMMA FetchStep ==
  ASSUME IInv, NEW k \in Queues, DevFetch(k)
  PROVE  IInv'
<1>1. /\ dev[k] \in DevRec /\ dev[k].sq_head # dev[k].sq_tail
      /\ dev' = [dev EXCEPT ![k] = [dev[k] EXCEPT !.sq_head = NextSlot(@)]]
      /\ UNCHANGED <<pc, step, taken, q, cq, posted>>
  BY DEF DevFetch, IInv, Types, driver
<1>2. NextSlot(dev[k].sq_head) \in Slots
  BY <1>1, NextSlotIs DEF DevRec
<1>3. dev' \in [Queues -> DevRec] /\ \A j \in Queues \ {k} : dev'[j] = dev[j]
  BY <1>1, <1>2 DEF IInv, Types, DevRec
<1>4. dev'[k].cq_tail = dev[k].cq_tail /\ dev'[k].cq_head = dev[k].cq_head /\ dev'[k].phase = dev[k].phase
  BY <1>1 DEF IInv, Types, DevRec
<1>5. Types'
  BY <1>1, <1>3 DEF DevFetch, IInv, Types
<1>6. \A j \in Queues : Ring(j)'
  BY <1>1, <1>3, <1>4 DEF IInv, Ring
<1>7. \A j \in Queues : Quiet(j) => j # k /\ Quiet(j)'
  BY <1>1, <1>3 DEF DevFetch, Quiet
<1>8. Unused'
  BY <1>1, <1>7 DEF IInv, Unused, Queues
<1> QED BY <1>5, <1>6, <1>8 DEF IInv

(* It completes one.                                                        *)
LEMMA CompleteStep ==
  ASSUME IInv, NEW b \in busy, NEW st, DevComplete(b, st)
  PROVE  IInv'
<1> DEFINE k == b.queue
           t == dev[k].cq_tail
           p == IF NextSlot(t) = 0 THEN 1 - dev[k].phase ELSE dev[k].phase
<1>1. k \in Queues /\ dev[k] \in DevRec /\ q[k] \in QueueRec /\ t \in Slots
      /\ posted[k] \in Int /\ taken[k] \in Int
  BY DEF IInv, Types, DevRec
<1>2. /\ NextSlot(t) # dev[k].cq_head
      /\ busy' = busy \ {b}
      /\ cq' = [cq EXCEPT ![k] = [cq[k] EXCEPT ![t] = Cqe(b.cmd.cid, dev[k].phase, st)]]
      /\ posted' = [posted EXCEPT ![k] = @ + 1]
      /\ UNCHANGED <<pc, step, taken, q>>
  BY <1>1 DEF DevComplete, IInv, Types, driver
<1>3. NextSlot(t) \in Slots /\ p \in {0, 1} /\ dev[k].phase \in {0, 1}
  BY <1>1, NextSlotIs DEF DevRec
<1> HIDE DEF k
<1>4. dev' = [dev EXCEPT ![k] = [sq_head |-> dev[k].sq_head, sq_tail |-> dev[k].sq_tail,
                                 cq_tail |-> NextSlot(t), cq_head |-> dev[k].cq_head, phase |-> p]]
  <2>1. dev' = [dev EXCEPT ![k] = [dev[k] EXCEPT !.cq_tail = NextSlot(t), !.phase = p]]
    BY <1>1 DEF DevComplete, IInv, Types, k
  <2> HIDE DEF p
  <2>2. ASSUME NEW r \in DevRec, NEW x \in Slots
        PROVE  [r EXCEPT !.cq_tail = x, !.phase = p]
               = [sq_head |-> r.sq_head, sq_tail |-> r.sq_tail, cq_tail |-> x, cq_head |-> r.cq_head, phase |-> p]
    <3> DEFINE u == [r EXCEPT !.cq_tail = x]
    <3>1. u = [sq_head |-> r.sq_head, sq_tail |-> r.sq_tail, cq_tail |-> x, cq_head |-> r.cq_head, phase |-> r.phase]
          /\ u \in DevRec
      BY DEF DevRec
    <3> HIDE DEF u
    <3>2. [u EXCEPT !.phase = p]
          = [sq_head |-> u.sq_head, sq_tail |-> u.sq_tail, cq_tail |-> u.cq_tail, cq_head |-> u.cq_head, phase |-> p]
      BY <3>1 DEF DevRec
    <3> QED BY <3>1, <3>2 DEF u
  <2> QED BY <1>1, <1>3, <2>1, <2>2
<1> HIDE DEF t, p
<1>5. dev' \in [Queues -> DevRec]
  BY <1>1, <1>3, <1>4 DEF IInv, Types, DevRec
<1>6. Types'
  <2>1. DOMAIN cq' = Queues /\ \A j \in Queues : DOMAIN cq'[j] = Slots
    <3>1. DOMAIN cq' = Queues /\ \A j \in Queues \ {k} : cq'[j] = cq[j]
      BY <1>1, <1>2 DEF IInv, Types
    <3>2. cq'[k] = [cq[k] EXCEPT ![t] = Cqe(b.cmd.cid, dev[k].phase, st)]
      BY <1>1, <1>2 DEF IInv, Types
    <3>3. DOMAIN cq'[k] = Slots
      BY <1>1, <3>2 DEF IInv, Types
    <3> QED BY <3>1, <3>3 DEF IInv, Types
  <2>2. posted' \in [Queues -> Int]
    BY <1>1, <1>2 DEF IInv, Types
  <2> QED BY <1>2, <1>5, <2>1, <2>2 DEF IInv, Types
<1>7. /\ dev'[k].cq_tail = NextSlot(t) /\ dev'[k].phase = p /\ dev'[k].cq_head = dev[k].cq_head
      /\ posted'[k] = posted[k] + 1
      /\ \A j \in Queues \ {k} : dev'[j] = dev[j] /\ cq'[j] = cq[j] /\ posted'[j] = posted[j]
  BY <1>1, <1>2, <1>4 DEF IInv, Types
<1>8. \A s \in Slots : cq'[k][s].phase = IF s < NextSlot(t) THEN p ELSE 1 - p
  <2>1. \A s \in Slots : cq[k][s].phase = IF s < t THEN dev[k].phase ELSE 1 - dev[k].phase
    BY <1>1 DEF IInv, Ring, t
  <2>2. \A s \in Slots : cq'[k][s] = IF s = t THEN Cqe(b.cmd.cid, dev[k].phase, st) ELSE cq[k][s]
    BY <1>1, <1>2 DEF IInv, Types
  <2>3. \A s \in Slots : cq'[k][s].phase = IF s < t + 1 THEN dev[k].phase ELSE 1 - dev[k].phase
    BY <1>1, <1>3, <2>1, <2>2, NvmeAssumption DEF Cqe, Slots
  <2> QED BY <1>1, <1>3, <2>3, NextSlotIs, NvmeAssumption DEF p, Slots
<1>9. Lap(NextSlot(t), q[k].cq_head, p, q[k].cq_phase, posted[k] + 1 - taken[k])
  <2>1. /\ Lap(t, q[k].cq_head, dev[k].phase, q[k].cq_phase, posted[k] - taken[k])
        /\ NextSlot(t) # q[k].cq_head
    BY <1>1, <1>2 DEF IInv, Ring, t
  <2>2. q[k].cq_head \in Slots /\ q[k].cq_phase \in {0, 1} /\ posted[k] - taken[k] \in Int
        /\ (posted[k] - taken[k]) + 1 = posted[k] + 1 - taken[k]
    BY <1>1 DEF QueueRec
  <2>3. Lap(NextSlot(t), q[k].cq_head, p, q[k].cq_phase, (posted[k] - taken[k]) + 1)
    BY <1>1, <1>3, <2>1, <2>2, TailMoves DEF p
  <2> QED BY <2>2, <2>3
<1>10. \A j \in Queues : Ring(j)'
  <2>1. ASSUME NEW j \in Queues, j = k PROVE Ring(j)'
    <3>1. dev'[j].cq_head = q'[j].cq_head
      BY <1>2, <1>7, <2>1 DEF IInv, Ring
    <3>2. \A s \in Slots : cq'[j][s].phase = IF s < dev'[j].cq_tail THEN dev'[j].phase ELSE 1 - dev'[j].phase
      BY <1>7, <1>8, <2>1
    <3>3. Lap(dev'[j].cq_tail, q'[j].cq_head, dev'[j].phase, q'[j].cq_phase, posted'[j] - taken'[j])
      <4>1. posted'[j] - taken'[j] = posted[k] + 1 - taken[k] /\ q'[j] = q[k]
        BY <1>1, <1>2, <1>7, <2>1
      <4>2. dev'[j].cq_tail = NextSlot(t) /\ dev'[j].phase = p
        BY <1>7, <2>1
      <4> QED BY <1>9, <4>1, <4>2, Zenon
    <3> QED BY <3>1, <3>2, <3>3 DEF Ring
  <2>2. ASSUME NEW j \in Queues \ {k} PROVE Ring(j)'
    BY <1>2, <1>7, <2>2 DEF IInv, Ring
  <2> QED BY <2>1, <2>2
<1>11. \A j \in Queues : Quiet(j) => j # k /\ Quiet(j)'
  BY <1>2, <1>7 DEF Quiet, k
<1>12. Unused'
  BY <1>2, <1>11 DEF IInv, Unused, Queues
<1> QED BY <1>6, <1>10, <1>12 DEF IInv

(* poll_qe takes one.                                                       *)
LEMMA PollStep ==
  ASSUME IInv, NEW k \in Queues, k = PollQueue, PollQe(k)
  PROVE  IInv'
<1> DEFINE h == NextSlot(q[k].cq_head)
           c == IF h = 0 THEN 1 - q[k].cq_phase ELSE q[k].cq_phase
<1>1. /\ HeadEntry(k).phase = q[k].cq_phase
      /\ q' = [q EXCEPT ![k] = [q[k] EXCEPT !.cq_head = h, !.cq_phase = c]]
      /\ dev' = [dev EXCEPT ![k] = [dev[k] EXCEPT !.cq_head = h]]
      /\ taken' = [taken EXCEPT ![k] = @ + 1]
      /\ pc = "poll" /\ pc' \in {"answered", "panic"}
      /\ UNCHANGED <<step, cq, busy, posted>>
  BY DEF PollQe, PollQeWith, IInv, Types
<1>2. q[k] \in QueueRec /\ dev[k] \in DevRec /\ posted[k] \in Int /\ taken[k] \in Int
  BY DEF IInv, Types
<1>3. h \in Slots /\ c \in {0, 1} /\ q[k].cq_head \in Slots /\ q[k].cq_phase \in {0, 1}
      /\ dev[k].cq_tail \in Slots /\ dev[k].phase \in {0, 1}
  BY <1>2, NextSlotIs DEF QueueRec, DevRec
<1>4. Lap(dev[k].cq_tail, h, dev[k].phase, c, posted[k] - (taken[k] + 1))
  <2>1. posted[k] > taken[k]
    BY <1>1, HeadPhase DEF IInv
  <2>2. Lap(dev[k].cq_tail, q[k].cq_head, dev[k].phase, q[k].cq_phase, posted[k] - taken[k])
    BY DEF IInv, Ring
  <2>3. posted[k] - taken[k] \in Int /\ posted[k] - taken[k] > 0
        /\ (posted[k] - taken[k]) - 1 = posted[k] - (taken[k] + 1)
    BY <1>2, <2>1
  <2>4. Lap(dev[k].cq_tail, h, dev[k].phase, c, (posted[k] - taken[k]) - 1)
    BY <1>3, <2>2, <2>3, HeadMoves
  <2> QED BY <2>3, <2>4
<1> HIDE DEF h, c
<1>5. q' = [q EXCEPT ![k] = [sq_tail |-> q[k].sq_tail, cq_head |-> h, cq_phase |-> c, next_cid |-> q[k].next_cid]]
  <2>1. ASSUME NEW r \in QueueRec
        PROVE  [r EXCEPT !.cq_head = h, !.cq_phase = c]
               = [sq_tail |-> r.sq_tail, cq_head |-> h, cq_phase |-> c, next_cid |-> r.next_cid]
    <3> DEFINE u == [r EXCEPT !.cq_head = h]
    <3>1. u = [sq_tail |-> r.sq_tail, cq_head |-> h, cq_phase |-> r.cq_phase, next_cid |-> r.next_cid]
          /\ u \in QueueRec
      BY <1>3 DEF QueueRec
    <3> HIDE DEF u
    <3>2. [u EXCEPT !.cq_phase = c]
          = [sq_tail |-> u.sq_tail, cq_head |-> u.cq_head, cq_phase |-> c, next_cid |-> u.next_cid]
      BY <3>1 DEF QueueRec
    <3> QED BY <3>1, <3>2 DEF u
  <2> QED BY <1>1, <1>2, <2>1
<1>6. q' \in [Queues -> QueueRec] /\ dev' \in [Queues -> DevRec]
  <2>1. q' \in [Queues -> QueueRec]
    BY <1>2, <1>3, <1>5 DEF IInv, Types, QueueRec
  <2>2. dev' \in [Queues -> DevRec]
    BY <1>1, <1>2, <1>3 DEF IInv, Types, DevRec
  <2> QED BY <2>1, <2>2
<1>7. Types'
  BY <1>1, <1>2, <1>6 DEF IInv, Types
<1>8. /\ q'[k].cq_head = h /\ q'[k].cq_phase = c
      /\ \A j \in Queues \ {k} : q'[j] = q[j] /\ dev'[j] = dev[j] /\ taken'[j] = taken[j]
  BY <1>1, <1>5 DEF IInv, Types
<1>9. /\ dev'[k].cq_head = h /\ dev'[k].cq_tail = dev[k].cq_tail /\ dev'[k].phase = dev[k].phase
      /\ taken'[k] = taken[k] + 1
  BY <1>1, <1>2 DEF IInv, Types, DevRec
<1>10. \A j \in Queues : Ring(j)'
  BY <1>1, <1>4, <1>8, <1>9 DEF IInv, Ring
<1>11. step # "read" => k # "io"
  BY DEF PollQueue
<1>12. \A j \in Queues \ {k} : Quiet(j)' <=> Quiet(j)
  BY <1>1, <1>8 DEF Quiet
<1>13. Unused'
  BY <1>1, <1>11, <1>12 DEF IInv, Unused, BringUp, Early, Pending, Queues
<1> QED BY <1>7, <1>10, <1>13 DEF IInv

-----------------------------------------------------------------------------
(* Every step of the driver and of the controller preserves the invariant.  *)
LEMMA NextIInv == IInv /\ [Next]_vars => IInv'
<1> SUFFICES ASSUME IInv, [Next]_vars PROVE IInv'
  OBVIOUS
<1> USE DEF driver, rings, ctrl, irqs, Early, BringUp, Pending, Requests
<1>1. CASE UNCHANGED vars
  BY <1>1, RingsLeft DEF vars, IInv, Unused
<1>2. CASE NvmeInit \/ SetupAdmin \/ WaitDisabled \/ WaitReady \/ IrqSeen \/ PollTimeout
           \/ DevReady \/ NvmeIoHandler
  <2>1. /\ UNCHANGED <<q, cq, dev, busy, posted, taken, step>>
        /\ pc' \in Early => pc \in Early
        /\ pc' \in BringUp => pc \in BringUp
        /\ pc' \in Pending => pc \in Pending
    BY <1>2 DEF NvmeInit, SetupAdmin, WaitDisabled, WaitReady, IrqSeen, PollTimeout, DevReady, NvmeIoHandler
  <2> QED BY <2>1, RingsLeft DEF IInv, Unused
<1>3. CASE AdminAnswered
  <2>1. UNCHANGED <<q, cq, dev, busy, posted, taken, step>> /\ step # "read"
    BY <1>3 DEF AdminAnswered
  <2>2. pc = "answered" /\ step \in Requests
    BY <1>3 DEF AdminAnswered, IInv, Unused
  <2>3. pc' \in {"identify_namespace", "setup_io_queue", "create_sq", "smoke_read"}
    BY <1>3, <2>1, <2>2 DEF AdminAnswered, After
  <2> QED BY <2>1, <2>3, RingsLeft
<1>4. CASE ReadAnswered
  BY <1>4, RingsLeft DEF ReadAnswered
<1>5. CASE ProgramAdmin
  <2>1. CASE Len(pool) < 2
    BY <1>5, <2>1, RingsLeft DEF ProgramAdmin
  <2>2. CASE ~(Len(pool) < 2)
    <3>1. /\ cq' = [cq EXCEPT !["admin"] = Zeroed] /\ pc = "program_admin" /\ pc' = "wait_ready"
          /\ UNCHANGED <<q, dev, busy, posted, taken, step>>
      BY <1>5, <2>2 DEF ProgramAdmin
    <3>2. Types'
      BY <3>1 DEF IInv, Types, Zeroed
    <3>3. \A k \in Queues : Quiet(k)' <=> Quiet(k)
      BY <3>1 DEF Quiet
    <3>4. Unused'
      BY <3>1, <3>3 DEF IInv, Unused, Queues
    <3>5. Ring("io")'
      BY <3>1 DEF IInv, Ring, Types, Queues
    <3>6. Ring("admin")'
      <4>1. Quiet("admin") /\ "admin" \in Queues
        BY <3>1 DEF IInv, Unused, Queues
      <4>2. \A s \in Slots : cq'["admin"][s].phase = 0
        BY <3>1, <4>1 DEF IInv, Types, Zeroed, Cqe
      <4>3. posted["admin"] - taken["admin"] = 0 /\ QSize \in Nat /\ \A s \in Slots : ~(s < 0)
        BY <4>1, NvmeAssumption DEF IInv, Types, Quiet, Slots
      <4> QED BY <3>1, <4>1, <4>2, <4>3 DEF Quiet, Ring, Lap
    <3> QED BY <3>2, <3>4, <3>5, <3>6 DEF IInv, Queues
  <2> QED BY <2>1, <2>2
<1>6. CASE Identify("identify_controller") \/ Identify("identify_namespace")
  <2>1. CASE pool = <<>>
    BY <1>6, <2>1, RingsLeft DEF Identify, IInv, Unused
  <2>2. CASE pool # <<>>
    <3>1. PICK op \in {"identify_controller", "identify_namespace"} : Identify(op)
      BY <1>6
    <3>2. /\ SubmitQe("admin", op, Top) /\ pc = op /\ pc' = "poll" /\ step' = op
          /\ UNCHANGED <<busy, posted, taken, cq>>
      BY <2>2, <3>1 DEF Identify
    <3> QED BY <3>2, Submits DEF IInv, Unused, Queues
  <2> QED BY <2>1, <2>2
<1>7. CASE SetupIoQueue
  <2>1. CASE Len(pool) < 2
    BY <1>7, <2>1, RingsLeft DEF SetupIoQueue, SetupIoQueueWith, IInv, Unused
  <2>2. CASE ~(Len(pool) < 2)
    <3>1. /\ SubmitQe("admin", "create_cq", Top) /\ pc = "setup_io_queue" /\ pc' = "poll"
          /\ step' = "create_cq" /\ cq' = [cq EXCEPT !["io"] = Zeroed]
          /\ UNCHANGED <<busy, posted, taken>>
      BY <1>7, <2>2 DEF SetupIoQueue, SetupIoQueueWith
    <3>2. Quiet("io") /\ step # "read"
      BY <3>1 DEF IInv, Unused
    <3> QED BY <3>1, <3>2, Submits DEF Queues
  <2> QED BY <2>1, <2>2
<1>8. CASE CreateIoSq
  <2>1. /\ SubmitQe("admin", "create_sq", buf) /\ pc = "create_sq" /\ pc' = "poll"
        /\ step' = "create_sq" /\ UNCHANGED <<busy, posted, taken, cq>>
    BY <1>8 DEF CreateIoSq
  <2> QED BY <2>1, Submits DEF IInv, Unused, Queues
<1>9. CASE SmokeRead
  <2>1. CASE pool = <<>>
    BY <1>9, <2>1, RingsLeft DEF SmokeRead
  <2>2. CASE pool # <<>>
    <3>1. /\ SubmitQe("io", "read", Top) /\ pc' = "wait_irq" /\ step' = "read"
          /\ UNCHANGED <<busy, posted, taken, cq>>
      BY <1>9, <2>2 DEF SmokeRead
    <3> QED BY <3>1, Submits DEF Queues
  <2> QED BY <2>1, <2>2
<1>10. CASE PollQe(PollQueue)
  BY <1>10, PollStep DEF PollQueue, Queues
<1>11. CASE \E k \in Queues : DevFetch(k)
  BY <1>11, FetchStep
<1>12. CASE \E b \in busy, st \in Statuses : DevComplete(b, st)
  BY <1>12, CompleteStep
<1> QED
  BY <1>1, <1>2, <1>3, <1>4, <1>5, <1>6, <1>7, <1>8, <1>9, <1>10, <1>11, <1>12 DEF Next, Driver, Device

(* poll_qe takes the entry at its head exactly when the controller has      *)
(* written more completions than were consumed, for any size of the queues. *)
THEOREM PhaseIsRight == Spec => []PhaseTellsNew
<1>1. IInv => PhaseTellsNew
  BY HeadPhase DEF IInv, PhaseTellsNew
<1> QED BY <1>1, InitIInv, NextIInv, PTL DEF Spec

-----------------------------------------------------------------------------
(* The frame of the read in progress holds a sector only when the           *)
(* controller has written it: it was cleared, and no other command leaves   *)
(* a sector.                                                                *)
FrameSet == {Frames[i] : i \in DOMAIN Frames}
Buffers == {"identify_controller", "identify_namespace", "read"}

MInv ==
    /\ DOMAIN mem = FrameSet /\ pool \in Seq(FrameSet)
    /\ pc \in Pending /\ step \in Buffers => buf \in FrameSet
    /\ pc \in Pending /\ step = "read" => (mem[buf] = "sector" => wrote)

(* The frame allocator's stack gives frames.                                *)
LEMMA PoolPops ==
  ASSUME pool \in Seq(FrameSet), pool # <<>>
  PROVE  Top \in FrameSet /\ SubSeq(pool, 1, Len(pool) - 1) \in Seq(FrameSet)
<1>1. Len(pool) \in Nat /\ Len(pool) > 0
  OBVIOUS
<1>2. Len(pool) \in DOMAIN pool
  BY <1>1
<1> QED BY <1>1, <1>2 DEF Top

(* Before a request is submitted there is no frame to speak of.             *)
LEMMA NotPending ==
  ASSUME DOMAIN mem' = FrameSet, pool' \in Seq(FrameSet), pc' \notin Pending
  PROVE  MInv'
BY DEF MInv

(* A step that leaves the frames alone and starts no request.               *)
LEMMA FramesLeft ==
  ASSUME MInv, UNCHANGED <<mem, pool, buf, step, wrote>>, pc' \in Pending => pc \in Pending
  PROVE  MInv'
BY DEF MInv

(* Every step keeps it.                                                     *)
LEMMA NextMInv == IInv /\ MInv /\ [Next]_vars => MInv'
<1> SUFFICES ASSUME IInv, MInv, [Next]_vars PROVE MInv'
  OBVIOUS
<1> USE DEF driver, rings, ctrl, irqs, Pending
<1>m. DOMAIN mem = FrameSet /\ pool \in Seq(FrameSet)
  BY DEF MInv
<1>1. CASE UNCHANGED vars
  BY <1>1, FramesLeft DEF vars
<1>2. CASE NvmeInit \/ SetupAdmin \/ WaitDisabled \/ WaitReady \/ IrqSeen \/ PollTimeout
           \/ DevReady \/ NvmeIoHandler
  <2>1. UNCHANGED <<mem, pool, buf, step, wrote>> /\ (pc' \in Pending => pc \in Pending)
    BY <1>2 DEF NvmeInit, SetupAdmin, WaitDisabled, WaitReady, IrqSeen, PollTimeout, DevReady, NvmeIoHandler
  <2> QED BY <2>1, FramesLeft
<1>3. CASE PollQe(PollQueue) \/ \E k \in Queues : DevFetch(k)
  <2>1. UNCHANGED <<mem, pool, buf, step, wrote>> /\ (pc' \in Pending => pc \in Pending)
    BY <1>3 DEF PollQe, PollQeWith, DevFetch
  <2> QED BY <2>1, FramesLeft
<1>4. CASE AdminAnswered
  <2>1. pc = "answered" /\ step \in Requests /\ step # "read" /\ UNCHANGED mem
    BY <1>4 DEF AdminAnswered, IInv, Unused
  <2>2. pc' \notin Pending
    BY <1>4, <2>1 DEF AdminAnswered, After, Requests
  <2>3. pool' = (IF step \in {"identify_controller", "identify_namespace"} THEN Append(pool, buf) ELSE pool)
    BY <1>4 DEF AdminAnswered
  <2>4. step \in {"identify_controller", "identify_namespace"} => buf \in FrameSet
    BY <2>1 DEF MInv, Buffers
  <2>5. pool' \in Seq(FrameSet)
    BY <1>m, <2>3, <2>4
  <2> QED BY <1>m, <2>1, <2>2, <2>5, NotPending
<1>5. CASE ReadAnswered
  <2>1. UNCHANGED mem /\ buf \in FrameSet /\ pc' \notin Pending
    BY <1>5 DEF ReadAnswered, MInv, Buffers
  <2>2. pool' = pool \/ pool' = Append(pool, buf)
    BY <1>5 DEF ReadAnswered
  <2>3. pool' \in Seq(FrameSet)
    BY <1>m, <2>1, <2>2
  <2> QED BY <1>m, <2>1, <2>3, NotPending
<1>6. CASE ProgramAdmin
  <2>1. pc' \notin Pending
    BY <1>6 DEF ProgramAdmin
  <2>2. DOMAIN mem' = DOMAIN mem
    BY <1>6 DEF ProgramAdmin
  <2>3. pool' = pool \/ (Len(pool) >= 2 /\ pool' = SubSeq(pool, 1, Len(pool) - 2))
    BY <1>6, <1>m DEF ProgramAdmin
  <2>4. pool' \in Seq(FrameSet)
    BY <1>m, <2>3
  <2> QED BY <1>m, <2>1, <2>2, <2>4, NotPending
<1>7. CASE Identify("identify_controller") \/ Identify("identify_namespace")
  <2>1. CASE pool = <<>>
    BY <1>7, <1>m, <2>1, NotPending DEF Identify
  <2>2. CASE pool # <<>>
    <3>1. /\ pool' = SubSeq(pool, 1, Len(pool) - 1) /\ buf' = Top
          /\ DOMAIN mem' = DOMAIN mem /\ step' # "read"
      BY <1>7, <2>2 DEF Identify, Buffer
    <3>2. pool' \in Seq(FrameSet) /\ buf' \in FrameSet
      BY <1>m, <2>2, <3>1, PoolPops
    <3> QED BY <1>m, <3>1, <3>2 DEF MInv
  <2> QED BY <2>1, <2>2
<1>8. CASE SetupIoQueue
  <2>1. CASE Len(pool) < 2
    BY <1>8, <1>m, <2>1, NotPending DEF SetupIoQueue, SetupIoQueueWith
  <2>2. CASE ~(Len(pool) < 2)
    <3>1. /\ pool' = SubSeq(pool, 1, Len(pool) - 2)
          /\ DOMAIN mem' = DOMAIN mem /\ step' = "create_cq"
      BY <1>8, <2>2 DEF SetupIoQueue, SetupIoQueueWith
    <3>2. pool' \in Seq(FrameSet)
      BY <1>m, <2>2, <3>1
    <3> QED BY <1>m, <3>1, <3>2 DEF MInv, Buffers
  <2> QED BY <2>1, <2>2
<1>9. CASE CreateIoSq
  <2>1. DOMAIN mem' = DOMAIN mem /\ step' = "create_sq" /\ UNCHANGED pool
    BY <1>9 DEF CreateIoSq
  <2> QED BY <1>m, <2>1 DEF MInv, Buffers
<1>10. CASE SmokeRead
  <2>1. CASE pool = <<>>
    BY <1>10, <1>m, <2>1, NotPending DEF SmokeRead
  <2>2. CASE pool # <<>>
    <3>1. /\ pool' = SubSeq(pool, 1, Len(pool) - 1) /\ buf' = Top
          /\ mem' = [mem EXCEPT ![Top] = "zero"]
      BY <1>10, <2>2 DEF SmokeRead, Buffer
    <3>2. pool' \in Seq(FrameSet) /\ Top \in FrameSet
      BY <1>m, <2>2, <3>1, PoolPops
    <3>3. DOMAIN mem' = FrameSet /\ mem'[buf'] = "zero"
      BY <1>m, <3>1, <3>2
    <3> QED BY <3>1, <3>2, <3>3 DEF MInv
  <2> QED BY <2>1, <2>2
<1>11. CASE \E b \in busy, st \in Statuses : DevComplete(b, st)
  <2>1. PICK b \in busy, st \in Statuses : DevComplete(b, st)
    BY <1>11
  <2>2. /\ UNCHANGED <<pool, buf, step, pc>>
        /\ mem' = IF st = 0 THEN [mem EXCEPT ![b.cmd.prp] = Answer(b.cmd.op)] ELSE mem
        /\ wrote' = (wrote \/ (b.cmd.op = "read" /\ st = 0))
    BY <2>1 DEF DevComplete
  <2>3. b.cmd.op # "read" => Answer(b.cmd.op) # "sector"
    BY DEF Answer
  <2>4. DOMAIN mem' = FrameSet
    BY <1>m, <2>2
  <2>5. buf \in FrameSet => (mem'[buf] = "sector" => mem[buf] = "sector" \/ wrote')
    BY <1>m, <2>2, <2>3
  <2>6. wrote => wrote'
    BY <2>2
  <2> QED BY <1>m, <2>2, <2>4, <2>5, <2>6 DEF MInv, Buffers
<1> QED
  BY <1>1, <1>2, <1>3, <1>4, <1>5, <1>6, <1>7, <1>8, <1>9, <1>10, <1>11 DEF Next, Driver, Device

(* ARSENAL_NVME_OK is printed only after the controller has written the     *)
(* sector for that read, for any statuses it reports, any pool of frames    *)
(* and whatever firmware left in them.                                      *)
THEOREM OkAfterRead == Spec => OkMeansRead
<1>1. Init => MInv
  BY FramesAssumption DEF Init, MInv, FrameSet, Pending
<1>2. IInv /\ MInv /\ [Next]_vars => (oks' # oks => wrote)
  <2> SUFFICES ASSUME MInv, [Next]_vars, oks' # oks PROVE wrote
    OBVIOUS
  <2>1. ReadAnswered
    BY DEF Next, Driver, Device, vars, driver, NvmeInit, SetupAdmin, WaitDisabled, ProgramAdmin, WaitReady,
       Identify, SetupIoQueue, SetupIoQueueWith, CreateIoSq, SmokeRead, IrqSeen, PollQe, PollQeWith,
       AdminAnswered, PollTimeout, DevReady, DevFetch, DevComplete, NvmeIoHandler
  <2> QED BY <2>1 DEF ReadAnswered, MInv, Pending
<1> QED BY <1>1, <1>2, InitIInv, NextIInv, NextMInv, PTL DEF Spec, OkMeansRead
=============================================================================
