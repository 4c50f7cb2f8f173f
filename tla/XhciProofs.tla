----------------------------- MODULE XhciProofs -----------------------------
(***************************************************************************)
(* Proofs about Xhci: the event ring's cycle bit and ERDP keep the events  *)
(* in order for the boot code and, after the hand-over, for the poll task; *)
(* and a wait of the boot code ends with the answer to its own request.    *)
(* The ring sizes, the machines and all bounds are arbitrary.              *)
(***************************************************************************)
EXTENDS Xhci, TLAPS

(* The keyboard is the last device that is enumerated.  The poll task gets  *)
(* the boot code's cursor when the keyboard is set up: events that the boot *)
(* code consumed for a device after it would be news to the poll task.      *)
KeyboardLast ==
    \A mc \in Machines : \A p, q \in 1 .. Len(mc.cfgs) :
        p < q /\ mc.cfgs[p] # None /\ Configured(mc.cfgs[p]) = "configure_hid" => mc.cfgs[q] = None

-----------------------------------------------------------------------------
(* The event ring by itself: r the ring, pd and ps index and cycle of the   *)
(* controller's cursor, cd and cs of the consumer's, e what the controller  *)
(* was told of it, po and ta the numbers of events written and consumed.    *)
Places == 0 .. ERing - 1

(* Slot i holds an event that nobody has consumed.                          *)
Full(i, pd, ps, cd, cs) == IF cs = ps THEN cd <= i /\ i < pd ELSE cd <= i \/ i < pd

(* How many slots i lies behind the consumer.                               *)
Offset(i, cd) == IF cd <= i THEN i - cd ELSE i + ERing - cd

RingTypes(r, pd, ps, cd, cs, e, po, ta) ==
    /\ DOMAIN r = Places
    /\ pd \in Places /\ ps \in {0, 1} /\ cd \in Places /\ cs \in {0, 1}
    /\ e \in Places /\ po \in Nat /\ ta \in Nat

(* The slots before the controller's cursor have its cycle, the others the  *)
(* one of the lap before.                                                   *)
CycleOk(r, pd, ps) == \A i \in Places : r[i].cycle = IF i < pd THEN ps ELSE 1 - ps

(* The consumer is on the controller's lap and not past it, or one lap      *)
(* behind and past it; and the place the controller was told lies between   *)
(* the controller and the consumer.                                         *)
LapOk(pd, ps, cd, cs, e, po, ta) ==
    IF cs = ps
    THEN cd <= pd /\ po - ta = pd - cd /\ (e <= cd \/ pd < e)
    ELSE pd < cd /\ po - ta = pd + ERing - cd /\ pd < e /\ e <= cd

NumbersOk(r, pd, ps, cd, cs, ta) ==
    \A i \in Places : Full(i, pd, ps, cd, cs) => r[i].num = ta + 1 + Offset(i, cd)

RingOk(r, pd, ps, cd, cs, e, po, ta) ==
    /\ RingTypes(r, pd, ps, cd, cs, e, po, ta)
    /\ CycleOk(r, pd, ps)
    /\ LapOk(pd, ps, cd, cs, e, po, ta)
    /\ NumbersOk(r, pd, ps, cd, cs, ta)

(* The next index, without the remainder.                                   *)
LEMMA Wrap ==
  ASSUME NEW a \in Places
  PROVE  /\ (a + 1) % ERing = IF a + 1 = ERing THEN 0 ELSE a + 1
         /\ (a + 1) % ERing \in Places
<1>1. ERing \in Nat /\ ERing > 1
  BY XhciAssumption
<1>2. CASE a + 1 = ERing
  <2>1. ERing % ERing = 0
    BY <1>1, SMTT(30)
  <2> QED BY <1>1, <1>2, <2>1 DEF Places
<1>3. CASE a + 1 # ERing
  <2>1. a + 1 \in 0 .. ERing - 1
    BY <1>1, <1>3 DEF Places
  <2>2. (a + 1) % ERing = a + 1
    BY <1>1, <2>1, SMTT(30)
  <2> QED BY <1>3, <2>1, <2>2, Zenon DEF Places
<1> QED BY <1>2, <1>3, Zenon

(* The step of a cursor, as Post and Consume write it.                      *)
LEMMA CursorStep ==
  ASSUME NEW d \in Places
  PROVE  /\ (d + 1) % ERing = IF d + 1 = ERing THEN 0 ELSE d + 1
         /\ (d + 1) % ERing \in Places
         /\ (d + 1) % ERing = 0 <=> d + 1 = ERing
<1>1. d + 1 # 0
  BY XhciAssumption DEF Places
<1>2. (d + 1) % ERing = (IF d + 1 = ERing THEN 0 ELSE d + 1) /\ (d + 1) % ERing \in Places
  BY Wrap, Zenon
<1> QED BY <1>1, <1>2, Zenon

(* The new cursor <<qd, qs>> after <<pd, ps>>, and a ring s that is r with d *)
(* written at pd.                                                           *)
Stepped(qd, qs, pd, ps) ==
    /\ qd = IF pd + 1 = ERing THEN 0 ELSE pd + 1
    /\ qs = IF pd + 1 = ERing THEN 1 - ps ELSE ps
Written(s, r, pd, d) == s = [r EXCEPT ![pd] = d]

(* Writing an event at the controller's cursor: one more slot is full.      *)
LEMMA PostRing ==
  ASSUME NEW r, NEW pd, NEW ps, NEW cd, NEW cs, NEW e, NEW po, NEW ta,
         RingOk(r, pd, ps, cd, cs, e, po, ta),
         NEW d, d.cycle = ps, d.num = po + 1,
         NEW s, Written(s, r, pd, d),
         NEW qd, NEW qs, Stepped(qd, qs, pd, ps), qd # e
  PROVE  /\ RingOk(s, qd, qs, cd, cs, e, po + 1, ta)
         /\ \A i \in Places : Full(i, qd, qs, cd, cs) =>
                \/ Full(i, pd, ps, cd, cs) /\ s[i] = r[i]
                \/ i = pd /\ s[i] = d
<1>1. ERing \in Nat /\ ERing > 1
  BY XhciAssumption
<1>2. /\ e \in Places /\ po \in Nat /\ ta \in Nat
      /\ pd \in Places /\ ps \in {0, 1} /\ cd \in Places /\ cs \in {0, 1}
  BY Zenon DEF RingOk, RingTypes
<1>3. qd \in Places /\ qs \in {0, 1}
  BY <1>1, <1>2 DEF Places, Stepped
<1>4. DOMAIN s = Places /\ s[pd] = d /\ \A i \in Places : i # pd => s[i] = r[i]
  BY <1>2, Zenon DEF RingOk, RingTypes, Written
<1>5. LapOk(pd, ps, cd, cs, e, po, ta) /\ CycleOk(r, pd, ps) /\ NumbersOk(r, pd, ps, cd, cs, ta)
  BY Zenon DEF RingOk
<1>6. RingTypes(s, qd, qs, cd, cs, e, po + 1, ta)
  BY <1>2, <1>3, <1>4 DEF RingTypes
<1>7. LapOk(qd, qs, cd, cs, e, po + 1, ta)
  BY <1>1, <1>2, <1>5 DEF LapOk, Places, Stepped
<1>8. CycleOk(s, qd, qs)
  <2> SUFFICES ASSUME NEW i \in Places PROVE s[i].cycle = IF i < qd THEN qs ELSE 1 - qs
    BY Zenon DEF CycleOk
  <2>1. i # pd => s[i].cycle = IF i < pd THEN ps ELSE 1 - ps
    BY <1>4, <1>5, Zenon DEF CycleOk
  <2>2. i = pd => s[i].cycle = ps
    BY <1>4, Zenon
  <2> DEFINE y == s[i].cycle
  <2> HIDE DEF y
  <2>3. (i # pd => y = IF i < pd THEN ps ELSE 1 - ps) /\ (i = pd => y = ps)
    BY <2>1, <2>2, Zenon DEF y
  <2>4. y = IF i < qd THEN qs ELSE 1 - qs
    BY <1>1, <1>2, <2>3 DEF Places, Stepped
  <2> QED BY <2>4, Zenon DEF y
<1>9. \A i \in Places : Full(i, qd, qs, cd, cs) <=> (i = pd \/ Full(i, pd, ps, cd, cs))
  BY <1>1, <1>2, <1>5 DEF LapOk, Full, Places, Stepped
<1>10. ~Full(pd, pd, ps, cd, cs) /\ po + 1 = ta + 1 + Offset(pd, cd)
  BY <1>1, <1>2, <1>5 DEF LapOk, Full, Offset, Places
<1>11. NumbersOk(s, qd, qs, cd, cs, ta)
  BY <1>4, <1>5, <1>9, <1>10, Zenon DEF NumbersOk
<1> QED BY <1>4, <1>6, <1>7, <1>8, <1>9, <1>10, <1>11, Zenon DEF RingOk

(* The consumer sees an event at its cursor.                                *)
Seen(r, cd, cs) == r[cd].cycle = cs

(* What the cycle bit tells the consumer.                                   *)
LEMMA CycleTells ==
  ASSUME NEW r, NEW pd, NEW ps, NEW cd, NEW cs, NEW e, NEW po, NEW ta,
         RingOk(r, pd, ps, cd, cs, e, po, ta)
  PROVE  /\ Seen(r, cd, cs) <=> ta < po
         /\ Seen(r, cd, cs) => Full(cd, pd, ps, cd, cs) /\ r[cd].num = ta + 1
         /\ cd \in Places
<1>1. ERing \in Nat /\ ERing > 1
  BY XhciAssumption
<1>2. /\ e \in Places /\ po \in Nat /\ ta \in Nat
      /\ pd \in Places /\ ps \in {0, 1} /\ cd \in Places /\ cs \in {0, 1}
  BY Zenon DEF RingOk, RingTypes
<1>3. LapOk(pd, ps, cd, cs, e, po, ta) /\ CycleOk(r, pd, ps) /\ NumbersOk(r, pd, ps, cd, cs, ta)
  BY Zenon DEF RingOk
<1> DEFINE y == r[cd].cycle
<1>4. y = IF cd < pd THEN ps ELSE 1 - ps
  BY <1>2, <1>3, Zenon DEF CycleOk
<1> HIDE DEF y
<1>5. (y = cs <=> ta < po) /\ (y = cs => Full(cd, pd, ps, cd, cs)) /\ Offset(cd, cd) = 0
  BY <1>1, <1>2, <1>3, <1>4 DEF LapOk, Places, Full, Offset
<1>6. Full(cd, pd, ps, cd, cs) => r[cd].num = ta + 1
  BY <1>2, <1>3, <1>5 DEF NumbersOk
<1> QED BY <1>2, <1>5, <1>6, Zenon DEF y, Seen

(* Passing an event: one slot less is full, and the controller may be told. *)
LEMMA ConsumeRing ==
  ASSUME NEW r, NEW pd, NEW ps, NEW cd, NEW cs, NEW e, NEW po, NEW ta,
         RingOk(r, pd, ps, cd, cs, e, po, ta), Seen(r, cd, cs),
         NEW bd, NEW bs, Stepped(bd, bs, cd, cs)
  PROVE  /\ RingOk(r, pd, ps, bd, bs, e, po, ta + 1)
         /\ RingOk(r, pd, ps, bd, bs, bd, po, ta + 1)
         /\ \A i \in Places : Full(i, pd, ps, bd, bs) => Full(i, pd, ps, cd, cs) /\ i # cd
<1>1. ERing \in Nat /\ ERing > 1
  BY XhciAssumption
<1>2. /\ e \in Places /\ po \in Nat /\ ta \in Nat
      /\ pd \in Places /\ ps \in {0, 1} /\ cd \in Places /\ cs \in {0, 1}
  BY Zenon DEF RingOk, RingTypes
<1>3. LapOk(pd, ps, cd, cs, e, po, ta) /\ CycleOk(r, pd, ps) /\ NumbersOk(r, pd, ps, cd, cs, ta)
  BY Zenon DEF RingOk
<1>4. bd \in Places /\ bs \in {0, 1}
  BY <1>1, <1>2 DEF Places, Stepped
<1>5. Full(cd, pd, ps, cd, cs) /\ ta < po
  BY CycleTells, Zenon
<1>6. LapOk(pd, ps, bd, bs, e, po, ta + 1) /\ LapOk(pd, ps, bd, bs, bd, po, ta + 1)
  BY <1>1, <1>2, <1>3, <1>5 DEF LapOk, Places, Full, Stepped
<1>7. \A i \in Places : Full(i, pd, ps, bd, bs) =>
          Full(i, pd, ps, cd, cs) /\ i # cd /\ Offset(i, cd) = Offset(i, bd) + 1
  BY <1>1, <1>2, <1>3, <1>5 DEF LapOk, Places, Full, Offset, Stepped
<1>8. \A i \in Places : Offset(i, bd) \in Int
  BY <1>1, <1>4 DEF Places, Offset
<1>9. NumbersOk(r, pd, ps, bd, bs, ta + 1)
  BY <1>2, <1>3, <1>7, <1>8 DEF NumbersOk
<1>10. RingTypes(r, pd, ps, bd, bs, e, po, ta + 1) /\ RingTypes(r, pd, ps, bd, bs, bd, po, ta + 1)
  BY <1>2, <1>4 DEF RingOk, RingTypes
<1> QED BY <1>3, <1>6, <1>7, <1>9, <1>10, Zenon DEF RingOk

(* Telling the controller where the consumer is.                            *)
LEMMA TellRing ==
  ASSUME NEW r, NEW pd, NEW ps, NEW cd, NEW cs, NEW e, NEW po, NEW ta,
         RingOk(r, pd, ps, cd, cs, e, po, ta)
  PROVE  RingOk(r, pd, ps, cd, cs, cd, po, ta)
<1>1. pd \in Places /\ cd \in Places /\ RingTypes(r, pd, ps, cd, cs, cd, po, ta)
  BY Zenon DEF RingOk, RingTypes
<1>2. LapOk(pd, ps, cd, cs, cd, po, ta)
  BY <1>1, XhciAssumption DEF RingOk, LapOk, Places
<1> QED BY <1>1, <1>2, Zenon DEF RingOk

(* The numbers tell the events apart.                                       *)
LEMMA NumbersApart ==
  ASSUME NEW r, NEW pd, NEW ps, NEW cd, NEW cs, NEW e, NEW po, NEW ta,
         RingOk(r, pd, ps, cd, cs, e, po, ta),
         NEW i \in Places, NEW j \in Places,
         Full(i, pd, ps, cd, cs), Full(j, pd, ps, cd, cs), r[i].num = r[j].num
  PROVE  i = j
<1>1. ERing \in Nat /\ ta \in Nat /\ cd \in Places
  BY XhciAssumption, Zenon DEF RingOk, RingTypes
<1>2. ta + 1 + Offset(i, cd) = ta + 1 + Offset(j, cd)
  BY Zenon DEF RingOk, NumbersOk
<1> QED BY <1>1, <1>2 DEF Offset, Places

-----------------------------------------------------------------------------
(* The inductive invariant.                                                 *)
Reports == [shift : BOOLEAN, keys : Seq(Usages)]

KeyTypes ==
    /\ held \in Seq(Usages) /\ report \in Reports /\ reports \in Seq(Reports)
    /\ hid \in HidStates \cup {None}

(* Where the boot code enumerates a port.                                   *)
EnumPcs == (Requests \ {"noop"}) \cup {"arm_hid", "validate"}

PortOk(p) == p \in 1 .. NPorts /\ Connected(p)

(* Where the boot code can be.  Once the keyboard is set up no connected    *)
(* port is left, and the poll task has the boot code's cursor until it      *)
(* runs.                                                                    *)
BootInv ==
    /\ machine \in Machines /\ n \in Nat \ {0}
    /\ pc \in {"run", "reset", "wait_halt", "wait_reset", "program"} => erdp = 0
    /\ pc \in EnumPcs => PortOk(n)
    /\ pc \in {"configure_hid", "arm_hid"} => Configured(machine.cfgs[n]) = "configure_hid"
    /\ waiting => pc \in Requests
    /\ hid # None =>
          /\ pc \in {"enumerate", "done"}
          /\ \A q \in 1 .. NPorts : q >= n => machine.cfgs[q] = None
          /\ pc = "enumerate" => cur.deq = hid.deq /\ cur.ccs = hid.ccs
    /\ hid_pc # "poll" => hid # None /\ pc = "done"

RingInv ==
    RingOk(ring, prod.deq, prod.ccs, Consumer.deq, Consumer.ccs, erdp, posted, taken)

(* An event in the ring that is not a port change.                          *)
Solicited(i) ==
    Full(i, prod.deq, prod.ccs, Consumer.deq, Consumer.ccs) /\ ring[i].t # "psc"

(* Until the keyboard is set up, a request the controller holds and an      *)
(* event that answers one belong to the wait of the boot code.              *)
OwnInv ==
    pc # "panic" /\ hid = None =>
        /\ work # None => waiting
        /\ \A i \in Places : Solicited(i) => waiting /\ work = None /\ ring[i].num = answer

XInv == KeyTypes /\ BootInv /\ RingInv /\ OwnInv

(* The initial states.                                                      *)
LEMMA XInit == Init => XInv
<1> SUFFICES ASSUME Init PROVE XInv
  BY Zenon
<1>1. ERing \in Nat /\ ERing > 1
  BY XhciAssumption
<1>2. KeyTypes
  BY DEF Init, KeyTypes, Reports, NoReport
<1>3. BootInv
  BY DEF Init, BootInv, EnumPcs, Requests, Commands, Transfers
<1>4. Consumer.deq = 0 /\ Consumer.ccs = 1 /\ prod.deq = 0 /\ prod.ccs = 1 /\ DOMAIN ring = Places
  BY Zenon DEF Init, Consumer, Start, Places
<1>5. \A i \in Places : ring[i].cycle = 0
  BY Zenon DEF Init, NoTrb, Places
<1>6. \A i \in Places : ~Full(i, 0, 1, 0, 1)
  BY <1>1 DEF Full, Places
<1>7. RingOk(ring, 0, 1, 0, 1, 0, 0, 0)
  <2>1. RingTypes(ring, 0, 1, 0, 1, 0, 0, 0)
    BY <1>1, <1>4 DEF RingTypes, Places
  <2>2. CycleOk(ring, 0, 1)
    BY <1>1, <1>5 DEF CycleOk, Places
  <2>3. LapOk(0, 1, 0, 1, 0, 0, 0)
    BY DEF LapOk
  <2> QED BY <1>6, <2>1, <2>2, <2>3, Zenon DEF RingOk, NumbersOk
<1>8. RingInv
  BY <1>4, <1>7, Zenon DEF RingInv, Init
<1>9. OwnInv
  BY <1>4, <1>6, Zenon DEF OwnInv, Solicited, Init
<1> QED BY <1>2, <1>3, <1>8, <1>9, Zenon DEF XInv

(* A step that leaves the event ring and its consumer alone.                *)
LEMMA RingSame ==
  ASSUME XInv, Consumer.deq' = Consumer.deq, Consumer.ccs' = Consumer.ccs,
         ring' = ring, prod' = prod, erdp' = erdp, posted' = posted, taken' = taken
  PROVE  RingInv'
BY Zenon DEF XInv, RingInv

(* A step that leaves the events, the requests and the waits alone.         *)
LEMMA OwnSame ==
  ASSUME XInv, Consumer.deq' = Consumer.deq, Consumer.ccs' = Consumer.ccs,
         ring' = ring, prod' = prod, work' = work,
         answer' = answer, waiting' = waiting, pc' # "panic" => pc # "panic",
         hid' = None => hid = None
  PROVE  OwnInv'
BY Zenon DEF XInv, OwnInv, Solicited

-----------------------------------------------------------------------------
(* The controller, the keyboard and the interrupt.                          *)

(* What the steps of the controller and the devices keep.                   *)
LEMMA BootSame ==
  ASSUME XInv, UNCHANGED <<boot, poller, erdp>>
  PROVE  BootInv' /\ Consumer' = Consumer
BY Zenon DEF XInv, BootInv, Consumer, PortOk, NPorts, Connected, boot, poller

(* A step of theirs that writes no event.                                   *)
LEMMA DeviceStep ==
  ASSUME XInv, UNCHANGED <<boot, poller, evring, erdp, work, answer, taken>>,
         held' \in Seq(Usages), report' \in Reports, reports' \in Seq(Reports)
  PROVE  XInv'
<1>1. BootInv' /\ Consumer' = Consumer
  BY BootSame, Zenon
<1>2. KeyTypes'
  BY Zenon DEF XInv, KeyTypes, poller
<1>3. RingInv'
  BY <1>1, RingSame, Zenon DEF evring
<1>4. OwnInv'
  BY <1>1, OwnSame, Zenon DEF evring, boot, poller
<1> QED BY <1>1, <1>2, <1>3, <1>4, Zenon DEF XInv

(* The controller settles, signals, and is heard.                           *)
LEMMA SettlesStep == ASSUME XInv, CtlSettles \/ Signal \/ XhciIrqHandler PROVE XInv'
<1>1. UNCHANGED <<boot, poller, evring, erdp, work, answer, taken, endpoint>>
  BY Zenon DEF CtlSettles, Signal, XhciIrqHandler
<1>2. UNCHANGED <<held, report, reports>>
  BY <1>1, Zenon DEF endpoint, keyboard
<1> QED BY <1>1, <1>2, DeviceStep, Zenon DEF XInv, KeyTypes

(* Keys go down and up.                                                     *)
LEMMA TypistStep == ASSUME XInv, Typist PROVE XInv'
<1>1. PICK u \in Usages : Release(u) \/ \E shift \in BOOLEAN : Press(u, shift)
  BY Zenon DEF Typist
<1>2. held \in Seq(Usages) /\ report \in Reports /\ reports \in Seq(Reports)
  BY Zenon DEF XInv, KeyTypes
<1>3. ASSUME NEW shift \in BOOLEAN, held' \in Seq(Usages),
             reports' = Append(reports, [shift |-> shift, keys |-> held'])
      PROVE  reports' \in Seq(Reports)
  <2>1. [shift |-> shift, keys |-> held'] \in Reports
    BY <1>3, Zenon DEF Reports
  <2> DEFINE S == Reports
  <2> HIDE DEF S
  <2>2. Append(reports, [shift |-> shift, keys |-> held']) \in Seq(S)
    BY <1>2, <2>1 DEF S
  <2> QED BY <1>3, <2>2, Zenon DEF S
<1>4. CASE Release(u)
  <2>1. PICK i \in DOMAIN held : held' = SubSeq(held, 1, i - 1) \o SubSeq(held, i + 1, Len(held))
    BY <1>4, Zenon DEF Release
  <2>2. SubSeq(held, 1, i - 1) \o SubSeq(held, i + 1, Len(held)) \in Seq(Usages)
    BY <1>2
  <2>3. reports' \in Seq(Reports)
    BY <1>3, <1>4, <2>1, <2>2, Zenon DEF Release
  <2>4. UNCHANGED <<boot, poller, evring, erdp, work, answer, taken, report>>
    BY <1>4, Zenon DEF Release
  <2> QED BY <1>2, <2>1, <2>2, <2>3, <2>4, DeviceStep, Zenon
<1>5. ASSUME NEW shift \in BOOLEAN, Press(u, shift) PROVE XInv'
  <2>1. held' \in Seq(Usages)
    BY <1>2, <1>5 DEF Press
  <2>2. reports' \in Seq(Reports)
    BY <1>3, <1>5, <2>1, Zenon DEF Press
  <2>3. UNCHANGED <<boot, poller, evring, erdp, work, answer, taken, report>>
    BY <1>5, Zenon DEF Press
  <2> QED BY <1>2, <2>1, <2>2, <2>3, DeviceStep, Zenon
<1> QED BY <1>1, <1>4, <1>5, Zenon

(* A step that writes an event: where the new event is and what the others  *)
(* are.                                                                     *)
LEMMA PostStep ==
  ASSUME XInv, UNCHANGED <<boot, poller, erdp, taken>>, NEW t, NEW code, Post(t, code)
  PROVE  /\ BootInv' /\ RingInv' /\ Consumer' = Consumer
         /\ \A i \in Places : Solicited(i)' =>
                \/ Solicited(i) /\ ring'[i] = ring[i]
                \/ t # "psc" /\ ring'[i].num = posted + 1
<1>1. BootInv' /\ Consumer' = Consumer
  BY BootSame, Zenon
<1> DEFINE d == [t |-> t, cycle |-> prod.ccs, cc |-> code, num |-> posted + 1]
<1>2. RingOk(ring, prod.deq, prod.ccs, Consumer.deq, Consumer.ccs, erdp, posted, taken)
  BY Zenon DEF XInv, RingInv
<1>3. prod.deq \in Places
  BY <1>2, Zenon DEF RingOk, RingTypes
<1>4. Stepped(prod'.deq, prod'.ccs, prod.deq, prod.ccs) /\ prod'.deq # erdp
  BY <1>3, CursorStep, Zenon DEF Post, Stepped
<1>5. Written(ring', ring, prod.deq, d) /\ posted' = posted + 1
  BY Zenon DEF Post, Written
<1>6. d.cycle = prod.ccs /\ d.num = posted + 1 /\ d.t = t
  BY Zenon
<1> HIDE DEF d
<1>7. /\ RingOk(ring', prod'.deq, prod'.ccs, Consumer.deq, Consumer.ccs, erdp, posted + 1, taken)
      /\ \A i \in Places : Full(i, prod'.deq, prod'.ccs, Consumer.deq, Consumer.ccs) =>
             \/ Full(i, prod.deq, prod.ccs, Consumer.deq, Consumer.ccs) /\ ring'[i] = ring[i]
             \/ i = prod.deq /\ ring'[i] = d
  BY <1>2, <1>4, <1>5, <1>6, PostRing
<1>8. RingInv'
  BY <1>1, <1>5, <1>7, Zenon DEF RingInv
<1>9. ASSUME NEW i \in Places, Solicited(i)'
      PROVE  \/ Solicited(i) /\ ring'[i] = ring[i]
             \/ t # "psc" /\ ring'[i].num = posted + 1
  <2>1. Full(i, prod'.deq, prod'.ccs, Consumer.deq, Consumer.ccs) /\ ring'[i].t # "psc"
    BY <1>1, <1>9, Zenon DEF Solicited
  <2>2. CASE Full(i, prod.deq, prod.ccs, Consumer.deq, Consumer.ccs) /\ ring'[i] = ring[i]
    BY <2>1, <2>2, Zenon DEF Solicited
  <2>3. CASE i = prod.deq /\ ring'[i] = d
    BY <1>6, <2>1, <2>3, Zenon
  <2> QED BY <1>7, <2>1, <2>2, <2>3, Zenon
<1> QED BY <1>1, <1>8, <1>9, Zenon

(* A port changes.                                                          *)
LEMMA PortChangeStep == ASSUME XInv, PortChange PROVE XInv'
<1>1. /\ UNCHANGED <<boot, poller, erdp, taken, work, answer, endpoint>> /\ Post("psc", 1)
  BY Zenon DEF PortChange
<1>2. /\ BootInv' /\ RingInv' /\ Consumer' = Consumer
      /\ \A i \in Places : Solicited(i)' => Solicited(i) /\ ring'[i] = ring[i]
  BY <1>1, PostStep, Zenon
<1>3. KeyTypes'
  BY <1>1, Zenon DEF XInv, KeyTypes, poller, endpoint, keyboard
<1>4. OwnInv'
  BY <1>1, <1>2, Zenon DEF XInv, OwnInv, boot, poller
<1> QED BY <1>2, <1>3, <1>4, Zenon DEF XInv

(* The controller answers a request.                                        *)
LEMMA CompleteStep == ASSUME XInv, NEW code \in Codes, Complete(code) PROVE XInv'
<1>1. /\ UNCHANGED <<boot, poller, erdp, taken, endpoint>> /\ Post(work.t, code)
      /\ work # None /\ work' = None /\ answer' = posted + 1
  BY Zenon DEF Complete
<1>2. /\ BootInv' /\ RingInv' /\ Consumer' = Consumer
      /\ \A i \in Places : Solicited(i)' =>
             (Solicited(i) /\ ring'[i] = ring[i]) \/ ring'[i].num = posted + 1
  BY <1>1, PostStep, Zenon
<1>3. KeyTypes'
  BY <1>1, Zenon DEF XInv, KeyTypes, poller, endpoint, keyboard
<1>4. OwnInv'
  BY <1>1, <1>2, Zenon DEF XInv, OwnInv, boot, poller
<1> QED BY <1>2, <1>3, <1>4, Zenon DEF XInv

(* The interrupt endpoint follows a link or completes a transfer.           *)
LEMMA EpStepStep == ASSUME XInv, EpStep PROVE XInv'
<1>1. /\ UNCHANGED <<boot, poller, erdp, taken, work, answer, held>> /\ hid # None
      /\ \/ UNCHANGED <<evring, report, reports>>
         \/ /\ Post("xfer", 1) /\ reports # <<>>
            /\ report' = Head(reports) /\ reports' = Tail(reports)
  BY Zenon DEF EpStep
<1>2. CASE UNCHANGED <<evring, report, reports>>
  BY <1>1, <1>2, DeviceStep, Zenon DEF XInv, KeyTypes
<1>3. CASE /\ Post("xfer", 1) /\ reports # <<>>
           /\ report' = Head(reports) /\ reports' = Tail(reports)
  <2>1. BootInv' /\ RingInv'
    BY <1>1, <1>3, PostStep, Zenon
  <2>2. OwnInv'
    BY <1>1, Zenon DEF OwnInv, poller
  <2> DEFINE S == Reports
  <2>3. reports \in Seq(S)
    BY Zenon DEF XInv, KeyTypes
  <2> HIDE DEF S
  <2>4. report' \in S /\ reports' \in Seq(S)
    BY <1>3, <2>3
  <2>5. KeyTypes'
    BY <1>1, <2>4, Zenon DEF XInv, KeyTypes, poller, S
  <2> QED BY <2>1, <2>2, <2>5, Zenon DEF XInv
<1> QED BY <1>1, <1>2, <1>3, Zenon

-----------------------------------------------------------------------------
(* The boot code.                                                           *)

(* What every step of the boot code keeps.                                  *)
LEMMA KeepKeyTypes ==
  ASSUME XInv, KeepDevices, hid' \in HidStates \cup {None}
  PROVE  KeyTypes'
BY Zenon DEF XInv, KeyTypes, KeepDevices, endpoint, keyboard

(* The consumer while the boot code consumes.                               *)
LEMMA ConsumerIsBoot ==
  ASSUME hid = None
  PROVE  Consumer = cur /\ (hid' = hid => Consumer' = cur')
BY Zenon DEF Consumer

(* A step that changes neither a cursor nor the waits, before the keyboard  *)
(* is set up.                                                               *)
LEMMA BootStep ==
  ASSUME XInv, KeepDevices, pc \notin {"panic", "enumerate", "done"}, BootInv',
         UNCHANGED <<cur, waiting, erdp, work, taken, poller>>
  PROVE  XInv'
<1>1. hid = None /\ hid' = hid
  BY Zenon DEF XInv, BootInv, poller
<1>2. Consumer' = Consumer
  BY <1>1, ConsumerIsBoot, Zenon
<1>3. KeyTypes'
  BY <1>1, KeepKeyTypes, Zenon DEF XInv, KeyTypes
<1>4. RingInv'
  BY <1>2, RingSame, Zenon DEF KeepDevices, evring
<1>5. OwnInv'
  BY <1>1, <1>2, OwnSame, Zenon DEF KeepDevices, evring
<1> QED BY <1>3, <1>4, <1>5, Zenon DEF XInv

(* The bring-up to the reset of the ports.                                  *)
LEMMA BringUpSteps ==
  ASSUME XInv, Run \/ Reset \/ WaitReset \/ ProgramMsixEntry \/ WaitRun \/ Program
  PROVE  XInv'
<1>1. /\ KeepDevices /\ UNCHANGED <<n, cur, waiting, work, taken, poller>>
      /\ pc \in {"run", "reset", "wait_halt", "wait_reset", "program", "wait_run"}
      /\ pc' \in {"done", "panic", "reset", "wait_halt", "wait_reset", "program", "wait_run", "reset_ports"}
      /\ pc = "wait_run" => pc' = "reset_ports"
  BY Zenon DEF Run, Reset, WaitReset, ProgramMsixEntry, WaitRun, Program, Goto
<1>2. erdp' = erdp
  BY <1>1, Zenon DEF Run, Reset, WaitReset, ProgramMsixEntry, WaitRun, Program, XInv, BootInv
<1>3. machine' = machine /\ hid' = hid /\ hid_pc' = hid_pc
  BY <1>1, Zenon DEF KeepDevices, poller
<1>4. hid = None /\ ~waiting /\ hid_pc = "poll"
  BY <1>1, Zenon DEF XInv, BootInv, Requests, Commands, Transfers
<1>5. BootInv'
  BY <1>1, <1>2, <1>3, <1>4, Zenon DEF XInv, BootInv, EnumPcs, Requests, Commands, Transfers
<1> QED BY <1>1, <1>2, <1>5, BootStep, Zenon

(* The reset of the ports.                                                  *)
LEMMA PortSteps ==
  ASSUME XInv, ResetPort \/ WaitPort \/ PortsReset
  PROVE  XInv'
<1>1. /\ KeepDevices /\ UNCHANGED <<cur, waiting, erdp, work, taken, poller>>
      /\ pc \in {"reset_ports", "wait_port"}
      /\ pc' \in {"reset_ports", "wait_port", "noop"}
      /\ n' \in {n, n + 1, 1}
  BY Zenon DEF ResetPort, WaitPort, PortsReset, Goto
<1>2. machine' = machine /\ hid' = hid /\ hid_pc' = hid_pc
  BY <1>1, Zenon DEF KeepDevices, poller
<1>3. hid = None /\ ~waiting /\ hid_pc = "poll"
  BY <1>1, Zenon DEF XInv, BootInv, Requests, Commands, Transfers
<1>4. BootInv'
  BY <1>1, <1>2, <1>3 DEF XInv, BootInv, EnumPcs, Requests, Commands, Transfers
<1> QED BY <1>1, <1>4, BootStep, Zenon

(* A port that is left behind.                                              *)
LEMMA ValidateStep == ASSUME XInv, Validate PROVE XInv'
<1>1. /\ KeepDevices /\ UNCHANGED <<cur, waiting, erdp, work, taken, poller>>
      /\ pc = "validate" /\ pc' \in {"enumerate", "panic"} /\ n' \in {n, n + 1}
  BY Zenon DEF Validate, Goto, NextPort
<1>2. machine' = machine /\ hid' = hid /\ hid_pc' = hid_pc
  BY <1>1, Zenon DEF KeepDevices, poller
<1>3. hid = None /\ ~waiting /\ hid_pc = "poll"
  BY <1>1, Zenon DEF XInv, BootInv, Requests, Commands, Transfers
<1>4. BootInv'
  BY <1>1, <1>2, <1>3 DEF XInv, BootInv, EnumPcs, Requests, Commands, Transfers
<1> QED BY <1>1, <1>4, BootStep, Zenon

(* The boot code gives up.                                                  *)
LEMMA FailsStep == ASSUME XInv, Fails PROVE XInv'
<1>1. /\ KeepDevices /\ UNCHANGED <<n, cur, erdp, work, taken, poller>>
      /\ pc \notin {"enumerate", "done"} /\ pc' = "panic" /\ waiting' = FALSE
  BY Zenon DEF Fails, Goto, XInv, BootInv, Requests, Commands, Transfers
<1>2. machine' = machine /\ hid' = hid /\ hid_pc' = hid_pc
  BY <1>1, Zenon DEF KeepDevices, poller
<1>3. hid = None /\ hid_pc = "poll"
  BY <1>1, Zenon DEF XInv, BootInv
<1>4. BootInv'
  BY <1>1, <1>2, <1>3, Zenon DEF XInv, BootInv, EnumPcs, Requests, Commands, Transfers
<1>5. RingInv'
  BY <1>1, <1>2, <1>3, ConsumerIsBoot, RingSame, Zenon DEF KeepDevices, evring
<1>6. KeyTypes' /\ OwnInv'
  BY <1>1, <1>2, KeepKeyTypes, Zenon DEF XInv, KeyTypes, OwnInv
<1> QED BY <1>4, <1>5, <1>6, Zenon DEF XInv

(* A request: no event can answer it before it is made.                     *)
LEMMA IssueStep == ASSUME XInv, Issue PROVE XInv'
<1>1. /\ UNCHANGED <<machine, pc, n, cur, erdp, answer, taken, evring, poller, endpoint>>
      /\ pc \in Requests /\ ~waiting /\ waiting' = TRUE
  BY Zenon DEF Issue
<1>2. UNCHANGED <<hid, hid_pc, ring, prod, posted, held, report, reports>>
  BY <1>1, Zenon DEF evring, poller, endpoint, keyboard
<1>3. pc \notin {"enumerate", "done", "panic"}
  BY <1>1, Zenon DEF Requests, Commands, Transfers
<1>4. hid = None
  BY <1>3, Zenon DEF XInv, BootInv
<1>5. BootInv'
  BY <1>1, <1>2, Zenon DEF XInv, BootInv, PortOk, NPorts, Connected
<1>6. Consumer' = Consumer
  BY <1>1, <1>2, <1>4, ConsumerIsBoot, Zenon
<1>7. RingInv'
  BY <1>1, <1>2, <1>6, RingSame, Zenon
<1>8. KeyTypes'
  BY <1>2, Zenon DEF XInv, KeyTypes
<1>9. \A i \in Places : ~Solicited(i)
  BY <1>1, <1>3, <1>4, Zenon DEF XInv, OwnInv
<1>10. OwnInv'
  BY <1>1, <1>2, <1>6, <1>9, Zenon DEF OwnInv, Solicited
<1> QED BY <1>5, <1>7, <1>8, <1>10, Zenon DEF XInv

(* ERDP after the No-Op.                                                    *)
LEMMA NoOpDoneStep == ASSUME XInv, NoOpDone PROVE XInv'
<1>1. /\ KeepDevices /\ UNCHANGED <<n, cur, waiting, work, taken, poller>>
      /\ pc = "noop_done" /\ pc' \in {"panic_no_msi", "panic", "enumerate"} /\ erdp' = cur.deq
  BY Zenon DEF NoOpDone, Goto
<1>2. UNCHANGED <<machine, hid, hid_pc, ring, prod, posted, answer>>
  BY <1>1, Zenon DEF KeepDevices, poller, evring
<1>3. hid = None /\ ~waiting /\ hid_pc = "poll"
  BY <1>1, Zenon DEF XInv, BootInv, Requests, Commands, Transfers
<1>4. BootInv'
  BY <1>1, <1>2, <1>3, Zenon DEF XInv, BootInv, EnumPcs, Requests, Commands, Transfers
<1>5. Consumer = cur /\ Consumer' = cur
  BY <1>1, <1>2, <1>3, ConsumerIsBoot, Zenon
<1>6. RingOk(ring, prod.deq, prod.ccs, cur.deq, cur.ccs, erdp, posted, taken)
  BY <1>5, Zenon DEF XInv, RingInv
<1>7. RingInv'
  BY <1>1, <1>2, <1>5, <1>6, TellRing, Zenon DEF RingInv
<1>8. KeyTypes'
  BY <1>1, <1>2, KeepKeyTypes, Zenon DEF XInv, KeyTypes
<1>9. OwnInv'
  BY <1>1, <1>2, <1>5, OwnSame, Zenon
<1> QED BY <1>4, <1>7, <1>8, <1>9, Zenon DEF XInv

(* From port to port, and to the end.  With the keyboard set up the rest    *)
(* of the ports is passed over, and the poll task takes over.               *)
LEMMA EnumerateStep == ASSUME XInv, Enumerate PROVE XInv'
<1>1. /\ KeepDevices /\ UNCHANGED <<cur, waiting, erdp, work, taken, poller>>
      /\ pc = "enumerate"
      /\ \/ n > NPorts /\ pc' = "done" /\ n' = n
         \/ ~(n > NPorts) /\ Connected(n) /\ pc' = "enable_slot" /\ n' = n
         \/ pc' = "enumerate" /\ n' = n + 1
  BY Zenon DEF Enumerate, Goto, NextPort
<1>2. UNCHANGED <<machine, hid, hid_pc, ring, prod, posted, answer>>
  BY <1>1, Zenon DEF KeepDevices, poller, evring
<1>3. ~waiting /\ hid_pc = "poll" /\ n \in Nat \ {0} /\ machine \in Machines
  BY <1>1, Zenon DEF XInv, BootInv, Requests, Commands, Transfers
<1>4. NPorts \in Nat /\ NPorts' = NPorts
  BY <1>2, <1>3, XhciAssumption, Zenon DEF NPorts
<1>5. hid # None => /\ pc' \in {"enumerate", "done"}
                    /\ \A q \in 1 .. NPorts : q >= n' => machine.cfgs[q] = None
                    /\ cur.deq = hid.deq /\ cur.ccs = hid.ccs
  BY <1>1, <1>3, <1>4 DEF XInv, BootInv, Connected
<1>6. BootInv'
  BY <1>1, <1>2, <1>3, <1>4, <1>5
  DEF XInv, BootInv, EnumPcs, Requests, Commands, Transfers, PortOk, Connected
<1>7. Consumer.deq' = Consumer.deq /\ Consumer.ccs' = Consumer.ccs
  BY <1>1, <1>2, <1>5, Zenon DEF Consumer
<1>8. RingInv'
  BY <1>1, <1>2, <1>7, RingSame, Zenon
<1>9. OwnInv'
  BY <1>1, <1>2, <1>7, OwnSame, Zenon
<1>10. KeyTypes'
  BY <1>1, <1>2, KeepKeyTypes, Zenon DEF XInv, KeyTypes
<1> QED BY <1>6, <1>8, <1>9, <1>10, Zenon DEF XInv

(* What arm_report does to the HidState.                                    *)
LEMMA ArmedHid ==
  ASSUME NEW h \in HidStates, ArmReport(h)
  PROVE  hid' \in HidStates /\ hid'.deq = h.deq /\ hid'.ccs = h.ccs
<1>1. EpRing \in Nat /\ EpRing > 1
  BY XhciAssumption
<1> DEFINE e == IF h.enq = EpRing - 1 THEN 0 ELSE h.enq
           c == IF h.enq = EpRing - 1 THEN 1 - h.cyc ELSE h.cyc
<1>2. hid' = [h EXCEPT !.enq = e + 1, !.cyc = c]
  BY Zenon DEF ArmReport, ArmReportWith
<1>3. e + 1 \in 0 .. EpRing - 1 /\ c \in {0, 1}
  BY <1>1 DEF HidStates
<1> HIDE DEF e, c
<1> QED BY <1>2, <1>3, Zenon DEF HidStates

(* The hand-over of the event ring.                                         *)
LEMMA ArmHidStep == ASSUME KeyboardLast, XInv, ArmHid PROVE XInv'
<1>1. /\ KeepDevices /\ UNCHANGED <<cur, waiting, erdp, work, taken, hid_pc>>
      /\ pc = "arm_hid" /\ pc' = "enumerate" /\ n' = n + 1
      /\ ArmReport([deq |-> cur.deq, ccs |-> cur.ccs, enq |-> 0, cyc |-> 1, prev |-> <<>>])
  BY Zenon DEF ArmHid, ArmHidFrom, NextPort
<1>2. UNCHANGED <<machine, ring, prod, posted, answer>>
  BY <1>1, Zenon DEF KeepDevices, evring
<1>3. /\ hid = None /\ ~waiting /\ hid_pc = "poll" /\ machine \in Machines /\ n \in 1 .. NPorts
      /\ machine.cfgs[n] # None /\ Configured(machine.cfgs[n]) = "configure_hid"
  BY <1>1, Zenon DEF XInv, BootInv, Requests, Commands, Transfers, EnumPcs, PortOk, Connected
<1>4. Consumer = cur /\ Consumer' = cur
  BY <1>1, <1>3, Zenon DEF Consumer
<1>5. cur.deq \in Places /\ cur.ccs \in {0, 1}
  BY <1>4, Zenon DEF XInv, RingInv, RingOk, RingTypes
<1>6. [deq |-> cur.deq, ccs |-> cur.ccs, enq |-> 0, cyc |-> 1, prev |-> <<>>] \in HidStates
  BY <1>5, XhciAssumption DEF HidStates, Places
<1>7. hid' \in HidStates /\ hid'.deq = cur.deq /\ hid'.ccs = cur.ccs
  BY <1>1, <1>6, ArmedHid, Zenon
<1>8. hid' # None
  BY <1>7, XhciAssumption, Zenon
<1>9. NPorts \in Nat /\ NPorts' = NPorts
  BY <1>2, <1>3, XhciAssumption, Zenon DEF NPorts
<1>10. \A q \in 1 .. NPorts : q >= n + 1 => machine.cfgs[q] = None
  <2> SUFFICES ASSUME NEW q \in 1 .. NPorts, q >= n + 1 PROVE machine.cfgs[q] = None
    BY Zenon
  <2>1. n < q
    BY <1>3, <1>9
  <2> QED BY <1>3, <2>1, Zenon DEF KeyboardLast, NPorts
<1>11. BootInv'
  BY <1>1, <1>2, <1>3, <1>7, <1>8, <1>9, <1>10
  DEF BootInv, EnumPcs, Requests, Commands, Transfers
<1>12. RingInv'
  BY <1>1, <1>2, <1>4, RingSame, Zenon
<1>13. KeyTypes' /\ OwnInv'
  BY <1>1, <1>7, <1>8, KeepKeyTypes, Zenon DEF OwnInv
<1> QED BY <1>11, <1>12, <1>13, Zenon DEF XInv

(* The step of a consumer's cursor.                                         *)
LEMMA ConsumeIs ==
  ASSUME NEW c, c.deq \in Places
  PROVE  Stepped(Consume(c).deq, Consume(c).ccs, c.deq, c.ccs)
BY CursorStep, Zenon DEF Stepped, Consume

(* The boot code consumes an event.  One that is not a port change answers  *)
(* the request it waits for, and is the only one of its kind in the ring.   *)
LEMMA BootConsume ==
  ASSUME XInv, hid = None, hid' = hid, pc # "panic", Available(cur), cur' = Consume(cur),
         taken' = taken + 1, ring' = ring, prod' = prod, posted' = posted,
         erdp' \in {erdp, Consume(cur).deq}
  PROVE  /\ RingInv'
         /\ \A i \in Places : Solicited(i)' => Solicited(i)
         /\ ring[cur.deq].t # "psc" =>
               waiting /\ work = None /\ taken' = answer /\ \A i \in Places : ~Solicited(i)'
<1>1. Consumer = cur /\ Consumer' = cur'
  BY ConsumerIsBoot, Zenon
<1>2. RingOk(ring, prod.deq, prod.ccs, cur.deq, cur.ccs, erdp, posted, taken)
  BY <1>1, Zenon DEF XInv, RingInv
<1>3. Seen(ring, cur.deq, cur.ccs)
  BY Zenon DEF Available, Seen
<1>4. /\ cur.deq \in Places /\ Full(cur.deq, prod.deq, prod.ccs, cur.deq, cur.ccs)
      /\ ring[cur.deq].num = taken + 1
  BY <1>2, <1>3, CycleTells
<1>5. Stepped(cur'.deq, cur'.ccs, cur.deq, cur.ccs)
  BY <1>4, ConsumeIs, Zenon
<1>6. /\ RingOk(ring, prod.deq, prod.ccs, cur'.deq, cur'.ccs, erdp, posted, taken + 1)
      /\ RingOk(ring, prod.deq, prod.ccs, cur'.deq, cur'.ccs, cur'.deq, posted, taken + 1)
      /\ \A i \in Places : Full(i, prod.deq, prod.ccs, cur'.deq, cur'.ccs) =>
             Full(i, prod.deq, prod.ccs, cur.deq, cur.ccs) /\ i # cur.deq
  BY <1>2, <1>3, <1>5, ConsumeRing
<1>7. RingInv'
  BY <1>1, <1>6, Zenon DEF RingInv
<1>8. \A i \in Places : Solicited(i)' => Solicited(i) /\ i # cur.deq
  BY <1>1, <1>6, Zenon DEF Solicited
<1>9. ASSUME ring[cur.deq].t # "psc"
      PROVE  waiting /\ work = None /\ taken' = answer /\ \A i \in Places : ~Solicited(i)'
  <2>1. Solicited(cur.deq)
    BY <1>1, <1>4, <1>9, Zenon DEF Solicited
  <2>2. waiting /\ work = None /\ ring[cur.deq].num = answer
    BY <1>4, <2>1, Zenon DEF XInv, OwnInv
  <2>3. ASSUME NEW i \in Places, Solicited(i)' PROVE FALSE
    <3>1. Solicited(i) /\ i # cur.deq
      BY <1>8, <2>3, Zenon
    <3>2. ring[i].num = ring[cur.deq].num
      BY <2>2, <3>1, Zenon DEF XInv, OwnInv
    <3>3. Full(i, prod.deq, prod.ccs, cur.deq, cur.ccs)
      BY <1>1, <3>1, Zenon DEF Solicited
    <3> QED BY <1>2, <1>4, <3>1, <3>2, <3>3, NumbersApart, Zenon
  <2> QED BY <1>4, <2>2, <2>3, Zenon
<1> QED BY <1>7, <1>8, <1>9, Zenon

(* What such a step leaves of OwnInv.                                       *)
LEMMA OwnConsumed ==
  ASSUME XInv, hid = None, pc # "panic", ring' = ring, answer' = answer, work' = work,
         \A i \in Places : Solicited(i)' => Solicited(i),
         waiting' = waiting \/ (work = None /\ \A i \in Places : ~Solicited(i)')
  PROVE  OwnInv'
BY Zenon DEF XInv, OwnInv

(* The wait for the No-Op.                                                  *)
LEMMA DrainNoOpStep ==
  ASSUME XInv, DrainNoOp
  PROVE  XInv' /\ (~waiting' => taken' = answer)
<1>1. /\ KeepDevices /\ UNCHANGED <<n, erdp, work, poller>>
      /\ pc = "noop" /\ waiting /\ Available(cur) /\ cur' = Consume(cur) /\ taken' = taken + 1
      /\ \/ ring[cur.deq].t = "cmd" /\ waiting' = FALSE /\ pc' = "noop_done"
         \/ waiting' = waiting /\ pc' = pc
  BY Zenon DEF DrainNoOp, Goto
<1>2. UNCHANGED <<machine, hid, hid_pc, ring, prod, posted, answer>>
  BY <1>1, Zenon DEF KeepDevices, poller, evring
<1>3. hid = None /\ hid_pc = "poll"
  BY <1>1, Zenon DEF XInv, BootInv
<1>4. BootInv'
  BY <1>1, <1>2, <1>3, Zenon DEF XInv, BootInv, EnumPcs, Requests, Commands, Transfers
<1>5. /\ RingInv'
      /\ \A i \in Places : Solicited(i)' => Solicited(i)
      /\ ring[cur.deq].t # "psc" =>
            waiting /\ work = None /\ taken' = answer /\ \A i \in Places : ~Solicited(i)'
  BY <1>1, <1>2, <1>3, BootConsume, Zenon
<1>6. waiting' = waiting \/ (work = None /\ taken' = answer /\ \A i \in Places : ~Solicited(i)')
  BY <1>1, <1>5, Zenon
<1>7. OwnInv'
  BY <1>1, <1>2, <1>3, <1>5, <1>6, OwnConsumed, Zenon
<1>8. KeyTypes'
  BY <1>1, <1>2, KeepKeyTypes, Zenon DEF XInv, KeyTypes
<1> QED BY <1>1, <1>4, <1>5, <1>6, <1>7, <1>8, Zenon DEF XInv

(* Where enumerate_port goes on.                                            *)
LEMMA AnsweredGoes ==
  ASSUME NEW code, Answered(code), pc \in Requests \ {"noop"}
  PROVE  \/ pc' = "enumerate" /\ n' = n + 1
         \/ /\ pc' \in EnumPcs /\ n' = n
            /\ pc' \in {"configure_hid", "arm_hid"} =>
                  Configured(machine.cfgs[n]) = "configure_hid" \/ pc = "configure_hid"
<1>1. Configured(machine.cfgs[n]) \in {"configure_hid", "configure_disk", "enumerate"}
  BY Zenon DEF Configured
<1> DEFINE x == Configured(machine.cfgs[n])
<1>2. /\ pc = "set_config" => After(pc) = x
      /\ pc # "set_config" => After(pc) \in (EnumPcs \ {"configure_hid", "enumerate"})
      /\ After(pc) = "arm_hid" => pc = "configure_hid" \/ x = "arm_hid"
  BY Zenon DEF After, AfterHid, AfterDisk, Requests, Commands, Transfers, EnumPcs
<1> HIDE DEF x
<1>3. x \in {"configure_hid", "configure_disk", "enumerate"}
  BY <1>1, Zenon DEF x
<1>4. \/ pc' = "enumerate" /\ n' = n + 1
      \/ pc' = After(pc) /\ After(pc) # "enumerate" /\ n' = n
  BY Zenon DEF Answered, NextPort, Goto
<1>5. /\ After(pc) \in EnumPcs \cup {"enumerate"}
      /\ After(pc) \in {"configure_hid", "arm_hid"} => x = "configure_hid" \/ pc = "configure_hid"
  BY <1>2, <1>3, Zenon DEF EnumPcs, Requests, Commands, Transfers
<1> QED BY <1>4, <1>5, Zenon DEF x

(* The waits for the events of a command or a transfer.                     *)
LEMMA NextEventStep ==
  ASSUME XInv, NextEvent
  PROVE  XInv' /\ (~waiting' => taken' = answer)
<1>1. /\ KeepDevices /\ UNCHANGED <<work, poller>>
      /\ pc \in Requests \ {"noop"} /\ waiting /\ Available(cur)
      /\ cur' = Consume(cur) /\ taken' = taken + 1 /\ erdp' = Consume(cur).deq
      /\ \/ /\ ring[cur.deq].t = Kind(pc) /\ waiting' = FALSE
            /\ Answered(ring[cur.deq].cc)
         \/ waiting' = waiting /\ pc' = pc /\ n' = n
  BY Zenon DEF NextEvent, NextEventOf
<1>2. UNCHANGED <<machine, hid, hid_pc, ring, prod, posted, answer>>
  BY <1>1, Zenon DEF KeepDevices, poller, evring
<1>3. /\ pc \notin {"panic", "enumerate", "done"} /\ Kind(pc) # "psc" /\ pc \in EnumPcs
  BY <1>1, Zenon DEF Requests, Commands, Transfers, Kind, EnumPcs
<1>4. hid = None /\ hid_pc = "poll" /\ PortOk(n) /\ n \in Nat /\ machine \in Machines
  BY <1>3, Zenon DEF XInv, BootInv
<1>5. /\ RingInv'
      /\ \A i \in Places : Solicited(i)' => Solicited(i)
      /\ ring[cur.deq].t # "psc" =>
            waiting /\ work = None /\ taken' = answer /\ \A i \in Places : ~Solicited(i)'
  BY <1>1, <1>2, <1>3, <1>4, BootConsume, Zenon
<1>6. waiting' = waiting \/ (work = None /\ taken' = answer /\ \A i \in Places : ~Solicited(i)')
  BY <1>1, <1>3, <1>5, Zenon
<1>7. OwnInv'
  BY <1>1, <1>2, <1>3, <1>4, <1>5, <1>6, OwnConsumed, Zenon
<1>8. KeyTypes'
  BY <1>1, <1>2, KeepKeyTypes, Zenon DEF XInv, KeyTypes
<1>9. BootInv'
  <2>1. CASE waiting' = waiting /\ pc' = pc /\ n' = n
    <3>1. pc \notin {"run", "reset", "wait_halt", "wait_reset", "program"}
      BY <1>1, Zenon DEF Requests, Commands, Transfers
    <3> QED BY <1>2, <1>4, <2>1, <3>1, Zenon DEF XInv, BootInv, PortOk, NPorts, Connected
  <2>2. CASE waiting' = FALSE /\ Answered(ring[cur.deq].cc)
    <3>1. \/ pc' = "enumerate" /\ n' = n + 1
          \/ /\ pc' \in EnumPcs /\ n' = n
             /\ pc' \in {"configure_hid", "arm_hid"} =>
                   Configured(machine.cfgs[n]) = "configure_hid" \/ pc = "configure_hid"
      BY <1>1, <2>2, AnsweredGoes, Zenon
    <3>2. pc = "configure_hid" => Configured(machine.cfgs[n]) = "configure_hid"
      BY Zenon DEF XInv, BootInv
    <3>3. CASE pc' = "enumerate" /\ n' = n + 1
      BY <1>2, <1>4, <2>2, <3>3 DEF BootInv, EnumPcs, Requests, Commands, Transfers
    <3>4. CASE /\ pc' \in EnumPcs /\ n' = n
               /\ pc' \in {"configure_hid", "arm_hid"} => Configured(machine.cfgs[n]) = "configure_hid"
      <4>1. pc' \notin {"run", "reset", "wait_halt", "wait_reset", "program"}
        BY <3>4, Zenon DEF EnumPcs, Requests, Commands, Transfers
      <4>2. PortOk(n)'
        BY <1>2, <1>4, <3>4, Zenon DEF PortOk, NPorts, Connected
      <4>3. n' \in Nat \ {0}
        BY <3>4, Zenon DEF XInv, BootInv
      <4> QED BY <1>2, <1>4, <2>2, <3>4, <4>1, <4>2, <4>3, Zenon DEF BootInv
    <3> QED BY <3>1, <3>2, <3>3, <3>4, Zenon
  <2> QED BY <1>1, <2>1, <2>2, Zenon
<1> QED BY <1>1, <1>5, <1>6, <1>7, <1>8, <1>9, Zenon DEF XInv

-----------------------------------------------------------------------------
(* The poll task.                                                           *)

(* What its steps keep when the HidState stays one.                         *)
LEMMA PollerKeeps ==
  ASSUME XInv, KeepDevices, UNCHANGED <<waiting, n, pc, cur, erdp, work>>, hid # None, pc = "done",
         hid' \in HidStates
  PROVE  KeyTypes' /\ BootInv' /\ OwnInv'
<1>1. hid' # None
  BY XhciAssumption, Zenon
<1>2. machine' = machine
  BY Zenon DEF KeepDevices
<1>3. KeyTypes' /\ OwnInv'
  BY <1>1, KeepKeyTypes, Zenon DEF OwnInv
<1>4. BootInv'
  BY <1>1, <1>2, Zenon DEF XInv, BootInv, PortOk, NPorts, Connected
<1> QED BY <1>3, <1>4, Zenon

(* A report is decoded, and the endpoint armed again.                       *)
LEMMA DecodeStep == ASSUME XInv, DecodeReport \/ Rearm PROVE XInv'
<1>1. /\ KeepDevices /\ UNCHANGED <<waiting, n, pc, cur, erdp, work, taken>> /\ hid_pc # "poll"
      /\ hid' = [hid EXCEPT !.prev = report.keys] \/ ArmReport(hid)
  BY Zenon DEF DecodeReport, Rearm
<1>2. hid # None /\ pc = "done" /\ hid \in HidStates /\ report.keys \in Seq(Usages)
  BY <1>1, Zenon DEF XInv, BootInv, KeyTypes, Reports
<1>3. hid' \in HidStates /\ hid'.deq = hid.deq /\ hid'.ccs = hid.ccs
  <2>1. CASE hid' = [hid EXCEPT !.prev = report.keys]
    BY <1>2, <2>1, Zenon DEF HidStates
  <2>2. CASE ArmReport(hid)
    BY <1>2, <2>2, ArmedHid, Zenon
  <2> QED BY <1>1, <2>1, <2>2, Zenon
<1>4. KeyTypes' /\ BootInv' /\ OwnInv'
  BY <1>1, <1>2, <1>3, PollerKeeps, Zenon
<1>5. hid' # None
  BY <1>3, XhciAssumption, Zenon
<1>6. Consumer.deq' = Consumer.deq /\ Consumer.ccs' = Consumer.ccs
  BY <1>1, <1>2, <1>3, <1>5, Zenon DEF Consumer
<1>7. RingInv'
  BY <1>1, <1>6, RingSame, Zenon DEF KeepDevices, evring
<1> QED BY <1>4, <1>7, Zenon DEF XInv

(* The poll task consumes an event.                                         *)
LEMMA TryEventStep == ASSUME XInv, TryEvent PROVE XInv'
<1> DEFINE c == [deq |-> hid.deq, ccs |-> hid.ccs]
<1>1. /\ KeepDevices /\ UNCHANGED <<waiting, n, pc, cur, work>>
      /\ pc = "done" /\ hid # None /\ Available(c) /\ taken' = taken + 1 /\ erdp' = Consume(c).deq
      /\ hid' = [hid EXCEPT !.deq = Consume(c).deq, !.ccs = Consume(c).ccs]
  BY Zenon DEF TryEvent
<1>2. UNCHANGED <<machine, ring, prod, posted>>
  BY <1>1, Zenon DEF KeepDevices, evring
<1>3. hid \in HidStates
  BY <1>1, Zenon DEF XInv, KeyTypes
<1>4. c.deq = hid.deq /\ c.ccs = hid.ccs /\ c.deq \in Places /\ c.ccs \in {0, 1}
  BY <1>3, Zenon DEF HidStates, Places
<1>5. Consumer = c
  BY <1>1, Zenon DEF Consumer
<1> HIDE DEF c
<1>6. Stepped(Consume(c).deq, Consume(c).ccs, c.deq, c.ccs)
  BY <1>4, ConsumeIs, Zenon
<1>7. Consume(c).deq \in 0 .. ERing - 1 /\ Consume(c).ccs \in {0, 1}
  BY <1>4, <1>6, XhciAssumption DEF Stepped, Places
<1>8. hid' \in HidStates /\ hid'.deq = Consume(c).deq /\ hid'.ccs = Consume(c).ccs
  <2> DEFINE d == Consume(c).deq
             s == Consume(c).ccs
  <2>1. hid' = [hid EXCEPT !.deq = d, !.ccs = s] /\ d \in 0 .. ERing - 1 /\ s \in {0, 1}
    BY <1>1, <1>7, Zenon
  <2> HIDE DEF d, s
  <2>2. hid' \in HidStates /\ hid'.deq = d /\ hid'.ccs = s
    BY <1>3, <2>1, Zenon DEF HidStates
  <2> QED BY <2>2, Zenon DEF d, s
<1>9. hid' # None
  BY <1>8, XhciAssumption, Zenon
<1>10. Consumer.deq' = Consume(c).deq /\ Consumer.ccs' = Consume(c).ccs
  BY <1>1, <1>8, <1>9, Zenon DEF Consumer
<1>11. RingOk(ring, prod.deq, prod.ccs, c.deq, c.ccs, erdp, posted, taken) /\ Seen(ring, c.deq, c.ccs)
  BY <1>1, <1>5, Zenon DEF XInv, RingInv, Available, Seen
<1>12. RingOk(ring, prod.deq, prod.ccs, Consume(c).deq, Consume(c).ccs, Consume(c).deq, posted, taken + 1)
  BY <1>6, <1>11, ConsumeRing, Zenon
<1>13. RingInv'
  BY <1>1, <1>2, <1>10, <1>12, Zenon DEF RingInv
<1>14. KeyTypes' /\ OwnInv'
  BY <1>1, <1>8, <1>9, KeepKeyTypes, Zenon DEF OwnInv
<1>15. BootInv'
  BY <1>1, <1>2, <1>9, Zenon DEF XInv, BootInv, PortOk, NPorts, Connected
<1> QED BY <1>13, <1>14, <1>15, Zenon DEF XInv

-----------------------------------------------------------------------------
(* Every step keeps the invariant.                                          *)
LEMMA XNext == ASSUME KeyboardLast, XInv, [Next]_vars PROVE XInv'
<1>1. CASE Driver
  BY <1>1, BringUpSteps, PortSteps, IssueStep, DrainNoOpStep, NoOpDoneStep, EnumerateStep,
     NextEventStep, ValidateStep, ArmHidStep, Zenon DEF Driver
<1>2. CASE Poller
  BY <1>2, TryEventStep, DecodeStep, Zenon DEF Poller
<1>3. CASE Controller
  BY <1>3, SettlesStep, CompleteStep, EpStepStep, Zenon DEF Controller
<1>4. CASE Fails \/ PortChange \/ Signal \/ XhciIrqHandler \/ Typist
  BY <1>4, FailsStep, PortChangeStep, SettlesStep, TypistStep, Zenon
<1>5. CASE UNCHANGED vars
  <2>1. UNCHANGED <<boot, poller, evring, erdp, work, answer, taken, held, report, reports>>
    BY <1>5, Zenon DEF vars, endpoint, keyboard
  <2> QED BY <2>1, DeviceStep, Zenon DEF XInv, KeyTypes
<1> QED BY <1>1, <1>2, <1>3, <1>4, <1>5, Zenon DEF Next

(* The invariant of Xhci, for every ring size, machine and bound.           *)
THEOREM XhciInvariant == KeyboardLast => (Spec => []XInv)
<1> SUFFICES ASSUME KeyboardLast PROVE Spec => []XInv
  BY Zenon
<1>1. Init => XInv
  BY XInit, Zenon
<1>2. XInv /\ [Next]_vars => XInv'
  BY XNext, Zenon
<1> QED BY <1>1, <1>2, PTL DEF Spec

(* The cycle bit tells the consumer the truth: what the boot code or the    *)
(* poll task sees at its cursor is the oldest event nobody has consumed,    *)
(* for rings of every size and across every lap and the hand-over, as long  *)
(* as the keyboard is the last device that is enumerated.                   *)
THEOREM EventsComeInOrder == KeyboardLast => (Spec => []EventsInOrder)
<1> SUFFICES ASSUME KeyboardLast PROVE Spec => []EventsInOrder
  BY Zenon
<1>1. ASSUME XInv PROVE EventsInOrder
  <2>1. RingOk(ring, prod.deq, prod.ccs, Consumer.deq, Consumer.ccs, erdp, posted, taken)
    BY <1>1, Zenon DEF XInv, RingInv
  <2>2. /\ Seen(ring, Consumer.deq, Consumer.ccs) <=> taken < posted
        /\ Seen(ring, Consumer.deq, Consumer.ccs) => ring[Consumer.deq].num = taken + 1
    BY <2>1, CycleTells
  <2> QED BY <2>2, Zenon DEF EventsInOrder, Available, Seen
<1>2. XInv => EventsInOrder
  BY <1>1, Zenon
<1> QED BY <1>2, XhciInvariant, PTL

(* A wait of the boot code ends with the event that answers its own         *)
(* request, although wait_command and wait_transfer compare neither slot    *)
(* nor TRB pointer: no other answer can be in the ring.                     *)
THEOREM WaitsEndWithTheirAnswer == KeyboardLast => (Spec => CompletionIsOwn)
<1> SUFFICES ASSUME KeyboardLast PROVE Spec => CompletionIsOwn
  BY Zenon
<1>1. ASSUME XInv, [Next]_vars, waiting, ~waiting', pc' # "panic" PROVE taken' = answer
  <2>1. CASE Driver
    <3>1. pc \in Requests /\ pc \notin {"run", "reset", "wait_halt", "wait_reset", "program", "wait_run",
             "reset_ports", "wait_port", "noop_done", "enumerate", "validate", "arm_hid"}
      BY <1>1, Zenon DEF XInv, BootInv, Requests, Commands, Transfers
    <3>2. Issue \/ DrainNoOp \/ NextEvent
      BY <2>1, <3>1, Zenon DEF Driver, Run, Reset, WaitReset, ProgramMsixEntry, Program, WaitRun, ResetPort,
         WaitPort, PortsReset, NoOpDone, Enumerate, Validate, ArmHid, ArmHidFrom
    <3> QED BY <1>1, <3>2, DrainNoOpStep, NextEventStep, Zenon DEF Issue
  <2>2. ~Fails
    BY <1>1, Zenon DEF Fails, Goto
  <2>3. ~Driver /\ ~Fails => waiting' = waiting
    BY <1>1, Zenon DEF Next, Poller, TryEvent, DecodeReport, Rearm, Controller, CtlSettles, Complete, EpStep,
       PortChange, Signal, XhciIrqHandler, Typist, Press, Release, vars, boot
  <2> QED BY <1>1, <2>1, <2>2, <2>3, Zenon
<1>2. XInv /\ [Next]_vars => [waiting /\ ~waiting' /\ pc' # "panic" => taken' = answer]_vars
  BY <1>1, Zenon
<1> QED BY <1>2, XhciInvariant, PTL DEF Spec, CompletionIsOwn
=============================================================================
