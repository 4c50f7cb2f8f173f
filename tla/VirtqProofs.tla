---------------------------- MODULE VirtqProofs ----------------------------
(***************************************************************************)
(* The split virtqueue of virtio.rs and the struct virtqueue that linuxkpi *)
(* makes of it, for any queue size, chains of any length up to it, and any *)
(* order of completions: at every access each descriptor is in one place,  *)
(* the rings implement the exchange of VirtqExchange, and the tokens of    *)
(* the struct virtqueue are those of the requests on their way.            *)
(***************************************************************************)
EXTENDS ShimQueue, FiniteSetTheorems, TLAPS

-----------------------------------------------------------------------------
(* Lists without repetition.                                                *)

Distinct(s) == \A i, j \in DOMAIN s : s[i] = s[j] => i = j

(* Taking an element from the front of a list of distinct ones.             *)
LEMMA PopFront ==
  ASSUME NEW S, NEW s \in Seq(S), s # <<>>, Distinct(s)
  PROVE  /\ Head(s) \in S /\ Tail(s) \in Seq(S) /\ Distinct(Tail(s))
         /\ Range(s) = Range(Tail(s)) \cup {Head(s)} /\ Head(s) \notin Range(Tail(s))
<1> DEFINE t == Tail(s)
<1>1. /\ t \in Seq(S) /\ DOMAIN s = 1 .. Len(s) /\ Len(s) \in Nat /\ Len(s) > 0
      /\ DOMAIN t = 1 .. Len(s) - 1 /\ \A i \in 1 .. Len(s) - 1 : t[i] = s[i + 1]
      /\ Head(s) = s[1] /\ s[1] \in S
  OBVIOUS
<1> HIDE DEF t
<1>2. Distinct(t) /\ Head(s) \notin Range(t)
  <2>1. ASSUME NEW i \in DOMAIN t PROVE i \in Int /\ i + 1 \in DOMAIN s /\ t[i] = s[i + 1] /\ i + 1 # 1
    BY <1>1
  <2>2. ASSUME NEW i \in DOMAIN t, NEW j \in DOMAIN t, t[i] = t[j] PROVE i = j
    <3>1. i + 1 = j + 1
      BY <2>1, <2>2, Zenon DEF Distinct
    <3> QED BY <2>1, <3>1
  <2> QED BY <1>1, <2>1, <2>2 DEF Distinct, Range
<1>3. Range(s) = Range(t) \cup {Head(s)}
  <2>1. ASSUME NEW i \in DOMAIN s PROVE s[i] \in Range(t) \cup {Head(s)}
    <3>1. i = 1 \/ (i - 1 \in DOMAIN t /\ t[i - 1] = s[i])
      BY <1>1
    <3> QED BY <1>1, <3>1, Zenon DEF Range
  <2>2. ASSUME NEW i \in DOMAIN t PROVE t[i] \in Range(s)
    <3>1. i + 1 \in DOMAIN s /\ t[i] = s[i + 1]
      BY <1>1
    <3> QED BY <3>1, Zenon DEF Range
  <2>3. Head(s) \in Range(s)
    BY <1>1 DEF Range
  <2> QED BY <2>1, <2>2, <2>3, Zenon DEF Range
<1> QED BY <1>1, <1>2, <1>3, Zenon DEF t

(* Putting a new one at the back of it.                                     *)
LEMMA PushBack ==
  ASSUME NEW S, NEW s \in Seq(S), NEW e \in S, Distinct(s), e \notin Range(s)
  PROVE  /\ Append(s, e) \in Seq(S) /\ Distinct(Append(s, e))
         /\ Range(Append(s, e)) = Range(s) \cup {e}
<1> DEFINE r == Append(s, e)
<1>1. /\ r \in Seq(S) /\ DOMAIN s = 1 .. Len(s) /\ Len(s) \in Nat
      /\ DOMAIN r = 1 .. Len(s) + 1 /\ \A i \in 1 .. Len(s) : r[i] = s[i]
      /\ r[Len(s) + 1] = e
  OBVIOUS
<1> HIDE DEF r
<1>2. Distinct(r)
  BY <1>1 DEF Distinct, Range
<1>3. Range(r) = Range(s) \cup {e}
  BY <1>1 DEF Range
<1> QED BY <1>1, <1>2, <1>3, Zenon DEF r

(* Putting a new one at the front keeps the elements distinct.              *)
LEMMA PushFront ==
  ASSUME NEW S, NEW s \in Seq(S), NEW e \in S, Distinct(s), e \notin Range(s)
  PROVE  /\ <<e>> \o s \in Seq(S) /\ Distinct(<<e>> \o s)
         /\ Range(<<e>> \o s) = Range(s) \cup {e}
<1> USE Zenon
<1> DEFINE r == <<e>> \o s
<1>1. /\ r \in Seq(S)
      /\ DOMAIN s = 1 .. Len(s) /\ Len(s) \in Nat
      /\ DOMAIN r = 1 .. Len(s) + 1
      /\ \A i \in 2 .. Len(s) + 1 : r[i] = s[i - 1]
      /\ r[1] = e
  BY SMT
<1> HIDE DEF r
<1>2. \A i \in DOMAIN s : i + 1 \in DOMAIN r /\ r[i + 1] = s[i]
  BY <1>1, SMT
<1>3. \A i \in DOMAIN r : i = 1 \/ (i - 1 \in DOMAIN s /\ r[i] = s[i - 1])
  BY <1>1, SMT
<1>4. Range(r) = Range(s) \cup {e}
  <2>1. 1 \in DOMAIN r
    BY <1>1, SMT
  <2>2. ASSUME NEW x \in Range(r) PROVE x \in Range(s) \cup {e}
    <3>1. PICK i \in DOMAIN r : x = r[i]
      BY DEF Range
    <3>2. CASE i = 1
      BY <1>1, <3>1, <3>2
    <3>3. CASE i # 1
      BY <1>3, <3>1, <3>3 DEF Range
    <3> QED BY <3>2, <3>3
  <2>3. ASSUME NEW x \in Range(s) PROVE x \in Range(r)
    <3>1. PICK i \in DOMAIN s : x = s[i]
      BY DEF Range
    <3> QED BY <1>2, <3>1 DEF Range
  <2>4. e \in Range(r)
    BY <1>1, <2>1 DEF Range
  <2> QED BY <2>2, <2>3, <2>4
<1>5. Distinct(r)
  <2> SUFFICES ASSUME NEW i \in DOMAIN r, NEW j \in DOMAIN r, r[i] = r[j], i # 1 PROVE i = j
    BY <1>1 DEF Distinct
  <2>1. i - 1 \in DOMAIN s /\ r[i] = s[i - 1]
    BY <1>3
  <2>2. j # 1
    BY <1>1, <2>1 DEF Range
  <2>3. j - 1 \in DOMAIN s /\ r[j] = s[j - 1]
    BY <1>3, <2>2
  <2>4. i - 1 = j - 1
    BY <2>1, <2>3 DEF Distinct
  <2> QED BY <1>1, <2>4, SMT
<1> QED BY <1>1, <1>4, <1>5 DEF r

-----------------------------------------------------------------------------
(* The rings.  Indices wrap at IdxMod, slots at QueueSize, and the first is *)
(* a multiple of the second.                                                *)
LEMMA ModPlus ==
  ASSUME NEW S \in Nat \ {0}, NEW x \in Nat, NEW q \in Nat
  PROVE  (x + S * q) % S = x % S
<1> DEFINE a == x \div S
           r == x % S
<1>1. a \in Nat /\ r \in 0 .. S - 1 /\ x = S * a + r
  BY Z3
<1> HIDE DEF a, r
<1>2. x + S * q = S * (a + q) + r /\ a + q \in Nat
  BY <1>1
<1>3. (S * (a + q) + r) % S = r
  <2> DEFINE b == a + q
  <2>1. b \in Nat
    BY <1>2
  <2> HIDE DEF b
  <2>2. (S * b + r) % S = r
    BY <1>1, <2>1
  <2> QED BY <2>2 DEF b
<1> QED BY <1>2, <1>3 DEF r

LEMMA Wraps ==
  ASSUME NEW x \in 0 .. 2 * IdxMod - 1
  PROVE  /\ x < IdxMod => x % IdxMod = x
         /\ x >= IdxMod => x % IdxMod = x - IdxMod
         /\ (x % IdxMod) % QueueSize = x % QueueSize
<1>1. IdxMod \in Nat \ {0} /\ QueueSize \in Nat \ {0} /\ IdxMod % QueueSize = 0
  BY SizeAssumption
<1>2. (x < IdxMod => x % IdxMod = x) /\ (x >= IdxMod => x % IdxMod = x - IdxMod)
  BY <1>1
<1>3. PICK q \in Nat : IdxMod = QueueSize * q
  <2> DEFINE q == IdxMod \div QueueSize
  <2>1. q \in Nat /\ IdxMod = QueueSize * q
    BY <1>1
  <2> QED BY <2>1
<1>4. CASE x < IdxMod
  BY <1>2, <1>4
<1>5. CASE x >= IdxMod
  <2> DEFINE y == x - IdxMod
  <2>1. y \in Nat /\ x = y + QueueSize * q
    BY <1>1, <1>3, <1>5
  <2>2. (y + QueueSize * q) % QueueSize = y % QueueSize
    BY <1>1, <1>3, <2>1, ModPlus
  <2>3. x % IdxMod = y
    BY <1>2, <1>5
  <2> QED BY <1>2, <2>1, <2>2, <2>3, Zenon
<1> QED BY <1>1, <1>2, <1>4, <1>5

(* Neighbours in a ring have slots of their own.                            *)
LEMMA SlotsDiffer ==
  ASSUME NEW a \in Nat, NEW b \in Nat, a < b, b < a + QueueSize
  PROVE  a % QueueSize # b % QueueSize
<1>1. QueueSize \in Nat \ {0}
  BY SizeAssumption
<1> DEFINE S == QueueSize
           p == a \div S
           r == a % S
           q == b \div S
           t == b % S
<1>2. p \in Nat /\ r \in 0 .. S - 1 /\ a = S * p + r
  BY <1>1, Z3
<1>3. q \in Nat /\ t \in 0 .. S - 1 /\ b = S * q + t
  BY <1>1, Z3
<1> HIDE DEF S, p, r, q, t
<1>4. S \in Nat \ {0} /\ b < a + S
  BY <1>1 DEF S
<1> SUFFICES ASSUME r = t PROVE FALSE
  BY DEF r, t, S
<1>5. S * q - S * p = b - a
  BY <1>2, <1>3, <1>4
<1>6. S * (q - p) = b - a
  BY <1>2, <1>3, <1>4, <1>5
<1>7. q - p >= 1
  BY <1>2, <1>3, <1>4, <1>6
<1>8. S * (q - p) >= S
  BY <1>2, <1>3, <1>4, <1>7
<1> QED BY <1>2, <1>3, <1>4, <1>6, <1>8

Ring == [idx : Indices, ring : [Slots -> Slots]]

(* How far idx is ahead of i.                                               *)
Ahead(idx, i) == (idx - i) % IdxMod

LEMMA AheadIs ==
  ASSUME NEW idx \in Indices, NEW i \in Indices
  PROVE  /\ Ahead(idx, i) = IF idx >= i THEN idx - i ELSE idx - i + IdxMod
         /\ Ahead(idx, i) \in 0 .. IdxMod - 1
         /\ idx = (i + Ahead(idx, i)) % IdxMod
         /\ NextIdx(i) \in Indices /\ NextIdx(i) = IF i = IdxMod - 1 THEN 0 ELSE i + 1
<1>1. IdxMod \in Nat \ {0} /\ idx \in 0 .. IdxMod - 1 /\ i \in 0 .. IdxMod - 1
  BY SizeAssumption DEF Indices
<1>2. (idx - i) % IdxMod = IF idx >= i THEN idx - i ELSE idx - i + IdxMod
  BY <1>1
<1>3. (i + 1) % IdxMod = IF i = IdxMod - 1 THEN 0 ELSE i + 1
  BY <1>1
<1>4. i + Ahead(idx, i) \in 0 .. 2 * IdxMod - 1
  BY <1>1, <1>2 DEF Ahead
<1>5. (i + Ahead(idx, i)) % IdxMod = idx
  <2> DEFINE x == i + Ahead(idx, i)
  <2> HIDE DEF x
  <2>1. x \in 0 .. 2 * IdxMod - 1 /\ x = IF idx >= i THEN idx ELSE idx + IdxMod
    BY <1>1, <1>2, <1>4 DEF Ahead, x
  <2>2. (x < IdxMod => x % IdxMod = x) /\ (x >= IdxMod => x % IdxMod = x - IdxMod)
    BY <2>1, Wraps, Zenon
  <2>3. x % IdxMod = idx
    BY <1>1, <2>1, <2>2
  <2> QED BY <2>3 DEF x
<1> QED BY <1>1, <1>2, <1>3, <1>5 DEF Ahead, NextIdx, Indices

(* The entries of a ring, one by one.                                       *)
LEMMA PendingIs ==
  ASSUME NEW r \in Ring, NEW i \in Indices
  PROVE  /\ Pending(r, i) \in Seq(Slots)
         /\ Len(Pending(r, i)) = Ahead(r.idx, i)
         /\ \A k \in 1 .. Ahead(r.idx, i) :
              (i + k - 1) % QueueSize \in Slots
              /\ Pending(r, i)[k] = r.ring[(i + k - 1) % QueueSize]
<1> DEFINE n == Ahead(r.idx, i)
<1>1. r.idx \in Indices /\ r.ring \in [Slots -> Slots]
  BY DEF Ring
<1>2. n \in 0 .. IdxMod - 1 /\ IdxMod \in Nat \ {0} /\ QueueSize \in Nat \ {0} /\ i \in 0 .. IdxMod - 1
  <2>1. n \in 0 .. IdxMod - 1
    BY <1>1, AheadIs, Zenon
  <2> QED BY <2>1, SizeAssumption DEF Indices
<1>3. Pending(r, i) = [k \in 1 .. n |-> r.ring[((i + k - 1) % IdxMod) % QueueSize]]
  BY DEF Pending, Ahead
<1> HIDE DEF n
<1>4. ASSUME NEW k \in 1 .. n
      PROVE  /\ ((i + k - 1) % IdxMod) % QueueSize = (i + k - 1) % QueueSize
             /\ (i + k - 1) % QueueSize \in Slots
  <2>1. i + k - 1 \in 0 .. 2 * IdxMod - 1
    BY <1>2
  <2>2. (i + k - 1) % QueueSize \in 0 .. QueueSize - 1
    BY <1>2, <2>1
  <2> QED BY <2>1, <2>2, Wraps DEF Slots
<1>5. Pending(r, i) \in [1 .. n -> Slots]
  BY <1>1, <1>3, <1>4
<1>6. Pending(r, i) \in Seq(Slots) /\ Len(Pending(r, i)) = n
  BY <1>2, <1>5
<1> QED BY <1>3, <1>4, <1>6 DEF n

(* A store beyond the last entry changes no entry, and moving idx over it   *)
(* appends it.                                                              *)
LEMMA PendingStore ==
  ASSUME NEW r \in Ring, NEW i \in Indices, NEW h \in Slots,
         Len(Pending(r, i)) < QueueSize
  PROVE  LET s == [r EXCEPT !.ring[r.idx % QueueSize] = h] IN
         /\ s \in Ring
         /\ s.idx = r.idx /\ s.ring[s.idx % QueueSize] = h
         /\ Pending(s, i) = Pending(r, i)
<1> DEFINE s == [r EXCEPT !.ring[r.idx % QueueSize] = h]
           n == Ahead(r.idx, i)
<1>1. /\ r.idx \in Indices /\ r.ring \in [Slots -> Slots]
      /\ r = [idx |-> r.idx, ring |-> r.ring]
  BY DEF Ring
<1>2. n \in 0 .. IdxMod - 1 /\ r.idx = (i + n) % IdxMod
  BY <1>1, AheadIs, Zenon
<1>3. IdxMod \in Nat \ {0} /\ QueueSize \in Nat \ {0} /\ i \in 0 .. IdxMod - 1
  BY SizeAssumption DEF Indices
<1>4. n < QueueSize
  BY PendingIs, Zenon
<1> HIDE DEF n
<1>5. i + n \in 0 .. 2 * IdxMod - 1
  BY <1>2, <1>3
<1>6. r.idx % QueueSize = (i + n) % QueueSize
  BY <1>2, <1>5, Wraps
<1>7. r.idx % QueueSize \in Slots
  BY <1>1, <1>3 DEF Indices, Slots
<1> DEFINE m == r.idx % QueueSize
<1> HIDE DEF m
<1>8. /\ s = [idx |-> r.idx, ring |-> [r.ring EXCEPT ![m] = h]]
      /\ s.idx = r.idx /\ s.ring = [r.ring EXCEPT ![m] = h]
  BY <1>1 DEF m
<1>9. s \in Ring
  BY <1>1, <1>7, <1>8 DEF Ring, m
<1> HIDE DEF s
<1>10. s.ring[s.idx % QueueSize] = h
  BY <1>1, <1>7, <1>8 DEF m
<1>11. /\ Pending(s, i) \in Seq(Slots) /\ Len(Pending(s, i)) = n
       /\ \A k \in 1 .. n : Pending(s, i)[k] = s.ring[(i + k - 1) % QueueSize]
  BY <1>8, <1>9, PendingIs, Zenon DEF n
<1>12. /\ Pending(r, i) \in Seq(Slots) /\ Len(Pending(r, i)) = n
       /\ \A k \in 1 .. n : /\ (i + k - 1) % QueueSize \in Slots
                            /\ Pending(r, i)[k] = r.ring[(i + k - 1) % QueueSize]
  BY PendingIs, Zenon DEF n
<1>13. ASSUME NEW k \in 1 .. n PROVE Pending(s, i)[k] = Pending(r, i)[k]
  <2>1. i + k - 1 \in Nat /\ i + n \in Nat /\ i + k - 1 < i + n /\ i + n < i + k - 1 + QueueSize
    BY <1>2, <1>3, <1>4
  <2>2. (i + k - 1) % QueueSize # m
    BY <1>6, <2>1, SlotsDiffer DEF m
  <2> QED BY <1>1, <1>7, <1>8, <1>11, <1>12, <2>2 DEF m
<1>14. Pending(s, i) = Pending(r, i)
  BY <1>2, <1>11, <1>12, <1>13
<1> QED BY <1>8, <1>9, <1>10, <1>14 DEF s

LEMMA PendingAdvance ==
  ASSUME NEW r \in Ring, NEW i \in Indices, Len(Pending(r, i)) < QueueSize
  PROVE  LET s == [r EXCEPT !.idx = NextIdx(r.idx)] IN
         /\ s \in Ring
         /\ Pending(s, i) = Append(Pending(r, i), r.ring[r.idx % QueueSize])
<1> DEFINE s == [r EXCEPT !.idx = NextIdx(r.idx)]
           n == Ahead(r.idx, i)
           h == r.ring[r.idx % QueueSize]
<1>1. /\ r.idx \in Indices /\ r.ring \in [Slots -> Slots]
      /\ s.idx = NextIdx(r.idx) /\ s.ring = r.ring
  BY DEF Ring
<1>2. n \in 0 .. IdxMod - 1 /\ r.idx = (i + n) % IdxMod
  BY <1>1, AheadIs, Zenon
<1>3. /\ IdxMod \in Nat \ {0} /\ QueueSize \in Nat \ {0} /\ IdxMod > QueueSize
      /\ i \in 0 .. IdxMod - 1 /\ r.idx \in 0 .. IdxMod - 1
  BY <1>1, SizeAssumption DEF Indices
<1>4. n < QueueSize
  BY PendingIs, Zenon
<1>5. s.idx \in Indices /\ s.idx = IF r.idx = IdxMod - 1 THEN 0 ELSE r.idx + 1
  BY <1>1, AheadIs, Zenon
<1>6. s \in Ring
  BY <1>1, <1>5 DEF Ring
<1>7. n = IF r.idx >= i THEN r.idx - i ELSE r.idx - i + IdxMod
  BY <1>1, AheadIs, Zenon
<1>8. Ahead(s.idx, i) = IF s.idx >= i THEN s.idx - i ELSE s.idx - i + IdxMod
  BY <1>5, AheadIs, Zenon
<1> HIDE DEF n
<1> HIDE DEF s
<1>9. Ahead(s.idx, i) = n + 1
  BY <1>2, <1>3, <1>4, <1>5, <1>7, <1>8
<1>10. r.idx % QueueSize = (i + n) % QueueSize
  <2>1. i + n \in 0 .. 2 * IdxMod - 1
    BY <1>2, <1>3
  <2>2. ((i + n) % IdxMod) % QueueSize = (i + n) % QueueSize
    BY <2>1, Wraps, Zenon
  <2> QED BY <1>2, <2>2, Zenon
<1>11. /\ Pending(s, i) \in Seq(Slots) /\ Len(Pending(s, i)) = n + 1
       /\ \A k \in 1 .. n + 1 : Pending(s, i)[k] = r.ring[(i + k - 1) % QueueSize]
  <2>1. /\ Pending(s, i) \in Seq(Slots) /\ Len(Pending(s, i)) = Ahead(s.idx, i)
        /\ \A k \in 1 .. Ahead(s.idx, i) : Pending(s, i)[k] = s.ring[(i + k - 1) % QueueSize]
    BY <1>6, PendingIs, Zenon
  <2> QED BY <1>1, <1>9, <2>1
<1>12. /\ Pending(r, i) \in Seq(Slots) /\ Len(Pending(r, i)) = n
       /\ \A k \in 1 .. n : Pending(r, i)[k] = r.ring[(i + k - 1) % QueueSize]
  BY PendingIs, Zenon DEF n
<1>13. Pending(s, i)[n + 1] = h /\ h \in Slots
  <2>1. n + 1 \in 1 .. n + 1
    BY <1>2
  <2> DEFINE m == n + 1
  <2> HIDE DEF m
  <2>2. Pending(s, i)[m] = r.ring[(i + m - 1) % QueueSize]
    BY <1>11, <2>1, Zenon DEF m
  <2>3. Pending(s, i)[n + 1] \in Slots
    BY <1>11, <2>1
  <2>4. i + m - 1 = i + n
    BY <1>2, <1>3 DEF m
  <2>5. Pending(s, i)[m] = h
    BY <1>10, <2>2, <2>4, Zenon
  <2> QED BY <2>3, <2>5, Zenon DEF m
<1> HIDE DEF h
<1>14. Pending(s, i) = Append(Pending(r, i), h)
  <2> DEFINE P == Pending(s, i)
             Q == Pending(r, i)
  <2> HIDE DEF P, Q
  <2>1. P \in Seq(Slots) /\ Q \in Seq(Slots) /\ Len(P) = n + 1 /\ Len(Q) = n /\ n \in Nat /\ P[n + 1] = h
    BY <1>2, <1>11, <1>12, <1>13 DEF P, Q
  <2>2. \A k \in 1 .. n : P[k] = Q[k]
    <3> SUFFICES ASSUME NEW k \in 1 .. n PROVE P[k] = Q[k]
      OBVIOUS
    <3>1. k \in 1 .. n + 1
      BY <2>1
    <3> QED BY <3>1, <1>11, <1>12 DEF P, Q
  <2>3. Append(Q, h) \in Seq(Slots) /\ Len(Append(Q, h)) = n + 1
        /\ \A k \in 1 .. n + 1 : Append(Q, h)[k] = IF k = n + 1 THEN h ELSE Q[k]
    BY <2>1, <1>13
  <2>4. \A k \in 1 .. n + 1 : P[k] = Append(Q, h)[k]
    BY <2>1, <2>2, <2>3
  <2> QED BY <2>1, <2>3, <2>4 DEF P, Q
<1> QED BY <1>6, <1>14 DEF s, h

LEMMA PendingAppend ==
  ASSUME NEW r \in Ring, NEW i \in Indices, NEW h \in Slots,
         Len(Pending(r, i)) < QueueSize
  PROVE  LET t == [idx |-> NextIdx(r.idx), ring |-> [r.ring EXCEPT ![r.idx % QueueSize] = h]] IN
         /\ t \in Ring
         /\ Pending(t, i) = Append(Pending(r, i), h)
<1> DEFINE s == [r EXCEPT !.ring[r.idx % QueueSize] = h]
           t == [idx |-> NextIdx(r.idx), ring |-> [r.ring EXCEPT ![r.idx % QueueSize] = h]]
           u == [s EXCEPT !.idx = NextIdx(s.idx)]
<1>1. r = [idx |-> r.idx, ring |-> r.ring]
  BY DEF Ring
<1>2. s = [idx |-> r.idx, ring |-> [r.ring EXCEPT ![r.idx % QueueSize] = h]]
  BY <1>1
<1>3. t = u
  <2> HIDE DEF s
  <2>1. u = [idx |-> NextIdx(s.idx), ring |-> s.ring]
    BY <1>2
  <2>2. s.idx = r.idx /\ s.ring = [r.ring EXCEPT ![r.idx % QueueSize] = h]
    BY <1>2
  <2> QED BY <2>1, <2>2, Zenon
<1>4. s \in Ring /\ s.ring[s.idx % QueueSize] = h /\ Pending(s, i) = Pending(r, i)
  BY PendingStore, Zenon
<1> HIDE DEF s, t
<1>5. u \in Ring /\ Pending(u, i) = Append(Pending(s, i), s.ring[s.idx % QueueSize])
  BY <1>4, PendingAdvance, Zenon
<1> QED BY <1>3, <1>4, <1>5, Zenon DEF t

(* Moving i over the oldest entry takes it off; an empty ring is one whose  *)
(* two indices agree.                                                       *)
LEMMA PendingPop ==
  ASSUME NEW r \in Ring, NEW i \in Indices
  PROVE  /\ r.idx = i <=> Pending(r, i) = <<>>
         /\ r.idx # i => /\ Pending(r, i)[1] = r.ring[i % QueueSize]
                         /\ Pending(r, NextIdx(i)) = Tail(Pending(r, i))
         /\ NextIdx(i) \in Indices
<1> DEFINE n == Ahead(r.idx, i)
           j == NextIdx(i)
           P == Pending(r, i)
           Q == Pending(r, j)
<1>1. r.idx \in Indices
  BY DEF Ring
<1>2. n \in 0 .. IdxMod - 1 /\ n = IF r.idx >= i THEN r.idx - i ELSE r.idx - i + IdxMod
  BY <1>1, AheadIs, Zenon
<1>3. j \in Indices /\ j = IF i = IdxMod - 1 THEN 0 ELSE i + 1
  BY <1>1, AheadIs, Zenon
<1>4. Ahead(r.idx, j) = IF r.idx >= j THEN r.idx - j ELSE r.idx - j + IdxMod
  BY <1>1, <1>3, AheadIs, Zenon
<1>5. /\ IdxMod \in Nat \ {0} /\ QueueSize \in Nat \ {0} /\ i \in 0 .. IdxMod - 1
      /\ r.idx \in 0 .. IdxMod - 1 /\ IdxMod > QueueSize
  BY <1>1, SizeAssumption DEF Indices
<1>6. /\ P \in Seq(Slots) /\ Len(P) = n
      /\ \A k \in 1 .. n : P[k] = r.ring[(i + k - 1) % QueueSize]
  BY PendingIs, Zenon
<1>7. /\ Q \in Seq(Slots) /\ Len(Q) = Ahead(r.idx, j)
      /\ \A k \in 1 .. Ahead(r.idx, j) : Q[k] = r.ring[(j + k - 1) % QueueSize]
  BY <1>3, PendingIs, Zenon
<1> HIDE DEF n, j, P, Q
<1>8. r.idx = i <=> P = <<>>
  BY <1>2, <1>5, <1>6
<1>9. ASSUME r.idx # i
      PROVE  P[1] = r.ring[i % QueueSize] /\ Q = Tail(P)
  <2>1. n >= 1 /\ Ahead(r.idx, j) = n - 1 /\ i + 1 - 1 = i
    BY <1>2, <1>3, <1>4, <1>5, <1>9
  <2>2. P[1] = r.ring[i % QueueSize]
    <3>1. 1 \in 1 .. n
      BY <1>2, <2>1
    <3> QED BY <1>6, <2>1, <3>1, Zenon
  <2>3. ASSUME NEW k \in 1 .. n - 1 PROVE Q[k] = P[k + 1]
    <3>1. k + 1 \in 1 .. n /\ i + (k + 1) - 1 = i + k
      BY <1>2, <1>5
    <3>2. P[k + 1] = r.ring[(i + k) % QueueSize]
      BY <1>6, <3>1
    <3>3. Q[k] = r.ring[(j + k - 1) % QueueSize]
      BY <1>7, <2>1, Zenon
    <3>4. (j + k - 1) % QueueSize = (i + k) % QueueSize
      <4>1. CASE i # IdxMod - 1
        BY <1>3, <1>5, <4>1
      <4>2. CASE i = IdxMod - 1
        <5>0. j = 0 /\ k \in Nat /\ k >= 1 /\ k < IdxMod
          BY <1>2, <1>3, <4>2, <1>5
        <5>1. j + k - 1 = k - 1 /\ i + k \in 0 .. 2 * IdxMod - 1 /\ i + k >= IdxMod
              /\ (i + k) - IdxMod = k - 1
          BY <1>5, <4>2, <5>0
        <5>2. (i + k) % IdxMod = (i + k) - IdxMod /\ ((i + k) % IdxMod) % QueueSize = (i + k) % QueueSize
          BY <5>1, Wraps, Zenon
        <5> QED BY <5>1, <5>2, Zenon
      <4> QED BY <4>1, <4>2
    <3> QED BY <3>2, <3>3, <3>4, Zenon
  <2>4. Q \in Seq(Slots) /\ Len(Q) = n - 1
    BY <1>7, <2>1, Zenon
  <2>5. Tail(P) \in Seq(Slots) /\ Len(Tail(P)) = n - 1 /\ \A k \in 1 .. n - 1 : Tail(P)[k] = P[k + 1]
    BY <1>2, <1>6, <2>1
  <2>6. Q = Tail(P)
    BY <2>3, <2>4, <2>5
  <2> QED BY <2>2, <2>6
<1> QED BY <1>3, <1>8, <1>9, Zenon DEF P, Q, j

-----------------------------------------------------------------------------
(* Counting up to a bound.                                                  *)
LEMMA CountUp ==
  ASSUME NEW n \in Nat, NEW S, 0 \in S, \A k \in 0 .. n - 1 : k \in S => k + 1 \in S
  PROVE  \A k \in 0 .. n : k \in S
<1> DEFINE B == {k \in 0 .. n : k \notin S}
<1> SUFFICES ASSUME B # {} PROVE FALSE
  BY Zenon
<1>1. B \subseteq Nat
  BY SMT
<1>2. PICK m \in B : \A y \in B : <<y, m>> \notin OpToRel(<, Nat)
  BY <1>1, NatLessThanWellFounded, WFMin, Zenon
<1>3. m \in 1 .. n
  <2>1. m \in 0 .. n /\ m # 0
    BY Zenon
  <2> QED BY <2>1
<1>4. m - 1 \notin B
  <2>1. m - 1 \in Nat /\ m \in Nat /\ m - 1 < m
    BY <1>3
  <2>2. <<m - 1, m>> \in OpToRel(<, Nat)
    BY <2>1 DEF OpToRel
  <2> QED BY <1>2, <2>2, Zenon
<1>5. m - 1 \in S /\ m - 1 \in 0 .. n - 1
  BY <1>3, <1>4
<1>6. m - 1 + 1 = m
  BY <1>3
<1>7. m \in S
  BY <1>5, <1>6
<1> QED BY <1>2, <1>7

(* A queue without repetitions is no longer than what it holds.             *)
LEMMA NoLonger ==
  ASSUME NEW S, IsFiniteSet(S), NEW q \in Seq(S), Distinct(q)
  PROVE  Len(q) \in Nat /\ Len(q) <= Cardinality(S)
<1>1. Len(q) \in Nat /\ q \in [1 .. Len(q) -> S] /\ DOMAIN q = 1 .. Len(q)
  OBVIOUS
<1>2. q \in Injection(1 .. Len(q), S)
  BY <1>1 DEF Injection, IsInjective, Distinct
<1>3. Cardinality(1 .. Len(q)) <= Cardinality(S)
  BY <1>2, FS_Injection, Zenon
<1>4. Cardinality(1 .. Len(q)) = Len(q)
  <2>1. 1 \in Int /\ Len(q) \in Int
    BY <1>1
  <2>2. Cardinality(1 .. Len(q)) = IF 1 > Len(q) THEN 0 ELSE Len(q) - 1 + 1
    BY <2>1, FS_Interval, Zenon
  <2> QED BY <1>1, <2>2
<1> QED BY <1>1, <1>3, <1>4

-----------------------------------------------------------------------------
(* The descriptor table.                                                    *)
Descriptors == [addr : Bufs \cup {NoBuf}, more : BOOLEAN, next : Slots]
Table == [Slots -> Descriptors]

(* The walk of push_chain's first loop is the only function of its form.    *)
Walks(g, d, s, k) == g = [i \in 0 .. k |-> IF i = 0 THEN s ELSE d[g[i - 1]].next]

LEMMA FollowIs ==
  ASSUME NEW d, NEW s, NEW k \in Nat, NEW g, Walks(g, d, s, k)
  PROVE  Follow(d, s, k) = g[k]
<1> USE Zenon
<1> DEFINE c == CHOOSE f : Walks(f, d, s, k)
<1>1. Follow(d, s, k) = c[k]
  BY DEF Follow, Walks
<1>2. Walks(c, d, s, k)
  OBVIOUS
<1> HIDE DEF c
<1> DEFINE S == {i \in 0 .. k : c[i] = g[i]}
<1>3. 0 \in S
  <2>1. 0 \in 0 .. k
    BY SMT
  <2> QED BY <1>2, <2>1, SMT DEF Walks
<1>4. ASSUME NEW i \in 0 .. k - 1, i \in S PROVE i + 1 \in S
  <2>1. i + 1 \in 0 .. k /\ i + 1 # 0 /\ i + 1 - 1 = i /\ (i + 1) - 1 = i
    BY SMT
  <2>2. c[i + 1] = d[c[i]].next /\ g[i + 1] = d[g[i]].next
    <3>1. c[i + 1] = IF i + 1 = 0 THEN s ELSE d[c[(i + 1) - 1]].next
      BY <1>2, <2>1 DEF Walks
    <3>2. g[i + 1] = IF i + 1 = 0 THEN s ELSE d[g[(i + 1) - 1]].next
      BY <2>1 DEF Walks
    <3> QED BY <2>1, <3>1, <3>2
  <2>3. c[i] = g[i]
    BY <1>4, SMT
  <2> QED BY <2>1, <2>2, <2>3
<1>5. k \in S
  <2>1. \A i \in 0 .. k : i \in S
    <3> HIDE DEF S
    <3> QED BY <1>3, <1>4, CountUp
  <2> QED BY <2>1, SMT
<1> QED BY <1>1, <1>5

(* q is a free chain from h: its descriptors are linked.                    *)
IsFree(d, q, h) ==
    /\ q \in Seq(Slots)
    /\ q # <<>> => q[1] = h
    /\ \A k \in 1 .. Len(q) - 1 : d[q[k]].next = q[k + 1]

LEMMA FreeIs ==
  ASSUME NEW d, NEW h, NEW q, IsFree(d, q, h), NEW k \in 1 .. Len(q)
  PROVE  Follow(d, h, k - 1) = q[k]
<1> USE Zenon
<1> DEFINE g == [i \in 0 .. k - 1 |-> q[i + 1]]
<1>1. Len(q) \in Nat /\ q \in Seq(Slots) /\ k - 1 \in Nat /\ q[1] = h
  BY SMT DEF IsFree
<1>2. ASSUME NEW i \in 0 .. k - 1
      PROVE  g[i] = IF i = 0 THEN h ELSE d[g[i - 1]].next
  <2>1. CASE i = 0
    <3>1. g[i] = q[1]
      BY <1>1, <2>1, SMT
    <3> QED BY <1>1, <2>1, <3>1
  <2>2. CASE i # 0
    <3>1. i \in 1 .. Len(q) - 1 /\ i - 1 \in 0 .. k - 1 /\ (i - 1) + 1 = i
      BY <1>1, <2>2, SMT
    <3>2. g[i] = q[i + 1] /\ g[i - 1] = q[i]
      BY <3>1
    <3>3. d[q[i]].next = q[i + 1]
      BY <3>1 DEF IsFree
    <3> QED BY <2>2, <3>2, <3>3
  <2> QED BY <2>1, <2>2
<1>3. g = [i \in 0 .. k - 1 |-> IF i = 0 THEN h ELSE d[g[i - 1]].next]
  BY <1>2
<1>4. g[k - 1] = q[k]
  <2>1. k - 1 \in 0 .. k - 1 /\ (k - 1) + 1 = k
    BY <1>1, SMT
  <2> QED BY <2>1
<1> HIDE DEF g
<1>5. Walks(g, d, h, k - 1)
  BY <1>3 DEF Walks
<1> QED BY <1>1, <1>4, <1>5, FollowIs

(* The link of the last descriptor.                                         *)
LEMMA FreeEnd ==
  ASSUME NEW d \in Table, NEW h \in Slots, NEW q, IsFree(d, q, h)
  PROVE  Follow(d, h, Len(q)) \in Slots
<1>1. q \in Seq(Slots) /\ Len(q) \in Nat
  BY DEF IsFree
<1> DEFINE x == IF q = <<>> THEN h ELSE d[q[Len(q)]].next
           r == Append(q, x)
<1>2. x \in Slots
  <2>1. CASE q # <<>>
    <3>1. q[Len(q)] \in Slots
      BY <1>1, <2>1
    <3> QED BY <2>1, <3>1 DEF Table, Descriptors
  <2> QED BY <2>1
<1> HIDE DEF x
<1>3. /\ r \in Seq(Slots) /\ Len(r) = Len(q) + 1 /\ r[Len(q) + 1] = x
      /\ \A k \in 1 .. Len(q) : r[k] = q[k]
  BY <1>1, <1>2
<1> HIDE DEF r
<1>4. r[1] = h
  <2>1. CASE q = <<>>
    BY <1>3, <2>1 DEF x
  <2>2. CASE q # <<>>
    BY <1>1, <1>3, <2>2 DEF IsFree
  <2> QED BY <2>1, <2>2
<1>5. ASSUME NEW k \in 1 .. Len(r) - 1 PROVE d[r[k]].next = r[k + 1]
  <2>1. CASE k = Len(q)
    BY <1>1, <1>3, <2>1 DEF x
  <2>2. CASE k # Len(q)
    <3>1. k \in 1 .. Len(q) - 1 /\ k \in 1 .. Len(q) /\ k + 1 \in 1 .. Len(q)
      BY <1>1, <1>3, <2>2
    <3> QED BY <1>3, <3>1, Zenon DEF IsFree
  <2> QED BY <2>1, <2>2
<1>6. IsFree(d, r, h)
  BY <1>3, <1>4, <1>5, Zenon DEF IsFree
<1> DEFINE m == Len(q) + 1
<1>7. m \in 1 .. Len(r) /\ m - 1 = Len(q) /\ r[m] \in Slots
  BY <1>1, <1>2, <1>3
<1> HIDE DEF m
<1>8. Follow(d, h, m - 1) = r[m]
  BY <1>6, <1>7, FreeIs
<1> QED BY <1>7, <1>8, Zenon

(* q is the chain at h: its descriptors are linked and marked.              *)
IsChain(d, q, h) ==
    /\ q \in Seq(Slots) /\ Len(q) \in 1 .. QueueSize
    /\ q[1] = h
    /\ Distinct(q)
    /\ \A k \in 1 .. Len(q) : d[q[k]].more = (k < Len(q))
    /\ \A k \in 1 .. Len(q) - 1 : d[q[k]].next = q[k + 1]

(* What upTo[k] becomes.                                                    *)
Longer(d, c) == IF d[c[Len(c)]].more THEN Append(c, d[c[Len(c)]].next) ELSE c
Prefixes(g, d, h) ==
    g = [k \in 1 .. QueueSize |-> IF k = 1 THEN <<h>> ELSE Longer(d, g[k - 1])]

LEMMA ChainIs ==
  ASSUME NEW d, NEW h, NEW q, IsChain(d, q, h)
  PROVE  ChainIn(d, h) = q
<1> USE Zenon
<1> DEFINE n == Len(q)
           pre(k) == [i \in 1 .. (IF k <= n THEN k ELSE n) |-> q[i]]
<1>1. /\ q \in Seq(Slots) /\ n \in Nat /\ n >= 1 /\ n <= QueueSize /\ QueueSize \in Nat
      /\ q[1] = h
  BY SizeAssumption, SMT DEF IsChain
<1> DEFINE c == CHOOSE g : Prefixes(g, d, h)
<1>2. ChainIn(d, h) = c[QueueSize]
  BY DEF ChainIn, Prefixes, Longer
<1>3. ASSUME NEW k \in 1 .. n
      PROVE  /\ pre(k) \in Seq(Slots) /\ Len(pre(k)) = k /\ pre(k)[k] = q[k]
             /\ \A i \in 1 .. k : pre(k)[i] = q[i]
  BY <1>1, SMT
<1>4. ASSUME NEW k \in Nat, k >= n PROVE pre(k) = q
  BY <1>1, <1>4, SMT
<1>5. pre(1) = <<h>>
  BY <1>1, <1>3, SMT
<1>6. ASSUME NEW k \in 2 .. QueueSize PROVE pre(k) = Longer(d, pre(k - 1))
  <2>1. CASE k <= n
    <3> DEFINE j == k - 1
               p == pre(j)
    <3>1. j \in 1 .. n /\ j \in 1 .. n - 1 /\ j < n /\ j + 1 = k /\ k \in 1 .. n
      BY <1>1, <2>1, SMT
    <3>2. /\ p \in Seq(Slots) /\ Len(p) = j /\ p[j] = q[j]
          /\ \A i \in 1 .. j : p[i] = q[i]
      BY <1>3, <3>1
    <3>3. d[q[j]].more = TRUE /\ d[q[j]].next = q[k]
      BY <3>1 DEF IsChain
    <3>4. /\ pre(k) \in Seq(Slots) /\ Len(pre(k)) = k /\ \A i \in 1 .. k : pre(k)[i] = q[i]
      BY <1>3, <3>1
    <3> DEFINE r == pre(k)
    <3> HIDE DEF p, r
    <3>5. r = Append(p, q[k])
      <4>1. r \in Seq(Slots) /\ Len(r) = j + 1 /\ (\A i \in 1 .. j + 1 : r[i] = q[i]) /\ q[k] \in Slots
        BY <1>1, <3>1, <3>4, SMT DEF r
      <4> HIDE DEF j
      <4>2. j \in Nat /\ k = j + 1
        BY <3>1, SMT
      <4> QED BY <3>2, <4>1, <4>2, SMT
    <3>6. Longer(d, p) = Append(p, q[k])
      BY <3>2, <3>3 DEF Longer
    <3> QED BY <3>5, <3>6 DEF p, r
  <2>2. CASE ~(k <= n)
    <3>1. k - 1 \in Nat /\ k - 1 >= n /\ k \in Nat /\ k >= n
      BY <1>1, <2>2, SMT
    <3>2. pre(k - 1) = q /\ pre(k) = q
      BY <1>4, <3>1
    <3>3. ~ d[q[n]].more
      <4>1. n \in 1 .. Len(q) /\ ~ (n < Len(q))
        BY <1>1, SMT
      <4>2. d[q[n]].more = (n < Len(q))
        BY <4>1 DEF IsChain
      <4> QED BY <4>1, <4>2
    <3>4. Longer(d, q) = q
      BY <3>3 DEF Longer
    <3> QED BY <3>2, <3>4
  <2> QED BY <2>1, <2>2
<1> HIDE DEF pre
<1>7. \E g : Prefixes(g, d, h)
  <2> DEFINE g == [k \in 1 .. QueueSize |-> pre(k)]
  <2>1. ASSUME NEW k \in 1 .. QueueSize
        PROVE  g[k] = IF k = 1 THEN <<h>> ELSE Longer(d, g[k - 1])
    <3>1. CASE k = 1
      BY <1>5, <3>1
    <3>2. CASE k # 1
      <4>1. k \in 2 .. QueueSize /\ k - 1 \in 1 .. QueueSize
        BY <1>1, <3>2, SMT
      <4> QED BY <1>6, <3>2, <4>1
    <3> QED BY <3>1, <3>2
  <2>2. g = [k \in 1 .. QueueSize |-> IF k = 1 THEN <<h>> ELSE Longer(d, g[k - 1])]
    BY <2>1
  <2> QED BY <2>2 DEF Prefixes
<1>8. Prefixes(c, d, h)
  BY <1>7
<1> HIDE DEF c
<1>9. \A k \in 1 .. QueueSize : c[k] = IF k = 1 THEN <<h>> ELSE Longer(d, c[k - 1])
  BY <1>8 DEF Prefixes
<1> DEFINE S == {i \in 0 .. QueueSize - 1 : c[i + 1] = pre(i + 1)}
           m == QueueSize - 1
<1>10. m \in Nat /\ m + 1 = QueueSize
  BY <1>1, SMT
<1>11. 0 \in S
  <2>1. 0 \in 0 .. QueueSize - 1 /\ 1 \in 1 .. QueueSize /\ 0 + 1 = 1
    BY <1>1, SMT
  <2>2. c[1] = pre(1)
    BY <1>5, <1>9, <2>1
  <2> QED BY <2>1, <2>2
<1>12. ASSUME NEW i \in 0 .. m - 1, i \in S PROVE i + 1 \in S
  <2> DEFINE k == (i + 1) + 1
  <2>1. i + 1 \in 0 .. QueueSize - 1 /\ k \in 1 .. QueueSize /\ k \in 2 .. QueueSize /\ k # 1 /\ k - 1 = i + 1
    BY <1>1, SMT
  <2> HIDE DEF k
  <2>2. c[k] = Longer(d, c[k - 1])
    BY <1>9, <2>1
  <2>3. pre(k) = Longer(d, pre(k - 1))
    BY <1>6, <2>1
  <2>4. c[i + 1] = pre(i + 1)
    BY <1>12, SMT
  <2>5. c[k] = pre(k)
    BY <2>1, <2>2, <2>3, <2>4
  <2> QED BY <2>1, <2>5, SMT DEF k
<1>13. \A i \in 0 .. m : i \in S
  <2> HIDE DEF S, m
  <2> QED BY <1>10, <1>11, <1>12, CountUp
<1>14. c[QueueSize] = pre(QueueSize)
  <2>1. m \in 0 .. m
    BY <1>10, SMT
  <2> QED BY <1>10, <1>13, <2>1, SMT
<1> QED BY <1>1, <1>2, <1>4, <1>14, SMT

-----------------------------------------------------------------------------
(* Who has which descriptor: the free chain F, the call in progress O, and  *)
(* the requests on their way, C[h] the chain of the one at head h.          *)
Parted(F, O, C) ==
    /\ Distinct(F) /\ Distinct(O)
    /\ \A x \in Range(F) : x \notin Range(O)
    /\ \A h \in DOMAIN C : \A x \in Range(C[h]) :
         /\ x \notin Range(F) /\ x \notin Range(O)
         /\ \A g \in DOMAIN C : x \in Range(C[g]) => g = h
    /\ \A x \in Slots :
         x \in Range(F) \/ x \in Range(O) \/ \E h \in DOMAIN C : x \in Range(C[h])

(* push_chain takes P off the free chain.                                   *)
LEMMA PartCollect ==
  ASSUME NEW F, NEW O, NEW C, NEW P, NEW R, Parted(F, O, C), Range(O) = {},
         Distinct(P), Distinct(R), Range(F) = Range(P) \cup Range(R),
         \A x \in Range(R) : x \notin Range(P)
  PROVE  Parted(R, P, C)
BY Zenon DEF Parted

(* It publishes its chain, as the request at h.                             *)
LEMMA PartPublish ==
  ASSUME NEW F, NEW O, NEW C, NEW N, NEW E, NEW h, Parted(F, O, C), Range(N) = {}, Distinct(N),
         h \notin DOMAIN C, DOMAIN E = DOMAIN C \cup {h}, E[h] = O,
         \A g \in DOMAIN C : E[g] = C[g]
  PROVE  Parted(F, N, E)
<1> USE Zenon
<1>1. ASSUME NEW g \in DOMAIN E, NEW x \in Range(E[g])
      PROVE  /\ x \notin Range(F) /\ x \notin Range(N)
             /\ \A k \in DOMAIN E : x \in Range(E[k]) => k = g
  <2>1. CASE g = h
    <3>1. x \in Range(O)
      BY <2>1
    <3>2. ASSUME NEW k \in DOMAIN E, x \in Range(E[k]) PROVE k = g
      BY <2>1, <3>1, <3>2 DEF Parted
    <3> QED BY <3>1, <3>2 DEF Parted
  <2>2. CASE g # h
    <3>1. g \in DOMAIN C /\ x \in Range(C[g])
      BY <2>2
    <3>2. ASSUME NEW k \in DOMAIN E, x \in Range(E[k]) PROVE k = g
      BY <3>1, <3>2 DEF Parted
    <3> QED BY <3>1, <3>2 DEF Parted
  <2> QED BY <2>1, <2>2
<1>2. ASSUME NEW x \in Slots
      PROVE  x \in Range(F) \/ x \in Range(N) \/ \E k \in DOMAIN E : x \in Range(E[k])
  BY DEF Parted
<1>3. Distinct(F)
  BY DEF Parted
<1> QED BY <1>1, <1>2, <1>3 DEF Parted

(* pop_used takes the chain of a finished request.                          *)
LEMMA PartReap ==
  ASSUME NEW F, NEW O, NEW C, NEW E, NEW h \in DOMAIN C, Parted(F, O, C), Range(O) = {},
         Distinct(C[h]), DOMAIN E = DOMAIN C \ {h}, \A g \in DOMAIN E : E[g] = C[g]
  PROVE  Parted(F, C[h], E)
<1> USE Zenon
<1>1. ASSUME NEW g \in DOMAIN E, NEW x \in Range(E[g])
      PROVE  /\ x \notin Range(F) /\ x \notin Range(C[h])
             /\ \A k \in DOMAIN E : x \in Range(E[k]) => k = g
  BY DEF Parted
<1>2. ASSUME NEW x \in Slots
      PROVE  x \in Range(F) \/ x \in Range(C[h]) \/ \E k \in DOMAIN E : x \in Range(E[k])
  BY DEF Parted
<1>3. Distinct(F) /\ \A x \in Range(F) : x \notin Range(C[h])
  BY DEF Parted
<1> QED BY <1>1, <1>2, <1>3 DEF Parted

(* It gives one descriptor of it back.                                      *)
LEMMA PartFree ==
  ASSUME NEW F, NEW O, NEW C, NEW G, NEW Q, NEW s, Parted(F, O, C),
         Distinct(Q), Range(O) = Range(Q) \cup {s}, s \notin Range(Q),
         Distinct(G), Range(G) = Range(F) \cup {s}
  PROVE  Parted(G, Q, C)
BY Zenon DEF Parted

-----------------------------------------------------------------------------
(* A request is in one place at a time: W waits, T is with the device, D is *)
(* done.                                                                    *)
HeadsApart(W, T, D) ==
    /\ Distinct(W) /\ Distinct(D)
    /\ \A x \in Range(W) : x \notin T /\ x \notin Range(D)
    /\ \A x \in T : x \notin Range(D)

(* A push splits the free chain.                                            *)
LEMMA SplitFree ==
  ASSUME NEW F \in Seq(Slots), Distinct(F), NEW n \in 0 .. Len(F)
  PROVE  LET P == [k \in 1 .. n |-> F[k]]
             R == [k \in 1 .. Len(F) - n |-> F[k + n]]
         IN /\ P \in Seq(Slots) /\ Len(P) = n /\ Distinct(P)
            /\ R \in Seq(Slots) /\ Len(R) = Len(F) - n /\ Distinct(R)
            /\ Range(F) = Range(P) \cup Range(R)
            /\ \A x \in Range(R) : x \notin Range(P)
<1> USE Zenon
<1> DEFINE P == [k \in 1 .. n |-> F[k]]
           R == [k \in 1 .. Len(F) - n |-> F[k + n]]
<1>1. Len(F) \in Nat /\ DOMAIN F = 1 .. Len(F) /\ n \in Nat /\ n <= Len(F) /\ Len(F) - n \in Nat
  BY SMT
<1>2. ASSUME NEW k \in 1 .. n PROVE k \in DOMAIN F /\ F[k] \in Slots /\ k \in Int
  BY <1>1, SMT
<1>3. ASSUME NEW k \in 1 .. Len(F) - n
      PROVE  k + n \in DOMAIN F /\ F[k + n] \in Slots /\ k \in Int /\ ~ (k + n \in 1 .. n)
  BY <1>1, SMT
<1>4. P \in [1 .. n -> Slots] /\ R \in [1 .. Len(F) - n -> Slots]
  BY <1>2, <1>3, SMT
<1>5. /\ P \in Seq(Slots) /\ Len(P) = n /\ DOMAIN P = 1 .. n
      /\ R \in Seq(Slots) /\ Len(R) = Len(F) - n /\ DOMAIN R = 1 .. Len(F) - n
  BY <1>1, <1>4, SMT
<1>6. Distinct(P)
  BY <1>2, <1>5, SMT DEF Distinct
<1>7. Distinct(R)
  <2> SUFFICES ASSUME NEW i \in 1 .. Len(F) - n, NEW j \in 1 .. Len(F) - n, F[i + n] = F[j + n]
               PROVE  i = j
    BY <1>5 DEF Distinct
  <2>1. i + n = j + n
    BY <1>3 DEF Distinct
  <2> QED BY <1>1, <2>1, SMT
<1>8. ASSUME NEW x \in Range(R) PROVE x \in Range(F) /\ x \notin Range(P)
  <2>1. PICK k \in 1 .. Len(F) - n : x = F[k + n]
    BY <1>5 DEF Range
  <2>2. ASSUME NEW j \in 1 .. n, F[j] = x PROVE FALSE
    <3>1. j = k + n
      BY <1>2, <1>3, <2>1, <2>2 DEF Distinct
    <3> QED BY <1>3, <3>1
  <2> QED BY <1>3, <1>5, <2>1, <2>2 DEF Range
<1>9. ASSUME NEW x \in Range(P) PROVE x \in Range(F)
  BY <1>2, <1>5 DEF Range
<1>10. ASSUME NEW x \in Range(F) PROVE x \in Range(P) \cup Range(R)
  <2>1. PICK i \in DOMAIN F : x = F[i]
    BY DEF Range
  <2>2. CASE i <= n
    <3>1. i \in 1 .. n
      BY <1>1, <2>2, SMT
    <3> QED BY <1>5, <2>1, <3>1 DEF Range
  <2>3. CASE ~ (i <= n)
    <3> DEFINE k == i - n
    <3>1. k \in 1 .. Len(F) - n /\ k + n = i
      BY <1>1, <2>3, SMT
    <3> HIDE DEF k
    <3>2. R[k] = x
      BY <2>1, <3>1
    <3> QED BY <1>5, <3>1, <3>2 DEF Range
  <2> QED BY <2>2, <2>3
<1>11. Range(F) = Range(P) \cup Range(R)
  BY <1>8, <1>9, <1>10
<1> QED BY <1>5, <1>6, <1>7, <1>8, <1>11

-----------------------------------------------------------------------------
(* The inductive invariant of the virtqueue.                                *)
VirtqTypes ==
    /\ desc \in Table /\ avail \in Ring /\ used \in Ring
    /\ free_head \in Slots /\ num_free \in 0 .. QueueSize /\ last_used_idx \in Indices
    /\ vpc \in {"idle", "fill", "ring", "publish", "notify", "element", "free"}
    /\ parts \in Seq(Bufs) /\ indices \in Seq(Slots) /\ cur \in Slots /\ part \in Nat
    /\ kicked \in BOOLEAN /\ last_avail_idx \in Indices
    /\ walk \in [head : Slots, at : Slots, seen : Seq(Bufs \cup {NoBuf}), busy : BOOLEAN]
    /\ DOMAIN taken \subseteq Slots

(* The chains in the table, and whose descriptors they are.                 *)
Chains == [h \in InFlight |-> Chain(h)]

ChainsInv ==
    /\ IsFree(desc, FreeChain, free_head)
    /\ \A h \in InFlight : IsChain(desc, Chain(h), h)
    /\ vpc = "free" => IsChain(desc, Chain(cur), cur)
    /\ Parted(FreeChain, Own, Chains)

(* The two loops of push_chain, its publication, and what pop_used saw.     *)
Pushing == vpc \in {"fill", "ring", "publish"}

Filled(k) == [addr |-> parts[k], more |-> k < Len(parts),
              next |-> IF k < Len(parts) THEN indices[k + 1] ELSE 0]

CallInv ==
    /\ Pushing \/ vpc = "notify" => parts \in Parts /\ Len(indices) = Len(parts)
    /\ Pushing => /\ part \in 1 .. Len(parts) + 1
                  /\ \A k \in 1 .. part - 1 : desc[indices[k]] = Filled(k)
                  /\ \A h \in InFlight : \A x \in Range(Request(h)) : x \notin Range(parts)
    /\ vpc = "fill" => part <= Len(parts)
    /\ vpc \in {"ring", "publish"} => part = Len(parts) + 1
    /\ vpc = "publish" => avail.ring[avail.idx % QueueSize] = indices[1]
    /\ vpc = "notify" => indices[1] \in InFlight /\ Request(indices[1]) = parts
    /\ vpc \in {"idle", "element", "free"} => part = 1
    /\ vpc = "element" => used.idx # last_used_idx

(* What the device has read is what the driver wrote.                       *)
DeviceInv ==
    /\ HeadsApart(Waiting, DOMAIN taken, Done)
    /\ \A h \in DOMAIN taken : taken[h] = Request(h)
    /\ \A h, g \in InFlight : h # g =>
         \A x \in Range(Request(h)) : x \notin Range(Request(g))
    /\ walk.busy =>
         /\ Waiting # <<>> /\ walk.head = Waiting[1]
         /\ Len(walk.seen) < Len(Chain(walk.head))
         /\ walk.at = Chain(walk.head)[Len(walk.seen) + 1]
         /\ \A k \in 1 .. Len(walk.seen) : walk.seen[k] = Request(walk.head)[k]

VirtqInv == VirtqTypes /\ ChainsInv /\ CallInv /\ DeviceInv

(* The struct virtqueue: its tokens, and how far its num_free is behind.    *)
Added == IF vpc = "notify" THEN InFlight \ {indices[1]} ELSE InFlight
ShimInv ==
    /\ tokens \in [Slots -> Parts \cup {NULL}] /\ vq_num_free \in Nat
    /\ {s \in Slots : tokens[s] # NULL} = Added
    /\ \A s \in Added : tokens[s] = Request(s)
    /\ vpc \in {"idle", "element"} => vq_num_free <= num_free
    /\ Pushing \/ vpc = "notify" => vq_num_free <= num_free + Len(parts)
    /\ vpc = "free" => vq_num_free <= num_free + 1

-----------------------------------------------------------------------------
(* A queue of descriptors that lacks one is not full.                       *)
LEMMA NotFull ==
  ASSUME NEW q \in Seq(Slots), Distinct(q), NEW x \in Slots, x \notin Range(q)
  PROVE  Len(q) \in Nat /\ Len(q) < QueueSize
<1>1. QueueSize \in Nat \ {0}
  BY SizeAssumption
<1>2. IsFiniteSet(Slots) /\ Cardinality(Slots) = QueueSize
  <2>1. 0 \in Int /\ QueueSize - 1 \in Int
    BY <1>1
  <2>2. IsFiniteSet(Slots) /\ Cardinality(Slots) = IF 0 > QueueSize - 1 THEN 0 ELSE QueueSize - 1 - 0 + 1
    BY <2>1, FS_Interval, Zenon DEF Slots
  <2> QED BY <1>1, <2>2
<1>3. IsFiniteSet(Slots \ {x}) /\ Cardinality(Slots \ {x}) = Cardinality(Slots) - 1
  BY <1>2, FS_RemoveElement, Zenon
<1>4. q \in Seq(Slots \ {x})
  <2>1. Len(q) \in Nat /\ \A i \in 1 .. Len(q) : q[i] \in Slots \ {x}
    BY DEF Range
  <2> QED BY <2>1
<1>5. Len(q) \in Nat /\ Len(q) <= Cardinality(Slots \ {x})
  BY <1>3, <1>4, NoLonger, Zenon
<1> QED BY <1>1, <1>2, <1>3, <1>5

(* Chains do not depend on descriptors outside them.                        *)
LEMMA ChainKept ==
  ASSUME NEW d, NEW e, NEW q, NEW h, IsChain(d, q, h), \A s \in Range(q) : e[s] = d[s]
  PROVE  IsChain(e, q, h)
<1>1. Len(q) \in Nat /\ DOMAIN q = 1 .. Len(q)
  BY DEF IsChain
<1>2. ASSUME NEW k \in 1 .. Len(q) PROVE e[q[k]] = d[q[k]]
  BY <1>1, Zenon DEF Range
<1>3. ASSUME NEW k \in 1 .. Len(q) - 1 PROVE k \in 1 .. Len(q)
  BY <1>1
<1> QED BY <1>2, <1>3, Zenon DEF IsChain

LEMMA FreeKept ==
  ASSUME NEW d, NEW e, NEW q, NEW h, IsFree(d, q, h), \A s \in Range(q) : e[s].next = d[s].next
  PROVE  IsFree(e, q, h)
<1>1. Len(q) \in Nat /\ DOMAIN q = 1 .. Len(q)
  BY DEF IsFree
<1>2. ASSUME NEW k \in 1 .. Len(q) - 1 PROVE e[q[k]].next = d[q[k]].next
  <2>1. k \in 1 .. Len(q)
    BY <1>1
  <2> QED BY <1>1, <2>1, Zenon DEF Range
<1> QED BY <1>2, Zenon DEF IsFree

LEMMA ChainHas ==
  ASSUME NEW d, NEW q, NEW h, IsChain(d, q, h)
  PROVE  /\ h \in Range(q) /\ h \in Slots /\ Range(q) \subseteq Slots /\ Distinct(q)
         /\ q \in Seq(Slots) /\ Len(q) \in Nat /\ DOMAIN q = 1 .. Len(q) /\ Len(q) >= 1
<1>1. q \in Seq(Slots) /\ Len(q) \in Nat /\ DOMAIN q = 1 .. Len(q) /\ Len(q) >= 1 /\ q[1] = h /\ Distinct(q)
  BY SizeAssumption DEF IsChain
<1>2. \A i \in DOMAIN q : q[i] \in Slots
  BY <1>1
<1>3. 1 \in DOMAIN q
  BY <1>1
<1> QED BY <1>1, <1>2, <1>3, Zenon DEF Range

LEMMA InFlightFacts ==
  ASSUME VirtqTypes
  PROVE  /\ Waiting \in Seq(Slots) /\ Done \in Seq(Slots)
         /\ Range(Waiting) \subseteq Slots /\ Range(Done) \subseteq Slots
         /\ InFlight \subseteq Slots
<1>1. Waiting \in Seq(Slots) /\ Done \in Seq(Slots)
  BY PendingIs, Zenon DEF VirtqTypes, Waiting, Done
<1>2. ASSUME NEW q \in Seq(Slots) PROVE Range(q) \subseteq Slots
  BY DEF Range
<1>3. Range(Waiting) \subseteq Slots /\ Range(Done) \subseteq Slots
  BY <1>1, <1>2, Zenon
<1> QED BY <1>1, <1>3, Zenon DEF VirtqTypes, InFlight

(* A step that leaves the table and the requests where they are.            *)
LEMMA RequestsStill ==
  ASSUME UNCHANGED <<desc, used, last_used_idx, taken>>, Waiting' = Waiting
  PROVE  /\ Done' = Done /\ InFlight' = InFlight /\ Chains' = Chains
         /\ \A h : Chain(h)' = Chain(h) /\ Request(h)' = Request(h)
<1> USE Zenon
<1>1. Done' = Done
  BY DEF Done, Pending
<1>2. InFlight' = InFlight
  BY <1>1 DEF InFlight
<1>3. \A h : Chain(h)' = Chain(h)
  BY DEF Chain
<1>4. \A h : Request(h)' = Request(h)
  BY <1>3 DEF Request
<1>5. Chains' = Chains
  BY <1>2, <1>3 DEF Chains
<1> QED BY <1>1, <1>2, <1>3, <1>4, <1>5

(* The requests on their way are left alone.                                *)
Still ==
    /\ Waiting' = Waiting /\ Done' = Done /\ taken' = taken
    /\ \A h \in InFlight : Request(h)' = Request(h)

LEMMA VirtqInitInv == VirtqInit => VirtqInv
<1> SUFFICES ASSUME VirtqInit PROVE VirtqInv
  OBVIOUS
<1>1. QueueSize \in Nat \ {0} /\ IdxMod \in Nat \ {0} /\ 0 \in Slots /\ 0 \in Indices
  BY SizeAssumption DEF Slots, Indices
<1>2. desc \in Table
  <2>1. ASSUME NEW s \in Slots PROVE (IF s = QueueSize - 1 THEN 0 ELSE s + 1) \in Slots
    BY <1>1 DEF Slots
  <2> QED BY <2>1 DEF VirtqInit, Table, Descriptors
<1>3. avail \in Ring /\ used \in Ring
  BY <1>1 DEF VirtqInit, Ring
<1>4. VirtqTypes
  <2>1. /\ parts \in Seq(Bufs) /\ indices \in Seq(Slots) /\ DOMAIN taken \subseteq Slots
        /\ num_free \in 0 .. QueueSize /\ part \in Nat
    BY <1>1 DEF VirtqInit
  <2>2. walk \in [head : Slots, at : Slots, seen : Seq(Bufs \cup {NoBuf}), busy : BOOLEAN]
    <3>1. <<>> \in Seq(Bufs \cup {NoBuf})
      OBVIOUS
    <3> QED BY <1>1, <3>1, Zenon DEF VirtqInit, NoWalk
  <2> QED BY <1>1, <1>2, <1>3, <2>1, <2>2, Zenon DEF VirtqInit, VirtqTypes
<1>5. Waiting = <<>> /\ Done = <<>>
  <2>1. avail.idx = last_avail_idx /\ used.idx = last_used_idx
    BY DEF VirtqInit
  <2> QED BY <1>3, <1>4, <2>1, PendingPop, Zenon DEF VirtqTypes, Waiting, Done
<1>6. Range(<<>>) = {} /\ Distinct(<<>>)
  BY DEF Range, Distinct
<1>7. InFlight = {} /\ DOMAIN taken = {} /\ Own = <<>>
  <2>1. DOMAIN taken = {}
    BY DEF VirtqInit
  <2>2. Own = <<>>
    BY DEF VirtqInit, Own
  <2> QED BY <1>5, <1>6, <2>1, <2>2, Zenon DEF InFlight
<1> DEFINE q == [k \in 1 .. QueueSize |-> k - 1]
<1>8. q \in Seq(Slots) /\ Len(q) = QueueSize /\ DOMAIN q = 1 .. QueueSize
  <2>1. q \in [1 .. QueueSize -> Slots]
    BY <1>1 DEF Slots
  <2> QED BY <1>1, <2>1
<1>9. IsFree(desc, q, 0)
  <2>1. q[1] = 0
    BY <1>1
  <2>2. ASSUME NEW k \in 1 .. Len(q) - 1 PROVE desc[q[k]].next = q[k + 1]
    <3>1. q[k] = k - 1 /\ q[k + 1] = k /\ k - 1 \in Slots /\ k - 1 # QueueSize - 1 /\ (k - 1) + 1 = k
      BY <1>1, <1>8 DEF Slots
    <3>2. desc[k - 1].next = IF k - 1 = QueueSize - 1 THEN 0 ELSE (k - 1) + 1
      BY <3>1 DEF VirtqInit
    <3> QED BY <3>1, <3>2, Zenon
  <2> QED BY <1>8, <2>1, <2>2, Zenon DEF IsFree
<1>10. FreeChain = q
  <2>1. \A k \in 1 .. QueueSize : Follow(desc, 0, k - 1) = q[k]
    <3> HIDE DEF q
    <3> QED BY <1>8, <1>9, FreeIs, Zenon
  <2>2. num_free = QueueSize /\ free_head = 0
    BY DEF VirtqInit
  <2>3. FreeChain = [k \in 1 .. QueueSize |-> Follow(desc, 0, k - 1)]
    BY <2>2, Zenon DEF FreeChain
  <2>4. [k \in 1 .. QueueSize |-> Follow(desc, 0, k - 1)] = [k \in 1 .. QueueSize |-> q[k]]
    <3> HIDE DEF q
    <3> QED BY <2>1, Zenon
  <2> QED BY <2>3, <2>4, Zenon
<1>11. Distinct(q) /\ Range(q) = Slots
  <2>1. Distinct(q)
    BY <1>8 DEF Distinct
  <2>2. ASSUME NEW s \in Slots PROVE s \in Range(q)
    <3>1. s + 1 \in DOMAIN q /\ q[s + 1] = s
      BY <1>1, <1>8 DEF Slots
    <3> QED BY <3>1, Zenon DEF Range
  <2>3. ASSUME NEW s \in Range(q) PROVE s \in Slots
    BY <1>1, <1>8 DEF Range, Slots
  <2> QED BY <2>1, <2>2, <2>3, Zenon
<1> HIDE DEF q
<1>12. DOMAIN Chains = {}
  BY <1>7 DEF Chains
<1>13. Parted(FreeChain, Own, Chains)
  BY <1>6, <1>7, <1>10, <1>11, <1>12, Zenon DEF Parted
<1>14. ChainsInv
  BY <1>7, <1>9, <1>10, <1>13, Zenon DEF ChainsInv, VirtqInit
<1>15. CallInv
  BY DEF VirtqInit, CallInv, Pushing
<1>16. DeviceInv
  BY <1>5, <1>6, <1>7, Zenon DEF VirtqInit, DeviceInv, HeadsApart, NoWalk
<1> QED BY <1>4, <1>14, <1>15, <1>16, Zenon DEF VirtqInv

(* A step that moves nothing preserves what is known of the chains.         *)
LEMMA ChainsStill ==
  ASSUME ChainsInv, UNCHANGED <<desc, used, last_used_idx, taken, free_head, num_free, cur>>,
         Waiting' = Waiting, Own' = Own, vpc' = "free" => vpc = "free"
  PROVE  ChainsInv'
<1> USE Zenon
<1>1. /\ Done' = Done /\ InFlight' = InFlight /\ Chains' = Chains
      /\ \A h : Chain(h)' = Chain(h) /\ Request(h)' = Request(h)
  BY RequestsStill
<1>2. FreeChain' = FreeChain
  BY DEF FreeChain
<1> QED BY <1>1, <1>2 DEF ChainsInv

(* And of the device.                                                       *)
LEMMA DeviceStill ==
  ASSUME DeviceInv, UNCHANGED <<desc, used, last_used_idx, taken, walk>>, Waiting' = Waiting
  PROVE  DeviceInv'
<1>1. /\ Done' = Done /\ InFlight' = InFlight /\ Chains' = Chains
      /\ \A h : Chain(h)' = Chain(h) /\ Request(h)' = Request(h)
  BY RequestsStill, Zenon
<1> QED BY <1>1, Zenon DEF DeviceInv

(* The request being pushed has a head of its own, and there is room for it *)
(* in the available ring.                                                   *)
LEMMA PushedHead ==
  ASSUME VirtqInv, Pushing
  PROVE  /\ indices[1] \in Slots /\ indices[1] \notin InFlight /\ indices[1] \in Range(indices)
         /\ Len(indices) = Len(parts) /\ Len(parts) \in Nat /\ Len(parts) >= 1
         /\ DOMAIN indices = 1 .. Len(parts) /\ DOMAIN parts = 1 .. Len(parts)
         /\ Own = indices /\ Distinct(indices)
         /\ Len(Waiting) < QueueSize
<1> USE Zenon
<1>1. Own = indices
  BY DEF Own, Pushing
<1>2. parts \in Parts /\ Len(indices) = Len(parts) /\ indices \in Seq(Slots)
  BY DEF VirtqInv, VirtqTypes, CallInv
<1>3. PICK n \in 1 .. MaxChain : parts \in [1 .. n -> Bufs]
  BY <1>2 DEF Parts
<1>4. n \in Nat /\ n >= 1 /\ Len(parts) = n /\ DOMAIN parts = 1 .. n
  BY <1>3, SizeAssumption, SMT
<1>5. /\ Len(parts) \in Nat /\ Len(parts) >= 1
      /\ DOMAIN indices = 1 .. Len(parts) /\ DOMAIN parts = 1 .. Len(parts)
      /\ 1 \in DOMAIN indices /\ indices[1] \in Slots
  BY <1>2, <1>4, SMT
<1>6. indices[1] \in Range(indices)
  BY <1>5 DEF Range
<1>7. Parted(FreeChain, indices, Chains)
  BY <1>1 DEF VirtqInv, ChainsInv
<1>8. ASSUME indices[1] \in InFlight PROVE FALSE
  <2>1. indices[1] \in Range(Chains[indices[1]]) /\ indices[1] \in DOMAIN Chains
    BY <1>8, ChainHas DEF VirtqInv, ChainsInv, Chains
  <2> QED BY <1>6, <1>7, <2>1 DEF Parted
<1>9. Len(Waiting) < QueueSize
  <2>1. indices[1] \notin Range(Waiting)
    BY <1>8 DEF InFlight
  <2>2. Waiting \in Seq(Slots) /\ Distinct(Waiting)
    BY InFlightFacts DEF VirtqInv, DeviceInv, HeadsApart
  <2> QED BY <1>5, <2>1, <2>2, NotFull
<1>10. Distinct(indices)
  BY <1>7 DEF Parted
<1> QED BY <1>1, <1>2, <1>5, <1>6, <1>8, <1>9, <1>10

-----------------------------------------------------------------------------
(* The steps of push_chain.                                                 *)
LEMMA PushStep ==
  ASSUME VirtqInv, Push
  PROVE  VirtqInv' /\ Still
<1> USE Zenon
<1>1. PICK p \in Pushable : PushChain(p)
  BY DEF Push
<1>2. PICK n \in 1 .. MaxChain : p \in [1 .. n -> Bufs]
  BY DEF Pushable, Parts
<1>3. n \in Nat /\ n >= 1 /\ Len(p) = n /\ p \in Seq(Bufs) /\ DOMAIN p = 1 .. n
  BY <1>2, SizeAssumption, SMT
<1>4. /\ p \in Parts
      /\ \A h \in InFlight : \A x \in Range(Request(h)) : x \notin Range(p)
  BY DEF Pushable, Lent
<1>5. /\ n <= num_free /\ vpc = "idle" /\ vpc' = "fill"
      /\ indices' = [k \in 1 .. n |-> Follow(desc, free_head, k - 1)]
      /\ free_head' = Follow(desc, free_head, n)
      /\ num_free' = num_free - n /\ parts' = p
      /\ UNCHANGED <<desc, avail, used, last_used_idx, cur, part, deviceVars>>
  BY <1>1, <1>3 DEF PushChain, Collect
<1>6. UNCHANGED <<kicked, last_avail_idx, walk, taken>>
  BY <1>5 DEF deviceVars
<1>7. Waiting' = Waiting
  BY <1>5, <1>6 DEF Waiting, Pending
<1>8. /\ Done' = Done /\ InFlight' = InFlight /\ Chains' = Chains
      /\ \A h : Chain(h)' = Chain(h) /\ Request(h)' = Request(h)
  BY <1>5, <1>6, <1>7, RequestsStill
<1>9. /\ desc \in Table /\ free_head \in Slots /\ num_free \in 0 .. QueueSize /\ part = 1
      /\ QueueSize \in Nat
  BY <1>5, SizeAssumption, SMT DEF VirtqInv, VirtqTypes, CallInv
<1>10. IsFree(desc, FreeChain, free_head) /\ Parted(FreeChain, Own, Chains) /\ Own = <<>>
  BY <1>5 DEF VirtqInv, ChainsInv, Own
<1> DEFINE F == FreeChain
           P == [k \in 1 .. n |-> F[k]]
           m == Len(F) - n
           R == [k \in 1 .. m |-> F[k + n]]
<1>11. Len(F) = num_free /\ F \in Seq(Slots) /\ Distinct(F) /\ n \in 0 .. Len(F)
  <2>1. F \in Seq(Slots) /\ Distinct(F)
    BY <1>10 DEF IsFree, Parted
  <2>2. Len(F) = num_free
    BY <1>9, <2>1, SMT DEF FreeChain
  <2> QED BY <1>3, <1>5, <1>9, <2>1, <2>2, SMT
<1>12. /\ P \in Seq(Slots) /\ Len(P) = n /\ Distinct(P)
       /\ R \in Seq(Slots) /\ Len(R) = m /\ Distinct(R)
       /\ Range(F) = Range(P) \cup Range(R)
       /\ \A x \in Range(R) : x \notin Range(P)
  BY <1>11, SplitFree
<1>13. indices' = P
  <2>1. ASSUME NEW k \in 1 .. n PROVE F[k] = Follow(desc, free_head, k - 1)
    <3>1. k \in 1 .. num_free
      BY <1>3, <1>5, <1>9, SMT
    <3> QED BY <3>1 DEF FreeChain
  <2> QED BY <1>5, <2>1
<1>14. free_head' \in Slots /\ (m # 0 => free_head' = F[n + 1])
  <2>1. CASE m = 0
    <3>1. n = Len(F)
      BY <1>3, <1>9, <1>11, <2>1, SMT
    <3> QED BY <1>5, <1>9, <1>10, <2>1, <3>1, FreeEnd
  <2>2. CASE m # 0
    <3> DEFINE j == n + 1
    <3>1. j \in 1 .. num_free /\ j - 1 = n /\ F[j] \in Slots
      BY <1>3, <1>5, <1>9, <1>11, <2>2, SMT
    <3> HIDE DEF j
    <3>2. F[j] = Follow(desc, free_head, j - 1)
      BY <3>1 DEF FreeChain
    <3> QED BY <1>5, <2>2, <3>1, <3>2 DEF j
  <2> QED BY <2>1, <2>2
<1>15. IsFree(desc, R, free_head')
  <2>1. m \in Nat /\ Len(F) \in Nat
    BY <1>9, <1>11, SMT
  <2>2. ASSUME R # <<>> PROVE R[1] = free_head'
    <3>1. m # 0 /\ 1 \in 1 .. m
      <4> HIDE DEF R, P, F, m
      <4>1. Len(R) # 0
        BY <1>12, <2>2, SMT
      <4> QED BY <1>12, <2>1, <4>1, SMT
    <3>2. R[1] = F[1 + n] /\ 1 + n = n + 1
      BY <1>3, <3>1, SMT
    <3> QED BY <1>14, <3>1, <3>2
  <2>3. ASSUME NEW k \in 1 .. Len(R) - 1 PROVE desc[R[k]].next = R[k + 1]
    <3>1. k \in 1 .. m /\ k + 1 \in 1 .. m /\ k + n \in 1 .. Len(F) - 1 /\ (k + 1) + n = (k + n) + 1
      BY <1>3, <1>12, <2>1, SMT
    <3>2. R[k] = F[k + n] /\ R[k + 1] = F[(k + n) + 1]
      BY <3>1
    <3>3. desc[F[k + n]].next = F[(k + n) + 1]
      BY <1>10, <3>1 DEF IsFree
    <3> QED BY <3>2, <3>3
  <2> QED BY <1>12, <2>2, <2>3 DEF IsFree
<1> HIDE DEF F, P, R
<1>16. FreeChain' = R /\ num_free' = m
  <2>1. num_free' = m
    BY <1>5, <1>11, SMT
  <2>2. \A k \in 1 .. m : Follow(desc, free_head', k - 1) = R[k]
    <3> HIDE DEF m
    <3>1. \A k \in 1 .. Len(R) : Follow(desc, free_head', k - 1) = R[k]
      BY <1>15, FreeIs, SMT
    <3> QED BY <1>12, <3>1
  <2>3. FreeChain' = [k \in 1 .. m |-> Follow(desc, free_head', k - 1)]
    BY <1>5, <2>1 DEF FreeChain
  <2>4. R = [k \in 1 .. m |-> R[k]]
    BY <1>12, SMT
  <2> QED BY <2>1, <2>2, <2>3, <2>4
<1>17. Own' = P
  BY <1>5, <1>13 DEF Own
<1>18. Parted(R, P, Chains)
  <2>1. Range(Own) = {}
    BY <1>10, SMT DEF Range
  <2> QED BY <1>10, <1>12, <2>1, PartCollect DEF F
<1>19. ChainsInv'
  BY <1>5, <1>8, <1>15, <1>16, <1>17, <1>18 DEF VirtqInv, ChainsInv
<1>20. VirtqTypes'
  <2>1. num_free' \in 0 .. QueueSize
    BY <1>3, <1>5, <1>9, SMT
  <2> QED BY <1>3, <1>5, <1>6, <1>12, <1>13, <1>14, <2>1 DEF VirtqInv, VirtqTypes
<1>21. CallInv'
  <2>1. part' = 1 /\ part' \in 1 .. Len(parts') + 1 /\ 1 .. part' - 1 = {} /\ part' <= Len(parts')
    BY <1>3, <1>5, <1>9, SMT
  <2>2. Len(indices') = Len(parts')
    BY <1>3, <1>5, <1>12, <1>13
  <2> QED BY <1>4, <1>5, <1>8, <2>1, <2>2 DEF CallInv, Pushing
<1>22. DeviceInv'
  BY <1>5, <1>6, <1>7, DeviceStill DEF VirtqInv
<1> QED BY <1>6, <1>7, <1>8, <1>19, <1>20, <1>21, <1>22 DEF VirtqInv, Still

(* Descriptors of the call in progress may change without disturbing the    *)
(* free chain or a request.                                                 *)
LEMMA OthersKept ==
  ASSUME VirtqInv, NEW s \in Range(Own), \A x \in Slots \ {s} : desc'[x] = desc[x],
         UNCHANGED <<avail, used, last_used_idx, last_avail_idx, taken>>
  PROVE  /\ IsFree(desc', FreeChain, free_head)
         /\ Waiting' = Waiting /\ Done' = Done /\ InFlight' = InFlight /\ Chains' = Chains
         /\ \A h \in InFlight : /\ Chain(h)' = Chain(h) /\ IsChain(desc', Chain(h), h)
                                /\ Request(h)' = Request(h)
<1> USE Zenon
<1>1. Waiting' = Waiting /\ Done' = Done
  BY DEF Waiting, Done, Pending
<1>2. InFlight' = InFlight
  BY <1>1 DEF InFlight
<1>3. Parted(FreeChain, Own, Chains) /\ IsFree(desc, FreeChain, free_head)
  BY DEF VirtqInv, ChainsInv
<1>4. IsFree(desc', FreeChain, free_head)
  <2>1. ASSUME NEW x \in Range(FreeChain) PROVE desc'[x].next = desc[x].next
    <3>1. x # s
      BY <1>3 DEF Parted
    <3>2. x \in Slots
      BY <1>3, SMT DEF IsFree, Range
    <3> QED BY <3>1, <3>2
  <2> QED BY <1>3, <2>1, FreeKept
<1>5. ASSUME NEW h \in InFlight
      PROVE  /\ Chain(h)' = Chain(h) /\ IsChain(desc', Chain(h), h)
             /\ Request(h)' = Request(h)
  <2>1. IsChain(desc, Chain(h), h)
    BY DEF VirtqInv, ChainsInv
  <2>2. ASSUME NEW x \in Range(Chain(h)) PROVE desc'[x] = desc[x]
    <3>1. x # s
      <4>1. h \in DOMAIN Chains /\ Chains[h] = Chain(h)
        BY DEF Chains
      <4> QED BY <1>3, <4>1 DEF Parted
    <3>2. x \in Slots
      BY <2>1, ChainHas
    <3> QED BY <3>1, <3>2
  <2>3. IsChain(desc', Chain(h), h)
    BY <2>1, <2>2, ChainKept
  <2>4. Chain(h)' = Chain(h)
    BY <2>3, ChainIs DEF Chain
  <2>5. \A i \in DOMAIN Chain(h) : desc'[Chain(h)[i]].addr = desc[Chain(h)[i]].addr
    BY <2>2 DEF Range
  <2>6. Request(h)' = Request(h)
    BY <2>4, <2>5 DEF Request
  <2> QED BY <2>3, <2>4, <2>6
<1>6. Chains' = Chains
  BY <1>2, <1>5 DEF Chains
<1> QED BY <1>1, <1>2, <1>4, <1>5, <1>6

LEMMA FillStep ==
  ASSUME VirtqInv, Fill
  PROVE  VirtqInv' /\ Still
<1> USE Zenon
<1>1. /\ vpc = "fill" /\ part' = part + 1
      /\ desc' = [desc EXCEPT ![indices[part]] = Filled(part)]
      /\ vpc' = (IF part < Len(parts) THEN "fill" ELSE "ring")
      /\ UNCHANGED <<avail, used, free_head, num_free, last_used_idx, parts, indices, cur,
                     kicked, last_avail_idx, walk, taken>>
  BY DEF Fill, Filled, queueVars, deviceVars
<1>2. Pushing
  BY <1>1 DEF Pushing
<1>3. /\ Len(indices) = Len(parts) /\ Len(parts) \in Nat /\ Len(parts) >= 1
      /\ DOMAIN indices = 1 .. Len(parts) /\ DOMAIN parts = 1 .. Len(parts)
      /\ Own = indices /\ Distinct(indices)
  BY <1>2, PushedHead
<1>4. part \in 1 .. Len(parts) /\ part \in DOMAIN indices /\ desc \in Table
  <2>1. part \in 1 .. Len(parts) + 1 /\ part <= Len(parts)
    BY <1>1, <1>2 DEF VirtqInv, CallInv
  <2>2. part \in 1 .. Len(parts)
    BY <1>3, <2>1, SMT
  <2> QED BY <1>3, <2>2 DEF VirtqInv, VirtqTypes
<1> DEFINE s == indices[part]
<1>5. s \in Slots /\ s \in Range(Own)
  <2>1. s \in Slots
    BY <1>4, SMT DEF VirtqInv, VirtqTypes
  <2> QED BY <1>3, <1>4, <2>1 DEF Range
<1>6. Filled(part) \in Descriptors
  <2>1. part + 1 \in 1 .. Len(parts) \/ ~(part < Len(parts))
    BY <1>3, <1>4, SMT
  <2>2. (IF part < Len(parts) THEN indices[part + 1] ELSE 0) \in Slots
    BY <1>3, <2>1, SizeAssumption, SMT DEF VirtqInv, VirtqTypes, Slots
  <2>3. parts[part] \in Bufs
    BY <1>3, <1>4, SMT DEF VirtqInv, VirtqTypes
  <2>4. (part < Len(parts)) \in BOOLEAN
    BY <1>3, <1>4, SMT
  <2> QED BY <2>2, <2>3, <2>4 DEF Filled, Descriptors
<1>7. /\ desc' \in Table /\ desc'[s] = Filled(part)
      /\ \A x \in Slots \ {s} : desc'[x] = desc[x]
  BY <1>1, <1>4, <1>5, <1>6 DEF Table
<1>8. /\ IsFree(desc', FreeChain, free_head)
      /\ Waiting' = Waiting /\ Done' = Done /\ InFlight' = InFlight /\ Chains' = Chains
      /\ \A h \in InFlight : /\ Chain(h)' = Chain(h) /\ IsChain(desc', Chain(h), h)
                             /\ Request(h)' = Request(h)
  BY <1>1, <1>5, <1>7, OthersKept
<1>9. vpc' \in {"fill", "ring"}
  BY <1>1
<1>10. FreeChain' = FreeChain
  <2>1. Len(FreeChain) = num_free /\ num_free \in Nat
    BY <1>8, SMT DEF VirtqInv, VirtqTypes, FreeChain, IsFree
  <2>2. \A k \in 1 .. num_free : Follow(desc', free_head, k - 1) = FreeChain[k]
    BY <1>8, <2>1, FreeIs
  <2>3. FreeChain' = [k \in 1 .. num_free |-> Follow(desc', free_head, k - 1)]
    BY <1>1 DEF FreeChain
  <2>4. FreeChain = [k \in 1 .. num_free |-> FreeChain[k]]
    BY DEF FreeChain
  <2> QED BY <2>2, <2>3, <2>4
<1>11. ChainsInv'
  <2>1. Own' = Own
    BY <1>1, <1>3, <1>9 DEF Own
  <2> QED BY <1>1, <1>8, <1>9, <1>10, <2>1 DEF VirtqInv, ChainsInv
<1>12. VirtqTypes'
  <2>1. part' \in Nat
    BY <1>1, <1>4, SMT
  <2> QED BY <1>1, <1>7, <1>9, <2>1 DEF VirtqInv, VirtqTypes
<1>13. CallInv'
  <2>1. part' \in 1 .. Len(parts) + 1
    BY <1>1, <1>3, <1>4, SMT
  <2>2. \A k : Filled(k)' = Filled(k)
    BY <1>1 DEF Filled
  <2>3. ASSUME NEW k \in 1 .. part' - 1 PROVE desc'[indices[k]] = Filled(k)
    <3>1. CASE k = part
      BY <1>7, <3>1
    <3>2. CASE k # part
      <4>1. k \in 1 .. part - 1 /\ k \in DOMAIN indices
        BY <1>1, <1>3, <1>4, <3>2, SMT
      <4>2. indices[k] # s /\ indices[k] \in Slots
        <5>1. indices[k] # s
          BY <1>3, <1>4, <3>2, <4>1 DEF Distinct
        <5> QED BY <4>1, <5>1, SMT DEF VirtqInv, VirtqTypes
      <4>3. desc[indices[k]] = Filled(k)
        BY <1>2, <4>1 DEF VirtqInv, CallInv
      <4> QED BY <1>7, <4>2, <4>3
    <3> QED BY <3>1, <3>2
  <2>4. vpc' = "fill" => part' <= Len(parts)
    BY <1>1, <1>3, <1>4, SMT
  <2>5. vpc' = "ring" => part' = Len(parts) + 1
    BY <1>1, <1>3, <1>4, SMT
  <2>6. \A h \in InFlight' : \A x \in Range(Request(h)') : x \notin Range(parts)
    BY <1>2, <1>8 DEF VirtqInv, CallInv
  <2>7. parts \in Parts
    BY <1>2 DEF VirtqInv, CallInv
  <2> QED BY <1>1, <1>3, <1>9, <2>1, <2>2, <2>3, <2>4, <2>5, <2>6, <2>7 DEF CallInv, Pushing
<1>14. DeviceInv'
  <2>1. /\ \A h \in DOMAIN taken : h \in InFlight
        /\ walk.busy => walk.head \in InFlight
    <3>1. walk.busy => Waiting # <<>> /\ walk.head = Waiting[1]
      BY DEF VirtqInv, DeviceInv
    <3>2. Waiting \in Seq(Slots)
      BY InFlightFacts DEF VirtqInv
    <3>3. Waiting # <<>> => 1 \in DOMAIN Waiting
      BY <3>2, SMT
    <3> QED BY <3>1, <3>3 DEF InFlight, Range
  <2> QED BY <1>1, <1>8, <2>1 DEF VirtqInv, DeviceInv
<1> QED BY <1>1, <1>8, <1>11, <1>12, <1>13, <1>14 DEF VirtqInv, Still

LEMMA StoreRingStep ==
  ASSUME VirtqInv, StoreRing
  PROVE  VirtqInv' /\ Still
<1> USE Zenon
<1>1. /\ vpc = "ring" /\ vpc' = "publish"
      /\ avail' = [avail EXCEPT !.ring[avail.idx % QueueSize] = indices[1]]
      /\ UNCHANGED <<desc, used, free_head, num_free, last_used_idx, parts, indices, cur, part,
                     kicked, last_avail_idx, walk, taken>>
  BY DEF StoreRing, queueVars, deviceVars
<1>2. Pushing
  BY <1>1 DEF Pushing
<1>3. indices[1] \in Slots /\ Len(Waiting) < QueueSize /\ Own = indices
  BY <1>2, PushedHead
<1>4. avail \in Ring /\ last_avail_idx \in Indices
  BY DEF VirtqInv, VirtqTypes
<1>5. /\ avail' \in Ring /\ avail'.idx = avail.idx /\ avail'.ring[avail'.idx % QueueSize] = indices[1]
      /\ Pending(avail', last_avail_idx) = Pending(avail, last_avail_idx)
  BY <1>1, <1>3, <1>4, PendingStore DEF Waiting
<1>6. Waiting' = Waiting
  BY <1>1, <1>5 DEF Waiting
<1>7. Own' = Own
  BY <1>1, <1>3 DEF Own
<1>8. ChainsInv'
  BY <1>1, <1>6, <1>7, ChainsStill DEF VirtqInv
<1>9. DeviceInv'
  BY <1>1, <1>6, DeviceStill DEF VirtqInv
<1>10. VirtqTypes'
  BY <1>1, <1>5 DEF VirtqInv, VirtqTypes
<1>11. CallInv'
  <2>1. /\ InFlight' = InFlight
        /\ \A h : Chain(h)' = Chain(h) /\ Request(h)' = Request(h)
    BY <1>1, <1>6, RequestsStill
  <2>2. \A k : Filled(k)' = Filled(k)
    BY <1>1 DEF Filled
  <2> QED BY <1>1, <1>2, <1>5, <2>1, <2>2 DEF VirtqInv, CallInv, Pushing
<1>12. Done' = Done /\ \A h : Request(h)' = Request(h)
  BY <1>1, <1>6, RequestsStill
<1> QED BY <1>1, <1>6, <1>12, <1>8, <1>9, <1>10, <1>11 DEF VirtqInv, Still

(* When the second loop is done the collected descriptors are the chain.    *)
LEMMA PushedChain ==
  ASSUME VirtqInv, vpc \in {"ring", "publish"}
  PROVE  /\ IsChain(desc, indices, indices[1]) /\ Chain(indices[1]) = indices
         /\ Request(indices[1]) = parts
<1> USE Zenon
<1>1. Pushing
  BY DEF Pushing
<1>2. /\ Len(indices) = Len(parts) /\ Len(parts) \in Nat /\ Len(parts) >= 1
      /\ DOMAIN indices = 1 .. Len(parts) /\ DOMAIN parts = 1 .. Len(parts)
      /\ Distinct(indices)
  BY <1>1, PushedHead
<1>3. indices \in Seq(Slots) /\ part = Len(parts) + 1 /\ QueueSize \in Nat
  BY SizeAssumption, SMT DEF VirtqInv, VirtqTypes, CallInv
<1>4. ASSUME NEW k \in 1 .. Len(parts) PROVE desc[indices[k]] = Filled(k)
  <2>1. k \in 1 .. part - 1
    BY <1>2, <1>3, SMT
  <2> QED BY <1>1, <2>1 DEF VirtqInv, CallInv
<1>5. ASSUME NEW k \in 1 .. Len(parts)
      PROVE  desc[indices[k]].more = (k < Len(parts)) /\ desc[indices[k]].addr = parts[k]
  <2>1. Filled(k).more = (k < Len(parts)) /\ Filled(k).addr = parts[k]
    BY DEF Filled
  <2> QED BY <1>4, <2>1
<1>6. ASSUME NEW k \in 1 .. Len(parts) - 1 PROVE desc[indices[k]].next = indices[k + 1]
  <2>1. k \in 1 .. Len(parts) /\ k < Len(parts)
    BY <1>2, SMT
  <2>2. Filled(k).next = IF k < Len(parts) THEN indices[k + 1] ELSE 0
    BY DEF Filled
  <2> QED BY <1>4, <2>1, <2>2
<1>7. Len(indices) <= QueueSize
  <2>1. IsFiniteSet(Slots) /\ Cardinality(Slots) = QueueSize
    <3>1. 0 \in Int /\ QueueSize - 1 \in Int
      BY <1>3, SMT
    <3>2. IsFiniteSet(Slots) /\ Cardinality(Slots) = IF 0 > QueueSize - 1 THEN 0 ELSE QueueSize - 1 - 0 + 1
      BY <3>1, FS_Interval DEF Slots
    <3> QED BY <3>2, SizeAssumption, SMT
  <2> QED BY <1>2, <1>3, <2>1, NoLonger, SMT
<1>8. IsChain(desc, indices, indices[1])
  <2>1. Len(indices) \in 1 .. QueueSize
    BY <1>2, <1>3, <1>7, SMT
  <2> QED BY <1>2, <1>3, <1>5, <1>6, <2>1 DEF IsChain
<1>9. Chain(indices[1]) = indices
  BY <1>8, ChainIs DEF Chain
<1>10. Request(indices[1]) = [i \in 1 .. Len(parts) |-> desc[indices[i]].addr]
  BY <1>2, <1>9 DEF Request
<1>11. parts \in Seq(Bufs)
  BY DEF VirtqInv, VirtqTypes
<1>12. parts = [i \in 1 .. Len(parts) |-> parts[i]]
  BY <1>2, <1>11, SMT
<1>13. Request(indices[1]) = parts
  BY <1>5, <1>10, <1>12
<1> QED BY <1>8, <1>9, <1>13

LEMMA StoreIdxStep ==
  ASSUME VirtqInv, StoreIdx
  PROVE  /\ VirtqInv'
         /\ Waiting' = Append(Waiting, indices[1]) /\ InFlight' = InFlight \cup {indices[1]}
         /\ Done' = Done /\ \A h : Request(h)' = Request(h)
<1> USE Zenon
<1>1. /\ vpc = "publish" /\ vpc' = "notify"
      /\ avail' = [avail EXCEPT !.idx = NextIdx(avail.idx)]
      /\ UNCHANGED <<desc, used, free_head, num_free, last_used_idx, parts, indices, cur, part,
                     kicked, last_avail_idx, walk, taken>>
  BY DEF StoreIdx, queueVars, deviceVars
<1> DEFINE h == indices[1]
<1>2. Pushing
  BY <1>1 DEF Pushing
<1>3. h \in Slots /\ h \notin InFlight /\ Len(Waiting) < QueueSize /\ Own = indices
  BY <1>2, PushedHead
<1>4. avail \in Ring /\ last_avail_idx \in Indices /\ avail.ring[avail.idx % QueueSize] = h
  BY <1>1 DEF VirtqInv, VirtqTypes, CallInv
<1>5. avail' \in Ring /\ Pending(avail', last_avail_idx) = Append(Pending(avail, last_avail_idx), h)
  BY <1>1, <1>3, <1>4, PendingAdvance DEF Waiting
<1>6. IsChain(desc, indices, h) /\ Chain(h) = indices /\ Request(h) = parts
  BY <1>1, PushedChain
<1>7. Waiting' = Append(Waiting, h)
  BY <1>1, <1>5 DEF Waiting
<1>8. Waiting \in Seq(Slots) /\ HeadsApart(Waiting, DOMAIN taken, Done)
  BY InFlightFacts DEF VirtqInv, DeviceInv
<1>9. h \notin Range(Waiting) /\ h \notin DOMAIN taken /\ h \notin Range(Done)
  BY <1>3 DEF InFlight
<1>10. Distinct(Waiting') /\ Range(Waiting') = Range(Waiting) \cup {h}
  BY <1>3, <1>7, <1>8, <1>9, PushBack, SMT DEF HeadsApart
<1>11. /\ Done' = Done /\ \A g : Chain(g)' = Chain(g) /\ Request(g)' = Request(g)
  <2>1. Done' = Done
    BY <1>1 DEF Done, Pending
  <2>2. \A g : Chain(g)' = Chain(g)
    BY <1>1 DEF Chain
  <2>3. \A g : Request(g)' = Request(g)
    BY <1>1, <2>2 DEF Request
  <2> QED BY <2>1, <2>2, <2>3
<1>12. InFlight' = InFlight \cup {h}
  BY <1>1, <1>10, <1>11 DEF InFlight
<1>13. Own' = <<>> /\ Range(<<>>) = {} /\ Distinct(<<>>)
  <2>1. Own' = <<>>
    BY <1>1, SMT DEF Own
  <2> QED BY <2>1, SMT DEF Range, Distinct
<1>14. Parted(FreeChain, <<>>, Chains')
  <2>1. Parted(FreeChain, indices, Chains)
    BY <1>3 DEF VirtqInv, ChainsInv
  <2>2. /\ DOMAIN Chains = InFlight /\ DOMAIN Chains' = DOMAIN Chains \cup {h}
        /\ Chains'[h] = indices /\ \A g \in DOMAIN Chains : Chains'[g] = Chains[g]
    BY <1>6, <1>11, <1>12 DEF Chains
  <2> QED BY <1>3, <1>13, <2>1, <2>2, PartPublish
<1>15. FreeChain' = FreeChain
  BY <1>1 DEF FreeChain
<1>16. ChainsInv'
  BY <1>1, <1>6, <1>11, <1>12, <1>13, <1>14, <1>15 DEF VirtqInv, ChainsInv
<1>17. VirtqTypes'
  BY <1>1, <1>5 DEF VirtqInv, VirtqTypes
<1>18. CallInv'
  <2>1. parts \in Parts /\ Len(indices) = Len(parts)
    BY <1>2 DEF VirtqInv, CallInv
  <2> QED BY <1>1, <1>6, <1>11, <1>12, <2>1 DEF CallInv, Pushing
<1>19. DeviceInv'
  <2>1. HeadsApart(Waiting', DOMAIN taken, Done)
    BY <1>8, <1>9, <1>10 DEF HeadsApart
  <2>2. ASSUME NEW a \in InFlight', NEW b \in InFlight', a # b
        PROVE  \A x \in Range(Request(a)) : x \notin Range(Request(b))
    <3>1. \A g \in InFlight : \A x \in Range(Request(g)) : x \notin Range(parts)
      BY <1>2 DEF VirtqInv, CallInv
    <3>2. CASE a = h
      BY <1>6, <1>12, <2>2, <3>1, <3>2
    <3>3. CASE b = h
      BY <1>6, <1>12, <2>2, <3>1, <3>3
    <3>4. CASE a # h /\ b # h
      BY <1>12, <2>2, <3>4 DEF VirtqInv, DeviceInv
    <3> QED BY <3>2, <3>3, <3>4
  <2>3. Waiting # <<>> => Waiting' # <<>> /\ Waiting'[1] = Waiting[1]
    BY <1>3, <1>7, <1>8, SMT
  <2> QED BY <1>1, <1>11, <2>1, <2>2, <2>3 DEF VirtqInv, DeviceInv
<1> QED BY <1>7, <1>11, <1>12, <1>16, <1>17, <1>18, <1>19 DEF VirtqInv

(* A step of the driver that only moves on.                                 *)
LEMMA IdleStep ==
  ASSUME VirtqInv, Notify \/ PopUsed
  PROVE  VirtqInv' /\ Still
<1> USE Zenon
<1>1. /\ UNCHANGED <<desc, avail, used, free_head, num_free, last_used_idx, last_avail_idx, walk, taken>>
      /\ kicked' \in BOOLEAN /\ cur' \in Slots /\ part' \in Nat
      /\ parts' \in Seq(Bufs) /\ indices' \in Seq(Slots)
      /\ \/ vpc = "notify" /\ vpc' = "idle" /\ part' = 1
         \/ vpc = "idle" /\ vpc' = "element" /\ used.idx # last_used_idx /\ UNCHANGED part
  <2>1. 0 \in Slots /\ <<>> \in Seq(Bufs) /\ <<>> \in Seq(Slots) /\ 1 \in Nat
    BY SizeAssumption, SMT DEF Slots
  <2>2. CASE Notify
    BY <2>1, <2>2 DEF Notify, Return, queueVars
  <2>3. CASE PopUsed
    BY <2>3 DEF PopUsed, queueVars, deviceVars, VirtqInv, VirtqTypes
  <2> QED BY <2>2, <2>3
<1>2. Waiting' = Waiting
  BY <1>1 DEF Waiting, Pending
<1>3. Own' = <<>> /\ Own = <<>>
  BY <1>1 DEF Own
<1>4. /\ Done' = Done /\ InFlight' = InFlight /\ Chains' = Chains
      /\ \A h : Chain(h)' = Chain(h) /\ Request(h)' = Request(h)
  BY <1>1, <1>2, RequestsStill
<1>5. ChainsInv'
  <2>1. FreeChain' = FreeChain
    BY <1>1 DEF FreeChain
  <2> QED BY <1>1, <1>3, <1>4, <2>1 DEF VirtqInv, ChainsInv
<1>6. DeviceInv'
  BY <1>1, <1>2, DeviceStill DEF VirtqInv
<1>7. VirtqTypes'
  BY <1>1 DEF VirtqInv, VirtqTypes
<1>8. CallInv'
  BY <1>1 DEF VirtqInv, CallInv, Pushing
<1> QED BY <1>1, <1>2, <1>4, <1>5, <1>6, <1>7, <1>8 DEF VirtqInv, Still

-----------------------------------------------------------------------------
(* The steps of pop_used.                                                   *)
LEMMA ReadElementStep ==
  ASSUME VirtqInv, ReadElement
  PROVE  /\ VirtqInv'
         /\ cur' \in InFlight /\ InFlight' = InFlight \ {cur'}
         /\ Done # <<>> /\ Done' = Tail(Done) /\ Waiting' = Waiting
         /\ \A h : Request(h)' = Request(h)
<1> USE Zenon
<1>1. /\ vpc = "element" /\ vpc' = "free"
      /\ cur' = used.ring[last_used_idx % QueueSize] /\ last_used_idx' = NextIdx(last_used_idx)
      /\ UNCHANGED <<desc, avail, used, free_head, num_free, parts, indices, part,
                     kicked, last_avail_idx, walk, taken>>
  BY DEF ReadElement, deviceVars
<1> DEFINE h == cur'
<1>2. used \in Ring /\ last_used_idx \in Indices /\ used.idx # last_used_idx
  BY <1>1 DEF VirtqInv, VirtqTypes, CallInv
<1>3. /\ Done # <<>> /\ Done[1] = h /\ Done' = Tail(Done) /\ last_used_idx' \in Indices
  BY <1>1, <1>2, PendingPop DEF Done
<1>4. Done \in Seq(Slots) /\ HeadsApart(Waiting, DOMAIN taken, Done)
  BY InFlightFacts DEF VirtqInv, DeviceInv
<1>5. Head(Done) = h
  BY <1>3, <1>4, SMT
<1>6. /\ h \in Slots /\ Distinct(Done')
      /\ Range(Done) = Range(Done') \cup {h} /\ h \notin Range(Done')
  <2>1. Distinct(Done) /\ Done \in Seq(Slots) /\ Done # <<>>
    BY <1>3, <1>4 DEF HeadsApart
  <2>2. /\ Head(Done) \in Slots /\ Distinct(Tail(Done))
        /\ Range(Done) = Range(Tail(Done)) \cup {Head(Done)} /\ Head(Done) \notin Range(Tail(Done))
    BY <2>1, PopFront
  <2> HIDE DEF h
  <2> QED BY <1>3, <1>5, <2>2
<1>7. Waiting' = Waiting
  BY <1>1 DEF Waiting, Pending
<1>8. \A g : Chain(g)' = Chain(g)
  BY <1>1 DEF Chain
<1>9. \A g : Request(g)' = Request(g)
  BY <1>1, <1>8 DEF Request
<1>10. h \in InFlight /\ InFlight' = InFlight \ {h}
  <2>1. h \notin Range(Waiting) /\ h \notin DOMAIN taken
    BY <1>4, <1>6 DEF HeadsApart
  <2>2. InFlight' = Range(Waiting) \cup DOMAIN taken \cup Range(Done')
    BY <1>1, <1>7 DEF InFlight
  <2>3. InFlight = Range(Waiting) \cup DOMAIN taken \cup Range(Done)
    BY DEF InFlight
  <2> QED BY <1>6, <2>1, <2>2, <2>3
<1>11. IsChain(desc, Chain(h), h) /\ Distinct(Chain(h))
  BY <1>10, ChainHas DEF VirtqInv, ChainsInv
<1>12. Own' = Chain(h) /\ Own = <<>>
  BY <1>1, <1>8 DEF Own
<1>13. Parted(FreeChain, Chain(h), Chains')
  <2>1. Parted(FreeChain, <<>>, Chains) /\ Range(<<>>) = {}
    BY <1>12, SMT DEF VirtqInv, ChainsInv, Range
  <2>2. /\ DOMAIN Chains = InFlight /\ DOMAIN Chains' = DOMAIN Chains \ {h}
        /\ Chains[h] = Chain(h) /\ \A g \in DOMAIN Chains' : Chains'[g] = Chains[g]
    BY <1>8, <1>10 DEF Chains
  <2>3. h \in DOMAIN Chains /\ Distinct(Chains[h])
    BY <1>10, <1>11, <2>2
  <2>4. Parted(FreeChain, Chains[h], Chains')
    BY <2>1, <2>2, <2>3, PartReap
  <2> QED BY <2>2, <2>4
<1>14. FreeChain' = FreeChain
  BY <1>1 DEF FreeChain
<1>15. ChainsInv'
  BY <1>1, <1>8, <1>10, <1>11, <1>12, <1>13, <1>14 DEF VirtqInv, ChainsInv
<1>16. VirtqTypes'
  BY <1>1, <1>3, <1>6 DEF VirtqInv, VirtqTypes
<1>17. CallInv'
  BY <1>1 DEF VirtqInv, CallInv, Pushing
<1>18. DeviceInv'
  <2>1. HeadsApart(Waiting, DOMAIN taken, Done')
    BY <1>4, <1>6 DEF HeadsApart
  <2> QED BY <1>1, <1>7, <1>8, <1>9, <1>10, <2>1 DEF VirtqInv, DeviceInv
<1> QED BY <1>3, <1>7, <1>9, <1>10, <1>15, <1>16, <1>17, <1>18 DEF VirtqInv

(* What is left of a chain when its head is freed.                          *)
LEMMA ChainRest ==
  ASSUME NEW d, NEW e, NEW q, NEW h, IsChain(d, q, h), \A s \in Slots \ {h} : e[s] = d[s]
  PROVE  /\ Tail(q) \in Seq(Slots) /\ Distinct(Tail(q))
         /\ Range(q) = Range(Tail(q)) \cup {h} /\ h \notin Range(Tail(q))
         /\ d[h].more => IsChain(e, Tail(q), d[h].next)
         /\ ~ d[h].more => Tail(q) = <<>>
<1> USE Zenon
<1>1. /\ q \in Seq(Slots) /\ Len(q) \in Nat /\ Len(q) >= 1 /\ Len(q) <= QueueSize
      /\ q[1] = h /\ Distinct(q) /\ QueueSize \in Nat
  BY SizeAssumption, SMT DEF IsChain
<1> DEFINE t == Tail(q)
           n == Len(q)
<1>2. /\ t \in Seq(Slots) /\ Len(t) = n - 1 /\ q # <<>> /\ Head(q) = h
      /\ \A k \in 1 .. n - 1 : t[k] = q[k + 1]
  BY <1>1, SMT
<1>3. Distinct(t) /\ Range(q) = Range(t) \cup {h} /\ h \notin Range(t)
  BY <1>1, <1>2, PopFront
<1> HIDE DEF t
<1>4. d[h].more = (1 < n)
  <2>1. 1 \in 1 .. n
    BY <1>1, SMT
  <2> QED BY <1>1, <2>1 DEF IsChain
<1>5. ASSUME ~ d[h].more PROVE t = <<>>
  <2>1. ~ (1 < n)
    BY <1>4, <1>5
  <2> QED BY <1>1, <1>2, <2>1, SMT
<1>6. ASSUME d[h].more PROVE IsChain(e, t, d[h].next)
  <2>1. 1 < n
    BY <1>4, <1>6
  <2>2. t[1] = d[h].next
    <3>1. 1 \in 1 .. n - 1 /\ 1 + 1 = 2
      BY <1>1, <2>1, SMT
    <3>2. d[q[1]].next = q[1 + 1]
      BY <3>1 DEF IsChain
    <3>3. t[1] = q[1 + 1]
      BY <1>2, <3>1
    <3> QED BY <1>1, <3>2, <3>3
  <2>3. ASSUME NEW k \in 1 .. n - 1 PROVE e[t[k]] = d[q[k + 1]] /\ k \in DOMAIN t
    <3>1. k \in DOMAIN t /\ t[k] \in Slots /\ t[k] = q[k + 1]
      BY <1>1, <1>2, SMT
    <3>2. t[k] # h
      BY <1>3, <3>1 DEF Range
    <3>3. e[t[k]] = d[t[k]]
      BY <3>1, <3>2
    <3> QED BY <3>1, <3>3
  <2>4. ASSUME NEW k \in 1 .. Len(t) PROVE e[t[k]].more = (k < Len(t))
    <3>1. k \in 1 .. n - 1 /\ k + 1 \in 1 .. n
      BY <1>1, <1>2, SMT
    <3>2. d[q[k + 1]].more = (k + 1 < n)
      BY <3>1 DEF IsChain
    <3>3. (k + 1 < n) = (k < Len(t))
      BY <1>1, <1>2, <3>1, SMT
    <3> QED BY <2>3, <3>1, <3>2, <3>3
  <2>5. ASSUME NEW k \in 1 .. Len(t) - 1 PROVE e[t[k]].next = t[k + 1]
    <3>1. k \in 1 .. n - 1 /\ k + 1 \in 1 .. n - 1
      BY <1>1, <1>2, SMT
    <3>2. d[q[k + 1]].next = q[(k + 1) + 1]
      BY <3>1 DEF IsChain
    <3>3. t[k + 1] = q[(k + 1) + 1]
      BY <1>2, <3>1
    <3> QED BY <2>3, <3>1, <3>2, <3>3
  <2>6. Len(t) \in 1 .. QueueSize
    BY <1>1, <1>2, <2>1, SMT
  <2> QED BY <1>2, <1>3, <2>2, <2>4, <2>5, <2>6 DEF IsChain
<1> QED BY <1>2, <1>3, <1>5, <1>6 DEF t

(* The free chain with one more descriptor at its head.                     *)
LEMMA FreeMore ==
  ASSUME NEW d, NEW q, NEW h, NEW s \in Slots, IsFree(d, q, h), d[s].next = h
  PROVE  IsFree(d, <<s>> \o q, s) /\ Len(<<s>> \o q) = Len(q) + 1
<1> DEFINE r == <<s>> \o q
<1>1. q \in Seq(Slots) /\ Len(q) \in Nat
  BY DEF IsFree
<1>2. /\ r \in Seq(Slots) /\ Len(r) = Len(q) + 1 /\ r[1] = s
      /\ \A k \in 1 .. Len(q) : r[k + 1] = q[k]
  BY <1>1
<1> HIDE DEF r
<1>3. ASSUME NEW k \in 1 .. Len(r) - 1 PROVE d[r[k]].next = r[k + 1]
  <2>1. k \in 1 .. Len(q)
    BY <1>1, <1>2
  <2>2. r[k + 1] = q[k]
    BY <1>2, <2>1, Zenon
  <2>3. CASE k = 1
    <3>1. q # <<>>
      BY <1>1, <2>1
    <3> QED BY <1>2, <2>2, <2>3, <3>1, Zenon DEF IsFree
  <2>4. CASE k # 1
    <3> DEFINE j == k - 1
    <3>1. j \in 1 .. Len(q) - 1 /\ j \in 1 .. Len(q) /\ j + 1 = k
      BY <1>1, <2>1, <2>4
    <3> HIDE DEF j
    <3>2. r[j + 1] = q[j] /\ d[q[j]].next = q[j + 1]
      BY <1>2, <3>1, Zenon DEF IsFree
    <3> QED BY <2>2, <3>1, <3>2, Zenon
  <2> QED BY <2>3, <2>4, Zenon
<1>4. IsFree(d, r, s)
  BY <1>2, <1>3, Zenon DEF IsFree
<1> QED BY <1>2, <1>4 DEF r

LEMMA FreeStep ==
  ASSUME VirtqInv, FreeDescriptor
  PROVE  VirtqInv' /\ Still
<1> USE Zenon
<1>1. /\ vpc = "free" /\ free_head' = cur /\ num_free' = num_free + 1
      /\ desc' = [desc EXCEPT ![cur].next = free_head]
      /\ desc[cur].more =>
           cur' = desc[cur].next /\ vpc' = vpc /\ parts' = parts /\ indices' = indices /\ part' = part
      /\ ~ desc[cur].more =>
           cur' = 0 /\ vpc' = "idle" /\ parts' = <<>> /\ indices' = <<>> /\ part' = 1
      /\ UNCHANGED <<avail, used, last_used_idx, kicked, last_avail_idx, walk, taken>>
  BY DEF FreeDescriptor, Return, deviceVars
<1>2. IsChain(desc, Chain(cur), cur) /\ Own = Chain(cur) /\ Parted(FreeChain, Own, Chains)
  BY <1>1 DEF VirtqInv, ChainsInv, Own
<1>3. cur \in Range(Own) /\ cur \in Slots
  BY <1>2, ChainHas
<1>4. free_head \in Slots /\ desc \in Table
  BY DEF VirtqInv, VirtqTypes
<1>5. /\ desc' \in Table /\ desc'[cur].next = free_head
      /\ \A x \in Slots \ {cur} : desc'[x] = desc[x]
  BY <1>1, <1>3, <1>4, SMT DEF Table, Descriptors
<1>6. /\ IsFree(desc', FreeChain, free_head)
      /\ Waiting' = Waiting /\ Done' = Done /\ InFlight' = InFlight /\ Chains' = Chains
      /\ \A h \in InFlight : /\ Chain(h)' = Chain(h) /\ IsChain(desc', Chain(h), h)
                             /\ Request(h)' = Request(h)
  BY <1>1, <1>3, <1>5, OthersKept
<1> DEFINE t == Tail(Chain(cur))
           F == <<cur>> \o FreeChain
<1>7. /\ t \in Seq(Slots) /\ Distinct(t) /\ Range(Own) = Range(t) \cup {cur} /\ cur \notin Range(t)
      /\ desc[cur].more => IsChain(desc', t, cur')
      /\ ~ desc[cur].more => t = <<>>
  <2>1. /\ t \in Seq(Slots) /\ Distinct(t)
        /\ Range(Chain(cur)) = Range(t) \cup {cur} /\ cur \notin Range(t)
        /\ desc[cur].more => IsChain(desc', t, desc[cur].next)
        /\ ~ desc[cur].more => t = <<>>
    BY <1>2, <1>5, ChainRest
  <2> HIDE DEF t
  <2> QED BY <1>1, <1>2, <2>1
<1>8. IsFree(desc', F, cur) /\ Len(F) = Len(FreeChain) + 1
  BY <1>3, <1>5, <1>6, FreeMore
<1>9. Len(FreeChain) = num_free /\ num_free \in Nat /\ FreeChain \in Seq(Slots)
  BY <1>6, SMT DEF VirtqInv, VirtqTypes, FreeChain, IsFree
<1>10. Distinct(FreeChain) /\ cur \notin Range(FreeChain)
  BY <1>2, <1>3 DEF Parted
<1>11. Distinct(F) /\ Range(F) = Range(FreeChain) \cup {cur} /\ F \in Seq(Slots)
  BY <1>3, <1>9, <1>10, PushFront, SMT
<1> HIDE DEF t, F
<1>12. num_free' \in 0 .. QueueSize
  <2>1. num_free < QueueSize
    BY <1>3, <1>9, <1>10, NotFull
  <2> QED BY <1>1, <1>9, <2>1, SizeAssumption, SMT
<1>13. FreeChain' = F
  <2>1. Len(F) = num_free' /\ num_free' \in Nat /\ F = [k \in 1 .. Len(F) |-> F[k]]
    <3>1. Len(F) = num_free' /\ num_free' \in Nat
      BY <1>1, <1>8, <1>9, SMT
    <3>2. F = [k \in 1 .. Len(F) |-> F[k]]
      BY <1>11, SMT
    <3> QED BY <3>1, <3>2, SMT
  <2>2. \A k \in 1 .. Len(F) : Follow(desc', free_head', k - 1) = F[k]
    <3>1. \A k \in 1 .. Len(F) : Follow(desc', cur, k - 1) = F[k]
      BY <1>8, FreeIs
    <3> QED BY <1>1, <3>1
  <2>3. FreeChain' = [k \in 1 .. num_free' |-> Follow(desc', free_head', k - 1)]
    BY DEF FreeChain
  <2> QED BY <2>1, <2>2, <2>3
<1>14. Own' = t /\ (vpc' = "free" => IsChain(desc', Chain(cur)', cur'))
  <2>1. CASE desc[cur].more
    <3>1. Chain(cur)' = t
      BY <1>7, <2>1, ChainIs DEF Chain
    <3> QED BY <1>1, <1>7, <2>1, <3>1 DEF Own
  <2>2. CASE ~ desc[cur].more
    BY <1>1, <1>7, <2>2 DEF Own
  <2> QED BY <2>1, <2>2
<1>15. ChainsInv'
  <2>1. Parted(F, t, Chains)
    BY <1>2, <1>7, <1>11, PartFree
  <2> QED BY <1>1, <1>6, <1>8, <1>13, <1>14, <2>1 DEF ChainsInv
<1>16. vpc' \in {"free", "idle"}
  BY <1>1
<1>17. VirtqTypes'
  <2>1. CASE desc[cur].more
    <3>1. cur' \in Slots
      BY <1>7, <2>1, ChainHas
    <3> QED BY <1>1, <1>3, <1>5, <1>12, <2>1, <3>1 DEF VirtqInv, VirtqTypes
  <2>2. CASE ~ desc[cur].more
    <3>1. /\ 0 \in Slots /\ 1 \in Nat /\ <<>> \in Seq(Bufs) /\ <<>> \in Seq(Slots)
      BY SizeAssumption, SMT DEF Slots
    <3> QED BY <1>1, <1>3, <1>5, <1>12, <1>16, <2>2, <3>1 DEF VirtqInv, VirtqTypes
  <2> QED BY <2>1, <2>2
<1>18. CallInv'
  BY <1>1, <1>16 DEF VirtqInv, CallInv, Pushing
<1>19. DeviceInv'
  <2>1. /\ \A h \in DOMAIN taken : h \in InFlight
        /\ walk.busy => walk.head \in InFlight
    <3>1. walk.busy => Waiting # <<>> /\ walk.head = Waiting[1]
      BY DEF VirtqInv, DeviceInv
    <3>2. Waiting \in Seq(Slots)
      BY InFlightFacts DEF VirtqInv
    <3>3. Waiting # <<>> => 1 \in DOMAIN Waiting
      BY <3>2, SMT
    <3> QED BY <3>1, <3>3 DEF InFlight, Range
  <2> QED BY <1>1, <1>6, <2>1 DEF VirtqInv, DeviceInv
<1> QED BY <1>1, <1>6, <1>15, <1>17, <1>18, <1>19 DEF VirtqInv, Still

-----------------------------------------------------------------------------
(* The device's steps.                                                      *)

(* A step that leaves the rings, the descriptors and the driver's calls     *)
(* alone.                                                                   *)
LEMMA DriverStill ==
  ASSUME VirtqInv, Waiting' = Waiting, DeviceInv', VirtqTypes',
         UNCHANGED <<desc, avail, used, free_head, num_free, last_used_idx,
                     vpc, parts, indices, cur, part, taken>>
  PROVE  VirtqInv' /\ Still
<1> USE Zenon
<1>1. /\ Done' = Done /\ InFlight' = InFlight
      /\ \A h : Chain(h)' = Chain(h) /\ Request(h)' = Request(h)
  BY RequestsStill
<1>2. Own' = Own
  BY <1>1 DEF Own
<1>3. ChainsInv'
  BY <1>2, ChainsStill DEF VirtqInv
<1>4. \A k : Filled(k)' = Filled(k)
  BY DEF Filled
<1>5. CallInv'
  BY <1>1, <1>4 DEF VirtqInv, CallInv, Pushing
<1> QED BY <1>1, <1>3, <1>5 DEF VirtqInv, Still

LEMMA TakeHeadStep ==
  ASSUME VirtqInv, TakeHead
  PROVE  VirtqInv' /\ Still
<1> USE Zenon
<1> DEFINE h == avail.ring[last_avail_idx % QueueSize]
<1>1. /\ last_avail_idx # avail.idx
      /\ walk' = [head |-> h, at |-> h, seen |-> <<>>, busy |-> TRUE]
      /\ UNCHANGED <<desc, avail, used, free_head, num_free, last_used_idx,
                     vpc, parts, indices, cur, part, kicked, last_avail_idx, taken>>
  BY DEF TakeHead, queueVars, callVars
<1>2. avail \in Ring /\ last_avail_idx \in Indices
  BY DEF VirtqInv, VirtqTypes
<1>3. Waiting # <<>> /\ Waiting[1] = h
  BY <1>1, <1>2, PendingPop DEF Waiting
<1>4. Waiting' = Waiting
  BY <1>1 DEF Waiting, Pending
<1>5. /\ Done' = Done /\ InFlight' = InFlight
      /\ \A g : Chain(g)' = Chain(g) /\ Request(g)' = Request(g)
  BY <1>1, <1>4, RequestsStill
<1>6. h \in InFlight /\ h \in Slots
  <2>1. Waiting \in Seq(Slots) /\ InFlight \subseteq Slots
    BY InFlightFacts DEF VirtqInv
  <2>2. 1 \in DOMAIN Waiting
    BY <1>3, <2>1, SMT
  <2> QED BY <1>3, <2>1, <2>2 DEF InFlight, Range
<1>7. /\ walk'.head = h /\ walk'.at = h /\ walk'.seen = <<>>
      /\ walk' \in [head : Slots, at : Slots, seen : Seq(Bufs \cup {NoBuf}), busy : BOOLEAN]
  <2> HIDE DEF h
  <2> QED BY <1>1, <1>6, SMT
<1>8. /\ Len(Chain(h)) \in Nat /\ Len(Chain(h)) >= 1 /\ Chain(h)[1] = h
  BY <1>6, ChainHas DEF VirtqInv, ChainsInv, IsChain
<1> HIDE DEF h
<1>9. /\ Len(walk'.seen) = 0 /\ 0 < Len(Chain(h)) /\ 1 .. Len(walk'.seen) = {}
      /\ walk'.at = Chain(h)[Len(walk'.seen) + 1]
  BY <1>7, <1>8, SMT
<1>10. DeviceInv'
  BY <1>1, <1>3, <1>4, <1>5, <1>7, <1>9 DEF VirtqInv, DeviceInv
<1>11. VirtqTypes'
  BY <1>1, <1>7 DEF VirtqInv, VirtqTypes
<1> QED BY <1>1, <1>4, <1>10, <1>11, DriverStill

LEMMA DeviceRestsStep ==
  ASSUME VirtqInv, DeviceRests
  PROVE  VirtqInv' /\ Still
<1> USE Zenon
<1>1. /\ kicked' = FALSE
      /\ UNCHANGED <<desc, avail, used, free_head, num_free, last_used_idx,
                     vpc, parts, indices, cur, part, last_avail_idx, walk, taken>>
  BY DEF DeviceRests, queueVars, callVars
<1>2. Waiting' = Waiting
  BY <1>1 DEF Waiting, Pending
<1>3. DeviceInv'
  BY <1>1, <1>2, DeviceStill DEF VirtqInv
<1>4. VirtqTypes'
  BY <1>1 DEF VirtqInv, VirtqTypes
<1> QED BY <1>1, <1>2, <1>3, <1>4, DriverStill

(* Where the walk is: a descriptor of the chain it reads, whose address is  *)
(* the next one of the request.                                             *)
LEMMA WalkFacts ==
  ASSUME VirtqInv, walk.busy
  PROVE  LET h == walk.head
             k == Len(walk.seen) + 1
         IN /\ h \in InFlight /\ Waiting # <<>> /\ h = Waiting[1]
            /\ IsChain(desc, Chain(h), h)
            /\ k \in 1 .. Len(Chain(h)) /\ walk.at = Chain(h)[k] /\ walk.at \in Slots
            /\ DOMAIN Request(h) = 1 .. Len(Chain(h))
            /\ Request(h)[k] = desc[walk.at].addr
            /\ desc[walk.at].more = (k < Len(Chain(h)))
            /\ desc[walk.at].more => desc[walk.at].next = Chain(h)[k + 1]
            /\ walk.seen \in Seq(Bufs \cup {NoBuf})
            /\ \A j \in 1 .. Len(walk.seen) : walk.seen[j] = Request(h)[j]
            /\ desc[walk.at].addr \in Bufs \cup {NoBuf} /\ desc[walk.at].next \in Slots
<1> USE Zenon
<1> DEFINE h == walk.head
           k == Len(walk.seen) + 1
<1>1. /\ Waiting # <<>> /\ h = Waiting[1]
      /\ Len(walk.seen) < Len(Chain(h)) /\ walk.at = Chain(h)[k]
      /\ \A j \in 1 .. Len(walk.seen) : walk.seen[j] = Request(h)[j]
  BY DEF VirtqInv, DeviceInv
<1>2. walk.seen \in Seq(Bufs \cup {NoBuf}) /\ Len(walk.seen) \in Nat /\ desc \in Table
  BY SMT DEF VirtqInv, VirtqTypes
<1>3. h \in InFlight
  <2>1. Waiting \in Seq(Slots)
    BY InFlightFacts DEF VirtqInv
  <2>2. 1 \in DOMAIN Waiting
    BY <1>1, <2>1, SMT
  <2> QED BY <1>1, <2>2 DEF InFlight, Range
<1>4. IsChain(desc, Chain(h), h)
  BY <1>3 DEF VirtqInv, ChainsInv
<1>5. /\ Len(Chain(h)) \in Nat /\ DOMAIN Chain(h) = 1 .. Len(Chain(h)) /\ Chain(h) \in Seq(Slots)
  BY <1>4, ChainHas
<1>6. k \in 1 .. Len(Chain(h)) /\ (k < Len(Chain(h)) => k \in 1 .. Len(Chain(h)) - 1)
  BY <1>1, <1>2, <1>5, SMT
<1>7. walk.at \in Slots
  <2> HIDE DEF k, h
  <2> QED BY <1>1, <1>5, <1>6, SMT
<1>8. desc[walk.at].addr \in Bufs \cup {NoBuf} /\ desc[walk.at].next \in Slots
  <2> HIDE DEF k, h
  <2> QED BY <1>2, <1>7, SMT DEF Table, Descriptors
<1> HIDE DEF k
<1>9. DOMAIN Request(h) = 1 .. Len(Chain(h)) /\ Request(h)[k] = desc[walk.at].addr
  BY <1>1, <1>5, <1>6 DEF Request
<1>10. desc[walk.at].more = (k < Len(Chain(h)))
  BY <1>1, <1>4, <1>6 DEF IsChain
<1>11. desc[walk.at].more => desc[walk.at].next = Chain(h)[k + 1]
  BY <1>1, <1>4, <1>6, <1>10 DEF IsChain
<1> QED BY <1>1, <1>2, <1>3, <1>4, <1>6, <1>7, <1>8, <1>9, <1>10, <1>11 DEF k

LEMMA ReadMoreStep ==
  ASSUME VirtqInv, ReadDescriptor, desc[walk.at].more
  PROVE  VirtqInv' /\ Still
<1> USE Zenon
<1> DEFINE h == walk.head
           k == Len(walk.seen) + 1
           a == desc[walk.at].addr
           n == desc[walk.at].next
<1>1. /\ walk.busy /\ walk' = [walk EXCEPT !.at = n, !.seen = Append(walk.seen, a)]
      /\ UNCHANGED <<desc, avail, used, free_head, num_free, last_used_idx,
                     vpc, parts, indices, cur, part, kicked, last_avail_idx, taken>>
  BY DEF ReadDescriptor, queueVars, callVars
<1>2. /\ Waiting # <<>> /\ h = Waiting[1]
      /\ k \in 1 .. Len(Chain(h)) /\ Request(h)[k] = a
      /\ desc[walk.at].more = (k < Len(Chain(h))) /\ n = Chain(h)[k + 1]
      /\ walk.seen \in Seq(Bufs \cup {NoBuf})
      /\ \A j \in 1 .. Len(walk.seen) : walk.seen[j] = Request(h)[j]
      /\ a \in Bufs \cup {NoBuf} /\ n \in Slots
  BY <1>1, WalkFacts
<1>3. k < Len(Chain(h))
  BY <1>2
<1>4. walk \in [head : Slots, at : Slots, seen : Seq(Bufs \cup {NoBuf}), busy : BOOLEAN]
  BY DEF VirtqInv, VirtqTypes
<1> HIDE DEF a, n
<1>5. /\ walk' \in [head : Slots, at : Slots, seen : Seq(Bufs \cup {NoBuf}), busy : BOOLEAN]
      /\ walk'.head = h /\ walk'.at = n /\ walk'.seen = Append(walk.seen, a)
  <2> DEFINE q == Append(walk.seen, a)
  <2>1. q \in Seq(Bufs \cup {NoBuf})
    BY <1>2, SMT
  <2> HIDE DEF q
  <2>2. walk' = [walk EXCEPT !.at = n, !.seen = q]
    BY <1>1 DEF q
  <2>3. /\ walk' \in [head : Slots, at : Slots, seen : Seq(Bufs \cup {NoBuf}), busy : BOOLEAN]
        /\ walk'.head = walk.head /\ walk'.at = n /\ walk'.seen = q
    BY <1>2, <1>4, <2>1, <2>2
  <2> QED BY <2>3 DEF q
<1>6. /\ Len(walk'.seen) = k
      /\ \A j \in 1 .. k : walk'.seen[j] = Request(h)[j]
  BY <1>2, <1>5, SMT
<1> HIDE DEF k, h
<1>7. Waiting' = Waiting
  BY <1>1 DEF Waiting, Pending
<1>8. /\ Done' = Done /\ InFlight' = InFlight
      /\ \A g : Chain(g)' = Chain(g) /\ Request(g)' = Request(g)
  BY <1>1, <1>7, RequestsStill
<1>9. DeviceInv'
  <2>1. walk'.at = Chain(h)[Len(walk'.seen) + 1] /\ Len(walk'.seen) < Len(Chain(h))
    BY <1>2, <1>3, <1>5, <1>6
  <2>2. \A j \in 1 .. Len(walk'.seen) : walk'.seen[j] = Request(h)[j]
    BY <1>6
  <2>3. /\ Waiting' # <<>> /\ walk'.head = Waiting'[1]
        /\ Len(walk'.seen) < Len(Chain(walk.head)')
        /\ walk'.at = Chain(walk.head)'[Len(walk'.seen) + 1]
        /\ \A j \in 1 .. Len(walk'.seen) : walk'.seen[j] = Request(walk.head)'[j]
    <3>1. walk'.head = h
      BY <1>5
    <3>2. Chain(walk.head)' = Chain(h) /\ Request(walk.head)' = Request(h)
      BY <3>1, <1>8
    <3> QED BY <1>2, <1>7, <2>1, <2>2, <3>1, <3>2
  <2> QED BY <1>1, <1>7, <1>8, <2>3 DEF VirtqInv, DeviceInv
<1>10. VirtqTypes'
  BY <1>1, <1>5 DEF VirtqInv, VirtqTypes
<1> QED BY <1>1, <1>7, <1>9, <1>10, DriverStill

(* The last descriptor: the device has the request the driver wrote.        *)
LEMMA ReadLastStep ==
  ASSUME VirtqInv, ReadDescriptor, ~ desc[walk.at].more
  PROVE  /\ VirtqInv'
         /\ Waiting # <<>> /\ Waiting' = Tail(Waiting) /\ Done' = Done
         /\ taken' = [g \in DOMAIN taken \cup {Waiting[1]} |->
                      IF g = Waiting[1] THEN Request(Waiting[1]) ELSE taken[g]]
         /\ InFlight' = InFlight /\ \A g : Request(g)' = Request(g)
<1> USE Zenon
<1> DEFINE h == walk.head
           k == Len(walk.seen) + 1
           a == desc[walk.at].addr
           q == Append(walk.seen, a)
<1>1. /\ walk.busy /\ walk' = NoWalk /\ last_avail_idx' = NextIdx(last_avail_idx)
      /\ taken' = [g \in DOMAIN taken \cup {h} |-> IF g = h THEN q ELSE taken[g]]
      /\ UNCHANGED <<desc, avail, used, free_head, num_free, last_used_idx,
                     vpc, parts, indices, cur, part, kicked>>
  BY DEF ReadDescriptor, queueVars, callVars
<1>2. /\ h \in InFlight /\ Waiting # <<>> /\ h = Waiting[1]
      /\ k \in 1 .. Len(Chain(h)) /\ Request(h)[k] = a
      /\ DOMAIN Request(h) = 1 .. Len(Chain(h))
      /\ desc[walk.at].more = (k < Len(Chain(h)))
      /\ walk.seen \in Seq(Bufs \cup {NoBuf})
      /\ \A j \in 1 .. Len(walk.seen) : walk.seen[j] = Request(h)[j]
      /\ a \in Bufs \cup {NoBuf} /\ IsChain(desc, Chain(h), h)
  BY <1>1, WalkFacts
<1>3. Len(Chain(h)) \in Nat
  BY <1>2, ChainHas
<1>4. k = Len(Chain(h))
  <2>1. ~ (k < Len(Chain(h)))
    BY <1>2
  <2> QED BY <1>2, <1>3, <2>1, SMT
<1>5. q = Request(h)
  <2> HIDE DEF a
  <2>1. DOMAIN q = 1 .. k /\ \A j \in 1 .. k : q[j] = Request(h)[j]
    BY <1>2, SMT
  <2>2. q = [j \in DOMAIN q |-> q[j]]
    BY <1>2, SMT
  <2>3. Request(h) = [j \in DOMAIN Request(h) |-> Request(h)[j]]
    BY DEF Request
  <2> QED BY <1>2, <1>4, <2>1, <2>2, <2>3
<1> HIDE DEF q, k, a
<1>6. Waiting' = Tail(Waiting) /\ last_avail_idx' \in Indices
  BY <1>1, <1>2, PendingPop DEF Waiting, VirtqInv, VirtqTypes
<1>7. HeadsApart(Waiting, DOMAIN taken, Done) /\ Waiting \in Seq(Slots)
  BY InFlightFacts DEF VirtqInv, DeviceInv
<1>8. Head(Waiting) = h
  BY <1>2, <1>7, SMT
<1>9. /\ h \in Slots /\ Distinct(Waiting')
      /\ Range(Waiting) = Range(Waiting') \cup {h} /\ h \notin Range(Waiting')
  <2>1. /\ Head(Waiting) \in Slots /\ Distinct(Tail(Waiting))
        /\ Range(Waiting) = Range(Tail(Waiting)) \cup {Head(Waiting)}
        /\ Head(Waiting) \notin Range(Tail(Waiting))
    BY <1>2, <1>7, PopFront DEF HeadsApart
  <2> QED BY <1>6, <1>8, <2>1
<1>10. Done' = Done
  BY <1>1 DEF Done, Pending
<1>11. DOMAIN taken' = DOMAIN taken \cup {h}
  BY <1>1
<1>12. InFlight' = InFlight
  BY <1>9, <1>10, <1>11 DEF InFlight
<1>13. \A g : Chain(g)' = Chain(g) /\ Request(g)' = Request(g)
  BY <1>1 DEF Chain, Request
<1>14. ChainsInv'
  <2>1. Chains' = Chains
    BY <1>12, <1>13 DEF Chains
  <2>2. Own' = Own /\ FreeChain' = FreeChain
    BY <1>1, <1>13 DEF Own, FreeChain
  <2> QED BY <1>1, <1>12, <1>13, <2>1, <2>2 DEF VirtqInv, ChainsInv
<1>15. VirtqTypes'
  <2>1. NoWalk \in [head : Slots, at : Slots, seen : Seq(Bufs \cup {NoBuf}), busy : BOOLEAN]
    BY SizeAssumption, SMT DEF NoWalk, Slots
  <2> QED BY <1>1, <1>6, <1>9, <1>11, <2>1 DEF VirtqInv, VirtqTypes
<1>16. CallInv'
  <2>1. \A j : Filled(j)' = Filled(j)
    BY <1>1 DEF Filled
  <2> QED BY <1>1, <1>12, <1>13, <2>1 DEF VirtqInv, CallInv, Pushing
<1>17. DeviceInv'
  <2>1. HeadsApart(Waiting', DOMAIN taken', Done')
    BY <1>7, <1>9, <1>10, <1>11 DEF HeadsApart
  <2>2. \A g \in DOMAIN taken' : taken'[g] = Request(g)
    BY <1>1, <1>5 DEF VirtqInv, DeviceInv
  <2>3. ~ walk'.busy
    BY <1>1, SMT DEF NoWalk
  <2> QED BY <1>12, <1>13, <2>1, <2>2, <2>3 DEF VirtqInv, DeviceInv
<1> QED BY <1>1, <1>2, <1>5, <1>6, <1>10, <1>12, <1>13, <1>14, <1>15, <1>16, <1>17 DEF VirtqInv

(* A request may be finished in any order: there is always a free entry in  *)
(* the used ring.                                                           *)
LEMMA CompleteStep ==
  ASSUME VirtqInv, NEW h \in DOMAIN taken, Complete(h)
  PROVE  /\ VirtqInv'
         /\ Waiting' = Waiting /\ Done' = Append(Done, h) /\ Done \in Seq(Slots)
         /\ taken' = [g \in DOMAIN taken \ {h} |-> taken[g]]
         /\ InFlight' = InFlight /\ \A g : Request(g)' = Request(g)
<1> USE Zenon
<1>1. /\ used' = [idx |-> NextIdx(used.idx), ring |-> [used.ring EXCEPT ![used.idx % QueueSize] = h]]
      /\ taken' = [g \in DOMAIN taken \ {h} |-> taken[g]]
      /\ UNCHANGED <<desc, avail, free_head, num_free, last_used_idx,
                     vpc, parts, indices, cur, part, kicked, last_avail_idx, walk>>
  BY DEF Complete, queueVars, callVars
<1>2. /\ used \in Ring /\ last_used_idx \in Indices /\ h \in Slots
  BY DEF VirtqInv, VirtqTypes
<1>3. HeadsApart(Waiting, DOMAIN taken, Done) /\ Done \in Seq(Slots)
  BY InFlightFacts DEF VirtqInv, DeviceInv
<1>4. Distinct(Done) /\ h \notin Range(Done) /\ h \notin Range(Waiting)
  BY <1>3 DEF HeadsApart
<1>5. Len(Done) < QueueSize
  BY <1>2, <1>3, <1>4, NotFull
<1>6. used' \in Ring /\ Done' = Append(Done, h)
  BY <1>1, <1>2, <1>5, PendingAppend DEF Done
<1>7. Distinct(Done') /\ Range(Done') = Range(Done) \cup {h}
  BY <1>2, <1>3, <1>4, <1>6, PushBack, SMT
<1>8. Waiting' = Waiting
  BY <1>1 DEF Waiting, Pending
<1>9. DOMAIN taken' = DOMAIN taken \ {h}
  BY <1>1
<1>10. InFlight' = InFlight
  BY <1>7, <1>8, <1>9 DEF InFlight
<1>11. \A g : Chain(g)' = Chain(g) /\ Request(g)' = Request(g)
  BY <1>1 DEF Chain, Request
<1>12. ChainsInv'
  <2>1. Chains' = Chains
    BY <1>10, <1>11 DEF Chains
  <2>2. Own' = Own /\ FreeChain' = FreeChain
    BY <1>1, <1>11 DEF Own, FreeChain
  <2> QED BY <1>1, <1>10, <1>11, <2>1, <2>2 DEF VirtqInv, ChainsInv
<1>13. VirtqTypes'
  BY <1>1, <1>6, <1>9 DEF VirtqInv, VirtqTypes
<1>14. CallInv'
  <2>1. \A j : Filled(j)' = Filled(j)
    BY <1>1 DEF Filled
  <2>2. used'.idx # last_used_idx'
    <3>1. Done' # <<>>
      BY <1>3, <1>6, SMT
    <3> QED BY <1>1, <1>2, <1>6, <3>1, PendingPop DEF Done
  <2> QED BY <1>1, <1>10, <1>11, <2>1, <2>2 DEF VirtqInv, CallInv, Pushing
<1>15. DeviceInv'
  <2>1. HeadsApart(Waiting', DOMAIN taken', Done')
    BY <1>3, <1>4, <1>7, <1>8, <1>9 DEF HeadsApart
  <2>2. \A g \in DOMAIN taken' : taken'[g] = Request(g)
    BY <1>1, <1>9 DEF VirtqInv, DeviceInv
  <2> QED BY <1>1, <1>8, <1>10, <1>11, <2>1, <2>2 DEF VirtqInv, DeviceInv
<1> QED BY <1>1, <1>3, <1>6, <1>8, <1>10, <1>11, <1>12, <1>13, <1>14, <1>15 DEF VirtqInv

-----------------------------------------------------------------------------
LEMMA VirtqStep == VirtqInv /\ [VirtqNext]_virtqVars => VirtqInv'
<1> USE Zenon
<1> SUFFICES ASSUME VirtqInv, [VirtqNext]_virtqVars PROVE VirtqInv'
  OBVIOUS
<1>1. CASE Push
  BY <1>1, PushStep
<1>2. CASE PopUsed \/ Notify
  BY <1>2, IdleStep
<1>3. CASE Fill
  BY <1>3, FillStep
<1>4. CASE StoreRing
  BY <1>4, StoreRingStep
<1>5. CASE StoreIdx
  BY <1>5, StoreIdxStep
<1>6. CASE ReadElement
  BY <1>6, ReadElementStep
<1>7. CASE FreeDescriptor
  BY <1>7, FreeStep
<1>8. CASE TakeHead
  BY <1>8, TakeHeadStep
<1>9. CASE DeviceRests
  BY <1>9, DeviceRestsStep
<1>10. CASE ReadDescriptor
  BY <1>10, ReadMoreStep, ReadLastStep
<1>11. CASE \E h \in DOMAIN taken : Complete(h)
  BY <1>11, CompleteStep
<1>12. CASE UNCHANGED virtqVars
  <2>1. UNCHANGED <<desc, avail, used, free_head, num_free, last_used_idx,
                    vpc, parts, indices, cur, part, kicked, last_avail_idx, walk, taken>>
    BY <1>12 DEF virtqVars, queueVars, callVars, deviceVars
  <2>2. Waiting' = Waiting
    BY <2>1 DEF Waiting, Pending
  <2>3. DeviceInv'
    BY <2>1, <2>2, DeviceStill DEF VirtqInv
  <2>4. VirtqTypes'
    BY <2>1 DEF VirtqInv, VirtqTypes
  <2> QED BY <2>1, <2>2, <2>3, <2>4, DriverStill
<1> QED
  BY <1>1, <1>2, <1>3, <1>4, <1>5, <1>6, <1>7, <1>8, <1>9, <1>10, <1>11, <1>12
  DEF VirtqNext, VirtqCall, VirtqDevice

(* Driver and device see one queue: the descriptors in use are linked into  *)
(* the chains that push_chain wrote, none of them is shared, the rings hold *)
(* what is on its way and no more, and what the device has read of a chain  *)
(* is what was written there; at every access of push_chain, pop_used and   *)
(* the device.                                                              *)
THEOREM VirtqInvariant == VirtqSpec => []VirtqInv
<1>1. VirtqInit => VirtqInv
  BY VirtqInitInv
<1>2. VirtqInv /\ [VirtqNext]_virtqVars => VirtqInv'
  BY VirtqStep
<1> QED BY <1>1, <1>2, PTL DEF VirtqSpec

-----------------------------------------------------------------------------
(* A descriptor is in one of the places of Holders.                         *)
LEMMA HolderCases ==
  ASSUME NEW p \in Holders, NEW s \in Range(p.chain)
  PROVE  \/ p = [place |-> "free", nr |-> 0, chain |-> FreeChain] /\ s \in Range(FreeChain)
         \/ p = [place |-> "call", nr |-> 0, chain |-> Own] /\ s \in Range(Own)
         \/ \E i \in DOMAIN Waiting :
              /\ p = [place |-> "waiting", nr |-> i, chain |-> Chain(Waiting[i])]
              /\ s \in Range(Chain(Waiting[i]))
         \/ \E h \in DOMAIN taken :
              p = [place |-> "taken", nr |-> h, chain |-> Chain(h)] /\ s \in Range(Chain(h))
         \/ \E i \in DOMAIN Done :
              /\ p = [place |-> "done", nr |-> i, chain |-> Chain(Done[i])]
              /\ s \in Range(Chain(Done[i]))
<1> USE Zenon
<1>1. \/ p = [place |-> "free", nr |-> 0, chain |-> FreeChain]
      \/ p = [place |-> "call", nr |-> 0, chain |-> Own]
      \/ \E i \in DOMAIN Waiting : p = [place |-> "waiting", nr |-> i, chain |-> Chain(Waiting[i])]
      \/ \E h \in DOMAIN taken : p = [place |-> "taken", nr |-> h, chain |-> Chain(h)]
      \/ \E i \in DOMAIN Done : p = [place |-> "done", nr |-> i, chain |-> Chain(Done[i])]
  BY DEF Holders
<1>2. \A a, b, c : [place |-> a, nr |-> b, chain |-> c].chain = c
  OBVIOUS
<1>3. CASE p = [place |-> "free", nr |-> 0, chain |-> FreeChain]
  BY <1>2, <1>3
<1>4. CASE p = [place |-> "call", nr |-> 0, chain |-> Own]
  BY <1>2, <1>4
<1>5. ASSUME NEW i \in DOMAIN Waiting,
             p = [place |-> "waiting", nr |-> i, chain |-> Chain(Waiting[i])]
      PROVE  s \in Range(Chain(Waiting[i]))
  BY <1>2, <1>5
<1>6. ASSUME NEW h \in DOMAIN taken, p = [place |-> "taken", nr |-> h, chain |-> Chain(h)]
      PROVE  s \in Range(Chain(h))
  BY <1>2, <1>6
<1>7. ASSUME NEW i \in DOMAIN Done, p = [place |-> "done", nr |-> i, chain |-> Chain(Done[i])]
      PROVE  s \in Range(Chain(Done[i]))
  BY <1>2, <1>7
<1> QED BY <1>1, <1>3, <1>4, <1>5, <1>6, <1>7

(* q is the holder of the request at head h.                                *)
Carries(q, h) ==
    \/ \E j \in DOMAIN Waiting :
         q = [place |-> "waiting", nr |-> j, chain |-> Chain(Waiting[j])] /\ Waiting[j] = h
    \/ q = [place |-> "taken", nr |-> h, chain |-> Chain(h)] /\ h \in DOMAIN taken
    \/ \E j \in DOMAIN Done :
         q = [place |-> "done", nr |-> j, chain |-> Chain(Done[j])] /\ Done[j] = h

LEMMA OnePlace ==
  ASSUME VirtqInv, NEW s \in Slots
  PROVE  \E p \in Holders : /\ s \in Range(p.chain) /\ Distinct(p.chain)
                            /\ \A q \in Holders : s \in Range(q.chain) => q = p
<1> USE Zenon
<1>1. /\ Distinct(FreeChain) /\ Distinct(Own)
      /\ s \in Range(FreeChain) => s \notin Range(Own)
      /\ \A h \in InFlight : s \in Range(Chain(h)) =>
           /\ s \notin Range(FreeChain) /\ s \notin Range(Own)
           /\ \A g \in InFlight : s \in Range(Chain(g)) => g = h
      /\ \/ s \in Range(FreeChain) \/ s \in Range(Own)
         \/ \E h \in InFlight : s \in Range(Chain(h))
  BY DEF VirtqInv, ChainsInv, Parted, Chains
<1>2. \A h \in InFlight : Distinct(Chain(h))
  BY DEF VirtqInv, ChainsInv, IsChain
<1>3. /\ \A i \in DOMAIN Waiting : Waiting[i] \in InFlight
      /\ \A i \in DOMAIN Done : Done[i] \in InFlight
      /\ \A h \in DOMAIN taken : h \in InFlight
      /\ \A i \in DOMAIN Waiting : Waiting[i] \in Range(Waiting)
      /\ \A i \in DOMAIN Done : Done[i] \in Range(Done)
  BY DEF InFlight, Range
<1>4. HeadsApart(Waiting, DOMAIN taken, Done)
  BY DEF VirtqInv, DeviceInv
<1>5. /\ \A i, j \in DOMAIN Waiting : Waiting[i] = Waiting[j] => i = j
      /\ \A i, j \in DOMAIN Done : Done[i] = Done[j] => i = j
      /\ \A i \in DOMAIN Waiting : Waiting[i] \notin DOMAIN taken /\ Waiting[i] \notin Range(Done)
      /\ \A h \in DOMAIN taken : h \notin Range(Done)
  BY <1>3, <1>4 DEF HeadsApart, Distinct
<1>6. CASE s \in Range(FreeChain)
  <2> DEFINE p == [place |-> "free", nr |-> 0, chain |-> FreeChain]
  <2>1. p \in Holders /\ p.chain = FreeChain
    BY DEF Holders
  <2>2. ASSUME NEW q \in Holders, s \in Range(q.chain) PROVE q = p
    BY <1>1, <1>3, <1>6, <2>2, HolderCases
  <2> QED BY <1>1, <1>6, <2>1, <2>2
<1>7. CASE s \in Range(Own)
  <2> DEFINE p == [place |-> "call", nr |-> 0, chain |-> Own]
  <2>1. p \in Holders /\ p.chain = Own
    BY DEF Holders
  <2>2. ASSUME NEW q \in Holders, s \in Range(q.chain) PROVE q = p
    BY <1>1, <1>3, <1>7, <2>2, HolderCases
  <2> QED BY <1>1, <1>7, <2>1, <2>2
<1>8. ASSUME NEW h \in InFlight, s \in Range(Chain(h))
      PROVE  \E p \in Holders : /\ s \in Range(p.chain) /\ Distinct(p.chain)
                                /\ \A q \in Holders : s \in Range(q.chain) => q = p
  <2>4. ASSUME NEW q \in Holders, s \in Range(q.chain)
        PROVE  Carries(q, h)
    <3>1. /\ s \notin Range(FreeChain) /\ s \notin Range(Own)
          /\ \A g \in InFlight : s \in Range(Chain(g)) => g = h
      BY <1>1, <1>8
    <3> QED BY <1>3, <2>4, <3>1, HolderCases DEF Carries
  <2>1. CASE h \in Range(Waiting)
    <3>1. PICK i \in DOMAIN Waiting : Waiting[i] = h
      BY <2>1 DEF Range
    <3> DEFINE p == [place |-> "waiting", nr |-> i, chain |-> Chain(Waiting[i])]
    <3>2. p \in Holders /\ p.chain = Chain(h)
      BY <3>1 DEF Holders
    <3>3. ASSUME NEW q \in Holders, s \in Range(q.chain) PROVE q = p
      <4>1. Carries(q, h)
        BY <2>4, <3>3
      <4> QED BY <1>3, <1>5, <2>1, <3>1, <4>1 DEF Carries
    <3> QED BY <1>2, <1>8, <3>2, <3>3
  <2>2. CASE h \in DOMAIN taken
    <3> DEFINE p == [place |-> "taken", nr |-> h, chain |-> Chain(h)]
    <3>1. p \in Holders /\ p.chain = Chain(h)
      BY <2>2 DEF Holders
    <3>2. ASSUME NEW q \in Holders, s \in Range(q.chain) PROVE q = p
      <4>1. Carries(q, h)
        BY <2>4, <3>2
      <4> QED BY <1>3, <1>5, <2>2, <4>1 DEF Carries
    <3> QED BY <1>2, <1>8, <3>1, <3>2
  <2>3. CASE h \in Range(Done)
    <3>1. PICK i \in DOMAIN Done : Done[i] = h
      BY <2>3 DEF Range
    <3> DEFINE p == [place |-> "done", nr |-> i, chain |-> Chain(Done[i])]
    <3>2. p \in Holders /\ p.chain = Chain(h)
      BY <3>1 DEF Holders
    <3>3. ASSUME NEW q \in Holders, s \in Range(q.chain) PROVE q = p
      <4>1. Carries(q, h)
        BY <2>4, <3>3
      <4> QED BY <1>3, <1>5, <2>3, <3>1, <4>1 DEF Carries
    <3> QED BY <1>2, <1>8, <3>2, <3>3
  <2> QED BY <2>1, <2>2, <2>3 DEF InFlight
<1> QED BY <1>1, <1>6, <1>7, <1>8

LEMMA EachInOnePlace == VirtqInv => DescriptorsPartitioned
<1> USE Zenon
<1> SUFFICES ASSUME VirtqInv, NEW s \in Slots PROVE Cardinality(Uses(s)) = 1
  BY DEF DescriptorsPartitioned
<1>1. PICK p \in Holders : /\ s \in Range(p.chain) /\ Distinct(p.chain)
                           /\ \A q \in Holders : s \in Range(q.chain) => q = p
  BY OnePlace
<1>2. PICK k \in DOMAIN p.chain : p.chain[k] = s
  BY <1>1 DEF Range
<1>3. \A j \in DOMAIN p.chain : p.chain[j] = s => j = k
  BY <1>1, <1>2 DEF Distinct
<1>4. \A q \in Holders : \A j \in DOMAIN q.chain : q.chain[j] = s => q = p
  BY <1>1 DEF Range
<1>5. Uses(s) = {<<p, k>>}
  BY <1>2, <1>3, <1>4, SMT DEF Uses
<1> QED BY <1>5, FS_Singleton

(* No descriptor is lost, freed twice or shared by two requests, for any    *)
(* size of queue and any order of completions: at every access of           *)
(* push_chain and pop_used each descriptor is in exactly one place, the     *)
(* free chain, the call in progress or the chain of one request on its way. *)
THEOREM EveryDescriptorOnce == VirtqSpec => []DescriptorsPartitioned
BY VirtqInvariant, EachInOnePlace, PTL

-----------------------------------------------------------------------------
(* The queue implements the exchange.  The requests in a ring are those of  *)
(* the heads in it.                                                         *)
Mapped(f, q) == [i \in DOMAIN q |-> f[q[i]]]

LEMMA MapAppend ==
  ASSUME NEW S, NEW f, NEW q \in Seq(S), NEW e \in S
  PROVE  Mapped(f, Append(q, e)) = Append(Mapped(f, q), f[e])
<1> DEFINE T == {f[x] : x \in S}
           m == Mapped(f, q)
           r == Append(q, e)
<1>1. Len(q) \in Nat /\ DOMAIN q = 1 .. Len(q) /\ \A i \in 1 .. Len(q) : q[i] \in S
  OBVIOUS
<1>2. m \in Seq(T) /\ DOMAIN m = 1 .. Len(q) /\ Len(m) = Len(q)
      /\ \A i \in 1 .. Len(q) : m[i] = f[q[i]]
  BY <1>1 DEF Mapped
<1>3. /\ DOMAIN r = 1 .. Len(q) + 1 /\ r[Len(q) + 1] = e
      /\ \A i \in 1 .. Len(q) : r[i] = q[i]
  BY <1>1
<1>4. f[e] \in T
  OBVIOUS
<1> HIDE DEF m, r, T
<1>5. /\ Append(m, f[e]) = [i \in 1 .. Len(q) + 1 |-> Append(m, f[e])[i]]
      /\ Append(m, f[e])[Len(q) + 1] = f[e]
      /\ \A i \in 1 .. Len(q) : Append(m, f[e])[i] = m[i]
  BY <1>2, <1>4
<1>6. \A i \in 1 .. Len(q) + 1 : i = Len(q) + 1 \/ i \in 1 .. Len(q)
  BY <1>1
<1>7. \A i \in 1 .. Len(q) + 1 : Append(m, f[e])[i] = f[r[i]]
  BY <1>2, <1>3, <1>5, <1>6, Zenon
<1>8. Mapped(f, r) = [i \in 1 .. Len(q) + 1 |-> f[r[i]]]
  BY <1>3, Zenon DEF Mapped
<1> QED BY <1>5, <1>7, <1>8, Zenon DEF m, r

LEMMA MapTail ==
  ASSUME NEW S, NEW f, NEW q \in Seq(S), q # <<>>
  PROVE  /\ Mapped(f, Tail(q)) = Tail(Mapped(f, q)) /\ Mapped(f, q) # <<>>
         /\ Head(Mapped(f, q)) = f[q[1]]
<1> DEFINE T == {f[x] : x \in S}
           m == Mapped(f, q)
           r == Tail(q)
           n == Len(q) - 1
<1>1. /\ Len(q) \in Nat /\ DOMAIN q = 1 .. Len(q) /\ \A i \in 1 .. Len(q) : q[i] \in S
      /\ Len(q) >= 1 /\ 1 \in 1 .. Len(q) /\ n \in Nat
      /\ DOMAIN r = 1 .. n /\ \A i \in 1 .. n : r[i] = q[i + 1] /\ i + 1 \in 1 .. Len(q)
  OBVIOUS
<1>2. m \in Seq(T) /\ DOMAIN m = 1 .. Len(q) /\ Len(m) = Len(q)
      /\ \A i \in 1 .. Len(q) : m[i] = f[q[i]]
  BY <1>1 DEF Mapped
<1> HIDE DEF m, r, T
<1>3. m # <<>> /\ Head(m) = m[1]
  <2>1. m # <<>>
    <3> HIDE DEF n
    <3> QED BY <1>1, <1>2
  <2> QED BY <1>2, <2>1
<1>4. Tail(m) = [i \in 1 .. n |-> Tail(m)[i]] /\ \A i \in 1 .. n : Tail(m)[i] = m[i + 1]
  <2>1. /\ Tail(m) \in Seq(T) /\ Len(Tail(m)) = Len(q) - 1
        /\ \A i \in 1 .. Len(q) - 1 : Tail(m)[i] = m[i + 1]
    <3>1. /\ Tail(m) \in Seq(T) /\ Len(Tail(m)) = Len(m) - 1
          /\ \A i \in 1 .. Len(m) - 1 : Tail(m)[i] = m[i + 1]
      <4>1. m \in Seq(T) /\ m # <<>>
        BY <1>2, <1>3
      <4> QED BY <4>1
    <3> QED BY <1>2, <3>1, Zenon
  <2>2. ASSUME NEW t \in Seq(T) PROVE t = [i \in 1 .. Len(t) |-> t[i]]
    OBVIOUS
  <2> QED BY <2>1, <2>2, Zenon
<1> HIDE DEF n
<1>5. \A i \in 1 .. n : Tail(m)[i] = f[r[i]]
  BY <1>1, <1>2, <1>4, Zenon
<1>6. Mapped(f, r) = [i \in 1 .. n |-> f[r[i]]]
  BY <1>1, Zenon DEF Mapped
<1>7. Mapped(f, r) = Tail(m)
  BY <1>4, <1>5, <1>6, Zenon
<1> QED BY <1>1, <1>2, <1>3, <1>7, Zenon DEF m, r

(* The refinement mapping.                                                  *)
XWaiting == [i \in DOMAIN Waiting |-> Request(Waiting[i])]
XHeld == {taken[h] : h \in DOMAIN taken}
XDone == [i \in DOMAIN Done |-> Request(Done[i])]
Requested == [h \in Slots |-> Request(h)]

LEMMA MappingIs ==
  ASSUME VirtqInv
  PROVE  /\ XWaiting = Mapped(Requested, Waiting) /\ XDone = Mapped(Requested, Done)
         /\ XHeld = {Requested[h] : h \in DOMAIN taken}
<1> USE Zenon
<1>1. /\ \A i \in DOMAIN Waiting : Waiting[i] \in Slots
      /\ \A i \in DOMAIN Done : Done[i] \in Slots
      /\ \A h \in DOMAIN taken : h \in Slots /\ taken[h] = Request(h)
  <2>1. Waiting \in Seq(Slots) /\ Done \in Seq(Slots)
    BY InFlightFacts DEF VirtqInv
  <2>2. /\ \A i \in DOMAIN Waiting : Waiting[i] \in Slots
        /\ \A i \in DOMAIN Done : Done[i] \in Slots
    BY <2>1, SMT
  <2> QED BY <2>2 DEF VirtqInv, VirtqTypes, DeviceInv
<1>2. \A h \in Slots : Requested[h] = Request(h)
  BY DEF Requested
<1>3. XWaiting = Mapped(Requested, Waiting)
  BY <1>1, <1>2 DEF XWaiting, Mapped
<1>4. XDone = Mapped(Requested, Done)
  BY <1>1, <1>2 DEF XDone, Mapped
<1>5. XHeld = {Requested[h] : h \in DOMAIN taken}
  BY <1>1, <1>2 DEF XHeld
<1> QED BY <1>3, <1>4, <1>5

LEMMA MappingStill ==
  ASSUME Still
  PROVE  XWaiting' = XWaiting /\ XHeld' = XHeld /\ XDone' = XDone
<1> USE Zenon
<1>1. /\ \A i \in DOMAIN Waiting : Waiting[i] \in InFlight
      /\ \A i \in DOMAIN Done : Done[i] \in InFlight
  BY DEF InFlight, Range
<1>2. XWaiting' = XWaiting
  BY <1>1 DEF Still, XWaiting
<1>3. XDone' = XDone
  BY <1>1 DEF Still, XDone
<1>4. XHeld' = XHeld
  BY DEF Still, XHeld
<1> QED BY <1>2, <1>3, <1>4

LEMMA MappingTo ==
  ASSUME VirtqInv, VirtqTypes', DeviceInv', \A h : Request(h)' = Request(h),
         Waiting' \in Seq(Slots), Done' \in Seq(Slots)
  PROVE  /\ XWaiting' = Mapped(Requested, Waiting') /\ XDone' = Mapped(Requested, Done')
         /\ XHeld' = {Requested[h] : h \in DOMAIN taken'}
<1> USE Zenon
<1>1. /\ \A i \in DOMAIN Waiting' : Waiting'[i] \in Slots
      /\ \A i \in DOMAIN Done' : Done'[i] \in Slots
  BY SMT
<1>2. \A h \in DOMAIN taken' : h \in Slots /\ taken'[h] = Request(h)
  BY DEF VirtqTypes, DeviceInv
<1>3. \A h \in Slots : Requested[h] = Request(h)
  BY DEF Requested
<1>4. XWaiting' = Mapped(Requested, Waiting')
  BY <1>1, <1>3 DEF XWaiting, Mapped
<1>5. XDone' = Mapped(Requested, Done')
  BY <1>1, <1>3 DEF XDone, Mapped
<1>6. XHeld' = {Requested[h] : h \in DOMAIN taken'}
  BY <1>2, <1>3 DEF XHeld
<1> QED BY <1>4, <1>5, <1>6

LEMMA OutstandingIs ==
  ASSUME VirtqInv
  PROVE  Exchange!Outstanding = Lent
<1> USE Zenon
<1>1. Exchange!Outstanding = UNION {Range(r) : r \in Range(XWaiting) \cup XHeld \cup Range(XDone)}
  BY DEF Exchange!Outstanding, Exchange!Range, Range, XWaiting, XHeld, XDone
<1>2. Range(XWaiting) = {Request(h) : h \in Range(Waiting)}
  BY DEF Range, XWaiting
<1>3. Range(XDone) = {Request(h) : h \in Range(Done)}
  BY DEF Range, XDone
<1>4. XHeld = {Request(h) : h \in DOMAIN taken}
  <2>1. \A h \in DOMAIN taken : taken[h] = Request(h)
    BY DEF VirtqInv, DeviceInv
  <2> QED BY <2>1 DEF XHeld
<1>5. Range(XWaiting) \cup XHeld \cup Range(XDone) = {Request(h) : h \in InFlight}
  BY <1>2, <1>3, <1>4 DEF InFlight
<1> QED BY <1>1, <1>5 DEF Lent

(* There is a descriptor for each buffer with the device.                   *)
LEMMA LentFits ==
  ASSUME VirtqInv, Pushing
  PROVE  Cardinality(Lent) + Len(parts) <= QueueSize
<1> USE Zenon
<1> DEFINE R == Range(indices)
           U == Slots \ R
           f == [s \in U |-> desc[s].addr]
           T == {desc[s].addr : s \in U}
           n == Len(parts)
<1>1. /\ QueueSize \in Nat \ {0} /\ n \in Nat /\ DOMAIN indices = 1 .. n
      /\ Own = indices /\ Distinct(indices) /\ indices \in Seq(Slots)
  BY PushedHead, SizeAssumption, SMT DEF VirtqInv, VirtqTypes
<1>2. IsFiniteSet(Slots) /\ Cardinality(Slots) = QueueSize
  <2>1. 0 \in Int /\ QueueSize - 1 \in Int
    BY <1>1, SMT
  <2>2. IsFiniteSet(Slots) /\ Cardinality(Slots) = IF 0 > QueueSize - 1 THEN 0 ELSE QueueSize - 1 - 0 + 1
    BY <2>1, FS_Interval DEF Slots
  <2> QED BY <1>1, <2>2, SMT
<1>3. IsFiniteSet(R) /\ Cardinality(R) = n /\ R \subseteq Slots
  <2>1. R \subseteq Slots
    BY <1>1, SMT DEF Range
  <2>2. IsFiniteSet(1 .. n) /\ Cardinality(1 .. n) = n
    <3>1. IsFiniteSet(1 .. n) /\ Cardinality(1 .. n) = IF 1 > n THEN 0 ELSE n - 1 + 1
      BY <1>1, FS_Interval, SMT
    <3> QED BY <1>1, <3>1, SMT
  <2>3. indices \in [1 .. n -> R]
    BY <1>1, SMT DEF Range
  <2>4. indices \in Bijection(1 .. n, R)
    BY <1>1, <2>3 DEF Bijection, Injection, Surjection, IsInjective, Distinct, Range
  <2>5. ExistsBijection(1 .. n, R)
    BY <2>4 DEF ExistsBijection
  <2> HIDE DEF R, n
  <2> QED BY <2>1, <2>2, <2>5, FS_Bijection
<1>4. IsFiniteSet(U) /\ Cardinality(U) = QueueSize - n
  <2>1. Slots \cap R = R
    BY <1>3
  <2> HIDE DEF R, n
  <2>2. IsFiniteSet(Slots \ R) /\ Cardinality(Slots \ R) = Cardinality(Slots) - Cardinality(Slots \cap R)
    BY <1>2, FS_Difference
  <2> QED BY <1>2, <1>3, <2>1, <2>2
<1>5. IsFiniteSet(T) /\ Cardinality(T) <= Cardinality(U)
  <2>1. f \in Surjection(U, T)
    BY DEF Surjection
  <2> HIDE DEF U, T, f
  <2> QED BY <1>4, <2>1, FS_Surjection
<1>6. Lent \in SUBSET T
  <2>1. ASSUME NEW h \in InFlight, NEW x \in Range(Request(h)) PROVE x \in T
    <3>1. PICK i \in DOMAIN Chain(h) : x = desc[Chain(h)[i]].addr
      BY <2>1 DEF Request, Range
    <3> DEFINE s == Chain(h)[i]
    <3>2. s \in Range(Chain(h)) /\ s \in Slots
      <4>1. Range(Chain(h)) \subseteq Slots
        BY ChainHas DEF VirtqInv, ChainsInv
      <4> QED BY <4>1 DEF Range
    <3>3. s \notin Range(Own)
      BY <3>2 DEF VirtqInv, ChainsInv, Parted, Chains
    <3> QED BY <1>1, <3>1, <3>2, <3>3
  <2> QED BY <2>1 DEF Lent
<1> HIDE DEF T, U, n
<1>7. Cardinality(Lent) <= Cardinality(T) /\ IsFiniteSet(Lent)
  BY <1>5, <1>6, FS_Subset
<1>8. Cardinality(Lent) \in Nat /\ Cardinality(T) \in Nat /\ Cardinality(U) \in Nat
  BY <1>4, <1>5, <1>7, FS_CardinalityType
<1>9. Cardinality(Lent) + n <= QueueSize
  BY <1>1, <1>4, <1>5, <1>7, <1>8, SMT
<1> QED BY <1>9 DEF n

LEMMA SubmitStep ==
  ASSUME VirtqInv, StoreIdx
  PROVE  \E r \in Parts : Exchange!Submit(r)
<1> USE Zenon
<1> DEFINE h == indices[1]
<1>1. /\ vpc = "publish" /\ UNCHANGED <<parts, taken>>
  BY DEF StoreIdx, deviceVars, queueVars
<1>2. Pushing
  BY <1>1 DEF Pushing
<1>3. /\ VirtqInv' /\ Waiting' = Append(Waiting, h) /\ Done' = Done
      /\ \A g : Request(g)' = Request(g)
  BY StoreIdxStep
<1>4. Waiting \in Seq(Slots) /\ Done \in Seq(Slots) /\ h \in Slots
  BY <1>2, InFlightFacts, PushedHead DEF VirtqInv
<1>5. Waiting' \in Seq(Slots) /\ Done' \in Seq(Slots)
  BY <1>3, <1>4, SMT
<1>6. /\ XWaiting' = Mapped(Requested, Waiting') /\ XDone' = Mapped(Requested, Done')
      /\ XHeld' = {Requested[g] : g \in DOMAIN taken'}
  BY <1>3, <1>5, MappingTo DEF VirtqInv
<1>7. /\ XWaiting = Mapped(Requested, Waiting) /\ XDone = Mapped(Requested, Done)
      /\ XHeld = {Requested[g] : g \in DOMAIN taken}
  BY MappingIs
<1>8. Requested[h] = parts
  <2>1. Request(h) = parts
    BY <1>1, PushedChain
  <2> QED BY <1>4, <2>1 DEF Requested
<1>9. XWaiting' = Append(XWaiting, parts)
  <2> HIDE DEF h
  <2>1. Mapped(Requested, Append(Waiting, h)) = Append(Mapped(Requested, Waiting), Requested[h])
    BY <1>4, MapAppend
  <2> QED BY <1>3, <1>6, <1>7, <1>8, <2>1
<1>10. XDone' = XDone /\ XHeld' = XHeld
  BY <1>1, <1>3, <1>6, <1>7
<1>11. /\ parts \in Parts /\ Range(parts) \cap Lent = {} /\ Cardinality(Lent) + Len(parts) <= QueueSize
  BY <1>2, LentFits DEF VirtqInv, CallInv, Lent
<1>12. /\ Range(parts) \cap Exchange!Outstanding = {}
       /\ Cardinality(Exchange!Outstanding) + Len(parts) <= QueueSize
  BY <1>11, OutstandingIs
<1>13. Exchange!Submit(parts)
  <2>1. Exchange!Cardinality(Exchange!Outstanding) = Cardinality(Exchange!Outstanding)
    BY DEF Exchange!Cardinality, Cardinality
  <2> QED
    BY <1>9, <1>10, <1>12, <2>1
    DEF Exchange!Submit, Exchange!Range, Range, XWaiting, XHeld, XDone
<1> QED BY <1>11, <1>13

LEMMA TakeStep ==
  ASSUME VirtqInv, ReadDescriptor, ~ desc[walk.at].more
  PROVE  Exchange!Take
<1> USE Zenon
<1> DEFINE h == Waiting[1]
<1>1. /\ VirtqInv' /\ Waiting # <<>> /\ Waiting' = Tail(Waiting) /\ Done' = Done
      /\ DOMAIN taken' = DOMAIN taken \cup {h} /\ \A g : Request(g)' = Request(g)
  BY ReadLastStep
<1>2. Waiting \in Seq(Slots) /\ Done \in Seq(Slots)
  BY InFlightFacts DEF VirtqInv
<1>3. Waiting' \in Seq(Slots) /\ Done' \in Seq(Slots)
  BY <1>1, <1>2, SMT
<1>4. /\ XWaiting' = Mapped(Requested, Waiting') /\ XDone' = Mapped(Requested, Done')
      /\ XHeld' = {Requested[g] : g \in DOMAIN taken'}
  BY <1>1, <1>3, MappingTo DEF VirtqInv
<1>5. /\ XWaiting = Mapped(Requested, Waiting) /\ XDone = Mapped(Requested, Done)
      /\ XHeld = {Requested[g] : g \in DOMAIN taken}
  BY MappingIs
<1>6. /\ Mapped(Requested, Tail(Waiting)) = Tail(Mapped(Requested, Waiting))
      /\ Mapped(Requested, Waiting) # <<>> /\ Head(Mapped(Requested, Waiting)) = Requested[h]
  BY <1>1, <1>2, MapTail
<1>7. XWaiting # <<>> /\ XWaiting' = Tail(XWaiting) /\ XDone' = XDone
  BY <1>1, <1>4, <1>5, <1>6
<1>8. XHeld' = XHeld \cup {Head(XWaiting)}
  <2>1. XHeld' = XHeld \cup {Requested[h]}
    BY <1>1, <1>4, <1>5
  <2> QED BY <1>5, <1>6, <2>1
<1> QED BY <1>7, <1>8 DEF Exchange!Take, XWaiting, XHeld, XDone

LEMMA FinishStep ==
  ASSUME VirtqInv, NEW h \in DOMAIN taken, Complete(h)
  PROVE  \E r \in XHeld : Exchange!Finish(r)
<1> USE Zenon
<1>1. /\ VirtqInv' /\ Waiting' = Waiting /\ Done' = Append(Done, h)
      /\ DOMAIN taken' = DOMAIN taken \ {h} /\ \A g : Request(g)' = Request(g)
  BY CompleteStep
<1>2. Waiting \in Seq(Slots) /\ Done \in Seq(Slots) /\ h \in Slots
  BY InFlightFacts DEF VirtqInv, VirtqTypes
<1>3. Waiting' \in Seq(Slots) /\ Done' \in Seq(Slots)
  BY <1>1, <1>2, SMT
<1>4. /\ XWaiting' = Mapped(Requested, Waiting') /\ XDone' = Mapped(Requested, Done')
      /\ XHeld' = {Requested[g] : g \in DOMAIN taken'}
  BY <1>1, <1>3, MappingTo DEF VirtqInv
<1>5. /\ XWaiting = Mapped(Requested, Waiting) /\ XDone = Mapped(Requested, Done)
      /\ XHeld = {Requested[g] : g \in DOMAIN taken}
  BY MappingIs
<1>6. PICK r \in XHeld : r = Requested[h]
  BY <1>5
<1>7. XWaiting' = XWaiting /\ XDone' = Append(XDone, r)
  <2>1. Mapped(Requested, Append(Done, h)) = Append(Mapped(Requested, Done), Requested[h])
    BY <1>2, MapAppend
  <2> QED BY <1>1, <1>4, <1>5, <1>6, <2>1
<1>8. ASSUME NEW g \in DOMAIN taken, g # h PROVE Requested[g] # r
  <2>1. g \in Slots /\ g \in InFlight /\ h \in InFlight
    BY DEF VirtqInv, VirtqTypes, InFlight
  <2>2. Requested[g] = Request(g) /\ r = Request(h)
    BY <1>2, <1>6, <2>1 DEF Requested
  <2>3. Range(Request(h)) # {}
    <3>1. h \in Range(Chain(h))
      BY <2>1, ChainHas DEF VirtqInv, ChainsInv
    <3>2. PICK i \in DOMAIN Chain(h) : TRUE
      BY <3>1 DEF Range
    <3> QED BY <3>2 DEF Request, Range
  <2>4. \A x \in Range(Request(h)) : x \notin Range(Request(g))
    BY <1>8, <2>1 DEF VirtqInv, DeviceInv
  <2> QED BY <2>2, <2>3, <2>4
<1>9. XHeld' = XHeld \ {r}
  BY <1>1, <1>4, <1>5, <1>6, <1>8
<1>10. Exchange!Finish(r)
  BY <1>6, <1>7, <1>9 DEF Exchange!Finish, XWaiting, XHeld, XDone
<1> QED BY <1>10

LEMMA ReapStep ==
  ASSUME VirtqInv, ReadElement
  PROVE  Exchange!Reap
<1> USE Zenon
<1>1. /\ VirtqInv' /\ Done # <<>> /\ Done' = Tail(Done) /\ Waiting' = Waiting
      /\ taken' = taken /\ \A g : Request(g)' = Request(g)
  BY ReadElementStep DEF ReadElement, deviceVars
<1>2. Waiting \in Seq(Slots) /\ Done \in Seq(Slots)
  BY InFlightFacts DEF VirtqInv
<1>3. Waiting' \in Seq(Slots) /\ Done' \in Seq(Slots)
  BY <1>1, <1>2, SMT
<1>4. /\ XWaiting' = Mapped(Requested, Waiting') /\ XDone' = Mapped(Requested, Done')
      /\ XHeld' = {Requested[g] : g \in DOMAIN taken'}
  BY <1>1, <1>3, MappingTo DEF VirtqInv
<1>5. /\ XWaiting = Mapped(Requested, Waiting) /\ XDone = Mapped(Requested, Done)
      /\ XHeld = {Requested[g] : g \in DOMAIN taken}
  BY MappingIs
<1>6. /\ Mapped(Requested, Tail(Done)) = Tail(Mapped(Requested, Done))
      /\ Mapped(Requested, Done) # <<>>
  BY <1>1, <1>2, MapTail
<1>7. XDone # <<>> /\ XDone' = Tail(XDone) /\ XWaiting' = XWaiting /\ XHeld' = XHeld
  BY <1>1, <1>4, <1>5, <1>6
<1> QED BY <1>7 DEF Exchange!Reap, XWaiting, XHeld, XDone

LEMMA ExchangeInit == VirtqInit => Exchange!Init
<1> SUFFICES ASSUME VirtqInit PROVE Exchange!Init
  OBVIOUS
<1>1. VirtqInv
  BY VirtqInitInv
<1>2. Waiting = <<>> /\ Done = <<>>
  <2>1. avail \in Ring /\ used \in Ring /\ last_avail_idx \in Indices /\ last_used_idx \in Indices
    BY <1>1, Zenon DEF VirtqInv, VirtqTypes
  <2>2. avail.idx = last_avail_idx /\ used.idx = last_used_idx
    BY DEF VirtqInit
  <2> QED BY <2>1, <2>2, PendingPop, Zenon DEF Waiting, Done
<1>3. DOMAIN taken = {}
  BY DEF VirtqInit
<1>4. XWaiting = <<>> /\ XDone = <<>> /\ XHeld = {}
  <2>1. DOMAIN Waiting = {} /\ DOMAIN Done = {}
    BY <1>2
  <2>2. XWaiting = [i \in {} |-> 0] /\ XDone = [i \in {} |-> 0]
    BY <2>1, Zenon DEF XWaiting, XDone
  <2>3. [i \in {} |-> 0] = <<>>
    OBVIOUS
  <2> QED BY <1>3, <2>2, <2>3, Zenon DEF XHeld
<1> QED BY <1>4, Zenon DEF Exchange!Init, XWaiting, XHeld, XDone

LEMMA ExchangeStutters ==
  ASSUME Still
  PROVE  UNCHANGED Exchange!exchangeVars
BY MappingStill, Zenon DEF Exchange!exchangeVars, XWaiting, XHeld, XDone

LEMMA ExchangeStep ==
  VirtqInv /\ [VirtqNext]_virtqVars => [Exchange!Next]_Exchange!exchangeVars
<1> USE Zenon
<1> SUFFICES ASSUME VirtqInv, [VirtqNext]_virtqVars
             PROVE  Exchange!Next \/ UNCHANGED Exchange!exchangeVars
  OBVIOUS
<1>1. CASE Push
  BY <1>1, PushStep, ExchangeStutters
<1>2. CASE PopUsed \/ Notify
  BY <1>2, IdleStep, ExchangeStutters
<1>3. CASE Fill
  BY <1>3, FillStep, ExchangeStutters
<1>4. CASE StoreRing
  BY <1>4, StoreRingStep, ExchangeStutters
<1>5. CASE StoreIdx
  BY <1>5, SubmitStep DEF Exchange!Next
<1>6. CASE ReadElement
  BY <1>6, ReapStep DEF Exchange!Next
<1>7. CASE FreeDescriptor
  BY <1>7, FreeStep, ExchangeStutters
<1>8. CASE TakeHead
  BY <1>8, TakeHeadStep, ExchangeStutters
<1>9. CASE DeviceRests
  BY <1>9, DeviceRestsStep, ExchangeStutters
<1>10. CASE ReadDescriptor
  <2>1. CASE desc[walk.at].more
    BY <1>10, <2>1, ReadMoreStep, ExchangeStutters
  <2>2. CASE ~ desc[walk.at].more
    BY <1>10, <2>2, TakeStep DEF Exchange!Next
  <2> QED BY <2>1, <2>2
<1>11. CASE \E h \in DOMAIN taken : Complete(h)
  <2>1. \E r \in XHeld : Exchange!Finish(r)
    BY <1>11, FinishStep
  <2> QED BY <2>1 DEF Exchange!Next, XHeld
<1>12. CASE UNCHANGED virtqVars
  <2>1. UNCHANGED <<desc, avail, used, last_used_idx, last_avail_idx, taken>>
    BY <1>12 DEF virtqVars, queueVars, callVars, deviceVars
  <2>2. Waiting' = Waiting
    BY <2>1 DEF Waiting, Pending
  <2>3. Still
    BY <2>1, <2>2, RequestsStill DEF Still
  <2> QED BY <2>3, ExchangeStutters
<1> QED
  BY <1>1, <1>2, <1>3, <1>4, <1>5, <1>6, <1>7, <1>8, <1>9, <1>10, <1>11, <1>12
  DEF VirtqNext, VirtqCall, VirtqDevice

(* The descriptor table and the two rings implement the exchange for every  *)
(* size of queue: whatever the device reads while push_chain and pop_used   *)
(* write, it takes the pushed requests in order and with their own buffers, *)
(* and pop_used returns each one once, in the order of completion.          *)
THEOREM RingsAreExchange == VirtqSpec => QueueIsExchange
<1>1. VirtqInit => Exchange!Init
  BY ExchangeInit
<1>2. VirtqInv /\ [VirtqNext]_virtqVars => [Exchange!Next]_Exchange!exchangeVars
  BY ExchangeStep
<1> QED BY <1>1, <1>2, VirtqInvariant, PTL DEF VirtqSpec, QueueIsExchange, Exchange!Spec

-----------------------------------------------------------------------------
(* The struct virtqueue of the Linux drivers.                               *)
LEMMA ShimInitInv == ShimInit => ShimInv
<1> USE Zenon
<1> SUFFICES ASSUME ShimInit PROVE ShimInv
  BY SMT
<1>1. VirtqInit /\ tokens = [s \in Slots |-> NULL] /\ vq_num_free = QueueSize
  BY DEF ShimInit
<1>2. vpc = "idle" /\ num_free = QueueSize /\ DOMAIN taken = {} /\ QueueSize \in Nat
  BY <1>1, SizeAssumption, SMT DEF VirtqInit
<1>3. InFlight = {}
  <2>1. XWaiting = <<>> /\ XDone = <<>>
    BY <1>1, ExchangeInit DEF Exchange!Init, XWaiting, XDone
  <2>2. DOMAIN Waiting = DOMAIN XWaiting /\ DOMAIN Done = DOMAIN XDone
    BY DEF XWaiting, XDone
  <2>3. DOMAIN XWaiting = {} /\ DOMAIN XDone = {}
    BY <2>1, SMT
  <2> QED BY <1>2, <2>2, <2>3 DEF InFlight, Range
<1>4. Added = {}
  BY <1>2, <1>3 DEF Added
<1>5. /\ tokens \in [Slots -> Parts \cup {NULL}] /\ {s \in Slots : tokens[s] # NULL} = Added
  BY <1>1, <1>4
<1>6. vq_num_free <= num_free
  BY <1>1, <1>2, SMT
<1> QED BY <1>1, <1>2, <1>4, <1>5, <1>6 DEF ShimInv, Pushing

LEMMA InFlightStill ==
  ASSUME Still
  PROVE  InFlight' = InFlight
BY Zenon DEF Still, InFlight

(* The tokens are right while the requests do not change.                   *)
LEMMA TokensStill ==
  ASSUME ShimInv, UNCHANGED shimVars, Added' = Added, Added \subseteq InFlight,
         \A h \in InFlight : Request(h)' = Request(h),
         vpc' \in {"idle", "element"} => vq_num_free <= num_free',
         Pushing' \/ vpc' = "notify" => vq_num_free <= num_free' + Len(parts'),
         vpc' = "free" => vq_num_free <= num_free' + 1
  PROVE  ShimInv'
<1> USE Zenon
<1>1. UNCHANGED <<tokens, vq_num_free>>
  BY DEF shimVars
<1>2. \A s \in Added' : tokens'[s] = Request(s)'
  BY <1>1 DEF ShimInv
<1> QED BY <1>1, <1>2 DEF ShimInv

LEMMA ShimDeviceStep ==
  ASSUME VirtqInv, ShimInv, VirtqDevice, UNCHANGED shimVars
  PROVE  ShimInv'
<1> USE Zenon
<1>1. UNCHANGED <<vpc, parts, indices, num_free>>
  BY DEF VirtqDevice, TakeHead, DeviceRests, ReadDescriptor, Complete, callVars, queueVars
<1>2. InFlight' = InFlight /\ \A h \in InFlight : Request(h)' = Request(h)
  <2>1. CASE TakeHead
    BY <2>1, TakeHeadStep, InFlightStill DEF Still
  <2>2. CASE DeviceRests
    BY <2>2, DeviceRestsStep, InFlightStill DEF Still
  <2>3. CASE ReadDescriptor
    <3>1. CASE desc[walk.at].more
      BY <2>3, <3>1, ReadMoreStep, InFlightStill DEF Still
    <3>2. CASE ~ desc[walk.at].more
      BY <2>3, <3>2, ReadLastStep
    <3> QED BY <3>1, <3>2
  <2>4. CASE \E h \in DOMAIN taken : Complete(h)
    BY <2>4, CompleteStep
  <2> QED BY <2>1, <2>2, <2>3, <2>4 DEF VirtqDevice
<1>3. Added' = Added /\ Added \subseteq InFlight
  BY <1>1, <1>2 DEF Added
<1>4. /\ vpc' \in {"idle", "element"} => vq_num_free <= num_free'
      /\ Pushing' \/ vpc' = "notify" => vq_num_free <= num_free' + Len(parts')
      /\ vpc' = "free" => vq_num_free <= num_free' + 1
  BY <1>1 DEF ShimInv, Pushing
<1> QED BY <1>2, <1>3, <1>4, TokensStill

(* push_chain before it publishes, and the start of pop_used.               *)
LEMMA ShimCallStep ==
  ASSUME VirtqInv, ShimInv, Push \/ PopUsed \/ Fill \/ StoreRing, UNCHANGED shimVars
  PROVE  ShimInv'
<1> USE Zenon
<1>1. InFlight' = InFlight /\ \A h \in InFlight : Request(h)' = Request(h)
  <2>1. Still
    BY PushStep, IdleStep, FillStep, StoreRingStep
  <2> QED BY <2>1, InFlightStill DEF Still
<1>2. /\ vq_num_free \in Nat /\ num_free \in Nat
  BY SizeAssumption, SMT DEF ShimInv, VirtqInv, VirtqTypes
<1>3. CASE Push
  <2>1. PICK p \in Pushable : PushChain(p)
    BY <1>3 DEF Push
  <2>2. PICK n \in 1 .. MaxChain : p \in [1 .. n -> Bufs]
    BY DEF Pushable, Parts
  <2>3. n \in Nat /\ Len(p) = n
    BY <2>2, SizeAssumption, SMT
  <2>4. /\ vpc = "idle" /\ vpc' = "fill" /\ num_free' = num_free - Len(p) /\ parts' = p
    BY <2>1 DEF PushChain, Collect
  <2>5. Added = InFlight /\ Added' = InFlight'
    BY <2>4 DEF Added
  <2>6. vq_num_free <= num_free' + Len(parts')
    <3>1. vq_num_free <= num_free
      BY <2>4 DEF ShimInv
    <3> QED BY <1>2, <2>3, <2>4, <3>1, SMT
  <2> QED BY <1>1, <2>4, <2>5, <2>6, TokensStill
<1>4. CASE PopUsed
  <2>1. vpc = "idle" /\ vpc' = "element" /\ UNCHANGED num_free
    BY <1>4 DEF PopUsed, queueVars
  <2>2. Added = InFlight /\ Added' = InFlight'
    BY <2>1 DEF Added
  <2>3. vq_num_free <= num_free'
    BY <2>1 DEF ShimInv
  <2> QED BY <1>1, <2>1, <2>2, <2>3, TokensStill DEF Pushing
<1>5. CASE Fill \/ StoreRing
  <2>1. /\ vpc \in {"fill", "ring"} /\ vpc' \in {"fill", "ring", "publish"}
        /\ UNCHANGED <<num_free, parts>>
    BY <1>5 DEF Fill, StoreRing, queueVars
  <2>2. Added = InFlight /\ Added' = InFlight'
    BY <2>1 DEF Added
  <2>3. vq_num_free <= num_free' + Len(parts')
    BY <2>1 DEF ShimInv, Pushing
  <2> QED BY <1>1, <2>1, <2>2, <2>3, TokensStill
<1> QED BY <1>3, <1>4, <1>5

LEMMA ShimPublishStep ==
  ASSUME VirtqInv, ShimInv, StoreIdx, UNCHANGED shimVars
  PROVE  ShimInv'
<1> USE Zenon
<1>1. /\ vpc = "publish" /\ vpc' = "notify" /\ UNCHANGED <<num_free, parts, indices>>
  BY DEF StoreIdx, queueVars
<1>2. Pushing
  BY <1>1 DEF Pushing
<1>3. /\ InFlight' = InFlight \cup {indices[1]} /\ \A h : Request(h)' = Request(h)
  BY StoreIdxStep
<1>4. indices[1] \notin InFlight
  BY <1>2, PushedHead
<1>5. Added = InFlight /\ Added' = InFlight' \ {indices[1]}
  BY <1>1 DEF Added
<1>6. Added' = Added
  BY <1>3, <1>4, <1>5
<1>7. vq_num_free <= num_free' + Len(parts')
  BY <1>1, <1>2 DEF ShimInv
<1> QED BY <1>1, <1>3, <1>5, <1>6, <1>7, TokensStill

LEMMA ShimFreeStep ==
  ASSUME VirtqInv, ShimInv, FreeDescriptor, UNCHANGED shimVars
  PROVE  ShimInv'
<1>1. /\ vpc = "free" /\ vpc' \in {"free", "idle"} /\ num_free' = num_free + 1
  BY Zenon DEF FreeDescriptor, Return
<1>2. InFlight' = InFlight /\ \A h \in InFlight : Request(h)' = Request(h)
  BY FreeStep, InFlightStill, Zenon DEF Still
<1>3. Added = InFlight /\ Added' = InFlight'
  BY <1>1, Zenon DEF Added
<1>4. /\ vq_num_free \in Nat /\ num_free \in Nat /\ vq_num_free <= num_free + 1
  BY <1>1, SizeAssumption DEF ShimInv, VirtqInv, VirtqTypes
<1>5. vq_num_free <= num_free' /\ vq_num_free <= num_free' + 1
  BY <1>1, <1>4
<1> QED BY <1>1, <1>2, <1>3, <1>5, TokensStill, Zenon DEF Pushing

LEMMA GetBufStep ==
  ASSUME VirtqInv, ShimInv, GetBuf
  PROVE  ShimInv'
<1> USE Zenon
<1> DEFINE h == cur'
<1>1. /\ vpc = "element" /\ vpc' = "free" /\ UNCHANGED num_free /\ ReadElement
      /\ tokens' = [tokens EXCEPT ![h] = NULL] /\ vq_num_free' = vq_num_free + 1
  BY DEF GetBuf, ReadElement
<1>2. /\ h \in InFlight /\ InFlight' = InFlight \ {h}
      /\ \A g : Request(g)' = Request(g)
  BY <1>1, ReadElementStep
<1>3. h \in Slots
  BY <1>2, InFlightFacts DEF VirtqInv
<1>4. Added = InFlight /\ Added' = InFlight'
  BY <1>1 DEF Added
<1>5. /\ tokens \in [Slots -> Parts \cup {NULL}] /\ {s \in Slots : tokens[s] # NULL} = Added
      /\ \A s \in Added : tokens[s] = Request(s)
  BY DEF ShimInv
<1> HIDE DEF h
<1>6. /\ tokens' \in [Slots -> Parts \cup {NULL}] /\ tokens'[h] = NULL
      /\ \A s \in Slots \ {h} : tokens'[s] = tokens[s]
  BY <1>1, <1>3, <1>5
<1>7. {s \in Slots : tokens'[s] # NULL} = Added'
  BY <1>2, <1>3, <1>4, <1>5, <1>6
<1>8. \A s \in Added' : tokens'[s] = Request(s)'
  <2>1. \A s \in Added' : s \in Slots \ {h} /\ s \in Added
    BY <1>2, <1>4, <1>5
  <2> QED BY <1>2, <1>5, <1>6, <2>1
<1>9. vq_num_free' \in Nat /\ vq_num_free' <= num_free' + 1
  <2>1. vq_num_free \in Nat /\ num_free \in Nat /\ vq_num_free <= num_free
    BY <1>1, SizeAssumption, SMT DEF ShimInv, VirtqInv, VirtqTypes
  <2> QED BY <1>1, <2>1, SMT
<1> QED BY <1>1, <1>6, <1>7, <1>8, <1>9 DEF ShimInv, Pushing

LEMMA VqAddStep ==
  ASSUME VirtqInv, ShimInv, VqAdd
  PROVE  ShimInv'
<1> USE Zenon
<1> DEFINE h == indices[1]
           n == Len(parts)
<1>1. /\ vpc = "notify" /\ vpc' = "idle" /\ UNCHANGED num_free /\ Notify
      /\ tokens' = [tokens EXCEPT ![h] = parts]
      /\ vq_num_free' = IF n <= vq_num_free THEN vq_num_free - n ELSE 0
  BY DEF VqAdd, VqAddWith, Notify, Return, queueVars
<1>2. InFlight' = InFlight /\ \A g \in InFlight : Request(g)' = Request(g)
  BY <1>1, IdleStep, InFlightStill DEF Still
<1>3. parts \in Parts /\ h \in InFlight /\ Request(h) = parts
  BY <1>1 DEF VirtqInv, CallInv
<1>4. h \in Slots /\ parts # NULL
  BY <1>3, InFlightFacts, NullAssumption DEF VirtqInv
<1>5. Added = InFlight \ {h} /\ Added' = InFlight
  BY <1>1, <1>2 DEF Added
<1>6. /\ tokens \in [Slots -> Parts \cup {NULL}] /\ {s \in Slots : tokens[s] # NULL} = Added
      /\ \A s \in Added : tokens[s] = Request(s)
  BY DEF ShimInv
<1> HIDE DEF h
<1>7. /\ tokens' \in [Slots -> Parts \cup {NULL}] /\ tokens'[h] = parts
      /\ \A s \in Slots \ {h} : tokens'[s] = tokens[s]
  BY <1>1, <1>3, <1>4, <1>6
<1>8. {s \in Slots : tokens'[s] # NULL} = Added'
  BY <1>3, <1>4, <1>5, <1>6, <1>7
<1>9. \A s \in Added' : tokens'[s] = Request(s)'
  <2>1. \A s \in Added' : s = h \/ (s \in Slots \ {h} /\ s \in Added)
    BY <1>5, <1>6
  <2> QED BY <1>2, <1>3, <1>5, <1>6, <1>7, <2>1
<1>10. vq_num_free' \in Nat /\ vq_num_free' <= num_free'
  <2>1. PICK k \in 1 .. MaxChain : parts \in [1 .. k -> Bufs]
    BY <1>3 DEF Parts
  <2>2. n \in Nat
    BY <2>1, SizeAssumption, SMT
  <2>3. vq_num_free \in Nat /\ num_free \in Nat
    BY SizeAssumption, SMT DEF ShimInv, VirtqInv, VirtqTypes
  <2>4. vq_num_free <= num_free + n
    BY <1>1 DEF ShimInv
  <2> HIDE DEF n
  <2> QED BY <1>1, <2>2, <2>3, <2>4, SMT
<1> QED BY <1>1, <1>7, <1>8, <1>9, <1>10 DEF ShimInv, Pushing

LEMMA ShimIsVirtq ==
  [ShimNext]_<<virtqVars, shimVars>> => [VirtqNext]_virtqVars
BY Zenon DEF ShimNext, ShimDriver, VqAdd, VqAddWith, GetBuf, VirtqNext, VirtqCall

LEMMA ShimStep ==
  VirtqInv /\ ShimInv /\ [ShimNext]_<<virtqVars, shimVars>> => ShimInv'
<1> USE Zenon
<1> SUFFICES ASSUME VirtqInv, ShimInv, [ShimNext]_<<virtqVars, shimVars>> PROVE ShimInv'
  OBVIOUS
<1>1. CASE VqAdd
  BY <1>1, VqAddStep
<1>2. CASE GetBuf
  BY <1>2, GetBufStep
<1>3. CASE (Push \/ PopUsed \/ Fill \/ StoreRing) /\ UNCHANGED shimVars
  BY <1>3, ShimCallStep
<1>4. CASE StoreIdx /\ UNCHANGED shimVars
  BY <1>4, ShimPublishStep
<1>5. CASE FreeDescriptor /\ UNCHANGED shimVars
  BY <1>5, ShimFreeStep
<1>6. CASE VirtqDevice /\ UNCHANGED shimVars
  BY <1>6, ShimDeviceStep
<1>7. CASE UNCHANGED <<virtqVars, shimVars>>
  <2>1. UNCHANGED <<desc, avail, used, num_free, last_used_idx, vpc, parts, indices,
                    last_avail_idx, taken, shimVars>>
    BY <1>7 DEF virtqVars, queueVars, callVars, deviceVars
  <2>2. Waiting' = Waiting
    BY <2>1 DEF Waiting, Pending
  <2>3. InFlight' = InFlight /\ \A h : Request(h)' = Request(h)
    BY <2>1, <2>2, RequestsStill
  <2>4. Added' = Added /\ Added \subseteq InFlight
    BY <2>1, <2>3 DEF Added
  <2>5. /\ vpc' \in {"idle", "element"} => vq_num_free <= num_free'
        /\ Pushing' \/ vpc' = "notify" => vq_num_free <= num_free' + Len(parts')
        /\ vpc' = "free" => vq_num_free <= num_free' + 1
    BY <2>1 DEF ShimInv, Pushing
  <2> QED BY <2>1, <2>3, <2>4, <2>5, TokensStill
<1> QED BY <1>1, <1>2, <1>3, <1>4, <1>5, <1>6, <1>7 DEF ShimNext, ShimDriver

LEMMA ShimMatches == VirtqInv /\ ShimInv => ShimMatchesQueue
<1> USE Zenon
<1> SUFFICES ASSUME VirtqInv, ShimInv PROVE ShimMatchesQueue
  OBVIOUS
<1>1. Added \subseteq InFlight
  BY DEF Added
<1>2. ASSUME NEW s \in Added, NEW t \in Added, s # t
      PROVE  Range(tokens[s]) \cap Range(tokens[t]) = {}
  <2>1. \A x \in Range(Request(s)) : x \notin Range(Request(t))
    BY <1>1, <1>2 DEF VirtqInv, DeviceInv
  <2> QED BY <2>1 DEF ShimInv
<1>3. vpc = "notify" => Request(indices[1]) = parts
  BY DEF VirtqInv, CallInv
<1> QED BY <1>2, <1>3 DEF ShimMatchesQueue, ShimInv, Added

(* linuxkpi's struct virtqueue does nothing to the kernel's queue that      *)
(* push_chain and pop_used do not do, so what is proved of the queue holds  *)
(* for the Linux drivers.                                                   *)
THEOREM ShimImplementsQueue == ShimSpec => VirtqSpec
<1>1. ShimInit => VirtqInit
  BY Zenon DEF ShimInit
<1> QED BY <1>1, ShimIsVirtq, PTL DEF ShimSpec, VirtqSpec

(* vq_add and virtqueue_get_buf keep the tokens right: a request with the   *)
(* device has its own token at its head and no other descriptor has one,    *)
(* whatever the order of completion, and num_free of struct virtqueue never *)
(* promises more descriptors than are free.                                 *)
THEOREM TokensMatch == ShimSpec => []ShimMatchesQueue
<1>1. ShimInit => ShimInv
  BY ShimInitInv
<1>2. VirtqInv /\ ShimInv /\ [ShimNext]_<<virtqVars, shimVars>> => ShimInv'
  BY ShimStep
<1> QED BY <1>1, <1>2, ShimImplementsQueue, VirtqInvariant, ShimMatches, PTL DEF ShimSpec
=============================================================================
