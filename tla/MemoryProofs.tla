---------------------------- MODULE MemoryProofs ----------------------------
(***************************************************************************)
(* What Frames and Balloon do, for any memory map and any number of pages. *)
(***************************************************************************)
EXTENDS Boot, FiniteSetTheorems, TLAPS

(* The least of a set of numbers.                                           *)
LEMMA MinIs ==
  ASSUME NEW S, S \subseteq Nat, S # {}
  PROVE  Min(S) \in S /\ \A y \in S : Min(S) <= y
<1>1. PICK x \in S : \A y \in S : <<y, x>> \notin OpToRel(<, Nat)
  BY NatLessThanWellFounded, WFMin, Zenon
<1>2. ASSUME NEW y \in S PROVE x <= y
  <2>1. x \in Nat /\ y \in Nat
    BY Zenon
  <2>2. ~(y < x)
    BY <1>1, <2>1 DEF OpToRel
  <2> QED BY <2>1, <2>2
<1> QED BY <1>2, Zenon DEF Min

LEMMA MinUnique ==
  ASSUME NEW S, S \subseteq Nat, NEW x \in S, \A y \in S : x <= y
  PROVE  Min(S) = x
<1>1. Min(S) \in S /\ Min(S) <= x /\ x <= Min(S)
  BY MinIs, Zenon
<1>2. Min(S) \in Nat /\ x \in Nat
  BY <1>1, Zenon
<1> QED BY <1>1, <1>2

(* Induction up to a bound, on a set.                                       *)
LEMMA UpTo ==
  ASSUME NEW n \in Nat, NEW S, 0 \in S, \A k \in 0 .. n - 1 : k \in S => k + 1 \in S
  PROVE  \A k \in 0 .. n : k \in S
<1> DEFINE B == {k \in 0 .. n : k \notin S}
<1> SUFFICES ASSUME B # {} PROVE FALSE
  BY Zenon
<1>1. B \subseteq Nat
  BY SMT
<1> DEFINE m == Min(B)
<1>2. m \in B /\ \A y \in B : m <= y
  BY <1>1, MinIs, Zenon
<1> HIDE DEF m
<1>3. m \in 1 .. n
  BY <1>2
<1>4. m - 1 \notin B /\ m - 1 \in 0 .. n - 1
  BY <1>2, <1>3
<1>5. m - 1 \in S
  BY <1>4
<1>6. m - 1 + 1 = m
  BY <1>3
<1>7. m \in S
  BY <1>4, <1>5, <1>6
<1> QED BY <1>2, <1>7

(* A function defined by recursion up to a bound exists.                    *)
Recurs(g, n, x, F) == g = [k \in 0 .. n |-> IF k = 0 THEN x ELSE F[k][g[k - 1]]]
LEMMA Recursion ==
  ASSUME NEW n \in Nat, NEW V, NEW x \in V, NEW F \in [0 .. n -> [V -> V]]
  PROVE  \E g \in [0 .. n -> V] : Recurs(g, n, x, F)
<1> USE Zenon
<1> DEFINE S == {m \in 0 .. n : \E g \in [0 .. m -> V] :
                   g = [k \in 0 .. m |-> IF k = 0 THEN x ELSE F[k][g[k - 1]]]}
<1>1. 0 \in S
  <2> DEFINE g == [k \in 0 .. 0 |-> x]
  <2>1. g \in [0 .. 0 -> V]
    BY SMT
  <2>2. g = [k \in 0 .. 0 |-> IF k = 0 THEN x ELSE F[k][g[k - 1]]]
    BY SMT
  <2>3. 0 \in 0 .. n
    BY SMT
  <2> QED BY <2>1, <2>2, <2>3
<1>2. ASSUME NEW m \in 0 .. n - 1, m \in S PROVE m + 1 \in S
  <2>1. PICK g \in [0 .. m -> V] : g = [k \in 0 .. m |-> IF k = 0 THEN x ELSE F[k][g[k - 1]]]
    BY <1>2, SMT
  <2> DEFINE h == [k \in 0 .. m + 1 |-> IF k = m + 1 THEN F[m + 1][g[m]] ELSE g[k]]
  <2>2. m + 1 \in 0 .. n /\ m \in 0 .. m /\ g[m] \in V
    BY SMT
  <2>3. F[m + 1][g[m]] \in V
    BY <2>2, SMT
  <2>4. h \in [0 .. m + 1 -> V]
    BY <2>3, SMT
  <2>5. ASSUME NEW k \in 0 .. m + 1 PROVE h[k] = IF k = 0 THEN x ELSE F[k][h[k - 1]]
    <3>1. CASE k = m + 1
      <4>1. k # 0 /\ k - 1 = m /\ h[k - 1] = g[m] /\ h[k] = F[m + 1][g[m]]
        BY <3>1, SMT
      <4> QED BY <3>1, <4>1
    <3>2. CASE k \in 0 .. m /\ k # 0
      <4>1. h[k] = g[k] /\ k - 1 \in 0 .. m /\ h[k - 1] = g[k - 1] /\ g[k] = F[k][g[k - 1]]
        BY <2>1, <3>2, SMT
      <4> QED BY <3>2, <4>1
    <3>3. CASE k = 0
      <4>1. h[k] = g[k] /\ g[k] = x
        BY <2>1, <3>3, SMT
      <4> QED BY <3>3, <4>1
    <3> QED BY <3>1, <3>2, <3>3, SMT
  <2>6. h = [k \in 0 .. m + 1 |-> IF k = 0 THEN x ELSE F[k][h[k - 1]]]
    <3> DEFINE h2 == [k \in 0 .. m + 1 |-> IF k = 0 THEN x ELSE F[k][h[k - 1]]]
    <3> HIDE DEF h
    <3>1. \A k \in 0 .. m + 1 : h[k] = h2[k]
      BY <2>5
    <3>2. h = [k \in 0 .. m + 1 |-> h[k]]
      BY <2>4, SMT
    <3>3. h2 = [k \in 0 .. m + 1 |-> h2[k]]
      OBVIOUS
    <3> QED BY <3>1, <3>2, <3>3
  <2> HIDE DEF h
  <2> QED BY <2>2, <2>4, <2>6
<1>3. \A k \in 0 .. n : k \in S
  <2> HIDE DEF S
  <2> QED BY <1>1, <1>2, UpTo
<1>4. n \in S
  <2> HIDE DEF S
  <2>1. n \in 0 .. n
    BY SMT
  <2> QED BY <1>3, <2>1
<1> QED BY <1>4 DEF Recurs

-----------------------------------------------------------------------------
(* A list of list.rs, as the sequence of its pages: the ith stop on the way *)
(* around it is a page or the head, and the links go from stop to stop.     *)
IsList(s) == s \in Seq(Pages) /\ \A i, j \in 1 .. Len(s) : s[i] = s[j] => i = j
Stop(head, s, i) == IF i \in 1 .. Len(s) THEN s[i] ELSE head
Ring(l, head, s) ==
    \A i \in 0 .. Len(s) :
        /\ l.next[Stop(head, s, i)] = Stop(head, s, i + 1)
        /\ l.prev[Stop(head, s, i + 1)] = Stop(head, s, i)
IsLinks(l) == l.next \in [Nodes -> Nodes] /\ l.prev \in [Nodes -> Nodes]

(* The stops are nodes, and all different.                                  *)
LEMMA StopFacts ==
  ASSUME NEW s, IsList(s), NEW head \in {VB, OWN}
  PROVE  /\ Len(s) \in Nat
         /\ \A i \in Int : Stop(head, s, i) \in Nodes
         /\ \A i \in 1 .. Len(s) : Stop(head, s, i) = s[i] /\ s[i] \in Pages
         /\ \A i \in Int : i \notin 1 .. Len(s) => Stop(head, s, i) = head
         /\ head \in Nodes /\ head \notin Pages
         /\ \A i, j \in 0 .. Len(s) : Stop(head, s, i) = Stop(head, s, j) => i = j
<1>1. Len(s) \in Nat /\ \A i \in 1 .. Len(s) : s[i] \in Pages
  BY DEF IsList
<1>2. head \in Nodes /\ head \notin Pages
  BY PagesAssumption, Zenon DEF Nodes
<1>3. \A i \in 1 .. Len(s) : Stop(head, s, i) = s[i]
  BY Zenon DEF Stop
<1>4. \A i \in Int : i \notin 1 .. Len(s) => Stop(head, s, i) = head
  BY Zenon DEF Stop
<1>5. \A i \in Int : Stop(head, s, i) \in Nodes
  BY <1>1, <1>2, Zenon DEF Stop, Nodes
<1>6. ASSUME NEW i \in 0 .. Len(s), NEW j \in 0 .. Len(s), Stop(head, s, i) = Stop(head, s, j)
      PROVE  i = j
  <2>1. CASE i = 0 \/ j = 0
    BY <1>1, <1>2, <1>3, <1>4, <1>6, <2>1
  <2>2. CASE i # 0 /\ j # 0
    <3>1. i \in 1 .. Len(s) /\ j \in 1 .. Len(s)
      BY <1>1, <2>2
    <3> QED BY <1>3, <1>6, <3>1, Zenon DEF IsList
  <2> QED BY <2>1, <2>2
<1> QED BY <1>1, <1>2, <1>3, <1>4, <1>5, <1>6, Zenon

(* Links that are the same at the stops are the same list.                  *)
Agree(l, m, head, s) ==
    \A x \in {head} \cup Range(s) : m.next[x] = l.next[x] /\ m.prev[x] = l.prev[x]

LEMMA RingKept ==
  ASSUME NEW l, NEW m, NEW s, IsList(s), NEW head, Ring(l, head, s),
         Agree(l, m, head, s)
  PROVE  Ring(m, head, s)
<1> USE DEF Agree
<1>1. ASSUME NEW i \in Int PROVE Stop(head, s, i) \in {head} \cup Range(s)
  <2>1. DOMAIN s = 1 .. Len(s)
    BY DEF IsList
  <2> QED BY <2>1, Zenon DEF Stop, Range
<1>2. ASSUME NEW i \in 0 .. Len(s)
      PROVE  /\ m.next[Stop(head, s, i)] = Stop(head, s, i + 1)
             /\ m.prev[Stop(head, s, i + 1)] = Stop(head, s, i)
  <2>1. i \in Int /\ i + 1 \in Int
    BY StopFacts
  <2>2. Stop(head, s, i) \in {head} \cup Range(s) /\ Stop(head, s, i + 1) \in {head} \cup Range(s)
    BY <1>1, <2>1, Zenon
  <2> QED BY <2>2, Zenon DEF Ring
<1> QED BY <1>2, Zenon DEF Ring

(* __list_add: what it leaves alone.                                        *)
LEMMA InsertIs ==
  ASSUME NEW l, IsLinks(l), NEW p \in Nodes, NEW b \in Nodes, NEW a \in Nodes, p # b, p # a
  PROVE  LET m == InsertBetween(l, p, b, a)
         IN  /\ IsLinks(m)
             /\ m.next[p] = a /\ m.next[b] = p /\ m.prev[a] = p /\ m.prev[p] = b
             /\ \A x \in Nodes \ {p, b} : m.next[x] = l.next[x]
             /\ \A x \in Nodes \ {p, a} : m.prev[x] = l.prev[x]
<1> DEFINE n == l.next
           q == l.prev
           n2 == [n EXCEPT ![p] = a, ![b] = p]
           q2 == [q EXCEPT ![a] = p, ![p] = b]
<1>1. n \in [Nodes -> Nodes] /\ q \in [Nodes -> Nodes]
  BY Zenon DEF IsLinks
<1>2. InsertBetween(l, p, b, a).next = n2 /\ InsertBetween(l, p, b, a).prev = q2
  BY DEF InsertBetween
<1> HIDE DEF n, q
<1>3. /\ n2 \in [Nodes -> Nodes] /\ n2[p] = a /\ n2[b] = p
      /\ \A x \in Nodes \ {p, b} : n2[x] = n[x]
  BY <1>1
<1>4. /\ q2 \in [Nodes -> Nodes] /\ q2[a] = p /\ q2[p] = b
      /\ \A x \in Nodes \ {p, a} : q2[x] = q[x]
  BY <1>1
<1> HIDE DEF n2, q2
<1> QED BY <1>2, <1>3, <1>4, Zenon DEF IsLinks, n, q

(* Links m are l with page p on head's list, which was s and is now t; and  *)
(* l without p, which was first on it.                                      *)
With(l, m, head, s, t, p) ==
    /\ IsLinks(m) /\ IsList(t) /\ Ring(m, head, t)
    /\ Range(t) = Range(s) \cup {p} /\ Len(t) = Len(s) + 1
    /\ \A x \in Nodes \ ({p, head} \cup Range(s)) : m.next[x] = l.next[x] /\ m.prev[x] = l.prev[x]
Without(l, m, head, s, t, p) ==
    /\ l.next[head] = p /\ p \in Pages /\ p \in Range(s)
    /\ IsLinks(m) /\ IsList(t) /\ Ring(m, head, t)
    /\ m.next[p] = p /\ m.prev[p] = p
    /\ Range(t) = Range(s) \ {p} /\ Len(t) = Len(s) - 1
    /\ \A x \in Nodes \ ({head} \cup Range(s)) : m.next[x] = l.next[x] /\ m.prev[x] = l.prev[x]

(* list_add: the page is the first of the list.                             *)
LEMMA PushFront ==
  ASSUME NEW l, IsLinks(l), NEW head \in {VB, OWN}, NEW s, IsList(s), Ring(l, head, s),
         NEW p \in Pages, p \notin Range(s)
  PROVE  With(l, ListAdd(l, p, head), head, s, <<p>> \o s, p)
<1> USE Zenon
<1> DEFINE m == ListAdd(l, p, head)
           t == <<p>> \o s
           n == Len(s)
<1>1. /\ n \in Nat /\ s \in Seq(Pages) /\ DOMAIN s = 1 .. n
      /\ \A i \in 1 .. n : s[i] \in Pages
      /\ \A i, j \in 1 .. n : s[i] = s[j] => i = j
  BY SMT DEF IsList
<1>2. /\ t \in Seq(Pages) /\ Len(t) = n + 1 /\ DOMAIN t = 1 .. n + 1 /\ t[1] = p
      /\ \A i \in 2 .. n + 1 : t[i] = s[i - 1]
  BY <1>1, SMT
<1>3. \A i \in 1 .. n : s[i] # p
  BY <1>1 DEF Range
<1> HIDE DEF t, n
<1>4. IsList(t)
  <2>1. ASSUME NEW i \in 1 .. n + 1, NEW j \in 1 .. n + 1, t[i] = t[j] PROVE i = j
    <3>1. CASE i = 1 \/ j = 1
      BY <1>1, <1>2, <1>3, <2>1, <3>1, SMT
    <3>2. CASE i # 1 /\ j # 1
      <4>1. i - 1 \in 1 .. n /\ j - 1 \in 1 .. n /\ s[i - 1] = s[j - 1]
        BY <1>1, <1>2, <2>1, <3>2, SMT
      <4>2. i - 1 = j - 1
        BY <1>1, <4>1
      <4> QED BY <1>1, <4>2, SMT
    <3> QED BY <3>1, <3>2, SMT
  <2> QED BY <1>2, <2>1 DEF IsList
<1>5. Range(t) = Range(s) \cup {p}
  <2>1. ASSUME NEW x \in Range(t) PROVE x \in Range(s) \cup {p}
    <3>1. PICK i \in 1 .. n + 1 : x = t[i]
      BY <1>2 DEF Range
    <3>2. x = p \/ (i - 1 \in 1 .. n /\ x = s[i - 1])
      BY <1>1, <1>2, <3>1, SMT
    <3> QED BY <1>1, <3>2 DEF Range
  <2>2. ASSUME NEW x \in Range(s) PROVE x \in Range(t)
    <3>1. PICK i \in 1 .. n : x = s[i]
      BY <1>1 DEF Range
    <3>2. i + 1 \in 1 .. n + 1 /\ t[i + 1] = x
      BY <1>1, <1>2, <3>1, SMT
    <3> QED BY <1>2, <3>2 DEF Range
  <2>3. p \in Range(t)
    <3>1. 1 \in 1 .. n + 1
      BY <1>1, SMT
    <3> QED BY <1>2, <3>1 DEF Range
  <2> QED BY <2>1, <2>2, <2>3
<1>6. /\ head \in Nodes /\ head \notin Pages /\ p \in Nodes /\ p # head
      /\ l.next[head] = Stop(head, s, 1) /\ Stop(head, s, 1) \in Nodes /\ Stop(head, s, 1) # p
  <2>1. 0 \in 0 .. Len(s) /\ 0 + 1 = 1 /\ 1 \in Int /\ 0 \in Int /\ 0 \notin 1 .. Len(s)
    BY <1>1, SMT DEF n
  <2>2. l.next[Stop(head, s, 0)] = Stop(head, s, 0 + 1)
    BY <2>1 DEF Ring
  <2>3. Stop(head, s, 0) = head /\ Stop(head, s, 1) \in Nodes /\ head \in Nodes /\ head \notin Pages
    BY <2>1, StopFacts
  <2>4. Stop(head, s, 1) # p
    BY <1>3, <2>3 DEF Stop, n
  <2> QED BY <2>1, <2>2, <2>3, <2>4 DEF Nodes
<1> DEFINE a == Stop(head, s, 1)
<1>7. m = InsertBetween(l, p, head, a)
  <2>1. m = InsertBetween(l, p, head, l.next[head])
    BY DEF ListAdd
  <2> HIDE DEF m
  <2> QED BY <1>6, <2>1
<1>8. /\ IsLinks(m)
      /\ m.next[p] = a /\ m.next[head] = p /\ m.prev[a] = p /\ m.prev[p] = head
      /\ \A x \in Nodes \ {p, head} : m.next[x] = l.next[x]
      /\ \A x \in Nodes \ {p, a} : m.prev[x] = l.prev[x]
  <2> DEFINE o == InsertBetween(l, p, head, a)
  <2>1. /\ IsLinks(o)
        /\ o.next[p] = a /\ o.next[head] = p /\ o.prev[a] = p /\ o.prev[p] = head
        /\ \A x \in Nodes \ {p, head} : o.next[x] = l.next[x]
        /\ \A x \in Nodes \ {p, a} : o.prev[x] = l.prev[x]
    <3> HIDE DEF a
    <3>1. a \in Nodes /\ p # a
      BY <1>6 DEF a
    <3>2. p \in Nodes /\ head \in Nodes /\ p # head
      BY <1>6
    <3> QED BY <3>1, <3>2, InsertIs, SMT
  <2> HIDE DEF m, o, a
  <2> QED BY <1>7, <2>1 DEF o
<1> HIDE DEF m
<1>9. Ring(m, head, t)
  <2>1. ASSUME NEW i \in 1 .. n + 2 PROVE Stop(head, t, i + 1) = Stop(head, s, i)
    BY <1>1, <1>2, SMT DEF Stop, n
  <2>2. Stop(head, t, 0) = head /\ Stop(head, t, 1) = p
    BY <1>1, <1>2, SMT DEF Stop
  <2>3. ASSUME NEW i \in 0 .. n + 1
        PROVE  /\ m.next[Stop(head, t, i)] = Stop(head, t, i + 1)
               /\ m.prev[Stop(head, t, i + 1)] = Stop(head, t, i)
    <3>1. CASE i = 0
      BY <1>8, <2>2, <3>1, SMT
    <3>2. CASE i = 1
      <4>1. 1 \in 1 .. n + 2
        BY <1>1, SMT
      <4>2. Stop(head, t, 1 + 1) = a
        BY <2>1, <4>1
      <4> QED BY <1>8, <2>2, <3>2, <4>2
    <3>3. CASE i \in 2 .. n + 1
      <4>1. i - 1 \in 1 .. n /\ i - 1 \in 0 .. Len(s) /\ i - 1 + 1 = i /\ i \in 1 .. n + 2 /\ i - 1 \in 1 .. n + 2
        BY <1>1, <3>3, SMT DEF n
      <4>2. Stop(head, t, i) = Stop(head, s, i - 1) /\ Stop(head, t, i + 1) = Stop(head, s, i)
        BY <2>1, <4>1, SMT
      <4>3. l.next[Stop(head, s, i - 1)] = Stop(head, s, i) /\ l.prev[Stop(head, s, i)] = Stop(head, s, i - 1)
        BY <4>1, SMT DEF Ring
      <4>4. Stop(head, s, i - 1) \in Nodes \ {p, head}
        <5>1. Stop(head, s, i - 1) \in Pages /\ Stop(head, s, i - 1) # p
          BY <1>1, <1>3, <4>1, SMT DEF Stop, n
        <5> QED BY <1>6, <5>1 DEF Nodes
      <4>5. Stop(head, s, i) \in Nodes \ {p, a}
        <5>1. CASE i \in 1 .. n
          <6>1. Stop(head, s, i) = s[i] /\ a = s[1] /\ 1 \in 1 .. n /\ i # 1
            BY <1>1, <3>3, <5>1, SMT DEF Stop, n
          <6>2. s[i] # s[1]
            BY <1>1, <5>1, <6>1
          <6> QED BY <1>1, <1>3, <5>1, <6>1, <6>2 DEF Nodes
        <5>2. CASE i = n + 1
          <6>1. Stop(head, s, i) = head /\ a \in Pages
            BY <1>1, <3>3, <5>2, SMT DEF Stop, n
          <6> QED BY <1>6, <6>1
        <5> QED BY <1>1, <3>3, <5>1, <5>2, SMT
      <4> QED BY <1>8, <4>2, <4>3, <4>4, <4>5
    <3> QED BY <1>1, <3>1, <3>2, <3>3, SMT
  <2> QED BY <1>2, <2>3 DEF Ring
<1>10. ASSUME NEW x \in Nodes \ ({p, head} \cup Range(s))
       PROVE  m.next[x] = l.next[x] /\ m.prev[x] = l.prev[x]
  <2>1. a \in {head} \cup Range(s)
    BY <1>1 DEF Stop, Range, n
  <2> QED BY <1>8, <2>1
<1> QED BY <1>2, <1>4, <1>5, <1>8, <1>9, <1>10 DEF m, t, n, With

(* list_add_tail: the page is the last of the list.                         *)
LEMMA PushBack ==
  ASSUME NEW l, IsLinks(l), NEW head \in {VB, OWN}, NEW s, IsList(s), Ring(l, head, s),
         NEW p \in Pages, p \notin Range(s)
  PROVE  With(l, ListAddTail(l, p, head), head, s, Append(s, p), p)
<1> USE Zenon
<1> DEFINE m == ListAddTail(l, p, head)
           t == Append(s, p)
           n == Len(s)
<1>1. /\ n \in Nat /\ s \in Seq(Pages) /\ DOMAIN s = 1 .. n
      /\ \A i \in 1 .. n : s[i] \in Pages
      /\ \A i, j \in 1 .. n : s[i] = s[j] => i = j
  BY SMT DEF IsList
<1>2. /\ t \in Seq(Pages) /\ Len(t) = n + 1 /\ DOMAIN t = 1 .. n + 1 /\ t[n + 1] = p
      /\ \A i \in 1 .. n : t[i] = s[i]
  BY <1>1, SMT
<1>3. \A i \in 1 .. n : s[i] # p
  BY <1>1 DEF Range
<1> HIDE DEF t, n
<1>4. IsList(t)
  <2>1. ASSUME NEW i \in 1 .. n + 1, NEW j \in 1 .. n + 1, t[i] = t[j] PROVE i = j
    BY <1>1, <1>2, <1>3, <2>1, SMT
  <2> QED BY <1>2, <2>1 DEF IsList
<1>5. Range(t) = Range(s) \cup {p}
  <2>1. ASSUME NEW x \in Range(t) PROVE x \in Range(s) \cup {p}
    <3>1. PICK i \in 1 .. n + 1 : x = t[i]
      BY <1>2 DEF Range
    <3>2. x = p \/ (i \in 1 .. n /\ x = s[i])
      BY <1>1, <1>2, <3>1, SMT
    <3> QED BY <1>1, <3>2 DEF Range
  <2>2. ASSUME NEW x \in Range(s) PROVE x \in Range(t)
    <3>1. PICK i \in 1 .. n : x = s[i]
      BY <1>1 DEF Range
    <3>2. i \in 1 .. n + 1 /\ t[i] = x
      BY <1>1, <1>2, <3>1, SMT
    <3> QED BY <1>2, <3>2 DEF Range
  <2>3. p \in Range(t)
    <3>1. n + 1 \in 1 .. n + 1
      BY <1>1, SMT
    <3> QED BY <1>2, <3>1 DEF Range
  <2> QED BY <2>1, <2>2, <2>3
<1> DEFINE b == Stop(head, s, n)
<1>6. /\ head \in Nodes /\ head \notin Pages /\ p \in Nodes /\ p # head
      /\ l.prev[head] = b /\ b \in Nodes /\ b # p
  <2>1. n \in 0 .. Len(s) /\ n + 1 \in Int /\ n \in Int /\ n + 1 \notin 1 .. Len(s)
    BY <1>1, SMT DEF n
  <2>2. l.prev[Stop(head, s, n + 1)] = b
    BY <2>1 DEF Ring
  <2>3. Stop(head, s, n + 1) = head /\ b \in Nodes /\ head \in Nodes /\ head \notin Pages
    BY <2>1, StopFacts
  <2>4. b # p
    BY <1>3, <2>3 DEF Stop, n
  <2> QED BY <2>1, <2>2, <2>3, <2>4 DEF Nodes
<1> HIDE DEF b
<1>7. m = InsertBetween(l, p, b, head)
  <2>1. m = InsertBetween(l, p, l.prev[head], head)
    BY DEF ListAddTail
  <2> HIDE DEF m
  <2> QED BY <1>6, <2>1
<1>8. /\ IsLinks(m)
      /\ m.next[p] = head /\ m.next[b] = p /\ m.prev[head] = p /\ m.prev[p] = b
      /\ \A x \in Nodes \ {p, b} : m.next[x] = l.next[x]
      /\ \A x \in Nodes \ {p, head} : m.prev[x] = l.prev[x]
  <2> DEFINE o == InsertBetween(l, p, b, head)
  <2>1. /\ IsLinks(o)
        /\ o.next[p] = head /\ o.next[b] = p /\ o.prev[head] = p /\ o.prev[p] = b
        /\ \A x \in Nodes \ {p, b} : o.next[x] = l.next[x]
        /\ \A x \in Nodes \ {p, head} : o.prev[x] = l.prev[x]
    <3>1. p \in Nodes /\ head \in Nodes /\ p # head /\ b \in Nodes /\ p # b
      BY <1>6
    <3> QED BY <3>1, InsertIs, SMT
  <2> HIDE DEF m, o
  <2> QED BY <1>7, <2>1 DEF o
<1> HIDE DEF m
<1>9. Ring(m, head, t)
  <2>1. ASSUME NEW i \in 0 .. n PROVE Stop(head, t, i) = Stop(head, s, i)
    BY <1>1, <1>2, SMT DEF Stop, n
  <2>2. Stop(head, t, n + 1) = p /\ Stop(head, t, n + 1 + 1) = head
    BY <1>1, <1>2, SMT DEF Stop
  <2>3. ASSUME NEW i \in 0 .. n + 1
        PROVE  /\ m.next[Stop(head, t, i)] = Stop(head, t, i + 1)
               /\ m.prev[Stop(head, t, i + 1)] = Stop(head, t, i)
    <3>1. CASE i = n + 1
      BY <1>8, <2>2, <3>1, SMT
    <3>2. CASE i = n
      <4>1. Stop(head, t, i) = b
        BY <1>1, <2>1, <3>2, SMT DEF b
      <4> QED BY <1>8, <2>2, <3>2, <4>1, SMT
    <3>3. CASE i \in 0 .. n - 1
      <4>0. i \in 0 .. n /\ i + 1 \in 1 .. n /\ i + 1 \in 0 .. n /\ n \in 0 .. n /\ i # n /\ i \in Int
        BY <1>1, <3>3, SMT
      <4>1. i \in 0 .. Len(s) /\ n \in 0 .. Len(s)
        BY <4>0 DEF n
      <4>2. Stop(head, t, i) = Stop(head, s, i) /\ Stop(head, t, i + 1) = Stop(head, s, i + 1)
        BY <2>1, <4>0, <4>1
      <4>3. l.next[Stop(head, s, i)] = Stop(head, s, i + 1) /\ l.prev[Stop(head, s, i + 1)] = Stop(head, s, i)
        BY <4>0, <4>1 DEF Ring
      <4>4. Stop(head, s, i) \in Nodes \ {p, b}
        <5>1. Stop(head, s, i) \in Nodes
          BY <4>0, <4>1, StopFacts
        <5>2. Stop(head, s, i) # b
          BY <4>0, <4>1, StopFacts DEF b
        <5>3. Stop(head, s, i) # p
          BY <1>3, <1>6 DEF Stop, n
        <5> QED BY <5>1, <5>2, <5>3
      <4>5. Stop(head, s, i + 1) \in Nodes \ {p, head}
        <5>1. Stop(head, s, i + 1) \in Pages /\ Stop(head, s, i + 1) # p
          BY <1>1, <1>3, <4>0, <4>1 DEF Stop, n
        <5> QED BY <1>6, <5>1 DEF Nodes
      <4> QED BY <1>8, <4>2, <4>3, <4>4, <4>5
    <3> QED BY <1>1, <3>1, <3>2, <3>3, SMT
  <2> QED BY <1>2, <2>3 DEF Ring
<1>10. ASSUME NEW x \in Nodes \ ({p, head} \cup Range(s))
       PROVE  m.next[x] = l.next[x] /\ m.prev[x] = l.prev[x]
  <2>1. b \in {head} \cup Range(s)
    BY <1>1 DEF Stop, Range, n, b
  <2> QED BY <1>8, <2>1
<1> QED BY <1>2, <1>4, <1>5, <1>8, <1>9, <1>10 DEF m, t, n, With

(* list_del of the first page of a list.                                    *)
LEMMA PopFront ==
  ASSUME NEW l, IsLinks(l), NEW head \in {VB, OWN}, NEW s, IsList(s), Ring(l, head, s), s # <<>>
  PROVE  Without(l, ListDel(l, s[1]), head, s, Tail(s), s[1])
<1> USE Zenon
<1> DEFINE n == Len(s)
           p == s[1]
           m == ListDel(l, p)
           t == Tail(s)
<1>1. /\ n \in Nat \ {0} /\ s \in Seq(Pages) /\ DOMAIN s = 1 .. n
      /\ \A i \in 1 .. n : s[i] \in Pages
      /\ \A i, j \in 1 .. n : s[i] = s[j] => i = j
  BY SMT DEF IsList
<1>2. /\ t \in Seq(Pages) /\ Len(t) = n - 1 /\ DOMAIN t = 1 .. n - 1
      /\ \A i \in 1 .. n - 1 : t[i] = s[i + 1]
  BY <1>1, SMT
<1>3. 1 \in 1 .. n /\ p \in Pages /\ p \in Range(s) /\ \A i \in 2 .. n : s[i] # p
  BY <1>1, SMT DEF Range
<1> HIDE DEF t, n, p
<1>4. IsList(t)
  <2>1. ASSUME NEW i \in 1 .. n - 1, NEW j \in 1 .. n - 1, t[i] = t[j] PROVE i = j
    <3>1. i + 1 \in 1 .. n /\ j + 1 \in 1 .. n /\ s[i + 1] = s[j + 1]
      BY <1>1, <1>2, <2>1, SMT
    <3>2. i + 1 = j + 1
      BY <1>1, <3>1
    <3> QED BY <1>1, <3>2, SMT
  <2> QED BY <1>2, <2>1 DEF IsList
<1>5. Range(t) = Range(s) \ {p}
  <2>1. ASSUME NEW x \in Range(t) PROVE x \in Range(s) \ {p}
    <3>1. PICK i \in 1 .. n - 1 : x = t[i]
      BY <1>2 DEF Range
    <3>2. i + 1 \in 1 .. n /\ x = s[i + 1] /\ x # p
      BY <1>1, <1>2, <1>3, <3>1, SMT
    <3> QED BY <1>1, <3>2 DEF Range
  <2>2. ASSUME NEW x \in Range(s) \ {p} PROVE x \in Range(t)
    <3>1. PICK i \in 1 .. n : x = s[i]
      BY <1>1 DEF Range
    <3>2. i - 1 \in 1 .. n - 1 /\ t[i - 1] = x
      BY <1>1, <1>2, <3>1, SMT DEF p
    <3> QED BY <1>2, <3>2 DEF Range
  <2> QED BY <2>1, <2>2
<1> DEFINE a == Stop(head, s, 2)
<1>6. /\ head \in Nodes /\ head \notin Pages /\ p \in Nodes /\ p # head /\ a \in Nodes /\ a # p
      /\ l.next[head] = p /\ l.next[p] = a /\ l.prev[p] = head
  <2>1. /\ 0 \in 0 .. Len(s) /\ 1 \in 0 .. Len(s) /\ 0 + 1 = 1 /\ 1 + 1 = 2 /\ 0 \in Int
        /\ 1 \in 1 .. Len(s) /\ 2 \in Int /\ 0 \notin 1 .. Len(s)
    BY <1>1, SMT DEF n
  <2>2. Stop(head, s, 0) = head /\ Stop(head, s, 1) = p /\ a \in Nodes /\ head \in Nodes /\ head \notin Pages
    BY <2>1, StopFacts DEF p
  <2>3. l.next[Stop(head, s, 0)] = Stop(head, s, 1) /\ l.prev[Stop(head, s, 1)] = Stop(head, s, 0)
    BY <2>1, SMT DEF Ring
  <2>4. l.next[Stop(head, s, 1)] = a
    BY <2>1, SMT DEF Ring
  <2>5. a # p
    <3>1. 2 \in 1 .. Len(s) => s[2] # p
      BY <1>3, SMT DEF n
    <3> QED BY <1>3, <2>2, <3>1 DEF Stop
  <2> QED BY <1>3, <2>2, <2>3, <2>4, <2>5 DEF Nodes
<1> HIDE DEF a
<1>7. /\ IsLinks(m)
      /\ m.next[head] = a /\ m.next[p] = p /\ m.prev[a] = head /\ m.prev[p] = p
      /\ \A x \in Nodes \ {p, head} : m.next[x] = l.next[x]
      /\ \A x \in Nodes \ {p, a} : m.prev[x] = l.prev[x]
  <2> DEFINE f == l.next
             g == l.prev
             f2 == [f EXCEPT ![head] = a, ![p] = p]
             g2 == [g EXCEPT ![a] = head, ![p] = p]
  <2>1. f \in [Nodes -> Nodes] /\ g \in [Nodes -> Nodes]
    BY DEF IsLinks
  <2>2. m.next = f2 /\ m.prev = g2
    <3>1. m.next = [f EXCEPT ![g[p]] = f[p], ![p] = p] /\ m.prev = [g EXCEPT ![f[p]] = g[p], ![p] = p]
      BY SMT DEF ListDel
    <3> HIDE DEF m, f, g
    <3>2. g[p] = head /\ f[p] = a
      BY <1>6 DEF f, g
    <3> QED BY <3>1, <3>2
  <2> HIDE DEF f, g, m
  <2>3. /\ f2 \in [Nodes -> Nodes] /\ f2[head] = a /\ f2[p] = p
        /\ \A x \in Nodes \ {p, head} : f2[x] = f[x]
    BY <1>6, <2>1, SMT
  <2>4. /\ g2 \in [Nodes -> Nodes] /\ g2[a] = head /\ g2[p] = p
        /\ \A x \in Nodes \ {p, a} : g2[x] = g[x]
    BY <1>6, <2>1, SMT
  <2> HIDE DEF f2, g2
  <2> QED BY <2>2, <2>3, <2>4 DEF IsLinks, f, g
<1> HIDE DEF m
<1>8. Ring(m, head, t)
  <2>1. ASSUME NEW i \in 1 .. n PROVE Stop(head, t, i) = Stop(head, s, i + 1)
    BY <1>1, <1>2, SMT DEF Stop, n
  <2>2. Stop(head, t, 0) = head
    BY <1>1, <1>2, SMT DEF Stop
  <2>3. ASSUME NEW i \in 0 .. n - 1
        PROVE  /\ m.next[Stop(head, t, i)] = Stop(head, t, i + 1)
               /\ m.prev[Stop(head, t, i + 1)] = Stop(head, t, i)
    <3>1. CASE i = 0
      <4>1. Stop(head, t, 1) = a
        <5>1. 1 \in 1 .. n /\ 1 + 1 = 2
          BY <1>1, SMT
        <5> QED BY <2>1, <5>1 DEF a
      <4> QED BY <1>7, <2>2, <3>1, <4>1, SMT
    <3>2. CASE i \in 1 .. n - 1
      <4>1. i \in 1 .. n /\ i + 1 \in 1 .. n /\ i + 1 \in 0 .. Len(s) /\ i + 1 + 1 \in Int
        BY <1>1, <3>2, SMT DEF n
      <4>2. Stop(head, t, i) = Stop(head, s, i + 1) /\ Stop(head, t, i + 1) = Stop(head, s, i + 1 + 1)
        BY <2>1, <4>1, SMT
      <4>3. /\ l.next[Stop(head, s, i + 1)] = Stop(head, s, i + 1 + 1)
            /\ l.prev[Stop(head, s, i + 1 + 1)] = Stop(head, s, i + 1)
        BY <4>1 DEF Ring
      <4>4. Stop(head, s, i + 1) \in Nodes \ {p, head}
        <5>1. Stop(head, s, i + 1) \in Pages /\ Stop(head, s, i + 1) # p
          BY <1>1, <1>3, <3>2, <4>1, SMT DEF Stop, n
        <5> QED BY <1>6, <5>1 DEF Nodes
      <4>5. Stop(head, s, i + 1 + 1) \in Nodes \ {p, a}
        <5>1. Stop(head, s, i + 1 + 1) \in Nodes
          BY <4>1, StopFacts
        <5>2. a = s[2] /\ 2 \in 1 .. n /\ a \in Pages
          BY <1>1, <3>2, SMT DEF a, Stop, n
        <5>3. CASE i = n - 1
          <6>1. Stop(head, s, i + 1 + 1) = head
            BY <1>1, <5>3, SMT DEF Stop, n
          <6> QED BY <1>6, <5>1, <5>2, <6>1
        <5>4. CASE i # n - 1
          <6>1. i + 1 + 1 \in 2 .. n /\ i + 1 + 1 \in 1 .. n /\ i + 1 + 1 # 2
            BY <1>1, <3>2, <5>4, SMT
          <6>2. Stop(head, s, i + 1 + 1) = s[i + 1 + 1]
            BY <6>1 DEF Stop, n
          <6>3. s[i + 1 + 1] # p
            BY <1>3, <6>1
          <6>4. s[i + 1 + 1] # s[2]
            BY <1>1, <5>2, <6>1
          <6> QED BY <5>1, <5>2, <6>2, <6>3, <6>4
        <5> QED BY <5>3, <5>4
      <4> QED BY <1>7, <4>2, <4>3, <4>4, <4>5
    <3> QED BY <1>1, <3>1, <3>2, SMT
  <2> QED BY <1>2, <2>3 DEF Ring
<1>9. ASSUME NEW x \in Nodes \ ({head} \cup Range(s))
      PROVE  m.next[x] = l.next[x] /\ m.prev[x] = l.prev[x]
  <2>1. a \in {head} \cup Range(s)
    BY <1>1 DEF Stop, Range, n, a
  <2> QED BY <1>3, <1>7, <2>1
<1> QED BY <1>2, <1>3, <1>4, <1>5, <1>6, <1>7, <1>8, <1>9 DEF m, t, n, p, Without

(* A list has as many pages as it has links, and the walk of a list from    *)
(* its head meets all of them.                                              *)
LEMMA ListSize ==
  ASSUME NEW s, IsList(s)
  PROVE  /\ Cardinality(Range(s)) = Len(s) /\ Range(s) \subseteq Pages
         /\ Len(s) < Cardinality(Nodes) /\ Cardinality(Nodes) \in Nat
<1> USE Zenon
<1> DEFINE n == Len(s)
<1>1. /\ n \in Nat /\ DOMAIN s = 1 .. n /\ s \in [1 .. n -> Pages]
      /\ \A i, j \in 1 .. n : s[i] = s[j] => i = j
  BY SMT DEF IsList
<1> HIDE DEF n
<1>2. Range(s) = {s[i] : i \in 1 .. n}
  BY <1>1 DEF Range
<1>3. Range(s) \subseteq Pages
  BY <1>1, <1>2, SMT
<1>4. s \in Bijection(1 .. n, Range(s))
  BY <1>1, <1>2, SMT DEF Bijection, Injection, Surjection, IsInjective
<1>5. ExistsBijection(1 .. n, Range(s))
  BY <1>4 DEF ExistsBijection
<1>6. Cardinality(Range(s)) = n
  BY <1>1, <1>5, FS_CountingElements
<1>7. n <= Cardinality(Pages) /\ Cardinality(Pages) \in Nat
  <2>1. IsFiniteSet(Pages) /\ Range(s) \in SUBSET Pages
    BY <1>3, PagesAssumption
  <2> QED BY <1>6, <2>1, FS_Subset, FS_CardinalityType
<1>8. Cardinality(Nodes) = Cardinality(Pages) + 1 + 1
  <2> DEFINE A == Pages \cup {VB}
  <2>1. IsFiniteSet(A) /\ Cardinality(A) = Cardinality(Pages) + 1
    BY PagesAssumption, FS_AddElement
  <2>2. OWN \notin A /\ Nodes = A \cup {OWN}
    BY PagesAssumption DEF Nodes
  <2>3. Cardinality(A \cup {OWN}) = Cardinality(A) + 1
    <3> HIDE DEF A
    <3> QED BY <2>1, <2>2, FS_AddElement
  <2> HIDE DEF A
  <2> QED BY <2>1, <2>2, <2>3
<1> QED BY <1>1, <1>3, <1>6, <1>7, <1>8, SMT DEF n

LEMMA MembersIs ==
  ASSUME NEW s, IsList(s), NEW head \in {VB, OWN}, IsLinks(Links), Ring(Links, head, s)
  PROVE  Members(head) = Range(s)
<1> DEFINE N == Cardinality(Nodes)
           n == Len(s)
           IsAt(g) == g = [k \in 0 .. N |-> IF k = 0 THEN head ELSE next[g[k - 1]]]
           stop == CHOOSE g : IsAt(g)
           back == {k \in 1 .. N : stop[k] = head}
<1>1. Members(head) = IF back = {} THEN {} ELSE {stop[k] : k \in 1 .. (Min(back) - 1)}
  BY Zenon DEF Members
<1>2. N \in Nat /\ n \in Nat /\ n < N
  BY ListSize, StopFacts
<1>3. next \in [Nodes -> Nodes] /\ head \in Nodes
  BY StopFacts DEF IsLinks, Links
<1> HIDE DEF N
<1>4. \E g : IsAt(g)
  <2> DEFINE F == [k \in 0 .. N |-> next]
  <2>1. F \in [0 .. N -> [Nodes -> Nodes]]
    BY <1>3
  <2>2. \E g \in [0 .. N -> Nodes] : Recurs(g, N, head, F)
    <3> HIDE DEF F
    <3>1. N \in Nat /\ head \in Nodes
      BY <1>2, <1>3, Zenon
    <3> QED BY <2>1, <3>1, Recursion, Zenon
  <2>3. \A k \in 0 .. N : F[k] = next
    BY Zenon
  <2> HIDE DEF F
  <2> QED BY <2>2, <2>3, Zenon DEF Recurs
<1>5. IsAt(stop)
  <2> HIDE DEF IsAt
  <2> QED BY <1>4, Zenon
<1>6. stop[0] = head /\ \A k \in 0 .. N - 1 : stop[k + 1] = next[stop[k]]
  <2> HIDE DEF stop
  <2> QED BY <1>2, <1>5
<1> HIDE DEF stop
<1>7. \A k \in 0 .. n + 1 : stop[k] = Stop(head, s, k)
  <2> DEFINE S == {k \in 0 .. n + 1 : stop[k] = Stop(head, s, k)}
  <2>1. 0 \in S
    <3>1. 0 \in 0 .. n + 1 /\ 0 \in Int /\ 0 \notin 1 .. n
      BY <1>2
    <3> QED BY <1>6, <3>1, Zenon DEF Stop
  <2>2. ASSUME NEW k \in 0 .. n, k \in S PROVE k + 1 \in S
    <3>1. k \in 0 .. N - 1 /\ k + 1 \in 0 .. n + 1
      BY <1>2
    <3>2. next[Stop(head, s, k)] = Stop(head, s, k + 1)
      BY DEF Ring, Links
    <3> QED BY <1>6, <2>2, <3>1, <3>2, Zenon
  <2>3. n + 1 \in Nat /\ n + 1 - 1 = n
    BY <1>2
  <2> HIDE DEF S
  <2> DEFINE M == n + 1
  <2>4. M \in Nat /\ \A k \in 0 .. M - 1 : k \in S => k + 1 \in S
    BY <2>2, <2>3
  <2> HIDE DEF M
  <2>5. \A k \in 0 .. M : k \in S
    BY <2>1, <2>4, UpTo, Zenon
  <2> QED BY <2>5, Zenon DEF S, M
<1>8. n + 1 \in back /\ \A k \in back : n + 1 <= k
  <2>1. n + 1 \in 0 .. n + 1 /\ n + 1 \in Int /\ n + 1 \notin 1 .. Len(s) /\ n + 1 \in 1 .. N
    BY <1>2
  <2>2. stop[n + 1] = head
    BY <1>7, <2>1, Zenon DEF Stop
  <2>3. ASSUME NEW k \in 1 .. n PROVE stop[k] # head
    <3>1. k \in 0 .. n + 1
      BY <1>2
    <3>2. Stop(head, s, k) \in Pages /\ head \notin Pages
      BY StopFacts, Zenon
    <3> QED BY <1>7, <3>1, <3>2, Zenon
  <2> QED BY <1>2, <2>1, <2>2, <2>3
<1>9. Min(back) = n + 1
  <2>1. back \subseteq Nat
    BY <1>2
  <2> HIDE DEF back
  <2> QED BY <1>8, <2>1, MinUnique
<1>10. Members(head) = {stop[k] : k \in 1 .. n}
  <2>1. back # {} /\ Min(back) - 1 = n
    BY <1>2, <1>8, <1>9
  <2> HIDE DEF back
  <2> QED BY <1>1, <1>9, <2>1, Zenon
<1>11. {stop[k] : k \in 1 .. n} = {s[k] : k \in 1 .. n}
  <2>1. ASSUME NEW k \in 1 .. n PROVE stop[k] = s[k]
    <3>1. k \in 0 .. n + 1
      BY <1>2
    <3> QED BY <1>7, <3>1, Zenon DEF Stop
  <2> QED BY <2>1, Zenon
<1>12. Range(s) = {s[k] : k \in 1 .. n}
  <2>1. DOMAIN s = 1 .. n
    BY DEF IsList
  <2> QED BY <2>1, Zenon DEF Range
<1> QED BY <1>10, <1>11, <1>12, Zenon

-----------------------------------------------------------------------------
(* The invariant of the balloon, vb and own being its two lists.            *)
TwoLists(l, h, s, g, t) ==
    /\ IsLinks(l) /\ IsList(s) /\ IsList(t)
    /\ Ring(l, h, s) /\ Ring(l, g, t)
    /\ Range(s) \cap Range(t) = {}
    /\ \A p \in Pages \ (Range(s) \cup Range(t)) : l.next[p] = p /\ l.prev[p] = p
Listed(vb, own) == TwoLists(Links, VB, vb, OWN, own)

(* A page on a list is allocated.                                           *)
Allocated == {p \in Pages : ref[p] = 1}
Booked(vb, own) ==
    /\ ref \in [Pages -> {0, 1}] /\ Range(vb) \cup Range(own) = Allocated
    /\ num_pages = Len(vb)

(* A call has pages of its own only between their allocation and the list   *)
(* of the balloon, or from there to their release; the host has none of     *)
(* those it was not told of.                                                *)
Filling == {"alloc", "enqueue", "inflate", "inflating"}
Leaking == {"dequeue", "deflate", "deflating"}
Shared(vb, own) ==
    /\ bpc \notin {"alloc", "enqueue", "release"} \cup Leaking => own = <<>>
    /\ bpc \in Leaking => Range(own) = Range(pfns)
    /\ bpc \in Filling => Range(pfns) \subseteq Range(vb)
    /\ host \subseteq Range(vb) \cup
          (IF bpc \in {"dequeue", "deflate"} \/ told = "deflate" THEN Range(own) ELSE {})

(* The steps of an update.                                                  *)
Updating ==
    /\ bpc \in {"probe", "idle", "release", "report", "end"} \cup Filling \cup Leaking
    /\ pfns \in Seq(Pages) /\ num_pages \in Nat
    /\ bpc \notin {"inflating", "deflating"} => told = "none"
    /\ bpc = "inflating" => told \in {"inflate", "done"}
    /\ bpc = "deflating" => told \in {"deflate", "done"}
    /\ state = "RUNNING" <=> bpc \notin {"probe", "idle"}
    /\ bpc \in {"probe", "idle", "end"} => actual = num_pages

(* The pool has no frame twice, and none that somebody has.                 *)
PoolApart ==
    /\ free \in Seq(Range(free)) /\ IsInjective(free)
    /\ dma \subseteq Pages
    /\ Range(free) \cap Allocated = {} /\ Range(free) \cap dma = {} /\ dma \cap Allocated = {}

BalloonInv ==
    /\ \E vb, own \in Seq(Pages) : Listed(vb, own) /\ Booked(vb, own) /\ Shared(vb, own)
    /\ Updating
    /\ PoolApart

-----------------------------------------------------------------------------
(* The stack of free frames.  What is left of it below a frame.             *)
LEMMA Below ==
  ASSUME NEW q, q \in Seq(Range(q)), IsInjective(q), NEW k \in 0 .. Len(q)
  PROVE  LET r == SubSeq(q, 1, k)
         IN  /\ r \in Seq(Range(r)) /\ IsInjective(r) /\ Len(r) = k
             /\ Range(r) = {q[i] : i \in 1 .. k}
             /\ \A i \in 1 .. k : r[i] = q[i]
<1> DEFINE r == SubSeq(q, 1, k)
           n == Len(q)
<1>1. n \in Nat /\ DOMAIN q = 1 .. n /\ \A i, j \in 1 .. n : q[i] = q[j] => i = j
  BY DEF IsInjective
<1>2. DOMAIN r = 1 .. k /\ Len(r) = k /\ (\A i \in 1 .. k : r[i] = q[i]) /\ r \in Seq(Range(q))
  BY <1>1
<1> HIDE DEF r, n
<1>3. Range(r) = {q[i] : i \in 1 .. k}
  BY <1>2, Zenon DEF Range
<1>4. \A i \in 1 .. k : i \in 1 .. n
  BY <1>1 DEF n
<1>5. IsInjective(r)
  BY <1>1, <1>2, <1>4, Zenon DEF IsInjective
<1>6. r \in Seq(Range(r))
  <2>1. \A i \in 1 .. k : r[i] \in Range(r)
    BY <1>2, Zenon DEF Range
  <2>2. k \in Nat
    BY <1>1 DEF n
  <2>3. r = [i \in 1 .. k |-> r[i]]
    BY <1>2
  <2> QED BY <2>1, <2>2, <2>3
<1> QED BY <1>2, <1>3, <1>5, <1>6, Zenon DEF r

LEMMA Popped ==
  ASSUME NEW q, q \in Seq(Range(q)), IsInjective(q), q # <<>>
  PROVE  LET r == SubSeq(q, 1, Len(q) - 1)
             p == q[Len(q)]
         IN  r \in Seq(Range(r)) /\ IsInjective(r) /\ p \in Range(q) /\ Range(r) = Range(q) \ {p}
<1> DEFINE n == Len(q)
           r == SubSeq(q, 1, n - 1)
           p == q[n]
<1>1. /\ n \in Nat \ {0} /\ DOMAIN q = 1 .. n /\ n - 1 \in 0 .. n /\ n \in 1 .. n
      /\ \A i, j \in 1 .. n : q[i] = q[j] => i = j
  BY DEF IsInjective
<1>2. r \in Seq(Range(r)) /\ IsInjective(r) /\ Range(r) = {q[i] : i \in 1 .. n - 1}
  BY <1>1, Below, Zenon
<1> HIDE DEF r, n
<1>3. {q[i] : i \in 1 .. n - 1} = {q[i] : i \in 1 .. n} \ {p}
  <2>1. \A i \in 1 .. n - 1 : i \in 1 .. n /\ i # n
    BY <1>1
  <2>2. \A i \in 1 .. n : i = n \/ i \in 1 .. n - 1
    BY <1>1
  <2> QED BY <1>1, <2>1, <2>2, Zenon
<1>4. Range(q) = {q[i] : i \in 1 .. n}
  BY <1>1, Zenon DEF Range
<1>5. p \in Range(q)
  BY <1>1, <1>4, Zenon
<1> QED BY <1>2, <1>3, <1>4, <1>5, Zenon DEF r, n

LEMMA Pushed ==
  ASSUME NEW q, q \in Seq(Range(q)), IsInjective(q), NEW p, p \notin Range(q)
  PROVE  LET r == Append(q, p)
         IN  r \in Seq(Range(r)) /\ IsInjective(r) /\ Range(r) = Range(q) \cup {p}
<1> DEFINE n == Len(q)
           r == Append(q, p)
           T == Range(q) \cup {p}
<1>1. /\ n \in Nat /\ DOMAIN q = 1 .. n
      /\ \A i, j \in 1 .. n : q[i] = q[j] => i = j
  BY DEF IsInjective
<1>2. DOMAIN r = 1 .. n + 1 /\ r \in Seq(T) /\ r[n + 1] = p /\ \A i \in 1 .. n : r[i] = q[i]
  <2>1. q \in Seq(T) /\ p \in T
    BY <1>1 DEF Range
  <2> HIDE DEF T
  <2> QED BY <1>1, <2>1
<1>3. Range(q) = {q[i] : i \in 1 .. n}
  BY <1>1, Zenon DEF Range
<1>4. Range(r) = {r[i] : i \in 1 .. n + 1}
  BY <1>2, Zenon DEF Range
<1> HIDE DEF r, n
<1>5. Range(r) = Range(q) \cup {p}
  <2>1. \A i \in 1 .. n + 1 : i = n + 1 \/ i \in 1 .. n
    BY <1>1
  <2>2. n + 1 \in 1 .. n + 1 /\ \A i \in 1 .. n : i \in 1 .. n + 1
    BY <1>1
  <2> QED BY <1>2, <1>3, <1>4, <2>1, <2>2, Zenon
<1>6. IsInjective(r)
  <2>1. \A i \in 1 .. n : q[i] # p
    BY <1>3, Zenon
  <2>2. \A i, j \in 1 .. n + 1 : r[i] = r[j] => i = j
    BY <1>1, <1>2, <2>1
  <2> QED BY <1>2, <2>2, Zenon DEF IsInjective
<1>7. r \in Seq(Range(r))
  <2>1. r = [i \in 1 .. n + 1 |-> r[i]]
    <3> HIDE DEF T
    <3> QED BY <1>2
  <2>2. n + 1 \in Nat /\ \A i \in 1 .. n + 1 : r[i] \in Range(r)
    BY <1>1, <1>4
  <2> QED BY <2>1, <2>2
<1> QED BY <1>5, <1>6, <1>7, Zenon DEF r

-----------------------------------------------------------------------------
(* What the invariant says of the lists that the code walks: the two        *)
(* properties that the runs check.                                          *)
LEMMA BalloonInvHolds == BalloonInv => BalloonConsistent /\ HostHasOnlyBallooned
<1> USE Zenon
<1> SUFFICES ASSUME BalloonInv PROVE BalloonConsistent /\ HostHasOnlyBallooned
  OBVIOUS
<1>1. PICK vb, own \in Seq(Pages) : Listed(vb, own) /\ Booked(vb, own) /\ Shared(vb, own)
  BY DEF BalloonInv
<1>2. Members(VB) = Range(vb) /\ Members(OWN) = Range(own)
  BY <1>1, MembersIs DEF Listed, TwoLists
<1>3. num_pages = Cardinality(Members(VB))
  BY <1>1, <1>2, ListSize DEF Listed, TwoLists, Booked
<1>4. ASSUME NEW x \in Nodes PROVE prev[next[x]] = x
  <2>1. ASSUME NEW s, IsList(s), NEW head \in {VB, OWN}, Ring(Links, head, s),
               x = head \/ x \in Range(s)
        PROVE  prev[next[x]] = x
    <3>1. DOMAIN s = 1 .. Len(s) /\ Len(s) \in Nat
      BY <2>1, SMT DEF IsList
    <3>2. \E i \in 0 .. Len(s) : x = Stop(head, s, i)
      <4>1. CASE x = head
        <5>1. 0 \in 0 .. Len(s) /\ 0 \notin 1 .. Len(s)
          BY <3>1, SMT
        <5> QED BY <4>1, <5>1 DEF Stop
      <4>2. CASE x \in Range(s)
        <5>1. \A i \in 1 .. Len(s) : i \in 0 .. Len(s)
          BY <3>1, SMT
        <5> QED BY <3>1, <4>2, <5>1 DEF Stop, Range
      <4> QED BY <2>1, <4>1, <4>2, SMT
    <3>3. Links.next = next /\ Links.prev = prev
      BY SMT DEF Links
    <3> QED BY <2>1, <3>2, <3>3 DEF Ring
  <2>2. CASE x = VB \/ x \in Range(vb)
    BY <1>1, <2>1, <2>2 DEF Listed, TwoLists
  <2>3. CASE x = OWN \/ x \in Range(own)
    BY <1>1, <2>1, <2>3 DEF Listed, TwoLists
  <2>4. CASE x \in Pages \ (Range(vb) \cup Range(own))
    <3>1. Links.next = next /\ Links.prev = prev
      BY SMT DEF Links
    <3> QED BY <1>1, <2>4, <3>1 DEF Listed, TwoLists
  <2> QED BY <2>2, <2>3, <2>4 DEF Nodes
<1>5. BalloonConsistent
  <2>1. Members(VB) \cap Members(OWN) = {}
    BY <1>1, <1>2 DEF Listed, TwoLists
  <2>2. Members(VB) \cup Members(OWN) = {p \in Pages : ref[p] = 1}
    BY <1>1, <1>2 DEF Booked, Allocated
  <2>3. state # "RUNNING" => actual = num_pages
    BY DEF BalloonInv, Updating
  <2> QED BY <1>3, <1>4, <2>1, <2>2, <2>3 DEF BalloonConsistent
<1>6. HostHasOnlyBallooned
  <2>1. host \subseteq Range(vb) \cup
          (IF bpc \in {"dequeue", "deflate"} \/ told = "deflate" THEN Range(own) ELSE {})
    BY <1>1 DEF Shared
  <2>2. bpc = "release" => ~(bpc \in {"dequeue", "deflate"} \/ told = "deflate")
    BY DEF BalloonInv, Updating
  <2> QED BY <1>2, <2>1, <2>2 DEF HostHasOnlyBallooned
<1> QED BY <1>5, <1>6

LEMMA InitBalloonInv ==
  ASSUME BalloonInit, free = <<>>
  PROVE  BalloonInv
<1>1. IsList(<<>>) /\ <<>> \in Seq(Pages) /\ Range(<<>>) = {} /\ Len(<<>>) = 0
  BY DEF IsList, Range
<1>2. IsLinks(Links) /\ \A x \in Nodes : Links.next[x] = x /\ Links.prev[x] = x
  BY DEF BalloonInit, IsLinks, Links
<1>3. ASSUME NEW head \in {VB, OWN} PROVE Ring(Links, head, <<>>)
  <2>1. \A i : Stop(head, <<>>, i) = head
    BY <1>1 DEF Stop
  <2>2. Links.next[head] = head /\ Links.prev[head] = head
    BY <1>2, Zenon DEF Nodes
  <2> QED BY <2>1, <2>2, Zenon DEF Ring
<1>4. Listed(<<>>, <<>>)
  <2>1. Links.next = next /\ Links.prev = prev
    BY DEF Links
  <2> QED BY <1>1, <1>2, <1>3, <2>1, Zenon DEF Listed, TwoLists, Nodes
<1>5. ref \in [Pages -> {0, 1}] /\ Allocated = {}
  BY DEF BalloonInit, Allocated
<1>6. Booked(<<>>, <<>>) /\ Shared(<<>>, <<>>)
  BY <1>1, <1>5, Zenon DEF Booked, Shared, BalloonInit, Filling, Leaking
<1>7. Updating
  BY <1>1 DEF Updating, BalloonInit, Filling, Leaking
<1>8. PoolApart
  <2>1. free \in Seq(Range(free)) /\ IsInjective(free) /\ Range(free) = {}
    BY DEF IsInjective, Range
  <2> QED BY <1>5, <2>1, Zenon DEF PoolApart, BalloonInit
<1> QED BY <1>1, <1>4, <1>6, <1>7, <1>8, Zenon DEF BalloonInv

-----------------------------------------------------------------------------
(* A step that leaves the lists and the pool alone.                         *)
LEMMA SameBooks ==
  ASSUME NEW vb, NEW own, Listed(vb, own), Booked(vb, own), PoolApart,
         UNCHANGED <<free, next, prev, ref, dma, num_pages>>
  PROVE  Listed(vb, own)' /\ Booked(vb, own)' /\ PoolApart'
<1> USE Zenon
<1>1. Links' = Links
  BY DEF Links
<1>2. Listed(vb, own)'
  BY <1>1 DEF Listed, TwoLists
<1>3. Allocated' = Allocated
  BY DEF Allocated
<1> QED BY <1>2, <1>3 DEF Booked, PoolApart

(* The steps of an update that move no page, and those of the host.         *)
LEMMA ControlStep ==
  ASSUME BalloonInv,
         \/ Probe \/ Changed \/ UpdateBegins \/ TellHost \/ HostTold \/ Report \/ UpdateEnds
         \/ HostServes \/ HostRetargets
  PROVE  BalloonInv'
<1> USE Zenon
<1>1. PICK vb, own \in Seq(Pages) : Listed(vb, own) /\ Booked(vb, own) /\ Shared(vb, own)
  BY DEF BalloonInv
<1>2. Updating /\ PoolApart
  BY DEF BalloonInv
<1>3. UNCHANGED <<free, next, prev, ref, dma, num_pages>>
  BY DEF Probe, Changed, UpdateBegins, TellHost, HostTold, Report, UpdateEnds, HostServes,
     HostRetargets, listVars, bodyVars, hostVars
<1>4. Listed(vb, own)' /\ Booked(vb, own)' /\ PoolApart'
  BY <1>1, <1>2, <1>3, SameBooks
<1>5. Range(<<>>) = {} /\ <<>> \in Seq(Pages) /\ own \in Seq(Pages)
  BY SMT DEF Range
<1> SUFFICES Shared(vb, own)' /\ Updating'
  BY <1>4 DEF BalloonInv
<1>6. CASE Probe
  BY <1>1, <1>2, <1>3, <1>6 DEF Probe, QueueWork, Shared, Updating, Filling, Leaking, hostVars
<1>7. CASE Changed
  BY <1>1, <1>2, <1>3, <1>7 DEF Changed, QueueWork, Shared, Updating, Filling, Leaking
<1>8. CASE UpdateBegins
  <2>1. own = <<>> /\ host \subseteq Range(vb) /\ told = "none" /\ bpc = "idle"
    BY <1>1, <1>2, <1>8 DEF UpdateBegins, Shared, Updating, Leaking
  <2>2. /\ bpc' \in {"alloc", "dequeue", "end"} /\ pfns' = <<>> /\ state' = "RUNNING"
        /\ told' = told /\ host' = host /\ actual' = actual
    BY <1>8 DEF UpdateBegins, hostVars
  <2>3. Shared(vb, own)'
    BY <1>5, <2>1, <2>2 DEF Shared, Filling, Leaking
  <2>4. Updating'
    BY <1>2, <1>3, <1>5, <2>1, <2>2 DEF Updating, Filling, Leaking
  <2> QED BY <2>3, <2>4
<1>9. CASE TellHost
  <2>1. /\ pfns' = pfns /\ host' = host /\ state' = state /\ actual' = actual
        /\ \/ bpc = "inflate" /\ told' = "inflate" /\ bpc' = "inflating"
           \/ bpc = "deflate" /\ told' = "deflate" /\ bpc' = "deflating"
    BY <1>9 DEF TellHost, hostVars
  <2>2. Shared(vb, own)'
    BY <1>1, <1>2, <2>1 DEF Shared, Updating, Filling, Leaking
  <2>3. Updating'
    BY <1>2, <1>3, <2>1 DEF Updating, Filling, Leaking
  <2> QED BY <2>2, <2>3
<1>10. CASE HostTold
  <2>1. /\ pfns' = pfns /\ host' = host /\ state' = state /\ actual' = actual /\ told = "done" /\ told' = "none"
        /\ \/ bpc = "inflating" /\ bpc' = "report"
           \/ bpc = "deflating" /\ bpc' = "release"
    BY <1>10 DEF HostTold, hostVars
  <2>2. Shared(vb, own)'
    BY <1>1, <1>2, <2>1 DEF Shared, Updating, Filling, Leaking
  <2>3. Updating'
    BY <1>2, <1>3, <2>1 DEF Updating, Filling, Leaking
  <2> QED BY <2>2, <2>3
<1>11. CASE Report
  <2>1. /\ pfns' = pfns /\ host' = host /\ state' = state /\ actual' = num_pages /\ told' = told
        /\ bpc = "report" /\ bpc' = "end"
    BY <1>11 DEF Report, hostVars
  <2>2. Shared(vb, own)'
    BY <1>1, <1>2, <2>1 DEF Shared, Updating, Filling, Leaking
  <2>3. Updating'
    BY <1>2, <1>3, <2>1 DEF Updating, Filling, Leaking
  <2> QED BY <2>2, <2>3
<1>12. CASE UpdateEnds
  <2>1. /\ pfns' = <<>> /\ host' = host /\ state' = "IDLE" /\ actual' = actual /\ told' = told
        /\ bpc = "end" /\ bpc' = "idle"
    BY <1>12 DEF UpdateEnds, hostVars
  <2>2. Shared(vb, own)'
    BY <1>1, <1>2, <2>1 DEF Shared, Updating, Filling, Leaking
  <2>3. Updating'
    BY <1>2, <1>3, <1>5, <2>1 DEF Updating, Filling, Leaking
  <2> QED BY <2>2, <2>3
<1>13. CASE HostServes
  <2>1. /\ pfns' = pfns /\ state' = state /\ actual' = actual /\ bpc' = bpc /\ told' = "done"
        /\ \/ told = "inflate" /\ host' = host \cup Range(pfns)
           \/ told = "deflate" /\ host' = host \ Range(pfns)
    BY <1>13 DEF HostServes, bodyVars
  <2>2. \/ told = "inflate" /\ bpc = "inflating"
        \/ told = "deflate" /\ bpc = "deflating"
    BY <1>2, <2>1 DEF Updating
  <2>3. Shared(vb, own)'
    <3>1. host' \subseteq Range(vb)
      BY <1>1, <2>1, <2>2 DEF Shared, Filling, Leaking
    <3> QED BY <1>1, <2>1, <2>2, <3>1 DEF Shared, Filling, Leaking
  <2>4. Updating'
    BY <1>2, <1>3, <2>1, <2>2 DEF Updating, Filling, Leaking
  <2> QED BY <2>3, <2>4
<1>14. CASE HostRetargets
  BY <1>1, <1>2, <1>3, <1>14 DEF HostRetargets, bodyVars, Shared, Updating, Filling, Leaking
<1> QED BY <1>6, <1>7, <1>8, <1>9, <1>10, <1>11, <1>12, <1>13, <1>14, SMT

-----------------------------------------------------------------------------
(* The lists of a page that moves.                                          *)
LEMMA Swapped ==
  ASSUME NEW l, NEW h, NEW s, NEW g, NEW t, TwoLists(l, h, s, g, t)
  PROVE  TwoLists(l, g, t, h, s)
  BY Zenon DEF TwoLists

Heads(h, g) == h \in {VB, OWN} /\ g \in {VB, OWN} /\ h # g
LEMMA BothHeads == Heads(VB, OWN) /\ Heads(OWN, VB)
  BY PagesAssumption, Zenon DEF Heads

(* A page on no list joins one, at either end.                              *)
LEMMA JoinedAt ==
  ASSUME NEW l, NEW h, NEW g, Heads(h, g), NEW s, NEW t,
         TwoLists(l, h, s, g, t), NEW p \in Pages, p \notin Range(s), p \notin Range(t),
         NEW m, NEW u, IsLinks(m), IsList(u), Ring(m, h, u), Range(u) = Range(s) \cup {p},
         \A x \in Nodes \ ({p, h} \cup Range(s)) : m.next[x] = l.next[x] /\ m.prev[x] = l.prev[x]
  PROVE  TwoLists(m, h, u, g, t)
<1> USE Zenon
<1>1. /\ h \in {VB, OWN} /\ g \in {VB, OWN} /\ h # g
      /\ IsLinks(l) /\ IsList(s) /\ IsList(t) /\ Ring(l, h, s) /\ Ring(l, g, t)
      /\ Range(s) \cap Range(t) = {}
      /\ \A x \in Pages \ (Range(s) \cup Range(t)) : l.next[x] = x /\ l.prev[x] = x
  BY DEF TwoLists, Heads
<1>2. h \notin Pages /\ g \notin Pages /\ Range(t) \subseteq Pages /\ Range(s) \subseteq Pages
  BY <1>1, PagesAssumption, ListSize
<1>3. ASSUME NEW x \in {g} \cup Range(t) PROVE m.next[x] = l.next[x] /\ m.prev[x] = l.prev[x]
  <2>1. x \in Nodes \ ({p, h} \cup Range(s))
    BY <1>1, <1>2, SMT DEF Nodes
  <2> QED BY <2>1
<1>4. Ring(m, g, t)
  <2>1. IsList(t) /\ Ring(l, g, t) /\ g \in {VB, OWN}
    BY <1>1
  <2>2. Agree(l, m, g, t)
    BY <1>3 DEF Agree
  <2> QED BY <2>1, <2>2, RingKept
<1>5. ASSUME NEW x \in Pages \ (Range(u) \cup Range(t)) PROVE m.next[x] = x /\ m.prev[x] = x
  <2>1. x \in Nodes \ ({p, h} \cup Range(s)) /\ x \in Pages \ (Range(s) \cup Range(t))
    BY <1>2 DEF Nodes
  <2> QED BY <1>1, <2>1
<1>6. Range(u) \cap Range(t) = {}
  BY <1>1
<1> QED BY <1>1, <1>4, <1>5, <1>6 DEF TwoLists, Heads

(* A page p that can join list s of h, and a list s whose first page can leave.  *)
MayJoin(l, h, s, g, t, p) ==
    /\ Heads(h, g) /\ TwoLists(l, h, s, g, t)
    /\ p \in Pages /\ p \notin Range(s) /\ p \notin Range(t)
MayLeave(l, h, s, g, t) == Heads(h, g) /\ TwoLists(l, h, s, g, t) /\ l.next[h] # h

LEMMA JoinedFront ==
  ASSUME NEW l, NEW h, NEW s, NEW g, NEW t, NEW p, MayJoin(l, h, s, g, t, p)
  PROVE  /\ TwoLists(ListAdd(l, p, h), h, <<p>> \o s, g, t)
         /\ Range(<<p>> \o s) = Range(s) \cup {p} /\ <<p>> \o s \in Seq(Pages)
<1> USE Zenon
<1> DEFINE m == ListAdd(l, p, h)
           u == <<p>> \o s
<1>0. /\ Heads(h, g) /\ TwoLists(l, h, s, g, t)
      /\ p \in Pages /\ p \notin Range(s) /\ p \notin Range(t)
  BY DEF MayJoin
<1>1. h \in {VB, OWN} /\ IsLinks(l) /\ IsList(s) /\ Ring(l, h, s)
  BY <1>0 DEF TwoLists, Heads
<1>2. /\ IsLinks(m) /\ IsList(u) /\ Ring(m, h, u) /\ Range(u) = Range(s) \cup {p}
      /\ \A x \in Nodes \ ({p, h} \cup Range(s)) : m.next[x] = l.next[x] /\ m.prev[x] = l.prev[x]
  <2>1. With(l, ListAdd(l, p, h), h, s, <<p>> \o s, p)
    BY <1>0, <1>1, PushFront
  <2> QED BY <2>1 DEF With
<1> HIDE DEF m, u
<1>3. u \in Seq(Pages)
  BY <1>2 DEF IsList
<1>4. TwoLists(m, h, u, g, t)
  BY <1>0, <1>2, JoinedAt, SMT
<1> QED BY <1>2, <1>3, <1>4 DEF m, u

LEMMA JoinedBack ==
  ASSUME NEW l, NEW h, NEW s, NEW g, NEW t, NEW p, MayJoin(l, h, s, g, t, p)
  PROVE  /\ TwoLists(ListAddTail(l, p, h), h, Append(s, p), g, t)
         /\ Range(Append(s, p)) = Range(s) \cup {p} /\ Append(s, p) \in Seq(Pages)
         /\ Len(Append(s, p)) = Len(s) + 1
<1> USE Zenon
<1> DEFINE m == ListAddTail(l, p, h)
           u == Append(s, p)
<1>0. /\ Heads(h, g) /\ TwoLists(l, h, s, g, t)
      /\ p \in Pages /\ p \notin Range(s) /\ p \notin Range(t)
  BY DEF MayJoin
<1>1. h \in {VB, OWN} /\ IsLinks(l) /\ IsList(s) /\ Ring(l, h, s)
  BY <1>0 DEF TwoLists, Heads
<1>2. /\ IsLinks(m) /\ IsList(u) /\ Ring(m, h, u) /\ Range(u) = Range(s) \cup {p}
      /\ Len(u) = Len(s) + 1
      /\ \A x \in Nodes \ ({p, h} \cup Range(s)) : m.next[x] = l.next[x] /\ m.prev[x] = l.prev[x]
  <2>1. With(l, ListAddTail(l, p, h), h, s, Append(s, p), p)
    BY <1>0, <1>1, PushBack
  <2> QED BY <2>1 DEF With
<1> HIDE DEF m, u
<1>3. u \in Seq(Pages)
  BY <1>2 DEF IsList
<1>4. TwoLists(m, h, u, g, t)
  BY <1>0, <1>2, JoinedAt
<1> QED BY <1>2, <1>3, <1>4 DEF m, u

(* The first page of a list leaves it.                                      *)
LEMMA Dropped ==
  ASSUME NEW l, NEW h, NEW s, NEW g, NEW t, MayLeave(l, h, s, g, t)
  PROVE  /\ s # <<>> /\ l.next[h] = s[1] /\ s[1] \in Pages /\ s[1] \in Range(s)
         /\ TwoLists(ListDel(l, s[1]), h, Tail(s), g, t)
         /\ Range(Tail(s)) = Range(s) \ {s[1]} /\ Tail(s) \in Seq(Pages)
         /\ Len(Tail(s)) = Len(s) - 1
<1> USE Zenon
<1>1. /\ h \in {VB, OWN} /\ g \in {VB, OWN} /\ h # g
      /\ IsLinks(l) /\ IsList(s) /\ IsList(t) /\ Ring(l, h, s) /\ Ring(l, g, t)
      /\ Range(s) \cap Range(t) = {}
      /\ \A x \in Pages \ (Range(s) \cup Range(t)) : l.next[x] = x /\ l.prev[x] = x
  BY DEF TwoLists, Heads, MayLeave
<1>2. h \notin Pages /\ g \notin Pages /\ Range(t) \subseteq Pages /\ Range(s) \subseteq Pages
  BY <1>1, PagesAssumption, ListSize
<1>3. s # <<>>
  <2> SUFFICES ASSUME s = <<>> PROVE FALSE
    OBVIOUS
  <2>1. l.next[Stop(h, s, 0)] = Stop(h, s, 0 + 1) /\ Stop(h, s, 0) = h /\ Stop(h, s, 0 + 1) = h
    <3>1. 0 \in 0 .. Len(s) /\ 0 \notin 1 .. Len(s) /\ 0 + 1 \notin 1 .. Len(s)
      BY SMT
    <3> QED BY <1>1, <3>1 DEF Ring, Stop
  <2> QED BY <2>1 DEF MayLeave
<1> DEFINE p == s[1]
           m == ListDel(l, p)
           u == Tail(s)
<1>4. /\ l.next[h] = p /\ p \in Pages /\ p \in Range(s)
      /\ IsLinks(m) /\ IsList(u) /\ Ring(m, h, u)
      /\ m.next[p] = p /\ m.prev[p] = p
      /\ Range(u) = Range(s) \ {p} /\ Len(u) = Len(s) - 1
      /\ \A x \in Nodes \ ({h} \cup Range(s)) : m.next[x] = l.next[x] /\ m.prev[x] = l.prev[x]
  <2>1. Without(l, ListDel(l, s[1]), h, s, Tail(s), s[1])
    BY <1>1, <1>3, PopFront
  <2> QED BY <2>1 DEF Without
<1> HIDE DEF p, m, u
<1>5. ASSUME NEW x \in {g} \cup Range(t) PROVE m.next[x] = l.next[x] /\ m.prev[x] = l.prev[x]
  <2>1. x \in Nodes \ ({h} \cup Range(s))
    BY <1>1, <1>2 DEF Nodes
  <2> QED BY <1>4, <2>1
<1>6. Ring(m, g, t)
  <2>1. IsList(t) /\ Ring(l, g, t) /\ g \in {VB, OWN}
    BY <1>1
  <2>2. Agree(l, m, g, t)
    BY <1>5 DEF Agree
  <2> QED BY <2>1, <2>2, RingKept
<1>7. ASSUME NEW x \in Pages \ (Range(u) \cup Range(t)) PROVE m.next[x] = x /\ m.prev[x] = x
  <2>1. CASE x = p
    BY <1>4, <2>1
  <2>2. CASE x # p
    <3>1. x \in Nodes \ ({h} \cup Range(s)) /\ x \in Pages \ (Range(s) \cup Range(t))
      BY <1>2, <1>4, <2>2 DEF Nodes
    <3> QED BY <1>1, <1>4, <3>1
  <2> QED BY <2>1, <2>2, SMT
<1>8. TwoLists(m, h, u, g, t)
  BY <1>1, <1>4, <1>6, <1>7 DEF TwoLists, Heads
<1>9. u \in Seq(Pages)
  BY <1>4 DEF IsList
<1> QED BY <1>3, <1>4, <1>8, <1>9 DEF p, m, u

-----------------------------------------------------------------------------
(* A step that moves a page between the pool, the lists and DMA memory      *)
(* loses none.                                                              *)
Holdings == Range(free) \cup dma \cup Allocated

LEMMA RelinkIs ==
  ASSUME NEW l, NEW vb, NEW own, TwoLists(l, VB, vb, OWN, own), Relink(l)
  PROVE  Listed(vb, own)'
<1>1. Links'.next = l.next /\ Links'.prev = l.prev
  BY DEF Links, Relink
<1>2. IsLinks(Links')
  BY <1>1, Zenon DEF TwoLists, IsLinks
<1>3. Ring(Links', VB, vb) /\ Ring(Links', OWN, own)
  BY <1>1, Zenon DEF TwoLists, Ring
<1> QED BY <1>1, <1>2, <1>3, Zenon DEF TwoLists, Listed

LEMMA TakenIs ==
  ASSUME PoolApart, NEW p \in Pages, AllocFrame(p)
  PROVE  /\ free' \in Seq(Range(free')) /\ IsInjective(free')
         /\ p \in Range(free) /\ p \notin Allocated /\ p \notin dma
         /\ Range(free') = Range(free) \ {p}
<1>1. /\ free # <<>> /\ p = free[Len(free)] /\ free' = SubSeq(free, 1, Len(free) - 1)
      /\ free \in Seq(Range(free)) /\ IsInjective(free)
      /\ Range(free) \cap Allocated = {} /\ Range(free) \cap dma = {}
  BY Zenon DEF AllocFrame, PoolApart
<1> QED BY <1>1, Popped, Zenon

LEMMA PutBackIs ==
  ASSUME PoolApart, NEW p, p \notin Range(free), FreeFrame(p)
  PROVE  /\ free' \in Seq(Range(free')) /\ IsInjective(free')
         /\ Range(free') = Range(free) \cup {p}
<1>1. free' = Append(free, p) /\ free \in Seq(Range(free)) /\ IsInjective(free)
  BY Zenon DEF FreeFrame, PoolApart
<1> QED BY <1>1, Pushed, Zenon

LEMMA FillAllocStep ==
  ASSUME BalloonInv, FillAlloc
  PROVE  BalloonInv' /\ Holdings' = Holdings
<1> USE Zenon
<1>1. PICK vb, own \in Seq(Pages) : Listed(vb, own) /\ Booked(vb, own) /\ Shared(vb, own)
  BY DEF BalloonInv
<1>2. Updating /\ PoolApart
  BY DEF BalloonInv
<1>3. /\ bpc = "alloc" /\ bpc' \in {"alloc", "enqueue"}
      /\ UNCHANGED <<num_pages, pfns, state, actual, host, told, dma>>
  BY DEF FillAlloc, hostVars
<1>4. Updating'
  BY <1>2, <1>3 DEF Updating, Filling, Leaking
<1>5. host \subseteq Range(vb) /\ Range(pfns) \subseteq Range(vb)
  BY <1>1, <1>2, <1>3 DEF Shared, Updating, Filling
<1>6. \A o : Shared(vb, o)'
  BY <1>3, <1>5 DEF Shared, Filling, Leaking
<1>7. CASE UNCHANGED <<free, next, prev, ref>>
  <2>1. Listed(vb, own)' /\ Booked(vb, own)' /\ PoolApart'
    BY <1>1, <1>2, <1>3, <1>7, SameBooks
  <2>2. Holdings' = Holdings
    BY <1>3, <1>7 DEF Holdings, Allocated
  <2> QED BY <1>4, <1>6, <2>1, <2>2 DEF BalloonInv
<1>8. ASSUME NEW p \in Pages, AllocPage(p), Relink(ListAdd(Links, p, OWN))
      PROVE  BalloonInv' /\ Holdings' = Holdings
  <2>1. /\ free' \in Seq(Range(free')) /\ IsInjective(free')
        /\ p \in Range(free) /\ p \notin Allocated /\ p \notin dma
        /\ Range(free') = Range(free) \ {p}
    BY <1>2, <1>8, TakenIs DEF AllocPage
  <2>2. ref' = [ref EXCEPT ![p] = 1] /\ ref \in [Pages -> {0, 1}]
    BY <1>1, <1>8 DEF AllocPage, Booked
  <2>3. ref' \in [Pages -> {0, 1}] /\ Allocated' = Allocated \cup {p}
    BY <2>2, SMT DEF Allocated
  <2>4. p \in Pages /\ p \notin Range(own) /\ p \notin Range(vb)
    BY <1>1, <2>1 DEF Booked
  <2> DEFINE t == <<p>> \o own
  <2>5. MayJoin(Links, OWN, own, VB, vb, p)
    BY <1>1, <2>4, BothHeads, Swapped DEF Listed, MayJoin
  <2>6. TwoLists(ListAdd(Links, p, OWN), OWN, t, VB, vb) /\ Range(t) = Range(own) \cup {p} /\ t \in Seq(Pages)
    BY <2>5, JoinedFront, SMT
  <2> HIDE DEF t
  <2>7. Listed(vb, t)'
    <3> DEFINE m == ListAdd(Links, p, OWN)
    <3>1. TwoLists(m, VB, vb, OWN, t) /\ Relink(m)
      BY <1>8, <2>6, Swapped
    <3> HIDE DEF m
    <3> QED BY <3>1, RelinkIs
  <2>8. Booked(vb, t)'
    BY <1>1, <1>3, <2>3, <2>6 DEF Booked
  <2>9. PoolApart'
    BY <1>2, <1>3, <2>1, <2>3 DEF PoolApart
  <2>10. Holdings' = Holdings
    BY <1>3, <2>1, <2>3 DEF Holdings
  <2> QED BY <1>4, <1>6, <2>6, <2>7, <2>8, <2>9, <2>10 DEF BalloonInv
<1> QED BY <1>7, <1>8 DEF FillAlloc, AllocFails, listVars

LEMMA Appended ==
  ASSUME NEW s \in Seq(Pages), NEW p \in Pages
  PROVE  Append(s, p) \in Seq(Pages) /\ Range(Append(s, p)) = Range(s) \cup {p}
<1> DEFINE u == Append(s, p)
           n == Len(s)
<1>1. /\ DOMAIN s = 1 .. n /\ n \in Nat /\ DOMAIN u = 1 .. n + 1 /\ u \in Seq(Pages)
      /\ u[n + 1] = p /\ \A i \in 1 .. n : u[i] = s[i]
  OBVIOUS
<1> HIDE DEF u, n
<1>2. /\ \A i \in 1 .. n + 1 : i = n + 1 \/ i \in 1 .. n
      /\ \A i \in 1 .. n : i \in 1 .. n + 1
      /\ n + 1 \in 1 .. n + 1
  BY <1>1
<1>3. Range(u) = Range(s) \cup {p}
  BY <1>1, <1>2, Zenon DEF Range
<1> QED BY <1>1, <1>3, Zenon DEF u

(* list_empty of the call's own list.                                       *)
LEMMA OwnEmpty ==
  ASSUME NEW vb, NEW own, Listed(vb, own), Empty(OWN)
  PROVE  own = <<>>
<1>1. OWN \in {VB, OWN} /\ IsList(own) /\ Ring(Links, OWN, own) /\ IsLinks(Links)
  BY Zenon DEF Listed, TwoLists
<1>2. CASE own # <<>>
  <2>1. Links.next[OWN] = own[1] /\ own[1] \in Pages
    <3>1. Without(Links, ListDel(Links, own[1]), OWN, own, Tail(own), own[1])
      BY <1>1, <1>2, PopFront, Zenon
    <3> QED BY <3>1, Zenon DEF Without
  <2>2. Links.next = next
    BY DEF Links
  <2> QED BY <2>1, <2>2, PagesAssumption, Zenon DEF Empty
<1> QED BY <1>2

LEMMA FillEnqueueStep ==
  ASSUME BalloonInv, FillEnqueue
  PROVE  BalloonInv' /\ Holdings' = Holdings
<1> USE Zenon
<1>1. PICK vb, own \in Seq(Pages) : Listed(vb, own) /\ Booked(vb, own) /\ Shared(vb, own)
  BY DEF BalloonInv
<1>2. Updating /\ PoolApart
  BY DEF BalloonInv
<1>3. /\ bpc = "enqueue"
      /\ UNCHANGED <<free, ref, state, actual, host, told, dma>>
  BY DEF FillEnqueue, hostVars
<1>4. host \subseteq Range(vb) /\ Range(pfns) \subseteq Range(vb)
  BY <1>1, <1>2, <1>3 DEF Shared, Updating, Filling
<1>5. PoolApart' /\ Holdings' = Holdings /\ Allocated' = Allocated
  BY <1>2, <1>3 DEF PoolApart, Holdings, Allocated
<1>6. Links.next = next
  BY SMT DEF Links
<1>7. CASE Empty(OWN)
  <2>1. /\ UNCHANGED <<next, prev, pfns, num_pages>>
        /\ bpc' \in {"report", "inflate"} /\ (bpc' = "report" => pfns = <<>>)
    BY <1>7 DEF FillEnqueue
  <2>2. Listed(vb, own)' /\ Booked(vb, own)'
    BY <1>1, <1>2, <1>3, <2>1, SameBooks
  <2>3. own = <<>>
    BY <1>1, <1>7, OwnEmpty
  <2>4. Shared(vb, own)'
    BY <1>3, <1>4, <2>1, <2>3 DEF Shared, Filling, Leaking
  <2>5. Updating'
    BY <1>2, <1>3, <2>1 DEF Updating, Filling, Leaking
  <2> QED BY <1>5, <2>2, <2>4, <2>5 DEF BalloonInv
<1>8. CASE ~Empty(OWN)
  <2> PICK p : p = next[OWN]
    OBVIOUS
  <2> DEFINE t == Tail(own)
             u == Append(vb, p)
             d == ListDel(Links, p)
  <2>1. /\ Relink(ListAddTail(d, p, VB)) /\ pfns' = Append(pfns, p)
        /\ num_pages' = num_pages + 1 /\ bpc' = bpc
    BY <1>8 DEF FillEnqueue
  <2>2. MayLeave(Links, OWN, own, VB, vb)
    BY <1>1, <1>6, <1>8, BothHeads, Swapped DEF Listed, Empty, MayLeave
  <2>3. /\ p = own[1] /\ p \in Pages /\ p \in Range(own)
        /\ TwoLists(d, OWN, t, VB, vb) /\ Range(t) = Range(own) \ {p} /\ t \in Seq(Pages)
    <3>1. /\ Links.next[OWN] = own[1] /\ own[1] \in Pages /\ own[1] \in Range(own)
          /\ TwoLists(ListDel(Links, own[1]), OWN, t, VB, vb) /\ Range(t) = Range(own) \ {own[1]}
          /\ t \in Seq(Pages)
      BY <2>2, Dropped
    <3> QED BY <1>6, <3>1
  <2> HIDE DEF t, d
  <2>4. Range(vb) \cap Range(own) = {}
    BY <1>1 DEF Listed, TwoLists
  <2>5. MayJoin(d, VB, vb, OWN, t, p)
    BY <2>3, <2>4, BothHeads, Swapped DEF MayJoin
  <2>6. /\ TwoLists(ListAddTail(d, p, VB), VB, u, OWN, t) /\ Range(u) = Range(vb) \cup {p}
        /\ u \in Seq(Pages) /\ Len(u) = Len(vb) + 1
    BY <2>5, JoinedBack, SMT
  <2> HIDE DEF u
  <2>7. Listed(u, t)'
    <3> DEFINE m == ListAddTail(d, p, VB)
    <3> HIDE DEF m
    <3>1. TwoLists(m, VB, u, OWN, t) /\ Relink(m)
      BY <2>1, <2>6 DEF m
    <3> QED BY <3>1, RelinkIs
  <2>8. Booked(u, t)'
    <3>1. Range(u) \cup Range(t) = Allocated /\ num_pages = Len(vb) /\ ref \in [Pages -> {0, 1}]
      BY <1>1, <2>3, <2>6 DEF Booked
    <3> QED BY <1>3, <1>5, <2>1, <2>6, <3>1 DEF Booked
  <2>9. pfns' \in Seq(Pages) /\ Range(pfns') = Range(pfns) \cup {p} /\ num_pages' \in Nat
    <3>1. pfns \in Seq(Pages) /\ num_pages \in Nat
      BY <1>2 DEF Updating
    <3>2. num_pages' \in Nat
      BY <2>1, <3>1, SMT
    <3> QED BY <2>1, <2>3, <3>1, <3>2, Appended
  <2>10. Shared(u, t)'
    <3>1. host' \subseteq Range(u) /\ Range(pfns') \subseteq Range(u) /\ bpc' = "enqueue"
      BY <1>3, <1>4, <2>1, <2>6, <2>9
    <3> QED BY <3>1 DEF Shared, Filling, Leaking
  <2>11. Updating'
    BY <1>2, <1>3, <2>1, <2>9 DEF Updating, Filling, Leaking
  <2> QED BY <1>5, <2>3, <2>6, <2>7, <2>8, <2>10, <2>11 DEF BalloonInv
<1> QED BY <1>7, <1>8

LEMMA LeakDequeueStep ==
  ASSUME BalloonInv, LeakDequeue
  PROVE  BalloonInv' /\ Holdings' = Holdings
<1> USE Zenon
<1>1. PICK vb, own \in Seq(Pages) : Listed(vb, own) /\ Booked(vb, own) /\ Shared(vb, own)
  BY DEF BalloonInv
<1>2. Updating /\ PoolApart
  BY DEF BalloonInv
<1>3. /\ bpc = "dequeue"
      /\ UNCHANGED <<free, ref, state, actual, host, told, dma>>
  BY DEF LeakDequeue, hostVars
<1>4. host \subseteq Range(vb) \cup Range(own) /\ Range(own) = Range(pfns)
  BY <1>1, <1>3 DEF Shared, Leaking
<1>5. PoolApart' /\ Holdings' = Holdings /\ Allocated' = Allocated
  BY <1>2, <1>3 DEF PoolApart, Holdings, Allocated
<1>6. Links.next = next
  BY SMT DEF Links
<1>7. CASE ~(Len(pfns) < num /\ ~Empty(VB))
  <2>1. /\ UNCHANGED <<next, prev, pfns, num_pages>>
        /\ bpc' \in {"release", "deflate"} /\ (bpc' = "release" => pfns = <<>>)
    BY <1>7 DEF LeakDequeue
  <2>2. Listed(vb, own)' /\ Booked(vb, own)'
    BY <1>1, <1>2, <1>3, <2>1, SameBooks
  <2>3. bpc' = "release" => Range(own) = {}
    <3>1. Range(<<>>) = {}
      BY SMT DEF Range
    <3> QED BY <1>4, <2>1, <3>1
  <2>4. Shared(vb, own)'
    <3>1. CASE bpc' = "release"
      BY <1>3, <1>4, <2>1, <2>3, <3>1 DEF Shared, Filling, Leaking
    <3>2. CASE bpc' = "deflate"
      BY <1>3, <1>4, <2>1, <3>2 DEF Shared, Filling, Leaking
    <3> QED BY <2>1, <3>1, <3>2
  <2>5. Updating'
    BY <1>2, <1>3, <2>1 DEF Updating, Filling, Leaking
  <2> QED BY <1>5, <2>2, <2>4, <2>5 DEF BalloonInv
<1>8. CASE Len(pfns) < num /\ ~Empty(VB)
  <2> PICK p : p = next[VB]
    OBVIOUS
  <2> DEFINE u == Tail(vb)
             t == <<p>> \o own
             d == ListDel(Links, p)
  <2>1. /\ Relink(ListAdd(d, p, OWN)) /\ pfns' = Append(pfns, p)
        /\ num_pages' = num_pages - 1 /\ bpc' = bpc
    BY <1>8 DEF LeakDequeue
  <2>2. MayLeave(Links, VB, vb, OWN, own)
    BY <1>1, <1>6, <1>8, BothHeads DEF Listed, Empty, MayLeave
  <2>3. /\ p = vb[1] /\ p \in Pages /\ p \in Range(vb) /\ vb # <<>>
        /\ TwoLists(d, VB, u, OWN, own) /\ Range(u) = Range(vb) \ {p} /\ u \in Seq(Pages)
        /\ Len(u) = Len(vb) - 1
    <3>1. /\ Links.next[VB] = vb[1] /\ vb[1] \in Pages /\ vb[1] \in Range(vb) /\ vb # <<>>
          /\ TwoLists(ListDel(Links, vb[1]), VB, u, OWN, own) /\ Range(u) = Range(vb) \ {vb[1]}
          /\ u \in Seq(Pages) /\ Len(u) = Len(vb) - 1
      BY <2>2, Dropped
    <3> QED BY <1>6, <3>1
  <2> HIDE DEF u, d
  <2>4. Range(vb) \cap Range(own) = {}
    BY <1>1 DEF Listed, TwoLists
  <2>5. MayJoin(d, OWN, own, VB, u, p)
    BY <2>3, <2>4, BothHeads, Swapped DEF MayJoin
  <2>6. /\ TwoLists(ListAdd(d, p, OWN), OWN, t, VB, u) /\ Range(t) = Range(own) \cup {p}
        /\ t \in Seq(Pages)
    <3>1. TwoLists(ListAdd(d, p, OWN), OWN, <<p>> \o own, VB, u)
      BY <2>5, JoinedFront, SMT
    <3>2. Range(<<p>> \o own) = Range(own) \cup {p}
      BY <2>5, JoinedFront, SMT
    <3>3. <<p>> \o own \in Seq(Pages)
      BY <2>5, JoinedFront
    <3> QED BY <3>1, <3>2, <3>3, SMT
  <2> HIDE DEF t
  <2>7. Listed(u, t)'
    <3> DEFINE m == ListAdd(d, p, OWN)
    <3> HIDE DEF m
    <3>1. TwoLists(m, VB, u, OWN, t) /\ Relink(m)
      BY <2>1, <2>6, Swapped DEF m
    <3> QED BY <3>1, RelinkIs
  <2>8. Booked(u, t)'
    <3>1. Range(u) \cup Range(t) = Allocated /\ num_pages = Len(vb) /\ ref \in [Pages -> {0, 1}]
      BY <1>1, <2>3, <2>6 DEF Booked
    <3> QED BY <1>3, <1>5, <2>1, <2>3, <3>1 DEF Booked
  <2>9. pfns' \in Seq(Pages) /\ Range(pfns') = Range(pfns) \cup {p} /\ num_pages' \in Nat
    <3>1. pfns \in Seq(Pages) /\ num_pages = Len(vb)
      BY <1>1, <1>2 DEF Updating, Booked
    <3>2. num_pages' \in Nat
      BY <1>1, <2>1, <2>3, <3>1, SMT
    <3> QED BY <2>1, <2>3, <3>1, <3>2, Appended
  <2>10. Shared(u, t)'
    <3>1. /\ host' \subseteq Range(u) \cup Range(t) /\ Range(pfns') = Range(t)
          /\ bpc' = "dequeue"
      BY <1>3, <1>4, <2>1, <2>3, <2>6, <2>9
    <3> QED BY <3>1 DEF Shared, Filling, Leaking
  <2>11. Updating'
    BY <1>2, <1>3, <2>1, <2>9 DEF Updating, Filling, Leaking
  <2> QED BY <1>5, <2>3, <2>6, <2>7, <2>8, <2>10, <2>11 DEF BalloonInv
<1> QED BY <1>7, <1>8

LEMMA ReleaseStep ==
  ASSUME BalloonInv, Release
  PROVE  BalloonInv' /\ Holdings' = Holdings
<1> USE Zenon
<1>1. PICK vb, own \in Seq(Pages) : Listed(vb, own) /\ Booked(vb, own) /\ Shared(vb, own)
  BY DEF BalloonInv
<1>2. Updating /\ PoolApart
  BY DEF BalloonInv
<1>3. /\ bpc = "release"
      /\ UNCHANGED <<num_pages, pfns, state, actual, host, told, dma>>
  BY DEF Release, hostVars
<1>4. host \subseteq Range(vb)
  BY <1>1, <1>2, <1>3 DEF Shared, Updating
<1>6. Links.next = next
  BY SMT DEF Links
<1>7. CASE Empty(OWN)
  <2>1. UNCHANGED <<free, next, prev, ref>> /\ bpc' = "report"
    BY <1>7 DEF Release, listVars
  <2>2. Listed(vb, own)' /\ Booked(vb, own)' /\ PoolApart'
    BY <1>1, <1>2, <1>3, <2>1, SameBooks
  <2>3. own = <<>>
    BY <1>1, <1>7, OwnEmpty
  <2>4. Shared(vb, own)'
    BY <1>3, <1>4, <2>1, <2>3 DEF Shared, Filling, Leaking
  <2>5. Updating'
    BY <1>2, <1>3, <2>1 DEF Updating, Filling, Leaking
  <2>6. Holdings' = Holdings
    BY <1>3, <2>1 DEF Holdings, Allocated
  <2> QED BY <2>2, <2>4, <2>5, <2>6 DEF BalloonInv
<1>8. CASE ~Empty(OWN)
  <2> PICK p : p = next[OWN]
    OBVIOUS
  <2> DEFINE t == Tail(own)
             d == ListDel(Links, p)
  <2>1. Relink(d) /\ ref' = [ref EXCEPT ![p] = @ - 1] /\ FreeFrame(p) /\ bpc' = bpc
    BY <1>8 DEF Release
  <2>2. MayLeave(Links, OWN, own, VB, vb)
    BY <1>1, <1>6, <1>8, BothHeads, Swapped DEF Listed, Empty, MayLeave
  <2>3. /\ p \in Pages /\ p \in Range(own)
        /\ TwoLists(d, OWN, t, VB, vb) /\ Range(t) = Range(own) \ {p} /\ t \in Seq(Pages)
    <3>1. /\ Links.next[OWN] = own[1] /\ own[1] \in Pages /\ own[1] \in Range(own)
          /\ TwoLists(ListDel(Links, own[1]), OWN, t, VB, vb) /\ Range(t) = Range(own) \ {own[1]}
          /\ t \in Seq(Pages)
      BY <2>2, Dropped
    <3> QED BY <1>6, <3>1
  <2> HIDE DEF t, d
  <2>4. /\ Range(vb) \cap Range(own) = {} /\ Range(vb) \cup Range(own) = Allocated
        /\ ref \in [Pages -> {0, 1}] /\ num_pages = Len(vb)
    BY <1>1 DEF Listed, TwoLists, Booked
  <2>5. p \in Allocated
    BY <2>3, <2>4
  <2>6. ref[p] = 1
    BY <2>5 DEF Allocated
  <2>7. ref' \in [Pages -> {0, 1}] /\ Allocated' = Allocated \ {p}
    <3>1. ref' = [ref EXCEPT ![p] = 0]
      BY <2>1, <2>6, SMT
    <3> QED BY <2>3, <2>4, <3>1, SMT DEF Allocated
  <2>8. p \notin Range(free) /\ p \notin dma
    BY <1>2, <2>5 DEF PoolApart
  <2>9. /\ free' \in Seq(Range(free')) /\ IsInjective(free')
        /\ Range(free') = Range(free) \cup {p}
    BY <1>2, <2>1, <2>8, PutBackIs
  <2>10. Listed(vb, t)'
    <3>1. TwoLists(d, VB, vb, OWN, t)
      BY <2>3, Swapped
    <3> QED BY <2>1, <3>1, RelinkIs
  <2>11. Booked(vb, t)'
    <3>1. Range(vb) \cup Range(t) = Allocated'
      BY <2>3, <2>4, <2>7
    <3> QED BY <1>3, <2>4, <2>7, <3>1 DEF Booked
  <2>12. Shared(vb, t)'
    BY <1>3, <1>4, <2>1 DEF Shared, Filling, Leaking
  <2>13. Updating'
    BY <1>2, <1>3, <2>1 DEF Updating, Filling, Leaking
  <2>14. PoolApart'
    BY <1>2, <1>3, <2>7, <2>8, <2>9 DEF PoolApart
  <2>15. Holdings' = Holdings
    BY <1>3, <2>5, <2>7, <2>9 DEF Holdings
  <2> QED BY <2>3, <2>10, <2>11, <2>12, <2>13, <2>14, <2>15 DEF BalloonInv
<1> QED BY <1>7, <1>8

LEMMA DmaStep ==
  ASSUME BalloonInv, DmaAlloc \/ DmaFree
  PROVE  BalloonInv' /\ Holdings' = Holdings
<1> USE Zenon
<1>1. PICK vb, own \in Seq(Pages) : Listed(vb, own) /\ Booked(vb, own) /\ Shared(vb, own)
  BY DEF BalloonInv
<1>2. Updating /\ PoolApart
  BY DEF BalloonInv
<1>3. UNCHANGED <<next, prev, ref, num_pages, pfns, bpc, state, actual, host, told>>
  BY DEF DmaAlloc, DmaFree, listVars, bodyVars, hostVars
<1>4. Links' = Links /\ Allocated' = Allocated
  BY <1>3 DEF Links, Allocated
<1>5. Listed(vb, own)' /\ Booked(vb, own)'
  BY <1>1, <1>3, <1>4 DEF Listed, TwoLists, Booked
<1>6. Shared(vb, own)' /\ Updating'
  BY <1>1, <1>2, <1>3 DEF Shared, Updating
<1>7. ASSUME NEW f \in Pages, AllocFrame(f), dma' = dma \cup {f}
      PROVE  PoolApart' /\ Holdings' = Holdings
  <2>1. /\ free' \in Seq(Range(free')) /\ IsInjective(free')
        /\ f \in Range(free) /\ f \notin Allocated /\ f \notin dma
        /\ Range(free') = Range(free) \ {f}
    BY <1>2, <1>7, TakenIs
  <2> QED BY <1>2, <1>4, <1>7, <2>1 DEF PoolApart, Holdings
<1>8. ASSUME NEW f \in dma, FreeFrame(f), dma' = dma \ {f}
      PROVE  PoolApart' /\ Holdings' = Holdings
  <2>1. f \notin Range(free) /\ f \notin Allocated
    BY <1>2 DEF PoolApart
  <2>2. /\ free' \in Seq(Range(free')) /\ IsInjective(free')
        /\ Range(free') = Range(free) \cup {f}
    BY <1>2, <1>8, <2>1, PutBackIs
  <2> QED BY <1>2, <1>4, <1>8, <2>1, <2>2 DEF PoolApart, Holdings
<1>9. PoolApart' /\ Holdings' = Holdings
  BY <1>7, <1>8 DEF DmaAlloc, DmaFree
<1> QED BY <1>5, <1>6, <1>9 DEF BalloonInv

(* Every step of the balloon, the host and the other drivers keeps the      *)
(* invariant, and neither loses a frame nor makes one.                      *)
LEMMA BalloonStep ==
  ASSUME BalloonInv, BalloonNext
  PROVE  BalloonInv' /\ Holdings' = Holdings
<1>1. CASE \/ Probe \/ Changed \/ UpdateBegins \/ TellHost \/ HostTold \/ Report \/ UpdateEnds
           \/ HostServes \/ HostRetargets
  <2>1. UNCHANGED <<free, ref, dma>>
    BY <1>1, Zenon DEF Probe, Changed, UpdateBegins, TellHost, HostTold, Report, UpdateEnds,
       HostServes, HostRetargets, listVars, bodyVars, hostVars
  <2>2. Holdings' = Holdings
    BY <2>1, Zenon DEF Holdings, Allocated
  <2> QED BY <1>1, <2>2, ControlStep
<1>2. CASE FillAlloc
  BY <1>2, FillAllocStep
<1>3. CASE FillEnqueue
  BY <1>3, FillEnqueueStep
<1>4. CASE LeakDequeue
  BY <1>4, LeakDequeueStep
<1>5. CASE Release
  BY <1>5, ReleaseStep
<1>6. CASE DmaAlloc \/ DmaFree
  BY <1>6, DmaStep
<1> QED BY <1>1, <1>2, <1>3, <1>4, <1>5, <1>6, Zenon DEF BalloonNext, UpdateStep

-----------------------------------------------------------------------------
(* The frames of memory between two addresses.                              *)
Aligned(x) == x \in Nat /\ x % FRAME_SIZE = 0
Between(a, b) == {x \in Nat : Aligned(x) /\ a <= x /\ x < b}

LEMMA AlignedIs ==
  ASSUME NEW x
  PROVE  Aligned(x) <=> \E q \in Nat : x = q * FRAME_SIZE
<1> DEFINE F == FRAME_SIZE
<1>1. F \in Nat \ {0}
  BY FramesAssumption
<1> HIDE DEF F
<1>2. ASSUME x \in Nat, x % F = 0 PROVE x \div F \in Nat /\ x = (x \div F) * F
  BY <1>1, <1>2
<1>3. ASSUME NEW q \in Nat, x = q * F PROVE x \in Nat /\ x % F = 0
  BY <1>1, <1>3
<1> QED BY <1>2, <1>3, Zenon DEF Aligned, F

LEMMA AlignedSum ==
  ASSUME NEW x, NEW y, Aligned(x), Aligned(y)
  PROVE  Aligned(x + y) /\ (y <= x => Aligned(x - y))
<1> DEFINE F == FRAME_SIZE
<1>1. F \in Nat \ {0}
  BY FramesAssumption
<1> HIDE DEF F
<1>2. PICK q \in Nat : x = q * F
  BY AlignedIs, Zenon DEF F
<1>3. PICK r \in Nat : y = r * F
  BY AlignedIs, Zenon DEF F
<1>4. q + r \in Nat /\ x + y = (q + r) * F
  BY <1>1, <1>2, <1>3
<1>5. y <= x => q - r \in Nat /\ x - y = (q - r) * F
  <2>1. q < r => q * F < r * F
    BY <1>1
  <2> QED BY <1>1, <1>2, <1>3, <2>1
<1> QED BY <1>4, <1>5, AlignedIs, Zenon DEF F

(* add_region of whole frames gives each of them once.                      *)
LEMMA AddRegionIs ==
  ASSUME NEW a, NEW b, Aligned(a), Aligned(b), a <= b
  PROVE  LET r == AddRegion(a, b - a)
         IN  r \in Seq(Nat) /\ IsInjective(r) /\ Range(r) = Between(a, b)
<1> DEFINE F == FRAME_SIZE
           r == AddRegion(a, b - a)
<1>1. F \in Nat \ {0}
  BY FramesAssumption
<1>2. PICK q \in Nat : a = q * F
  BY AlignedIs, Zenon
<1>3. PICK p \in Nat : b = p * F
  BY AlignedIs, Zenon
<1>4. a \in Nat /\ b \in Nat
  BY Zenon DEF Aligned
<1> DEFINE lo == ((a + F - 1) \div F) * F
           hi == ((a + (b - a)) \div F) * F
           n == IF hi <= lo THEN 0 ELSE (hi - lo) \div F
<1>5. r = [i \in 1 .. n |-> lo + (i - 1) * F]
  BY Zenon DEF AddRegion
<1> HIDE DEF F, r
<1>6. lo = a
  <2>1. a + F - 1 = q * F + (F - 1) /\ F - 1 \in 0 .. F - 1
    BY <1>1, <1>2, <1>4
  <2>2. (q * F + (F - 1)) \div F = q
    BY <1>1
  <2> QED BY <1>2, <2>1, <2>2
<1>7. hi = b
  <2>1. a + (b - a) = p * F
    BY <1>3, <1>4
  <2>2. (p * F) \div F = p
    BY <1>1
  <2> QED BY <1>3, <2>1, <2>2
<1>8. q <= p
  <2>1. p < q => p * F < q * F
    BY <1>1
  <2> QED BY <1>2, <1>3, <1>4, <2>1
<1>9. n = p - q
  <2>1. hi - lo = (p - q) * F
    BY <1>1, <1>2, <1>3, <1>6, <1>7
  <2>2. ((p - q) * F) \div F = p - q
    BY <1>1, <1>8
  <2>3. hi <= lo => p = q
    <3>1. q < p => q * F < p * F
      BY <1>1
    <3> QED BY <1>2, <1>3, <1>4, <1>6, <1>7, <1>8, <3>1
  <2> HIDE DEF hi, lo
  <2> QED BY <2>1, <2>2, <2>3
<1> HIDE DEF lo, hi, n
<1>10. r = [i \in 1 .. p - q |-> a + (i - 1) * F]
  BY <1>5, <1>6, <1>9, Zenon
<1>11. \A i \in 1 .. p - q : r[i] = (q + i - 1) * F /\ q + i - 1 \in Nat /\ r[i] \in Nat
  BY <1>1, <1>2, <1>10
<1>12. r \in Seq(Nat) /\ DOMAIN r = 1 .. p - q
  BY <1>8, <1>10, <1>11
<1>13. IsInjective(r)
  <2>1. ASSUME NEW i \in 1 .. p - q, NEW j \in 1 .. p - q, r[i] = r[j] PROVE i = j
    <3>1. (q + i - 1) * F = (q + j - 1) * F
      BY <1>11, <2>1
    <3> QED BY <1>1, <3>1
  <2> QED BY <1>12, <2>1, Zenon DEF IsInjective
<1>14. ASSUME NEW x \in Range(r) PROVE x \in Between(a, b)
  <2>1. PICK i \in 1 .. p - q : x = r[i]
    BY <1>12, Zenon DEF Range
  <2>2. x = (q + i - 1) * F /\ q + i - 1 \in Nat /\ x \in Nat
    BY <1>11, <2>1
  <2>3. Aligned(x)
    BY <2>2, AlignedIs, Zenon DEF F
  <2>4. q * F <= (q + i - 1) * F /\ (q + i - 1) * F < p * F
    BY <1>1, <1>8
  <2> QED BY <1>2, <1>3, <2>2, <2>3, <2>4, Zenon DEF Between
<1>15. ASSUME NEW x \in Between(a, b) PROVE x \in Range(r)
  <2>1. Aligned(x) /\ a <= x /\ x < b /\ x \in Nat
    BY Zenon DEF Between
  <2>2. PICK k \in Nat : x = k * F
    BY <2>1, AlignedIs, Zenon DEF F
  <2>3. q <= k /\ k < p
    <3>1. q * F <= k * F /\ k * F < p * F
      BY <1>2, <1>3, <2>1, <2>2
    <3> QED BY <1>1, <3>1
  <2>4. k - q + 1 \in 1 .. p - q /\ q + (k - q + 1) - 1 = k
    BY <2>3
  <2>5. r[k - q + 1] = x
    BY <1>11, <2>2, <2>4
  <2> QED BY <1>12, <2>4, <2>5, Zenon DEF Range
<1> QED BY <1>12, <1>13, <1>14, <1>15, Zenon DEF r

LEMMA Concat ==
  ASSUME NEW s \in Seq(Nat), NEW t \in Seq(Nat), IsInjective(s), IsInjective(t),
         Range(s) \cap Range(t) = {}
  PROVE  /\ s \o t \in Seq(Nat) /\ IsInjective(s \o t)
         /\ Range(s \o t) = Range(s) \cup Range(t)
<1> USE Zenon
<1> DEFINE u == s \o t
           n == Len(s)
           k == Len(t)
<1>1. /\ n \in Nat /\ k \in Nat /\ DOMAIN s = 1 .. n /\ DOMAIN t = 1 .. k
      /\ u \in Seq(Nat) /\ DOMAIN u = 1 .. n + k
      /\ \A i \in 1 .. n : u[i] = s[i]
      /\ \A i \in 1 .. n + k : i \notin 1 .. n => i - n \in 1 .. k /\ u[i] = t[i - n]
  BY SMT
<1> HIDE DEF u, n, k
<1>2. \A i \in 1 .. n : i \in 1 .. n + k
  BY <1>1, SMT
<1>3. \A i \in 1 .. k : i + n \in 1 .. n + k /\ i + n \notin 1 .. n /\ (i + n) - n = i
  BY <1>1, SMT
<1>4. Range(u) = Range(s) \cup Range(t)
  <2>1. Range(u) \subseteq Range(s) \cup Range(t)
    BY <1>1 DEF Range
  <2>2. Range(s) \subseteq Range(u)
    BY <1>1, <1>2 DEF Range
  <2>3. ASSUME NEW i \in 1 .. k PROVE t[i] = u[i + n] /\ i + n \in 1 .. n + k
    BY <1>1, <1>3, SMT
  <2>4. ASSUME NEW x \in Range(t) PROVE x \in Range(u)
    <3>1. PICK i \in 1 .. k : x = t[i]
      BY <1>1 DEF Range
    <3>2. x = u[i + n] /\ i + n \in DOMAIN u
      BY <1>1, <2>3, <3>1
    <3> QED BY <3>2 DEF Range
  <2> QED BY <2>1, <2>2, <2>4
<1>5. ASSUME NEW i \in 1 .. n + k, NEW j \in 1 .. n + k, u[i] = u[j] PROVE i = j
  <2>1. CASE i \in 1 .. n /\ j \in 1 .. n
    BY <1>1, <1>5, <2>1 DEF IsInjective
  <2>2. CASE i \notin 1 .. n /\ j \notin 1 .. n
    <3>1. i - n \in 1 .. k /\ j - n \in 1 .. k /\ t[i - n] = t[j - n]
      BY <1>1, <1>5, <2>2
    <3>2. i - n = j - n
      BY <1>1, <3>1 DEF IsInjective
    <3> QED BY <1>1, <3>2, SMT
  <2>3. CASE i \in 1 .. n /\ j \notin 1 .. n
    BY <1>1, <1>5, <2>3 DEF Range
  <2>4. CASE i \notin 1 .. n /\ j \in 1 .. n
    BY <1>1, <1>5, <2>4 DEF Range
  <2> QED BY <2>1, <2>2, <2>3, <2>4
<1> QED BY <1>1, <1>4, <1>5 DEF u, IsInjective

LEMMA TheEmpty == <<>> \in Seq(Nat) /\ IsInjective(<<>>) /\ Range(<<>>) = {}
  BY DEF IsInjective, Range

LEMMA MinMaxOf ==
  ASSUME NEW x \in Nat, NEW y \in Nat
  PROVE  /\ Min({x, y}) = IF x <= y THEN x ELSE y
         /\ Max({x, y}) = IF x <= y THEN y ELSE x
<1>1. {x, y} \subseteq Nat
  OBVIOUS
<1>2. x <= y \/ y <= x
  OBVIOUS
<1>3. Min({x, y}) = IF x <= y THEN x ELSE y
  <2> DEFINE z == IF x <= y THEN x ELSE y
  <2>1. z \in {x, y} /\ \A w \in {x, y} : z <= w
    BY <1>2
  <2> HIDE DEF z
  <2>2. Min({x, y}) = z
    BY <1>1, <2>1, MinUnique
  <2> QED BY <2>2 DEF z
<1>4. Max({x, y}) = IF x <= y THEN y ELSE x
  <2>1. \E z \in {x, y} : \A w \in {x, y} : z >= w
    BY <1>2
  <2>2. Max({x, y}) \in {x, y} /\ \A w \in {x, y} : Max({x, y}) >= w
    BY <2>1, Zenon DEF Max
  <2> QED BY <2>2
<1> QED BY <1>3, <1>4

(* A region without the heap.                                               *)
LEMMA AroundIs ==
  ASSUME NEW region, NEW h, Aligned(region.base), Aligned(region.length),
         Aligned(h.start), Aligned(h.end), h.start <= h.end
  PROVE  LET b == region.base
             r == Around(region, h)
         IN  /\ r \in Seq(Nat) /\ IsInjective(r)
             /\ Range(r) = Between(b, b + region.length) \ Between(h.start, h.end)
<1> USE Zenon
<1> PICK b, e, hs, he : b = region.base /\ e = b + region.length /\ hs = h.start /\ he = h.end
  OBVIOUS
<1> DEFINE after == Max({b, he})
           upto == Min({e, hs})
           one == IF b < hs THEN AddRegion(b, upto - b) ELSE <<>>
           two == IF e > he THEN AddRegion(after, e - after) ELSE <<>>
<1>1. Around(region, h) = one \o two
  BY DEF Around
<1>2. Aligned(b) /\ Aligned(e) /\ Aligned(hs) /\ Aligned(he)
  BY AlignedSum
<1>3. b \in Nat /\ e \in Nat /\ hs \in Nat /\ he \in Nat /\ hs <= he /\ b <= e
  <2>1. b \in Nat /\ hs \in Nat /\ he \in Nat /\ region.length \in Nat /\ hs <= he
    BY DEF Aligned
  <2> QED BY <2>1, SMT
<1>4. (upto = IF e <= hs THEN e ELSE hs) /\ (after = IF b <= he THEN he ELSE b)
  BY <1>3, MinMaxOf
<1> HIDE DEF upto, after
<1>5. Aligned(upto) /\ Aligned(after)
  BY <1>2, <1>4
<1>6. one \in Seq(Nat) /\ IsInjective(one) /\ Range(one) = IF b < hs THEN Between(b, upto) ELSE {}
  <2>1. CASE b < hs
    <3>1. b <= upto
      BY <1>3, <1>4, <2>1, SMT
    <3> QED BY <1>2, <1>5, <2>1, <3>1, AddRegionIs
  <2>2. CASE ~(b < hs)
    BY <2>2, TheEmpty
  <2> QED BY <2>1, <2>2, SMT
<1>7. two \in Seq(Nat) /\ IsInjective(two) /\ Range(two) = IF e > he THEN Between(after, e) ELSE {}
  <2>1. CASE e > he
    <3>1. after <= e
      BY <1>3, <1>4, <2>1, SMT
    <3> QED BY <1>2, <1>5, <2>1, <3>1, AddRegionIs
  <2>2. CASE ~(e > he)
    BY <2>2, TheEmpty
  <2> QED BY <2>1, <2>2, SMT
<1> HIDE DEF one, two
<1>8. ASSUME NEW x \in Nat
      PROVE  /\ (b < hs /\ b <= x /\ x < upto) \/ (e > he /\ after <= x /\ x < e)
                  <=> b <= x /\ x < e /\ ~(hs <= x /\ x < he)
             /\ ~((b < hs /\ b <= x /\ x < upto) /\ (e > he /\ after <= x /\ x < e))
  BY <1>3, <1>4, SMT
<1>9. ASSUME NEW x
      PROVE  /\ x \in Range(one) <=> x \in Nat /\ Aligned(x) /\ b < hs /\ b <= x /\ x < upto
             /\ x \in Range(two) <=> x \in Nat /\ Aligned(x) /\ e > he /\ after <= x /\ x < e
  BY <1>6, <1>7 DEF Between
<1>10. Range(one) \cap Range(two) = {}
  BY <1>8, <1>9
<1>11. Range(one) \cup Range(two) = Between(b, e) \ Between(hs, he)
  BY <1>8, <1>9 DEF Between
<1>12. /\ one \o two \in Seq(Nat) /\ IsInjective(one \o two)
       /\ Range(one \o two) = Range(one) \cup Range(two)
  BY <1>6, <1>7, <1>10, Concat, SMT
<1> QED BY <1>1, <1>11, <1>12

-----------------------------------------------------------------------------
(* A map of whole frames that do not overlap.                               *)
Reg(map, i) == Between(map[i].base, map[i].base + map[i].length)
GoodMap(map) ==
    /\ Len(map) \in Nat /\ DOMAIN map = 1 .. Len(map)
    /\ \A i \in Ours(map) : Aligned(map[i].base) /\ Aligned(map[i].length)
    /\ \A i, j \in Ours(map) : i # j =>
          \/ map[i].base + map[i].length <= map[j].base
          \/ map[j].base + map[j].length <= map[i].base
OfType(map, type) == {i \in DOMAIN map : map[i].type = type}

LEMMA OursAre ==
  ASSUME NEW map
  PROVE  /\ Usable(map) = OfType(map, "USABLE")
         /\ OfType(map, "USABLE") \subseteq Ours(map)
         /\ OfType(map, "RECLAIMABLE") \subseteq Ours(map)
         /\ \A i \in OfType(map, "RECLAIMABLE") : i \notin OfType(map, "USABLE")
<1>1. "USABLE" # "RECLAIMABLE"
  OBVIOUS
<1> QED BY <1>1, Zenon DEF Usable, OfType, Ours

LEMMA RegsApart ==
  ASSUME NEW map, GoodMap(map), NEW i \in Ours(map), NEW j \in Ours(map), i # j
  PROVE  Reg(map, i) \cap Reg(map, j) = {}
<1> PICK b, c, l, k : b = map[i].base /\ c = map[j].base /\ l = map[i].length /\ k = map[j].length
  BY Zenon
<1>1. b \in Nat /\ c \in Nat /\ l \in Nat /\ k \in Nat /\ (b + l <= c \/ c + k <= b)
  BY Zenon DEF GoodMap, Aligned
<1>2. \A x \in Nat : ~(b <= x /\ x < b + l /\ c <= x /\ x < c + k)
  BY <1>1
<1> QED BY <1>2, Zenon DEF Reg, Between

LEMMA RegionIs ==
  ASSUME NEW map, GoodMap(map), NEW i \in Ours(map)
  PROVE  Range(AddRegion(map[i].base, map[i].length)) = Reg(map, i)
<1> USE Zenon
<1> PICK b, l : b = map[i].base /\ l = map[i].length
  OBVIOUS
<1>1. Aligned(b) /\ Aligned(l)
  BY DEF GoodMap
<1>2. b \in Nat /\ l \in Nat
  BY <1>1 DEF Aligned
<1>3. b <= b + l /\ (b + l) - b = l
  BY <1>2, SMT
<1>4. Aligned(b + l)
  BY <1>1, AlignedSum
<1>5. Range(AddRegion(b, (b + l) - b)) = Between(b, b + l)
  BY <1>1, <1>3, <1>4, AddRegionIs
<1> QED BY <1>3, <1>5 DEF Reg

LEMMA FramesOfIs ==
  ASSUME NEW map, GoodMap(map), NEW type, OfType(map, type) \subseteq Ours(map)
  PROVE  FramesOf(map, type) = UNION {Reg(map, i) : i \in OfType(map, type)}
<1> USE Zenon
<1>1. \A i \in OfType(map, type) : Range(AddRegion(map[i].base, map[i].length)) = Reg(map, i)
  BY RegionIs
<1>2. FramesOf(map, type) = UNION {Range(AddRegion(map[i].base, map[i].length)) : i \in OfType(map, type)}
  BY DEF FramesOf, OfType
<1> QED BY <1>1, <1>2

(* The longest usable region, the last of those that are equally long.      *)
Longer(map, i, j) == map[j].length < map[i].length \/ (map[j].length = map[i].length /\ j < i)
LEMMA Longest ==
  ASSUME NEW map, GoodMap(map), Usable(map) # {}
  PROVE  \E i \in Usable(map) : \A j \in Usable(map) \ {i} : Longer(map, i, j)
<1> USE Zenon
<1> DEFINE n == Len(map)
           U(k) == Usable(map) \cap (1 .. k)
           Best(k, i) == \A j \in U(k) \ {i} : Longer(map, i, j)
           S == {k \in 0 .. n : U(k) # {} => \E i \in U(k) : Best(k, i)}
<1>1. n \in Nat /\ Usable(map) \subseteq 1 .. n /\ \A i \in Usable(map) : map[i].length \in Nat
  BY OursAre DEF GoodMap, Usable, Aligned
<1>2. 0 \in S
  <2>1. U(0) = {} /\ 0 \in 0 .. n
    BY <1>1, SMT
  <2> QED BY <2>1
<1>3. ASSUME NEW k \in 0 .. n - 1, k \in S PROVE k + 1 \in S
  <2>1. k + 1 \in 0 .. n /\ k \in Nat
    BY <1>1, SMT
  <2>2. CASE k + 1 \notin Usable(map)
    <3>1. U(k + 1) = U(k)
      BY <1>1, <2>1, <2>2, SMT
    <3> QED BY <1>3, <2>1, <3>1
  <2>3. CASE k + 1 \in Usable(map)
    <3>1. U(k + 1) = U(k) \cup {k + 1}
      BY <1>1, <2>1, <2>3, SMT
    <3>2. map[k + 1].length \in Nat /\ \A j \in U(k) : j < k + 1 /\ map[j].length \in Nat /\ j \in Nat
      BY <1>1, <2>1, <2>3, SMT
    <3>3. CASE U(k) = {}
      BY <2>1, <3>1, <3>3
    <3>4. CASE U(k) # {}
      <4>1. PICK i \in U(k) : Best(k, i)
        BY <1>3, <3>4
      <4>2. CASE map[k + 1].length < map[i].length
        <5>1. Best(k + 1, i)
          BY <3>1, <4>1, <4>2 DEF Longer
        <5> QED BY <2>1, <3>1, <5>1
      <4>3. CASE ~(map[k + 1].length < map[i].length)
        <5>1. ASSUME NEW j \in U(k) PROVE Longer(map, k + 1, j)
          <6>1. j = i \/ Longer(map, i, j)
            BY <4>1
          <6>2. /\ map[k + 1].length \in Nat /\ map[i].length \in Nat /\ map[j].length \in Nat
                /\ j < k + 1
            BY <3>2
          <6> QED BY <4>3, <6>1, <6>2, SMT DEF Longer
        <5>2. Best(k + 1, k + 1)
          BY <3>1, <5>1
        <5> QED BY <2>1, <3>1, <5>2
      <4> QED BY <4>2, <4>3, SMT
    <3> QED BY <3>3, <3>4, SMT
  <2> QED BY <2>2, <2>3, SMT
<1>4. n \in 0 .. n /\ U(n) = Usable(map)
  BY <1>1, SMT
<1>5. n \in S
  <2> HIDE DEF S
  <2> QED BY <1>1, <1>2, <1>3, <1>4, UpTo
<1> QED BY <1>4, <1>5

LEMMA HeapIs ==
  ASSUME NEW map, GoodMap(map), Usable(map) # {}
  PROVE  LET h == HeapOf(map)
         IN  /\ Aligned(h.start) /\ Aligned(h.end) /\ h.start <= h.end
             /\ \E r \in Usable(map) : Between(h.start, h.end) \subseteq Reg(map, r)
<1> USE Zenon
<1> DEFINE h == HeapOf(map)
           Is(i) == \A j \in Usable(map) \ {i} : Longer(map, i, j)
           r == CHOOSE i \in Usable(map) : Is(i)
<1>1. r \in Usable(map)
  BY Longest
<1>2. h = [start |-> map[r].base, end |-> map[r].base + Min({map[r].length, HEAP_CAP})]
  BY DEF HeapOf, Longer
<1> HIDE DEF r
<1> PICK b, l, z : b = map[r].base /\ l = map[r].length /\ z = Min({l, HEAP_CAP})
  OBVIOUS
<1>3. Aligned(b) /\ Aligned(l) /\ Aligned(HEAP_CAP)
  BY <1>1, OursAre, FramesAssumption DEF GoodMap, Aligned
<1>4. b \in Nat /\ l \in Nat /\ HEAP_CAP \in Nat
  BY <1>3 DEF Aligned
<1>5. z = IF l <= HEAP_CAP THEN l ELSE HEAP_CAP
  BY <1>4, MinMaxOf
<1>6. Aligned(z)
  BY <1>3, <1>5
<1>7. h.start = b /\ h.end = b + z
  BY <1>2, SMT
<1> HIDE DEF h
<1>8. Aligned(h.start) /\ Aligned(h.end)
  BY <1>3, <1>6, <1>7, AlignedSum
<1>9. h.start <= h.end /\ \A x \in Nat : x < h.end => x < b + l
  BY <1>4, <1>5, <1>7, SMT
<1>10. Between(h.start, h.end) \subseteq Reg(map, r)
  BY <1>7, <1>9 DEF Between, Reg
<1> QED BY <1>1, <1>8, <1>9, <1>10 DEF h

(* The pool has every usable frame but those of the heap, once.             *)
LEMMA PoolIs ==
  ASSUME NEW map, GoodMap(map), NEW h, Aligned(h.start), Aligned(h.end), h.start <= h.end
  PROVE  LET pool == PoolOf(map, h)
         IN  /\ pool \in Seq(Nat) /\ IsInjective(pool)
             /\ Range(pool) = FramesOf(map, "USABLE") \ Between(h.start, h.end)
<1> USE Zenon
<1> DEFINE n == Len(map)
           Part(i) == IF i \in Usable(map) THEN Around(map[i], h) ELSE <<>>
           IsPool(g) == g = [i \in 0 .. n |-> IF i = 0 THEN <<>> ELSE g[i - 1] \o Part(i)]
           pool == CHOOSE g : IsPool(g)
           H == Between(h.start, h.end)
           Regs(I) == UNION {Reg(map, i) : i \in I}
           Up(k) == Regs(Usable(map) \cap (1 .. k)) \ H
<1>1. PoolOf(map, h) = pool[n]
  BY DEF PoolOf
<1>2. n \in Nat /\ Usable(map) \subseteq 1 .. n /\ Usable(map) \subseteq Ours(map)
  BY OursAre DEF GoodMap, Usable
<1>3. ASSUME NEW i
      PROVE  /\ Part(i) \in Seq(Nat) /\ IsInjective(Part(i))
             /\ Range(Part(i)) = IF i \in Usable(map) THEN Reg(map, i) \ H ELSE {}
  <2>1. CASE i \in Usable(map)
    <3>1. Aligned(map[i].base) /\ Aligned(map[i].length)
      BY <1>2, <2>1 DEF GoodMap
    <3> QED BY <2>1, <3>1, AroundIs DEF Reg
  <2>2. CASE i \notin Usable(map)
    BY <2>2, TheEmpty
  <2> QED BY <2>1, <2>2, SMT
<1> HIDE DEF Part, n, H
<1>4. \E g \in [0 .. n -> Seq(Nat)] : IsPool(g)
  <2> DEFINE F == [k \in 0 .. n |-> [v \in Seq(Nat) |-> v \o Part(k)]]
  <2>1. ASSUME NEW k \in 0 .. n, NEW v \in Seq(Nat) PROVE v \o Part(k) \in Seq(Nat)
    <3>1. Part(k) \in Seq(Nat)
      BY <1>3
    <3> QED BY <3>1, SMT
  <2>2. F \in [0 .. n -> [Seq(Nat) -> Seq(Nat)]]
    BY <2>1
  <2>3. \A k \in 0 .. n : \A v \in Seq(Nat) : F[k][v] = v \o Part(k)
    OBVIOUS
  <2> HIDE DEF F
  <2>4. PICK g \in [0 .. n -> Seq(Nat)] : Recurs(g, n, <<>>, F)
    BY <1>2, <2>2, TheEmpty, Recursion
  <2>5. ASSUME NEW k \in 0 .. n, k # 0 PROVE F[k][g[k - 1]] = g[k - 1] \o Part(k)
    <3>1. k - 1 \in 0 .. n
      BY <1>2, <2>5, SMT
    <3>2. g[k - 1] \in Seq(Nat)
      BY <3>1
    <3> QED BY <2>3, <3>2
  <2>6. IsPool(g)
    BY <2>4, <2>5 DEF Recurs
  <2> QED BY <2>6
<1>5. IsPool(pool)
  <2> HIDE DEF IsPool
  <2> QED BY <1>4
<1> HIDE DEF pool
<1>6. pool[0] = <<>> /\ \A k \in 0 .. n - 1 : pool[k + 1] = pool[k] \o Part(k + 1)
  <2>1. 0 \in 0 .. n
    BY <1>2, SMT
  <2>2. ASSUME NEW k \in 0 .. n - 1 PROVE k + 1 \in 0 .. n /\ k + 1 # 0 /\ (k + 1) - 1 = k
    BY <1>2, SMT
  <2> QED BY <1>5, <2>1, <2>2
<1> DEFINE S == {k \in 0 .. n : pool[k] \in Seq(Nat) /\ IsInjective(pool[k]) /\ Range(pool[k]) = Up(k)}
<1>7. 0 \in S
  <2>1. 0 \in 0 .. n /\ 1 .. 0 = {}
    BY <1>2, SMT
  <2>2. Up(0) = {}
    BY <2>1
  <2> HIDE DEF Up
  <2> QED BY <1>6, <2>1, <2>2, TheEmpty
<1>8. ASSUME NEW k \in 0 .. n - 1, k \in S PROVE k + 1 \in S
  <2>1. k + 1 \in 0 .. n /\ k \in Nat /\ 1 .. k + 1 = (1 .. k) \cup {k + 1} /\ k + 1 \notin 1 .. k
    BY <1>2, SMT
  <2>2. Up(k + 1) = Up(k) \cup Range(Part(k + 1))
    <3>1. CASE k + 1 \in Usable(map)
      <4>1. Usable(map) \cap (1 .. k + 1) = (Usable(map) \cap (1 .. k)) \cup {k + 1}
        BY <2>1, <3>1
      <4>2. \A I : Regs(I \cup {k + 1}) = Regs(I) \cup Reg(map, k + 1)
        OBVIOUS
      <4> HIDE DEF Regs
      <4>3. Up(k + 1) = (Regs(Usable(map) \cap (1 .. k)) \cup Reg(map, k + 1)) \ H
        BY <4>1, <4>2
      <4> QED BY <1>3, <3>1, <4>3
    <3>2. CASE k + 1 \notin Usable(map)
      <4>1. Usable(map) \cap (1 .. k + 1) = Usable(map) \cap (1 .. k)
        BY <2>1, <3>2
      <4> HIDE DEF Regs
      <4> QED BY <1>3, <3>2, <4>1
    <3> QED BY <3>1, <3>2, SMT
  <2>3. Up(k) \cap Range(Part(k + 1)) = {}
    <3>1. CASE k + 1 \in Usable(map)
      <4>1. \A i \in Usable(map) \cap (1 .. k) : Reg(map, i) \cap Reg(map, k + 1) = {}
        BY <1>2, <2>1, <3>1, RegsApart
      <4> QED BY <1>3, <3>1, <4>1
    <3>2. CASE k + 1 \notin Usable(map)
      BY <1>3, <3>2
    <3> QED BY <3>1, <3>2, SMT
  <2> HIDE DEF Up
  <2>4. pool[k] \in Seq(Nat) /\ IsInjective(pool[k]) /\ Range(pool[k]) = Up(k)
    BY <1>8
  <2>5. Part(k + 1) \in Seq(Nat) /\ IsInjective(Part(k + 1))
    BY <1>3
  <2>6. Range(pool[k]) \cap Range(Part(k + 1)) = {}
    BY <2>3, <2>4
  <2>7. /\ pool[k] \o Part(k + 1) \in Seq(Nat) /\ IsInjective(pool[k] \o Part(k + 1))
        /\ Range(pool[k] \o Part(k + 1)) = Range(pool[k]) \cup Range(Part(k + 1))
    BY <2>4, <2>5, <2>6, Concat, SMT
  <2> QED BY <1>6, <2>1, <2>2, <2>4, <2>7
<1>9. n \in 0 .. n
  BY <1>2, SMT
<1>10. n \in S
  <2> HIDE DEF S
  <2> QED BY <1>2, <1>7, <1>8, <1>9, UpTo
<1>11. Up(n) = FramesOf(map, "USABLE") \ H
  <2>1. Usable(map) \cap (1 .. n) = OfType(map, "USABLE")
    BY <1>2, OursAre
  <2>2. FramesOf(map, "USABLE") = Regs(OfType(map, "USABLE"))
    BY OursAre, FramesOfIs
  <2> HIDE DEF Regs
  <2> QED BY <2>1, <2>2
<1> QED BY <1>1, <1>10, <1>11 DEF H

-----------------------------------------------------------------------------
(* Where the BSP is: from paging::init on it runs on the kernel's tables.   *)
Paged == {"apic", "acpi", "madt", "gs", "ioapic", "kbd", "smp", "goto", "wait", "up"}
Stations == Paged \cup {"heap", "idt", "lidt", "frames", "paging", "panic"}
StageInv ==
    /\ machine \in Machines
    /\ DOMAIN pc = Cpus /\ DOMAIN cr3 = Cpus
    /\ pc[bsp] \in Stations
    /\ pc[bsp] \in Paged => cr3[bsp] = kernel_pml4

Enters(S) == pc'[bsp] \in S /\ pc[bsp] \notin S

LEMMA BspIsCpu ==
  ASSUME machine \in Machines
  PROVE  bsp \in Cpus
BY MachinesAssumption, Zenon DEF Cpus, bsp

LEMMA InitStageInv == Init => StageInv
<1> USE Zenon
<1> SUFFICES ASSUME Init PROVE StageInv
  OBVIOUS
<1>1. machine \in Machines /\ bsp \in Cpus
  BY BspIsCpu DEF Init
<1>2. DOMAIN pc = Cpus /\ DOMAIN cr3 = Cpus /\ pc[bsp] = "heap"
  BY <1>1 DEF Init
<1>3. "heap" \in Stations /\ "heap" \notin Paged
  BY SMT DEF Stations, Paged
<1> QED BY <1>1, <1>2, <1>3 DEF StageInv

(* A processor moves; the BSP does not come to the kernel's tables.         *)
LEMMA Moves ==
  ASSUME StageInv, UNCHANGED <<machine, kernel_pml4>>, NEW c \in Cpus, NEW l,
         pc' = pc \/ pc' = [pc EXCEPT ![c] = l],
         c = bsp => l \in Stations /\ (l \in Paged => pc[bsp] \in Paged),
         DOMAIN cr3' = Cpus, cr3'[bsp] = cr3[bsp]
  PROVE  StageInv'
<1> USE Zenon
<1>1. bsp \in Cpus /\ bsp' = bsp /\ Cpus' = Cpus /\ DOMAIN pc = Cpus
  BY BspIsCpu DEF StageInv, bsp, Cpus
<1>2. DOMAIN pc' = Cpus /\ (pc'[bsp] = pc[bsp] \/ (c = bsp /\ pc'[bsp] = l))
  BY <1>1
<1> QED BY <1>1, <1>2 DEF StageInv

(* map_mmio goes on or panics.                                              *)
LEMMA MapGoes ==
  ASSUME NEW region, NEW after, MapMmio(region, after)
  PROVE  pc' = [pc EXCEPT ![bsp] = after] \/ pc' = [pc EXCEPT ![bsp] = "panic"]
BY SMT DEF MapMmio, Panic, Goto

LEMMA BspKeepsStageInv ==
  ASSUME StageInv, BspStep
  PROVE  StageInv'
<1> USE Zenon
<1>1. machine \in Machines /\ bsp \in Cpus /\ DOMAIN pc = Cpus /\ DOMAIN cr3 = Cpus
  BY BspIsCpu DEF StageInv
<1>2. ASSUME NEW l, pc' = [pc EXCEPT ![bsp] = l] \/ pc' = pc, UNCHANGED <<machine, kernel_pml4, cr3>>,
             l \in Stations, l \in Paged => pc[bsp] \in Paged
      PROVE  StageInv'
  BY <1>1, <1>2, Moves
<1>3. ASSUME NEW S, S \subseteq Paged, pc[bsp] \in Paged, UNCHANGED <<machine, kernel_pml4, cr3>>,
             pc' = pc \/ \E l \in S \cup {"panic"} : pc' = [pc EXCEPT ![bsp] = l]
      PROVE  StageInv'
  <2>1. PICK l \in Paged \cup {"panic"} : pc' = pc \/ pc' = [pc EXCEPT ![bsp] = l]
    BY <1>3
  <2>2. l \in Stations
    BY <2>1, SMT DEF Stations
  <2> QED BY <1>2, <1>3, <2>1, <2>2
<1>4. CASE InitHeap
  <2>1. PICK l \in {"panic", "idt"} : pc' = [pc EXCEPT ![bsp] = l]
    BY <1>4 DEF InitHeap, Panic, Goto
  <2>2. l \in Stations /\ l \notin Paged
    BY <2>1, SMT DEF Stations, Paged
  <2> QED BY <1>2, <1>4, <2>1, <2>2 DEF InitHeap
<1>5. CASE FramesInit
  <2>1. PICK l \in {"panic", "paging"} : pc' = [pc EXCEPT ![bsp] = l]
    BY <1>5 DEF FramesInit, Panic, Goto
  <2>2. l \in Stations /\ l \notin Paged
    BY <2>1, SMT DEF Stations, Paged
  <2> QED BY <1>2, <1>5, <2>1, <2>2 DEF FramesInit, pagingVars
<1>6. CASE PagingInit
  <2>1. machine' = machine /\ bsp' = bsp /\ Cpus' = Cpus
    BY <1>6 DEF PagingInit, bsp, Cpus
  <2>2. \/ pc' = [pc EXCEPT ![bsp] = "panic"] /\ UNCHANGED <<cr3, kernel_pml4>>
        \/ /\ pc' = [pc EXCEPT ![bsp] = "apic"]
           /\ \E r : cr3' = [cr3 EXCEPT ![bsp] = r] /\ kernel_pml4' = r
    BY <1>6 DEF PagingInit, Panic, Goto
  <2>3. "panic" \in Stations /\ "panic" \notin Paged /\ "apic" \in Stations
    BY SMT DEF Stations, Paged
  <2>4. CASE pc' = [pc EXCEPT ![bsp] = "panic"] /\ UNCHANGED <<cr3, kernel_pml4>>
    BY <1>2, <2>1, <2>3, <2>4
  <2>5. ASSUME NEW r, pc' = [pc EXCEPT ![bsp] = "apic"], cr3' = [cr3 EXCEPT ![bsp] = r], kernel_pml4' = r
        PROVE  StageInv'
    <3>1. DOMAIN pc' = Cpus /\ DOMAIN cr3' = Cpus /\ pc'[bsp] = "apic" /\ cr3'[bsp] = r
      BY <1>1, <2>5
    <3> QED BY <1>1, <2>1, <2>3, <2>5, <3>1 DEF StageInv
  <2> QED BY <2>2, <2>4, <2>5
<1>7. \A l \in {"apic", "acpi", "madt", "gs", "ioapic", "kbd", "smp", "goto", "wait", "up"} : l \in Paged
  BY DEF Paged
<1>8. CASE ApicInit
  <2>1. /\ pc[bsp] = "apic" /\ UNCHANGED <<machine, kernel_pml4, cr3>>
        /\ pc' = [pc EXCEPT ![bsp] = "acpi"] \/ pc' = [pc EXCEPT ![bsp] = "panic"]
    BY <1>8, MapGoes DEF ApicInit, Panic, Goto
  <2> QED BY <1>3, <1>7, <2>1
<1>9. CASE AcpiInit
  <2>1. /\ pc[bsp] = "acpi" /\ UNCHANGED <<machine, kernel_pml4, cr3>>
        /\ pc' = [pc EXCEPT ![bsp] = "madt"] \/ pc' = [pc EXCEPT ![bsp] = "panic"]
    BY <1>9, MapGoes DEF AcpiInit, Panic, Goto
  <2> QED BY <1>3, <1>7, <2>1
<1>10. CASE MadtWalk
  <2>1. /\ pc[bsp] = "madt" /\ UNCHANGED <<machine, kernel_pml4, cr3>>
        /\ pc' = pc \/ pc' = [pc EXCEPT ![bsp] = "gs"] \/ pc' = [pc EXCEPT ![bsp] = "panic"]
    BY <1>10 DEF MadtWalk, Panic, Goto, pagingVars
  <2> QED BY <1>3, <1>7, <2>1
<1>11. CASE IoapicInit
  <2>1. /\ pc[bsp] = "ioapic" /\ UNCHANGED <<machine, kernel_pml4, cr3>>
        /\ pc' = [pc EXCEPT ![bsp] = "kbd"] \/ pc' = [pc EXCEPT ![bsp] = "panic"]
    BY <1>11, MapGoes DEF IoapicInit, Panic, Goto
  <2> QED BY <1>3, <1>7, <2>1
<1>12. CASE KbdInitIrq
  <2>1. /\ pc[bsp] = "kbd" /\ UNCHANGED <<machine, kernel_pml4, cr3>>
        /\ pc' = [pc EXCEPT ![bsp] = "smp"] \/ pc' = [pc EXCEPT ![bsp] = "panic"]
    BY <1>12 DEF KbdInitIrq, Panic, Goto, pagingVars
  <2> QED BY <1>3, <1>7, <2>1
<1>13. CASE SmpStash \/ SmpGoto \/ SmpWait
  <2>1. /\ pc[bsp] \in {"smp", "goto", "wait"} /\ UNCHANGED <<machine, kernel_pml4, cr3>>
        /\ pc' = pc \/ \E l \in {"goto", "wait", "smp", "up"} : pc' = [pc EXCEPT ![bsp] = l]
    BY <1>13 DEF SmpStash, SmpStashWith, SmpGoto, SmpWait, Goto, pagingVars
  <2> QED BY <1>3, <1>7, <2>1
<1> QED BY <1>4, <1>5, <1>6, <1>8, <1>9, <1>10, <1>11, <1>12, <1>13 DEF BspStep

LEMMA CpuKeepsStageInv ==
  ASSUME StageInv, NEW c \in Cpus, CpuStep(c) \/ (c # bsp /\ ApStep(c))
  PROVE  StageInv'
<1> USE Zenon
<1>1. DOMAIN cr3 = Cpus
  BY DEF StageInv
<1>2. CASE CpuStep(c)
  <2>1. /\ UNCHANGED <<machine, kernel_pml4, cr3>>
        /\ \/ pc[c] = "idt" /\ pc' = [pc EXCEPT ![c] = "lidt"]
           \/ pc[c] = "lidt" /\ pc' = [pc EXCEPT ![c] = IF c = bsp THEN "frames" ELSE "lapic"]
           \/ pc[c] = "gs" /\ pc' = [pc EXCEPT ![c] = IF c = bsp THEN "ioapic" ELSE "idt"]
           \/ pc[c] = "gs" /\ pc' = [pc EXCEPT ![c] = "panic"]
    BY <1>2 DEF CpuStep, IdtLock, IdtLoad, InitSlot, Panic, Goto, pagingVars
  <2>2. /\ \A l \in {"lidt", "frames", "panic"} : l \in Stations /\ l \notin Paged
        /\ "ioapic" \in Stations /\ "gs" \in Paged
    BY SMT DEF Stations, Paged
  <2>3. PICK l : /\ pc' = [pc EXCEPT ![c] = l]
                 /\ c = bsp => l \in Stations /\ (l \in Paged => pc[bsp] \in Paged)
    BY <2>1, <2>2
  <2> QED BY <1>1, <2>1, <2>3, Moves
<1>3. CASE c # bsp /\ ApStep(c)
  <2>1. /\ UNCHANGED <<machine, kernel_pml4>> /\ \E l : pc' = [pc EXCEPT ![c] = l]
        /\ cr3' = cr3 \/ cr3' = [cr3 EXCEPT ![c] = kernel_pml4]
    BY <1>3 DEF ApStep, ApEntry, ApLapic, ApOnline, Goto, pagingVars
  <2>2. bsp \in Cpus
    BY BspIsCpu DEF StageInv
  <2>3. DOMAIN cr3' = Cpus /\ cr3'[bsp] = cr3[bsp]
    BY <1>1, <1>3, <2>1, <2>2
  <2> QED BY <1>3, <2>1, <2>3, Moves
<1> QED BY <1>2, <1>3, SMT

LEMMA StepKeepsStageInv == StageInv /\ [Next]_vars => StageInv'
<1> USE Zenon
<1> SUFFICES ASSUME StageInv, [Next]_vars PROVE StageInv'
  OBVIOUS
<1>1. CASE UNCHANGED bootVars
  <2>1. UNCHANGED <<machine, pc, cr3, kernel_pml4>> /\ bsp' = bsp /\ Cpus' = Cpus
    BY <1>1 DEF bootVars, pagingVars, bsp, Cpus
  <2> QED BY <2>1 DEF StageInv
<1> QED BY <1>1, BspKeepsStageInv, CpuKeepsStageInv DEF Next, vars

-----------------------------------------------------------------------------
(* The boot.  Before frames::init nobody has a frame; from init_heap on the *)
(* heap is where HeapOf says; until paging::init the tables are Limine's,   *)
(* and then none that the kernel's own tables lead to; and once there is a  *)
(* pool, the usable frames are the heap's, the tables' that are not         *)
(* Limine's, and the holdings of the balloon, the drivers and the pool.     *)
Poolless == {"heap", "idt", "lidt", "frames"}
Unpaged == Poolless \cup {"paging"}
Heaped == {"idt", "lidt", "frames", "paging"} \cup Paged
Pooled == {"paging"} \cup Paged

Reclaimable == FramesOf(machine.map, "RECLAIMABLE")
LimineTables == {machine.tables[k].frame : k \in DOMAIN machine.tables}
Owned == DOMAIN tables \ Reclaimable

HeapInv == pc[bsp] \in Heaped => Usable(machine.map) # {} /\ heap = HeapOf(machine.map)
TablesInv ==
    /\ IsFiniteSet(DOMAIN tables)
    /\ pc[bsp] \in Unpaged => DOMAIN tables = LimineTables /\ kernel_pml4 = NONE
    /\ pc[bsp] \in Paged => kernel_pml4 \in Owned /\ \A f \in Owned : tables[f] \subseteq Owned
PlacesInv ==
    /\ pc[bsp] \in Poolless => Allocated = {} /\ dma = {}
    /\ pc[bsp] \in Pooled =>
          /\ Owned \cap Holdings = {}
          /\ Owned \cup Holdings = FramesOf(machine.map, "USABLE") \ Between(heap.start, heap.end)
MemInv == BalloonInv /\ HeapInv /\ TablesInv /\ PlacesInv

LEMMA MapFacts ==
  ASSUME machine \in Machines
  PROVE  /\ GoodMap(machine.map)
         /\ FramesOf(machine.map, "USABLE") \subseteq Pages
         /\ FramesOf(machine.map, "USABLE") \cap Reclaimable = {}
         /\ Len(machine.tables) \in Nat \ {0} /\ DOMAIN machine.tables = 1 .. Len(machine.tables)
         /\ LimineTables \subseteq Reclaimable
         /\ \A k \in DOMAIN machine.tables : machine.tables[k].kids \subseteq DOMAIN machine.tables
<1> USE Zenon
<1> DEFINE map == machine.map
<1>1. /\ map \in Seq(Range(map))
      /\ \A i \in DOMAIN map : map[i].base \in Nat /\ map[i].length \in Nat
      /\ \A i \in Ours(map) :
           /\ map[i].base % FRAME_SIZE = 0 /\ map[i].length % FRAME_SIZE = 0
           /\ \A j \in Ours(map) \ {i} :
                \/ map[i].base + map[i].length <= map[j].base
                \/ map[j].base + map[j].length <= map[i].base
      /\ FramesOf(map, "USABLE") \subseteq Pages
      /\ machine.tables \in Seq(Range(machine.tables)) /\ machine.tables # <<>>
      /\ \A k \in DOMAIN machine.tables :
           /\ machine.tables[k].frame \in FramesOf(map, "RECLAIMABLE")
           /\ machine.tables[k].kids \subseteq DOMAIN machine.tables
  BY MapsAssumption
<1>2. Len(map) \in Nat /\ DOMAIN map = 1 .. Len(map)
  BY <1>1, SMT
<1>3. Len(machine.tables) \in Nat \ {0} /\ DOMAIN machine.tables = 1 .. Len(machine.tables)
  BY <1>1, SMT
<1>4. LimineTables \subseteq Reclaimable
  BY <1>1 DEF LimineTables, Reclaimable
<1>5. Ours(map) \subseteq DOMAIN map
  BY DEF Ours
<1> HIDE DEF map
<1>6. GoodMap(map)
  BY <1>1, <1>2, <1>5 DEF GoodMap, Aligned
<1>7. FramesOf(map, "USABLE") \cap FramesOf(map, "RECLAIMABLE") = {}
  <2>1. /\ FramesOf(map, "USABLE") = UNION {Reg(map, i) : i \in OfType(map, "USABLE")}
        /\ FramesOf(map, "RECLAIMABLE") = UNION {Reg(map, i) : i \in OfType(map, "RECLAIMABLE")}
    BY <1>6, OursAre, FramesOfIs
  <2>2. ASSUME NEW i \in OfType(map, "USABLE"), NEW j \in OfType(map, "RECLAIMABLE")
        PROVE  Reg(map, i) \cap Reg(map, j) = {}
    BY <1>6, OursAre, RegsApart
  <2>3. ASSUME NEW x, x \in FramesOf(map, "USABLE"), x \in FramesOf(map, "RECLAIMABLE") PROVE FALSE
    <3>1. PICK i \in OfType(map, "USABLE") : x \in Reg(map, i)
      BY <2>1, <2>3
    <3>2. PICK j \in OfType(map, "RECLAIMABLE") : x \in Reg(map, j)
      BY <2>1, <2>3
    <3> QED BY <2>2, <3>1, <3>2
  <2> QED BY <2>3
<1> QED BY <1>1, <1>3, <1>4, <1>6, <1>7 DEF map, Reclaimable

LEMMA LimineFinite ==
  ASSUME machine \in Machines
  PROVE  IsFiniteSet(LimineTables)
<1> USE Zenon
<1> DEFINE N == 1 .. Len(machine.tables)
<1>1. Len(machine.tables) \in Nat /\ DOMAIN machine.tables = N
  BY MapFacts
<1>2. IsFiniteSet(N)
  <2>1. 1 \in Int /\ Len(machine.tables) \in Int
    BY <1>1, SMT
  <2> QED BY <2>1, FS_Interval
<1> HIDE DEF N
<1> DEFINE f == [k \in N |-> machine.tables[k].frame]
<1>3. f \in Surjection(N, LimineTables)
  BY <1>1 DEF Surjection, LimineTables
<1> HIDE DEF f
<1> QED BY <1>2, <1>3, FS_Surjection

(* A step that leaves the balloon alone and takes frames from the pool, or  *)
(* makes it.                                                                *)
LEMMA PoolChanged ==
  ASSUME BalloonInv,
         UNCHANGED <<next, prev, ref, dma, num_pages, pfns, bpc, state, actual, host, told>>,
         free' \in Seq(Range(free')), IsInjective(free'),
         Range(free') \cap Allocated = {}, Range(free') \cap dma = {}
  PROVE  BalloonInv' /\ Allocated' = Allocated
<1> USE Zenon
<1>1. PICK vb, own \in Seq(Pages) : Listed(vb, own) /\ Booked(vb, own) /\ Shared(vb, own)
  BY DEF BalloonInv
<1>2. Links' = Links /\ Allocated' = Allocated
  BY DEF Links, Allocated
<1>3. Listed(vb, own)' /\ Booked(vb, own)' /\ Shared(vb, own)'
  BY <1>1, <1>2 DEF Listed, TwoLists, Booked, Shared
<1>4. Updating'
  BY DEF BalloonInv, Updating
<1>5. PoolApart'
  BY <1>2 DEF BalloonInv, PoolApart
<1> QED BY <1>2, <1>3, <1>4, <1>5 DEF BalloonInv

LEMMA PoolSame ==
  ASSUME BalloonInv,
         UNCHANGED <<free, next, prev, ref, dma, num_pages, pfns, bpc, state, actual, host, told>>
  PROVE  BalloonInv' /\ Allocated' = Allocated /\ Holdings' = Holdings
<1> USE Zenon
<1>1. /\ free' \in Seq(Range(free')) /\ IsInjective(free')
      /\ Range(free') \cap Allocated = {} /\ Range(free') \cap dma = {}
  BY DEF BalloonInv, PoolApart
<1>2. BalloonInv' /\ Allocated' = Allocated
  BY <1>1, PoolChanged
<1> QED BY <1>2 DEF Holdings

LEMMA InitMemInv == Init => MemInv
<1> USE Zenon
<1> SUFFICES ASSUME Init PROVE MemInv
  OBVIOUS
<1>1. machine \in Machines /\ bsp \in Cpus
  BY BspIsCpu DEF Init
<1>2. pc[bsp] = "heap"
  BY <1>1 DEF Init
<1>3. "heap" \notin Heaped /\ "heap" \notin Paged /\ "heap" \notin Pooled
  BY SMT DEF Heaped, Paged, Pooled
<1>4. BalloonInv
  BY InitBalloonInv DEF Init
<1>5. Allocated = {} /\ dma = {}
  <2>1. ref = [p \in Pages |-> 0] /\ dma = {}
    BY DEF Init, BalloonInit
  <2> QED BY <2>1, SMT DEF Allocated
<1>6. DOMAIN tables = LimineTables /\ kernel_pml4 = NONE
  BY DEF Init, LimineTables
<1>7. TablesInv
  BY <1>1, <1>2, <1>3, <1>6, LimineFinite DEF TablesInv
<1> QED BY <1>2, <1>3, <1>4, <1>5, <1>7 DEF MemInv, HeapInv, PlacesInv

(* A step that changes no frame.                                            *)
LEMMA Quiet ==
  ASSUME MemInv, UNCHANGED <<machine, heap, tables, kernel_pml4, balloonVars>>,
         ~Enters(Poolless), ~Enters(Unpaged), ~Enters(Heaped), ~Enters(Paged), ~Enters(Pooled)
  PROVE  MemInv'
<1> USE Zenon
<1>1. /\ UNCHANGED <<free, next, prev, ref, dma, num_pages, pfns, bpc, state, actual, host, told>>
      /\ bsp' = bsp /\ UNCHANGED <<machine, heap, tables, kernel_pml4>>
  BY DEF balloonVars, listVars, bodyVars, hostVars, bsp
<1>2. BalloonInv' /\ Allocated' = Allocated /\ Holdings' = Holdings
  BY <1>1, PoolSame DEF MemInv
<1>3. Owned' = Owned /\ LimineTables' = LimineTables
  BY <1>1 DEF Owned, Reclaimable, LimineTables
<1>4. HeapInv'
  BY <1>1 DEF MemInv, HeapInv, Enters
<1>5. TablesInv'
  BY <1>1, <1>3 DEF MemInv, TablesInv, Enters
<1>6. PlacesInv'
  BY <1>1, <1>2, <1>3 DEF MemInv, PlacesInv, Enters
<1> QED BY <1>2, <1>4, <1>5, <1>6 DEF MemInv

LEMMA Stages ==
  /\ \A l \in {"heap", "idt", "lidt", "frames"} : l \in Poolless /\ l \in Unpaged /\ l \notin Paged /\ l \notin Pooled
  /\ \A l \in {"idt", "lidt", "frames", "paging"} : l \in Heaped
  /\ "heap" \notin Heaped
  /\ "paging" \notin Poolless /\ "paging" \in Unpaged /\ "paging" \notin Paged /\ "paging" \in Pooled
  /\ \A l \in Paged : l \notin Poolless /\ l \notin Unpaged /\ l \in Heaped /\ l \in Pooled
  /\ "panic" \notin Poolless /\ "panic" \notin Unpaged /\ "panic" \notin Heaped /\ "panic" \notin Paged
  /\ "panic" \notin Pooled
  /\ \A l \in {"apic", "acpi", "madt", "gs", "ioapic", "kbd", "smp", "goto", "wait", "up"} : l \in Paged
BY DEF Poolless, Unpaged, Heaped, Pooled, Paged

(* The same for a step of the BSP between two stages, and for one of an AP. *)
LEMMA BetweenStages ==
  ASSUME MemInv, UNCHANGED <<machine, heap, tables, kernel_pml4, balloonVars>>,
         \/ pc'[bsp] = pc[bsp] \/ pc'[bsp] = "panic" \/ (pc[bsp] \in Paged /\ pc'[bsp] \in Paged)
         \/ pc[bsp] \in {"idt", "lidt"} /\ pc'[bsp] \in {"lidt", "frames"}
  PROVE  MemInv'
<1> USE Zenon
<1>1. ~Enters(Poolless) /\ ~Enters(Unpaged) /\ ~Enters(Heaped) /\ ~Enters(Paged) /\ ~Enters(Pooled)
  <2>1. CASE pc'[bsp] = pc[bsp]
    BY <2>1 DEF Enters
  <2>2. CASE pc'[bsp] = "panic"
    BY <2>2, Stages DEF Enters
  <2>3. CASE pc[bsp] \in Paged /\ pc'[bsp] \in Paged
    BY <2>3, Stages DEF Enters
  <2>4. CASE pc[bsp] \in {"idt", "lidt"} /\ pc'[bsp] \in {"lidt", "frames"}
    BY <2>4, Stages DEF Enters
  <2> QED BY <2>1, <2>2, <2>3, <2>4
<1> QED BY <1>1, Quiet

LEMMA OtherMoves ==
  ASSUME StageInv, NEW c, NEW l, Goto(c, l)
  PROVE  (c = bsp => pc'[bsp] = l) /\ (c # bsp => pc'[bsp] = pc[bsp])
<1>1. DOMAIN pc = Cpus /\ bsp \in Cpus
  BY BspIsCpu, Zenon DEF StageInv
<1> QED BY <1>1, Zenon DEF Goto

LEMMA QuietSteps ==
  ASSUME StageInv, MemInv,
         \/ MadtWalk \/ KbdInitIrq \/ SmpStash \/ SmpGoto \/ SmpWait
         \/ \E c \in Cpus : CpuStep(c) \/ (c # bsp /\ ApStep(c))
  PROVE  MemInv'
<1> USE Zenon
<1>1. CASE MadtWalk
  <2>1. UNCHANGED <<machine, heap, tables, kernel_pml4, balloonVars>> /\ pc[bsp] = "madt"
    BY <1>1 DEF MadtWalk, pagingVars
  <2>2. pc'[bsp] = pc[bsp] \/ pc'[bsp] = "panic" \/ pc'[bsp] = "gs"
    BY <1>1, OtherMoves DEF MadtWalk, Panic
  <2> QED BY <2>1, <2>2, BetweenStages, Stages
<1>2. CASE KbdInitIrq
  <2>1. UNCHANGED <<machine, heap, tables, kernel_pml4, balloonVars>> /\ pc[bsp] = "kbd"
    BY <1>2 DEF KbdInitIrq, pagingVars
  <2>2. pc'[bsp] = "smp" \/ pc'[bsp] = "panic"
    BY <1>2, OtherMoves DEF KbdInitIrq, Panic
  <2> QED BY <2>1, <2>2, BetweenStages, Stages
<1>3. CASE SmpStash
  <2>1. UNCHANGED <<machine, heap, tables, kernel_pml4, balloonVars>> /\ pc[bsp] = "smp"
    BY <1>3 DEF SmpStash, SmpStashWith, pagingVars
  <2>2. pc'[bsp] = pc[bsp] \/ pc'[bsp] = "wait" \/ pc'[bsp] = "goto"
    BY <1>3, OtherMoves DEF SmpStash, SmpStashWith
  <2> QED BY <2>1, <2>2, BetweenStages, Stages
<1>4. CASE SmpGoto
  <2>1. UNCHANGED <<machine, heap, tables, kernel_pml4, balloonVars>> /\ pc[bsp] = "goto"
    BY <1>4 DEF SmpGoto, pagingVars
  <2>2. pc'[bsp] = "smp"
    BY <1>4, OtherMoves DEF SmpGoto
  <2> QED BY <2>1, <2>2, BetweenStages, Stages
<1>5. CASE SmpWait
  <2>1. UNCHANGED <<machine, heap, tables, kernel_pml4, balloonVars>> /\ pc[bsp] = "wait"
    BY <1>5 DEF SmpWait, pagingVars
  <2>2. pc'[bsp] = "up"
    BY <1>5, OtherMoves DEF SmpWait
  <2> QED BY <2>1, <2>2, BetweenStages, Stages
<1>6. ASSUME NEW c \in Cpus, CpuStep(c) PROVE MemInv'
  <2>1. UNCHANGED <<machine, heap, tables, kernel_pml4, balloonVars>>
    BY <1>6 DEF CpuStep, IdtLock, IdtLoad, InitSlot, pagingVars
  <2>2. CASE IdtLock(c)
    <3>1. pc[c] = "idt" /\ Goto(c, "lidt")
      BY <2>2 DEF IdtLock
    <3> QED BY <2>1, <3>1, OtherMoves, BetweenStages
  <2>3. CASE IdtLoad(c)
    <3>1. pc[c] = "lidt" /\ Goto(c, IF c = bsp THEN "frames" ELSE "lapic")
      BY <2>3 DEF IdtLoad
    <3>2. (c = bsp => pc'[bsp] = "frames") /\ (c # bsp => pc'[bsp] = pc[bsp])
      BY <3>1, OtherMoves
    <3> QED BY <2>1, <3>1, <3>2, BetweenStages
  <2>4. CASE InitSlot(c)
    <3>1. pc[c] = "gs" /\ (Goto(c, IF c = bsp THEN "ioapic" ELSE "idt") \/ Goto(c, "panic"))
      BY <2>4 DEF InitSlot, Panic
    <3>2. (c = bsp => pc'[bsp] \in {"ioapic", "panic"}) /\ (c # bsp => pc'[bsp] = pc[bsp])
      BY <3>1, OtherMoves
    <3> QED BY <2>1, <3>1, <3>2, BetweenStages, Stages
  <2> QED BY <1>6, <2>2, <2>3, <2>4 DEF CpuStep
<1>7. ASSUME NEW c \in Cpus, c # bsp, ApStep(c) PROVE MemInv'
  <2>1. UNCHANGED <<machine, heap, tables, kernel_pml4, balloonVars>>
    BY <1>7 DEF ApStep, ApEntry, ApLapic, ApOnline, pagingVars
  <2>2. \E l : Goto(c, l)
    BY <1>7 DEF ApStep, ApEntry, ApLapic, ApOnline
  <2> QED BY <1>7, <2>1, <2>2, OtherMoves, BetweenStages
<1> QED BY <1>1, <1>2, <1>3, <1>4, <1>5, <1>6, <1>7

LEMMA HeapStep ==
  ASSUME StageInv, MemInv, InitHeap
  PROVE  MemInv'
<1> USE Zenon
<1>1. /\ pc[bsp] = "heap" /\ bsp' = bsp
      /\ UNCHANGED <<machine, tables, kernel_pml4, balloonVars>>
      /\ \/ pc'[bsp] = "panic"
         \/ pc'[bsp] = "idt" /\ Usable(machine.map) # {} /\ heap' = HeapOf(machine.map)
  BY OtherMoves DEF InitHeap, Panic, bsp
<1>2. UNCHANGED <<free, next, prev, ref, dma, num_pages, pfns, bpc, state, actual, host, told>>
  BY <1>1 DEF balloonVars, listVars, bodyVars, hostVars
<1>3. BalloonInv' /\ Allocated' = Allocated
  BY <1>2, PoolSame DEF MemInv
<1>4. LimineTables' = LimineTables
  BY <1>1 DEF LimineTables
<1>5. HeapInv'
  BY <1>1, Stages DEF HeapInv
<1>6. TablesInv'
  BY <1>1, <1>4, Stages DEF MemInv, TablesInv
<1>7. PlacesInv'
  BY <1>1, <1>2, <1>3, Stages DEF MemInv, PlacesInv
<1> QED BY <1>3, <1>5, <1>6, <1>7 DEF MemInv

LEMMA OwnRange ==
  ASSUME NEW s \in Seq(Nat)
  PROVE  s \in Seq(Range(s))
BY DEF Range

LEMMA PoolStep ==
  ASSUME StageInv, MemInv, FramesInit
  PROVE  MemInv'
<1> USE Zenon
<1>1. /\ pc[bsp] = "frames" /\ bsp' = bsp /\ pc'[bsp] \in {"paging", "panic"}
      /\ UNCHANGED <<machine, heap, tables, kernel_pml4>>
      /\ free' = PoolOf(machine.map, heap)
      /\ UNCHANGED <<next, prev, ref, dma, num_pages, pfns, bpc, state, actual, host, told>>
  BY OtherMoves DEF FramesInit, Panic, bsp, pagingVars, listVars, bodyVars, hostVars
<1>2. machine \in Machines
  BY DEF StageInv
<1>3. Usable(machine.map) # {} /\ heap = HeapOf(machine.map) /\ GoodMap(machine.map)
  BY <1>1, <1>2, MapFacts, Stages DEF MemInv, HeapInv
<1>4. Aligned(heap.start) /\ Aligned(heap.end) /\ heap.start <= heap.end
  BY <1>3, HeapIs
<1>5. /\ free' \in Seq(Nat) /\ IsInjective(free')
      /\ Range(free') = FramesOf(machine.map, "USABLE") \ Between(heap.start, heap.end)
  BY <1>1, <1>3, <1>4, PoolIs
<1>6. free' \in Seq(Range(free'))
  BY <1>5, OwnRange
<1>7. Allocated = {} /\ dma = {} /\ DOMAIN tables = LimineTables
  BY <1>1, Stages DEF MemInv, PlacesInv, TablesInv
<1>8. BalloonInv' /\ Allocated' = Allocated
  BY <1>1, <1>5, <1>6, <1>7, PoolChanged DEF MemInv
<1>9. Owned' = {}
  BY <1>1, <1>2, <1>7, MapFacts DEF Owned, Reclaimable
<1>10. Holdings' = Range(free')
  BY <1>1, <1>7, <1>8 DEF Holdings
<1>11. HeapInv'
  BY <1>1, <1>3 DEF HeapInv
<1>12. TablesInv'
  <2>1. LimineTables' = LimineTables
    BY <1>1 DEF LimineTables
  <2> QED BY <1>1, <2>1, Stages DEF MemInv, TablesInv
<1>13. PlacesInv'
  BY <1>1, <1>5, <1>9, <1>10, Stages DEF PlacesInv
<1> QED BY <1>8, <1>11, <1>12, <1>13 DEF MemInv

(* The frames that paging::init takes, and those that it leaves.            *)
LEMMA TopOf ==
  ASSUME NEW q, q \in Seq(Range(q)), IsInjective(q), NEW n \in Nat \ {0}, n <= Len(q)
  PROVE  LET r == SubSeq(q, 1, Len(q) - n)
             T == {q[Len(q) - k + 1] : k \in 1 .. n}
         IN  /\ r \in Seq(Range(r)) /\ IsInjective(r)
             /\ Range(q) = Range(r) \cup T /\ Range(r) \cap T = {}
<1> USE Zenon
<1> DEFINE L == Len(q)
           r == SubSeq(q, 1, L - n)
           T == {q[L - k + 1] : k \in 1 .. n}
<1>1. /\ L \in Nat /\ DOMAIN q = 1 .. L /\ L - n \in 0 .. L
      /\ \A i, j \in 1 .. L : q[i] = q[j] => i = j
  BY SMT DEF IsInjective
<1>2. r \in Seq(Range(r)) /\ IsInjective(r) /\ Range(r) = {q[i] : i \in 1 .. L - n}
  BY <1>1, Below
<1>3. Range(q) = {q[i] : i \in 1 .. L}
  BY <1>1 DEF Range
<1> HIDE DEF r, L
<1>4. \A k \in 1 .. n : L - k + 1 \in 1 .. L /\ L - k + 1 \notin 1 .. L - n
  BY <1>1, SMT
<1>5. \A i \in 1 .. L : i \notin 1 .. L - n => L - i + 1 \in 1 .. n /\ L - (L - i + 1) + 1 = i
  BY <1>1, SMT
<1>6. \A i \in 1 .. L - n : i \in 1 .. L
  BY <1>1, SMT
<1>7. Range(r) \cap T = {}
  <2>1. ASSUME NEW i \in 1 .. L - n, NEW k \in 1 .. n PROVE q[i] # q[L - k + 1]
    <3>1. i \in 1 .. L /\ L - k + 1 \in 1 .. L /\ i # L - k + 1
      BY <1>4, <1>6
    <3> QED BY <1>1, <3>1
  <2> QED BY <1>2, <2>1
<1>8. ASSUME NEW x \in Range(q) PROVE x \in Range(r) \cup T
  <2>1. PICK i \in 1 .. L : x = q[i]
    BY <1>3
  <2>2. CASE i \in 1 .. L - n
    BY <1>2, <2>1, <2>2
  <2>3. CASE i \notin 1 .. L - n
    <3>1. PICK k \in 1 .. n : L - k + 1 = i
      BY <1>5, <2>3
    <3> QED BY <2>1, <3>1
  <2> QED BY <2>2, <2>3
<1>9. Range(r) \cup T \subseteq Range(q)
  BY <1>2, <1>3, <1>4, <1>6
<1> QED BY <1>2, <1>7, <1>8, <1>9 DEF r, L

LEMMA PagingStep ==
  ASSUME StageInv, MemInv, PagingInit
  PROVE  MemInv'
<1> USE Zenon
<1> DEFINE n == Len(machine.tables)
           new == [k \in 1 .. n |-> free[Len(free) - k + 1]]
           source == [f \in {new[k] : k \in 1 .. n} |-> CHOOSE k \in 1 .. n : new[k] = f]
           top == {new[k] : k \in 1 .. n}
<1>1. /\ pc[bsp] = "paging" /\ bsp' = bsp /\ UNCHANGED <<machine, heap>>
      /\ UNCHANGED <<next, prev, ref, dma, num_pages, pfns, bpc, state, actual, host, told>>
  BY DEF PagingInit, bsp, listVars, bodyVars, hostVars
<1>2. \/ /\ Len(free) < n
         /\ Panic(bsp) /\ free' = <<>> /\ UNCHANGED <<tables, kernel_pml4>>
      \/ /\ ~(Len(free) < n)
         /\ free' = SubSeq(free, 1, Len(free) - n)
         /\ tables' = Over([f \in DOMAIN source |-> DeepKids(new, source[f])], tables)
         /\ kernel_pml4' = new[1] /\ Goto(bsp, "apic")
  BY DEF PagingInit
<1>0. /\ DOMAIN source = top /\ \A f \in top : source[f] \in 1 .. n
      /\ \A k \in 1 .. n : new[k] \in top
      /\ new = [k \in 1 .. n |-> new[k]]
      /\ top = {free[Len(free) - k + 1] : k \in 1 .. n}
  OBVIOUS
<1>00. \A x \in top : \E k \in 1 .. n : new[k] = x
  OBVIOUS
<1>3. machine \in Machines /\ BalloonInv
  BY DEF StageInv, MemInv
<1>4. /\ n \in Nat \ {0} /\ DOMAIN machine.tables = 1 .. n /\ LimineTables \subseteq Reclaimable
      /\ \A k \in 1 .. n : machine.tables[k].kids \subseteq 1 .. n
      /\ FramesOf(machine.map, "USABLE") \cap Reclaimable = {}
  BY <1>3, MapFacts
<1>5. free \in Seq(Range(free)) /\ IsInjective(free) /\ Range(free) \cap Allocated = {} /\ Range(free) \cap dma = {}
  BY <1>3 DEF BalloonInv, PoolApart
<1>6. /\ DOMAIN tables = LimineTables /\ IsFiniteSet(LimineTables)
      /\ Owned \cap Holdings = {} /\ Owned \cup Holdings = FramesOf(machine.map, "USABLE") \ Between(heap.start, heap.end)
  BY <1>1, Stages DEF MemInv, TablesInv, PlacesInv
<1>7. Owned = {}
  BY <1>4, <1>6 DEF Owned
<1>8. HeapInv'
  BY <1>1, Stages DEF MemInv, HeapInv
<1> HIDE DEF n, new, source, top
<1>9. CASE Len(free) < n
  <2>1. pc'[bsp] = "panic" /\ free' = <<>> /\ UNCHANGED <<tables, kernel_pml4>>
    BY <1>2, <1>9, OtherMoves DEF Panic
  <2>2. free' \in Seq(Range(free')) /\ IsInjective(free') /\ Range(free') = {}
    BY <2>1, TheEmpty, OwnRange
  <2>3. BalloonInv'
    BY <1>1, <1>3, <2>2, PoolChanged
  <2>4. TablesInv' /\ PlacesInv'
    BY <1>1, <1>6, <2>1, Stages DEF TablesInv, PlacesInv
  <2> QED BY <1>8, <2>3, <2>4 DEF MemInv
<1>10. CASE ~(Len(free) < n)
  <2>1. /\ pc'[bsp] = "apic" /\ free' = SubSeq(free, 1, Len(free) - n) /\ kernel_pml4' = new[1]
        /\ tables' = Over([f \in DOMAIN source |-> DeepKids(new, source[f])], tables)
    BY <1>2, <1>10, OtherMoves
  <2>2. n <= Len(free)
    BY <1>4, <1>5, <1>10, SMT
  <2>3. top = {free[Len(free) - k + 1] : k \in 1 .. n}
    BY <1>0
  <2>4. /\ free' \in Seq(Range(free')) /\ IsInjective(free')
        /\ Range(free) = Range(free') \cup top /\ Range(free') \cap top = {}
    BY <1>4, <1>5, <2>1, <2>2, <2>3, TopOf
  <2>5. BalloonInv' /\ Allocated' = Allocated
    <3>1. Range(free') \cap Allocated = {} /\ Range(free') \cap dma = {}
      BY <1>5, <2>4
    <3> QED BY <1>1, <1>3, <2>4, <3>1, PoolChanged
  <2>6. DOMAIN tables' = top \cup LimineTables /\ \A f \in top : tables'[f] = DeepKids(new, source[f])
    BY <1>0, <1>6, <2>1 DEF Over
  <2>7. top \cap Reclaimable = {}
    BY <1>4, <1>6, <2>4 DEF Holdings
  <2>8. Owned' = top
    <3>1. Reclaimable' = Reclaimable
      BY <1>1 DEF Reclaimable
    <3> QED BY <1>4, <2>6, <2>7, <3>1 DEF Owned
  <2>9. new[1] \in top
    <3>1. 1 \in 1 .. n
      BY <1>4, SMT
    <3> QED BY <1>0, <3>1
  <2>10. ASSUME NEW f \in top PROVE tables'[f] \subseteq top
    <3>1. source[f] \in 1 .. n
      BY <1>0
    <3>2. machine.tables[source[f]].kids \subseteq 1 .. n
      BY <1>4, <3>1
    <3>3. tables'[f] = {new[j] : j \in machine.tables[source[f]].kids}
      BY <2>6 DEF DeepKids
    <3> QED BY <1>0, <3>2, <3>3
  <2>11. IsFiniteSet(DOMAIN tables')
    <3>1. IsFiniteSet(1 .. n)
      <4>1. 1 \in Int /\ n \in Int
        BY <1>4, SMT
      <4> QED BY <4>1, FS_Interval
    <3>2. new \in Surjection(1 .. n, top)
      BY <1>0, <1>00 DEF Surjection
    <3> DEFINE N == 1 .. n
    <3> HIDE DEF N
    <3>3. IsFiniteSet(N) /\ new \in Surjection(N, top)
      BY <3>1, <3>2 DEF N
    <3>4. IsFiniteSet(top)
      BY <3>3, FS_Surjection
    <3>5. IsFiniteSet(top) /\ IsFiniteSet(LimineTables)
      BY <1>6, <3>4, SMT
    <3>6. IsFiniteSet(top \cup LimineTables)
      BY <3>5, FS_Union
    <3> QED BY <2>6, <3>6
  <2>12. TablesInv'
    BY <1>1, <2>1, <2>8, <2>9, <2>10, <2>11, Stages DEF TablesInv
  <2>13. Holdings' \cap top = {} /\ top \cup Holdings' = Holdings
    BY <1>1, <1>5, <2>4, <2>5 DEF Holdings
  <2>14. PlacesInv'
    BY <1>1, <1>6, <1>7, <2>1, <2>8, <2>13, Stages DEF PlacesInv
  <2> QED BY <1>8, <2>5, <2>12, <2>14 DEF MemInv
<1> QED BY <1>9, <1>10, SMT

(* map_mmio, once the kernel's tables are in use.                           *)
LEMMA MapStep ==
  ASSUME StageInv, MemInv, NEW region, NEW after \in Paged \cup {"panic"}, MapMmio(region, after),
         pc[bsp] \in Paged, UNCHANGED <<machine, heap, kernel_pml4>>,
         UNCHANGED <<next, prev, ref, dma, num_pages, pfns, bpc, state, actual, host, told>>
  PROVE  MemInv'
<1> USE Zenon
<1>1. machine \in Machines /\ bsp' = bsp /\ cr3[bsp] = kernel_pml4 /\ BalloonInv
  BY DEF StageInv, bsp, MemInv
<1>2. pc'[bsp] \in Paged \cup {"panic"}
  <2>1. Goto(bsp, after) \/ Goto(bsp, "panic")
    BY MapGoes DEF Goto
  <2>2. pc'[bsp] = after \/ pc'[bsp] = "panic"
    BY <2>1, OtherMoves
  <2> QED BY <2>2
<1>3. HeapInv'
  BY <1>1, <1>2, Stages DEF MemInv, HeapInv
<1>4. Reclaimable' = Reclaimable
  BY DEF Reclaimable
<1>5. CASE UNCHANGED <<free, tables>>
  <2>1. BalloonInv' /\ Allocated' = Allocated /\ Holdings' = Holdings
    BY <1>1, <1>5, PoolSame
  <2>2. Owned' = Owned
    BY <1>4, <1>5 DEF Owned
  <2>3. TablesInv'
    BY <1>1, <1>2, <1>5, <2>2, Stages DEF MemInv, TablesInv
  <2>4. PlacesInv'
    BY <1>1, <1>2, <2>1, <2>2, Stages DEF MemInv, PlacesInv
  <2> QED BY <1>3, <2>1, <2>3, <2>4 DEF MemInv
<1>6. ASSUME NEW f \in Pages, AllocFrame(f),
             tables' = Over([t \in {f} |-> {}], [tables EXCEPT ![kernel_pml4] = @ \cup {f}])
      PROVE  MemInv'
  <2>1. /\ free' \in Seq(Range(free')) /\ IsInjective(free')
        /\ f \in Range(free) /\ f \notin Allocated /\ f \notin dma
        /\ Range(free') = Range(free) \ {f}
    BY <1>1, <1>6, TakenIs DEF BalloonInv
  <2>2. BalloonInv' /\ Allocated' = Allocated
    <3>1. Range(free') \cap Allocated = {} /\ Range(free') \cap dma = {}
      BY <1>1, <2>1 DEF BalloonInv, PoolApart
    <3> QED BY <1>1, <2>1, <3>1, PoolChanged
  <2>3. /\ Owned \cap Holdings = {}
        /\ Owned \cup Holdings = FramesOf(machine.map, "USABLE") \ Between(heap.start, heap.end)
        /\ IsFiniteSet(DOMAIN tables)
        /\ kernel_pml4 \in Owned /\ \A t \in Owned : tables[t] \subseteq Owned
    BY Stages DEF MemInv, TablesInv, PlacesInv
  <2>4. f \notin Reclaimable /\ f \in Holdings
    BY <1>1, <2>1, <2>3, MapFacts DEF Holdings
  <2>5. DOMAIN tables' = {f} \cup DOMAIN tables
    BY <1>6 DEF Over
  <2>6. Owned' = Owned \cup {f}
    BY <1>4, <2>4, <2>5 DEF Owned
  <2>7. /\ tables'[f] = {}
        /\ \A t \in Owned : tables'[t] \subseteq tables[t] \cup {f}
    <3>1. f \notin Owned /\ kernel_pml4 \in DOMAIN tables
      BY <2>3, <2>4 DEF Owned
    <3>2. tables'[f] = {}
      BY <1>6 DEF Over
    <3>3. ASSUME NEW t \in Owned PROVE tables'[t] = [tables EXCEPT ![kernel_pml4] = @ \cup {f}][t]
      <4>1. t \in DOMAIN tables /\ t # f
        BY <3>1 DEF Owned
      <4> QED BY <1>6, <4>1 DEF Over
    <3>4. ASSUME NEW t \in Owned PROVE tables'[t] \subseteq tables[t] \cup {f}
      <4>1. t \in DOMAIN tables
        BY DEF Owned
      <4> QED BY <3>3, <4>1
    <3> QED BY <3>2, <3>4
  <2>8. TablesInv'
    <3>1. IsFiniteSet(DOMAIN tables')
      BY <2>3, <2>5, FS_AddElement, SMT
    <3>2. \A t \in Owned' : tables'[t] \subseteq Owned'
      BY <2>3, <2>6, <2>7
    <3> QED BY <1>1, <1>2, <2>3, <2>6, <3>1, <3>2, Stages DEF TablesInv
  <2>9. Holdings' = Holdings \ {f}
    BY <2>1, <2>2 DEF Holdings
  <2>10. PlacesInv'
    BY <1>1, <1>2, <2>3, <2>4, <2>6, <2>9, Stages DEF PlacesInv
  <2> QED BY <1>3, <2>2, <2>8, <2>10 DEF MemInv
<1> QED BY <1>1, <1>5, <1>6 DEF MapMmio

LEMMA MmioSteps ==
  ASSUME StageInv, MemInv, ApicInit \/ AcpiInit \/ IoapicInit
  PROVE  MemInv'
<1> USE Zenon
<1>1. /\ pc[bsp] \in {"apic", "acpi", "ioapic"} /\ UNCHANGED <<machine, heap, kernel_pml4>>
      /\ UNCHANGED <<next, prev, ref, dma, num_pages, pfns, bpc, state, actual, host, told>>
  BY DEF ApicInit, AcpiInit, IoapicInit, listVars, bodyVars, hostVars
<1>2. pc[bsp] \in Paged
  BY <1>1, Stages
<1>3. CASE \E region : \E after \in Paged \cup {"panic"} : MapMmio(region, after)
  BY <1>1, <1>2, <1>3, MapStep
<1>4. CASE Panic(bsp) /\ UNCHANGED <<free, tables>>
  <2>1. pc'[bsp] = "panic"
    BY <1>4, OtherMoves DEF Panic
  <2>2. UNCHANGED <<machine, heap, tables, kernel_pml4>> /\ BalloonInv' /\ bsp' = bsp
    BY <1>1, <1>4, PoolSame DEF MemInv, bsp
  <2>3. HeapInv' /\ TablesInv' /\ PlacesInv'
    BY <2>1, <2>2, Stages DEF MemInv, HeapInv, TablesInv, PlacesInv
  <2> QED BY <2>2, <2>3 DEF MemInv
<1>5. "acpi" \in Paged /\ "madt" \in Paged /\ "kbd" \in Paged
  BY Stages
<1> QED BY <1>3, <1>4, <1>5 DEF ApicInit, AcpiInit, IoapicInit

(* Once the machine is up.                                                  *)
LEMMA RunningStep ==
  ASSUME StageInv, MemInv, Running, BalloonNext, UNCHANGED bootVars
  PROVE  MemInv'
<1> USE Zenon
<1>1. UNCHANGED <<machine, pc, heap, tables, kernel_pml4>> /\ bsp' = bsp /\ pc[bsp] = "up"
  BY DEF bootVars, pagingVars, bsp, Running
<1>2. BalloonInv' /\ Holdings' = Holdings
  BY BalloonStep DEF MemInv
<1>3. Owned' = Owned /\ "up" \in Paged
  BY <1>1, Stages DEF Owned, Reclaimable
<1>4. HeapInv'
  BY <1>1 DEF MemInv, HeapInv
<1>5. TablesInv'
  BY <1>1, <1>3, Stages DEF MemInv, TablesInv
<1>6. PlacesInv'
  BY <1>1, <1>2, <1>3, Stages DEF MemInv, PlacesInv
<1> QED BY <1>2, <1>4, <1>5, <1>6 DEF MemInv

LEMMA StepKeepsMemInv == StageInv /\ MemInv /\ [Next]_vars => MemInv'
<1> USE Zenon
<1> SUFFICES ASSUME StageInv, MemInv, [Next]_vars PROVE MemInv'
  OBVIOUS
<1>1. CASE BspStep
  BY <1>1, HeapStep, PoolStep, PagingStep, MmioSteps, QuietSteps DEF BspStep
<1>2. CASE \E c \in Cpus : CpuStep(c) \/ (c # bsp /\ ApStep(c))
  BY <1>2, QuietSteps
<1>3. CASE Running /\ BalloonNext /\ UNCHANGED bootVars
  BY <1>3, RunningStep
<1>4. CASE UNCHANGED vars
  <2>1. UNCHANGED <<machine, heap, tables, kernel_pml4, balloonVars>> /\ pc' = pc
    BY <1>4 DEF vars, bootVars, pagingVars
  <2> QED BY <2>1, BetweenStages
<1> QED BY <1>1, <1>2, <1>3, <1>4 DEF Next

(* For any machine whose bootloader tells the truth about its memory, and   *)
(* whatever the host, the balloon and the other drivers do: the books of    *)
(* the balloon, the tables, the heap and the pool add up.                   *)
THEOREM MemoryInvariant == Spec => []MemInv
<1>1. Spec => [](StageInv /\ MemInv)
  <2>1. Init => StageInv /\ MemInv
    BY InitStageInv, InitMemInv
  <2>2. StageInv /\ MemInv /\ [Next]_vars => StageInv' /\ MemInv'
    BY StepKeepsStageInv, StepKeepsMemInv
  <2> QED BY <2>1, <2>2, PTL DEF Spec
<1> QED BY <1>1, PTL

(* The host has only pages of the balloon, whatever it asks for and         *)
(* whenever an allocation fails.                                            *)
THEOREM HostTakesBallooned == Spec => []HostHasOnlyBallooned
<1>1. MemInv => HostHasOnlyBallooned
  BY BalloonInvHolds, Zenon DEF MemInv
<1> QED BY <1>1, MemoryInvariant, PTL

(* The lists of list.rs are consistent in both directions, an allocated     *)
(* page is on exactly one of them, and num_pages and the device's           *)
(* configuration report how many there are.                                 *)
THEOREM BalloonBooksRight == Spec => []BalloonConsistent
<1>1. MemInv => BalloonConsistent
  BY BalloonInvHolds, Zenon DEF MemInv
<1> QED BY <1>1, MemoryInvariant, PTL

LEMMA ReachStays ==
  ASSUME IsFiniteSet(DOMAIN tables), NEW A, NEW root \in A, \A f \in A : tables[f] \subseteq A
  PROVE  Reach(root) \subseteq A
<1> USE Zenon
<1> DEFINE N == Cardinality(DOMAIN tables)
           Out(v) == v \cup UNION {tables[f] : f \in v}
           IsReach(g) == g = [k \in 0 .. N |-> IF k = 0 THEN {root} ELSE Out(g[k - 1])]
           r == CHOOSE g : IsReach(g)
<1>1. Reach(root) = r[N]
  BY DEF Reach
<1>2. N \in Nat
  BY FS_CardinalityType
<1>3. \A v \in SUBSET A : Out(v) \in SUBSET A
  OBVIOUS
<1> HIDE DEF N, Out
<1>4. \E g \in [0 .. N -> SUBSET A] : IsReach(g)
  <2> DEFINE F == [k \in 0 .. N |-> [v \in SUBSET A |-> Out(v)]]
  <2>1. F \in [0 .. N -> [SUBSET A -> SUBSET A]]
    BY <1>3
  <2>2. \A k \in 0 .. N : \A v \in SUBSET A : F[k][v] = Out(v)
    OBVIOUS
  <2> HIDE DEF F
  <2>3. {root} \in SUBSET A
    OBVIOUS
  <2>4. PICK g \in [0 .. N -> SUBSET A] : Recurs(g, N, {root}, F)
    BY <1>2, <2>1, <2>3, Recursion
  <2>5. ASSUME NEW k \in 0 .. N, k # 0 PROVE F[k][g[k - 1]] = Out(g[k - 1])
    <3>1. k - 1 \in 0 .. N
      BY <1>2, <2>5, SMT
    <3>2. g[k - 1] \in SUBSET A
      BY <3>1
    <3> QED BY <2>2, <3>2
  <2>6. IsReach(g)
    BY <2>4, <2>5 DEF Recurs
  <2> QED BY <2>6
<1>5. IsReach(r)
  <2> HIDE DEF IsReach
  <2> QED BY <1>4
<1> HIDE DEF r
<1>6. r[0] = {root} /\ \A k \in 0 .. N - 1 : r[k + 1] = Out(r[k])
  <2>1. 0 \in 0 .. N
    BY <1>2, SMT
  <2>2. ASSUME NEW k \in 0 .. N - 1 PROVE k + 1 \in 0 .. N /\ k + 1 # 0 /\ (k + 1) - 1 = k
    BY <1>2, SMT
  <2> QED BY <1>5, <2>1, <2>2
<1> DEFINE S == {k \in 0 .. N : r[k] \in SUBSET A}
<1>7. 0 \in S /\ N \in 0 .. N
  <2>1. 0 \in 0 .. N /\ N \in 0 .. N
    BY <1>2, SMT
  <2> QED BY <1>6, <2>1
<1>8. ASSUME NEW k \in 0 .. N - 1, k \in S PROVE k + 1 \in S
  <2>1. k + 1 \in 0 .. N
    BY <1>2, SMT
  <2> QED BY <1>3, <1>6, <1>8, <2>1
<1>9. N \in S
  <2> HIDE DEF S
  <2> QED BY <1>2, <1>7, <1>8, UpTo
<1> QED BY <1>1, <1>9

(* From frames::init on every usable frame is in exactly one place, and     *)
(* none that the bootloader left is reached from the kernel's page tables.  *)
THEOREM EveryFrameOnce == Spec => []FramesOnce
<1> USE Zenon
<1>1. StageInv /\ MemInv => FramesOnce
  <2> SUFFICES ASSUME StageInv, MemInv,
                      pc[bsp] \notin {"heap", "idt", "lidt", "frames", "panic"}
               PROVE  FramesOnce
    BY DEF FramesOnce
  <2> DEFINE H == Range(AddRegion(heap.start, heap.end - heap.start))
             U == FramesOf(machine.map, "USABLE")
             P == {p \in Pages : ref[p] > 0}
             Places == <<H, Range(free), Owned, dma, P>>
  <2>1. pc[bsp] \in Pooled /\ pc[bsp] \in Heaped
    <3>1. pc[bsp] \in Stations
      BY DEF StageInv
    <3> QED BY <3>1 DEF Stations, Pooled, Heaped
  <2>2. machine \in Machines /\ Usable(machine.map) # {} /\ heap = HeapOf(machine.map)
    BY <2>1 DEF StageInv, MemInv, HeapInv
  <2>3. GoodMap(machine.map)
    BY <2>2, MapFacts
  <2>4. /\ Aligned(heap.start) /\ Aligned(heap.end) /\ heap.start <= heap.end
        /\ \E i \in Usable(machine.map) : Between(heap.start, heap.end) \subseteq Reg(machine.map, i)
    BY <2>2, <2>3, HeapIs
  <2>5. H = Between(heap.start, heap.end)
    BY <2>4, AddRegionIs
  <2>6. H \subseteq U
    <3>1. U = UNION {Reg(machine.map, i) : i \in Usable(machine.map)}
      BY <2>3, OursAre, FramesOfIs
    <3> QED BY <2>4, <2>5, <3>1
  <2>7. P = Allocated
    <3>1. ref \in [Pages -> {0, 1}]
      BY DEF MemInv, BalloonInv, Booked
    <3> QED BY <3>1, SMT DEF Allocated
  <2>8. /\ Owned \cap Holdings = {} /\ Owned \cup Holdings = U \ H
    BY <2>1, <2>5 DEF MemInv, PlacesInv
  <2>9. /\ IsInjective(free) /\ Range(free) \cap Allocated = {} /\ Range(free) \cap dma = {}
        /\ dma \cap Allocated = {}
    BY DEF MemInv, BalloonInv, PoolApart
  <2>10. kernel_pml4 # NONE => Reach(kernel_pml4) \cap Reclaimable = {}
    <3> SUFFICES ASSUME kernel_pml4 # NONE PROVE Reach(kernel_pml4) \cap Reclaimable = {}
      OBVIOUS
    <3>1. pc[bsp] \in Paged
      BY <2>1, Stages DEF Pooled, MemInv, TablesInv
    <3>2. /\ IsFiniteSet(DOMAIN tables) /\ kernel_pml4 \in Owned
          /\ \A f \in Owned : tables[f] \subseteq Owned
      BY <3>1 DEF MemInv, TablesInv
    <3>3. Reach(kernel_pml4) \subseteq Owned
      BY <3>2, ReachStays
    <3> QED BY <3>3 DEF Owned
  <2>11. Owned = DOMAIN tables \ FramesOf(machine.map, "RECLAIMABLE")
    BY DEF Owned, Reclaimable
  <2> HIDE DEF H, U, P
  <2>12. /\ DOMAIN Places = 1 .. 5
         /\ Places[1] = H /\ Places[2] = Range(free) /\ Places[3] = Owned /\ Places[4] = dma
         /\ Places[5] = P
    BY SMT
  <2>13. \A i, j \in 1 .. 5 : i # j => Places[i] \cap Places[j] = {}
    <3>1. /\ H \cap Range(free) = {} /\ H \cap Owned = {} /\ H \cap dma = {} /\ H \cap P = {}
          /\ Range(free) \cap Owned = {} /\ Range(free) \cap dma = {} /\ Range(free) \cap P = {}
          /\ Owned \cap dma = {} /\ Owned \cap P = {} /\ dma \cap P = {}
      BY <2>7, <2>8, <2>9 DEF Holdings
    <3> HIDE DEF Places
    <3>2. ASSUME NEW i \in 1 .. 5, NEW j \in 1 .. 5, i < j PROVE Places[i] \cap Places[j] = {}
      BY <2>12, <3>1, <3>2, SMT
    <3>3. ASSUME NEW i \in 1 .. 5, NEW j \in 1 .. 5, i # j PROVE Places[i] \cap Places[j] = {}
      <4>1. i < j \/ j < i
        BY <3>3, SMT
      <4>2. CASE j < i
        <5>1. Places[j] \cap Places[i] = {}
          BY <3>2, <4>2
        <5> QED BY <5>1
      <4> QED BY <3>2, <4>1, <4>2
    <3> QED BY <3>3
  <2>14. UNION Range(Places) = U
    <3>1. UNION Range(Places) = H \cup Range(free) \cup Owned \cup dma \cup P
      <4>1. 1 .. 5 = {1, 2, 3, 4, 5}
        BY SMT
      <4>2. Range(Places) = {Places[i] : i \in {1, 2, 3, 4, 5}}
        BY <2>12, <4>1 DEF Range
      <4> HIDE DEF Places
      <4> QED BY <2>12, <4>2
    <3> QED BY <2>6, <2>7, <2>8, <3>1 DEF Holdings
  <2> QED BY <2>9, <2>10, <2>11, <2>12, <2>13, <2>14 DEF FramesOnce, H, U, P, Reclaimable
<1>2. Spec => []StageInv
  BY InitStageInv, StepKeepsStageInv, PTL DEF Spec
<1> QED BY <1>1, <1>2, MemoryInvariant, PTL
=============================================================================
