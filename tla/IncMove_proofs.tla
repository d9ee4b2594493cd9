--------------------------- MODULE IncMove_proofs ---------------------------
(***************************************************************************)
(* What IncMove promises, proved for every value of its constants: the     *)
(* axes never go faster than asked, no pulse is lost, the leftover of a    *)
(* segment ends with a period, a period is never exceeded, and a stop      *)
(* lasts.                                                                  *)
(*                                                                         *)
(* The heart is AxisOK, an inequality between what is due on an axis, what *)
(* is left of it at known speeds and the most that was asked in a period:  *)
(* it is what makes the choice of max_inc safe.  A tick is then taken      *)
(* apart group by group (CycleOf) and axis by axis (AxisAgrees, AxisSkips, *)
(* AxisAdvances).                                                          *)
(***************************************************************************)
EXTENDS IncMove, WellFoundedInduction, TLAPS

Pulses == [Axes -> Int]
Items == [time : Nat, inc : Pulses]

(* The pulses of one axis, between two ticks (ToBeSent: not sent yet).      *)
(* due is toProcess, done what has been moved of what was sent, remain     *)
(* what is left at the speed prev, and pending what waits behind it        *)
(* because the queue is not read again until then.  Two bounds on due make *)
(* the choice of max_inc safe: no more is due than remains to be done at   *)
(* known speeds, but for what was sent although nothing was due (see       *)
(* NothingLost), which is at most `most'; and no more than that where the  *)
(* previous speed is zero.                                                 *)
Toward(part, all) == IF all < 0 THEN part \in all .. 0 ELSE part \in 0 .. all

AxisOK(due, done, sent, remain, pending, speed, prev, most) ==
  /\ speed \in 0 .. most /\ prev \in 0 .. most /\ pending \in {0, speed}
  /\ Abs(done) <= most /\ Abs(sent) <= most
  /\ IF due # 0 THEN Toward(done, due) ELSE Abs(done) <= Abs(remain) + pending
  /\ Abs(due) <= Abs(remain) + pending + most
  /\ prev = 0 => Abs(due) <= pending + most

ToBeSent(due, done, sent, remain, pending) ==
  /\ done = 0
  /\ IF due # 0 THEN Toward(sent, due) ELSE Abs(sent) <= Abs(remain) + pending

Most(n, most) == IF Abs(n) > most THEN Abs(n) ELSE most
Rest(due, remain, done) == IF due = 0 THEN 0 ELSE Abs(remain) - Abs(done)

(* What a tick reads for an axis: new pulses, whose speed it notes, or     *)
(* nothing.                                                                *)
Read(n, s, speed, pending) ==
  (s = Abs(n) /\ pending = 0) \/ (s = speed /\ n = 0)

(* Such a reading; what it makes of max_inc, and of the pulses to send.    *)
Tracked(due, done, sent, remain, pending, speed, prev, most, n, s, d) ==
  /\ AxisOK(due, done, sent, remain, pending, speed, prev, most)
  /\ Read(n, s, speed, pending) /\ d = due - done + n

Limit(prev, s) == IF prev > 0 THEN prev ELSE IF s > 0 THEN s ELSE maxIncrement
Sent(d, n, limit) == IF d = 0 THEN n ELSE Capped(d, limit)
-----------------------------------------------------------------------------
(* What Capped leaves of the pulses due: no more than the limit, towards   *)
(* what is due.                                                            *)
LEMMA CappedFacts ==
  ASSUME NEW due \in Int, NEW limit \in Int, limit > 0
  PROVE  LET c == Capped(due, limit) IN
         /\ c \in Int /\ Abs(c) <= limit /\ Abs(c) <= Abs(due)
         /\ due # 0 => Toward(c, due)
<1>1. CASE due >= 0
  BY <1>1 DEF Capped, Abs, Toward
<1>2. CASE due < 0
  BY <1>2 DEF Capped, Abs, Toward
<1> QED
  BY <1>1, <1>2

(* The three ways a tick tracks an axis.  All that was sent has been       *)
(* processed:                                                              *)
LEMMA AxisAgrees ==
  ASSUME NEW due \in Int, NEW done \in Int, NEW sent \in Int,
         NEW remain \in Int, NEW speed \in Int, NEW prev \in Int,
         NEW most \in Int, NEW pending \in Int,
         AxisOK(due, done, sent, remain, pending, speed, prev, most),
         due = done,
         NEW n \in Int, NEW s \in Int, Read(n, s, speed, pending)
  PROVE  /\ AxisOK(n, 0, n, Abs(n), 0, s, Abs(n), Most(n, most))
         /\ ToBeSent(n, 0, n, Abs(n), 0)
BY DEF AxisOK, ToBeSent, Abs, Toward, Most, Read

(* Some is missing, and some remains of the previous speed:                *)
LEMMA AxisSkips ==
  ASSUME NEW due \in Int, NEW done \in Int, NEW sent \in Int,
         NEW remain \in Int, NEW speed \in Int, NEW prev \in Int,
         NEW most \in Int, NEW pending \in Int,
         NEW n \in Int, NEW s \in Int, NEW d \in Int,
         Tracked(due, done, sent, remain, pending, speed, prev, most, n, s, d)
  PROVE  /\ AxisOK(d, 0, Sent(d, n, Limit(prev, s)), Rest(d, remain, done),
                   s, s, prev, Most(n, most))
         /\ ToBeSent(d, 0, Sent(d, n, Limit(prev, s)),
                     Rest(d, remain, done), s)
<1> PICK lim \in Int : lim = Limit(prev, s)
  BY MoveAssumption DEF Limit
<1>1. lim > 0
  BY MoveAssumption DEF Limit
<1> PICK send \in Int : send = Sent(d, n, lim)
  BY <1>1, CappedFacts DEF Sent
<1>0. Rest(d, remain, done) \in Int
  BY DEF Rest, Abs
<1> PICK rest \in Int : rest = Rest(d, remain, done)
  BY <1>0
<1> DEFINE most2 == Most(n, most)
<1> USE MoveAssumption DEF Abs, Read, Tracked, Limit, Sent
<1>2. most2 \in Int /\ most2 >= most /\ most2 >= Abs(n) /\ most >= 0
  BY DEF Most, AxisOK
<1>3. s \in 0 .. most2 /\ prev \in 0 .. most2
  BY <1>2 DEF AxisOK
<1>4. d # 0 => Toward(send, d) /\ Abs(send) <= lim /\ Abs(send) <= Abs(d)
  BY <1>1, CappedFacts
<1>5. d = 0 => Abs(send) <= Abs(rest) + s
  BY <1>1 DEF AxisOK
<1>6. due # 0 => Abs(due - done) = Abs(due) - Abs(done)
  BY DEF AxisOK, Toward
<1>7. Abs(d) <= Abs(rest) + s + most2
  <2>1. CASE due = 0
    BY <2>1, <1>2 DEF AxisOK, Rest
  <2>2. CASE due # 0
    <3>1. Abs(due) <= Abs(remain) + most + pending
      BY DEF AxisOK
    <3> QED
      BY <2>2, <1>2, <1>6, <3>1 DEF Rest, AxisOK
  <2> QED
    BY <2>1, <2>2
<1>8. prev = 0 => Abs(d) <= s + most2
  <2>1. CASE due = 0
    BY <2>1, <1>2 DEF AxisOK
  <2>2. CASE due # 0
    BY <2>2, <1>2, <1>6 DEF AxisOK
  <2> QED
    BY <2>1, <2>2
<1>9. Abs(send) <= most2
  <2>1. CASE d = 0
    BY <2>1, <1>2
  <2>2. CASE d # 0 /\ (prev > 0 \/ s > 0)
    BY <2>2, <1>1, <1>2, <1>3, <1>4
  <2>3. CASE d # 0 /\ prev = 0 /\ s = 0
    BY <2>3, <1>1, <1>2, <1>4, <1>8
  <2> QED
    BY <2>1, <2>2, <2>3, <1>3
<1> HIDE DEF most2
<1>10. d # 0 => Toward(0, d)
  BY DEF Toward
<1>11. Abs(0) <= most2 /\ Abs(0) <= Abs(rest) + s
  BY <1>1, <1>2, <1>3
<1>12. /\ AxisOK(d, 0, send, rest, s, s, prev, most2)
        /\ ToBeSent(d, 0, send, rest, s)
  BY <1>3, <1>4, <1>5, <1>7, <1>8, <1>9, <1>10, <1>11, Zenon
  DEF AxisOK, ToBeSent
<1> QED
  BY <1>12 DEF most2

(* Some is missing, but nothing of the previous speed:                     *)
LEMMA AxisAdvances ==
  ASSUME NEW due \in Int, NEW done \in Int, NEW sent \in Int,
         NEW remain \in Int, NEW speed \in Int, NEW prev \in Int,
         NEW most \in Int, NEW pending \in Int,
         NEW n \in Int, NEW s \in Int, NEW d \in Int,
         Tracked(due, done, sent, remain, pending, speed, prev, most, n, s, d),
         NEW rest \in Int, rest = Rest(d, remain, done) + s, rest <= s
  PROVE  /\ AxisOK(d, 0, Sent(d, n, Limit(0, s)), rest, 0, s, s,
                   Most(n, most))
         /\ ToBeSent(d, 0, Sent(d, n, Limit(0, s)), rest, 0)
<1> PICK lim \in Int : lim = Limit(0, s)
  BY MoveAssumption DEF Limit
<1>1. lim > 0
  BY MoveAssumption DEF Limit
<1> PICK send \in Int : send = Sent(d, n, lim)
  BY <1>1, CappedFacts DEF Sent
<1> DEFINE most2 == Most(n, most)
<1> USE MoveAssumption DEF Abs, Read, Tracked, Limit, Sent
<1>2. most2 \in Int /\ most2 >= most /\ most2 >= Abs(n) /\ most >= 0
  BY DEF Most, AxisOK
<1>3. s \in 0 .. most2
  BY <1>2 DEF AxisOK
<1>4. d # 0 => Toward(send, d) /\ Abs(send) <= lim /\ Abs(send) <= Abs(d)
  BY <1>1, CappedFacts
<1>5. d = 0 => Abs(send) <= Abs(rest)
  BY <1>1 DEF AxisOK, Rest
<1>6. due # 0 => Abs(due - done) = Abs(due) - Abs(done)
  BY DEF AxisOK, Toward
<1>7. d # 0 => Abs(d) <= rest + most2
  <2>1. CASE due = 0
    BY <2>1, <1>2 DEF AxisOK, Rest
  <2>2. CASE due # 0
    <3>1. Abs(due) <= Abs(remain) + most + pending
      BY DEF AxisOK
    <3> QED
      BY <2>2, <1>2, <1>6, <3>1 DEF Rest, AxisOK
  <2> QED
    BY <2>1, <2>2
<1>8. rest <= s
  OBVIOUS
<1>9. Abs(send) <= most2
  <2>1. CASE d = 0
    BY <2>1, <1>2
  <2>2. CASE d # 0 /\ s > 0
    BY <2>2, <1>1, <1>2, <1>3, <1>4
  <2>3. CASE d # 0 /\ s = 0
    BY <2>3, <1>1, <1>2, <1>4, <1>7, <1>8
  <2> QED
    BY <2>1, <2>2, <2>3, <1>3
<1> HIDE DEF most2
<1>10. d # 0 => Toward(0, d)
  BY DEF Toward
<1>11. Abs(0) <= most2 /\ Abs(0) <= Abs(rest) + 0
  BY <1>1, <1>2, <1>3
<1>12. Abs(d) <= Abs(rest) + 0 + most2 /\ (s = 0 => Abs(d) <= 0 + most2)
  BY <1>1, <1>2, <1>7, <1>8
<1>13. d = 0 => Abs(send) <= Abs(rest) + 0
  BY <1>1, <1>5
<1>14. /\ AxisOK(d, 0, send, rest, 0, s, s, most2)
        /\ ToBeSent(d, 0, send, rest, 0)
  BY <1>3, <1>4, <1>9, <1>10, <1>11, <1>12, <1>13, Zenon
  DEF AxisOK, ToBeSent
<1> QED
  BY <1>14 DEF most2

(* The robot processes part of what was sent.                              *)
LEMMA AxisMoves ==
  ASSUME NEW due \in Int, NEW done \in Int, NEW sent \in Int,
         NEW remain \in Int, NEW pending \in Int, NEW speed \in Int,
         NEW prev \in Int, NEW most \in Int, NEW part \in Int,
         AxisOK(due, done, sent, remain, pending, speed, prev, most),
         ToBeSent(due, done, sent, remain, pending), Toward(part, sent)
  PROVE  AxisOK(due, done + part, sent, remain, pending, speed, prev, most)
<1>1. done = 0 /\ Abs(part) <= Abs(sent) /\ Abs(sent) <= most
  BY DEF AxisOK, ToBeSent, Toward, Abs
<1>2. due # 0 => Toward(part, due)
  BY DEF ToBeSent, Toward
<1>3. Abs(part) <= most
  BY <1>1 DEF Abs
<1>4. due = 0 => Abs(part) <= Abs(remain) + pending
  BY <1>1 DEF ToBeSent, Abs
<1>5. AxisOK(due, part, sent, remain, pending, speed, prev, most)
  BY <1>2, <1>3, <1>4 DEF AxisOK
<1>6. done + part = part
  BY <1>1
<1> QED
  BY <1>5, <1>6, Zenon

(* The tracking starts anew.                                               *)
LEMMA AxisRests ==
  ASSUME NEW due \in Int, NEW done \in Int, NEW sent \in Int,
         NEW remain \in Int, NEW pending \in Int, NEW speed \in Int,
         NEW prev \in Int, NEW most \in Int,
         AxisOK(due, done, sent, remain, pending, speed, prev, most)
  PROVE  AxisOK(0, 0, sent, remain, pending, speed, prev, most)
BY DEF AxisOK, Abs, Toward
-----------------------------------------------------------------------------
-----------------------------------------------------------------------------
(* A whole number of periods stays one when a period is added.             *)
LEMMA ModPlus ==
  ASSUME NEW x \in Nat, NEW p \in Nat \ {0}, x % p = 0
  PROVE  (x + p) % p = 0
<1>1. PICK q1 \in Int, q2 \in Int, r \in 0 .. p - 1 :
        x = p * q1 /\ x + p = p * q2 + r /\ r = (x + p) % p
  <2>1. /\ (x + p) % p \in 0 .. p - 1 /\ x = p * (x \div p)
        /\ x + p = p * ((x + p) \div p) + ((x + p) % p)
        /\ x \div p \in Int /\ (x + p) \div p \in Int
    OBVIOUS
  <2> QED
    BY <2>1
<1>2. PICK k \in Int : k = q1 + 1 - q2
  OBVIOUS
<1>3. r = p * k
  <2>1. p * k = p * q1 + p * 1 - p * q2
    BY <1>2
  <2> QED
    BY <1>1, <2>1
<1>4. CASE k >= 1
  <2>1. p * (k - 1) >= 0
    BY <1>4
  <2>2. p * k >= p
    BY <2>1
  <2> QED
    BY <1>1, <1>3, <2>2
<1>5. CASE k <= 0
  <2>1. p * k <= 0
    BY <1>5
  <2> QED
    BY <1>1, <1>3, <2>1
<1> QED
  BY <1>4, <1>5
(* A nonempty set of natural numbers has a least one.                      *)
LEMMA LeastNat ==
  ASSUME NEW T, T \subseteq Nat, T # {}
  PROVE  \E x \in T : \A y \in T : x <= y
<1> DEFINE R == {ss \in Nat \X Nat : ss[1] < ss[2]}
<1>1. OpToRel(<, Nat) = R
  BY Zenon DEF OpToRel
<1>4. IsWellFoundedOn(R, Nat)
  BY <1>1, NatLessThanWellFounded, Zenon
<1>2. PICK x \in T : \A y \in T : ~ (<<y, x>> \in R)
  <2> HIDE DEF R
  <2> QED
    BY <1>4, WFMin, Zenon
<1>3. ASSUME NEW y \in T PROVE x <= y
  <2>1. <<y, x>> \in Nat \X Nat /\ <<y, x>> \notin R
    BY <1>2
  <2>2. ~(y < x)
    BY <2>1
  <2> QED
    BY <2>2
<1> QED
  BY <1>3

(* Induction, over a set.                                                  *)
LEMMA NatInd ==
  ASSUME NEW T, 0 \in T, \A n \in Nat : n \in T => n + 1 \in T
  PROVE  Nat \subseteq T
<1> SUFFICES ASSUME Nat \ T # {} PROVE FALSE
  OBVIOUS
<1>1. PICK x \in Nat \ T : \A y \in Nat \ T : x <= y
  BY LeastNat
<1>2. x # 0 /\ x - 1 \in Nat /\ x - 1 \in T
  BY <1>1
<1> QED
  BY <1>1, <1>2

(* Max picks the greatest of a nonempty set of numbers up to n.            *)
LEMMA MaxOfNumbers ==
  ASSUME NEW n \in Nat, NEW S, S \subseteq 1 .. n, S # {}
  PROVE  Max(S) \in S /\ \A y \in S : y <= Max(S)
<1> DEFINE T == {n - y : y \in S}
<1>1. T \subseteq Nat /\ T # {}
  <2>1. \A y \in S : y \in 1 .. n
    OBVIOUS
  <2>2. \A y \in S : n - y \in Nat
    BY <2>1
  <2> QED
    BY <2>2
<1>2. PICK x \in T : \A y \in T : x <= y
  BY <1>1, LeastNat
<1>3. PICK z \in S : x = n - z
  BY <1>2
<1>4. \A y \in S : z >= y
  <2> SUFFICES ASSUME NEW y \in S PROVE z >= y
    OBVIOUS
  <2>1. x <= n - y
    BY <1>2
  <2> QED
    BY <2>1, <1>3
<1>5. Max(S) \in S /\ \A y \in S : Max(S) >= y
  BY <1>4 DEF Max
<1> QED
  BY <1>5

(* FoldLeft's recursion, in its function h over the subsets of 1 .. m. *)
Folded(h, q, m) ==
  h = [s \in SUBSET (1 .. m) |->
         IF s = {} THEN Zero
         ELSE Plus(h[s \ {Max(s)}], q[Max(s)].inc)]

(* Such a function exists, whatever the queue: by induction on m.          *)
LEMMA FoldExists ==
  ASSUME NEW q, NEW n \in Nat
  PROVE  \E h : Folded(h, q, n)
<1> DEFINE T == {m \in Nat : \E h : Folded(h, q, m)}
<1>1. 0 \in T
  <2>1. Folded([s \in SUBSET (1 .. 0) |-> Zero], q, 0)
    BY DEF Folded
  <2> QED
    BY <2>1
<1>2. ASSUME NEW m \in Nat, m \in T PROVE m + 1 \in T
  <2>1. PICK h : Folded(h, q, m)
    BY <1>2
  <2> DEFINE i == [s \in SUBSET (1 .. m + 1) |->
                     IF m + 1 \in s THEN Plus(h[s \ {m + 1}], q[m + 1].inc)
                                    ELSE h[s]]
  <2>2. ASSUME NEW s \in SUBSET (1 .. m + 1)
        PROVE  i[s] = IF s = {} THEN Zero
                      ELSE Plus(i[s \ {Max(s)}], q[Max(s)].inc)
    <3>1. CASE m + 1 \in s
      <4>1. Max(s) = m + 1
        <5>1. m + 1 \in Nat /\ s \subseteq 1 .. m + 1 /\ s # {}
          BY <3>1
        <5>2. Max(s) \in s /\ \A y \in s : y <= Max(s)
          BY <5>1, MaxOfNumbers
        <5>3. Max(s) \in 1 .. m + 1
          BY <5>1, <5>2
        <5>4. m + 1 <= Max(s)
          BY <3>1, <5>2
        <5> QED
          BY <5>3, <5>4
      <4>2. s \ {m + 1} \in SUBSET (1 .. m + 1) /\ m + 1 \notin s \ {m + 1}
        OBVIOUS
      <4>3. i[s \ {m + 1}] = h[s \ {m + 1}]
        BY <4>2
      <4> QED
        BY <3>1, <4>1, <4>3
    <3>2. CASE m + 1 \notin s
      <4>1. s \in SUBSET (1 .. m)
        BY <3>2
      <4>2. i[s] = h[s]
        BY <3>2
      <4>3. h[s] = IF s = {} THEN Zero
                   ELSE Plus(h[s \ {Max(s)}], q[Max(s)].inc)
        BY <2>1, <4>1 DEF Folded
      <4>4. s \ {Max(s)} \in SUBSET (1 .. m + 1) /\ m + 1 \notin s \ {Max(s)}
        BY <3>2
      <4>5. i[s \ {Max(s)}] = h[s \ {Max(s)}]
        BY <4>4
      <4> HIDE DEF i
      <4> QED
        BY <4>2, <4>3, <4>5
    <3> QED
      BY <3>1, <3>2
  <2>3. Folded(i, q, m + 1)
    BY <2>2 DEF Folded
  <2> QED
    BY <2>3
<1>3. Nat \subseteq T
  <2> HIDE DEF T
  <2> QED
    BY <1>1, <1>2, NatInd
<1> QED
  BY <1>3

(* It yields pulses when the increments are pulses: by induction.          *)
LEMMA FoldType ==
  ASSUME NEW h, NEW q, NEW n \in Nat, Folded(h, q, n),
         \A k \in 1 .. n : q[k].inc \in Pulses
  PROVE  h[1 .. n] \in Pulses
<1> DEFINE T == {m \in Nat : \A s \in SUBSET (1 .. n) :
                               s \subseteq 1 .. m => h[s] \in Pulses}
<1>1. 0 \in T
  <2>1. ASSUME NEW s \in SUBSET (1 .. n), s \subseteq 1 .. 0
        PROVE  h[s] = Zero
    <3>1. s = {}
      BY <2>1
    <3> QED
      BY <3>1 DEF Folded
  <2> QED
    BY <2>1 DEF Zero, Pulses
<1>2. ASSUME NEW m \in Nat, m \in T PROVE m + 1 \in T
  <2> SUFFICES ASSUME NEW s \in SUBSET (1 .. n), s \subseteq 1 .. m + 1
               PROVE  h[s] \in Pulses
    OBVIOUS
  <2>1. CASE s = {}
    <3>1. h[s] = Zero
      BY <2>1 DEF Folded
    <3> QED
      BY <3>1 DEF Zero, Pulses
  <2>2. CASE s # {}
    <3>1. Max(s) \in s /\ \A y \in s : y <= Max(s)
      BY <2>2, MaxOfNumbers
    <3>2. s \ {Max(s)} \subseteq 1 .. m /\ s \ {Max(s)} \in SUBSET (1 .. n)
      <4>1. Max(s) \in 1 .. m + 1
        BY <3>1
      <4>2. ASSUME NEW y \in s \ {Max(s)} PROVE y \in 1 .. m
        <5>1. y <= Max(s) /\ y # Max(s) /\ y \in 1 .. m + 1
          BY <3>1
        <5> QED
          BY <4>1, <5>1
      <4> QED
        BY <4>2
    <3>3. h[s \ {Max(s)}] \in Pulses
      BY <1>2, <3>2
    <3>4. h[s] = Plus(h[s \ {Max(s)}], q[Max(s)].inc)
      BY <2>2 DEF Folded
    <3>5. q[Max(s)].inc \in Pulses
      BY <3>1
    <3>6. \A a \in Axes : /\ h[s \ {Max(s)}][a] \in Int
                          /\ q[Max(s)].inc[a] \in Int
      BY <3>3, <3>5 DEF Pulses
    <3>7. \A u, v : (\A a \in Axes : u[a] \in Int /\ v[a] \in Int)
                   => Plus(u, v) \in Pulses
      BY DEF Plus, Pulses
    <3> QED
      BY <3>4, <3>6, <3>7, Zenon
  <2> QED
    BY <2>1, <2>2
<1>3. n \in T
  <2> HIDE DEF T
  <2> QED
    BY <1>1, <1>2, NatInd
<1> QED
  BY <1>3

(* The sum of the first n increments of a queue is pulses, and zero for no *)
(* increments.                                                             *)
LEMMA TakenType ==
  ASSUME NEW g, queue[g] \in Seq(Items),
         NEW n \in 0 .. Len(queue[g])
  PROVE  Taken(g, n) \in Pulses /\ (n = 0 => Taken(g, n) = Zero)
<1> DEFINE q == SubSeq(queue[g], 1, n)
           h == CHOOSE h : Folded(h, q, n)
<1>1. DOMAIN q = 1 .. n /\ \A k \in 1 .. n : q[k].inc \in Pulses
  <2>1. DOMAIN q = 1 .. n
    OBVIOUS
  <2>2. ASSUME NEW k \in 1 .. n PROVE q[k].inc \in Pulses
    <3>1. q[k] = queue[g][k] /\ k \in 1 .. Len(queue[g])
      OBVIOUS
    <3>2. queue[g][k] \in Items
      BY <3>1, Len(queue[g]) \in Nat
    <3> HIDE DEF q
    <3> QED
      BY <3>1, <3>2 DEF Items
  <2> HIDE DEF q
  <2> QED
    BY <2>1, <2>2
<1>2. Folded(h, q, n)
  <2> HIDE DEF q
  <2>1. n \in Nat
    OBVIOUS
  <2>2. \E i : Folded(i, q, n)
    BY <2>1, FoldExists
  <2> QED
    BY <2>2, Zenon
<1>3. Taken(g, n) = h[DOMAIN q]
  <2>1. Taken(g, n) = (CHOOSE i : i = [s \in SUBSET (DOMAIN q) |->
                         IF s = {} THEN Zero
                         ELSE Plus(i[s \ {Max(s)}], q[Max(s)].inc)])[DOMAIN q]
    BY Zenon DEF Taken, FoldLeft, MapThenFoldSet
  <2> QED 
    BY <1>1, <2>1, Zenon DEF Folded
<1>4. h[1 .. n] \in Pulses
  <2> HIDE DEF q, h
  <2> QED
    BY <1>1, <1>2, FoldType
<1> QED
  <2> HIDE DEF q, h
  <2>1. n = 0 => h[1 .. n] = Zero
    BY <1>2 DEF Folded
  <2> QED
    BY <1>1, <1>3, <1>4, <2>1
(* The number of increments combined is one of them, and those after the   *)
(* first end within a period.                                              *)
LEMMA CombinedFacts ==
  ASSUME NEW g \in Groups, queue[g] \in Seq(Items), queue[g] # <<>>
  PROVE  /\ Combined(g) \in 1 .. Len(queue[g])
         /\ \A k \in 2 .. Combined(g) :
              queue[g][k].time - q_time[g] \in 0 .. interpolPeriod
<1> DEFINE InPeriod(k) == queue[g][k].time - q_time[g] \in 0 .. interpolPeriod
           S == {n \in 1 .. Len(queue[g]) : \A k \in 2 .. n : InPeriod(k)}
<1>1. Len(queue[g]) \in Nat /\ Len(queue[g]) > 0
  OBVIOUS
<1>2. S \subseteq 1 .. Len(queue[g]) /\ S # {}
  <2>1. 1 \in S
    BY <1>1
  <2> QED
    BY <2>1
<1>3. Combined(g) = Max(S)
  BY DEF Combined
<1>4. Combined(g) \in S
  <2> HIDE DEF S
  <2> QED
    BY <1>1, <1>2, <1>3, MaxOfNumbers
<1> QED
  BY <1>4

QueueOK ==
  /\ queue \in [Groups -> Seq(Items)]
  /\ q_time \in [Groups -> Nat]

SendOK ==
  /\ at \in {"clock", "send"}
  /\ move \in [Groups -> Pulses] /\ toProcess \in [Groups -> Pulses]
  /\ moved \in [Groups -> Pulses] /\ owed \in [Groups -> Pulses]
  /\ maxSpeed \in [Groups -> Pulses] /\ prevMaxSpeed \in [Groups -> Pulses]
  /\ prevMaxSpeedRemain \in [Groups -> Pulses]
  /\ fastest \in [Groups -> Pulses]
  /\ skipReadingQ \in [Groups -> BOOLEAN]

(* What a tick does to one group that takes c increments, n in sum.        *)
CycleOf(g, c, n, s) ==
  /\ c > 0 => ~skipReadingQ[g] /\ c = Combined(g) /\ queue[g] # <<>>
  /\ n = Taken(g, c)
  /\ s = IF c > 0 THEN Size(n) ELSE maxSpeed[g]
  /\ queue'[g] = SubSeq(queue[g], c + 1, Len(queue[g]))
  /\ q_time'[g] = IF c > 0 THEN queue[g][c].time ELSE q_time[g]
  /\ moved'[g] = Zero /\ toProcess'[g] = Due(g, n)
  /\ owed'[g] = Plus(owed[g], n)
  /\ move'[g] = ToSend(g, n, s)
  /\ skipReadingQ'[g] = SkipNext(g, n)
  /\ maxSpeed'[g] = s
  /\ prevMaxSpeed'[g] = IF ~Missing(g) THEN Size(n)
                        ELSE IF SkipNext(g, n) THEN prevMaxSpeed[g] ELSE s
  /\ prevMaxSpeedRemain'[g] =
       IF ~Missing(g) THEN Size(n)
       ELSE IF SkipNext(g, n) THEN RemainUnprocessed(g, n)
       ELSE Plus(RemainUnprocessed(g, n), s)
  /\ fastest'[g] = [a \in Axes |-> Most(n[a], fastest[g][a])]
  /\ ~evened' => ~evened /\ \A a \in Axes :
       ~(Missing(g) /\ n[a] # 0 /\ Due(g, n)[a] = 0)

(* Every tick is such a step of each group.                                *)
LEMMA CycleOfGroup ==
  ASSUME QueueOK, NEW locked, Cycle(locked), NEW g \in Groups
  PROVE  \E c \in 0 .. Len(queue[g]), n \in Pulses :
           \E s : CycleOf(g, c, n, s)
<1> DEFINE Reads(h) == ~skipReadingQ[h] /\ h \notin locked /\ queue[h] # <<>>
           count == [h \in Groups |-> IF Reads(h) THEN Combined(h) ELSE 0]
           new == [h \in Groups |-> Taken(h, count[h])]
           speed == [h \in Groups |->
                       IF Reads(h) THEN Size(new[h]) ELSE maxSpeed[h]]
           c == count[g]
           n == new[g]
           s == speed[g]
<1>1. queue[g] \in Seq(Items) /\ Len(queue[g]) \in Nat
  BY DEF QueueOK
<1>2. /\ c \in 0 .. Len(queue[g])
      /\ c > 0 <=> Reads(g)
      /\ c > 0 => c = Combined(g)
  <2>1. CASE Reads(g)
    <3>1. c = Combined(g) /\ Combined(g) \in 1 .. Len(queue[g])
      BY <1>1, <2>1, CombinedFacts
    <3> HIDE DEF c
    <3> QED
      BY <1>1, <2>1, <3>1
  <2>2. CASE ~Reads(g)
    <3>1. c = 0
      BY <2>2
    <3> HIDE DEF c
    <3> QED
      BY <1>1, <2>2, <3>1
  <2> QED
    BY <2>1, <2>2
<1>3. n = Taken(g, c) /\ n \in Pulses
  <2>1. n = Taken(g, c)
    BY Zenon
  <2> HIDE DEF n, c
  <2> QED
    BY <1>1, <1>2, <2>1, TakenType
<1>4. s = IF Reads(g) THEN Size(n) ELSE maxSpeed[g]
  BY Zenon
<1>5. /\ queue' = [h \in Groups |->
                     SubSeq(queue[h], count[h] + 1, Len(queue[h]))]
      /\ q_time' = [h \in Groups |->
                      IF Reads(h) THEN queue[h][count[h]].time ELSE q_time[h]]
      /\ maxSpeed' = speed
      /\ moved' = Still
      /\ toProcess' = [h \in Groups |-> Due(h, new[h])]
      /\ move' = [h \in Groups |-> ToSend(h, new[h], speed[h])]
      /\ skipReadingQ' = [h \in Groups |-> SkipNext(h, new[h])]
      /\ prevMaxSpeed' = [h \in Groups |->
           IF ~Missing(h) THEN Size(new[h])
           ELSE IF SkipNext(h, new[h]) THEN prevMaxSpeed[h] ELSE speed[h]]
      /\ prevMaxSpeedRemain' = [h \in Groups |->
           IF ~Missing(h) THEN Size(new[h])
           ELSE IF SkipNext(h, new[h]) THEN RemainUnprocessed(h, new[h])
           ELSE Plus(RemainUnprocessed(h, new[h]), speed[h])]
      /\ owed' = [h \in Groups |-> Plus(owed[h], new[h])]
      /\ fastest' = [h \in Groups |-> [a \in Axes |->
           IF Abs(new[h][a]) > fastest[h][a]
             THEN Abs(new[h][a]) ELSE fastest[h][a]]]
      /\ evened' = (evened \/ \E h \in Groups, a \in Axes :
           Missing(h) /\ new[h][a] # 0 /\ Due(h, new[h])[a] = 0)
  BY Zenon DEF Cycle
<1>6. fastest'[g] = [a \in Axes |-> Most(n[a], fastest[g][a])]
  <2> HIDE DEF new, n
  <2>1. n = new[g]
    BY DEF n
  <2> QED
    BY <1>5, <2>1 DEF Most
<1>7. CycleOf(g, c, n, s)
  <2>1. n = new[g] /\ c = count[g] /\ s = speed[g]
    OBVIOUS
  <2>2. /\ queue'[g] = SubSeq(queue[g], c + 1, Len(queue[g]))
        /\ q_time'[g] = IF Reads(g) THEN queue[g][c].time ELSE q_time[g]
        /\ moved'[g] = Zero
    <3> HIDE DEF count, c
    <3> QED
      BY <1>5, <2>1 DEF Still
  <2> HIDE DEF count, c, new, n, speed, s
  <2> QED
    BY <1>2, <1>3, <1>4, <1>5, <1>6, <2>1, <2>2 DEF CycleOf
<1> QED
  BY <1>2, <1>3, <1>7

(* A tick leaves functions over the groups.                                *)
LEMMA CycleFunctions ==
  ASSUME NEW locked, Cycle(locked)
  PROVE  /\ queue' = [h \in Groups |-> queue'[h]]
         /\ q_time' = [h \in Groups |-> q_time'[h]]
         /\ moved' = [h \in Groups |-> moved'[h]]
         /\ toProcess' = [h \in Groups |-> toProcess'[h]]
         /\ owed' = [h \in Groups |-> owed'[h]]
         /\ move' = [h \in Groups |-> move'[h]]
         /\ skipReadingQ' = [h \in Groups |-> skipReadingQ'[h]]
         /\ maxSpeed' = [h \in Groups |-> maxSpeed'[h]]
         /\ prevMaxSpeed' = [h \in Groups |-> prevMaxSpeed'[h]]
         /\ prevMaxSpeedRemain' = [h \in Groups |-> prevMaxSpeedRemain'[h]]
         /\ fastest' = [h \in Groups |-> fastest'[h]]
<1>1. /\ queue' = [h \in Groups |-> queue'[h]]
      /\ q_time' = [h \in Groups |-> q_time'[h]]
  BY DEF Cycle
<1>2. /\ moved' = [h \in Groups |-> moved'[h]]
      /\ toProcess' = [h \in Groups |-> toProcess'[h]]
      /\ owed' = [h \in Groups |-> owed'[h]]
  BY DEF Cycle, Still
<1>3. /\ move' = [h \in Groups |-> move'[h]]
      /\ skipReadingQ' = [h \in Groups |-> skipReadingQ'[h]]
      /\ maxSpeed' = [h \in Groups |-> maxSpeed'[h]]
  BY DEF Cycle
<1>4. /\ prevMaxSpeed' = [h \in Groups |-> prevMaxSpeed'[h]]
      /\ prevMaxSpeedRemain' = [h \in Groups |-> prevMaxSpeedRemain'[h]]
  BY DEF Cycle
<1>5. fastest' = [h \in Groups |-> fastest'[h]]
  BY DEF Cycle
<1> QED
  BY <1>1, <1>2, <1>3, <1>4, <1>5

(* All that is derived from new pulses is pulses again.                    *)
LEMMA DerivedPulses ==
  ASSUME SendOK, NEW g \in Groups, NEW n \in Pulses, NEW s \in Pulses
  PROVE  /\ Due(g, n) \in Pulses /\ RemainUnprocessed(g, n) \in Pulses
         /\ ToSend(g, n, s) \in Pulses /\ Size(n) \in Pulses
         /\ Plus(owed[g], n) \in Pulses
         /\ Plus(RemainUnprocessed(g, n), s) \in Pulses
         /\ [a \in Axes |-> Most(n[a], fastest[g][a])] \in Pulses
         /\ SkipNext(g, n) \in BOOLEAN
<1>1. Due(g, n) \in Pulses
  BY DEF Due, Pulses, SendOK
<1>2. RemainUnprocessed(g, n) \in Pulses
  <2>1. \A a \in Axes : /\ prevMaxSpeedRemain[g][a] \in Int
                        /\ moved[g][a] \in Int
    BY DEF SendOK, Pulses
  <2> QED
    BY <2>1 DEF RemainUnprocessed, Pulses, Abs
<1>3. ToSend(g, n, s) \in Pulses
  <2>1. \A a \in Axes : SpeedLimit(g, n, s)[a] \in Int
    BY MoveAssumption DEF SpeedLimit, SendOK, Pulses
  <2>2. ASSUME NEW a \in Axes, NEW l \in Int
        PROVE  Capped(Due(g, n)[a], l) \in Int
    BY <1>1 DEF Capped, Pulses
  <2> QED
    BY <2>1, <2>2 DEF ToSend, Pulses
<1>4. Size(n) \in Pulses
  BY DEF Size, Abs, Pulses
<1>5. Plus(owed[g], n) \in Pulses
  BY DEF Plus, Pulses, SendOK
<1>6. Plus(RemainUnprocessed(g, n), s) \in Pulses
  BY <1>2 DEF Plus, Pulses
<1>7. [a \in Axes |-> Most(n[a], fastest[g][a])] \in Pulses
  BY DEF Most, Abs, Pulses, SendOK
<1>8. SkipNext(g, n) \in BOOLEAN
  BY DEF SkipNext
<1> QED
  BY <1>1, <1>2, <1>3, <1>4, <1>5, <1>6, <1>7, <1>8

Pending(g, a) == IF skipReadingQ[g] THEN maxSpeed[g][a] ELSE 0

(* What a tick reads for a group is a reading of each of its axes.         *)
LEMMA ReadPulses ==
  ASSUME SendOK, NEW g \in Groups, NEW c \in Nat, NEW n \in Pulses, NEW s,
         CycleOf(g, c, n, s), c = 0 => n = Zero
  PROVE  /\ s \in Pulses
         /\ \A a \in Axes : Read(n[a], s[a], maxSpeed[g][a], Pending(g, a))
<1>1. CASE c > 0
  BY <1>1, DerivedPulses DEF CycleOf, Size, Read, Abs, Pulses, Pending
<1>2. CASE c = 0
  BY <1>2 DEF CycleOf, Read, SendOK, Zero, Pulses, Pending
<1> QED
  BY <1>1, <1>2

AxisFits(g, a) ==
  AxisOK(toProcess[g][a], moved[g][a], move[g][a], prevMaxSpeedRemain[g][a],
         Pending(g, a), maxSpeed[g][a], prevMaxSpeed[g][a], fastest[g][a])

AxisSends(g, a) ==
  ToBeSent(toProcess[g][a], moved[g][a], move[g][a],
           prevMaxSpeedRemain[g][a], Pending(g, a))

PulsesOK ==
  \A g \in Groups, a \in Axes :
    AxisFits(g, a) /\ (at = "send" => AxisSends(g, a))

(* A tick keeps the bounds on every axis: it tracks each in one of the     *)
(* three ways.                                                             *)
LEMMA CycleKeepsPulses ==
  ASSUME QueueOK, SendOK, PulsesOK, NEW locked, Cycle(locked)
  PROVE  SendOK' /\ PulsesOK'
<1> USE DEF Pulses
<1>0. at = "clock" /\ at' = "send"
  BY DEF Cycle
<1>1. ASSUME NEW g \in Groups
      PROVE  \E c \in Nat, n \in Pulses, s \in Pulses :
               /\ CycleOf(g, c, n, s)
               /\ \A a \in Axes :
                    Read(n[a], s[a], maxSpeed[g][a], Pending(g, a))
  <2>c. PICK c \in 0 .. Len(queue[g]), n \in Pulses :
          \E s : CycleOf(g, c, n, s)
    BY CycleOfGroup
  <2>1. PICK s : CycleOf(g, c, n, s)
    BY <2>c
  <2>2. c \in Nat
    BY DEF QueueOK
  <2>3. c = 0 => n = Zero
    BY <2>1, TakenType DEF CycleOf, QueueOK
  <2> QED
    BY <2>1, <2>2, <2>3, ReadPulses
<1>2. SendOK'
  <2>1. ASSUME NEW g \in Groups
        PROVE  /\ move'[g] \in Pulses /\ toProcess'[g] \in Pulses
               /\ moved'[g] \in Pulses /\ owed'[g] \in Pulses
               /\ maxSpeed'[g] \in Pulses /\ prevMaxSpeed'[g] \in Pulses
               /\ prevMaxSpeedRemain'[g] \in Pulses /\ fastest'[g] \in Pulses
               /\ skipReadingQ'[g] \in BOOLEAN
    <3>1. PICK c \in Nat, n \in Pulses, s \in Pulses : CycleOf(g, c, n, s)
      BY <1>1
    <3>2. Zero \in Pulses /\ prevMaxSpeed[g] \in Pulses
      BY DEF Zero, SendOK
    <3>3. /\ Due(g, n) \in Pulses /\ RemainUnprocessed(g, n) \in Pulses
          /\ ToSend(g, n, s) \in Pulses /\ Size(n) \in Pulses
          /\ Plus(owed[g], n) \in Pulses
          /\ Plus(RemainUnprocessed(g, n), s) \in Pulses
          /\ [a \in Axes |-> Most(n[a], fastest[g][a])] \in Pulses
          /\ SkipNext(g, n) \in BOOLEAN
      <4> HIDE DEF Pulses
      <4> QED
        BY DerivedPulses
    <3>4. /\ prevMaxSpeed'[g] \in {Size(n), prevMaxSpeed[g], s}
          /\ prevMaxSpeedRemain'[g] \in {Size(n), RemainUnprocessed(g, n),
                                         Plus(RemainUnprocessed(g, n), s)}
      BY <3>1 DEF CycleOf
    <3> HIDE DEF Pulses
    <3>5. /\ move'[g] \in Pulses /\ toProcess'[g] \in Pulses
          /\ moved'[g] \in Pulses /\ owed'[g] \in Pulses
          /\ maxSpeed'[g] \in Pulses /\ fastest'[g] \in Pulses
          /\ skipReadingQ'[g] \in BOOLEAN
      BY <3>1, <3>2, <3>3, Zenon DEF CycleOf
    <3> QED
      BY <3>2, <3>3, <3>4, <3>5
  <2> HIDE DEF Pulses
  <2> QED
    BY <1>0, <2>1, CycleFunctions DEF SendOK
<1>3. ASSUME NEW g \in Groups, NEW a \in Axes
      PROVE  AxisFits(g, a)' /\ AxisSends(g, a)'
  <2>1. PICK c \in Nat, new \in Pulses, speed \in Pulses :
          /\ CycleOf(g, c, new, speed)
          /\ Read(new[a], speed[a], maxSpeed[g][a], Pending(g, a))
    BY <1>1
  <2>2. /\ toProcess[g][a] \in Int /\ moved[g][a] \in Int
        /\ move[g][a] \in Int /\ prevMaxSpeedRemain[g][a] \in Int
        /\ maxSpeed[g][a] \in Int /\ prevMaxSpeed[g][a] \in Int
        /\ fastest[g][a] \in Int /\ Pending(g, a) \in Int
        /\ new[a] \in Int /\ speed[a] \in Int
    BY DEF SendOK, Pending
  <2>3. AxisFits(g, a)
    BY DEF PulsesOK
  <2>4. PICK due \in Int, done \in Int, sent \in Int, remain \in Int,
             pending \in Int, was \in Int, prev \in Int, most \in Int,
             n \in Int, s \in Int :
          /\ due = toProcess[g][a] /\ done = moved[g][a] /\ sent = move[g][a]
          /\ remain = prevMaxSpeedRemain[g][a] /\ was = maxSpeed[g][a]
          /\ prev = prevMaxSpeed[g][a] /\ most = fastest[g][a]
          /\ pending = Pending(g, a) /\ n = new[a] /\ s = speed[a]
    BY <2>2
  <2>5. /\ AxisOK(due, done, sent, remain, pending, was, prev, most)
        /\ Read(n, s, was, pending)
    BY <2>1, <2>3, <2>4, Zenon DEF AxisFits
  <2>6. PICK d \in Int : d = due - done + n
    OBVIOUS
  <2>7. Due(g, new)[a] = d
    BY <2>4, <2>6 DEF Due
  <2>9. Tracked(due, done, sent, remain, pending, was, prev, most, n, s, d)
    BY <2>5, <2>6, Zenon DEF Tracked
  <2>8. /\ toProcess'[g][a] = d /\ moved'[g][a] = 0
        /\ maxSpeed'[g][a] = s
        /\ fastest'[g][a] = Most(n, most)
        /\ skipReadingQ'[g] = SkipNext(g, new)
    BY <2>1, <2>4, <2>7 DEF CycleOf, Zero
  <2>10. CASE ~Missing(g)
    <3>1. due = done /\ d = n
      BY <2>4, <2>6, <2>10 DEF Missing
    <3>2. /\ move'[g][a] = n /\ prevMaxSpeed'[g][a] = Abs(n)
          /\ prevMaxSpeedRemain'[g][a] = Abs(n)
          /\ Pending(g, a)' = 0
      BY <2>1, <2>4, <2>8, <2>10 DEF CycleOf, ToSend, Size, SkipNext, Pending
    <3>3. /\ AxisOK(n, 0, n, Abs(n), 0, s, Abs(n), Most(n, most))
          /\ ToBeSent(n, 0, n, Abs(n), 0)
      BY <2>5, <3>1, AxisAgrees
    <3> QED
      BY <2>8, <3>1, <3>2, <3>3, Zenon DEF AxisFits, AxisSends
  <2>11. CASE Missing(g) /\ SkipNext(g, new)
    <3> DEFINE send == Sent(d, n, Limit(prev, s))
               rest == Rest(d, remain, done)
    <3>1. SpeedLimit(g, new, speed)[a] = Limit(prev, s)
      BY <2>4, <2>11 DEF SpeedLimit, Limit
    <3>2. ToSend(g, new, speed)[a] = send
      BY <2>4, <2>7, <2>11, <3>1 DEF ToSend, Sent
    <3>3. RemainUnprocessed(g, new)[a] = rest
      BY <2>4, <2>7 DEF RemainUnprocessed, Rest
    <3>4. /\ move'[g][a] = send /\ prevMaxSpeed'[g][a] = prev
          /\ prevMaxSpeedRemain'[g][a] = rest /\ Pending(g, a)' = s
      <4> HIDE DEF send, rest
      <4> QED
        BY <2>1, <2>4, <2>8, <2>11, <3>2, <3>3 DEF CycleOf, Pending
    <3>5. /\ AxisOK(d, 0, send, rest, s, s, prev, Most(n, most))
          /\ ToBeSent(d, 0, send, rest, s)
      BY <2>9, AxisSkips
    <3> HIDE DEF send, rest
    <3> QED
      BY <2>8, <3>4, <3>5, Zenon DEF AxisFits, AxisSends
  <2>12. CASE Missing(g) /\ ~SkipNext(g, new)
    <3> DEFINE send == Sent(d, n, Limit(0, s))
    <3>1. SpeedLimit(g, new, speed)[a] = Limit(0, s)
      BY <2>4, <2>12 DEF SpeedLimit, Limit
    <3>2. ToSend(g, new, speed)[a] = send
      BY <2>4, <2>7, <2>12, <3>1 DEF ToSend, Sent
    <3>3. /\ RemainUnprocessed(g, new)[a] = Rest(d, remain, done)
          /\ ~(RemainUnprocessed(g, new)[a] > 0)
      BY <2>4, <2>7, <2>12 DEF SkipNext, RemainUnprocessed, Rest
    <3>4. PICK rest \in Int : rest = Rest(d, remain, done) + s /\ rest <= s
      <4>1. Rest(d, remain, done) \in Int
        BY DEF Rest, Abs
      <4> QED
        BY <3>3, <4>1
    <3>5. Plus(RemainUnprocessed(g, new), speed)[a] = rest
      BY <2>4, <3>3, <3>4 DEF Plus
    <3>6. /\ move'[g][a] = send /\ prevMaxSpeed'[g][a] = s
          /\ prevMaxSpeedRemain'[g][a] = rest /\ Pending(g, a)' = 0
      <4> HIDE DEF send
      <4> QED
        BY <2>1, <2>4, <2>8, <2>12, <3>2, <3>5 DEF CycleOf, Pending
    <3>7. /\ AxisOK(d, 0, send, rest, 0, s, s, Most(n, most))
          /\ ToBeSent(d, 0, send, rest, 0)
      BY <2>9, <3>4, AxisAdvances
    <3> HIDE DEF send
    <3> QED
      BY <2>8, <3>6, <3>7, Zenon DEF AxisFits, AxisSends
  <2> QED
    BY <2>10, <2>11, <2>12
<1> QED
  BY <1>2, <1>3 DEF PulsesOK
-----------------------------------------------------------------------------
(* The robot processes what it was sent, or part of it.                    *)
LEMMA SendKeepsPulses ==
  ASSUME SendOK, PulsesOK, Send
  PROVE  SendOK' /\ PulsesOK'
<1>1. PICK part \in Parts :
        /\ moved' = [g \in Groups |-> Plus(moved[g], part[g])]
        /\ owed' = [g \in Groups |->
                      [a \in Axes |-> owed[g][a] - part[g][a]]]
  BY DEF Send
<1>2. /\ at = "send" /\ at' = "clock"
      /\ UNCHANGED <<move, toProcess, maxSpeed, prevMaxSpeed,
                     prevMaxSpeedRemain, fastest, skipReadingQ>>
  BY DEF Send, speeds, ghosts
<1>3. ASSUME NEW g \in Groups, NEW a \in Axes
      PROVE  part[g][a] \in Int /\ Toward(part[g][a], move[g][a])
  <2>1. move[g][a] \in Int
    BY DEF SendOK, Pulses
  <2>2. Toward(part[g][a], move[g][a])
    BY part \in Parts DEF Parts, Toward
  <2> QED
    BY <2>1, <2>2 DEF Toward
<1>4. SendOK'
  <2>1. moved' \in [Groups -> Pulses]
    BY <1>1, <1>3 DEF SendOK, Plus, Pulses
  <2>2. owed' \in [Groups -> Pulses]
    BY <1>1, <1>3 DEF SendOK, Pulses
  <2> QED
    BY <1>2, <2>1, <2>2 DEF SendOK
<1>5. ASSUME NEW g \in Groups, NEW a \in Axes
      PROVE  AxisFits(g, a)'
  <2>1. /\ toProcess[g][a] \in Int /\ moved[g][a] \in Int
        /\ move[g][a] \in Int /\ prevMaxSpeedRemain[g][a] \in Int
        /\ maxSpeed[g][a] \in Int /\ prevMaxSpeed[g][a] \in Int
        /\ fastest[g][a] \in Int /\ Pending(g, a) \in Int
    BY DEF SendOK, Pending, Pulses
  <2>2. moved'[g][a] = moved[g][a] + part[g][a]
    BY <1>1 DEF Plus
  <2>3. AxisFits(g, a) /\ AxisSends(g, a)
    BY <1>2 DEF PulsesOK
  <2>4. AxisOK(toProcess[g][a], moved[g][a] + part[g][a], move[g][a],
               prevMaxSpeedRemain[g][a], Pending(g, a), maxSpeed[g][a],
               prevMaxSpeed[g][a], fastest[g][a])
    BY <1>3, <2>1, <2>3, AxisMoves DEF AxisFits, AxisSends
  <2> QED
    BY <1>2, <2>2, <2>4 DEF AxisFits, Pending
<1> QED
  BY <1>2, <1>4, <1>5 DEF PulsesOK

(* With nothing to do, the tracking starts anew.                           *)
LEMMA IdleKeepsThem ==
  ASSUME SendOK, PulsesOK, Idle
  PROVE  SendOK' /\ PulsesOK'
<1>1. /\ at = "clock" /\ at' = "clock"
      /\ toProcess' = Still /\ moved' = Still /\ owed' = Still
      /\ UNCHANGED <<move, maxSpeed, prevMaxSpeed,
                     prevMaxSpeedRemain, fastest, skipReadingQ>>
  BY DEF Idle, speeds
<1>2. SendOK'
  BY <1>1 DEF SendOK, Still, Zero, Pulses
<1>3. ASSUME NEW g \in Groups, NEW a \in Axes
      PROVE  AxisFits(g, a)'
  <2>1. /\ toProcess[g][a] \in Int /\ moved[g][a] \in Int
        /\ move[g][a] \in Int /\ prevMaxSpeedRemain[g][a] \in Int
        /\ maxSpeed[g][a] \in Int /\ prevMaxSpeed[g][a] \in Int
        /\ fastest[g][a] \in Int /\ Pending(g, a) \in Int
    BY DEF SendOK, Pending, Pulses
  <2>2. toProcess'[g][a] = 0 /\ moved'[g][a] = 0
    BY <1>1 DEF Still, Zero
  <2>3. AxisFits(g, a)
    BY DEF PulsesOK
  <2>4. AxisOK(0, 0, move[g][a],
               prevMaxSpeedRemain[g][a], Pending(g, a), maxSpeed[g][a],
               prevMaxSpeed[g][a], fastest[g][a])
    BY <2>1, <2>3, AxisRests DEF AxisFits
  <2> QED
    BY <1>1, <2>2, <2>4 DEF AxisFits, Pending
<1> QED
  BY <1>1, <1>2, <1>3 DEF PulsesOK

(* No other action touches the pulses.                                     *)
LEMMA PulsesFrame ==
  ASSUME SendOK, PulsesOK, at' \in {at, "clock"},
         UNCHANGED <<move, toProcess, moved, owed, maxSpeed, prevMaxSpeed,
                     prevMaxSpeedRemain, fastest, skipReadingQ>>
  PROVE  SendOK' /\ PulsesOK'
<1>1. SendOK'
  BY DEF SendOK
<1>2. ASSUME NEW g \in Groups, NEW a \in Axes
      PROVE  AxisFits(g, a)' /\ (at' = "send" => AxisSends(g, a)')
  <2>1. AxisFits(g, a) /\ (at = "send" => AxisSends(g, a))
    BY DEF PulsesOK
  <2> QED
    BY <2>1 DEF AxisFits, AxisSends, Pending
<1> QED
  BY <1>1, <1>2 DEF PulsesOK

(* The producer, a stop and readiness do not touch what is being sent.     *)
LEMMA OthersLeavePulses ==
  ASSUME Produce \/ Drop \/ StopRaise \/ StopClear \/ ReadyChanges
  PROVE  /\ at' \in {at, "clock"}
         /\ UNCHANGED <<move, toProcess, moved, owed, maxSpeed, prevMaxSpeed,
                        prevMaxSpeedRemain, fastest, skipReadingQ,
                        hasUnprocessedData, evened>>
<1> USE DEF sending, speeds, ghosts
<1>1. CASE Produce
  BY <1>1 DEF Produce, InitTrajectory, BeginSegment, Interpolate,
              LeaveSegment, Discard, EndTrajectory
<1>2. CASE Drop \/ StopRaise \/ StopClear \/ ReadyChanges
  BY <1>2 DEF Drop, StopRaise, StopClear, ReadyChanges
<1> QED
  BY <1>1, <1>2
-----------------------------------------------------------------------------
(* What is due is what the robot is short of and what it has moved since.  *)
Accounted ==
  \A g \in Groups, a \in Axes : toProcess[g][a] = owed[g][a] + moved[g][a]

(* Where nothing is due nothing is sent, but for new pulses that evened.   *)
NotEvened ==
  ~evened => \A g \in Groups, a \in Axes :
    toProcess[g][a] = 0 =>
      moved[g][a] = 0 /\ (at = "send" => move[g][a] = 0)

DueIsKnown ==
  hasUnprocessedData <=> \E g \in Groups : toProcess[g] # Zero

(* A tick adds what it takes to what is due and to what is owed alike.     *)
LEMMA CycleAccounts ==
  ASSUME QueueOK, SendOK, Accounted, NotEvened, NEW locked, Cycle(locked)
  PROVE  Accounted' /\ NotEvened' /\ DueIsKnown'
<1>0. SendOK /\ at' = "send"
  BY DEF Cycle
<1>1. DueIsKnown'
  <2> DEFINE Reads(h) == ~skipReadingQ[h] /\ h \notin locked /\ queue[h] # <<>>
             count == [h \in Groups |-> IF Reads(h) THEN Combined(h) ELSE 0]
             new == [h \in Groups |-> Taken(h, count[h])]
  <2>1. /\ toProcess' = [h \in Groups |-> Due(h, new[h])]
        /\ hasUnprocessedData' = (\E h \in Groups : Due(h, new[h]) # Zero)
    BY Zenon DEF Cycle
  <2> HIDE DEF new
  <2> QED
    BY <2>1 DEF DueIsKnown
<1>2. ASSUME NEW g \in Groups, NEW a \in Axes
      PROVE  /\ toProcess'[g][a] = owed'[g][a] + moved'[g][a]
             /\ ~evened' => (toProcess'[g][a] = 0 =>
                               moved'[g][a] = 0 /\ move'[g][a] = 0)
  <2>c. PICK c \in 0 .. Len(queue[g]), n \in Pulses :
          \E s : CycleOf(g, c, n, s)
    BY CycleOfGroup
  <2>1. PICK s : CycleOf(g, c, n, s)
    BY <2>c
  <2>2. /\ toProcess[g][a] \in Int /\ moved[g][a] \in Int
        /\ owed[g][a] \in Int /\ n[a] \in Int
    BY DEF SendOK, Pulses
  <2>3. /\ toProcess'[g][a] = toProcess[g][a] - moved[g][a] + n[a]
        /\ moved'[g][a] = 0 /\ owed'[g][a] = owed[g][a] + n[a]
    BY <2>1 DEF CycleOf, Due, Zero, Plus
  <2>4. toProcess[g][a] = owed[g][a] + moved[g][a]
    BY DEF Accounted
  <2>5. ASSUME ~evened', toProcess'[g][a] = 0 PROVE move'[g][a] = 0
    <3>1. Due(g, n)[a] = 0 /\ ~(Missing(g) /\ n[a] # 0)
      BY <2>1, <2>5 DEF CycleOf
    <3>2. ~Missing(g) => n[a] = 0
      BY <2>2, <2>3, <2>5 DEF Missing
    <3> QED
      BY <2>1, <3>1, <3>2 DEF CycleOf, ToSend
  <2> QED
    BY <2>2, <2>3, <2>4, <2>5
<1> QED
  BY <1>0, <1>1, <1>2 DEF Accounted, NotEvened

(* What the robot processes is moved and no longer owed.                   *)
LEMMA SendAccounts ==
  ASSUME SendOK, Accounted, NotEvened, DueIsKnown, Send
  PROVE  Accounted' /\ NotEvened' /\ DueIsKnown'
<1>1. PICK part \in Parts :
        /\ moved' = [g \in Groups |-> Plus(moved[g], part[g])]
        /\ owed' = [g \in Groups |->
                      [a \in Axes |-> owed[g][a] - part[g][a]]]
  BY DEF Send
<1>2. /\ at = "send" /\ at' = "clock"
      /\ UNCHANGED <<move, toProcess, hasUnprocessedData, evened>>
  BY DEF Send, ghosts
<1>3. ASSUME NEW g \in Groups, NEW a \in Axes
      PROVE  /\ toProcess'[g][a] = owed'[g][a] + moved'[g][a]
             /\ ~evened' => (toProcess'[g][a] = 0 => moved'[g][a] = 0)
  <2>1. /\ toProcess[g][a] \in Int /\ moved[g][a] \in Int
        /\ owed[g][a] \in Int /\ move[g][a] \in Int
    BY DEF SendOK, Pulses
  <2>2. Toward(part[g][a], move[g][a])
    BY part \in Parts DEF Parts, Toward
  <2>3. part[g][a] \in Int /\ (move[g][a] = 0 => part[g][a] = 0)
    BY <2>1, <2>2 DEF Toward
  <2>4. /\ moved'[g][a] = moved[g][a] + part[g][a]
        /\ owed'[g][a] = owed[g][a] - part[g][a]
    BY <1>1 DEF Plus
  <2>5. toProcess[g][a] = owed[g][a] + moved[g][a]
    BY DEF Accounted
  <2>6. ~evened => (toProcess[g][a] = 0 => moved[g][a] = 0 /\ move[g][a] = 0)
    BY <1>2 DEF NotEvened
  <2>7. toProcess'[g][a] = toProcess[g][a]
    BY <1>2
  <2>8. ~evened' => ~evened
    BY <1>2
  <2>9. toProcess'[g][a] = owed'[g][a] + moved'[g][a]
    BY <2>1, <2>3, <2>4, <2>5, <2>7
  <2> QED
    BY <2>1, <2>3, <2>4, <2>6, <2>7, <2>8, <2>9
<1> QED
  BY <1>2, <1>3 DEF Accounted, NotEvened, DueIsKnown

(* No other step changes these sums, but Idle, which sets them to zero     *)
(* when nothing is left of them.                                           *)
LEMMA OthersAccount ==
  ASSUME Accounted, NotEvened, DueIsKnown,
         Idle \/ Produce \/ Drop \/ StopRaise \/ StopClear \/ ReadyChanges
  PROVE  Accounted' /\ NotEvened' /\ DueIsKnown'
<1>1. CASE Idle
  <2>1. /\ toProcess' = Still /\ moved' = Still /\ owed' = Still
        /\ at' = "clock" /\ hasUnprocessedData' = FALSE
    BY <1>1 DEF Idle
  <2> QED
    BY <2>1 DEF Accounted, NotEvened, DueIsKnown, Still, Zero
<1>2. CASE ~Idle
  BY <1>2, OthersLeavePulses DEF Accounted, NotEvened, DueIsKnown
<1> QED
  BY <1>1, <1>2
-----------------------------------------------------------------------------
(* Increments lie in a queue only when some were queued since it was       *)
(* cleared; and once the clock has ticked in a stop, nothing is to be sent *)
(* before new increments are queued.                                       *)
Fresh == ~fresh => \A g \in Groups : queue[g] = <<>>
Quiet == noticed /\ (bStopMotion \/ ~fresh) =>
           at = "clock" /\ ~hasUnprocessedData

FlagsOK == {fresh, noticed, bStopMotion, ready, evened} \subseteq BOOLEAN

(* Every step keeps Fresh and Quiet: the tick because Active looks at      *)
(* bStopMotion, the queues and what is due.                                *)
LEMMA StopsKept ==
  ASSUME QueueOK, FlagsOK, Fresh, Quiet, Next
  PROVE  FlagsOK' /\ Fresh' /\ Quiet'
<1> USE DEF FlagsOK, ghosts, cuts, sending
<1>1. CASE Produce
  <2>1. CASE InitTrajectory
    BY <2>1 DEF InitTrajectory, Fresh, Quiet
  <2>2. ASSUME NEW g \in Groups,
               \/ BeginSegment(g) \/ LeaveSegment(g)
               \/ Discard(g) \/ EndTrajectory(g)
        PROVE  FlagsOK' /\ Fresh' /\ Quiet'
    BY <2>2 DEF BeginSegment, LeaveSegment, Discard, EndTrajectory,
                Fresh, Quiet
  <2>3. ASSUME NEW g \in Groups, Interpolate(g)
        PROVE  FlagsOK' /\ Fresh' /\ Quiet'
    BY <2>3 DEF Interpolate, Fresh, Quiet
  <2> QED
    BY <1>1, <2>1, <2>2, <2>3 DEF Produce
<1>2. ASSUME NEW locked, Cycle(locked) PROVE FlagsOK' /\ Fresh' /\ Quiet'
  <2>1. /\ UNCHANGED <<fresh, noticed, bStopMotion, ready>> /\ Active
    BY <1>2 DEF Cycle
  <2>2. evened' \in BOOLEAN
    BY <1>2 DEF Cycle
  <2>3. noticed => ~bStopMotion /\ fresh
    BY <2>1 DEF Active, HasDataInQueue, Fresh, Quiet
  <2>4. ASSUME ~fresh', NEW g \in Groups PROVE queue'[g] = <<>>
    <3>1. queue[g] = <<>>
      BY <2>1, <2>4 DEF Fresh
    <3>c. PICK c \in 0 .. Len(queue[g]), n \in Pulses :
            \E s : CycleOf(g, c, n, s)
      BY <1>2, CycleOfGroup
    <3>2. PICK s : CycleOf(g, c, n, s)
      BY <3>c
    <3>3. c = 0 /\ queue'[g] = SubSeq(queue[g], c + 1, Len(queue[g]))
      BY <3>1, <3>2 DEF CycleOf
    <3> QED
      BY <3>1, <3>3
  <2> QED
    BY <2>1, <2>2, <2>3, <2>4 DEF Fresh, Quiet
<1>3. CASE Idle
  BY <1>3 DEF Idle, Fresh, Quiet
<1>4. CASE Send
  BY <1>4 DEF Send, Fresh, Quiet
<1>5. CASE Drop
  BY <1>5 DEF Drop, Fresh, Quiet
<1>6. CASE StopRaise
  BY <1>6 DEF StopRaise, Fresh, Quiet
<1>7. CASE ReadyChanges
  BY <1>7 DEF ReadyChanges, Fresh, Quiet
<1>8. CASE StopClear
  BY <1>8 DEF StopClear, Fresh, Quiet
<1> QED
  BY <1>1, <1>2, <1>3, <1>4, <1>5, <1>6, <1>7, <1>8
  DEF Next, Tick
-----------------------------------------------------------------------------
(* The times of the cuts.                                                  *)
CutsOK ==
  /\ hasData \in [Groups -> BOOLEAN]
  /\ short \in [Groups -> BOOLEAN] /\ torn \in [Groups -> BOOLEAN]
  /\ time \in [Groups -> Nat] /\ end \in [Groups -> Nat]
  /\ timeInc \in [Groups -> 1 .. interpolPeriod]
  /\ leftover \in [Groups -> 0 .. interpolPeriod - 1]
  /\ \A g \in Groups : time[g] <= end[g]

(* Within a segment the next cut is at the end of a period, and what was   *)
(* carried over is used up by the first cut, before the end of the segment.*)
WholeOf(g) ==
  hasData[g] /\ ~short[g] /\ ~torn[g] =>
    IF time[g] = end[g]
      THEN (time[g] + leftover[g]) % interpolPeriod = 0
      ELSE /\ (time[g] + timeInc[g]) % interpolPeriod = 0
           /\ leftover[g] # 0 => /\ timeInc[g] = leftover[g]
                                 /\ end[g] - time[g] >= interpolPeriod

(* Increments in the queue are a period apart at most, the first of them   *)
(* from the last one read and the next one from the last of them.          *)
Before(g, k) == IF k = 1 THEN q_time[g] ELSE queue[g][k - 1].time

SpacedOf(g) ==
  ~torn[g] =>
    /\ \A k \in 1 .. Len(queue[g]) :
         queue[g][k].time - Before(g, k) <= interpolPeriod
    /\ hasData[g] \/ time[g] < end[g] =>
         time[g] = Before(g, Len(queue[g]) + 1)

CutsFit == CutsOK /\ QueueOK /\ \A g \in Groups : WholeOf(g) /\ SpacedOf(g)

(* A step changes the cuts of no more than one group.                      *)
LEMMA CutsFrame ==
  ASSUME NEW g \in Groups, WholeOf(g), SpacedOf(g),
         hasData'[g] = hasData[g], short'[g] = short[g], torn'[g] = torn[g],
         time'[g] = time[g], end'[g] = end[g], timeInc'[g] = timeInc[g],
         leftover'[g] = leftover[g], queue'[g] = queue[g],
         q_time'[g] = q_time[g]
  PROVE  WholeOf(g)' /\ SpacedOf(g)'
BY DEF WholeOf, SpacedOf, Before

(* A new trajectory starts at the start of a period, with an empty queue.  *)
LEMMA InitTrajectoryFits ==
  ASSUME CutsFit, InitTrajectory
  PROVE  CutsFit'
<1> USE DEF CutsFit
<1>1. CutsOK' /\ QueueOK'
  BY MoveAssumption DEF CutsOK, QueueOK, InitTrajectory
<1>2. ASSUME NEW g \in Groups PROVE WholeOf(g)'
  <2>1. 0 % interpolPeriod = 0
    BY MoveAssumption
  <2>2. time'[g] = 0 /\ end'[g] = 0 /\ leftover'[g] = 0
    BY DEF InitTrajectory
  <2> QED
    BY <2>1, <2>2 DEF WholeOf
<1>3. ASSUME NEW g \in Groups PROVE SpacedOf(g)'
  BY DEF InitTrajectory, SpacedOf, Before
<1> QED
  BY <1>1, <1>2, <1>3

(* A segment begins with what the segment before left of a period.         *)
LEMMA BeginSegmentFits ==
  ASSUME CutsFit, NEW g \in Groups, BeginSegment(g)
  PROVE  CutsFit'
<1> USE DEF CutsFit
<1>1. PICK d \in Durations :
        /\ end' = [end EXCEPT ![g] = @ + d]
        /\ short' = [short EXCEPT ![g] = @ \/ d \in 1 .. interpolPeriod - 1]
  BY DEF BeginSegment
<1>2. d \in Nat /\ interpolPeriod \in Nat \ {0}
  BY MoveAssumption
<1>3. timeInc' = [timeInc EXCEPT ![g] =
                    IF leftover[g] = 0 THEN interpolPeriod ELSE leftover[g]]
  BY DEF BeginSegment
<1>4. /\ hasData[g] /\ time[g] = end[g]
      /\ UNCHANGED <<hasData, time, leftover, torn, queue, q_time>>
  BY DEF BeginSegment
<1>5. CutsOK' /\ QueueOK'
  <2>1. end' \in [Groups -> Nat] /\ short' \in [Groups -> BOOLEAN]
    BY <1>1, <1>2 DEF CutsOK
  <2>2. timeInc' \in [Groups -> 1 .. interpolPeriod]
    BY <1>2, <1>3 DEF CutsOK
  <2>3. \A h \in Groups : time'[h] <= end'[h]
    BY <1>1, <1>2, <1>4 DEF CutsOK
  <2> QED
    BY <1>4, <2>1, <2>2, <2>3 DEF CutsOK, QueueOK
<1>6. WholeOf(g)'
  <2>0. CASE d = 0
    <3>1. /\ time'[g] = end'[g] /\ time'[g] = time[g]
          /\ leftover'[g] = leftover[g]
          /\ short'[g] = short[g] /\ torn'[g] = torn[g]
      BY <1>1, <1>2, <1>4, <2>0 DEF CutsOK
    <3> QED
      BY <1>4, <3>1 DEF WholeOf
  <2> SUFFICES ASSUME d # 0, ~short'[g], ~torn'[g]
               PROVE  /\ time'[g] # end'[g]
                      /\ (time'[g] + timeInc'[g]) % interpolPeriod = 0
                      /\ leftover'[g] # 0 =>
                           /\ timeInc'[g] = leftover'[g]
                           /\ end'[g] - time'[g] >= interpolPeriod
    BY <2>0 DEF WholeOf
  <2>1. /\ time[g] \in Nat /\ leftover[g] \in 0 .. interpolPeriod - 1
        /\ end'[g] = time[g] + d /\ ~short[g] /\ d >= interpolPeriod
        /\ time'[g] = time[g] /\ leftover'[g] = leftover[g]
        /\ timeInc'[g] = IF leftover[g] = 0 THEN interpolPeriod
                                            ELSE leftover[g]
    BY <1>1, <1>2, <1>3, <1>4 DEF CutsOK
  <2>2. (time[g] + leftover[g]) % interpolPeriod = 0
    BY <1>4, <2>1 DEF WholeOf
  <2>3. leftover[g] = 0 => (time[g] + interpolPeriod) % interpolPeriod = 0
    <3> SUFFICES ASSUME leftover[g] = 0
                 PROVE  (time[g] + interpolPeriod) % interpolPeriod = 0
      OBVIOUS
    <3>1. time[g] + leftover[g] = time[g]
      BY <2>1
    <3>2. time[g] % interpolPeriod = 0
      BY <2>2, <3>1
    <3> QED
      BY <1>2, <2>1, <3>2, ModPlus
  <2> QED
    BY <1>2, <2>1, <2>2, <2>3
<1>7. SpacedOf(g)'
  BY <1>1, <1>4 DEF SpacedOf, Before
<1>8. ASSUME NEW h \in Groups, h # g PROVE WholeOf(h)' /\ SpacedOf(h)'
  BY <1>1, <1>3, <1>4, <1>8, CutsFrame DEF CutsOK
<1> QED
  BY <1>5, <1>6, <1>7, <1>8

(* A cut is at the end of a period or of the segment, and a period from    *)
(* the last at most.                                                       *)
LEMMA InterpolateFits ==
  ASSUME CutsFit, NEW g \in Groups, Interpolate(g)
  PROVE  CutsFit'
<1> USE DEF CutsFit
<1> DEFINE P == interpolPeriod
<1>1. PICK inc \in Increments :
        queue' = [queue EXCEPT ![g] =
                    Append(@, [time |-> time'[g], inc |-> inc])]
  BY DEF Interpolate
<1>2. UNCHANGED <<hasData, end, short, torn, q_time>> /\ time[g] < end[g]
  BY DEF Interpolate
<1>3. PICK calc \in Nat : calc = time[g] + timeInc[g]
  BY DEF CutsOK
<1>4. /\ time[g] \in Nat /\ end[g] \in Nat /\ timeInc[g] \in 1 .. P
      /\ leftover[g] \in 0 .. P - 1 /\ P \in Nat \ {0}
  BY MoveAssumption DEF CutsOK
<1>5. PICK t \in Nat, i \in 1 .. P, l \in 0 .. P - 1 :
        /\ time' = [time EXCEPT ![g] = t]
        /\ timeInc' = [timeInc EXCEPT ![g] = i]
        /\ leftover' = [leftover EXCEPT ![g] = l]
        /\ \/ /\ calc < end[g] /\ t = calc /\ i = P
              /\ l = IF timeInc[g] < P THEN 0 ELSE leftover[g]
           \/ /\ calc >= end[g] /\ t = end[g] /\ i = timeInc[g]
              /\ l = IF calc > end[g] THEN calc - end[g] ELSE leftover[g]
  <2>1. CASE FullStep(g, calc)
    <3>1. PICK l \in 0 .. P - 1 :
            l = IF timeInc[g] < P THEN 0 ELSE leftover[g]
      BY <1>4
    <3>2. /\ time' = [time EXCEPT ![g] = calc] /\ calc < end[g]
          /\ timeInc' = [timeInc EXCEPT ![g] = P]
          /\ leftover' = [leftover EXCEPT ![g] = l]
      BY <2>1, <3>1 DEF FullStep
    <3>3. P \in 1 .. P
      BY <1>4
    <3> QED
      BY <3>1, <3>2, <3>3
  <2>2. CASE PartialStep(g, calc)
    <3>1. PICK l \in 0 .. P - 1 :
            l = IF calc > end[g] THEN calc - end[g] ELSE leftover[g]
      BY <1>2, <1>3, <1>4
    <3>2. /\ time' = [time EXCEPT ![g] = end[g]] /\ calc >= end[g]
          /\ leftover' = [leftover EXCEPT ![g] = l]
      BY <2>2, <3>1 DEF PartialStep
    <3>3. timeInc' = [timeInc EXCEPT ![g] = timeInc[g]]
      BY <2>2 DEF PartialStep, CutsOK
    <3> QED
      BY <1>4, <3>1, <3>2, <3>3
  <2> QED
    BY <1>3, <2>1, <2>2 DEF Interpolate
<1>6. t <= end[g] /\ t > time[g] /\ t - time[g] <= P
  BY <1>2, <1>3, <1>4, <1>5
<1>7. /\ time'[g] = t /\ timeInc'[g] = i /\ leftover'[g] = l
      /\ queue'[g] = Append(queue[g], [time |-> t, inc |-> inc])
  BY <1>1, <1>5 DEF CutsOK, QueueOK
<1>8. [time |-> t, inc |-> inc] \in Items
  BY MoveAssumption DEF Items, Pulses
<1>9. CutsOK'
  BY <1>2, <1>5, <1>6 DEF CutsOK
<1>10. QueueOK'
  <2>1. queue[g] \in Seq(Items)
    BY DEF QueueOK
  <2>2. Append(queue[g], [time |-> t, inc |-> inc]) \in Seq(Items)
    BY <1>8, <2>1
  <2>3. queue' = [queue EXCEPT ![g] =
                    Append(queue[g], [time |-> t, inc |-> inc])]
    BY <1>1, <1>7 DEF QueueOK
  <2> QED
    BY <1>2, <2>2, <2>3 DEF QueueOK
<1>11. WholeOf(g)'
  <2> SUFFICES ASSUME hasData[g], ~short[g], ~torn[g]
               PROVE  IF t = end[g] THEN (t + l) % P = 0
                      ELSE /\ (t + i) % P = 0
                           /\ l # 0 => i = l /\ end[g] - t >= P
    BY <1>2, <1>7 DEF WholeOf
  <2>1. /\ calc % P = 0
        /\ leftover[g] # 0 => /\ timeInc[g] = leftover[g]
                              /\ end[g] - time[g] >= P
    BY <1>2, <1>3, <1>4 DEF WholeOf
  <2>2. (calc + P) % P = 0
    BY <1>4, <2>1, ModPlus
  <2>3. CASE calc < end[g]
    <3>1. t = calc /\ i = P /\ l = 0 /\ t # end[g]
      BY <1>3, <1>4, <1>5, <2>1, <2>3
    <3> QED
      BY <2>2, <3>1
  <2>4. CASE calc >= end[g]
    <3>1. t + l = calc /\ t = end[g]
      BY <1>3, <1>4, <1>5, <2>1, <2>4
    <3> QED
      BY <2>1, <3>1
  <2> QED
    BY <1>4, <2>3, <2>4
<1>12. SpacedOf(g)'
  <2> SUFFICES ASSUME ~torn[g]
               PROVE  /\ \A k \in 1 .. Len(queue'[g]) :
                           queue'[g][k].time - Before(g, k)' <= P
                      /\ t = Before(g, Len(queue[g]) + 1)'
    BY <1>2, <1>7 DEF SpacedOf
  <2> DEFINE n == Len(queue[g])
             new == [time |-> t, inc |-> inc]
  <2>1. queue[g] \in Seq(Items) /\ n \in Nat
    BY DEF QueueOK
  <2>2. /\ Len(queue'[g]) = n + 1 /\ queue'[g][n + 1].time = t
        /\ \A k \in 1 .. n : queue'[g][k] = queue[g][k]
    <3> HIDE DEF new
    <3>1. /\ Len(queue'[g]) = n + 1 /\ queue'[g][n + 1] = new
          /\ \A k \in 1 .. n : queue'[g][k] = queue[g][k]
      BY <1>7, <2>1 DEF new
    <3>2. new.time = t
      BY DEF new
    <3> QED
      BY <3>1, <3>2
  <2> HIDE DEF n
  <2>3. \A k \in 1 .. n + 1 : Before(g, k)' = Before(g, k)
    <3> SUFFICES ASSUME NEW k \in 1 .. n + 1
                 PROVE  Before(g, k)' = Before(g, k)
      OBVIOUS
    <3>1. k = 1 \/ k - 1 \in 1 .. n
      BY <2>1
    <3>2. k # 1 => queue'[g][k - 1].time = queue[g][k - 1].time
      BY <2>2, <3>1
    <3> QED
      BY <1>2, <3>2 DEF Before
  <2>4. time[g] = Before(g, n + 1)
    BY <1>2 DEF SpacedOf, n
  <2>5. \A k \in 1 .. n : queue[g][k].time - Before(g, k) <= P
    BY DEF SpacedOf, n
  <2>6. ASSUME NEW k \in 1 .. n + 1
        PROVE  queue'[g][k].time - Before(g, k)' <= P
    <3>1. CASE k = n + 1
      BY <1>6, <2>2, <2>3, <2>4, <3>1
    <3>2. CASE k \in 1 .. n
      BY <2>2, <2>3, <2>5, <3>2
    <3> QED
      BY <2>1, <3>1, <3>2
  <2>7. t = Before(g, Len(queue[g]) + 1)'
    BY <2>1, <2>2 DEF Before
  <2> QED
    BY <1>7, <2>2, <2>6, <2>7
<1>13. ASSUME NEW h \in Groups, h # g PROVE WholeOf(h)' /\ SpacedOf(h)'
  BY <1>1, <1>2, <1>5, <1>13, CutsFrame DEF CutsOK, QueueOK
<1> QED
  BY <1>9, <1>10, <1>11, <1>12, <1>13

(* A segment that is left, or a trajectory that ends, promises no more.    *)
LEMMA EndFits ==
  ASSUME CutsFit, NEW g \in Groups,
         EndTrajectory(g) \/ LeaveSegment(g) \/ Discard(g)
  PROVE  CutsFit'
<1> USE DEF CutsFit
<1>1. UNCHANGED <<end, timeInc, leftover, short, queue, q_time>>
  BY DEF EndTrajectory, LeaveSegment, Discard
<1>2. PICK t \in Nat, b \in BOOLEAN, o \in BOOLEAN :
        /\ time' = [time EXCEPT ![g] = t] /\ t = end[g]
        /\ hasData' = [hasData EXCEPT ![g] = b]
        /\ torn' = [torn EXCEPT ![g] = o]
        /\ torn[g] => o
        /\ o \/ ~b
  <2>1. CASE EndTrajectory(g)
    <3>1. /\ time' = [time EXCEPT ![g] = end[g]]
          /\ hasData' = [hasData EXCEPT ![g] = FALSE]
          /\ torn' = [torn EXCEPT ![g] = torn[g]]
      BY <2>1 DEF EndTrajectory, CutsOK
    <3> QED
      BY <3>1 DEF CutsOK
  <2>2. CASE LeaveSegment(g)
    <3>1. /\ time' = [time EXCEPT ![g] = end[g]]
          /\ hasData' = [hasData EXCEPT ![g] = hasData[g]]
          /\ torn' = [torn EXCEPT ![g] = TRUE]
      BY <2>2 DEF LeaveSegment, CutsOK
    <3> QED
      BY <3>1 DEF CutsOK
  <2>3. CASE Discard(g)
    <3>1. /\ time' = [time EXCEPT ![g] = end[g]]
          /\ hasData' = [hasData EXCEPT ![g] = FALSE]
          /\ torn' = [torn EXCEPT ![g] = torn[g]]
      BY <2>3 DEF Discard, CutsOK
    <3> QED
      BY <3>1 DEF CutsOK
  <2> QED
    BY <2>1, <2>2, <2>3
<1>3. CutsOK' /\ QueueOK'
  BY <1>1, <1>2 DEF CutsOK, QueueOK
<1>4. time'[g] = end'[g] /\ hasData'[g] = b /\ torn'[g] = o
  BY <1>1, <1>2 DEF CutsOK
<1>5. WholeOf(g)'
  BY <1>2, <1>4 DEF WholeOf
<1>6. SpacedOf(g)'
  <2>1. time'[g] \in Nat /\ ~(time'[g] < end'[g])
    BY <1>3, <1>4 DEF CutsOK
  <2>2. ~o => ~torn[g] /\ ~b
    BY <1>2
  <2>3. \A k : Before(g, k)' = Before(g, k)
    BY <1>1 DEF Before
  <2> QED
    BY <1>1, <1>4, <2>1, <2>2, <2>3 DEF SpacedOf
<1>7. ASSUME NEW h \in Groups, h # g PROVE WholeOf(h)' /\ SpacedOf(h)'
  BY <1>1, <1>2, <1>7, CutsFrame DEF CutsOK
<1> QED
  BY <1>3, <1>5, <1>6, <1>7

(* A tick takes increments off the front of the queues.                    *)
LEMMA CycleFits ==
  ASSUME CutsFit, NEW locked, Cycle(locked)
  PROVE  CutsFit'
<1> USE DEF CutsFit
<1>1. UNCHANGED <<hasData, time, end, timeInc, leftover, short, torn>>
  BY DEF Cycle, cuts
<1>2. ASSUME NEW g \in Groups
      PROVE  /\ queue'[g] \in Seq(Items) /\ q_time'[g] \in Nat
             /\ SpacedOf(g)'
  <2>c. PICK c \in 0 .. Len(queue[g]), n \in Pulses :
          \E s : CycleOf(g, c, n, s)
    BY CycleOfGroup
  <2>1. PICK s : CycleOf(g, c, n, s)
    BY <2>c
  <2> DEFINE m == Len(queue[g])
  <2>2. queue[g] \in Seq(Items) /\ m \in Nat /\ c \in Nat
    BY DEF QueueOK
  <2>3. /\ queue'[g] = SubSeq(queue[g], c + 1, m)
        /\ q_time'[g] = IF c > 0 THEN queue[g][c].time ELSE q_time[g]
    BY <2>1 DEF CycleOf
  <2>4. /\ queue'[g] \in Seq(Items) /\ Len(queue'[g]) = m - c
        /\ \A k \in 1 .. m - c : queue'[g][k] = queue[g][k + c]
    <3>1. SubSeq(queue[g], c + 1, m) \in Seq(Items)
      BY <2>2
    <3>2. Len(SubSeq(queue[g], c + 1, m)) = m - c
      BY <2>2
    <3>3. \A k \in 1 .. m - c : SubSeq(queue[g], c + 1, m)[k] = queue[g][k + c]
      BY <2>2
    <3> HIDE DEF m
    <3> QED
      BY <2>3, <3>1, <3>2, <3>3
  <2>5. q_time'[g] \in Nat
    <3>1. c > 0 => queue[g][c] \in Items
      BY <2>2
    <3>2. c > 0 => queue[g][c].time \in Nat
      BY <3>1 DEF Items
    <3> QED
      BY <2>3, <3>2 DEF QueueOK
  <2> HIDE DEF m
  <2>6. ASSUME NEW k \in 1 .. m - c + 1
        PROVE  Before(g, k)' = Before(g, k + c)
    <3>1. CASE k = 1
      BY <2>2, <2>3, <3>1 DEF Before
    <3>2. CASE k # 1
      <4>1. k - 1 \in 1 .. m - c /\ k - 1 + c = k + c - 1 /\ k + c # 1
        BY <2>2, <3>2
      <4>2. queue'[g][k - 1] = queue[g][k + c - 1]
        BY <2>4, <4>1
      <4> QED
        BY <3>2, <4>1, <4>2 DEF Before
    <3> QED
      BY <3>1, <3>2
  <2>7. SpacedOf(g)'
    <3> SUFFICES ASSUME ~torn[g]
                 PROVE  /\ \A k \in 1 .. m - c :
                             queue'[g][k].time - Before(g, k)'
                               <= interpolPeriod
                        /\ hasData[g] \/ time[g] < end[g] =>
                             time[g] = Before(g, Len(queue[g]) + 1)'
      BY <1>1, <2>4 DEF SpacedOf
    <3>1. ASSUME NEW k \in 1 .. m - c
          PROVE  queue'[g][k].time - Before(g, k)' <= interpolPeriod
      <4>1. k + c \in 1 .. m /\ k \in 1 .. m - c + 1
        BY <2>2
      <4>2. queue[g][k + c].time - Before(g, k + c) <= interpolPeriod
        BY <4>1 DEF SpacedOf, m
      <4> QED
        BY <2>4, <2>6, <4>1, <4>2
    <3>2. Before(g, Len(queue[g]) + 1)' = Before(g, m + 1)
      <4>1. PICK k \in 1 .. m - c + 1 : k = m - c + 1 /\ k + c = m + 1
        <5>1. c \in 0 .. m
          BY DEF m
        <5>2. m - c + 1 \in 1 .. m - c + 1 /\ (m - c + 1) + c = m + 1
          BY <2>2, <5>1
        <5> QED
          BY <5>2
      <4>2. Before(g, k)' = Before(g, m + 1)
        BY <2>6, <4>1
      <4>3. Len(queue'[g]) + 1 = k
        BY <2>4, <4>1
      <4> QED
        BY <4>2, <4>3 DEF Before
    <3>3. hasData[g] \/ time[g] < end[g] => time[g] = Before(g, m + 1)
      BY DEF SpacedOf, m
    <3> QED
      BY <3>1, <3>2, <3>3
  <2> QED
    BY <2>4, <2>5, <2>7
<1>3. QueueOK'
  BY <1>2, CycleFunctions DEF QueueOK
<1>4. CutsOK'
  BY <1>1 DEF CutsOK
<1>5. ASSUME NEW g \in Groups PROVE WholeOf(g)'
  BY <1>1 DEF WholeOf
<1> QED
  BY <1>2, <1>3, <1>4, <1>5

(* A stop empties the queues and ends every trajectory.                    *)
LEMMA StopClearFits ==
  ASSUME CutsFit, StopClear
  PROVE  CutsFit'
<1> USE DEF CutsFit
<1>1. /\ UNCHANGED <<time, end, timeInc, leftover, short, q_time>>
      /\ hasData' = [g \in Groups |-> FALSE]
      /\ queue' = [g \in Groups |-> <<>>]
      /\ torn' = [g \in Groups |-> torn[g] \/ time[g] < end[g]]
  BY DEF StopClear
<1>2. CutsOK' /\ QueueOK'
  BY <1>1 DEF CutsOK, QueueOK
<1>3. ASSUME NEW g \in Groups PROVE WholeOf(g)' /\ SpacedOf(g)'
  <2>1. /\ hasData'[g] = FALSE /\ queue'[g] = <<>>
        /\ torn'[g] = (torn[g] \/ time[g] < end[g])
        /\ time'[g] = time[g] /\ end'[g] = end[g]
    BY <1>1
  <2>2. 1 .. Len(queue'[g]) = {}
    BY <2>1
  <2> QED
    BY <2>1, <2>2 DEF WholeOf, SpacedOf
<1> QED
  BY <1>2, <1>3

(* Every step keeps the cuts as they should be.                            *)
LEMMA CutsKept ==
  ASSUME CutsFit, [Next]_vars
  PROVE  CutsFit'
<1>1. CASE Produce
  BY <1>1, InitTrajectoryFits, BeginSegmentFits, InterpolateFits, EndFits
  DEF Produce
<1>2. ASSUME NEW locked, Cycle(locked) PROVE CutsFit'
  BY <1>2, CycleFits
<1>3. CASE StopClear
  BY <1>3, StopClearFits
<1>4. CASE Idle \/ Send \/ Drop \/ StopRaise \/ ReadyChanges
           \/ UNCHANGED vars
  <2>1. UNCHANGED <<hasData, time, end, timeInc, leftover, short, torn,
                    queue, q_time>>
    BY <1>4 DEF Idle, Send, Drop, StopRaise, ReadyChanges, vars, cuts
  <2> QED
    BY <2>1 DEF CutsFit, CutsOK, QueueOK, WholeOf, SpacedOf, Before
<1> QED
  BY <1>1, <1>2, <1>3, <1>4 DEF Next, Tick
-----------------------------------------------------------------------------
(* The inductive invariant: how the cuts fit the periods, how the pulses   *)
(* of an axis are tracked, and what a stop leaves.                         *)
IInv ==
  /\ CutsFit
  /\ SendOK /\ PulsesOK
  /\ Accounted /\ NotEvened /\ DueIsKnown
  /\ FlagsOK /\ Fresh /\ Quiet

(* The invariant holds at the start.                                       *)
LEMMA InitIInv == Init => IInv
<1> SUFFICES ASSUME Init PROVE IInv
  OBVIOUS
<1> USE DEF Init
<1>1. CutsOK /\ QueueOK
  BY MoveAssumption DEF CutsOK, QueueOK
<1>2. ASSUME NEW g \in Groups PROVE WholeOf(g) /\ SpacedOf(g)
  BY DEF WholeOf, SpacedOf
<1>3. SendOK
  BY DEF SendOK, Still, Zero, Pulses
<1>4. PulsesOK
  <2>1. ASSUME NEW g \in Groups, NEW a \in Axes PROVE AxisFits(g, a)
    <3>1. Still[g][a] = 0
      BY DEF Still, Zero
    <3> QED
      BY <3>1 DEF AxisFits, AxisOK, Pending, Abs, Toward
  <2> QED
    BY <2>1 DEF PulsesOK
<1>5. Accounted /\ NotEvened /\ DueIsKnown
  BY DEF Accounted, NotEvened, DueIsKnown, Still, Zero
<1>6. FlagsOK /\ Fresh /\ Quiet
  BY DEF FlagsOK, Fresh, Quiet
<1> QED
  BY <1>1, <1>2, <1>3, <1>4, <1>5, <1>6 DEF IInv, CutsFit

(* Every step keeps the invariant.                                         *)
LEMMA NextIInv == IInv /\ [Next]_vars => IInv'
<1> SUFFICES ASSUME IInv, [Next]_vars PROVE IInv'
  OBVIOUS
<1> USE DEF IInv
<1>1. CutsFit' /\ QueueOK
  BY CutsKept DEF CutsFit
<1>2. CASE UNCHANGED vars
  BY <1>1, <1>2, PulsesFrame
  DEF vars, sending, speeds, ghosts, Accounted, NotEvened, DueIsKnown,
      FlagsOK, Fresh, Quiet
<1>3. CASE Next
  <2>1. FlagsOK' /\ Fresh' /\ Quiet'
    BY <1>1, <1>3, StopsKept
  <2>2. ASSUME NEW locked, Cycle(locked)
        PROVE  /\ SendOK' /\ PulsesOK'
               /\ Accounted' /\ NotEvened' /\ DueIsKnown'
    BY <1>1, <2>2, CycleKeepsPulses, CycleAccounts
  <2>3. CASE Send
    BY <1>1, <2>1, <2>3, SendKeepsPulses, SendAccounts
  <2>4. CASE Idle
    BY <1>1, <2>1, <2>4, IdleKeepsThem, OthersAccount
  <2>5. CASE Produce \/ Drop \/ StopRaise \/ StopClear \/ ReadyChanges
    BY <1>1, <2>1, <2>5, OthersLeavePulses, PulsesFrame, OthersAccount
  <2> QED
    BY <1>1, <1>3, <2>1, <2>2, <2>3, <2>4, <2>5 DEF Next, Tick
<1> QED
  BY <1>2, <1>3

(* The inductive invariant holds in every state.                           *)
THEOREM Invariance == Spec => []IInv
<1>1. Init => IInv
  BY InitIInv
<1>2. IInv /\ [Next]_vars => IInv'
  BY NextIInv
<1> QED
  BY <1>1, <1>2, PTL DEF Spec
-----------------------------------------------------------------------------
(* IncMoveLoop never sends an axis more in a period than was asked of it   *)
(* in one, whatever the FSU limits and the queue holds.                    *)
THEOREM NeverFasterThanAsked == Spec => []NeverFaster
<1>1. IInv => NeverFaster
  BY DEF IInv, PulsesOK, AxisFits, AxisOK, NeverFaster
<1> QED
  BY <1>1, Invariance, PTL

(* In AddToIncQueueProcess timeLeftover_ms is, between two segments,       *)
(* exactly what is missing to the end of a period, unless a segment was    *)
(* shorter than a period or left early.                                    *)
THEOREM LeftoversAreExact == Spec => []LeftoverExact
<1>1. IInv => LeftoverExact
  BY DEF IInv, CutsFit, WholeOf, LeftoverExact
<1> QED
  BY <1>1, Invariance, PTL

(* The increments IncMoveLoop puts together for a period of the robot span *)
(* no more than a period of the trajectory, unless a segment of it was     *)
(* left early.                                                             *)
THEOREM PeriodsAreKept == Spec => PeriodKept
<1>1. ASSUME IInv, [Next]_vars, NEW g \in Groups, ~torn[g]
      PROVE  q_time'[g] - q_time[g] <= interpolPeriod
  <2>1. /\ QueueOK /\ SpacedOf(g) /\ interpolPeriod \in Nat
        /\ q_time[g] \in Nat
    <3>1. QueueOK /\ SpacedOf(g)
      BY <1>1 DEF IInv, CutsFit
    <3> QED
      BY <3>1, MoveAssumption DEF QueueOK
  <2>2. ASSUME NEW locked, Cycle(locked)
        PROVE  q_time'[g] - q_time[g] <= interpolPeriod
    <3>c. PICK c \in 0 .. Len(queue[g]), n \in Pulses :
            \E s : CycleOf(g, c, n, s)
      BY <2>1, <2>2, CycleOfGroup
    <3>1. PICK s : CycleOf(g, c, n, s)
      BY <3>c
    <3>2. /\ q_time'[g] = IF c > 0 THEN queue[g][c].time ELSE q_time[g]
          /\ c > 0 => c = Combined(g) /\ queue[g] # <<>>
      BY <3>1 DEF CycleOf
    <3>3. CASE c = 0
      BY <2>1, <3>2, <3>3
    <3>4. CASE c = 1
      <4>1. 1 \in 1 .. Len(queue[g])
        BY <3>4, <2>1 DEF QueueOK
      <4>2. queue[g][1].time - q_time[g] <= interpolPeriod
        BY <1>1, <2>1, <4>1 DEF SpacedOf, Before
      <4> QED
        BY <3>2, <3>4, <4>2
    <3>5. CASE c > 1
      <4>1. c \in 2 .. Combined(g) /\ queue[g] \in Seq(Items)
        BY <2>1, <3>2, <3>5 DEF QueueOK
      <4>2. queue[g][c].time - q_time[g] \in 0 .. interpolPeriod
        BY <3>2, <3>5, <4>1, CombinedFacts
      <4> QED
        BY <2>1, <3>2, <3>5, <4>2
    <3> QED
      BY <3>3, <3>4, <3>5
  <2>3. CASE InitTrajectory
    BY <2>1, <2>3 DEF InitTrajectory
  <2>4. CASE UNCHANGED q_time
    BY <2>1, <2>4
  <2>5. CASE Produce /\ ~InitTrajectory
    BY <2>4, <2>5 DEF Produce, BeginSegment, Interpolate,
                      LeaveSegment, Discard, EndTrajectory
  <2> QED
    BY <1>1, <2>2, <2>3, <2>4, <2>5
    DEF Next, Tick, Idle, Send, Drop, StopRaise, StopClear, ReadyChanges,
        vars
<1>2. IInv /\ [Next]_vars =>
        [\A g \in Groups :
           ~torn[g] => q_time'[g] - q_time[g] <= interpolPeriod]_vars
  BY <1>1
<1> QED
  BY <1>2, Invariance, PTL DEF Spec, PeriodKept

(* IncMoveLoop rests, ready and not stopped, only when the robot got all   *)
(* that was taken from the queues, unless new pulses evened what was       *)
(* missing.                                                                *)
THEOREM NothingIsLost == Spec => NothingLost
<1>1. IInv /\ [Next]_vars =>
        [Idle /\ ready /\ ~bStopMotion /\ ~evened => owed = Still]_vars
  <2> SUFFICES ASSUME IInv, Idle, ready, ~bStopMotion, ~evened
               PROVE  owed = Still
    OBVIOUS
  <2>1. ~hasUnprocessedData
    BY DEF Idle, Active
  <2>2. ASSUME NEW g \in Groups, NEW a \in Axes PROVE owed[g][a] = 0
    <3>1. toProcess[g] = Zero
      BY <2>1 DEF IInv, DueIsKnown
    <3>2. toProcess[g][a] = 0
      BY <3>1 DEF Zero
    <3>3. moved[g][a] = 0 /\ toProcess[g][a] = owed[g][a] + moved[g][a]
      BY <3>2 DEF IInv, NotEvened, Accounted
    <3>4. owed[g][a] \in Int
      BY DEF IInv, SendOK, Pulses
    <3> QED
      BY <3>2, <3>3, <3>4
  <2>3. owed \in [Groups -> Pulses]
    BY DEF IInv, SendOK
  <2> QED
    BY <2>2, <2>3 DEF Still, Zero, Pulses
<1> QED
  BY <1>1, Invariance, PTL DEF Spec, NothingLost

(* Once the clock has ticked in a stop, IncMoveLoop moves the robot for    *)
(* increments queued after the stop only.                                  *)
THEOREM StopsAreFinal == Spec => StopIsFinal
<1>1. IInv /\ [Next]_vars => [Send /\ owed' # owed => ~noticed \/ fresh]_vars
  <2> SUFFICES ASSUME IInv, Send PROVE ~noticed \/ fresh
    OBVIOUS
  <2> QED
    BY DEF IInv, Quiet, Send
<1> QED
  BY <1>1, Invariance, PTL DEF Spec, StopIsFinal
=============================================================================
