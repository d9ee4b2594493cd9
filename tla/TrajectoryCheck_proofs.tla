----------------------- MODULE TrajectoryCheck_proofs -----------------------
(***************************************************************************)
(* For any joints, control groups, array length and stamps: the checks of  *)
(* Ros_MotionControl_Init accept exactly the well formed requests and      *)
(* those whose only flaw is a point with the time of the one before; what  *)
(* is accepted is stored completely, and what is not moves nothing.        *)
(***************************************************************************)
EXTENDS TrajectoryCheck, FiniteSetTheorems, SequenceTheorems, TLAPS

(* What no step changes of a request.                                      *)
Requested ==
  /\ restless \subseteq Joints /\ off \subseteq Groups
  /\ NumPoints <= MaxPoints
  /\ mode = "pointqueue" => NumPoints = 1

(* The requests that are to be accepted.                                   *)
Granted == WellFormedBut(Repeats)

(* Joint l has passed the checks of its name; point k those of its time.   *)
NamePassed(l) == l < j \/ (l = j /\ i > 0)
PointPassed(k) == j > 1 \/ k < i

PointOk(k) ==
  /\ times[k] >= (IF k = 1 THEN 0 ELSE 1)
  /\ k > 1 => times[k - 1] <= times[k]

(* What has been checked so far holds of the request.                      *)
Checked ==
  /\ j = 0 => i = 0
  /\ j > 0 =>
       /\ lacks = "nothing" /\ Len(names) = TotalAxes
       /\ NumPoints >= 1
       /\ mode = "trajectory" => NumPoints >= 2
       /\ \A l \in 1 .. Len(names) :
            NamePassed(l) => names[l] \in Joints /\ ~RepeatedLater(l)
       /\ \A l \in 1 .. Len(names) :
            l < j /\ mode = "trajectory" => names[l] \notin restless
       /\ \A k \in 1 .. NumPoints : PointPassed(k) => PointOk(k)

(* The value of joint n at point k is in the buffer of its group.          *)
Entry(n, k) ==
  /\ buf[GroupOf[n]][k - 1].time = times[k]
  /\ buf[GroupOf[n]][k - 1].pos[n] = n

Stored ==
  verdict = "checking" =>
    \A l \in 1 .. Len(names), k \in 1 .. NumPoints :
      l < j \/ (l = j /\ k < i) => Entry(names[l], k)

(* Groups are made ready after the last joint, none away from its start.   *)
Started ==
  verdict = "checking" =>
    /\ ready \cap off = {}
    /\ j <= Len(names) => ready = {} /\ \A g \in Groups : iter[g] = -1

(* The inductive invariant.                                                *)
IInv ==
  /\ TypeOK /\ Requested /\ Checked /\ Stored /\ Started
  /\ VerdictExact /\ BufferComplete /\ RejectedMovesNothing
  /\ EveryPointWalked
-----------------------------------------------------------------------------
(* A list of TotalAxes names is without repetition and unknown names just  *)
(* when it names every joint.                                              *)
LEMMA AxesInNat == TotalAxes \in Nat
BY JointAssumption, FS_CardinalityType DEF TotalAxes

LEMMA ExactIsOnto ==
  ASSUME NEW f \in [1 .. TotalAxes -> Joints],
         \A k, l \in 1 .. TotalAxes : f[k] = f[l] => k = l
  PROVE  \A n \in Joints : \E k \in 1 .. TotalAxes : f[k] = n
<1>1. f \in Injection(1 .. TotalAxes, Joints)
  BY DEF Injection, IsInjective
<1>2. Cardinality(1 .. TotalAxes) = Cardinality(Joints)
  <2>1. TotalAxes \in Int /\ 1 \in Int
    BY AxesInNat
  <2>2. Cardinality(1 .. TotalAxes) =
          IF 1 > TotalAxes THEN 0 ELSE TotalAxes - 1 + 1
    BY <2>1, FS_Interval, Zenon
  <2> QED
    BY <2>2, AxesInNat DEF TotalAxes
<1>3. f \in Surjection(1 .. TotalAxes, Joints)
  BY <1>1, <1>2, JointAssumption, FS_Injection, Zenon
<1> QED
  BY <1>3 DEF Surjection

LEMMA OntoIsExact ==
  ASSUME NEW f,
         \A n \in Joints : \E k \in 1 .. TotalAxes : f[k] = n
  PROVE  /\ \A k \in 1 .. TotalAxes : f[k] \in Joints
         /\ \A k, l \in 1 .. TotalAxes : f[k] = f[l] => k = l
<1> DEFINE g == [n \in Joints |-> CHOOSE k \in 1 .. TotalAxes : f[k] = n]
<1>1. \A n \in Joints : g[n] \in 1 .. TotalAxes /\ f[g[n]] = n
  OBVIOUS
<1>2. g \in Injection(Joints, 1 .. TotalAxes)
  <2>1. g \in [Joints -> 1 .. TotalAxes]
    BY <1>1
  <2>2. \A m, n \in Joints : g[m] = g[n] => m = n
    BY <1>1
  <2> HIDE DEF g
  <2> QED
    BY <2>1, <2>2 DEF Injection, IsInjective
<1> HIDE DEF g
<1>3. IsFiniteSet(1 .. TotalAxes) /\ Cardinality(1 .. TotalAxes) = Cardinality(Joints)
  <2>1. TotalAxes \in Int /\ 1 \in Int
    BY AxesInNat
  <2>2. /\ IsFiniteSet(1 .. TotalAxes)
        /\ Cardinality(1 .. TotalAxes) =
             IF 1 > TotalAxes THEN 0 ELSE TotalAxes - 1 + 1
    BY <2>1, FS_Interval, Zenon
  <2> QED
    BY <2>2, AxesInNat DEF TotalAxes
<1>4. g \in Surjection(Joints, 1 .. TotalAxes)
  BY <1>2, <1>3, FS_Injection, Zenon
<1>5. \A k \in 1 .. TotalAxes : \E n \in Joints : g[n] = k
  BY <1>4 DEF Surjection
<1> QED
  BY <1>1, <1>5
-----------------------------------------------------------------------------
(* The first state of every request.                                       *)
LEMMA SeqOfTyped ==
  ASSUME NEW S, NEW n \in Nat, NEW s \in SeqOf(S, n)
  PROVE  s \in Seq(S) /\ Len(s) <= n
<1>1. PICK m \in 0 .. n : s \in [1 .. m -> S]
  BY DEF SeqOf
<1>2. m \in Nat
  BY <1>1
<1>3. s \in Seq(S)
  BY <1>1, <1>2, SMT
<1>4. DOMAIN s = 1 .. Len(s) /\ Len(s) \in Nat
  BY <1>3, LenProperties
<1>5. Len(s) = m
  BY <1>1, <1>2, <1>4
<1> QED
  BY <1>3, <1>5

LEMMA InitIInv == Init => IInv
<1> SUFFICES ASSUME Init PROVE IInv
  OBVIOUS
<1> USE DEF Init
<1>1. MaxPoints \in Nat /\ MaxPoints >= 2 /\ Stamps \subseteq Int
  BY PointAssumption
<1>2. names \in Seq(Joints \cup {Unknown}) /\ times \in Seq(Stamps)
      /\ NumPoints <= MaxPoints
  <2>1. names \in Seq(Joints \cup {Unknown})
    BY SeqOfTyped, AxesInNat
  <2>2. CASE mode = "pointqueue"
    BY <2>1, <2>2, <1>1, SeqOfTyped DEF NumPoints
  <2>3. CASE mode # "pointqueue"
    BY <2>1, <2>3, <1>1, SeqOfTyped DEF NumPoints
  <2> QED
    BY <2>2, <2>3
<1>3. Len(names) \in Nat /\ NumPoints \in Nat
  BY <1>2, LenProperties DEF NumPoints
<1>4. buf \in [Groups -> [Slots -> [time : Stamps \cup {0},
                                    pos : [Joints -> Joints \cup {Unknown}]]]]
  <2>1. Zeroed \in [time : Stamps \cup {0}, pos : [Joints -> Joints \cup {Unknown}]]
    BY DEF Zeroed
  <2> QED
    BY <2>1
<1>5. TypeOK
  BY <1>1, <1>2, <1>3, <1>4 DEF TypeOK
<1>6. Requested
  BY <1>2 DEF Requested
<1>7. Checked /\ Stored /\ Started
  BY <1>3 DEF Checked, Stored, Started
<1>8. VerdictExact /\ BufferComplete /\ RejectedMovesNothing /\ EveryPointWalked
  BY DEF VerdictExact, BufferComplete, RejectedMovesNothing, EveryPointWalked
<1> QED
  BY <1>5, <1>6, <1>7, <1>8 DEF IInv
-----------------------------------------------------------------------------
(* What the types say of the request and of the groups.                    *)
LEMMA Sizes ==
  ASSUME TypeOK, Requested
  PROVE  /\ Len(names) \in Nat /\ NumPoints \in Nat /\ MaxPoints \in Nat
         /\ NumPoints <= MaxPoints /\ MaxPoints >= 2
         /\ i \in Nat /\ j \in Nat /\ i <= NumPoints /\ j <= Len(names) + 1
         /\ \A k \in 1 .. NumPoints :
              times[k] \in Stamps /\ times[k] \in Int /\ k - 1 \in Slots
         /\ \A n \in Joints : GroupOf[n] \in Groups
<1>1. /\ Len(names) \in Nat /\ NumPoints \in Nat
      /\ \A k \in 1 .. NumPoints : times[k] \in Stamps
  BY LenProperties, ElementOfSeq DEF TypeOK, NumPoints
<1>2. /\ MaxPoints \in Nat /\ MaxPoints >= 2 /\ Stamps \subseteq Int
      /\ NumPoints <= MaxPoints
  BY PointAssumption DEF Requested
<1>3. i \in Nat /\ j \in Nat /\ i <= NumPoints /\ j <= Len(names) + 1
  BY <1>1 DEF TypeOK
<1>4. \A k \in 1 .. NumPoints : k - 1 \in Slots
  BY <1>1, <1>2 DEF Slots
<1>5. \A n \in Joints : GroupOf[n] \in Groups
  BY DEF Groups
<1> QED
  BY <1>1, <1>2, <1>3, <1>4, <1>5

Buffers ==
  [Groups -> [Slots -> [time : Stamps \cup {0},
                        pos : [Joints -> Joints \cup {Unknown}]]]]

Timed(b, g, s, t) == [b EXCEPT ![g][s].time = t]
Written(b, g, s, t, n) == [Timed(b, g, s, t) EXCEPT ![g][s].pos[n] = n]

(* Storing one joint of one point changes that joint and that time alone.  *)
LEMMA BufferWrite ==
  ASSUME NEW b \in Buffers, NEW g \in Groups, NEW s \in Slots,
         NEW t \in Stamps, NEW n \in Joints
  PROVE  /\ Timed(b, g, s, t) \in Buffers
         /\ Written(b, g, s, t, n) \in Buffers
         /\ \A h \in Groups, r \in Slots :
              Written(b, g, s, t, n)[h][r].time =
                IF h = g /\ r = s THEN t ELSE b[h][r].time
         /\ \A h \in Groups, r \in Slots, m \in Joints :
              Written(b, g, s, t, n)[h][r].pos[m] =
                IF h = g /\ r = s /\ m = n THEN n ELSE b[h][r].pos[m]
<1> DEFINE Point == [time : Stamps \cup {0},
                     pos : [Joints -> Joints \cup {Unknown}]]
           p == [b[g][s] EXCEPT !.time = t]
           q == [p EXCEPT !.pos[n] = n]
<1>1. b[g][s] \in Point /\ b[g] \in [Slots -> Point]
  BY DEF Buffers
<1>2. /\ p \in Point
      /\ p.time = t /\ p.pos = b[g][s].pos
  BY <1>1
<1>3. /\ q \in Point
      /\ q.time = t
      /\ \A m \in Joints : q.pos[m] = IF m = n THEN n ELSE b[g][s].pos[m]
  BY <1>2
<1>4. Timed(b, g, s, t) = [b EXCEPT ![g] = [b[g] EXCEPT ![s] = p]]
  BY DEF Buffers, Timed
<1> HIDE DEF p
<1>5. Timed(b, g, s, t) \in Buffers /\ Timed(b, g, s, t)[g][s] = p
  BY <1>1, <1>2, <1>4 DEF Buffers
<1>6. Written(b, g, s, t, n) =
        [Timed(b, g, s, t) EXCEPT ![g] = [Timed(b, g, s, t)[g] EXCEPT ![s] = q]]
  BY <1>5 DEF Buffers, Written
<1> HIDE DEF q
<1>7. Written(b, g, s, t, n) \in Buffers /\ Written(b, g, s, t, n)[g][s] = q
  BY <1>3, <1>5, <1>6 DEF Buffers
<1>8. \A h \in Groups, r \in Slots :
        ~(h = g /\ r = s) => Written(b, g, s, t, n)[h][r] = b[h][r]
  BY <1>1, <1>4, <1>5, <1>6 DEF Buffers
<1>9. ASSUME NEW h \in Groups, NEW r \in Slots
      PROVE  Written(b, g, s, t, n)[h][r].time =
               IF h = g /\ r = s THEN t ELSE b[h][r].time
  <2>1. CASE h = g /\ r = s
    BY <1>3, <1>7, <2>1
  <2>2. CASE ~(h = g /\ r = s)
    BY <1>8, <2>2
  <2> QED
    BY <2>1, <2>2
<1>10. ASSUME NEW h \in Groups, NEW r \in Slots, NEW m \in Joints
       PROVE  Written(b, g, s, t, n)[h][r].pos[m] =
                IF h = g /\ r = s /\ m = n THEN n ELSE b[h][r].pos[m]
  <2>1. CASE h = g /\ r = s
    BY <1>3, <1>7, <2>1
  <2>2. CASE ~(h = g /\ r = s)
    BY <1>8, <2>2
  <2> QED
    BY <2>1, <2>2
<1> QED
  BY <1>5, <1>7, <1>9, <1>10
-----------------------------------------------------------------------------
(* The four ways ConvertPoint ends, in terms of the request: the time it   *)
(* compares with in the buffer is that of the point before.                *)
ConvertOutcome(n, g) ==
  \/ /\ verdict' = "INVALID_TIME" /\ ~PointOk(i)
     /\ UNCHANGED <<j, i, buf>>
  \/ /\ verdict' = "BACKWARD_TIME" /\ ~PointOk(i)
     /\ UNCHANGED <<j, i>> /\ buf' = Timed(buf, g, i - 1, times[i])
  \/ /\ verdict' = "INVALID_ENDING_VELOCITY"
     /\ mode = "trajectory" /\ n \in restless
     /\ UNCHANGED <<j, i>> /\ buf' = Timed(buf, g, i - 1, times[i])
  \/ /\ verdict' = "checking" /\ PointOk(i)
     /\ mode = "trajectory" /\ i = NumPoints => n \notin restless
     /\ NextPoint /\ buf' = Written(buf, g, i - 1, times[i], n)

LEMMA ConvertCases ==
  ASSUME IInv, ConvertPoint
  PROVE  /\ verdict = "checking"
         /\ j \in 1 .. Len(names) /\ i \in 1 .. NumPoints
         /\ names[j] \in Joints /\ GroupOf[names[j]] \in Groups
         /\ UNCHANGED <<request, ready, iter>>
         /\ ConvertOutcome(names[j], GroupOf[names[j]])
<1> DEFINE n == names[j]
           g == GroupOf[n]
<1> USE DEF IInv
<1>1. /\ Len(names) \in Nat /\ NumPoints \in Nat /\ i \in Nat /\ j \in Nat
      /\ i <= NumPoints
      /\ \A k \in 1 .. NumPoints : times[k] \in Int
      /\ \A m \in Joints : GroupOf[m] \in Groups
  BY Sizes
<1>2. verdict = "checking" /\ j \in 1 .. Len(names) /\ i \in 1 .. NumPoints
  BY <1>1 DEF ConvertPoint, AtPoint
<1>3. n \in Joints /\ g \in Groups
  BY <1>1, <1>2 DEF Checked, NamePassed
<1>4. i > 1 => buf[g][i - 2].time = times[i - 1]
  <2> SUFFICES ASSUME i > 1 PROVE buf[g][i - 2].time = times[i - 1]
    OBVIOUS
  <2>1. i - 1 \in 1 .. NumPoints /\ i - 1 < i /\ (i - 1) - 1 = i - 2
    BY <1>1, <1>2
  <2>2. Entry(names[j], i - 1)
    BY <1>2, <2>1 DEF Stored
  <2> QED
    BY <2>1, <2>2 DEF Entry
<1>5. UNCHANGED <<request, ready, iter>>
  BY DEF ConvertPoint, Reject
<1>6. CASE times[i] < 0 \/ (times[i] = 0 /\ i # 1)
  <2>1. ~PointOk(i)
    BY <1>1, <1>2, <1>6 DEF PointOk
  <2>2. verdict' = "INVALID_TIME" /\ UNCHANGED <<j, i, buf>>
    BY <1>6 DEF ConvertPoint, Reject
  <2> QED
    BY <1>2, <1>3, <1>5, <2>1, <2>2 DEF ConvertOutcome
<1>7. CASE ~(times[i] < 0 \/ (times[i] = 0 /\ i # 1)) /\ Backward(g)
  <2>1. ~PointOk(i)
    BY <1>1, <1>2, <1>4, <1>7 DEF PointOk, Backward
  <2>2. /\ verdict' = "BACKWARD_TIME" /\ UNCHANGED <<j, i>>
        /\ buf' = Timed(buf, g, i - 1, times[i])
    BY <1>7 DEF ConvertPoint, Timed
  <2> QED
    BY <1>2, <1>3, <1>5, <2>1, <2>2 DEF ConvertOutcome
<1>8. CASE /\ ~(times[i] < 0 \/ (times[i] = 0 /\ i # 1)) /\ ~Backward(g)
           /\ MovingAtEnd
  <2>1. /\ verdict' = "INVALID_ENDING_VELOCITY" /\ UNCHANGED <<j, i>>
        /\ buf' = Timed(buf, g, i - 1, times[i])
    BY <1>8 DEF ConvertPoint, Timed
  <2> QED
    BY <1>2, <1>3, <1>5, <1>8, <2>1 DEF ConvertOutcome, MovingAtEnd
<1>9. CASE /\ ~(times[i] < 0 \/ (times[i] = 0 /\ i # 1)) /\ ~Backward(g)
           /\ ~MovingAtEnd
  <2>1. PointOk(i)
    BY <1>1, <1>2, <1>4, <1>9 DEF PointOk, Backward
  <2>2. /\ verdict' = "checking" /\ NextPoint
        /\ buf' = Written(buf, g, i - 1, times[i], n)
    BY <1>2, <1>9 DEF ConvertPoint, Written, Timed
  <2> QED
    BY <1>2, <1>3, <1>5, <1>9, <2>1, <2>2 DEF ConvertOutcome, MovingAtEnd
<1> QED
  BY <1>6, <1>7, <1>8, <1>9
-----------------------------------------------------------------------------
(* Types are kept by every step.                                           *)
LEMMA TypeStep == IInv /\ [Next]_vars => TypeOK' /\ Requested'
<1> SUFFICES ASSUME IInv, [Next]_vars PROVE TypeOK' /\ Requested'
  OBVIOUS
<1> USE DEF IInv
<1>1. /\ Len(names) \in Nat /\ NumPoints \in Nat /\ MaxPoints \in Nat
      /\ NumPoints <= MaxPoints /\ MaxPoints >= 2
      /\ i \in Nat /\ j \in Nat /\ i <= NumPoints /\ j <= Len(names) + 1
      /\ \A k \in 1 .. NumPoints : times[k] \in Stamps /\ k - 1 \in Slots
  BY Sizes
<1>2. CASE CheckSizes
  BY <1>1, <1>2 DEF CheckSizes, AtSizes, Reject, TypeOK, Requested, request,
      NumPoints
<1>3. CASE CheckJoint
  <2>1. NumPoints >= 1
    BY <1>1, <1>3 DEF CheckJoint, AtJoint, Checked
  <2> QED
    BY <1>1, <1>3, <2>1 DEF CheckJoint, AtJoint, Reject, TypeOK, Requested,
        request, NumPoints
<1>4. CASE ConvertPoint
  <2> DEFINE n == names[j]
             g == GroupOf[n]
  <2>1. /\ j \in 1 .. Len(names) /\ i \in 1 .. NumPoints
        /\ n \in Joints /\ g \in Groups
        /\ UNCHANGED <<request, ready, iter>>
        /\ ConvertOutcome(n, g)
    BY <1>4, ConvertCases
  <2>2. buf \in Buffers
    BY DEF TypeOK, Buffers
  <2>3. /\ Timed(buf, g, i - 1, times[i]) \in Buffers
        /\ Written(buf, g, i - 1, times[i], n) \in Buffers
    BY <1>1, <2>1, <2>2, BufferWrite
  <2>4. buf' \in Buffers
    BY <2>1, <2>2, <2>3 DEF ConvertOutcome
  <2>5. j' \in 0 .. Len(names) + 1 /\ i' \in 0 .. NumPoints
    BY <1>1, <2>1 DEF ConvertOutcome, NextPoint
  <2>6. verdict' \in {"checking", "INVALID_TIME", "BACKWARD_TIME",
                      "INVALID_ENDING_VELOCITY"}
    BY <2>1 DEF ConvertOutcome
  <2> QED
    BY <2>1, <2>4, <2>5, <2>6 DEF TypeOK, Requested, request, Buffers, NumPoints
<1>5. CASE Accept
  BY <1>5 DEF Accept, TypeOK, Requested, request, NumPoints
<1>6. ASSUME NEW g \in Groups, StartGroup(g)
      PROVE  TypeOK' /\ Requested'
  <2>1. Zeroed \in [time : Stamps \cup {0}, pos : [Joints -> Joints \cup {Unknown}]]
    BY DEF Zeroed
  <2>2. CASE g \in off
    BY <1>1, <1>6, <2>1, <2>2 DEF StartGroup, GroupFails, TypeOK, Requested,
        request, NumPoints
  <2>3. CASE g \notin off
    <3>1. /\ ready' = ready \cup {g} /\ iter' = [iter EXCEPT ![g] = 1]
          /\ UNCHANGED <<buf, verdict, j, i, request>>
      BY <1>6, <2>3 DEF StartGroup
    <3>2. iter' \in [Groups -> -1 .. MaxPoints] /\ ready' \subseteq Groups
      <4>1. 1 \in -1 .. MaxPoints
        BY <1>1
      <4> QED
        BY <1>6, <3>1, <4>1 DEF TypeOK
    <3> QED
      BY <3>1, <3>2 DEF TypeOK, Requested, request, NumPoints
  <2> QED
    BY <2>2, <2>3
<1>7. ASSUME NEW g \in Groups, Finish(g), UNCHANGED <<request, j, i, verdict>>
      PROVE  TypeOK' /\ Requested'
  <2>1. Zeroed \in [time : Stamps \cup {0}, pos : [Joints -> Joints \cup {Unknown}]]
    BY DEF Zeroed
  <2> QED
    BY <1>7, <2>1 DEF Finish, TypeOK, Requested, request, NumPoints
<1>8. ASSUME NEW g \in Groups, Advance(g)
      PROVE  TypeOK' /\ Requested'
  <2>1. CASE iter[g] = MaxPoints
    BY <1>7, <1>8, <2>1 DEF Advance
  <2>2. CASE iter[g] # MaxPoints
    <3>1. iter[g] + 1 \in -1 .. MaxPoints
      BY <1>1, <1>8, <2>2 DEF TypeOK
    <3> QED
      BY <1>8, <2>2, <3>1 DEF Advance, TypeOK, Requested, request, NumPoints
  <2> QED
    BY <2>1, <2>2
<1>9. ASSUME NEW g \in Groups, NoMorePoints(g)
      PROVE  TypeOK' /\ Requested'
  BY <1>7, <1>9 DEF NoMorePoints
<1>10. CASE UNCHANGED vars
  BY <1>10 DEF vars, TypeOK, Requested, request, NumPoints
<1> QED
  BY <1>2, <1>3, <1>4, <1>5, <1>6, <1>8, <1>9, <1>10 DEF Next
-----------------------------------------------------------------------------
(* What has been checked stays true, and every check adds its part.        *)
LEMMA CheckedStep == IInv /\ [Next]_vars => Checked'
<1> SUFFICES ASSUME IInv, [Next]_vars PROVE Checked'
  OBVIOUS
<1> USE DEF IInv
<1>1. /\ Len(names) \in Nat /\ NumPoints \in Nat
      /\ i \in Nat /\ j \in Nat /\ i <= NumPoints /\ j <= Len(names) + 1
  BY Sizes
<1>2. CASE CheckSizes
  <2>1. CASE UNCHANGED <<request, j, i>>
    BY <2>1 DEF Checked, NamePassed, PointPassed, PointOk, RepeatedLater,
        request, TotalAxes, NumPoints
  <2>2. CASE /\ Len(names) = TotalAxes /\ lacks = "nothing"
             /\ mode = "trajectory" => NumPoints >= 2
             /\ j' = 1 /\ j = 0 /\ UNCHANGED <<request, i>>
    <3>1. NumPoints >= 1
      BY <1>1, <2>2 DEF Requested, TypeOK
    <3>2. i = 0
      BY <2>2 DEF Checked
    <3> QED
      BY <1>1, <2>2, <3>1, <3>2 DEF Checked, NamePassed, PointPassed, request,
          TotalAxes, NumPoints
  <2> QED
    BY <1>2, <2>1, <2>2 DEF CheckSizes, AtSizes, Reject
<1>3. CASE CheckJoint
  <2>1. CASE UNCHANGED <<request, j, i>>
    BY <2>1 DEF Checked, NamePassed, PointPassed, PointOk, RepeatedLater,
        request, TotalAxes, NumPoints
  <2>2. CASE /\ ~RepeatedLater(j) /\ names[j] \in Joints
             /\ j \in 1 .. Len(names) /\ i = 0 /\ i' = 1
             /\ UNCHANGED <<request, j>>
    <3>1. \A l \in 1 .. Len(names) :
            NamePassed(l)' => names[l] \in Joints /\ ~RepeatedLater(l)
      BY <1>1, <2>2 DEF Checked, NamePassed
    <3>2. \A k \in 1 .. NumPoints : PointPassed(k)' => PointOk(k)
      BY <1>1, <2>2 DEF Checked, PointPassed
    <3> QED
      BY <1>1, <2>2, <3>1, <3>2 DEF Checked, PointOk, RepeatedLater, request,
          TotalAxes, NumPoints
  <2> QED
    BY <1>3, <2>1, <2>2 DEF CheckJoint, AtJoint, Reject
<1>4. CASE ConvertPoint
  <2>1. /\ j \in 1 .. Len(names) /\ i \in 1 .. NumPoints
        /\ names[j] \in Joints /\ UNCHANGED <<request, ready, iter>>
        /\ ConvertOutcome(names[j], GroupOf[names[j]])
    BY <1>4, ConvertCases
  <2>2. CASE UNCHANGED <<j, i>>
    BY <2>1, <2>2 DEF Checked, NamePassed, PointPassed, PointOk, RepeatedLater,
        request, TotalAxes, NumPoints
  <2>3. CASE /\ PointOk(i) /\ NextPoint
             /\ mode = "trajectory" /\ i = NumPoints => names[j] \notin restless
    <3>1. \A l \in 1 .. Len(names) :
            NamePassed(l)' => names[l] \in Joints /\ ~RepeatedLater(l)
      BY <1>1, <2>1, <2>3 DEF Checked, NamePassed, NextPoint
    <3>2. \A l \in 1 .. Len(names) :
            l < j' /\ mode = "trajectory" => names[l] \notin restless
      BY <1>1, <2>1, <2>3 DEF Checked, NextPoint
    <3>3. \A k \in 1 .. NumPoints : PointPassed(k)' => PointOk(k)
      BY <1>1, <2>1, <2>3 DEF Checked, PointPassed, NextPoint
    <3>4. j' > 0
      BY <1>1, <2>1, <2>3 DEF NextPoint
    <3> QED
      BY <1>1, <2>1, <3>1, <3>2, <3>3, <3>4 DEF Checked, PointOk, RepeatedLater,
          request, TotalAxes, NumPoints
  <2> QED
    BY <2>1, <2>2, <2>3 DEF ConvertOutcome
<1>5. CASE UNCHANGED <<request, j, i>>
  BY <1>5 DEF Checked, NamePassed, PointPassed, PointOk, RepeatedLater, request,
      TotalAxes, NumPoints
<1> QED
  BY <1>2, <1>3, <1>4, <1>5 DEF Next, Accept, StartGroup, Advance, NoMorePoints,
      vars
-----------------------------------------------------------------------------
(* What has been stored stays until the verdict.                           *)
LEMMA StoredStep == IInv /\ [Next]_vars => Stored'
<1> SUFFICES ASSUME IInv, [Next]_vars, verdict' = "checking" PROVE Stored'
  BY DEF Stored
<1> USE DEF IInv
<1>1. /\ Len(names) \in Nat /\ NumPoints \in Nat
      /\ i \in Nat /\ j \in Nat /\ i <= NumPoints /\ j <= Len(names) + 1
      /\ \A k \in 1 .. NumPoints : times[k] \in Stamps /\ k - 1 \in Slots
      /\ \A n \in Joints : GroupOf[n] \in Groups
  BY Sizes
<1>2. CASE CheckSizes
  BY <1>1, <1>2 DEF CheckSizes, AtSizes, Reject, Stored, Entry, Checked,
      request, NumPoints
<1>3. CASE CheckJoint
  BY <1>1, <1>3 DEF CheckJoint, AtJoint, Reject, Stored, Entry, request, NumPoints
<1>4. CASE ConvertPoint
  <2> DEFINE n == names[j]
             g == GroupOf[n]
             b == Written(buf, g, i - 1, times[i], n)
  <2>1. /\ verdict = "checking"
        /\ j \in 1 .. Len(names) /\ i \in 1 .. NumPoints
        /\ n \in Joints /\ g \in Groups /\ UNCHANGED <<request, ready, iter>>
        /\ ConvertOutcome(n, g)
    BY <1>4, ConvertCases
  <2>2. NextPoint /\ buf' = b
    BY <2>1 DEF ConvertOutcome
  <2>3. /\ \A h \in Groups, r \in Slots :
             b[h][r].time = IF h = g /\ r = i - 1 THEN times[i] ELSE buf[h][r].time
        /\ \A h \in Groups, r \in Slots, m \in Joints :
             b[h][r].pos[m] = IF h = g /\ r = i - 1 /\ m = n THEN n
                              ELSE buf[h][r].pos[m]
    <3>1. buf \in Buffers /\ i - 1 \in Slots /\ times[i] \in Stamps
      BY <1>1, <2>1 DEF TypeOK, Buffers
    <3>2. n \in Joints /\ g \in Groups
      BY <2>1
    <3> HIDE DEF n, g
    <3> QED
      BY <3>1, <3>2, BufferWrite
  <2> HIDE DEF b
  <2>4. ASSUME NEW l \in 1 .. Len(names), NEW k \in 1 .. NumPoints,
               l < j' \/ (l = j' /\ k < i')
        PROVE  /\ b[GroupOf[names[l]]][k - 1].time = times[k]
               /\ b[GroupOf[names[l]]][k - 1].pos[names[l]] = names[l]
    <3>1. l < j \/ (l = j /\ k < i) \/ (l = j /\ k = i)
      BY <1>1, <2>1, <2>2, <2>4 DEF NextPoint
    <3>2. names[l] \in Joints /\ GroupOf[names[l]] \in Groups
      BY <1>1, <2>1, <3>1 DEF Checked, NamePassed
    <3>3. k - 1 \in Slots
      BY <1>1
    <3>4. CASE l < j \/ (l = j /\ k < i)
      <4>1. Entry(names[l], k)
        BY <2>1, <3>4 DEF Stored
      <4>2. k - 1 = i - 1 => k = i
        BY <2>1
      <4> QED
        BY <2>3, <3>2, <3>3, <4>1, <4>2 DEF Entry
    <3>5. CASE l = j /\ k = i
      BY <2>1, <2>3, <3>2, <3>3, <3>5
    <3> QED
      BY <3>1, <3>4, <3>5
  <2> QED
    BY <2>1, <2>2, <2>4 DEF Stored, Entry, request, NumPoints
<1>5. CASE UNCHANGED <<request, j, i, buf, verdict>>
  BY <1>5 DEF Stored, Entry, request, NumPoints
<1>6. ASSUME NEW g \in Groups, StartGroup(g) PROVE Stored'
  <2>1. UNCHANGED <<request, j, i, buf, verdict>>
    BY <1>6 DEF StartGroup
  <2> QED
    BY <1>5, <2>1
<1>7. \A g \in Groups : ~Advance(g) /\ ~NoMorePoints(g)
  BY DEF Advance, NoMorePoints
<1>8. ~Accept
  BY DEF Accept
<1> QED
  BY <1>2, <1>3, <1>4, <1>5, <1>6, <1>7, <1>8 DEF Next, vars
-----------------------------------------------------------------------------
(* Groups are made ready one by one, after the last joint.                 *)
LEMMA StartedStep == IInv /\ [Next]_vars => Started'
<1> SUFFICES ASSUME IInv, [Next]_vars, verdict' = "checking" PROVE Started'
  BY DEF Started
<1> USE DEF IInv
<1>1. Len(names) \in Nat /\ j \in Nat
  BY Sizes
<1>2. CASE CheckSizes
  BY <1>1, <1>2 DEF CheckSizes, AtSizes, Reject, Started, request
<1>3. CASE CheckJoint
  BY <1>1, <1>3 DEF CheckJoint, AtJoint, Reject, Started, request
<1>4. CASE ConvertPoint
  <2>1. /\ verdict = "checking" /\ j \in 1 .. Len(names)
        /\ UNCHANGED <<request, ready, iter>>
    BY <1>4, ConvertCases
  <2> QED
    BY <1>1, <2>1 DEF Started, request
<1>5. ASSUME NEW g \in Groups, StartGroup(g) PROVE Started'
  <2>1. /\ verdict = "checking" /\ ~(j <= Len(names)) /\ g \notin off
        /\ ready' = ready \cup {g} /\ UNCHANGED <<request, j>>
    BY <1>1, <1>5 DEF StartGroup, AtGroups
  <2> QED
    BY <2>1 DEF Started, request
<1>6. \A g \in Groups : ~Advance(g) /\ ~NoMorePoints(g)
  BY DEF Advance, NoMorePoints
<1>7. ~Accept
  BY DEF Accept
<1>8. CASE UNCHANGED vars
  BY <1>8 DEF vars, Started, request
<1> QED
  BY <1>2, <1>3, <1>4, <1>5, <1>6, <1>7, <1>8 DEF Next
-----------------------------------------------------------------------------
(* Once every joint has been converted, the request is well formed but for *)
(* where the groups stand, and is in the buffers.                          *)
LEMMA AllChecked ==
  ASSUME IInv, AtGroups
  PROVE  /\ Granted <=> off = {}
         /\ \A n \in Joints, k \in 1 .. NumPoints : Entry(n, k)
<1> USE DEF IInv
<1>1. /\ Len(names) \in Nat /\ NumPoints \in Nat
      /\ i \in Nat /\ j \in Nat /\ j <= Len(names) + 1 /\ j > Len(names)
      /\ verdict = "checking"
      /\ \A k \in 1 .. NumPoints : times[k] \in Int
  BY Sizes DEF AtGroups
<1>2. /\ j > 0 /\ Len(names) = TotalAxes /\ lacks = "nothing"
      /\ mode = "trajectory" => NumPoints >= 2
  BY <1>1 DEF Checked
<1>3. TotalAxes >= 1
  BY FS_EmptySet, JointAssumption, AxesInNat DEF TotalAxes
<1>4. \A l \in 1 .. Len(names) :
        /\ names[l] \in Joints /\ ~RepeatedLater(l)
        /\ mode = "trajectory" => names[l] \notin restless
  BY <1>1, <1>2 DEF Checked, NamePassed
<1>5. \A k \in 1 .. NumPoints : PointOk(k)
  BY <1>1, <1>2, <1>3 DEF Checked, PointPassed
<1>6. \A n \in Joints : \E l \in 1 .. Len(names) : names[l] = n
  <2>1. names \in [1 .. TotalAxes -> Joints]
    <3>1. names \in [1 .. Len(names) -> Joints \cup {Unknown}]
      BY LenProperties DEF TypeOK
    <3> QED
      BY <1>2, <1>4, <3>1
  <2>2. \A k, l \in 1 .. TotalAxes : names[k] = names[l] => k = l
    <3> SUFFICES ASSUME NEW k \in 1 .. TotalAxes, NEW l \in 1 .. TotalAxes,
                        names[k] = names[l], k # l
                 PROVE  FALSE
      OBVIOUS
    <3>1. CASE k < l
      BY <1>1, <1>2, <1>4, <3>1 DEF RepeatedLater
    <3>2. CASE l < k
      BY <1>1, <1>2, <1>4, <3>2 DEF RepeatedLater
    <3> QED
      BY <1>1, <1>2, <3>1, <3>2
  <2> QED
    BY <1>2, <2>1, <2>2, ExactIsOnto
<1>7. mode = "trajectory" => restless = {}
  BY <1>4, <1>6 DEF Requested
<1>8. \A k \in 1 .. NumPoints : times[k] >= (IF k = 1 THEN 0 ELSE 1)
  BY <1>5 DEF PointOk
<1>9. \A k \in 2 .. NumPoints : times[k - 1] < times[k] \/ k \in Repeats
  BY <1>1, <1>5, Sizes DEF PointOk, Repeats
<1>10. Granted <=> off = {}
  BY <1>2, <1>6, <1>7, <1>8, <1>9 DEF WellFormedBut, Granted
<1>11. ASSUME NEW n \in Joints, NEW k \in 1 .. NumPoints PROVE Entry(n, k)
  <2>1. PICK l \in 1 .. Len(names) : names[l] = n
    BY <1>6
  <2>2. l < j
    BY <1>1
  <2> QED
    BY <1>1, <2>1, <2>2 DEF Stored
<1> QED
  BY <1>10, <1>11
-----------------------------------------------------------------------------
(* Every way out of the checks is the right one.                           *)
LEMMA ExactStep == IInv /\ [Next]_vars => VerdictExact'
<1> SUFFICES ASSUME IInv, [Next]_vars PROVE VerdictExact'
  OBVIOUS
<1> USE DEF IInv
<1>1. /\ Len(names) \in Nat /\ NumPoints \in Nat /\ i \in Nat /\ j \in Nat
      /\ \A k \in 1 .. NumPoints : times[k] \in Int
  BY Sizes
<1>2. CASE UNCHANGED <<request, verdict>>
  BY <1>2 DEF VerdictExact, WellFormedBut, Granted, Repeats, request, TotalAxes,
      NumPoints
<1>3. ASSUME verdict' \notin {"checking", "OK"}, ~Granted, UNCHANGED request
      PROVE  VerdictExact'
  BY <1>3 DEF VerdictExact, WellFormedBut, Granted, Repeats, request, TotalAxes,
      NumPoints
<1>4. ASSUME verdict' = "OK", Granted, UNCHANGED request
      PROVE  VerdictExact'
  BY <1>4 DEF VerdictExact, WellFormedBut, Granted, Repeats, request, TotalAxes,
      NumPoints
<1>5. CASE CheckSizes
  <2>1. CASE mode = "trajectory" /\ NumPoints < 2 /\ Reject("TOO_SMALL")
    BY <1>1, <1>3, <2>1 DEF WellFormedBut, Granted, Repeats, Reject
  <2>2. CASE Len(names) # TotalAxes /\ Reject("INCOMPLETE_JOINTLIST")
    BY <1>3, <2>2 DEF WellFormedBut, Granted, Repeats, Reject
  <2>3. CASE lacks # "nothing" /\ Reject("WRONG_NUMBER")
    BY <1>3, <2>3 DEF WellFormedBut, Granted, Repeats, Reject
  <2>4. CASE UNCHANGED <<request, verdict>>
    BY <1>2, <2>4
  <2> QED
    BY <1>5, <2>1, <2>2, <2>3, <2>4 DEF CheckSizes
<1>6. CASE CheckJoint
  <2>1. /\ j \in 1 .. Len(names) /\ Len(names) = TotalAxes
    BY <1>1, <1>6 DEF CheckJoint, AtJoint, Checked
  <2>2. CASE RepeatedLater(j) /\ Reject("DUPLICATE_JOINT_NAME")
    <3>1. PICK l \in j + 1 .. Len(names) : names[l] = names[j]
      BY <2>2 DEF RepeatedLater
    <3>2. l \in 1 .. TotalAxes /\ j \in 1 .. TotalAxes /\ l # j
      BY <1>1, <2>1
    <3>3. ~Granted
      BY <2>1, <3>1, <3>2, OntoIsExact DEF WellFormedBut, Granted, Repeats
    <3> QED
      BY <1>3, <2>2, <3>3 DEF Reject
  <2>3. CASE names[j] \notin Joints /\ Reject("INVALID_JOINTNAME")
    <3>1. ~Granted
      BY <2>1, <2>3, OntoIsExact DEF WellFormedBut, Granted, Repeats
    <3> QED
      BY <1>3, <2>3, <3>1 DEF Reject
  <2>4. CASE UNCHANGED <<request, verdict>>
    BY <1>2, <2>4
  <2> QED
    BY <1>6, <2>2, <2>3, <2>4 DEF CheckJoint
<1>7. CASE ConvertPoint
  <2>1. /\ verdict = "checking" /\ i \in 1 .. NumPoints
        /\ UNCHANGED request
        /\ ConvertOutcome(names[j], GroupOf[names[j]])
    BY <1>7, ConvertCases
  <2>2. CASE ~PointOk(i) /\ verdict' \in {"INVALID_TIME", "BACKWARD_TIME"}
    <3>1. ~Granted
      BY <1>1, <2>1, <2>2 DEF WellFormedBut, Granted, Repeats, PointOk
    <3> QED
      BY <1>3, <2>1, <2>2, <3>1
  <2>3. CASE /\ mode = "trajectory" /\ names[j] \in restless
             /\ verdict' = "INVALID_ENDING_VELOCITY"
    <3>1. ~Granted
      BY <2>3 DEF WellFormedBut, Granted, Repeats
    <3> QED
      BY <1>3, <2>1, <2>3, <3>1
  <2>4. CASE verdict' = "checking"
    BY <1>2, <2>1, <2>4
  <2> QED
    BY <2>1, <2>2, <2>3, <2>4 DEF ConvertOutcome
<1>8. ASSUME NEW g \in Groups, StartGroup(g) PROVE VerdictExact'
  <2>1. CASE g \in off
    <3>1. verdict' = "INVALID_START" /\ UNCHANGED request
      BY <1>8, <2>1 DEF StartGroup
    <3>2. ~Granted
      BY <2>1 DEF WellFormedBut, Granted, Repeats
    <3> QED
      BY <1>3, <3>1, <3>2
  <2>2. CASE g \notin off
    BY <1>2, <1>8, <2>2 DEF StartGroup
  <2> QED
    BY <2>1, <2>2
<1>9. CASE Accept
  <2>1. off = {}
    BY <1>9 DEF Accept, AtGroups, Started, Requested
  <2>2. Granted
    BY <1>9, <2>1, AllChecked DEF Accept
  <2> QED
    BY <1>4, <1>9, <2>2 DEF Accept
<1>10. ASSUME NEW g \in Groups, Advance(g) \/ NoMorePoints(g)
       PROVE  UNCHANGED <<request, verdict>>
  BY <1>10 DEF Advance, NoMorePoints
<1>11. CASE UNCHANGED vars
  BY <1>2, <1>11 DEF vars
<1> QED
  BY <1>2, <1>5, <1>6, <1>7, <1>8, <1>9, <1>10, <1>11 DEF Next
-----------------------------------------------------------------------------
(* A step that is not of the walk starts while the request is checked.     *)
LEMMA WalkOrCheck ==
  ASSUME IInv, Next
  PROVE  \/ verdict = "checking"
         \/ \E g \in Groups :
              /\ g \in ready /\ iter[g] <= MaxPoints
              /\ \/ UNCHANGED <<buf, ready>> /\ iter' = [iter EXCEPT ![g] = @ + 1]
                 \/ Finish(g) /\ iter[g] >= NumPoints
              /\ UNCHANGED <<request, j, i, verdict>>
<1> USE DEF IInv
<1>1. NumPoints \in Nat /\ MaxPoints \in Nat /\ NumPoints <= MaxPoints
  BY Sizes
<1>2. \A g \in Groups : iter[g] \in Int /\ iter[g] <= MaxPoints
  BY <1>1 DEF TypeOK
<1>3. ASSUME NEW g \in Groups, Advance(g) \/ NoMorePoints(g)
      PROVE  /\ g \in ready
             /\ \/ UNCHANGED <<buf, ready>> /\ iter' = [iter EXCEPT ![g] = @ + 1]
                \/ Finish(g) /\ iter[g] >= NumPoints
             /\ UNCHANGED <<request, j, i, verdict>>
  BY <1>1, <1>2, <1>3 DEF Advance, NoMorePoints, ValidAt
<1>4. CASE ConvertPoint
  BY <1>4, ConvertCases
<1> QED
  BY <1>2, <1>3, <1>4 DEF Next, CheckSizes, AtSizes, CheckJoint, AtJoint,
      Accept, AtGroups, StartGroup

(* What was accepted stays in the buffer of a group until it has finished. *)
LEMMA CompleteStep == IInv /\ [Next]_vars => BufferComplete'
<1> SUFFICES ASSUME IInv, [Next]_vars, verdict' = "OK" PROVE BufferComplete'
  BY DEF BufferComplete
<1> USE DEF IInv
<1>1. CASE UNCHANGED vars
  BY <1>1 DEF vars, BufferComplete, request, NumPoints
<1>2. CASE verdict = "checking" /\ Next
  <2>1. ~ConvertPoint
    BY ConvertCases DEF ConvertOutcome
  <2>2. Accept
    BY <1>2, <2>1 DEF Next, CheckSizes, CheckJoint, Reject, StartGroup, Advance,
        NoMorePoints
  <2>3. \A n \in Joints, k \in 1 .. NumPoints : Entry(n, k)
    BY <2>2, AllChecked DEF Accept
  <2>4. ready = Groups /\ UNCHANGED <<request, buf, ready>>
    BY <2>2 DEF Accept
  <2>5. \A g \in ready : \E n \in Joints : GroupOf[n] = g
    BY <2>4 DEF Groups
  <2> QED
    BY <2>3, <2>4, <2>5 DEF BufferComplete, Entry, request, NumPoints
<1>3. ASSUME NEW g \in Groups, UNCHANGED <<buf, ready, request, verdict>>
      PROVE  BufferComplete'
  BY <1>3 DEF BufferComplete, request, NumPoints
<1>4. ASSUME NEW g \in Groups, Finish(g), UNCHANGED <<request, verdict>>
      PROVE  BufferComplete'
  <2>1. /\ ready' = ready \ {g} /\ ready \subseteq Groups
        /\ \A h \in Groups \ {g} : buf'[h] = buf[h]
    BY <1>4 DEF Finish, TypeOK
  <2> QED
    BY <1>4, <2>1 DEF BufferComplete, request, NumPoints
<1> QED
  BY <1>1, <1>2, <1>3, <1>4, WalkOrCheck

(* A request that is turned down leaves every group idle.                  *)
LEMMA RejectedStep == IInv /\ [Next]_vars => RejectedMovesNothing'
<1> SUFFICES ASSUME IInv, [Next]_vars, verdict' \notin {"checking", "OK"}
             PROVE  RejectedMovesNothing'
  BY DEF RejectedMovesNothing
<1> USE DEF IInv
<1>1. CASE UNCHANGED vars
  BY <1>1 DEF vars, RejectedMovesNothing
<1>2. Len(names) \in Nat /\ j \in Nat
  BY Sizes
<1>3. ASSUME verdict = "checking", j <= Len(names), UNCHANGED <<ready, iter>>
      PROVE  RejectedMovesNothing'
  BY <1>3 DEF Started, RejectedMovesNothing
<1>4. CASE CheckSizes
  BY <1>2, <1>3, <1>4 DEF CheckSizes, AtSizes, Reject
<1>5. CASE CheckJoint
  BY <1>2, <1>3, <1>5 DEF CheckJoint, AtJoint, Reject
<1>6. CASE ConvertPoint
  BY <1>2, <1>3, <1>6, ConvertCases
<1>7. ASSUME NEW g \in Groups, StartGroup(g) PROVE RejectedMovesNothing'
  BY <1>7 DEF StartGroup, AtGroups, GroupFails, RejectedMovesNothing
<1>8. ~Accept
  BY DEF Accept
<1>9. \A g \in Groups : ~Advance(g) /\ ~NoMorePoints(g)
  BY DEF Advance, NoMorePoints
<1> QED
  BY <1>1, <1>4, <1>5, <1>6, <1>7, <1>8, <1>9 DEF Next

(* A group stops being ready only behind its last point.                   *)
LEMMA WalkedStep == IInv /\ [Next]_vars => EveryPointWalked'
<1> SUFFICES ASSUME IInv, [Next]_vars, verdict' = "OK" PROVE EveryPointWalked'
  BY DEF EveryPointWalked
<1> USE DEF IInv
<1>1. CASE UNCHANGED vars
  BY <1>1 DEF vars, EveryPointWalked, request, NumPoints
<1>2. CASE verdict = "checking" /\ Next
  <2>1. ~ConvertPoint
    BY ConvertCases DEF ConvertOutcome
  <2>2. Accept
    BY <1>2, <2>1 DEF Next, CheckSizes, CheckJoint, Reject, StartGroup, Advance,
        NoMorePoints
  <2> QED
    BY <2>2 DEF Accept, EveryPointWalked
<1>3. NumPoints \in Nat /\ \A g \in Groups : iter[g] \in Int
  BY Sizes DEF TypeOK
<1>4. ASSUME NEW g \in Groups, g \in ready, UNCHANGED <<ready, request, verdict>>,
             iter' = [iter EXCEPT ![g] = @ + 1]
      PROVE  EveryPointWalked'
  BY <1>3, <1>4 DEF EveryPointWalked, TypeOK, request, NumPoints
<1>5. ASSUME NEW g \in Groups, Finish(g), iter[g] >= NumPoints,
             UNCHANGED <<request, verdict>>
      PROVE  EveryPointWalked'
  BY <1>3, <1>5 DEF EveryPointWalked, Finish, request, NumPoints
<1> QED
  BY <1>1, <1>2, <1>4, <1>5, WalkOrCheck
-----------------------------------------------------------------------------
(* Every state the checks and the walk go through satisfies IInv.          *)
THEOREM Inductive == Spec => []IInv
<1>1. IInv /\ [Next]_vars => IInv'
  BY TypeStep, CheckedStep, StoredStep, StartedStep, ExactStep, CompleteStep,
     RejectedStep, WalkedStep DEF IInv
<1> QED
  BY InitIInv, <1>1, PTL DEF Spec

(* The state of the checks and of the walk has its type.                   *)
THEOREM TypeCorrect == Spec => []TypeOK
<1>1. IInv => TypeOK
  BY DEF IInv
<1> QED
  BY Inductive, <1>1, PTL

(* Ros_MotionControl_Init and what it calls accept a request if and only   *)
(* if it is well formed but perhaps for points with the time of the one    *)
(* before, whatever the order of its joints.                               *)
THEOREM Exact == Spec => []VerdictExact
<1>1. IInv => VerdictExact
  BY DEF IInv
<1> QED
  BY Inductive, <1>1, PTL

(* A group made ready by an accepted request has all of it in its buffer.  *)
THEOREM Complete == Spec => []BufferComplete
<1>1. IInv => BufferComplete
  BY DEF IInv
<1> QED
  BY Inductive, <1>1, PTL

(* A request turned down leaves no group with something to execute.        *)
THEOREM NothingMoves == Spec => []RejectedMovesNothing
<1>1. IInv => RejectedMovesNothing
  BY DEF IInv
<1> QED
  BY Inductive, <1>1, PTL

(* AddToIncQueueProcess leaves a group only after its last point.          *)
THEOREM AllWalked == Spec => []EveryPointWalked
<1>1. IInv => EveryPointWalked
  BY DEF IInv
<1> QED
  BY Inductive, <1>1, PTL
=============================================================================
