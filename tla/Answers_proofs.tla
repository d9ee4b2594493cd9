--------------------------- MODULE Answers_proofs ---------------------------
(***************************************************************************)
(* The two answers of GoalOutcome and IoServices: the verdict on a goal is *)
(* exact for any joints, positions, tolerances and times, and the I/O      *)
(* services touch nothing but what they are for, whatever is asked.        *)
(*                                                                         *)
(* The tolerances of a goal are a fold over the entries of its request.    *)
(* LastCounts says what the fold comes to, by induction on the number of   *)
(* entries; the induction is over a set, as in IncMove_proofs.             *)
(***************************************************************************)
EXTENDS GoalOutcome, IoServices, FiniteSetTheorems, WellFoundedInduction, TLAPS

(* A nonempty set of natural numbers has a least one.                      *)
LEMMA LeastNat ==
  ASSUME NEW T, T \subseteq Nat, T # {}
  PROVE  \E x \in T : \A y \in T : x <= y
<1> DEFINE R == {ss \in Nat \X Nat : ss[1] < ss[2]}
<1>1. OpToRel(<, Nat) = R
  BY Zenon DEF OpToRel
<1>4. IsWellFoundedOn(R, Nat)
  BY <1>1, NatLessThanWellFounded, Zenon
<1>2. PICK x \in T : \A y \in T : ~ (<<y, x>> \in R)
  <2> HIDE DEF R
  <2> QED
    BY <1>4, WFMin, Zenon
<1>3. ASSUME NEW y \in T PROVE x <= y
  <2>1. <<y, x>> \in Nat \X Nat /\ <<y, x>> \notin R
    BY <1>2
  <2>2. ~(y < x)
    BY <2>1
  <2> QED
    BY <2>2
<1> QED
  BY <1>3

(* Induction, over a set.                                                  *)
LEMMA NatInd ==
  ASSUME NEW T, 0 \in T, \A n \in Nat : n \in T => n + 1 \in T
  PROVE  Nat \subseteq T
<1> SUFFICES ASSUME Nat \ T # {} PROVE FALSE
  OBVIOUS
<1>1. PICK x \in Nat \ T : \A y \in Nat \ T : x <= y
  BY LeastNat
<1>2. x # 0 /\ x - 1 \in Nat /\ x - 1 \in T
  BY <1>1
<1> QED
  BY <1>1, <1>2

(* Max picks the greatest of a nonempty set of numbers up to n.            *)
LEMMA MaxOfNumbers ==
  ASSUME NEW n \in Nat, NEW S, S \subseteq 1 .. n, S # {}
  PROVE  Max(S) \in S /\ \A y \in S : y <= Max(S)
<1> DEFINE T == {n - y : y \in S}
<1>1. T \subseteq Nat /\ T # {}
  <2>1. \A y \in S : y \in 1 .. n
    OBVIOUS
  <2>2. \A y \in S : n - y \in Nat
    BY <2>1
  <2> QED
    BY <2>2
<1>2. PICK x \in T : \A y \in T : x <= y
  BY <1>1, LeastNat
<1>3. PICK z \in S : x = n - z
  BY <1>2
<1>4. \A y \in S : z >= y
  <2> SUFFICES ASSUME NEW y \in S PROVE z >= y
    OBVIOUS
  <2>1. x <= n - y
    BY <1>2
  <2> QED
    BY <2>1, <1>3
<1>5. Max(S) \in S /\ \A y \in S : Max(S) >= y
  BY <1>4 DEF Max
<1> QED
  BY <1>5

-----------------------------------------------------------------------------
(* FoldLeft's recursion, in its function h over the subsets of 1 .. m.     *)
Defaults == [n \in Joints |-> DefaultPosition]

Folded(h, q, m) ==
  h = [s \in SUBSET (1 .. m) |->
         IF s = {} THEN Defaults
         ELSE Setting(h[s \ {Max(s)}], q[Max(s)])]

(* Such a function exists, whatever the entries: by induction on m.        *)
LEMMA FoldExists ==
  ASSUME NEW q, NEW n \in Nat
  PROVE  \E h : Folded(h, q, n)
<1> DEFINE T == {m \in Nat : \E h : Folded(h, q, m)}
<1>1. 0 \in T
  <2>1. Folded([s \in SUBSET (1 .. 0) |-> Defaults], q, 0)
    BY DEF Folded
  <2> QED
    BY <2>1
<1>2. ASSUME NEW m \in Nat, m \in T PROVE m + 1 \in T
  <2>1. PICK h : Folded(h, q, m)
    BY <1>2
  <2> DEFINE i == [s \in SUBSET (1 .. m + 1) |->
                     IF m + 1 \in s THEN Setting(h[s \ {m + 1}], q[m + 1])
                                    ELSE h[s]]
  <2>2. ASSUME NEW s \in SUBSET (1 .. m + 1)
        PROVE  i[s] = IF s = {} THEN Defaults
                      ELSE Setting(i[s \ {Max(s)}], q[Max(s)])
    <3>1. CASE m + 1 \in s
      <4>1. Max(s) = m + 1
        <5>1. m + 1 \in Nat /\ s \subseteq 1 .. m + 1 /\ s # {}
          BY <3>1
        <5>2. Max(s) \in s /\ \A y \in s : y <= Max(s)
          BY <5>1, MaxOfNumbers
        <5>3. Max(s) \in 1 .. m + 1
          BY <5>1, <5>2
        <5>4. m + 1 <= Max(s)
          BY <3>1, <5>2
        <5> QED
          BY <5>3, <5>4
      <4>2. s \ {m + 1} \in SUBSET (1 .. m + 1) /\ m + 1 \notin s \ {m + 1}
        OBVIOUS
      <4>3. i[s \ {m + 1}] = h[s \ {m + 1}]
        BY <4>2
      <4> QED
        BY <3>1, <4>1, <4>3
    <3>2. CASE m + 1 \notin s
      <4>1. s \in SUBSET (1 .. m)
        BY <3>2
      <4>2. i[s] = h[s]
        BY <3>2
      <4>3. h[s] = IF s = {} THEN Defaults
                   ELSE Setting(h[s \ {Max(s)}], q[Max(s)])
        BY <2>1, <4>1 DEF Folded
      <4>4. s \ {Max(s)} \in SUBSET (1 .. m + 1) /\ m + 1 \notin s \ {Max(s)}
        BY <3>2
      <4>5. i[s \ {Max(s)}] = h[s \ {Max(s)}]
        BY <4>4
      <4> HIDE DEF i
      <4> QED
        BY <4>2, <4>3, <4>5
    <3> QED
      BY <3>1, <3>2
  <2>3. Folded(i, q, m + 1)
    BY <2>2 DEF Folded
  <2> QED
    BY <2>3
<1>3. Nat \subseteq T
  <2> HIDE DEF T
  <2> QED
    BY <1>1, <1>2, NatInd
<1> QED
  BY <1>3

(* What the entries 1 .. m of a request ask for, the last one for a joint  *)
(* before all others.                                                      *)
Entries(q, m, n) == {k \in 1 .. m : q[k].name = n}

Counts(tol, q, m) ==
  /\ tol \in [Joints -> Int]
  /\ \A n \in Joints :
       tol[n] = IF Entries(q, m, n) = {} THEN DefaultPosition
                ELSE q[Max(Entries(q, m, n))].position

Requests == [name : Joints \cup {Unknown}, position : PosTolerances]

(* One entry more: it counts for the joint it names, if it names one.      *)
LEMMA EntryCounts ==
  ASSUME NEW tol, NEW q, NEW m \in Nat, Counts(tol, q, m),
         q[m + 1] \in Requests
  PROVE  Counts(Setting(tol, q[m + 1]), q, m + 1)
<1> DEFINE t == q[m + 1]
           to == Setting(tol, t)
<1>1. t.position \in Int
  BY ValueAssumption DEF Requests
<1>2. to \in [Joints -> Int]
  BY <1>1 DEF Setting, Counts
<1>3. ASSUME NEW n \in Joints
      PROVE  to[n] = IF Entries(q, m + 1, n) = {} THEN DefaultPosition
                     ELSE q[Max(Entries(q, m + 1, n))].position
  <2> DEFINE E == Entries(q, m + 1, n)
  <2>1. CASE t.name = n
    <3>1. m + 1 \in E /\ E \subseteq 1 .. m + 1 /\ m + 1 \in Nat
      BY <2>1 DEF Entries
    <3>2. Max(E) \in E /\ \A y \in E : y <= Max(E)
      <4> HIDE DEF E
      <4> QED
        BY <3>1, MaxOfNumbers
    <3>3. Max(E) = m + 1
      <4> HIDE DEF E
      <4>1. Max(E) \in 1 .. m + 1 /\ m + 1 <= Max(E)
        BY <3>1, <3>2
      <4> QED
        BY <4>1
    <3>4. to[n] = t.position
      BY <2>1 DEF Setting, Counts
    <3> QED
      BY <3>1, <3>3, <3>4
  <2>2. CASE t.name # n
    <3>1. E = Entries(q, m, n)
      BY <2>2 DEF Entries
    <3>2. to[n] = tol[n]
      BY <2>2 DEF Setting, Counts
    <3> QED
      BY <3>1, <3>2 DEF Counts
  <2> QED
    BY <2>1, <2>2
<1> QED
  BY <1>2, <1>3 DEF Counts

(* So it is for all entries of the request: by induction.                  *)
LEMMA FoldCounts ==
  ASSUME NEW h, NEW q, NEW n \in Nat, Folded(h, q, n),
         \A k \in 1 .. n : q[k] \in Requests
  PROVE  Counts(h[1 .. n], q, n)
<1> DEFINE T == {m \in Nat : m <= n => Counts(h[1 .. m], q, m)}
<1>1. 0 \in T
  <2>1. 1 .. 0 = {} /\ {} \in SUBSET (1 .. n)
    OBVIOUS
  <2>2. h[1 .. 0] = Defaults
    BY <2>1 DEF Folded
  <2>3. \A m \in Joints : Entries(q, 0, m) = {}
    BY DEF Entries
  <2> QED
    BY <2>2, <2>3, ValueAssumption DEF Counts, Defaults
<1>2. ASSUME NEW m \in Nat, m \in T PROVE m + 1 \in T
  <2> SUFFICES ASSUME m + 1 <= n PROVE Counts(h[1 .. m + 1], q, m + 1)
    OBVIOUS
  <2> DEFINE s == 1 .. m + 1
  <2>1. s \in SUBSET (1 .. n) /\ s # {} /\ s \subseteq 1 .. m + 1
        /\ m + 1 \in s /\ m + 1 \in Nat /\ m + 1 \in 1 .. n
    OBVIOUS
  <2>2. Max(s) = m + 1
    <3>1. Max(s) \in s /\ \A y \in s : y <= Max(s)
      <4> HIDE DEF s
      <4> QED
        BY <2>1, MaxOfNumbers
    <3>2. Max(s) \in 1 .. m + 1 /\ m + 1 <= Max(s)
      BY <2>1, <3>1
    <3> QED
      BY <3>2
  <2>3. s \ {m + 1} = 1 .. m
    OBVIOUS
  <2>4. h[s] = Setting(h[1 .. m], q[m + 1])
    <3> HIDE DEF s
    <3> QED
      BY <2>1, <2>2, <2>3, Zenon DEF Folded
  <2>5. Counts(h[1 .. m], q, m)
    BY <1>2
  <2>6. q[m + 1] \in Requests
    BY <2>1
  <2> HIDE DEF s, T
  <2>7. Counts(h[s], q, m + 1)
    BY <2>4, <2>5, <2>6, EntryCounts
  <2> QED
    BY <2>7 DEF s
<1>3. n \in T
  <2> HIDE DEF T
  <2> QED
    BY <1>1, <1>2, NatInd
<1> QED
  BY <1>3

(* What a request looks like; no step changes it.                          *)
GoalOK ==
  /\ \E m \in Nat : goal_tolerance \in [1 .. m -> Requests]
  /\ goal_time_tolerance \in Int
  /\ names \in JointOrders
  /\ lastPoint \in [1 .. Cardinality(Joints) -> Int]
  /\ desiredTime \in Int /\ totalTime \in Int
  /\ actual \in [Joints -> Int]

(* Parse_GoalPosTolerances ends with the last tolerance for each joint.    *)
LEMMA LastCounts ==
  ASSUME GoalOK, NEW n \in Joints
  PROVE  /\ Asked(n) \in Int /\ PosTolerance[n] \in Int
         /\ \/ PosTolerance[n] = Asked(n)
            \/ PosTolerance[n] = DefaultPosition /\ Asked(n) = 0
<1> DEFINE q == goal_tolerance
<1>1. PICK m \in Nat : q \in [1 .. m -> Requests]
  BY DEF GoalOK
<1>2. DOMAIN q = 1 .. m /\ \A k \in 1 .. m : q[k] \in Requests
  BY <1>1
<1> HIDE DEF q
<1> DEFINE h == CHOOSE h : Folded(h, q, m)
<1>3. Folded(h, q, m)
  <2>1. \E i : Folded(i, q, m)
    BY FoldExists
  <2> QED
    BY <2>1, Zenon
<1>4. PosTolerance = h[DOMAIN q]
  <2>1. PosTolerance =
          (CHOOSE i : i = [s \in SUBSET (DOMAIN q) |->
             IF s = {} THEN Defaults
             ELSE Setting(i[s \ {Max(s)}], q[Max(s)])])[DOMAIN q]
    BY Zenon DEF PosTolerance, FoldLeft, MapThenFoldSet, Defaults, q
  <2> QED
    BY <1>2, <2>1, Zenon DEF Folded
<1> HIDE DEF h
<1>5. Counts(h[1 .. m], q, m)
  BY <1>2, <1>3, FoldCounts
<1>6. Counts(PosTolerance, q, m)
  BY <1>2, <1>4, <1>5
<1> DEFINE E == Entries(q, m, n)
<1>7. Asked(n) = IF E = {} THEN 0 ELSE q[Max(E)].position
  BY <1>2 DEF Asked, Entries, q
<1>8. E # {} => q[Max(E)].position \in Int
  <2> SUFFICES ASSUME E # {} PROVE q[Max(E)].position \in Int
    OBVIOUS
  <2>1. E \subseteq 1 .. m
    BY DEF Entries
  <2>2. Max(E) \in E
    <3> HIDE DEF E
    <3> QED
      BY <2>1, MaxOfNumbers
  <2>3. q[Max(E)] \in Requests
    BY <1>2, <2>1, <2>2
  <2> QED
    BY <2>3, ValueAssumption DEF Requests
<1>9. PosTolerance[n] = IF E = {} THEN DefaultPosition
                        ELSE q[Max(E)].position
  BY <1>6 DEF Counts
<1> HIDE DEF E
<1> QED
  BY <1>7, <1>8, <1>9, ValueAssumption

(* Every joint is named once: there are as many names as joints.           *)
LEMMA EveryJointNamed ==
  ASSUME names \in JointOrders, NEW n \in Joints
  PROVE  \E k \in DOMAIN names :
           names[k] = n /\ \A l \in DOMAIN names : names[l] = n => l = k
<1> DEFINE c == Cardinality(Joints)
<1>1. IsFiniteSet(Joints) /\ c \in Nat
  BY ValueAssumption, FS_CardinalityType
<1>2. IsFiniteSet(1 .. c) /\ Cardinality(1 .. c) = c
  BY <1>1, FS_Interval
<1>3. names \in Injection(1 .. c, Joints)
  BY DEF JointOrders, Injection, IsInjective
<1>4. names \in Surjection(1 .. c, Joints)
  BY <1>1, <1>2, <1>3, FS_Injection
<1>5. PICK k \in 1 .. c : names[k] = n
  BY <1>4 DEF Surjection
<1>6. DOMAIN names = 1 .. c
  BY DEF JointOrders
<1> QED
  BY <1>5, <1>6 DEF JointOrders

(* The test of a joint, on the reordered point with the parsed tolerances, *)
(* is the one the request asks for.                                        *)
LEMMA PositionExact ==
  ASSUME GoalOK, NEW n \in Joints
  PROVE  PositionOk(n) <=> Reached(n)
<1>1. PICK k \in DOMAIN names :
        names[k] = n /\ \A l \in DOMAIN names : names[l] = n => l = k
  BY EveryJointNamed DEF GoalOK
<1>2. LastTrajPtPosition(n) = lastPoint[k]
  BY <1>1 DEF LastTrajPtPosition
<1> DEFINE off == Abs(lastPoint[k] - actual[n])
<1>3. off \in Int
  <2>1. DOMAIN names = 1 .. Cardinality(Joints)
    BY DEF GoalOK, JointOrders
  <2>2. lastPoint[k] \in Int /\ actual[n] \in Int
    BY <2>1 DEF GoalOK
  <2> QED
    BY <2>2 DEF Abs
<1>4. Reached(n) <=> \/ Asked(n) < 0
                     \/ off <= IF Asked(n) = 0 THEN DefaultPosition
                               ELSE Asked(n)
  BY <1>1 DEF Reached
<1>5. PositionOk(n) <=>
        LET tol == IF PosTolerance[n] = 0 THEN DefaultPosition
                   ELSE PosTolerance[n]
        IN  tol > 0 => off <= tol
  BY <1>2 DEF PositionOk
<1> HIDE DEF off
<1> QED
  BY <1>3, <1>4, <1>5, LastCounts, ToleranceAssumption, ValueAssumption

(* Cutting the difference to an int, twice, does no harm within its range. *)
LEMMA TimeExact ==
  ASSUME GoalOK, Abs(desiredTime - totalTime) < IntHalf
  PROVE  TimeOk <=> InTime
<1> DEFINE d == desiredTime - totalTime
<1>1. d \in Int /\ IntHalf \in Int
  BY WidthAssumption DEF GoalOK, IntHalf
<1>2. -IntHalf < d /\ d < IntHalf /\ Abs(d) \in 0 .. IntHalf - 1
  <2> HIDE DEF d
  <2>1. Abs(d) < IntHalf
    BY DEF d
  <2> QED
    BY <1>1, <2>1 DEF Abs
<1>3. \A x \in Int : -IntHalf < x /\ x < IntHalf => AsInt(x) = x
  <2> TAKE x \in Int
  <2> SUFFICES ASSUME -IntHalf < x, x < IntHalf PROVE AsInt(x) = x
    OBVIOUS
  <2>1. x + IntHalf \in 0 .. 2 * IntHalf - 1 /\ 2 * IntHalf > 0
    BY <1>1
  <2>2. \A b \in Nat \ {0} : \A y \in 0 .. b - 1 : y % b = y
    OBVIOUS
  <2>3. (x + IntHalf) % (2 * IntHalf) = x + IntHalf
    BY <1>1, <2>1, <2>2
  <2> QED
    BY <1>1, <2>3 DEF AsInt
<1>4. AbsInt(d) = Abs(d)
  <2> HIDE DEF d
  <2>1. AsInt(d) = d
    BY <1>1, <1>2, <1>3
  <2>2. AsInt(Abs(d)) = Abs(d)
    BY <1>1, <1>2, <1>3
  <2> QED
    BY <2>1, <2>2 DEF AbsInt
<1> QED
  BY <1>4 DEF TimeOk, InTime

OutcomeInv == GoalOK /\ VerdictExact

(* The verdict on a goal is the one its request and the motion deserve: it *)
(* has succeeded just when every joint reached its target, within the last *)
(* tolerance given for it, and in time, if the durations are so close that *)
(* their difference fits an int (Ros_ActionServer_FJT_Goal_Complete).      *)
THEOREM Exact == Spec => []VerdictExact
<1>1. Init => OutcomeInv
  <2> SUFFICES ASSUME Init PROVE OutcomeInv
    OBVIOUS
  <2>1. \E m \in Nat : goal_tolerance \in [1 .. m -> Requests]
    BY ValueAssumption DEF Init, SeqOf, Requests
  <2>2. lastPoint \in [1 .. Cardinality(Joints) -> Int]
        /\ actual \in [Joints -> Int]
    BY ValueAssumption DEF Init
  <2>3. desiredTime \in Int /\ totalTime \in Int
        /\ goal_time_tolerance \in Int
    BY ValueAssumption DEF Init
  <2> QED
    BY <2>1, <2>2, <2>3 DEF Init, OutcomeInv, GoalOK, VerdictExact
<1>2. OutcomeInv /\ [Next]_vars => OutcomeInv'
  <2> SUFFICES ASSUME OutcomeInv, [Next]_vars PROVE OutcomeInv'
    OBVIOUS
  <2>1. UNCHANGED <<goal, actual, totalTime>>
    BY DEF Next, GoalComplete, vars
  <2>2. GoalOK'
    BY <2>1 DEF OutcomeInv, GoalOK, goal
  <2>3. CASE UNCHANGED vars
    BY <2>2, <2>3
    DEF vars, goal, OutcomeInv, VerdictExact, Reached, InTime, Asked
  <2>4. CASE GoalComplete
    <3>1. (\E n \in Joints : ~PositionOk(n)) <=>
            \E n \in Joints : ~Reached(n)
      BY PositionExact DEF OutcomeInv
    <3>2. Abs(desiredTime - totalTime) < IntHalf => (TimeOk <=> InTime)
      BY TimeExact DEF OutcomeInv
    <3>3. Abs(desiredTime - totalTime) < IntHalf =>
            outcome' = IF \E n \in Joints : ~Reached(n)
                         THEN "FAIL_TRAJ_POSITION"
                       ELSE IF InTime THEN "SUCCEEDED" ELSE "FAIL_TRAJ_TIME"
      BY <2>4, <3>1, <3>2, Zenon DEF GoalComplete
    <3>4. VerdictExact'
      BY <2>1, <3>3 DEF goal, VerdictExact, Reached, InTime, Asked
    <3> QED
      BY <2>2, <3>4 DEF OutcomeInv
  <2> QED
    BY <2>3, <2>4 DEF Next
<1>3. OutcomeInv => VerdictExact
  BY DEF OutcomeInv
<1> QED
  BY <1>1, <1>2, <1>3, PTL DEF Spec
-----------------------------------------------------------------------------
(* What a request touches is what its address, if valid, stands for.       *)
IoInv ==
  \/ touched = <<>>
  \/ LET ranges == IF request.op = "write" THEN Writable ELSE Readable IN
     /\ request.size \in {"bit", "group", "register"}
     /\ request.address \in Nat
     /\ IsValidAddress(ranges, request.size,
                       Address(request.size, request.address))
     /\ touched = Targets(request.size, request.address)

(* Every step keeps that: a request is judged before anything is touched.  *)
LEMMA IoInvariance == IoSpec => []IoInv
<1>1. IoInit => IoInv
  BY DEF IoInit, IoInv
<1>2. IoInv /\ [IoNext]_ioVars => IoInv'
  <2> SUFFICES ASSUME IoInv, [IoNext]_ioVars PROVE IoInv'
    OBVIOUS
  <2>1. ASSUME NEW size \in {"bit", "group", "register"}, NEW a \in Nat,
               Read(size, a)
        PROVE  IoInv'
    <3>1. request' = [op |-> "read", size |-> size, address |-> a, value |-> 0]
      BY <2>1 DEF Read
    <3>2. \/ touched' = <<>>
          \/ IsValidAddress(Readable, size, Address(size, a))
             /\ touched' = Targets(size, a)
      BY <2>1, Zenon DEF Read
    <3> QED
      BY <3>1, <3>2 DEF IoInv
  <2>2. ASSUME NEW size \in {"bit", "group", "register"}, NEW a \in Nat, NEW v,
               Write(size, a, v)
        PROVE  IoInv'
    <3>1. request' = [op |-> "write", size |-> size, address |-> a,
                      value |-> v]
      BY <2>2 DEF Write
    <3>2. \/ touched' = <<>>
          \/ IsValidAddress(Writable, size, Address(size, a))
             /\ touched' = Targets(size, a)
      BY <2>2, Zenon DEF Write
    <3> QED
      BY <3>1, <3>2 DEF IoInv
  <2>3. BitAddresses \subseteq Nat /\ GroupAddresses \subseteq Nat
        /\ RegisterAddresses \subseteq Nat
    BY AddressAssumption, SMT
  <2>4. CASE ReadSingleIO \/ ReadGroupIO \/ ReadMRegister
    BY <2>1, <2>3, <2>4 DEF ReadSingleIO, ReadGroupIO, ReadMRegister
  <2>5. CASE WriteSingleIO \/ WriteGroupIO \/ WriteMRegister
    BY <2>2, <2>3, <2>5 DEF WriteSingleIO, WriteGroupIO, WriteMRegister
  <2>6. CASE UNCHANGED ioVars
    BY <2>6 DEF IoInv, ioVars
  <2> QED
    BY <2>4, <2>5, <2>6 DEF IoNext
<1> QED
  BY <1>1, <1>2, PTL DEF IoSpec

(* Below the registers every range ends with a bit 7.                      *)
LEMMA RangesEnd ==
  ASSUME NEW r \in Readable \cup Writable
  PROVE  /\ r[1] \in Nat /\ r[2] \in Nat /\ r[2] <= 1000999
         /\ r[1] < 1000000 => r[2] < 1000000 /\ r[2] % 10 = 7
         /\ r[1] >= 1000000 => r[1] = 1000000
  BY SMT DEF Readable, Writable

(* A number that fits a UINT32 is kept.                                    *)
LEMMA SmallKept ==
  ASSUME NEW x \in Nat, x < 2 ^ AddressWidth
  PROVE  AsUint(x) = x /\ AsUint(x + 1 - 1) = x
<1> DEFINE u == 2 ^ AddressWidth
<1>1. u \in Nat \ {0} /\ x \in 0 .. u - 1
  BY AddressAssumption, SMT
<1>2. \A b \in Nat \ {0} : \A y \in 0 .. b - 1 : y % b = y
  OBVIOUS
<1>3. x % u = x
  <2> HIDE DEF u
  <2> QED
    BY <1>1, <1>2
<1>4. x + 1 - 1 = x
  OBVIOUS
<1> QED
  BY <1>3, <1>4 DEF AsUint

(* The eight bits of a group lie below the registers and fit as well.      *)
LEMMA GroupBits ==
  ASSUME NEW a \in Nat, a * 10 < 1000000, NEW i \in 1 .. 8
  PROVE  AsUint(a * 10 + i - 1) = a * 10 + i - 1
<1>1. a * 10 + i - 1 \in Nat /\ a * 10 + i - 1 < 2 ^ AddressWidth
  BY AddressAssumption, SMT
<1> QED
  BY <1>1, SmallKept, SMT

(* The eight bits of a byte.                                               *)
LEMMA ByteOf ==
  ASSUME NEW a \in Nat, NEW i \in 1 .. 8
  PROVE  (a * 10 + i - 1) % 10 = i - 1 /\ (a * 10 + i - 1) \div 10 = a
  BY SMT

(* A byte that begins within a range that ends with a bit 7 ends there.    *)
LEMMA ByteFits ==
  ASSUME NEW a \in Nat, NEW last \in Nat, last % 10 = 7, a * 10 <= last
  PROVE  a * 10 + 7 <= last
  BY SMT

(* Whatever address a client sends, what is touched lies within one range  *)
(* the service is for, and a group is the eight bits of one byte; but for  *)
(* the requests Astray names (IsValidReadAddress, IsValidWriteAddress).    *)
THEOREM Confined == IoSpec => []AccessConfined
<1>1. IoInv => AccessConfined
  <2> DEFINE ranges == IF request.op = "write" THEN Writable ELSE Readable
             size == request.size
             a == request.address
  <2> SUFFICES ASSUME IoInv, ~Astray, NEW r \in ranges,
                      touched # <<>>, InRange({r}, touched[1]),
                      NEW i \in DOMAIN touched
               PROVE  /\ InRange({r}, touched[i])
                      /\ size # "register" => touched[i] % 10 <= 7
                      /\ size = "group" =>
                           /\ touched[i] % 10 = i - 1
                           /\ touched[i] \div 10 = touched[1] \div 10
    BY DEF AccessConfined
  <2>1. /\ size \in {"bit", "group", "register"} /\ a \in Nat
        /\ IsValidAddress(ranges, size, Address(size, a))
        /\ touched = Targets(size, a)
    BY DEF IoInv
  <2>2. CASE size # "group"
    <3>1. touched = <<Address(size, a)>> /\ i = 1
      BY <2>1, <2>2 DEF Targets
    <3>2. size # "register" => touched[1] % 10 <= 7
      BY <2>1, <2>2, <3>1 DEF IsValidAddress
    <3> QED
      BY <2>2, <3>1, <3>2
  <2>3. CASE size = "group"
    <3>1. touched = [k \in 1 .. 8 |-> AsUint(AsUint(a * 10) + k - 1)]
          /\ i \in 1 .. 8
      BY <2>1, <2>3 DEF Targets
    <3>2. ~(a * 10 >= 2 ^ AddressWidth) /\ ~(touched[1] >= 1000000)
      BY <2>3, SMT DEF Astray
    <3>3. a * 10 < 2 ^ AddressWidth /\ a * 10 \in Nat
      BY <2>1, <3>2, AddressAssumption, SMT
    <3>4. AsUint(a * 10) = a * 10
      BY <3>3, SmallKept, SMT
    <3>5. touched[1] = a * 10
      BY <3>1, <3>3, <3>4, SmallKept, SMT
    <3>6. a * 10 < 1000000
      BY <3>2, <3>3, <3>5, SMT
    <3>7. touched[i] = a * 10 + i - 1
      <4>1. a \in Nat /\ i \in 1 .. 8
        BY <2>1, <3>1, SMT
      <4>2. touched[i] = AsUint(AsUint(a * 10) + i - 1)
        BY <3>1, SMT
      <4> HIDE DEF a
      <4>3. touched[i] = AsUint(a * 10 + i - 1)
        BY <4>2, <3>4, SMT
      <4>4. AsUint(a * 10 + i - 1) = a * 10 + i - 1
        BY <4>1, <3>6, GroupBits, SMT
      <4> QED
        BY <4>3, <4>4, SMT
    <3>8. r[1] <= a * 10 /\ a * 10 <= r[2]
      BY <3>5, SMT DEF InRange
    <3>9. r[1] \in Nat /\ r[2] \in Nat /\ r[2] % 10 = 7
      BY <3>6, <3>8, RangesEnd, <2>1, SMT
    <3>10. a * 10 + 7 <= r[2]
      <4>1. r[2] \in Nat /\ a \in Nat
        BY <2>1, <3>9, SMT
      <4> HIDE DEF a
      <4> QED
        BY <4>1, <3>8, <3>9, ByteFits, SMT
    <3>11. r[1] <= touched[i] /\ touched[i] <= r[2]
      <4>1. r[1] \in Nat /\ r[2] \in Nat /\ a \in Nat /\ i \in 1 .. 8
        BY <2>1, <3>1, <3>9, SMT
      <4> HIDE DEF a
      <4> QED
        BY <4>1, <3>7, <3>8, <3>10, SMT
    <3>12. /\ touched[i] % 10 = i - 1 /\ touched[i] \div 10 = a
           /\ touched[1] \div 10 = a
      <4>1. a \in Nat /\ i \in 1 .. 8
        BY <2>1, <3>1, SMT
      <4> HIDE DEF a
      <4>2. (a * 10 + i - 1) % 10 = i - 1 /\ (a * 10 + i - 1) \div 10 = a
        <5>1. \A y \in Nat : \A k \in 1 .. 8 :
                (y * 10 + k - 1) % 10 = k - 1 /\ (y * 10 + k - 1) \div 10 = y
          BY ByteOf, Zenon
        <5> QED
          BY <4>1, <5>1, Zenon
      <4>3. (a * 10) \div 10 = a
        BY <4>1, SMT
      <4> QED
        BY <4>2, <4>3, <3>5, <3>7, SMT
    <3>13. InRange({r}, touched[i])
      BY <3>11 DEF InRange
    <3>14. i - 1 <= 7
      BY <3>1
    <3> HIDE DEF size, a
    <3> QED
      BY <3>12, <3>13, <3>14
  <2> QED
    BY <2>2, <2>3
<1> QED
  BY <1>1, IoInvariance, PTL
=============================================================================
