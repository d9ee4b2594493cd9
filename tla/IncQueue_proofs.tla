--------------------------- MODULE IncQueue_proofs -------------------------
(***************************************************************************)
(* For every queue size, set of increments and number of clearing tasks:   *)
(* the increment queue is well typed, its lock excludes, the room the      *)
(* producer saw stays, and the ring implements the bounded FIFO IncFifo.   *)
(***************************************************************************)
EXTENDS IncQueue, SequenceTheorems, TLAPS

(* A cycle holds increments only while it pops and until it sends them.    *)
MoveInHand ==
  /\ pc[IncTask] = "more" => pos # <<>>
  /\ pc[IncTask] \notin {"more", "send"} => pos = <<>>

(* Between the store and the counting of an increment it is in its slot.   *)
StoredInPlace ==
  pc[AddTask] = "add_cnt" => data[Q_OFFSET_IDX(idx, cnt)] = item

(* The inductive invariant. *)
IInv == TypeOK /\ OneTaskInQueue /\ RoomStays /\ MoveInHand /\ StoredInPlace
-----------------------------------------------------------------------------
(* The ring index macro stays inside the ring.                             *)
LEMMA OffsetInRing ==
  ASSUME NEW a \in Slots, NEW b \in 0 .. Q_SIZE
  PROVE  Q_OFFSET_IDX(a, b) \in Slots
BY QSizeAssumption DEF Slots, Q_OFFSET_IDX

LEMMA ZeroTyped == ZeroIncrement \in Increments
<1>1. PICK t \in Times : TRUE
  BY DataAssumption
<1>2. PICK f \in Formats : TRUE
  BY DataAssumption
<1>3. [time |-> t, fmt |-> f] \in Increments
  BY <1>1, <1>2 DEF Increments
<1> QED
  BY <1>3 DEF ZeroIncrement

(* Taking the semaphore into, or giving it back out of, a critical section *)
(* keeps the exclusion; so does a step that stays on its side.             *)
LEMMA TakeExcludes ==
  ASSUME TypeOK, OneTaskInQueue, NEW t \in Tasks, NEW from, NEW to,
         TakeLock(t, from, to), to \in CriticalSection
  PROVE  OneTaskInQueue'
BY DEF TypeOK, OneTaskInQueue, TakeLock, Goto

LEMMA GiveExcludes ==
  ASSUME TypeOK, OneTaskInQueue, NEW t \in Tasks, NEW to,
         GiveLock(t, to), pc[t] \in CriticalSection, to \notin CriticalSection
  PROVE  OneTaskInQueue'
BY DEF TypeOK, OneTaskInQueue, GiveLock, Goto

LEMMA StayExcludes ==
  ASSUME TypeOK, OneTaskInQueue, NEW t \in Tasks, NEW to,
         Goto(t, to), UNCHANGED q_lock,
         pc[t] \in CriticalSection <=> to \in CriticalSection
  PROVE  OneTaskInQueue'
BY DEF TypeOK, OneTaskInQueue, Goto
-----------------------------------------------------------------------------
(* Type correctness is kept by every step.                                 *)
LEMMA TypeStep == IInv /\ [Next]_vars => TypeOK'
<1> SUFFICES ASSUME IInv, [Next]_vars PROVE TypeOK'
  OBVIOUS
<1> USE QSizeAssumption, TaskAssumption
<1>tasks. /\ AddTask \in Tasks /\ IncTask \in Tasks
          /\ \A t \in Clearers : t \in Tasks
  BY DEF Tasks
<1>goto. ASSUME NEW t \in Tasks,
                NEW l \in {"idle", "check", "sleep", "add", "clk", "has", "stop?",
                          "pop", "send", "clr"} \cup CriticalSection,
                Goto(t, l)
         PROVE  pc' \in [Tasks -> {"idle", "check", "sleep", "add", "clk", "has",
                                  "stop?", "pop", "send", "clr"}
                                  \cup CriticalSection]
  BY <1>goto DEF IInv, TypeOK, Goto
<1>1. CASE AddCall
  BY <1>1, <1>tasks, <1>goto DEF IInv, TypeOK, AddCall, ring
<1>2. CASE AddRoom
  BY <1>2, <1>tasks, <1>goto DEF IInv, TypeOK, AddRoom, ring
<1>3. CASE AddFull \/ AddGiveUp \/ AddRetry
  BY <1>3, <1>tasks, <1>goto DEF IInv, TypeOK, AddFull, AddGiveUp, AddRetry, ring
<1>4. CASE AddLock
  BY <1>4, <1>tasks, <1>goto
  DEF IInv, TypeOK, AddLock, TakeLock, LockTimeout, CriticalSection, ring
<1>5. CASE AddData
  <2>1. Q_OFFSET_IDX(idx, cnt) \in Slots
    BY OffsetInRing DEF IInv, TypeOK
  <2> QED
    BY <1>5, <2>1, <1>tasks, <1>goto
    DEF IInv, TypeOK, AddData, CriticalSection
<1>6. CASE AddCnt
  <2>1. cnt < Q_SIZE
    BY <1>6 DEF IInv, RoomStays, AddCnt
  <2> QED
    BY <1>6, <2>1, <1>tasks, <1>goto
    DEF IInv, TypeOK, AddCnt, GiveLock, CriticalSection
<1>7. CASE IncTick
  BY <1>7, <1>tasks, <1>goto DEF IInv, TypeOK, IncTick, ring
<1>8. CASE HasDataLock
  BY <1>8, <1>tasks, <1>goto
  DEF IInv, TypeOK, HasDataLock, TakeLock, LockTimeout, CriticalSection, ring
<1>9. CASE HasDataCnt
  BY <1>9, <1>tasks, <1>goto DEF IInv, TypeOK, HasDataCnt, GiveLock, ring
<1>10. CASE IncStopTest
  BY <1>10, <1>tasks, <1>goto DEF IInv, TypeOK, IncStopTest, ring
<1>11. CASE IncLock
  BY <1>11, <1>tasks, <1>goto
  DEF IInv, TypeOK, IncLock, TakeLock, LockTimeout, CriticalSection, ring
<1>pop. ASSUME cnt > 0, PopOldest
        PROVE  /\ idx' \in Slots /\ cnt' \in 0 .. Q_SIZE
               /\ pos' \in Seq(Increments)
               /\ data' \in [Slots -> Increments]
  <2>1. Q_OFFSET_IDX(idx, 1) \in Slots
    BY OffsetInRing DEF IInv, TypeOK
  <2>2. data[idx] \in Increments
    BY DEF IInv, TypeOK
  <2> QED
    BY <1>pop, <2>1, <2>2 DEF IInv, TypeOK, PopOldest
<1>12. CASE IncFirst
  BY <1>12, <1>pop, <1>tasks, <1>goto DEF IInv, TypeOK, IncFirst, CriticalSection
<1>13. CASE IncNone
  BY <1>13, <1>tasks, <1>goto DEF IInv, TypeOK, IncNone, GiveLock, ring
<1>14. CASE IncCombine
  BY <1>14, <1>pop DEF IInv, TypeOK, IncCombine, SamePeriod
<1>15. CASE IncDone
  <2>1. pos # <<>> /\ pos \in Seq(Increments)
    BY <1>15 DEF IInv, MoveInHand, TypeOK, IncDone
  <2>2. Len(pos) \in DOMAIN pos
    BY <2>1
  <2>3. pos[Len(pos)] \in Increments
    BY <2>1, <2>2
  <2>4. pos[Len(pos)].time \in Nat
    BY <2>3, DataAssumption DEF Increments
  <2> QED
    BY <1>15, <2>4, <1>tasks, <1>goto DEF IInv, TypeOK, IncDone, GiveLock, ring
<1>16. CASE IncSend
  BY <1>16, <1>tasks, <1>goto DEF IInv, TypeOK, IncSend, ring
<1>17. ASSUME NEW t \in Clearers, ClearCall(t) PROVE TypeOK'
  BY <1>17, <1>tasks, <1>goto DEF IInv, TypeOK, ClearCall, ring
<1>18. ASSUME NEW t \in Clearers, ClearLock(t) PROVE TypeOK'
  BY <1>18, <1>tasks, <1>goto
  DEF IInv, TypeOK, ClearLock, TakeLock, LockTimeout, CriticalSection, ring
<1>19. ASSUME NEW t \in Clearers, ClearCnt(t) PROVE TypeOK'
  BY <1>19, <1>tasks, <1>goto DEF IInv, TypeOK, ClearCnt, GiveLock
<1>20. CASE Environment
  BY <1>20 DEF IInv, TypeOK, Environment, ring
<1>21. CASE UNCHANGED vars
  BY <1>21 DEF IInv, TypeOK, vars
<1> QED
  BY <1>1, <1>2, <1>3, <1>4, <1>5, <1>6, <1>7, <1>8, <1>9, <1>10, <1>11,
     <1>12, <1>13, <1>14, <1>15, <1>16, <1>17, <1>18, <1>19, <1>20, <1>21
  DEF Next, AddStep, IncStep, ClearStep
-----------------------------------------------------------------------------
LEMMA ExclusionStep == IInv /\ [Next]_vars => OneTaskInQueue'
<1> SUFFICES ASSUME IInv, [Next]_vars PROVE OneTaskInQueue'
  OBVIOUS
<1> USE DEF IInv
<1>tasks. /\ AddTask \in Tasks /\ IncTask \in Tasks
          /\ \A t \in Clearers : t \in Tasks
  BY DEF Tasks
<1>1. CASE AddCall \/ AddRoom \/ AddFull \/ AddGiveUp \/ AddRetry
  BY <1>1, <1>tasks, StayExcludes
  DEF AddCall, AddRoom, AddFull, AddGiveUp, AddRetry, CriticalSection
<1>2. ASSUME NEW t \in Tasks, NEW from, NEW in \in CriticalSection, NEW out,
             from \notin CriticalSection, out \notin CriticalSection,
             TakeLock(t, from, in) \/ LockTimeout(t, from, out)
      PROVE  OneTaskInQueue'
  BY <1>2, TakeExcludes, StayExcludes DEF LockTimeout
<1>3. CASE AddLock
  BY <1>2, <1>3, <1>tasks DEF AddLock, CriticalSection
<1>4. CASE AddData
  BY <1>4, <1>tasks, StayExcludes DEF AddData, CriticalSection
<1>5. CASE AddCnt
  BY <1>5, <1>tasks, GiveExcludes DEF AddCnt, CriticalSection
<1>6. CASE IncTick \/ IncStopTest \/ IncSend
  BY <1>6, <1>tasks, StayExcludes DEF IncTick, IncStopTest, IncSend, CriticalSection
<1>7. CASE HasDataLock
  BY <1>2, <1>7, <1>tasks DEF HasDataLock, CriticalSection
<1>8. CASE HasDataCnt
  BY <1>8, <1>tasks, GiveExcludes DEF HasDataCnt, CriticalSection
<1>9. CASE IncLock
  BY <1>2, <1>9, <1>tasks DEF IncLock, CriticalSection
<1>10. CASE IncFirst
  BY <1>10, <1>tasks, StayExcludes DEF IncFirst, CriticalSection
<1>11. CASE IncNone \/ IncDone
  BY <1>11, <1>tasks, GiveExcludes DEF IncNone, IncDone, CriticalSection
<1>12. ASSUME NEW t \in Clearers, ClearCall(t) PROVE OneTaskInQueue'
  BY <1>12, <1>tasks, StayExcludes DEF ClearCall, CriticalSection
<1>13. ASSUME NEW t \in Clearers, ClearLock(t) PROVE OneTaskInQueue'
  BY <1>2, <1>13, <1>tasks DEF ClearLock, CriticalSection
<1>14. ASSUME NEW t \in Clearers, ClearCnt(t) PROVE OneTaskInQueue'
  BY <1>14, <1>tasks, GiveExcludes DEF ClearCnt, CriticalSection
<1>15. CASE IncCombine \/ Environment \/ UNCHANGED vars
  BY <1>15 DEF OneTaskInQueue, IncCombine, Environment, vars
<1> QED
  BY <1>1, <1>3, <1>4, <1>5, <1>6, <1>7, <1>8, <1>9, <1>10, <1>11, <1>12,
     <1>13, <1>14, <1>15
  DEF Next, AddStep, IncStep, ClearStep

(* Only AddCnt makes the queue longer, and it ends the producer's call.    *)
LEMMA RoomStep == IInv /\ [Next]_vars => RoomStays'
<1> SUFFICES ASSUME IInv, [Next]_vars PROVE RoomStays'
  OBVIOUS
<1> USE QSizeAssumption, TaskAssumption DEF IInv, TypeOK, RoomStays, Tasks, Goto
<1>1. CASE AddStep
  BY <1>1 DEF AddStep, AddCall, AddRoom, RoomInQ, AddFull, AddGiveUp, AddRetry,
              AddLock, AddData,
              AddCnt, TakeLock, LockTimeout, GiveLock, ring
<1>2. CASE IncStep
  BY <1>2 DEF IncStep, IncTick, HasDataLock, HasDataCnt, IncStopTest, IncLock,
              IncFirst, IncNone, IncCombine, IncDone, IncSend, PopOldest,
              SamePeriod, TakeLock, LockTimeout, GiveLock, ring
<1>3. ASSUME NEW t \in Clearers, ClearStep(t) PROVE RoomStays'
  BY <1>3 DEF ClearStep, ClearCall, ClearLock, ClearCnt, TakeLock,
              LockTimeout, GiveLock, ring
<1>4. CASE Environment \/ UNCHANGED vars
  BY <1>4 DEF Environment, vars, ring
<1> QED
  BY <1>1, <1>2, <1>3, <1>4 DEF Next

LEMMA MoveStep == IInv /\ [Next]_vars => MoveInHand'
<1> SUFFICES ASSUME IInv, [Next]_vars PROVE MoveInHand'
  OBVIOUS
<1> USE TaskAssumption DEF IInv, TypeOK, MoveInHand, Tasks, Goto
<1>pop. PopOldest => pos' # <<>>
  BY DEF PopOldest
<1>1. CASE AddStep
  BY <1>1 DEF AddStep, AddCall, AddRoom, AddFull, AddGiveUp, AddRetry, AddLock,
      AddData,
              AddCnt, TakeLock, LockTimeout, GiveLock
<1>2. CASE IncStep
  BY <1>2, <1>pop DEF IncStep, IncTick, HasDataLock, HasDataCnt, IncStopTest,
              IncLock, IncFirst, IncNone, IncCombine, IncDone, IncSend,
              TakeLock, LockTimeout, GiveLock
<1>3. ASSUME NEW t \in Clearers, ClearStep(t) PROVE MoveInHand'
  BY <1>3 DEF ClearStep, ClearCall, ClearLock, ClearCnt, TakeLock,
              LockTimeout, GiveLock
<1>4. CASE Environment \/ UNCHANGED vars
  BY <1>4 DEF Environment, vars
<1> QED
  BY <1>1, <1>2, <1>3, <1>4 DEF Next

(* While the producer is between store and count it has the lock, so       *)
(* nobody else moves idx, cnt or the slots.                                *)
LEMMA StoredStep == IInv /\ [Next]_vars => StoredInPlace'
<1> SUFFICES ASSUME IInv, [Next]_vars PROVE StoredInPlace'
  OBVIOUS
<1> USE TaskAssumption DEF IInv, TypeOK, StoredInPlace, Tasks, Goto, ring
<1>inside. ASSUME NEW t \in Tasks, t # AddTask, pc[t] \in CriticalSection
           PROVE  pc[AddTask] # "add_cnt"
  BY <1>inside DEF OneTaskInQueue, CriticalSection
<1>1. CASE AddData
  <2>1. Q_OFFSET_IDX(idx, cnt) \in Slots
    BY OffsetInRing
  <2> QED
    BY <1>1, <2>1 DEF AddData, Q_OFFSET_IDX
<1>2. CASE AddCall \/ AddRoom \/ AddFull \/ AddGiveUp \/ AddRetry \/ AddLock \/ AddCnt
  BY <1>2 DEF AddCall, AddRoom, AddFull, AddGiveUp, AddRetry, AddLock, AddCnt,
      TakeLock,
              LockTimeout, GiveLock
<1>3. CASE IncTick \/ HasDataLock \/ HasDataCnt \/ IncStopTest \/ IncLock
           \/ IncNone \/ IncDone \/ IncSend
  BY <1>3 DEF IncTick, HasDataLock, HasDataCnt, IncStopTest, IncLock, IncNone,
              IncDone, IncSend, TakeLock, LockTimeout, GiveLock, Q_OFFSET_IDX
<1>4. CASE IncFirst \/ IncCombine
  BY <1>4, <1>inside DEF IncFirst, IncCombine, CriticalSection
<1>5. ASSUME NEW t \in Clearers, ClearCall(t) \/ ClearLock(t)
      PROVE  StoredInPlace'
  BY <1>5 DEF ClearCall, ClearLock, TakeLock, LockTimeout, Q_OFFSET_IDX
<1>6. ASSUME NEW t \in Clearers, ClearCnt(t) PROVE StoredInPlace'
  BY <1>6, <1>inside DEF ClearCnt, GiveLock, CriticalSection
<1>7. CASE Environment \/ UNCHANGED vars
  BY <1>7 DEF Environment, vars, Q_OFFSET_IDX
<1> QED
  BY <1>1, <1>2, <1>3, <1>4, <1>5, <1>6, <1>7
  DEF Next, AddStep, IncStep, ClearStep
-----------------------------------------------------------------------------
LEMMA InitIInv == Init => IInv
<1> SUFFICES ASSUME Init PROVE IInv
  OBVIOUS
<1> USE QSizeAssumption, TaskAssumption
<1>1. pc \in [Tasks -> {"clk", "idle"}]
  BY DEF Init
<1>2. TypeOK
  <2>1. pos \in Seq(Increments)
    BY DEF Init
  <2>2. idx \in Slots /\ cnt \in 0 .. Q_SIZE
    BY DEF Init, Slots
  <2> QED
    BY <1>1, <2>1, <2>2, ZeroTyped DEF Init, TypeOK
<1>3. OneTaskInQueue
  BY <1>1 DEF Init, OneTaskInQueue, CriticalSection
<1>4. RoomStays /\ MoveInHand /\ StoredInPlace
  BY <1>1 DEF Init, RoomStays, MoveInHand, StoredInPlace, Tasks
<1> QED
  BY <1>2, <1>3, <1>4 DEF IInv

THEOREM Inductive == Spec => []IInv
<1>1. IInv /\ [Next]_vars => IInv'
  BY TypeStep, ExclusionStep, RoomStep, MoveStep, StoredStep DEF IInv
<1> QED
  BY <1>1, InitIInv, PTL DEF Spec

(* Every variable of the queue keeps its type: idx never leaves the ring   *)
(* and cnt never exceeds Q_SIZE.                                           *)
THEOREM TypeCorrect == Spec => []TypeOK
BY Inductive, PTL DEF IInv

(* q_lock excludes, for any number of tasks that clear the queue.          *)
THEOREM Exclusion == Spec => []OneTaskInQueue
BY Inductive, PTL DEF IInv

(* The room the producer saw before it took the lock is never lost.        *)
THEOREM RoomKept == Spec => []RoomStays
BY Inductive, PTL DEF IInv
-----------------------------------------------------------------------------
(* The ring read from idx on is a sequence of Len cnt, and its steps are   *)
(* the steps of the FIFO.                                                  *)
LEMMA QueuedIsSeq ==
  ASSUME TypeOK
  PROVE  /\ Queued \in Seq(Increments) /\ Len(Queued) = cnt
         /\ \A i \in 1 .. cnt : Queued[i] = data[Q_OFFSET_IDX(idx, i - 1)]
<1>1. ASSUME NEW i \in 1 .. cnt
      PROVE  data[Q_OFFSET_IDX(idx, i - 1)] \in Increments
  <2>1. i - 1 \in 0 .. Q_SIZE
    BY QSizeAssumption DEF TypeOK
  <2> QED
    BY <2>1, OffsetInRing DEF TypeOK
<1>2. cnt \in Nat
  BY QSizeAssumption DEF TypeOK
<1> QED
  BY <1>1, <1>2 DEF Queued

(* A sequence with one more element, the last, is an append; one without   *)
(* its first is a tail.                                                    *)
LEMMA AppendByElements ==
  ASSUME NEW S, NEW s \in Seq(S), NEW t \in Seq(S), NEW x \in S,
         Len(t) = Len(s) + 1, t[Len(t)] = x,
         \A i \in 1 .. Len(s) : t[i] = s[i]
  PROVE  t = Append(s, x)
<1>1. /\ Append(s, x) \in Seq(S) /\ Len(Append(s, x)) = Len(s) + 1
      /\ \A i \in 1 .. Len(s) : Append(s, x)[i] = s[i]
      /\ Append(s, x)[Len(s) + 1] = x
  BY AppendProperties
<1>2. \A i \in 1 .. Len(t) : t[i] = Append(s, x)[i]
  <2> TAKE i \in 1 .. Len(t)
  <2>1. i \in 1 .. Len(s) \/ i = Len(s) + 1
    OBVIOUS
  <2> QED
    BY <1>1, <2>1
<1> QED
  BY <1>1, <1>2, SeqEqual

LEMMA TailByElements ==
  ASSUME NEW S, NEW s \in Seq(S), NEW t \in Seq(S), s # <<>>,
         Len(t) = Len(s) - 1, \A i \in 1 .. Len(t) : t[i] = s[i + 1]
  PROVE  t = Tail(s)
<1>1. Tail(s) \in Seq(S) /\ Len(Tail(s)) = Len(s) - 1
      /\ \A i \in 1 .. Len(Tail(s)) : Tail(s)[i] = s[i + 1]
  BY HeadTailProperties
<1> QED
  BY <1>1, SeqEqual

(* The ring after a step that leaves it well formed, element by element.   *)
LEMMA QueuedNext ==
  ASSUME NEW n \in 0 .. Q_SIZE, NEW j \in Slots,
         cnt' = n, idx' = j, data' \in [Slots -> Increments]
  PROVE  /\ Queued' \in Seq(Increments) /\ Len(Queued') = n
         /\ \A i \in 1 .. n : Queued'[i] = data'[Q_OFFSET_IDX(j, i - 1)]
<1>1. Queued' = [i \in 1 .. n |-> data'[Q_OFFSET_IDX(j, i - 1)]]
  BY DEF Queued, Q_OFFSET_IDX
<1>2. ASSUME NEW i \in 1 .. n
      PROVE  data'[Q_OFFSET_IDX(j, i - 1)] \in Increments
  <2>1. i - 1 \in 0 .. Q_SIZE
    BY QSizeAssumption
  <2> QED
    BY <2>1, OffsetInRing
<1>3. n \in Nat
  BY QSizeAssumption
<1> QED
  BY <1>1, <1>2, <1>3

(* Storing in the first free slot and counting it appends.                 *)
LEMMA CountAppends ==
  ASSUME IInv, AddCnt
  PROVE  Len(Queued) < Q_SIZE /\ Queued' = Append(Queued, item)
<1> USE QSizeAssumption DEF IInv
<1>1. /\ cnt \in Nat /\ cnt < Q_SIZE /\ cnt' = cnt + 1
      /\ cnt + 1 \in 0 .. Q_SIZE /\ idx \in Slots
      /\ data \in [Slots -> Increments] /\ item \in Increments
  BY DEF AddCnt, RoomStays, TypeOK
<1>2. data' = data /\ idx' = idx /\ data[Q_OFFSET_IDX(idx, cnt)] = item
  BY DEF AddCnt, StoredInPlace
<1>3. /\ Queued' \in Seq(Increments) /\ Len(Queued') = cnt + 1
      /\ \A i \in 1 .. cnt + 1 : Queued'[i] = data[Q_OFFSET_IDX(idx, i - 1)]
  BY <1>1, <1>2, QueuedNext
<1>4. Queued'[cnt + 1] = item
  <2>1. cnt + 1 \in 1 .. cnt + 1 /\ (cnt + 1) - 1 = cnt
    BY <1>1
  <2> QED
    BY <2>1, <1>2, <1>3
<1>5. Queued \in Seq(Increments) /\ Len(Queued) = cnt
      /\ \A i \in 1 .. cnt : Queued'[i] = Queued[i]
  BY <1>1, <1>3, QueuedIsSeq
<1> QED
  BY <1>1, <1>3, <1>4, <1>5, AppendByElements

(* Popping takes the head.                                                 *)
LEMMA PopTakesHead ==
  ASSUME TypeOK, cnt > 0, PopOldest
  PROVE  /\ Queued # <<>> /\ Head(Queued) = data[idx]
         /\ Queued' = Tail(Queued)
<1> USE QSizeAssumption
<1>1. /\ cnt \in Nat /\ cnt <= Q_SIZE /\ cnt - 1 \in 0 .. Q_SIZE
      /\ cnt' = cnt - 1 /\ data' = data /\ data' \in [Slots -> Increments]
      /\ idx' = Q_OFFSET_IDX(idx, 1) /\ idx \in Nat /\ idx < Q_SIZE
      /\ idx' \in Slots
  BY OffsetInRing DEF TypeOK, PopOldest, Slots
<1>2. Q_OFFSET_IDX(idx, 0) = idx
  BY <1>1 DEF Q_OFFSET_IDX
<1>3. Queued # <<>> /\ Head(Queued) = data[idx]
  BY <1>1, <1>2, QueuedIsSeq
<1>4. /\ Queued' \in Seq(Increments) /\ Len(Queued') = cnt - 1
      /\ \A i \in 1 .. cnt - 1 :
           Queued'[i] = data[Q_OFFSET_IDX(Q_OFFSET_IDX(idx, 1), i - 1)]
  BY <1>1, QueuedNext
<1>5. ASSUME NEW i \in 1 .. cnt - 1 PROVE Queued'[i] = Queued[i + 1]
  <2>1. Q_OFFSET_IDX(Q_OFFSET_IDX(idx, 1), i - 1) = Q_OFFSET_IDX(idx, i)
    BY <1>1 DEF Q_OFFSET_IDX
  <2>2. i + 1 \in 1 .. cnt /\ (i + 1) - 1 = i
    BY <1>1
  <2> QED
    BY <1>4, <2>1, <2>2, QueuedIsSeq
<1> QED
  BY <1>1, <1>3, <1>4, <1>5, QueuedIsSeq, TailByElements

LEMMA RefinementStep == IInv /\ [Next]_vars => [Fifo!FifoNext]_(Fifo!fifoVars)
<1> SUFFICES ASSUME IInv, [Next]_vars
             PROVE  [Fifo!FifoNext]_(Fifo!fifoVars)
  OBVIOUS
<1> USE DEF IInv, ring
<1>same. ASSUME UNCHANGED <<idx, cnt, pos>>,
                data' = data \/ (/\ idx \in Slots /\ cnt \in 0 .. Q_SIZE - 1
                                /\ \A i \in 0 .. cnt - 1 :
                                     data'[Q_OFFSET_IDX(idx, i)]
                                       = data[Q_OFFSET_IDX(idx, i)])
         PROVE  UNCHANGED Fifo!fifoVars
  <2>1. CASE data' = data
    BY <2>1, <1>same DEF Fifo!fifoVars, Queued, Q_OFFSET_IDX
  <2>2. CASE data' # data
    <3>1. \A i \in 1 .. cnt : data'[Q_OFFSET_IDX(idx, i - 1)]
                               = data[Q_OFFSET_IDX(idx, i - 1)]
      BY <2>2, <1>same, QSizeAssumption
    <3>2. Queued' = [i \in 1 .. cnt |-> data'[Q_OFFSET_IDX(idx, i - 1)]]
      BY <1>same DEF Queued, Q_OFFSET_IDX
    <3> QED
      BY <3>1, <3>2, <1>same DEF Fifo!fifoVars, Queued
  <2> QED
    BY <2>1, <2>2
<1>1. CASE AddCall \/ AddRoom \/ AddFull \/ AddGiveUp \/ AddRetry \/ AddLock \/ IncTick
           \/ HasDataLock \/ HasDataCnt \/ IncStopTest \/ IncLock
           \/ IncNone \/ IncDone \/ Environment \/ UNCHANGED vars
  BY <1>1, <1>same
  DEF AddCall, AddRoom, AddFull, AddGiveUp, AddRetry, AddLock, IncTick,
      HasDataLock, HasDataCnt,
      IncStopTest, IncLock, IncNone, IncDone, Environment, vars
<1>2. CASE AddData
  <2>1. cnt \in 0 .. Q_SIZE - 1 /\ idx \in Slots
    BY <1>2, QSizeAssumption DEF AddData, RoomStays, TypeOK
  <2>2. \A i \in 0 .. cnt - 1 : Q_OFFSET_IDX(idx, i) # Q_OFFSET_IDX(idx, cnt)
    BY <2>1, QSizeAssumption DEF Q_OFFSET_IDX, Slots
  <2>3. \A i \in 0 .. cnt - 1 : Q_OFFSET_IDX(idx, i) \in Slots
    BY <2>1, OffsetInRing, QSizeAssumption
  <2> QED
    BY <1>2, <2>1, <2>2, <2>3, <1>same DEF AddData, TypeOK
<1>3. CASE AddCnt
  <2>1. Fifo!Put
    BY <1>3, CountAppends DEF Fifo!Put, AddCnt, TypeOK
  <2> QED
    BY <2>1 DEF Fifo!FifoNext
<1>4. CASE IncFirst
  <2>1. pos = <<>>
    BY <1>4 DEF IncFirst, MoveInHand
  <2>2. Fifo!Take
    BY <1>4, <2>1, PopTakesHead DEF Fifo!Take, IncFirst, PopOldest
  <2> QED
    BY <2>2 DEF Fifo!FifoNext
<1>5. CASE IncCombine
  <2>1. Fifo!Take
    BY <1>5, PopTakesHead DEF Fifo!Take, IncCombine, SamePeriod, PopOldest
  <2> QED
    BY <2>1 DEF Fifo!FifoNext
<1>6. CASE IncSend
  <2>1. UNCHANGED Queued
    BY <1>6 DEF IncSend, Queued, Q_OFFSET_IDX
  <2> QED
    BY <1>6, <2>1 DEF IncSend, Fifo!FifoNext, Fifo!Deliver, Fifo!fifoVars
<1>7. ASSUME NEW t \in Clearers, ClearStep(t)
      PROVE  [Fifo!FifoNext]_(Fifo!fifoVars)
  <2>1. CASE ClearCall(t) \/ ClearLock(t)
    BY <2>1, <1>same DEF ClearCall, ClearLock
  <2>2. CASE ClearCnt(t)
    <3>1. cnt' = 0 /\ pos' = pos
      BY <2>2 DEF ClearCnt
    <3>2. Queued' = <<>>
      BY <3>1 DEF Queued
    <3> QED
      BY <3>1, <3>2 DEF Fifo!FifoNext, Fifo!Clear
  <2> QED
    BY <1>7, <2>1, <2>2 DEF ClearStep
<1> QED
  BY <1>1, <1>2, <1>3, <1>4, <1>5, <1>6, <1>7 DEF Next, AddStep, IncStep

(* The queue is a bounded FIFO: increments leave it in the order they were *)
(* interpolated, none twice, none lost or kept but by a clear, and a move  *)
(* never mixes formats.                                                    *)
THEOREM Refinement == Spec => ImplementsFifo
<1>1. Init => Fifo!FifoInit
  <2> SUFFICES ASSUME Init PROVE Queued = <<>> /\ pos = <<>>
    BY DEF Fifo!FifoInit
  <2> QED
    BY DEF Init, Queued
<1> QED
  BY <1>1, RefinementStep, Inductive, PTL DEF Spec, ImplementsFifo, Fifo!FifoSpec
=============================================================================
