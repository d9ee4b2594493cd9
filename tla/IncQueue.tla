------------------------------ MODULE IncQueue -----------------------------
(***************************************************************************)
(* The increment queue (inc_q) of one control group: a ring buffer between *)
(* the task that interpolates the trajectory (AddToIncQueueProcess) and    *)
(* the one that feeds the motion kernel at every interpolation clock tick  *)
(* (IncMoveLoop), cleared at any time by the tasks that stop motion or see *)
(* an alarm.  q_lock is a binary semaphore taken with a time-out; the      *)
(* producer tests for room before it takes the lock.                       *)
(***************************************************************************)
EXTENDS Naturals, Sequences

CONSTANTS Q_SIZE,    \* slots of the ring
          Period,    \* interpolation period (ms)
          Times,     \* time stamps increments may carry (ms)
          Formats,   \* <<tool, frame, user>> combinations
          AddTask,   \* the AddToIncQueueProcess task of the group
          IncTask,   \* the IncMoveLoop task
          Clearers   \* the tasks that call ClearQ_All

ASSUME QSizeAssumption == Q_SIZE \in Nat \ {0}
ASSUME DataAssumption ==
  /\ Period \in Nat \ {0}
  /\ Times \subseteq Nat /\ Times # {}
  /\ Formats # {}
ASSUME TaskAssumption ==
  /\ AddTask # IncTask
  /\ AddTask \notin Clearers /\ IncTask \notin Clearers

VARIABLES
  data, idx, cnt,    \* the ring: slots, index of the oldest, number queued
  q_lock,            \* its binary semaphore
  q_time,            \* time up to which IncMoveLoop has processed the queue
  pc,                \* where each task is
  item,              \* dataToEnQ of AddPulseIncPointToQ
  pos,               \* the increments summed into moveData so far
  ready,             \* Ros_Controller_IsMotionReady()
  bStopMotion        \* StopMotion is under way

vars == <<data, idx, cnt, q_lock, q_time, pc, item, pos, ready, bStopMotion>>
ring == <<data, idx, cnt>>

Tasks == {AddTask, IncTask} \cup Clearers
Slots == 0 .. Q_SIZE - 1
Increments == [time : Times, fmt : Formats]

(* The value of memory nobody has written yet. *)
ZeroIncrement == CHOOSE x \in Increments : TRUE

(* Q_OFFSET_IDX(a, b, Q_SIZE) for the non-negative offsets the code uses.  *)
Q_OFFSET_IDX(a, b) == IF a + b >= Q_SIZE THEN a + b - Q_SIZE ELSE a + b

Goto(t, l) == pc' = [pc EXCEPT ![t] = l]

(* mpSemTake(q_lock, Q_LOCK_TIMEOUT): obtained, or given up while another  *)
(* task keeps it; mpSemGive.                                               *)
TakeLock(t, from, to) ==
  /\ pc[t] = from /\ q_lock = "full"
  /\ q_lock' = "empty"
  /\ Goto(t, to)

LockTimeout(t, from, to) ==
  /\ pc[t] = from /\ q_lock = "empty"
  /\ Goto(t, to)
  /\ UNCHANGED q_lock

GiveLock(t, to) == q_lock' = "full" /\ Goto(t, to)
-----------------------------------------------------------------------------
(* AddPulseIncPointToQ, called by the interpolation loop with one          *)
(* increment at a time.                                                    *)
AddCall ==
  /\ pc[AddTask] = "idle"
  /\ item' \in Increments
  /\ Goto(AddTask, "check")
  /\ UNCHANGED <<ring, q_lock, q_time, pos, ready, bStopMotion>>

RoomInQOffByOne == cnt <= Q_SIZE

RoomInQ == cnt < Q_SIZE

AddRoom ==
  /\ pc[AddTask] = "check" /\ RoomInQ
  /\ Goto(AddTask, "add")
  /\ UNCHANGED <<ring, q_lock, q_time, item, pos, ready, bStopMotion>>

(* Queue full: sleep one interpolation period, then give the increment up  *)
(* if motion is no longer ready, or look again.                            *)
AddFull ==
  /\ pc[AddTask] = "check" /\ ~RoomInQ
  /\ Goto(AddTask, "sleep")
  /\ UNCHANGED <<ring, q_lock, q_time, item, pos, ready, bStopMotion>>

AddWaitsForRoom == FALSE

AddGiveUp ==
  /\ pc[AddTask] = "sleep" /\ ~ready
  /\ Goto(AddTask, "idle")
  /\ UNCHANGED <<ring, q_lock, q_time, item, pos, ready, bStopMotion>>

AddRetry ==
  /\ pc[AddTask] = "sleep" /\ ready
  /\ Goto(AddTask, "check")
  /\ UNCHANGED <<ring, q_lock, q_time, item, pos, ready, bStopMotion>>

AddLock ==
  /\ \/ TakeLock(AddTask, "add", "add_data")
     \/ LockTimeout(AddTask, "add", "idle")
  /\ UNCHANGED <<ring, q_time, item, pos, ready, bStopMotion>>

AddData ==
  /\ pc[AddTask] = "add_data"
  /\ data' = [data EXCEPT ![Q_OFFSET_IDX(idx, cnt)] = item]
  /\ Goto(AddTask, "add_cnt")
  /\ UNCHANGED <<idx, cnt, q_lock, q_time, item, pos, ready, bStopMotion>>

AddCnt ==
  /\ pc[AddTask] = "add_cnt"
  /\ cnt' = cnt + 1
  /\ GiveLock(AddTask, "idle")
  /\ UNCHANGED <<data, idx, q_time, item, pos, ready, bStopMotion>>
-----------------------------------------------------------------------------
(* IncMoveLoop: on a clock tick, if motion may run and the queue is not    *)
(* empty (or could not be looked at, or pulses of earlier cycles are still *)
(* unprocessed), take this cycle's increments.  A tick at which the loop   *)
(* skips this queue (skipReadingQ) changes nothing here.                   *)
IncTick ==
  /\ pc[IncTask] = "clk" /\ ready
  /\ Goto(IncTask, "has")
  /\ UNCHANGED <<ring, q_lock, q_time, item, pos, ready, bStopMotion>>

HasDataLock ==
  /\ \/ TakeLock(IncTask, "has", "has_cnt")
     \/ LockTimeout(IncTask, "has", "stop?")
  /\ UNCHANGED <<ring, q_time, item, pos, ready, bStopMotion>>

HasDataCnt ==
  /\ pc[IncTask] = "has_cnt"
  /\ \E hasUnprocessedData \in BOOLEAN :
        GiveLock(IncTask, IF cnt > 0 \/ hasUnprocessedData THEN "stop?"
                                                           ELSE "clk")
  /\ UNCHANGED <<ring, q_time, item, pos, ready, bStopMotion>>

IncStopTest ==
  /\ pc[IncTask] = "stop?"
  /\ Goto(IncTask, IF bStopMotion THEN "clk" ELSE "pop")
  /\ UNCHANGED <<ring, q_lock, q_time, item, pos, ready, bStopMotion>>

IncLock ==
  /\ \/ TakeLock(IncTask, "pop", "first")
     \/ LockTimeout(IncTask, "pop", "send")
  /\ UNCHANGED <<ring, q_time, item, pos, ready, bStopMotion>>

PopNewest ==
  /\ pos' = Append(pos, data[Q_OFFSET_IDX(idx, cnt - 1)])
  /\ cnt' = cnt - 1
  /\ UNCHANGED <<data, idx>>

PopOldest ==
  /\ pos' = Append(pos, data[idx])
  /\ idx' = Q_OFFSET_IDX(idx, 1)
  /\ cnt' = cnt - 1
  /\ UNCHANGED data

IncFirst ==
  /\ pc[IncTask] = "first" /\ cnt > 0
  /\ PopOldest
  /\ Goto(IncTask, "more")
  /\ UNCHANGED <<q_lock, q_time, item, ready, bStopMotion>>

IncNoneKeepsLock ==
  /\ pc[IncTask] = "first" /\ cnt = 0
  /\ Goto(IncTask, "send")
  /\ UNCHANGED <<ring, q_lock, q_time, item, pos, ready, bStopMotion>>

(* Emptied by a clear since the cycle looked: nothing moves this cycle.    *)
IncNone ==
  /\ pc[IncTask] = "first" /\ cnt = 0
  /\ GiveLock(IncTask, "send")
  /\ UNCHANGED <<ring, q_time, item, pos, ready, bStopMotion>>

(* The next increment completes the same interpolation period, and has the *)
(* format of the one before.                                               *)
SamePeriod ==
  /\ cnt > 0
  /\ q_time <= data[idx].time
  /\ data[idx].time - q_time <= Period
  /\ data[idx].fmt = pos[1].fmt

IncCombine ==
  /\ pc[IncTask] = "more" /\ SamePeriod
  /\ PopOldest
  /\ UNCHANGED <<pc, q_lock, q_time, item, ready, bStopMotion>>

IncDone ==
  /\ pc[IncTask] = "more" /\ ~SamePeriod
  /\ q_time' = pos[Len(pos)].time
  /\ GiveLock(IncTask, "send")
  /\ UNCHANGED <<ring, item, pos, ready, bStopMotion>>

(* mpExRcsIncrementMove(&moveData), or the move is dropped because a stop  *)
(* was requested meanwhile: either way the cycle is over.                  *)
IncSend ==
  /\ pc[IncTask] = "send"
  /\ pos' = <<>>
  /\ Goto(IncTask, "clk")
  /\ UNCHANGED <<ring, q_lock, q_time, item, ready, bStopMotion>>
-----------------------------------------------------------------------------
(* ClearQ_All on this queue.  A lock that cannot be had is passed over.    *)
ClearCall(t) ==
  /\ pc[t] = "idle"
  /\ Goto(t, "clr")
  /\ UNCHANGED <<ring, q_lock, q_time, item, pos, ready, bStopMotion>>

ClearLock(t) ==
  /\ \/ TakeLock(t, "clr", "clr_cnt")
     \/ LockTimeout(t, "clr", "idle")
  /\ UNCHANGED <<ring, q_time, item, pos, ready, bStopMotion>>

ClearCnt(t) ==
  /\ pc[t] = "clr_cnt"
  /\ cnt' = 0
  /\ GiveLock(t, "idle")
  /\ UNCHANGED <<data, idx, q_time, item, pos, ready, bStopMotion>>

(* The robot's state and StopMotion, as this queue sees them.              *)
Environment ==
  /\ \/ ready' = ~ready /\ UNCHANGED bStopMotion
     \/ bStopMotion' = ~bStopMotion /\ UNCHANGED ready
  /\ UNCHANGED <<ring, q_lock, q_time, pc, item, pos>>
-----------------------------------------------------------------------------
Init ==
  /\ idx = 0 /\ cnt = 0
  /\ data = [s \in Slots |-> ZeroIncrement]
  /\ q_lock = "full" /\ q_time = 0
  /\ pc = [t \in Tasks |-> IF t = IncTask THEN "clk" ELSE "idle"]
  /\ item = ZeroIncrement
  /\ pos = <<>>
  /\ ready = TRUE /\ bStopMotion = FALSE

AddStep == \/ AddCall \/ AddRoom \/ AddFull \/ AddGiveUp \/ AddRetry
           \/ AddLock \/ AddData \/ AddCnt

IncStep == \/ IncTick \/ HasDataLock \/ HasDataCnt \/ IncStopTest
           \/ IncLock \/ IncFirst \/ IncNone \/ IncCombine \/ IncDone
           \/ IncSend

ClearStep(t) == ClearCall(t) \/ ClearLock(t) \/ ClearCnt(t)

Next == AddStep \/ IncStep \/ (\E t \in Clearers : ClearStep(t)) \/ Environment

Spec == Init /\ [][Next]_vars

(* Every task keeps running: the interpolation clock ticks, the producer   *)
(* wakes from Ros_Sleep.  IncMoveLoop has the highest priority, so it gets *)
(* a lock that is free again and again.                                    *)
Fairness ==
  /\ WF_vars(AddRoom \/ AddFull \/ AddGiveUp \/ AddRetry)
  /\ WF_vars(AddData \/ AddCnt)
  /\ WF_vars(IncStep)
  /\ SF_vars(TakeLock(IncTask, "pop", "first") /\ IncLock)
  /\ \A t \in Clearers : WF_vars(ClearCnt(t))

FairSpec == Spec /\ Fairness
-----------------------------------------------------------------------------
(* Variants of the definitions above carry plausible mistakes: a room test *)
(* off by one, a wait without a way out, a lock not given back, a clear    *)
(* without the lock, a pop from the wrong end.                             *)

(* The control points at which a task is between mpSemTake and mpSemGive.  *)
CriticalSection ==
  {"add_data", "add_cnt", "has_cnt", "first", "more", "clr_cnt"}

TypeOK ==
  /\ data \in [Slots -> Increments]
  /\ idx \in Slots /\ cnt \in 0 .. Q_SIZE
  /\ q_lock \in {"full", "empty"}
  /\ q_time \in Nat
  /\ item \in Increments
  /\ pos \in Seq(Increments)
  /\ ready \in BOOLEAN /\ bStopMotion \in BOOLEAN
  /\ pc \in [Tasks -> {"idle", "check", "sleep", "add", "clk", "has", "stop?",
                       "pop", "send", "clr"} \cup CriticalSection]

(* No two tasks work on the ring at once, although each of them gives up   *)
(* on the semaphore after a while and every path out has to give it back:  *)
(* the semaphore is taken exactly while one task is inside.                *)
OneTaskInQueue ==
  /\ \A s, t \in Tasks :
        pc[s] \in CriticalSection /\ pc[t] \in CriticalSection => s = t
  /\ q_lock = "empty" <=> \E t \in Tasks : pc[t] \in CriticalSection

(* AddPulseIncPointToQ looks at cnt before it has the lock and never again *)
(* after: the room it saw is still there when it stores its increment,     *)
(* whatever IncMoveLoop and the clearing tasks did in between, so no       *)
(* queued increment is overwritten.                                        *)
RoomStays == pc[AddTask] \in {"add", "add_data", "add_cnt"} => cnt < Q_SIZE

(* The ring, read from idx on, and the move of the cycle are a bounded     *)
(* FIFO: increments reach the robot in the order they were interpolated,   *)
(* none twice, none lost except by a clear, and none from before a clear.  *)
Queued == [i \in 1 .. cnt |-> data[Q_OFFSET_IDX(idx, i - 1)]]

Fifo == INSTANCE IncFifo
          WITH fifo <- Queued, move <- pos, Capacity <- Q_SIZE

ImplementsFifo == Fifo!FifoSpec

(* A producer that found the queue full does not wait for ever: either the *)
(* robot stays ready with no stop pending, and the loop makes room, or it  *)
(* is no longer ready, and the producer gives up.                          *)
ProducerNotStuck ==
  (<>[](ready /\ ~bStopMotion) \/ <>[]~ready)
     => (pc[AddTask] = "check" ~> pc[AddTask] \notin {"check", "sleep"})
=============================================================================
