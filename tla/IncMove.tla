------------------------------- MODULE IncMove -------------------------------
(***************************************************************************)
(* What becomes of the increments of a trajectory.  AddToIncQueueProcess   *)
(* cuts every segment at the ends of the interpolation periods and carries *)
(* the rest of a period over to the next segment; IncMoveLoop puts the     *)
(* cuts of a period together again, sends them, and, when the speed limit  *)
(* of the safety unit (FSU) lets the robot process less than was sent,     *)
(* sends what is missing in later periods, never faster than asked.        *)
(*                                                                         *)
(* Positions matter by their differences only: `moved` is the command      *)
(* position now less prevPulsePosData, and `owed` what the command         *)
(* position is short of all increments taken from the queue.  The queue is *)
(* the sequence IncQueue implements.                                       *)
(***************************************************************************)
EXTENDS Integers, Sequences, FiniteSets, FiniteSetsExt, SequencesExt, Functions

CONSTANTS Groups,        \* control groups
          Axes,          \* axes of a group
          Increments,    \* what an interpolation step may come to
          Durations,     \* time from one point to the next, or none
          MaxSegments,   \* bound: segments of a group, counted from the start
          interpolPeriod,
          QSize,         \* slots of a queue
          maxIncrement   \* maxInc.maxIncrement, of any axis

ASSUME MoveAssumption ==
  /\ Increments \subseteq [Axes -> Int]
  /\ {interpolPeriod, QSize, maxIncrement} \subseteq Nat \ {0}
  /\ Durations \subseteq Nat /\ MaxSegments \in Nat

VARIABLES
  hasData,            \* hasDataToProcess
  time, end,          \* curTrajData->time, and time of the point it goes to
  timeInc, leftover,  \* timeInc_ms, timeLeftover_ms
  segments,           \* segments so far
  short, torn,        \* a segment was shorter than a period; was left early
  queue, q_time,      \* inc_q and q_time
  at,                 \* IncMoveLoop: waits for the clock, or sends
  move,               \* moveData.grp_pos_info[].pos
  toProcess,          \* toProcessPulses
  maxSpeed,           \* maxSpeed, and maxSpeedRemain, which never differs
  prevMaxSpeed, prevMaxSpeedRemain,
  skipReadingQ, hasUnprocessedData,
  moved, owed,
  fastest,            \* most that was taken from the queue in one period
  evened,             \* new pulses came up to what was missing, other way
  ready, bStopMotion, \* Ros_Controller_IsMotionReady(), bStopMotion
  noticed,            \* the clock ticked since motion was to stop
  fresh               \* increments were queued since the queue was cleared

cuts == <<hasData, time, end, timeInc, leftover, segments, short, torn>>
speeds == <<maxSpeed, prevMaxSpeed, prevMaxSpeedRemain>>
sending == <<at, move, toProcess, speeds, skipReadingQ, hasUnprocessedData>>
ghosts == <<fastest, evened, noticed, fresh>>
vars == <<cuts, queue, q_time, sending, moved, owed, ready, bStopMotion, ghosts>>

Abs(x) == IF x < 0 THEN -x ELSE x

Zero == [a \in Axes |-> 0]
Still == [g \in Groups |-> Zero]
Plus(u, v) == [a \in Axes |-> u[a] + v[a]]
Size(u) == [a \in Axes |-> Abs(u[a])]
-----------------------------------------------------------------------------
(* Ros_MotionControl_Init of a request for all groups.  It comes after the *)
(* motion before has ended, which is when the queues were empty.  (That a  *)
(* request overtakes a segment still being cut is MotionPipeline's.)  Only *)
(* differences of times are looked at: that of the first point counts as 0.*)
InitTrajectory ==
  /\ \A g \in Groups : ~hasData[g] /\ time[g] = end[g] /\ queue[g] = <<>>
  /\ ready
  /\ hasData' = [g \in Groups |-> TRUE]
  /\ time' = [g \in Groups |-> 0] /\ end' = [g \in Groups |-> 0]
  /\ leftover' = [g \in Groups |-> 0]
  /\ q_time' = [g \in Groups |-> 0]
  /\ short' = [g \in Groups |-> FALSE] /\ torn' = [g \in Groups |-> FALSE]
  /\ UNCHANGED <<timeInc, segments, queue, sending, moved, owed, ready,
                 bStopMotion, ghosts>>

(* A segment of AddToIncQueueProcess, and its steps.                       *)
BeginSegment(g) ==
  /\ hasData[g] /\ time[g] = end[g] /\ segments[g] < MaxSegments
  /\ ~bStopMotion
  /\ segments' = [segments EXCEPT ![g] = @ + 1]
  /\ \E d \in Durations :
       /\ end' = [end EXCEPT ![g] = @ + d]
       /\ short' = [short EXCEPT ![g] = @ \/ d \in 1 .. interpolPeriod - 1]
  /\ timeInc' = [timeInc EXCEPT ![g] =
                   IF leftover[g] = 0 THEN interpolPeriod ELSE leftover[g]]
  /\ UNCHANGED <<hasData, time, leftover, torn, queue, q_time, sending, moved,
                 owed, ready, bStopMotion, ghosts>>

(* No more points, a point that is too fast, or bStopMotion.               *)
EndTrajectory(g) ==
  /\ hasData[g] /\ time[g] = end[g]
  /\ hasData' = [hasData EXCEPT ![g] = FALSE]
  /\ UNCHANGED <<time, end, timeInc, leftover, segments, short, torn, queue,
                 q_time, sending, moved, owed, ready, bStopMotion, ghosts>>

PartialStepForgets(g, calculationTime) ==
  /\ calculationTime >= end[g]
  /\ time' = [time EXCEPT ![g] = end[g]]
  /\ UNCHANGED <<timeInc, leftover>>

FullStep(g, calculationTime) ==
  /\ calculationTime < end[g]
  /\ time' = [time EXCEPT ![g] = calculationTime]
  /\ timeInc' = [timeInc EXCEPT ![g] = interpolPeriod]
  /\ leftover' =
       [leftover EXCEPT ![g] = IF timeInc[g] < interpolPeriod THEN 0 ELSE @]

(* A segment that ends with a period leaves timeLeftover_ms as it was.     *)
PartialStep(g, calculationTime) ==
  /\ calculationTime >= end[g]
  /\ time' = [time EXCEPT ![g] = end[g]]
  /\ leftover' = [leftover EXCEPT ![g] =
       IF calculationTime > end[g] THEN calculationTime - end[g] ELSE @]
  /\ UNCHANGED timeInc

Interpolate(g) ==
  LET calculationTime == time[g] + timeInc[g] IN
  /\ time[g] < end[g] /\ Len(queue[g]) < QSize
  /\ FullStep(g, calculationTime) \/ PartialStep(g, calculationTime)
  /\ \E inc \in Increments :
       queue' = [queue EXCEPT ![g] = Append(@, [time |-> time'[g], inc |-> inc])]
  /\ fresh' = TRUE
  /\ UNCHANGED <<hasData, end, segments, short, torn, q_time, sending, moved,
                 owed, ready, bStopMotion, fastest, evened, noticed>>

(* The rest of the segment is left when motion is not ready.               *)
LeaveSegment(g) ==
  /\ time[g] < end[g] /\ ~ready
  /\ time' = [time EXCEPT ![g] = end[g]]
  /\ torn' = [torn EXCEPT ![g] = TRUE]
  /\ UNCHANGED <<hasData, end, timeInc, leftover, segments, short, queue,
                 q_time, sending, moved, owed, ready, bStopMotion, ghosts>>

(* The queue is full and motion not ready, or the queue is locked up.      *)
Discard(g) ==
  /\ time[g] < end[g] /\ (Len(queue[g]) = QSize => ~ready)
  /\ time' = [time EXCEPT ![g] = end[g]]
  /\ hasData' = [hasData EXCEPT ![g] = FALSE]
  /\ UNCHANGED <<end, timeInc, leftover, segments, short, torn, queue, q_time,
                 sending, moved, owed, ready, bStopMotion, ghosts>>
-----------------------------------------------------------------------------
(* How many increments make up the period that follows q_time: the first,  *)
(* and those after it that end within a period.                            *)
CombinesAll(g) == Len(queue[g])

Combined(g) ==
  LET InPeriod(k) == queue[g][k].time - q_time[g] \in 0 .. interpolPeriod
  IN  Max({n \in 1 .. Len(queue[g]) : \A k \in 2 .. n : InPeriod(k)})

Taken(g, n) ==
  FoldLeft(LAMBDA sum, item : Plus(sum, item.inc), Zero, SubSeq(queue[g], 1, n))

HasDataInQueue == \E g \in Groups : queue[g] # <<>>
Active == ready /\ (HasDataInQueue \/ hasUnprocessedData) /\ ~bStopMotion

(* What is left of the increment sent last, new pulses added; the tracking *)
(* of one group, given its new pulses and whether they are from the queue. *)
Missing(g) == \E a \in Axes : toProcess[g][a] # moved[g][a]
DueForgets(g, new) == new
Due(g, new) == [a \in Axes |-> toProcess[g][a] - moved[g][a] + new[a]]

RemainUnprocessed(g, new) ==
  [a \in Axes |-> IF Due(g, new)[a] = 0 THEN 0
                  ELSE Abs(prevMaxSpeedRemain[g][a]) - Abs(moved[g][a])]

SkipNextForever(g, new) ==
  \/ skipReadingQ[g]
  \/ Missing(g) /\ \E a \in Axes : RemainUnprocessed(g, new)[a] > 0

(* No more is read until the pulses at the speed of the last reading are   *)
(* processed.                                                              *)
SkipNext(g, new) ==
  Missing(g) /\ \E a \in Axes : RemainUnprocessed(g, new)[a] > 0

SpeedLimitOfAxis(g, new, speed) == [a \in Axes |-> maxIncrement]

(* max_inc: the speed of the reading before, else of this one, else of the *)
(* axis.                                                                   *)
SpeedLimit(g, new, speed) ==
  LET prev == IF SkipNext(g, new) THEN prevMaxSpeed[g] ELSE speed IN
  [a \in Axes |-> IF prev[a] > 0 THEN prev[a]
                  ELSE IF speed[a] > 0 THEN speed[a] ELSE maxIncrement]

Capped(due, limit) ==
  IF Abs(due) <= limit THEN due ELSE IF due < 0 THEN -limit ELSE limit

(* An axis with nothing due keeps its new pulses in moveData.              *)
ToSend(g, new, speed) ==
  IF ~Missing(g) THEN new
  ELSE [a \in Axes |-> IF Due(g, new)[a] = 0 THEN new[a]
                       ELSE Capped(Due(g, new)[a], SpeedLimit(g, new, speed)[a])]

(* The clock ticks: every group whose queue is not locked for too long is  *)
(* read, then tracked.                                                     *)
Cycle(locked) ==
  LET Reads(g) == ~skipReadingQ[g] /\ g \notin locked /\ queue[g] # <<>>
      count == [g \in Groups |-> IF Reads(g) THEN Combined(g) ELSE 0]
      new == [g \in Groups |-> Taken(g, count[g])]
      speed == [g \in Groups |-> IF Reads(g) THEN Size(new[g]) ELSE maxSpeed[g]]
  IN
  /\ at = "clock" /\ Active
  /\ at' = "send"
  /\ queue' = [g \in Groups |-> SubSeq(queue[g], count[g] + 1, Len(queue[g]))]
  /\ q_time' = [g \in Groups |->
                  IF Reads(g) THEN queue[g][count[g]].time ELSE q_time[g]]
  /\ maxSpeed' = speed
  /\ moved' = Still                            \* prevPulsePosData
  /\ toProcess' = [g \in Groups |-> Due(g, new[g])]
  /\ hasUnprocessedData' = (\E g \in Groups : Due(g, new[g]) # Zero)
  /\ move' = [g \in Groups |-> ToSend(g, new[g], speed[g])]
  /\ skipReadingQ' = [g \in Groups |-> SkipNext(g, new[g])]
  /\ prevMaxSpeed' = [g \in Groups |->
       IF ~Missing(g) THEN Size(new[g])
       ELSE IF SkipNext(g, new[g]) THEN prevMaxSpeed[g] ELSE speed[g]]
  /\ prevMaxSpeedRemain' = [g \in Groups |->
       IF ~Missing(g) THEN Size(new[g])
       ELSE IF SkipNext(g, new[g]) THEN RemainUnprocessed(g, new[g])
       ELSE Plus(RemainUnprocessed(g, new[g]), speed[g])]
  /\ owed' = [g \in Groups |-> Plus(owed[g], new[g])]
  /\ fastest' = [g \in Groups |-> [a \in Axes |->
       IF Abs(new[g][a]) > fastest[g][a] THEN Abs(new[g][a]) ELSE fastest[g][a]]]
  /\ evened' = (evened \/ \E g \in Groups, a \in Axes :
       Missing(g) /\ new[g][a] # 0 /\ Due(g, new[g])[a] = 0)
  /\ UNCHANGED <<cuts, ready, bStopMotion, noticed, fresh>>

(* The robot processes all of an increment before the next tick, or, under *)
(* the FSU speed limit, part of it.  bStopMotion is looked at again here.  *)
Parts ==
  LET most == Max({0} \cup {Abs(move[g][a]) : g \in Groups, a \in Axes})
      Within(part, all) == IF all < 0 THEN part \in all .. 0 ELSE part \in 0 .. all
  IN  {part \in [Groups -> [Axes -> -most .. most]] :
         \A g \in Groups, a \in Axes : Within(part[g][a], move[g][a])}

Send ==
  /\ at = "send" /\ ~bStopMotion
  /\ at' = "clock"
  /\ \E part \in Parts :
       /\ moved' = [g \in Groups |-> Plus(moved[g], part[g])]
       /\ owed' = [g \in Groups |-> [a \in Axes |-> owed[g][a] - part[g][a]]]
  /\ UNCHANGED <<cuts, queue, q_time, move, toProcess, speeds, skipReadingQ,
                 hasUnprocessedData, ready, bStopMotion, ghosts>>

(* The other way: a stop, or a lost agent (looked at nowhere else).        *)
Drop ==
  /\ at = "send"
  /\ at' = "clock"
  /\ UNCHANGED <<cuts, queue, q_time, move, toProcess, speeds, skipReadingQ,
                 hasUnprocessedData, moved, owed, ready, bStopMotion, ghosts>>

(* The clock ticks with nothing to do, or no leave to do it: the tracking  *)
(* starts anew, but for skipReadingQ and the speeds.                       *)
IdleKeepsPulses ==
  /\ at = "clock" /\ ~Active
  /\ moved' = Still /\ owed' = [g \in Groups |-> toProcess[g]]
  /\ noticed' = TRUE
  /\ UNCHANGED <<cuts, queue, q_time, sending, ready, bStopMotion, fastest,
                 evened, fresh>>

Idle ==
  /\ at = "clock" /\ ~Active
  /\ toProcess' = Still
  /\ hasUnprocessedData' = FALSE
  /\ moved' = Still /\ owed' = Still
  /\ noticed' = TRUE
  /\ UNCHANGED <<cuts, queue, q_time, at, move, speeds, skipReadingQ, ready,
                 bStopMotion, fastest, evened, fresh>>
-----------------------------------------------------------------------------
(* Ros_MotionControl_StopMotion by another task, and readiness.            *)
StopRaise ==
  /\ ~bStopMotion
  /\ bStopMotion' = TRUE
  /\ noticed' = FALSE
  /\ UNCHANGED <<cuts, queue, q_time, sending, moved, owed, ready, fastest,
                 evened, fresh>>

StopClear ==
  /\ bStopMotion
  /\ hasData' = [g \in Groups |-> FALSE]
  /\ queue' = [g \in Groups |-> <<>>]
  /\ fresh' = FALSE
  /\ bStopMotion' = FALSE
  /\ torn' = [g \in Groups |-> torn[g] \/ time[g] < end[g]]
  /\ UNCHANGED <<time, end, timeInc, leftover, segments, short, q_time,
                 sending, moved, owed, ready, fastest, evened, noticed>>

ReadyChanges ==
  /\ ready' = ~ready
  /\ UNCHANGED <<cuts, queue, q_time, sending, moved, owed, bStopMotion, ghosts>>
-----------------------------------------------------------------------------
Init ==
  /\ hasData = [g \in Groups |-> FALSE]
  /\ time = [g \in Groups |-> 0] /\ end = [g \in Groups |-> 0]
  /\ timeInc = [g \in Groups |-> interpolPeriod]
  /\ leftover = [g \in Groups |-> 0]
  /\ segments = [g \in Groups |-> 0]
  /\ short = [g \in Groups |-> FALSE] /\ torn = [g \in Groups |-> FALSE]
  /\ queue = [g \in Groups |-> <<>>] /\ q_time = [g \in Groups |-> 0]
  /\ at = "clock" /\ move = Still /\ toProcess = Still
  /\ maxSpeed = Still /\ prevMaxSpeed = Still /\ prevMaxSpeedRemain = Still
  /\ skipReadingQ = [g \in Groups |-> FALSE]
  /\ hasUnprocessedData = FALSE
  /\ moved = Still /\ owed = Still /\ fastest = Still
  /\ evened = FALSE /\ noticed = TRUE /\ fresh = FALSE
  /\ ready = TRUE /\ bStopMotion = FALSE

Produce ==
  \/ InitTrajectory
  \/ \E g \in Groups : \/ BeginSegment(g) \/ Interpolate(g) \/ LeaveSegment(g)
                       \/ Discard(g) \/ EndTrajectory(g)

Tick == (\E locked \in SUBSET Groups : Cycle(locked)) \/ Idle

Next == Produce \/ Tick \/ Send \/ Drop \/ StopRaise \/ StopClear \/ ReadyChanges

Spec == Init /\ [][Next]_vars

(* The clock ticks for ever; no queue is locked for ever; and the limit    *)
(* lets something through again and again.                                 *)
Fairness ==
  /\ WF_vars(Tick) /\ SF_vars(Cycle({})) /\ WF_vars(Send \/ Drop)
  /\ SF_vars(Send /\ owed' # owed)

FairSpec == Spec /\ Fairness
-----------------------------------------------------------------------------

(* The limit lifted or not, no axis is sent more in a period than was      *)
(* asked of it in one.                                                     *)
NeverFaster ==
  \A g \in Groups, a \in Axes : Abs(move[g][a]) <= fastest[g][a]

(* The cut that ends a segment is made good at the next: from the end of a *)
(* segment, timeLeftover_ms reaches the end of a period.  (Not so after a  *)
(* segment shorter than a period, or one left early.)                      *)
LeftoverExact ==
  \A g \in Groups : hasData[g] /\ time[g] = end[g] /\ ~short[g] /\ ~torn[g] =>
     (time[g] + leftover[g]) % interpolPeriod = 0

(* A period of the robot never gets more than a period of the trajectory   *)
(* (or the gap where a segment was left early, by a stop or unreadiness).  *)
PeriodKept ==
  [][\A g \in Groups : ~torn[g] => q_time'[g] - q_time[g] <= interpolPeriod]_vars

(* IncMoveLoop stops sending only when the robot has got all it was short  *)
(* of, but for a stop or the loss of readiness, and unless new pulses of   *)
(* the opposite direction came up to exactly those that were missing:      *)
(* these are then sent although nothing is due, and nobody looks after     *)
(* them if they were the last.                                             *)
NothingLost ==
  [][Idle /\ ready /\ ~bStopMotion /\ ~evened => owed = Still]_vars

(* After a stop that lasted for a tick of the clock the robot moves for    *)
(* new increments only.                                                    *)
StopIsFinal ==
  [][Send /\ owed' # owed => ~noticed \/ fresh]_vars

(* Once left to itself the loop comes to an end with every queue.          *)
Settles ==
  <>[](ready /\ ~bStopMotion) => []<>(~HasDataInQueue /\ ~hasUnprocessedData)
=============================================================================
