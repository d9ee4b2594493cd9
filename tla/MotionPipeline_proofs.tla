------------------------ MODULE MotionPipeline_proofs ------------------------
(***************************************************************************)
(* MotionPipeline for any number of groups, points, increments and slots:  *)
(* an ended goal is still, no task takes one any further, no buffer is     *)
(* replaced under its reader, and StopMotion has the robot reject nothing. *)
(* The invariant says what the code relies on without checking it: a busy  *)
(* AddTo task has data of its group flagged (until the flag is overtaken), *)
(* nobody has any while Ros_MotionControl_Init replaces the buffers or     *)
(* after StopMotion has cleared, and flagged data is of a goal without a   *)
(* result.                                                                 *)
(***************************************************************************)
EXTENDS MotionPipeline, TLAPS

(* TypeOK, in the parts a step disturbs together.                          *)
FlagsOK ==
  /\ allInit \in BOOLEAN /\ bStopMotion \in BOOLEAN
  /\ bMpIncMoveError \in BOOLEAN /\ alarm \in BOOLEAN /\ overtaken \in BOOLEAN
  /\ status \in {"run", "held", "alarm"} /\ job \in {"run", "held"}
  /\ faults \in 0 .. MaxFaults

TrajOK ==
  /\ hasData \in [Groups -> BOOLEAN] /\ valid \in [Groups -> BOOLEAN]
  /\ iter \in [Groups -> 0 .. Points]
  /\ buf \in [Groups -> 0 .. MaxGoals] /\ seg \in [Groups -> 0 .. MaxGoals]

QueueOK ==
  /\ queue \in [Groups -> Seq(0 .. MaxGoals)]
  /\ \A g \in Groups : Len(queue[g]) <= QSize

PlaceOK ==
  /\ add \in [Groups -> {"top", "test", "nothing", "reset", "stop?", "loop",
                          "enqueue", "advance"}]
  /\ pc \in [Stoppers -> {"idle", "zero", "fill", "group", "raise", "hold",
                           "poll", "clear", "lower", "release"}]
  /\ made \in [Groups -> 0 .. Incs] /\ inits \in 0 .. NumGroups
  /\ polls \in [Stoppers -> 0 .. StopPolls] /\ keep \in [Stoppers -> BOOLEAN]

FjtOK ==
  /\ goals \in 0 .. MaxGoals /\ goal \in 0 .. goals
  /\ ended \subseteq 1 .. goals

(* Where a task is bounds its counters: only a task at a point before the  *)
(* last works on a segment, only one with increments left makes another.   *)
WithinBounds ==
  /\ \A g \in Groups :
       /\ add[g] \in {"stop?", "loop", "enqueue", "advance"} =>
            iter[g] < Points
       /\ add[g] = "enqueue" => made[g] < Incs
  /\ \A t \in Stoppers :
       /\ pc[t] = "poll" => polls[t] < StopPolls
       /\ pc[t] \in {"raise", "hold"} => polls[t] = 0

(* The executor initialises a goal that has no result yet while no other   *)
(* is active, and stops one only when there is one.                        *)
GoalPhase ==
  /\ pc["exec"] \in {"zero", "fill", "group"} =>
       goal = None /\ goals >= 1 /\ goals \notin ended
  /\ pc["exec"] \in {"raise", "hold", "poll", "clear", "lower", "release"} =>
       goal # None

(* No group has data while the buffers are replaced and once the queues    *)
(* are cleared; groups get it one after the other, of the new goal.        *)
DataOwned ==
  /\ pc["exec"] \in {"zero", "fill", "lower", "release"} => ~HasDataToProcess
  /\ pc["exec"] = "group" =>
       \A g \in Groups : /\ g > inits => ~hasData[g]
                         /\ buf[g] \in {None, goals}
  /\ \A g \in Groups : hasData[g] => buf[g] \notin ended

(* A busy task has data, and interpolates what its buffer holds.           *)
TasksUndisturbed ==
  ~overtaken => \A g \in Groups :
    /\ Busy(g) => hasData[g]
    /\ add[g] \in {"loop", "enqueue"} => seg[g] = buf[g]

(* What is queued is of goals without a result, and nothing is once the    *)
(* executor has cleared the queues.                                        *)
QueuesOfLiveGoals ==
  ~overtaken => \A g \in Groups :
    /\ \A i \in DOMAIN queue[g] : queue[g][i] \notin ended
    /\ pc["exec"] \in {"lower", "release"} => queue[g] = <<>>

(* Only a rejected increment has IncMoveLoop call StopMotion, so only then *)
(* can a second StopMotion lower the flag of the executor's.               *)
StopProtected ==
  /\ ~bMpIncMoveError => pc["inc"] = "idle"
  /\ pc["exec"] \in {"hold", "poll", "clear", "lower"} /\ ~bMpIncMoveError =>
       bStopMotion

IInv ==
  /\ FlagsOK /\ TrajOK /\ QueueOK /\ PlaceOK /\ FjtOK
  /\ WithinBounds /\ GoalPhase /\ DataOwned /\ TasksUndisturbed
  /\ QueuesOfLiveGoals /\ StopProtected
-----------------------------------------------------------------------------
(* What is left of a queue when its first increment is taken, if it has    *)
(* one: increments that were in it.                                        *)
LEMMA RestOfQueue ==
  ASSUME NEW S, NEW q \in Seq(S)
  PROVE  LET r == SubSeq(q, 2, Len(q)) IN
         /\ r \in Seq(S) /\ Len(r) <= Len(q)
         /\ \A i \in DOMAIN r : i + 1 \in DOMAIN q /\ r[i] = q[i + 1]
<1> DEFINE r == SubSeq(q, 2, Len(q))
<1>1. CASE q = <<>>
  BY <1>1
<1>2. CASE q # <<>>
  BY <1>2
<1> QED
  BY <1>1, <1>2

(* One increment taken from every queue that has one.                      *)
LEMMA RestOK ==
  ASSUME QueueOK, QueuesOfLiveGoals
  PROVE  /\ Rest \in [Groups -> Seq(0 .. MaxGoals)]
         /\ \A g \in Groups : Len(Rest[g]) <= QSize
         /\ ~overtaken => \A g \in Groups :
              /\ \A i \in DOMAIN Rest[g] : Rest[g][i] \notin ended
              /\ pc["exec"] \in {"lower", "release"} => Rest[g] = <<>>
<1>1. \A g \in Groups : /\ Rest[g] = SubSeq(queue[g], 2, Len(queue[g]))
                        /\ queue[g] \in Seq(0 .. MaxGoals)
  BY DEF Rest, QueueOK
<1>2. \A g \in Groups : /\ Rest[g] \in Seq(0 .. MaxGoals)
                        /\ Len(Rest[g]) <= Len(queue[g])
  BY <1>1, RestOfQueue
<1>3. ASSUME NEW g \in Groups PROVE Len(Rest[g]) <= QSize
  <2>1. Len(queue[g]) <= QSize /\ Len(Rest[g]) <= Len(queue[g])
    BY <1>2 DEF QueueOK
  <2>2. Len(Rest[g]) \in Nat /\ Len(queue[g]) \in Nat /\ QSize \in Nat
    BY <1>1, <1>2, SizeAssumption
  <2> QED
    BY <2>1, <2>2
<1>4. Rest \in [Groups -> Seq(0 .. MaxGoals)]
  BY <1>2 DEF Rest
<1>5. ASSUME NEW g \in Groups, NEW i \in DOMAIN Rest[g]
      PROVE  i + 1 \in DOMAIN queue[g] /\ Rest[g][i] = queue[g][i + 1]
  BY <1>1, <1>5, RestOfQueue
<1>6. \A g \in Groups : queue[g] = <<>> => Rest[g] = <<>>
  BY <1>1
<1> QED
  BY <1>3, <1>4, <1>5, <1>6 DEF QueuesOfLiveGoals

(* ClearQ_All and the refresh of the status: data flagged before may be    *)
(* flagged no more, a queue is left as it is or empty; unless overtaken,   *)
(* no task was busy if a flag went, and all queues were emptied.           *)
LEMMA Clears ==
  ASSUME NEW q \in [Groups -> Seq(0 .. MaxGoals)], ClearQ_All(q),
         overtaken \in BOOLEAN
  PROVE  /\ overtaken' \in BOOLEAN /\ (overtaken => overtaken')
         /\ hasData' = [g \in Groups |-> FALSE]
         /\ queue' \in [Groups -> Seq(0 .. MaxGoals)]
         /\ \A g \in Groups : queue'[g] = q[g] \/ queue'[g] = <<>>
         /\ ~overtaken' => \A g \in Groups : ~Busy(g) /\ queue'[g] = <<>>
<1>1. PICK cleared \in SUBSET Groups :
        /\ hasData' = [g \in Groups |-> FALSE]
        /\ overtaken' = (\/ overtaken
                          \/ \E g \in Groups :
                               Busy(g) \/ (g \notin cleared /\ q[g] # <<>>))
        /\ queue' = [g \in Groups |-> IF g \in cleared THEN <<>> ELSE q[g]]
  BY DEF ClearQ_All
<1>2. overtaken' \in BOOLEAN /\ (overtaken => overtaken')
  BY <1>1
<1>3. <<>> \in Seq(0 .. MaxGoals)
  OBVIOUS
<1>4. queue' \in [Groups -> Seq(0 .. MaxGoals)]
  BY <1>1, <1>3
<1>5. ~overtaken' => \A g \in Groups : ~Busy(g) /\ queue'[g] = <<>>
  BY <1>1
<1> QED
  BY <1>1, <1>2, <1>4, <1>5

LEMMA StatusUpdate ==
  ASSUME NEW q \in [Groups -> Seq(0 .. MaxGoals)], UpdateStatus(q),
         \A g \in Groups : Len(q[g]) <= QSize, FlagsOK, TrajOK
  PROVE  /\ overtaken' \in BOOLEAN /\ (overtaken => overtaken')
         /\ status' \in {"run", "held", "alarm"}
         /\ hasData' \in [Groups -> BOOLEAN]
         /\ \A g \in Groups : hasData'[g] => hasData[g]
         /\ queue' \in [Groups -> Seq(0 .. MaxGoals)]
         /\ \A g \in Groups : queue'[g] = q[g] \/ queue'[g] = <<>>
         /\ QueueOK'
         /\ ~overtaken' => \A g \in Groups : Busy(g) => hasData'[g] = hasData[g]
<1>1. status' \in {"run", "held", "alarm"}
  BY DEF UpdateStatus, RealStatus, FlagsOK
<1>2. CASE ClearQ_All(q)
  <2>1. /\ overtaken' \in BOOLEAN /\ (overtaken => overtaken')
        /\ hasData' = [g \in Groups |-> FALSE]
        /\ queue' \in [Groups -> Seq(0 .. MaxGoals)]
        /\ \A g \in Groups : queue'[g] = q[g] \/ queue'[g] = <<>>
        /\ ~overtaken' => \A g \in Groups : ~Busy(g)
    BY <1>2, Clears DEF FlagsOK
  <2>2. Len(<<>>) <= QSize
    BY SizeAssumption
  <2>3. \A g \in Groups : Len(queue'[g]) <= QSize
    BY <2>1, <2>2
  <2> QED
    BY <1>1, <2>1, <2>3 DEF QueueOK
<1>3. CASE queue' = q /\ UNCHANGED <<hasData, overtaken>>
  BY <1>1, <1>3 DEF FlagsOK, TrajOK, QueueOK
<1> QED
  BY <1>2, <1>3 DEF UpdateStatus

(* Ros_MotionControl_Init.  No group has data when it replaces the buffers,*)
(* so no task is busy with them, and the new goal is not one of the ended. *)
LEMMA InitStepKeepsInv ==
  IInv /\ InitStep => IInv'
<1> SUFFICES ASSUME IInv,
                    InitStep
             PROVE  IInv'
  OBVIOUS
<1> USE SizeAssumption DEF flags, robot, traj, work, stop, fjt, Groups,
    Stoppers, None
<1>0. /\ FlagsOK /\ TrajOK /\ QueueOK /\ PlaceOK /\ FjtOK
      /\ WithinBounds /\ GoalPhase /\ DataOwned /\ TasksUndisturbed
      /\ QueuesOfLiveGoals /\ StopProtected
  BY DEF IInv
<1>1. CASE InitZero
  <2>1. FlagsOK' /\ QueueOK' /\ FjtOK'
    BY <1>0, <1>1 DEF InitZero, Goto, FlagsOK, QueueOK, FjtOK
  <2>2. TrajOK'
    BY <1>0, <1>1 DEF InitZero, Goto, TrajOK
  <2>3. PlaceOK'
    BY <1>0, <1>1 DEF InitZero, Goto, PlaceOK
  <2>4. WithinBounds'
    BY <1>0, <1>1 DEF InitZero, Goto, WithinBounds, TrajOK, PlaceOK
  <2>5. GoalPhase'
    BY <1>0, <1>1 DEF InitZero, Goto, GoalPhase, PlaceOK, FjtOK
  <2>6. DataOwned'
    BY <1>0, <1>1 DEF InitZero, Goto, DataOwned, HasDataToProcess, TrajOK,
           PlaceOK, FjtOK
  <2>7. TasksUndisturbed'
    BY <1>0, <1>1 DEF InitZero, Goto, TasksUndisturbed, Busy, TrajOK, PlaceOK,
           DataOwned, HasDataToProcess
  <2>8. QueuesOfLiveGoals'
    BY <1>0, <1>1 DEF InitZero, Goto, QueuesOfLiveGoals, Busy, TrajOK,
           QueueOK, PlaceOK, FjtOK
  <2>9. StopProtected'
    BY <1>0, <1>1 DEF InitZero, Goto, StopProtected, PlaceOK
  <2> QED
    BY <2>1, <2>2, <2>3, <2>4, <2>5, <2>6, <2>7, <2>8, <2>9 DEF IInv
<1>2. CASE InitFill
  <2>1. FlagsOK' /\ QueueOK' /\ FjtOK'
    BY <1>0, <1>2 DEF InitFill, Goto, FlagsOK, QueueOK, FjtOK
  <2>2. TrajOK'
    BY <1>0, <1>2 DEF InitFill, Goto, TrajOK, FjtOK
  <2>3. PlaceOK'
    BY <1>0, <1>2 DEF InitFill, Goto, PlaceOK
  <2>4. WithinBounds'
    BY <1>0, <1>2 DEF InitFill, Goto, WithinBounds, TrajOK, PlaceOK
  <2>5. GoalPhase'
    BY <1>0, <1>2 DEF InitFill, Goto, GoalPhase, PlaceOK, FjtOK
  <2>6. DataOwned'
    BY <1>0, <1>2 DEF InitFill, Goto, DataOwned, HasDataToProcess, TrajOK,
           PlaceOK, FjtOK
  <2>7. TasksUndisturbed'
    BY <1>0, <1>2 DEF InitFill, Goto, TasksUndisturbed, Busy, TrajOK, PlaceOK,
           DataOwned, HasDataToProcess
  <2>8. QueuesOfLiveGoals'
    BY <1>0, <1>2 DEF InitFill, Goto, QueuesOfLiveGoals, Busy, TrajOK,
           QueueOK, PlaceOK, FjtOK
  <2>9. StopProtected'
    BY <1>0, <1>2 DEF InitFill, Goto, StopProtected, PlaceOK
  <2> QED
    BY <2>1, <2>2, <2>3, <2>4, <2>5, <2>6, <2>7, <2>8, <2>9 DEF IInv
<1>3. CASE InitGroup
  <2>1. FlagsOK' /\ QueueOK' /\ FjtOK' /\ GoalPhase' /\
       QueuesOfLiveGoals' /\ StopProtected'
    BY <1>0, <1>3 DEF InitGroup, FlagsOK, QueueOK, FjtOK, GoalPhase,
           QueuesOfLiveGoals, StopProtected
  <2>2. TrajOK'
    BY <1>0, <1>3 DEF InitGroup, TrajOK
  <2>3. PlaceOK'
    BY <1>0, <1>3 DEF InitGroup, PlaceOK
  <2>4. WithinBounds'
    BY <1>0, <1>3 DEF InitGroup, WithinBounds, TrajOK, PlaceOK
  <2>5. DataOwned'
    <3>1. /\ pc'["exec"] = "group" /\ inits' = inits + 1
          /\ hasData' = [hasData EXCEPT ![inits + 1] = TRUE]
          /\ UNCHANGED <<buf, goals, ended>>
      BY <1>0, <1>3 DEF InitGroup
    <3>2. \A g \in Groups : /\ g > inits => ~hasData[g]
                            /\ buf[g] \in {None, goals}
      BY <1>0, <1>3 DEF InitGroup, DataOwned
    <3>3. \A g \in Groups : buf[g] \notin ended
      BY <1>0, <1>3, <3>2 DEF InitGroup, GoalPhase, FjtOK
    <3>4. ASSUME NEW g \in Groups, g > inits' PROVE ~hasData'[g]
      BY <1>0, <3>1, <3>2, <3>4 DEF TrajOK, PlaceOK
    <3> QED
      BY <3>1, <3>2, <3>3, <3>4 DEF DataOwned
  <2>6. TasksUndisturbed'
    BY <1>0, <1>3 DEF InitGroup, TasksUndisturbed, Busy, TrajOK, PlaceOK
  <2> QED
    BY <2>1, <2>2, <2>3, <2>4, <2>5, <2>6 DEF IInv
<1>4. CASE InitGroupFails
  <2>1. QueueOK' /\ FjtOK'
    BY <1>0, <1>4 DEF InitGroupFails, Goto, ResetAllData, QueueOK, FjtOK
  <2>2. FlagsOK'
    BY <1>0, <1>4 DEF InitGroupFails, Goto, ResetAllData, FlagsOK
  <2>3. TrajOK'
    BY <1>0, <1>4 DEF InitGroupFails, Goto, ResetAllData, TrajOK
  <2>4. PlaceOK'
    BY <1>0, <1>4 DEF InitGroupFails, Goto, ResetAllData, PlaceOK
  <2>5. WithinBounds'
    BY <1>0, <1>4 DEF InitGroupFails, Goto, ResetAllData, WithinBounds,
           TrajOK, PlaceOK
  <2>6. GoalPhase'
    BY <1>0, <1>4 DEF InitGroupFails, Goto, ResetAllData, GoalPhase, PlaceOK,
           FjtOK
  <2>7. DataOwned'
    BY <1>0, <1>4 DEF InitGroupFails, Goto, ResetAllData, DataOwned,
           HasDataToProcess, TrajOK, PlaceOK, FjtOK
  <2>8. TasksUndisturbed'
    BY <1>0, <1>4 DEF InitGroupFails, Goto, ResetAllData, TasksUndisturbed,
           Busy, TrajOK, PlaceOK
  <2>9. QueuesOfLiveGoals'
    BY <1>0, <1>4 DEF InitGroupFails, Goto, ResetAllData, QueuesOfLiveGoals,
           Busy, TrajOK, QueueOK, PlaceOK, FjtOK
  <2>10. StopProtected'
    BY <1>0, <1>4 DEF InitGroupFails, Goto, ResetAllData, StopProtected,
           PlaceOK
  <2> QED
    BY <2>1, <2>2, <2>3, <2>4, <2>5, <2>6, <2>7, <2>8, <2>9, <2>10 DEF IInv
<1>5. CASE InitDone
  <2>1. TrajOK' /\ QueueOK' /\ TasksUndisturbed'
    BY <1>0, <1>5 DEF InitDone, Goto, TrajOK, QueueOK, TasksUndisturbed, Busy
  <2>2. FlagsOK'
    BY <1>0, <1>5 DEF InitDone, Goto, FlagsOK
  <2>3. PlaceOK'
    BY <1>0, <1>5 DEF InitDone, Goto, PlaceOK
  <2>4. FjtOK'
    BY <1>0, <1>5 DEF InitDone, Goto, FjtOK
  <2>5. WithinBounds'
    BY <1>0, <1>5 DEF InitDone, Goto, WithinBounds, TrajOK, PlaceOK
  <2>6. GoalPhase'
    BY <1>0, <1>5 DEF InitDone, Goto, GoalPhase, PlaceOK, FjtOK
  <2>7. DataOwned'
    BY <1>0, <1>5 DEF InitDone, Goto, DataOwned, HasDataToProcess, TrajOK,
           PlaceOK, FjtOK
  <2>8. QueuesOfLiveGoals'
    BY <1>0, <1>5 DEF InitDone, Goto, QueuesOfLiveGoals, Busy, TrajOK,
           QueueOK, PlaceOK, FjtOK
  <2>9. StopProtected'
    BY <1>0, <1>5 DEF InitDone, Goto, StopProtected, PlaceOK
  <2> QED
    BY <2>1, <2>2, <2>3, <2>4, <2>5, <2>6, <2>7, <2>8, <2>9 DEF IInv
<1> QED
  BY <1>1, <1>2, <1>3, <1>4, <1>5 DEF InitStep

(* The executor outside Ros_MotionControl_Init.  GoalComplete ends a goal  *)
(* only when it has seen all queues empty and no group with data.          *)
LEMMA GoalStepKeepsInv ==
  IInv /\ (GoalReceived \/ GoalComplete \/ GoalAbort \/ GoalCancel) => IInv'
<1> SUFFICES ASSUME IInv,
                    GoalReceived \/ GoalComplete \/ GoalAbort \/ GoalCancel
             PROVE  IInv'
  OBVIOUS
<1> USE SizeAssumption DEF flags, robot, traj, work, stop, fjt, Groups,
    Stoppers, None
<1>0. /\ FlagsOK /\ TrajOK /\ QueueOK /\ PlaceOK /\ FjtOK
      /\ WithinBounds /\ GoalPhase /\ DataOwned /\ TasksUndisturbed
      /\ QueuesOfLiveGoals /\ StopProtected
  BY DEF IInv
<1>1. CASE GoalReceived
  <2>1. TrajOK' /\ QueueOK' /\ TasksUndisturbed'
    BY <1>0, <1>1 DEF GoalReceived, HasDataToProcess, Goto, TrajOK, QueueOK,
           TasksUndisturbed, Busy
  <2>2. FlagsOK'
    BY <1>0, <1>1 DEF GoalReceived, HasDataToProcess, Goto, FlagsOK
  <2>3. PlaceOK'
    BY <1>0, <1>1 DEF GoalReceived, HasDataToProcess, Goto, PlaceOK
  <2>4. FjtOK'
    BY <1>0, <1>1 DEF GoalReceived, HasDataToProcess, Goto, FjtOK
  <2>5. WithinBounds'
    BY <1>0, <1>1 DEF GoalReceived, HasDataToProcess, Goto, WithinBounds,
           TrajOK, PlaceOK
  <2>6. GoalPhase'
    BY <1>0, <1>1 DEF GoalReceived, HasDataToProcess, Goto, GoalPhase,
           PlaceOK, FjtOK
  <2>7. DataOwned'
    BY <1>0, <1>1 DEF GoalReceived, HasDataToProcess, Goto, DataOwned, TrajOK,
           PlaceOK, FjtOK
  <2>8. QueuesOfLiveGoals'
    BY <1>0, <1>1 DEF GoalReceived, HasDataToProcess, Goto, QueuesOfLiveGoals,
           Busy, TrajOK, QueueOK, PlaceOK, FjtOK
  <2>9. StopProtected'
    BY <1>0, <1>1 DEF GoalReceived, HasDataToProcess, Goto, StopProtected,
           PlaceOK
  <2> QED
    BY <2>1, <2>2, <2>3, <2>4, <2>5, <2>6, <2>7, <2>8, <2>9 DEF IInv
<1>2. CASE GoalComplete
  <2>1. FlagsOK' /\ TrajOK' /\ QueueOK' /\ PlaceOK' /\
       WithinBounds' /\ TasksUndisturbed' /\ StopProtected'
    BY <1>0, <1>2 DEF GoalComplete, End, HasDataToProcess, HasDataInQueue,
           FlagsOK, TrajOK, QueueOK, PlaceOK, WithinBounds,
           TasksUndisturbed, StopProtected, Busy
  <2>2. FjtOK'
    BY <1>0, <1>2 DEF GoalComplete, End, HasDataToProcess, HasDataInQueue,
           FjtOK
  <2>3. GoalPhase'
    BY <1>0, <1>2 DEF GoalComplete, End, HasDataToProcess, HasDataInQueue,
           GoalPhase, PlaceOK, FjtOK
  <2>4. DataOwned'
    BY <1>0, <1>2 DEF GoalComplete, End, HasDataToProcess, HasDataInQueue,
           DataOwned, TrajOK, PlaceOK, FjtOK
  <2>5. QueuesOfLiveGoals'
    BY <1>0, <1>2 DEF GoalComplete, End, HasDataToProcess, HasDataInQueue,
           QueuesOfLiveGoals, Busy, TrajOK, QueueOK, PlaceOK, FjtOK
  <2> QED
    BY <2>1, <2>2, <2>3, <2>4, <2>5 DEF IInv
<1>3. CASE GoalAbort
  <2>1. FlagsOK' /\ TrajOK' /\ QueueOK' /\ FjtOK' /\
       TasksUndisturbed'
    BY <1>0, <1>3 DEF GoalAbort, CallStopMotion, Goto, FlagsOK, TrajOK,
           QueueOK, FjtOK, TasksUndisturbed, Busy
  <2>2. PlaceOK'
    BY <1>0, <1>3 DEF GoalAbort, CallStopMotion, Goto, PlaceOK
  <2>3. WithinBounds'
    BY <1>0, <1>3 DEF GoalAbort, CallStopMotion, Goto, WithinBounds, TrajOK,
           PlaceOK
  <2>4. GoalPhase'
    BY <1>0, <1>3 DEF GoalAbort, CallStopMotion, Goto, GoalPhase, PlaceOK,
           FjtOK
  <2>5. DataOwned'
    BY <1>0, <1>3 DEF GoalAbort, CallStopMotion, Goto, DataOwned,
           HasDataToProcess, TrajOK, PlaceOK, FjtOK
  <2>6. QueuesOfLiveGoals'
    BY <1>0, <1>3 DEF GoalAbort, CallStopMotion, Goto, QueuesOfLiveGoals,
           Busy, TrajOK, QueueOK, PlaceOK, FjtOK
  <2>7. StopProtected'
    BY <1>0, <1>3 DEF GoalAbort, CallStopMotion, Goto, StopProtected, PlaceOK
  <2> QED
    BY <2>1, <2>2, <2>3, <2>4, <2>5, <2>6, <2>7 DEF IInv
<1>4. CASE GoalCancel
  <2>1. FlagsOK' /\ TrajOK' /\ QueueOK' /\ FjtOK' /\
       TasksUndisturbed'
    BY <1>0, <1>4 DEF GoalCancel, CallStopMotion, Goto, FlagsOK, TrajOK,
           QueueOK, FjtOK, TasksUndisturbed, Busy
  <2>2. PlaceOK'
    BY <1>0, <1>4 DEF GoalCancel, CallStopMotion, Goto, PlaceOK
  <2>3. WithinBounds'
    BY <1>0, <1>4 DEF GoalCancel, CallStopMotion, Goto, WithinBounds, TrajOK,
           PlaceOK
  <2>4. GoalPhase'
    BY <1>0, <1>4 DEF GoalCancel, CallStopMotion, Goto, GoalPhase, PlaceOK,
           FjtOK
  <2>5. DataOwned'
    BY <1>0, <1>4 DEF GoalCancel, CallStopMotion, Goto, DataOwned,
           HasDataToProcess, TrajOK, PlaceOK, FjtOK
  <2>6. QueuesOfLiveGoals'
    BY <1>0, <1>4 DEF GoalCancel, CallStopMotion, Goto, QueuesOfLiveGoals,
           Busy, TrajOK, QueueOK, PlaceOK, FjtOK
  <2>7. StopProtected'
    BY <1>0, <1>4 DEF GoalCancel, CallStopMotion, Goto, StopProtected, PlaceOK
  <2> QED
    BY <2>1, <2>2, <2>3, <2>4, <2>5, <2>6, <2>7 DEF IInv
<1> QED
  BY <1>1, <1>2, <1>3, <1>4

(* StopMotion.  What it ends was cleared by StopClear, and no task refills *)
(* a queue between there and StopReturn unless the flag was overtaken.     *)
LEMMA StopStepKeepsInv ==
  \A t \in Stoppers : IInv /\ StopStep(t) => IInv'
<1> SUFFICES ASSUME NEW t \in Stoppers, IInv, StopStep(t) PROVE IInv'
  OBVIOUS
<1> USE SizeAssumption DEF flags, robot, traj, work, stop, fjt, Groups,
    Stoppers, None
<1>0. /\ FlagsOK /\ TrajOK /\ QueueOK /\ PlaceOK /\ FjtOK
      /\ WithinBounds /\ GoalPhase /\ DataOwned /\ TasksUndisturbed
      /\ QueuesOfLiveGoals /\ StopProtected
  BY DEF IInv
<1>1. CASE StopRaise(t)
  <2>1. TrajOK' /\ QueueOK' /\ FjtOK' /\ TasksUndisturbed'
    BY <1>0, <1>1 DEF StopRaise, Goto, TrajOK, QueueOK, FjtOK,
           TasksUndisturbed, Busy
  <2>2. FlagsOK'
    BY <1>0, <1>1 DEF StopRaise, Goto, FlagsOK
  <2>3. PlaceOK'
    BY <1>0, <1>1 DEF StopRaise, Goto, PlaceOK
  <2>4. WithinBounds'
    BY <1>0, <1>1 DEF StopRaise, Goto, WithinBounds, TrajOK, PlaceOK
  <2>5. GoalPhase'
    BY <1>0, <1>1 DEF StopRaise, Goto, GoalPhase, PlaceOK, FjtOK
  <2>6. DataOwned'
    BY <1>0, <1>1 DEF StopRaise, Goto, DataOwned, HasDataToProcess, TrajOK,
           PlaceOK, FjtOK
  <2>7. QueuesOfLiveGoals'
    BY <1>0, <1>1 DEF StopRaise, Goto, QueuesOfLiveGoals, Busy, TrajOK,
           QueueOK, PlaceOK, FjtOK
  <2>8. StopProtected'
    BY <1>0, <1>1 DEF StopRaise, Goto, StopProtected, PlaceOK
  <2> QED
    BY <2>1, <2>2, <2>3, <2>4, <2>5, <2>6, <2>7, <2>8 DEF IInv
<1>2. CASE StopHold(t)
  <2>1. TrajOK' /\ QueueOK' /\ FjtOK' /\ TasksUndisturbed'
    BY <1>0, <1>2 DEF StopHold, Goto, TrajOK, QueueOK, FjtOK,
           TasksUndisturbed, Busy
  <2>2. FlagsOK'
    BY <1>0, <1>2 DEF StopHold, Goto, FlagsOK
  <2>3. PlaceOK'
    BY <1>0, <1>2 DEF StopHold, Goto, PlaceOK
  <2>4. WithinBounds'
    BY <1>0, <1>2 DEF StopHold, Goto, WithinBounds, TrajOK, PlaceOK
  <2>5. GoalPhase'
    BY <1>0, <1>2 DEF StopHold, Goto, GoalPhase, PlaceOK, FjtOK
  <2>6. DataOwned'
    BY <1>0, <1>2 DEF StopHold, Goto, DataOwned, HasDataToProcess, TrajOK,
           PlaceOK, FjtOK
  <2>7. QueuesOfLiveGoals'
    BY <1>0, <1>2 DEF StopHold, Goto, QueuesOfLiveGoals, Busy, TrajOK,
           QueueOK, PlaceOK, FjtOK
  <2>8. StopProtected'
    BY <1>0, <1>2 DEF StopHold, Goto, StopProtected, PlaceOK
  <2> QED
    BY <2>1, <2>2, <2>3, <2>4, <2>5, <2>6, <2>7, <2>8 DEF IInv
<1>3. CASE StopPoll(t)
  <2>1. FlagsOK' /\ TrajOK' /\ QueueOK' /\ FjtOK' /\
       TasksUndisturbed'
    BY <1>0, <1>3 DEF StopPoll, Goto, FlagsOK, TrajOK, QueueOK, FjtOK,
           TasksUndisturbed, Busy
  <2>2. PlaceOK'
    BY <1>0, <1>3 DEF StopPoll, Goto, PlaceOK, WithinBounds
  <2>3. WithinBounds'
    BY <1>0, <1>3 DEF StopPoll, Goto, WithinBounds, TrajOK, PlaceOK
  <2>4. GoalPhase'
    BY <1>0, <1>3 DEF StopPoll, Goto, GoalPhase, PlaceOK, FjtOK
  <2>5. DataOwned'
    BY <1>0, <1>3 DEF StopPoll, Goto, DataOwned, HasDataToProcess, TrajOK,
           PlaceOK, FjtOK
  <2>6. QueuesOfLiveGoals'
    BY <1>0, <1>3 DEF StopPoll, Goto, QueuesOfLiveGoals, Busy, TrajOK,
           QueueOK, PlaceOK, FjtOK
  <2>7. StopProtected'
    BY <1>0, <1>3 DEF StopPoll, Goto, StopProtected, PlaceOK
  <2> QED
    BY <2>1, <2>2, <2>3, <2>4, <2>5, <2>6, <2>7 DEF IInv
<1>4. CASE StopClear(t)
  <2>0. /\ overtaken' \in BOOLEAN /\ (overtaken => overtaken')
        /\ hasData' = [g \in Groups |-> FALSE]
        /\ queue' \in [Groups -> Seq(0 .. MaxGoals)]
        /\ \A g \in Groups : queue'[g] = queue[g] \/ queue'[g] = <<>>
        /\ ~overtaken' => \A g \in Groups : ~Busy(g) /\ queue'[g] = <<>>
    BY <1>0, <1>4, Clears DEF StopClear, FlagsOK, QueueOK
  <2>1. FjtOK'
    BY <1>0, <1>4 DEF StopClear, FjtOK
  <2>2. FlagsOK'
    BY <1>0, <1>4, <2>0 DEF StopClear, FlagsOK
  <2>3. TrajOK'
    BY <1>0, <1>4, <2>0 DEF StopClear, TrajOK
  <2>4. QueueOK'
    <3>1. Len(<<>>) <= QSize
      OBVIOUS
    <3> QED
      BY <1>0, <2>0, <3>1 DEF QueueOK
  <2>5. PlaceOK'
    BY <1>0, <1>4 DEF StopClear, Goto, PlaceOK
  <2>6. WithinBounds'
    BY <1>0, <1>4 DEF StopClear, Goto, WithinBounds, TrajOK, PlaceOK
  <2>7. GoalPhase'
    BY <1>0, <1>4 DEF StopClear, Goto, GoalPhase, PlaceOK, FjtOK
  <2>8. DataOwned'
    <3>1. \A g \in Groups : ~hasData'[g]
      BY <2>0
    <3> QED
      BY <1>0, <1>4, <3>1 DEF StopClear, Goto, DataOwned, HasDataToProcess,
         PlaceOK
  <2>9. TasksUndisturbed'
    BY <1>0, <1>4, <2>0 DEF StopClear, TasksUndisturbed, Busy
  <2>10. QueuesOfLiveGoals'
    BY <1>0, <1>4, <2>0 DEF StopClear, QueuesOfLiveGoals
  <2>11. StopProtected'
    BY <1>0, <1>4 DEF StopClear, Goto, StopProtected, PlaceOK
  <2> QED
    BY <2>1, <2>2, <2>3, <2>4, <2>5, <2>6, <2>7, <2>8, <2>9, <2>10,
       <2>11 DEF IInv
<1>5. CASE StopLower(t)
  <2>1. TrajOK' /\ QueueOK' /\ FjtOK' /\ TasksUndisturbed'
    BY <1>0, <1>5 DEF StopLower, Goto, TrajOK, QueueOK, FjtOK,
           TasksUndisturbed, Busy
  <2>2. FlagsOK'
    BY <1>0, <1>5 DEF StopLower, Goto, FlagsOK
  <2>3. PlaceOK'
    BY <1>0, <1>5 DEF StopLower, Goto, PlaceOK
  <2>4. WithinBounds'
    BY <1>0, <1>5 DEF StopLower, Goto, WithinBounds, TrajOK, PlaceOK
  <2>5. GoalPhase'
    BY <1>0, <1>5 DEF StopLower, Goto, GoalPhase, PlaceOK, FjtOK
  <2>6. DataOwned'
    BY <1>0, <1>5 DEF StopLower, Goto, DataOwned, HasDataToProcess, TrajOK,
           PlaceOK, FjtOK
  <2>7. QueuesOfLiveGoals'
    BY <1>0, <1>5 DEF StopLower, Goto, QueuesOfLiveGoals, Busy, TrajOK,
           QueueOK, PlaceOK, FjtOK
  <2>8. StopProtected'
    BY <1>0, <1>5 DEF StopLower, Goto, StopProtected, PlaceOK
  <2> QED
    BY <2>1, <2>2, <2>3, <2>4, <2>5, <2>6, <2>7, <2>8 DEF IInv
<1>6. CASE StopReturn(t)
  <2>1. TrajOK' /\ QueueOK' /\ TasksUndisturbed'
    BY <1>0, <1>6 DEF StopReturn, Goto, End, TrajOK, QueueOK,
           TasksUndisturbed, Busy
  <2>2. FlagsOK'
    BY <1>0, <1>6 DEF StopReturn, Goto, End, FlagsOK
  <2>3. PlaceOK'
    BY <1>0, <1>6 DEF StopReturn, Goto, End, PlaceOK
  <2>4. FjtOK'
    <3>1. CASE t = "exec"
      <4>1. goal \in 1 .. goals
        BY <1>0, <1>6, <3>1 DEF StopReturn, FjtOK, GoalPhase
      <4>2. goal' = None /\ goals' = goals /\ ended' = ended \cup {goal}
        BY <1>6, <3>1 DEF StopReturn, End
      <4> QED
        BY <1>0, <4>1, <4>2 DEF FjtOK
    <3>2. CASE t # "exec"
      BY <1>0, <1>6, <3>2 DEF StopReturn, FjtOK
    <3> QED
      BY <3>1, <3>2
  <2>5. WithinBounds'
    BY <1>0, <1>6 DEF StopReturn, Goto, End, WithinBounds, TrajOK, PlaceOK
  <2>6. GoalPhase'
    BY <1>0, <1>6 DEF StopReturn, Goto, End, GoalPhase, PlaceOK, FjtOK
  <2>7. DataOwned'
    BY <1>0, <1>6 DEF StopReturn, Goto, End, DataOwned, HasDataToProcess,
           TrajOK, PlaceOK, FjtOK
  <2>8. QueuesOfLiveGoals'
    BY <1>0, <1>6 DEF StopReturn, Goto, End, QueuesOfLiveGoals, Busy, TrajOK,
           QueueOK, PlaceOK, FjtOK
  <2>9. StopProtected'
    BY <1>0, <1>6 DEF StopReturn, Goto, End, StopProtected, PlaceOK
  <2> QED
    BY <2>1, <2>2, <2>3, <2>4, <2>5, <2>6, <2>7, <2>8, <2>9 DEF IInv
<1> QED
  BY <1>1, <1>2, <1>3, <1>4, <1>5, <1>6 DEF StopStep

(* The AddTo task of a group works only on its own group's state.          *)
LEMMA AddStepKeepsInv ==
  \A g \in Groups : IInv /\ AddStep(g) => IInv'
<1> SUFFICES ASSUME NEW g \in Groups, IInv, AddStep(g) PROVE IInv'
  OBVIOUS
<1> USE SizeAssumption DEF flags, robot, traj, work, stop, fjt, Groups,
    Stoppers, None
<1>0. /\ FlagsOK /\ TrajOK /\ QueueOK /\ PlaceOK /\ FjtOK
      /\ WithinBounds /\ GoalPhase /\ DataOwned /\ TasksUndisturbed
      /\ QueuesOfLiveGoals /\ StopProtected
  BY DEF IInv
<1>1. CASE AddTop(g)
  <2>1. FlagsOK' /\ TrajOK' /\ QueueOK' /\ FjtOK' /\ GoalPhase' /\
       DataOwned' /\ QueuesOfLiveGoals' /\ StopProtected'
    BY <1>0, <1>1 DEF AddTop, AddGoto, FlagsOK, TrajOK, QueueOK, FjtOK,
           GoalPhase, DataOwned, QueuesOfLiveGoals, StopProtected,
           HasDataToProcess
  <2>2. PlaceOK'
    BY <1>0, <1>1 DEF AddTop, AddGoto, PlaceOK
  <2>3. WithinBounds'
    BY <1>0, <1>1 DEF AddTop, AddGoto, WithinBounds, TrajOK, PlaceOK
  <2>4. TasksUndisturbed'
    BY <1>0, <1>1 DEF AddTop, AddGoto, TasksUndisturbed, Busy, TrajOK, PlaceOK
  <2> QED
    BY <2>1, <2>2, <2>3, <2>4 DEF IInv
<1>2. CASE AddTest(g)
  <2>1. FlagsOK' /\ TrajOK' /\ QueueOK' /\ FjtOK' /\ GoalPhase' /\
       DataOwned' /\ QueuesOfLiveGoals' /\ StopProtected'
    BY <1>0, <1>2 DEF AddTest, AddGoto, PointToProcess, FlagsOK, TrajOK,
           QueueOK, FjtOK, GoalPhase, DataOwned, QueuesOfLiveGoals,
           StopProtected, HasDataToProcess
  <2>2. PlaceOK'
    BY <1>0, <1>2 DEF AddTest, AddGoto, PointToProcess, PlaceOK
  <2>3. WithinBounds'
    BY <1>0, <1>2 DEF AddTest, AddGoto, PointToProcess, WithinBounds, TrajOK,
           PlaceOK
  <2>4. TasksUndisturbed'
    BY <1>0, <1>2 DEF AddTest, AddGoto, PointToProcess, TasksUndisturbed,
           Busy, TrajOK, PlaceOK
  <2> QED
    BY <2>1, <2>2, <2>3, <2>4 DEF IInv
<1>3. CASE AddNothing(g)
  <2>1. FlagsOK' /\ QueueOK' /\ FjtOK' /\ GoalPhase' /\
       QueuesOfLiveGoals' /\ StopProtected'
    BY <1>0, <1>3 DEF AddNothing, AddGoto, ZeroBuffer, FlagsOK, QueueOK,
           FjtOK, GoalPhase, QueuesOfLiveGoals, StopProtected
  <2>2. TrajOK'
    BY <1>0, <1>3 DEF AddNothing, AddGoto, ZeroBuffer, TrajOK
  <2>3. PlaceOK'
    BY <1>0, <1>3 DEF AddNothing, AddGoto, ZeroBuffer, PlaceOK
  <2>4. WithinBounds'
    BY <1>0, <1>3 DEF AddNothing, AddGoto, ZeroBuffer, WithinBounds, TrajOK,
           PlaceOK
  <2>5. DataOwned'
    BY <1>0, <1>3 DEF AddNothing, AddGoto, ZeroBuffer, DataOwned,
           HasDataToProcess, TrajOK, PlaceOK, FjtOK
  <2>6. TasksUndisturbed'
    BY <1>0, <1>3 DEF AddNothing, AddGoto, ZeroBuffer, TasksUndisturbed, Busy,
           TrajOK, PlaceOK
  <2> QED
    BY <2>1, <2>2, <2>3, <2>4, <2>5, <2>6 DEF IInv
<1>4. CASE AddReset(g)
  <2>1. FlagsOK' /\ QueueOK' /\ FjtOK' /\ GoalPhase' /\
       QueuesOfLiveGoals' /\ StopProtected'
    BY <1>0, <1>4 DEF AddReset, AddGoto, FlagsOK, QueueOK, FjtOK, GoalPhase,
           QueuesOfLiveGoals, StopProtected
  <2>2. TrajOK'
    BY <1>0, <1>4 DEF AddReset, AddGoto, TrajOK
  <2>3. PlaceOK'
    BY <1>0, <1>4 DEF AddReset, AddGoto, PlaceOK
  <2>4. WithinBounds'
    BY <1>0, <1>4 DEF AddReset, AddGoto, WithinBounds, TrajOK, PlaceOK
  <2>5. DataOwned'
    BY <1>0, <1>4 DEF AddReset, AddGoto, DataOwned, HasDataToProcess, TrajOK,
           PlaceOK, FjtOK
  <2>6. TasksUndisturbed'
    BY <1>0, <1>4 DEF AddReset, AddGoto, TasksUndisturbed, Busy, TrajOK,
           PlaceOK
  <2> QED
    BY <2>1, <2>2, <2>3, <2>4, <2>5, <2>6 DEF IInv
<1>5. CASE AddDrop(g)
  <2>1. FlagsOK' /\ QueueOK' /\ FjtOK' /\ GoalPhase' /\
       QueuesOfLiveGoals' /\ StopProtected'
    BY <1>0, <1>5 DEF AddDrop, AddGoto, ZeroBuffer, FlagsOK, QueueOK, FjtOK,
           GoalPhase, QueuesOfLiveGoals, StopProtected
  <2>2. TrajOK'
    BY <1>0, <1>5 DEF AddDrop, AddGoto, ZeroBuffer, TrajOK
  <2>3. PlaceOK'
    BY <1>0, <1>5 DEF AddDrop, AddGoto, ZeroBuffer, PlaceOK
  <2>4. WithinBounds'
    BY <1>0, <1>5 DEF AddDrop, AddGoto, ZeroBuffer, WithinBounds, TrajOK,
           PlaceOK
  <2>5. DataOwned'
    BY <1>0, <1>5 DEF AddDrop, AddGoto, ZeroBuffer, DataOwned,
           HasDataToProcess, TrajOK, PlaceOK, FjtOK
  <2>6. TasksUndisturbed'
    BY <1>0, <1>5 DEF AddDrop, AddGoto, ZeroBuffer, TasksUndisturbed, Busy,
           TrajOK, PlaceOK
  <2> QED
    BY <2>1, <2>2, <2>3, <2>4, <2>5, <2>6 DEF IInv
<1>6. CASE AddSegment(g)
  <2>1. FlagsOK' /\ QueueOK' /\ FjtOK' /\ GoalPhase' /\
       DataOwned' /\ QueuesOfLiveGoals' /\ StopProtected'
    BY <1>0, <1>6 DEF AddSegment, AddGoto, FlagsOK, QueueOK, FjtOK, GoalPhase,
           DataOwned, QueuesOfLiveGoals, StopProtected, HasDataToProcess
  <2>2. TrajOK'
    BY <1>0, <1>6 DEF AddSegment, AddGoto, TrajOK
  <2>3. PlaceOK'
    BY <1>0, <1>6 DEF AddSegment, AddGoto, PlaceOK
  <2>4. WithinBounds'
    BY <1>0, <1>6 DEF AddSegment, AddGoto, WithinBounds, TrajOK, PlaceOK
  <2>5. TasksUndisturbed'
    BY <1>0, <1>6 DEF AddSegment, AddGoto, TasksUndisturbed, Busy, TrajOK,
           PlaceOK
  <2> QED
    BY <2>1, <2>2, <2>3, <2>4, <2>5 DEF IInv
<1>7. CASE AddLoop(g)
  <2>1. FlagsOK' /\ TrajOK' /\ QueueOK' /\ FjtOK' /\ GoalPhase' /\
       DataOwned' /\ QueuesOfLiveGoals' /\ StopProtected'
    BY <1>0, <1>7 DEF AddLoop, AddGoto, FlagsOK, TrajOK, QueueOK, FjtOK,
           GoalPhase, DataOwned, QueuesOfLiveGoals, StopProtected,
           HasDataToProcess
  <2>2. PlaceOK'
    BY <1>0, <1>7 DEF AddLoop, AddGoto, PlaceOK
  <2>3. WithinBounds'
    BY <1>0, <1>7 DEF AddLoop, AddGoto, WithinBounds, TrajOK, PlaceOK
  <2>4. TasksUndisturbed'
    BY <1>0, <1>7 DEF AddLoop, AddGoto, TasksUndisturbed, Busy, TrajOK,
           PlaceOK
  <2> QED
    BY <2>1, <2>2, <2>3, <2>4 DEF IInv
<1>8. CASE AddEnqueue(g)
  <2>1. FlagsOK' /\ TrajOK' /\ FjtOK' /\ GoalPhase' /\
       DataOwned' /\ StopProtected'
    BY <1>0, <1>8 DEF AddEnqueue, AddGoto, FlagsOK, TrajOK, FjtOK, GoalPhase,
           DataOwned, StopProtected, HasDataToProcess
  <2>2. QueueOK'
    BY <1>0, <1>8 DEF AddEnqueue, AddGoto, QueueOK, TrajOK
  <2>3. PlaceOK'
    <3>1. made[g] + 1 \in 0 .. Incs
      BY <1>0, <1>8 DEF AddEnqueue, PlaceOK, WithinBounds
    <3> QED
      BY <1>0, <1>8, <3>1 DEF AddEnqueue, AddGoto, PlaceOK
  <2>4. WithinBounds'
    BY <1>0, <1>8 DEF AddEnqueue, AddGoto, WithinBounds, TrajOK, PlaceOK
  <2>5. TasksUndisturbed'
    BY <1>0, <1>8 DEF AddEnqueue, AddGoto, TasksUndisturbed, Busy, TrajOK,
           PlaceOK
  <2>6. QueuesOfLiveGoals'
    <3>1. ~overtaken => seg[g] \notin ended
      BY <1>0, <1>8 DEF AddEnqueue, TasksUndisturbed, DataOwned, Busy
    <3>2. ~overtaken => pc["exec"] \notin {"lower", "release"}
      BY <1>0, <1>8 DEF AddEnqueue, TasksUndisturbed, DataOwned, Busy,
         HasDataToProcess
    <3>3. ASSUME NEW i \in DOMAIN queue'[g], ~overtaken
          PROVE  queue'[g][i] \notin ended
      BY <1>0, <1>8, <3>1, <3>3 DEF AddEnqueue, QueuesOfLiveGoals, QueueOK,
         TrajOK
    <3> QED
      BY <1>0, <1>8, <3>2, <3>3 DEF AddEnqueue, QueuesOfLiveGoals, QueueOK
  <2> QED
    BY <2>1, <2>2, <2>3, <2>4, <2>5, <2>6 DEF IInv
<1>9. CASE AddGiveUp(g)
  <2>1. FlagsOK' /\ QueueOK' /\ FjtOK' /\ GoalPhase' /\
       QueuesOfLiveGoals' /\ StopProtected'
    BY <1>0, <1>9 DEF AddGiveUp, AddGoto, ZeroBuffer, FlagsOK, QueueOK, FjtOK,
           GoalPhase, QueuesOfLiveGoals, StopProtected
  <2>2. TrajOK'
    BY <1>0, <1>9 DEF AddGiveUp, AddGoto, ZeroBuffer, TrajOK
  <2>3. PlaceOK'
    BY <1>0, <1>9 DEF AddGiveUp, AddGoto, ZeroBuffer, PlaceOK
  <2>4. WithinBounds'
    BY <1>0, <1>9 DEF AddGiveUp, AddGoto, ZeroBuffer, WithinBounds, TrajOK,
           PlaceOK
  <2>5. DataOwned'
    BY <1>0, <1>9 DEF AddGiveUp, AddGoto, ZeroBuffer, DataOwned,
           HasDataToProcess, TrajOK, PlaceOK, FjtOK
  <2>6. TasksUndisturbed'
    BY <1>0, <1>9 DEF AddGiveUp, AddGoto, ZeroBuffer, TasksUndisturbed, Busy,
           TrajOK, PlaceOK
  <2> QED
    BY <2>1, <2>2, <2>3, <2>4, <2>5, <2>6 DEF IInv
<1>10. CASE AddAdvance(g)
  <2>1. FlagsOK' /\ QueueOK' /\ FjtOK' /\ GoalPhase' /\
       DataOwned' /\ QueuesOfLiveGoals' /\ StopProtected'
    BY <1>0, <1>10 DEF AddAdvance, AddGoto, FlagsOK, QueueOK, FjtOK,
           GoalPhase, DataOwned, QueuesOfLiveGoals, StopProtected,
           HasDataToProcess
  <2>2. TrajOK'
    <3>1. iter[g] + 1 \in 0 .. Points
      BY <1>0, <1>10 DEF AddAdvance, TrajOK, WithinBounds
    <3> QED
      BY <1>0, <1>10, <3>1 DEF AddAdvance, TrajOK
  <2>3. PlaceOK'
    BY <1>0, <1>10 DEF AddAdvance, AddGoto, PlaceOK
  <2>4. WithinBounds'
    BY <1>0, <1>10 DEF AddAdvance, AddGoto, WithinBounds, TrajOK, PlaceOK
  <2>5. TasksUndisturbed'
    BY <1>0, <1>10 DEF AddAdvance, AddGoto, TasksUndisturbed, Busy, TrajOK,
           PlaceOK
  <2> QED
    BY <2>1, <2>2, <2>3, <2>4, <2>5 DEF IInv
<1> QED
  BY <1>1, <1>2, <1>3, <1>4, <1>5, <1>6, <1>7, <1>8, <1>9, <1>10 DEF AddStep

(* IncMoveLoop, the status task and the robot only take from the queues or *)
(* empty them.                                                             *)
LEMMA RobotStepKeepsInv ==
  IInv /\ (IncStep \/ IoStatusUpdate \/ RobotStops \/ OperatorResumes) => IInv'
<1> SUFFICES ASSUME IInv,
                    IncStep \/ IoStatusUpdate \/ RobotStops \/ OperatorResumes
             PROVE  IInv'
  OBVIOUS
<1> USE SizeAssumption DEF flags, robot, traj, work, stop, fjt, Groups,
    Stoppers, None
<1>0. /\ FlagsOK /\ TrajOK /\ QueueOK /\ PlaceOK /\ FjtOK
      /\ WithinBounds /\ GoalPhase /\ DataOwned /\ TasksUndisturbed
      /\ QueuesOfLiveGoals /\ StopProtected
  BY DEF IInv
<1>1. CASE IncAccepted
  <2>1. FlagsOK' /\ TrajOK' /\ PlaceOK' /\ FjtOK' /\
       WithinBounds' /\ GoalPhase' /\ DataOwned' /\
       TasksUndisturbed' /\ StopProtected'
    BY <1>0, <1>1 DEF IncAccepted, FlagsOK, TrajOK, PlaceOK, FjtOK,
           WithinBounds, GoalPhase, DataOwned, TasksUndisturbed,
           StopProtected, HasDataToProcess, Busy
  <2>2. QueueOK' /\ QueuesOfLiveGoals'
    BY <1>0, <1>1, RestOK DEF IncAccepted, QueueOK, QueuesOfLiveGoals
  <2> QED
    BY <2>1, <2>2 DEF IInv
<1>2. CASE IncRejected
  <2>1. TrajOK' /\ QueueOK'
    BY <1>0, <1>2, RestOK, StatusUpdate DEF IncRejected, TrajOK
  <2>2. FlagsOK'
    <3>1. overtaken' \in BOOLEAN /\ status' \in {"run", "held", "alarm"}
      BY <1>0, <1>2, RestOK, StatusUpdate DEF IncRejected
    <3>2. bMpIncMoveError' = TRUE
      BY <1>2 DEF IncRejected
    <3> QED
      BY <1>0, <1>2, <3>1, <3>2 DEF IncRejected, FlagsOK
  <2>3. FjtOK'
    BY <1>0, <1>2 DEF IncRejected, FjtOK
  <2>4. PlaceOK'
    BY <1>0, <1>2 DEF IncRejected, CallStopMotion, Goto, PlaceOK
  <2>5. WithinBounds'
    BY <1>0, <1>2 DEF IncRejected, CallStopMotion, Goto, WithinBounds, PlaceOK
  <2>6. pc'["exec"] = pc["exec"]
    BY <1>0, <1>2 DEF IncRejected, CallStopMotion, Goto, PlaceOK
  <2>7. GoalPhase'
    BY <1>0, <1>2, <2>6 DEF IncRejected, GoalPhase
  <2>8. DataOwned'
    <3>1. \A g \in Groups : hasData'[g] => hasData[g]
      BY <1>0, <1>2, RestOK, StatusUpdate DEF IncRejected
    <3> QED
      BY <1>0, <1>2, <2>6, <3>1 DEF IncRejected, DataOwned, HasDataToProcess
  <2>9. TasksUndisturbed'
    BY <1>0, <1>2, RestOK, StatusUpdate DEF IncRejected, TasksUndisturbed, Busy
  <2>10. QueuesOfLiveGoals'
    BY <1>0, <1>2, <2>6, RestOK, StatusUpdate DEF IncRejected, QueuesOfLiveGoals
  <2>11. StopProtected'
    BY <1>0, <1>2 DEF IncRejected, StopProtected
  <2> QED
    BY <2>1, <2>2, <2>3, <2>4, <2>5, <2>7, <2>8, <2>9, <2>10, <2>11 DEF IInv
<1>3. CASE IoStatusUpdate
  <2>1. PlaceOK' /\ FjtOK' /\ WithinBounds' /\ GoalPhase' /\ StopProtected'
    BY <1>0, <1>3 DEF IoStatusUpdate, PlaceOK, FjtOK, WithinBounds, GoalPhase,
           StopProtected
  <2>2. FlagsOK'
    BY <1>0, <1>3, StatusUpdate DEF IoStatusUpdate, FlagsOK, QueueOK
  <2>3. TrajOK' /\ QueueOK'
    BY <1>0, <1>3, StatusUpdate DEF IoStatusUpdate, TrajOK, QueueOK
  <2>4. DataOwned'
    <3>1. \A g \in Groups : hasData'[g] => hasData[g]
      BY <1>0, <1>3, StatusUpdate DEF IoStatusUpdate, QueueOK
    <3> QED
      BY <1>0, <1>3, <3>1 DEF IoStatusUpdate, DataOwned, HasDataToProcess
  <2>5. TasksUndisturbed'
    BY <1>0, <1>3, StatusUpdate DEF IoStatusUpdate, TasksUndisturbed, Busy,
       QueueOK
  <2>6. QueuesOfLiveGoals'
    BY <1>0, <1>3, StatusUpdate DEF IoStatusUpdate, QueuesOfLiveGoals, QueueOK
  <2> QED
    BY <2>1, <2>2, <2>3, <2>4, <2>5, <2>6 DEF IInv
<1>4. CASE RobotStops
  <2>1. TrajOK' /\ QueueOK' /\ PlaceOK' /\ FjtOK' /\
       WithinBounds' /\ GoalPhase' /\ DataOwned' /\
       TasksUndisturbed' /\ QueuesOfLiveGoals' /\ StopProtected'
    BY <1>0, <1>4 DEF RobotStops, TrajOK, QueueOK, PlaceOK, FjtOK,
           WithinBounds, GoalPhase, DataOwned, TasksUndisturbed,
           QueuesOfLiveGoals, StopProtected, HasDataToProcess, Busy
  <2>2. FlagsOK'
    BY <1>0, <1>4 DEF RobotStops, FlagsOK
  <2> QED
    BY <2>1, <2>2 DEF IInv
<1>5. CASE OperatorResumes
  <2>1. TrajOK' /\ QueueOK' /\ PlaceOK' /\ FjtOK' /\
       WithinBounds' /\ GoalPhase' /\ DataOwned' /\
       TasksUndisturbed' /\ QueuesOfLiveGoals' /\ StopProtected'
    BY <1>0, <1>5 DEF OperatorResumes, TrajOK, QueueOK, PlaceOK, FjtOK,
           WithinBounds, GoalPhase, DataOwned, TasksUndisturbed,
           QueuesOfLiveGoals, StopProtected, HasDataToProcess, Busy
  <2>2. FlagsOK'
    BY <1>0, <1>5 DEF OperatorResumes, FlagsOK
  <2> QED
    BY <2>1, <2>2 DEF IInv
<1> QED
  BY <1>1, <1>2, <1>3, <1>4, <1>5 DEF IncStep

LEMMA InvInit == Init => IInv
<1> SUFFICES ASSUME Init PROVE IInv
  OBVIOUS
<1> USE SizeAssumption DEF Init, Groups, Stoppers, None
<1>1. FlagsOK
  <2>1. /\ {allInit, bStopMotion, bMpIncMoveError} \subseteq BOOLEAN
        /\ {alarm, overtaken} \subseteq BOOLEAN
    OBVIOUS
  <2>2. faults \in 0 .. MaxFaults
    OBVIOUS
  <2> QED
    BY <2>1, <2>2 DEF FlagsOK
<1>2. TrajOK
  BY DEF TrajOK
<1>3. PlaceOK /\ FjtOK
  BY DEF PlaceOK, FjtOK
<1>4. QueueOK
  BY DEF QueueOK
<1>5. WithinBounds /\ GoalPhase /\ DataOwned
  BY DEF WithinBounds, GoalPhase, DataOwned, HasDataToProcess
<1>6. TasksUndisturbed /\ QueuesOfLiveGoals /\ StopProtected
  BY DEF TasksUndisturbed, Busy, QueuesOfLiveGoals, StopProtected
<1> QED
  BY <1>1, <1>2, <1>3, <1>4, <1>5, <1>6 DEF IInv

LEMMA InvStep == IInv /\ [Next]_vars => IInv'
<1> SUFFICES ASSUME IInv, [Next]_vars PROVE IInv'
  OBVIOUS
<1>1. CASE UNCHANGED vars
  <2> USE <1>1 DEF vars, flags, robot, traj, work, stop, fjt, IInv
  <2>1. FlagsOK' /\ TrajOK' /\ QueueOK' /\ PlaceOK' /\ FjtOK'
    BY DEF FlagsOK, TrajOK, QueueOK, PlaceOK, FjtOK
  <2>2. WithinBounds' /\ GoalPhase' /\ DataOwned'
    BY DEF WithinBounds, GoalPhase, DataOwned, HasDataToProcess
  <2>3. TasksUndisturbed' /\ QueuesOfLiveGoals' /\ StopProtected'
    BY DEF TasksUndisturbed, Busy, QueuesOfLiveGoals, StopProtected
  <2> QED
    BY <2>1, <2>2, <2>3
<1> QED
  BY <1>1, InitStepKeepsInv, GoalStepKeepsInv, StopStepKeepsInv,
     AddStepKeepsInv, RobotStepKeepsInv DEF Next

THEOREM Invariance == Spec => []IInv
  BY InvInit, InvStep, PTL DEF Spec
-----------------------------------------------------------------------------
(* Every variable keeps its type: the iterator never passes the last point *)
(* and no queue its slots.                                                 *)
THEOREM TypeCorrect == Spec => []TypeOK
<1>1. IInv => TypeOK
  BY DEF IInv, FlagsOK, TrajOK, QueueOK, PlaceOK, FjtOK, TypeOK
<1> QED
  BY <1>1, Invariance, PTL

(* Nothing of a goal with a result is left in a queue or interpolated,     *)
(* for any number of groups (ClearQ_All, Ros_ActionServer_FJT_             *)
(* ProcessFeedback), as long as no busy task lost its flag.                *)
THEOREM EndedGoalsAreStill == Spec => []EndedGoalIsStill
<1>1. IInv => EndedGoalIsStill
  BY DEF IInv, EndedGoalIsStill, Filling, TasksUndisturbed, QueuesOfLiveGoals,
         DataOwned, Busy
<1> QED
  BY <1>1, Invariance, PTL

(* Overtaken or not, no task takes up another point of a goal with a       *)
(* result (AddToIncQueueProcess after StopMotion or an alarm): data is     *)
(* flagged again only by Ros_MotionControl_Init, with new buffers.         *)
THEOREM EndedGoalsGoNoFurther == Spec => EndedGoalGoesNoFurther
<1> DEFINE TakesUp ==
      \A g \in Groups :
        add[g] = "test" /\ add'[g] = "stop?" => buf[g] \notin ended
<1>1. ASSUME IInv, Next PROVE TakesUp
  <2> SUFFICES ASSUME NEW g \in Groups, add[g] = "test", add'[g] = "stop?"
               PROVE  buf[g] \notin ended
    OBVIOUS
  <2>1. add \in [Groups -> {"top", "test", "nothing", "reset", "stop?", "loop",
                          "enqueue", "advance"}]
    BY <1>1 DEF IInv, PlaceOK
  <2>2. \A h \in Groups : AddStep(h) => h = g
    BY <2>1 DEF AddStep, AddTop, AddTest, AddNothing, AddReset, AddDrop,
       AddSegment, AddLoop, AddEnqueue, AddGiveUp, AddAdvance, AddGoto
  <2>3. AddStep(g)
    BY <1>1, <2>2 DEF Next, GoalReceived, InitStep, InitZero, InitFill,
       InitGroup, InitGroupFails, InitDone, GoalComplete, GoalAbort, GoalCancel,
       StopStep, StopRaise, StopHold, StopPoll, StopClear, StopLower,
       StopReturn, IncStep, IncAccepted, IncRejected, IoStatusUpdate,
       RobotStops, OperatorResumes
  <2>4. hasData[g]
    BY <2>1, <2>3 DEF AddStep, AddTop, AddTest, AddNothing, AddReset, AddDrop,
       AddSegment, AddLoop, AddEnqueue, AddGiveUp, AddAdvance, AddGoto,
       PointToProcess
  <2> QED
    BY <1>1, <2>4 DEF IInv, DataOwned
<1>2. IInv /\ [Next]_vars => [TakesUp]_vars
  BY <1>1
<1> QED
  BY <1>2, Invariance, PTL DEF Spec, EndedGoalGoesNoFurther

(* The trajectory an AddTo task works on is its own until it is done       *)
(* (Ros_MotionControl_Init against AddToIncQueueProcess).                  *)
THEOREM BuffersAreOwned == Spec => []BufferOwned
<1>1. IInv => BufferOwned
  BY DEF IInv, BufferOwned, Filling, TasksUndisturbed
<1> QED
  BY <1>1, Invariance, PTL

(* Between the hold of the job and its release by StopMotion the robot     *)
(* rejects no increment: the flag is up, or the queues are empty.          *)
THEOREM StopsNeverReject == Spec => StopNeverRejects
<1> DEFINE Safe ==
      IncRejected /\ ~overtaken =>
        pc["exec"] \notin {"hold", "poll", "clear", "lower", "release"}
<1>1. IInv => Safe
  BY DEF IInv, IncRejected, IncDue, MotionReady, HasDataInQueue,
         QueuesOfLiveGoals, StopProtected
<1>2. IInv /\ [Next]_vars => [Safe]_vars
  BY <1>1
<1> QED
  BY <1>2, Invariance, PTL DEF Spec, StopNeverRejects
=============================================================================
