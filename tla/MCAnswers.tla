----------------------------- MODULE MCAnswers -----------------------------
(* Two things a client is answered, side by side: the verdict on its goal, *)
(* and its requests for I/O.  An int of four bits: durations 8 apart and   *)
(* more do not fit it.  A UINT32 of 24 bits: groups from 1677722 wrap.     *)
EXTENDS GoalOutcome, IoServices

VARIABLE client

MCPosTolerances == {-1, 0, 2}

AnswersInit ==
  \/ client = "goal" /\ Init /\ IoInit
  \/ /\ client = "io" /\ IoInit
     /\ goal_tolerance = <<>> /\ goal_time_tolerance = 0
     /\ names = <<>> /\ lastPoint = <<>> /\ desiredTime = 0
     /\ actual = <<>> /\ totalTime = 0 /\ outcome = "executing"

AnswersNext ==
  /\ UNCHANGED client
  /\ \/ client = "goal" /\ Next /\ UNCHANGED ioVars
     \/ client = "io" /\ IoNext /\ UNCHANGED vars

AnswersSpec == AnswersInit /\ [][AnswersNext]_<<client, vars, ioVars>>
=============================================================================
