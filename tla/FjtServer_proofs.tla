-------------------------- MODULE FjtServer_proofs ---------------------------
(***************************************************************************)
(* FjtServer keeps its promise to the client, and frees its feedback       *)
(* message once, for any number of goals and sessions.  The invariant says *)
(* that the goal with the handle of rclc is the active one or the rejected *)
(* one and not both, that the ready mark belongs to it, and that no result *)
(* of it is out.                                                           *)
(***************************************************************************)
EXTENDS FjtServer, TLAPS

OneGoal ==
  /\ handle \in {None, received}
  /\ handle # None =>
       \/ active = handle /\ rejected = None
       \/ rejected = handle /\ active = None /\ ready

SessionState ==
  /\ ~session => handle = None /\ ~feedback
  /\ session /\ ready => handle # None /\ response # "none"
  /\ session => (feedback <=> active # None /\ ~ready)

ResultsOut ==
  /\ \A g \in GoalIds : sent[g].times \in {0, 1}
  /\ \A g \in GoalIds : (g > received \/ g = handle) => sent[g].times = 0

IInv == TypeOK /\ OneGoal /\ SessionState /\ ResultsOut
-----------------------------------------------------------------------------
LEMMA InvInit == Init => IInv
<1> SUFFICES ASSUME Init PROVE IInv
  OBVIOUS
<1> USE BoundsAssumption DEF Init, GoalIds, None, Unsent, Verdicts
<1>1. TypeOK
  <2>1. sent \in [GoalIds -> [times : Nat, state : Verdicts, status : Verdicts]]
    OBVIOUS
  <2>2. ready \in BOOLEAN /\ feedback \in BOOLEAN /\ session \in BOOLEAN
    OBVIOUS
  <2> QED
    BY <2>1, <2>2 DEF TypeOK
<1>2. OneGoal
  BY DEF OneGoal
<1>3. SessionState
  BY DEF SessionState
<1>4. ResultsOut
  BY DEF ResultsOut
<1> QED
  BY <1>1, <1>2, <1>3, <1>4 DEF IInv

LEMMA InvStep == IInv /\ [Next]_vars => IInv'
<1> SUFFICES ASSUME TypeOK, OneGoal, SessionState, ResultsOut, [Next]_vars
             PROVE  TypeOK' /\ OneGoal' /\ SessionState' /\ ResultsOut'
  BY DEF IInv
<1> USE BoundsAssumption DEF GoalIds, None, Verdicts
<1>1. CASE Initialize
  <2> USE <1>1 DEF Initialize, motion, client
  <2>1. TypeOK'
    <3>1. ready' \in BOOLEAN /\ feedback' \in BOOLEAN /\ session' \in BOOLEAN
      BY DEF TypeOK
    <3> QED
      BY <3>1 DEF TypeOK, OneGoal, SessionState
  <2>2. OneGoal'
    BY DEF TypeOK, OneGoal, SessionState
  <2>3. SessionState'
    BY DEF TypeOK, OneGoal, SessionState
  <2>4. ResultsOut'
    BY DEF TypeOK, OneGoal, SessionState, ResultsOut
  <2> QED
    BY <2>1, <2>2, <2>3, <2>4
<1>2. CASE Cleanup
  <2> USE <1>2 DEF Cleanup, motion
  <2>1. TypeOK'
    BY DEF TypeOK, OneGoal, SessionState
  <2>2. OneGoal'
    BY DEF TypeOK, OneGoal, SessionState
  <2>3. SessionState'
    BY DEF TypeOK, OneGoal, SessionState
  <2>4. ResultsOut'
    BY DEF TypeOK, OneGoal, SessionState, ResultsOut
  <2> QED
    BY <2>1, <2>2, <2>3, <2>4
<1>3. CASE GoalAccepted
  <2> USE <1>3 DEF GoalAccepted, Receive, Serving, WakeUp, life
  <2>1. TypeOK'
    BY DEF TypeOK, OneGoal, SessionState
  <2>2. OneGoal'
    BY DEF TypeOK, OneGoal, SessionState
  <2>3. SessionState'
    BY DEF TypeOK, OneGoal, SessionState
  <2>4. ResultsOut'
    BY DEF TypeOK, OneGoal, SessionState, ResultsOut
  <2> QED
    BY <2>1, <2>2, <2>3, <2>4
<1>4. CASE GoalRejected
  <2> USE <1>4 DEF GoalRejected, Receive, Serving, WakeUp, life
  <2>1. TypeOK'
    BY DEF TypeOK, OneGoal, SessionState
  <2>2. OneGoal'
    BY DEF TypeOK, OneGoal, SessionState
  <2>3. SessionState'
    BY DEF TypeOK, OneGoal, SessionState
  <2>4. ResultsOut'
    BY DEF TypeOK, OneGoal, SessionState, ResultsOut
  <2> QED
    BY <2>1, <2>2, <2>3, <2>4
<1>5. CASE GoalCancel
  <2> USE <1>5 DEF GoalCancel, Serving, Complete, StopMotion, life
  <2>1. TypeOK'
    <3>1. ready' \in BOOLEAN /\ feedback' \in BOOLEAN /\ session' \in BOOLEAN
      BY DEF TypeOK
    <3> QED
      BY <3>1 DEF TypeOK, OneGoal, SessionState
  <2>2. OneGoal'
    BY DEF TypeOK, OneGoal, SessionState
  <2>3. SessionState'
    BY DEF TypeOK, OneGoal, SessionState
  <2>4. ResultsOut'
    BY DEF TypeOK, OneGoal, SessionState, ResultsOut
  <2> QED
    BY <2>1, <2>2, <2>3, <2>4
<1>6. CASE ProcessFeedback
  <2> USE <1>6 DEF ProcessFeedback, Serving, Complete, StopMotion, client, life
  <2>1. TypeOK'
    <3>1. ready' \in BOOLEAN /\ feedback' \in BOOLEAN /\ session' \in BOOLEAN
      BY DEF TypeOK
    <3> QED
      BY <3>1 DEF TypeOK, OneGoal, SessionState
  <2>2. OneGoal'
    BY DEF TypeOK, OneGoal, SessionState
  <2>3. SessionState'
    BY DEF TypeOK, OneGoal, SessionState
  <2>4. ResultsOut'
    BY DEF TypeOK, OneGoal, SessionState, ResultsOut
  <2> QED
    BY <2>1, <2>2, <2>3, <2>4
<1>7. CASE ProcessResult
  <2> USE <1>7 DEF ProcessResult, ResultSent, Send, KeepsResult, motion, life
  <2>1. TypeOK'
    <3>1. ready' \in BOOLEAN /\ feedback' \in BOOLEAN /\ session' \in BOOLEAN
      BY DEF TypeOK
    <3>2. sent' \in [GoalIds -> [times : Nat, state : Verdicts, status : Verdicts]]
      BY DEF TypeOK
    <3> QED
      BY <3>1, <3>2 DEF TypeOK, OneGoal, SessionState
  <2>2. OneGoal'
    BY DEF TypeOK, OneGoal, SessionState
  <2>3. SessionState'
    BY DEF TypeOK, OneGoal, SessionState
  <2>4. ResultsOut'
    BY DEF TypeOK, OneGoal, SessionState, ResultsOut
  <2> QED
    BY <2>1, <2>2, <2>3, <2>4
<1>8. CASE AskResult
  <2> USE <1>8 DEF AskResult, server, motion, life
  <2>1. TypeOK'
    BY DEF TypeOK, OneGoal, SessionState
  <2>2. OneGoal'
    BY DEF TypeOK, OneGoal, SessionState
  <2>3. SessionState'
    BY DEF TypeOK, OneGoal, SessionState
  <2>4. ResultsOut'
    BY DEF TypeOK, OneGoal, SessionState, ResultsOut
  <2> QED
    BY <2>1, <2>2, <2>3, <2>4
<1>9. CASE World
  <2> USE <1>9 DEF World, RobotChanges, ModeChanges, QueueMoves, MotionEnds,
                   DeferredSent, server, client, life
  <2>1. TypeOK'
    <3>1. ready' \in BOOLEAN /\ feedback' \in BOOLEAN /\ session' \in BOOLEAN
      BY DEF TypeOK
    <3>2. moving' \in {"still", "goal", "queue", "deferred"}
      BY DEF TypeOK
    <3> QED
      BY <3>1, <3>2 DEF TypeOK, OneGoal, SessionState
  <2>2. OneGoal'
    BY DEF TypeOK, OneGoal, SessionState
  <2>3. SessionState'
    BY DEF TypeOK, OneGoal, SessionState
  <2>4. ResultsOut'
    BY DEF TypeOK, OneGoal, SessionState, ResultsOut
  <2> QED
    BY <2>1, <2>2, <2>3, <2>4
<1>10. CASE UNCHANGED vars
  <2> USE <1>10 DEF vars, server, client, motion, life
  <2>1. TypeOK'
    BY DEF TypeOK, OneGoal, SessionState
  <2>2. OneGoal'
    BY DEF TypeOK, OneGoal, SessionState
  <2>3. SessionState'
    BY DEF TypeOK, OneGoal, SessionState
  <2>4. ResultsOut'
    BY DEF TypeOK, OneGoal, SessionState, ResultsOut
  <2> QED
    BY <2>1, <2>2, <2>3, <2>4
<1> QED
  BY <1>1, <1>2, <1>3, <1>4, <1>5, <1>6, <1>7, <1>8, <1>9, <1>10
  DEF Next, Handlers, Timer

(* The bookkeeping of the server keeps its type, and the goals it          *)
(* remembers are the one rclc has the handle of.                           *)
THEOREM TypeCorrect == Spec => []TypeOK
<1>1. Init => IInv
  BY InvInit
<1>2. IInv /\ [Next]_vars => IInv'
  BY InvStep
<1>3. IInv => TypeOK
  BY DEF IInv
<1> QED
  BY <1>1, <1>2, <1>3, PTL DEF Spec

(* The feedback message is there exactly while the active goal has no      *)
(* result: created once and freed once, however the goal ends.             *)
THEOREM FeedbackExact == Spec => []FeedbackForUndecided
<1>1. Init => IInv
  BY InvInit
<1>2. IInv /\ [Next]_vars => IInv'
  BY InvStep
<1>3. IInv => FeedbackForUndecided
  BY DEF IInv, SessionState, FeedbackForUndecided
<1> QED
  BY <1>1, <1>2, <1>3, PTL DEF Spec
-----------------------------------------------------------------------------
(* What is ready to be sent is consistent already.                         *)
ReadyAgrees ==
  /\ session /\ ready /\ active # None => goalState = response
  /\ session /\ ready /\ rejected # None =>
       \/ response = "aborted"
       \/ response = "canceled" /\ rejected \in canceled

LEMMA AgreeStep ==
  IInv /\ ReadyAgrees /\ StateIsStatus /\ [Next]_vars
    => ReadyAgrees' /\ StateIsStatus'
<1> SUFFICES ASSUME TypeOK, OneGoal, SessionState, ReadyAgrees, StateIsStatus,
                    [Next]_vars
             PROVE  ReadyAgrees' /\ StateIsStatus'
  BY DEF IInv
<1>1. CASE UNCHANGED sent /\ canceled \subseteq canceled' /\ ReadyAgrees'
  BY <1>1 DEF StateIsStatus
<1> USE DEF TypeOK, OneGoal, SessionState, ReadyAgrees, None
<1>2. CASE Initialize \/ Cleanup
  BY <1>2, <1>1 DEF Initialize, Cleanup, client
<1>3. CASE GoalAccepted \/ GoalRejected
  <2>1. active = None /\ rejected = None /\ ~ready /\ session
    BY <1>3 DEF GoalAccepted, GoalRejected, Receive, Serving
  <2>2. CASE GoalAccepted
    BY <2>1, <2>2, <1>1 DEF GoalAccepted, Receive, life
  <2>3. CASE GoalRejected
    <3>1. /\ active' = None /\ response' = "aborted"
          /\ sent' = sent /\ canceled' = canceled
      BY <2>1, <2>3 DEF GoalRejected
    <3>2. ReadyAgrees'
      BY <3>1
    <3> QED
      BY <3>1, <3>2, <1>1
  <2> QED
    BY <1>3, <2>2, <2>3
<1>4. CASE GoalCancel
  BY <1>4, <1>1 DEF GoalCancel, Complete, life
<1>5. CASE ProcessFeedback
  BY <1>5, <1>1 DEF ProcessFeedback, Serving, Complete, client, life
<1>6. CASE ProcessResult
  <2>1. ReadyAgrees' /\ canceled' = canceled
    BY <1>6 DEF ProcessResult, ResultSent, KeepsResult, life
  <2>2. CASE KeepsResult
    BY <2>1, <2>2, <1>1 DEF KeepsResult
  <2>3. CASE ResultSent
    <3>1. PICK g, s : Send(g, s) /\ (s # response =>
                        s = "aborted" /\ response = "canceled" /\ g \in canceled)
      BY <1>6, <2>3 DEF ProcessResult, ResultSent
    <3> QED
      BY <2>1, <3>1 DEF Send, StateIsStatus
  <2> QED
    BY <1>6, <2>2, <2>3 DEF ProcessResult
<1>7. CASE AskResult \/ World
  BY <1>7, <1>1 DEF AskResult, World, RobotChanges, ModeChanges, QueueMoves,
                    MotionEnds, DeferredSent, server, client, motion, life
<1>8. CASE UNCHANGED vars
  BY <1>8, <1>1 DEF vars, server, client, motion, life
<1> QED
  BY <1>2, <1>3, <1>4, <1>5, <1>6, <1>7, <1>8 DEF Next, Handlers, Timer

(* The two places that tell the client how its goal ended agree, but for a *)
(* goal turned down and then canceled.                                     *)
THEOREM StatesAgree == Spec => []StateIsStatus
<1>1. Init => IInv /\ ReadyAgrees /\ StateIsStatus
  BY InvInit DEF Init, ReadyAgrees, StateIsStatus, Unsent
<1>2. IInv /\ ReadyAgrees /\ StateIsStatus /\ [Next]_vars
        => (IInv /\ ReadyAgrees /\ StateIsStatus)'
  BY InvStep, AgreeStep
<1> QED
  BY <1>1, <1>2, PTL DEF Spec
-----------------------------------------------------------------------------
(* How far a goal is for the client, read off the server's variables.      *)
LifeTable ==
  \A g \in GoalIds :
    /\ g > received => LifeOf(g) = "unknown" /\ ResultOf(g) = "none"
    /\ sent[g].times = 1 =>
         LifeOf(g) = "reported" /\ ResultOf(g) = sent[g].status
    /\ g <= received /\ sent[g].times = 0 /\ handle # g =>
         LifeOf(g) = "lost" /\ ResultOf(g) = "none"
    /\ handle = g /\ ready => LifeOf(g) = "decided" /\ ResultOf(g) = response
    /\ handle = g /\ ~ready => LifeOf(g) = "executing" /\ ResultOf(g) = "none"

LEMMA LifeCases == IInv => LifeTable
<1> SUFFICES ASSUME IInv, NEW g \in GoalIds
             PROVE  LifeTable!(g)
  BY DEF LifeTable
<1> USE DEF IInv, TypeOK, ResultsOut, OneGoal, GoalIds, None
<1>1. CASE g > received
  <2>1. LifeOf(g) = "unknown"
    BY <1>1 DEF LifeOf
  <2> QED
    BY <1>1, <2>1 DEF ResultOf
<1>2. CASE g <= received /\ sent[g].times = 1
  <2>1. LifeOf(g) = "reported"
    BY <1>2 DEF LifeOf
  <2> QED
    BY <1>2, <2>1 DEF ResultOf
<1>3. CASE g <= received /\ sent[g].times = 0 /\ handle # g
  <2>1. LifeOf(g) = "lost"
    BY <1>3 DEF LifeOf
  <2> QED
    BY <1>3, <2>1 DEF ResultOf
<1>4. CASE g <= received /\ sent[g].times = 0 /\ handle = g /\ ready
  <2>1. LifeOf(g) = "decided"
    BY <1>4 DEF LifeOf
  <2> QED
    BY <1>4, <2>1 DEF ResultOf
<1>5. CASE g <= received /\ sent[g].times = 0 /\ handle = g /\ ~ready
  <2>1. LifeOf(g) = "executing"
    BY <1>5 DEF LifeOf
  <2> QED
    BY <1>5, <2>1 DEF ResultOf
<1> QED
  BY <1>1, <1>2, <1>3, <1>4, <1>5

LEMMA LifeCasesNext == IInv' => LifeTable'
BY LifeCases, PTL

(* What a step leaves alone of a goal leaves its life alone.               *)
Same(g) == LifeOf(g)' = LifeOf(g) /\ ResultOf(g)' = ResultOf(g)

LEMMA Unaffected ==
  ASSUME IInv, IInv', NEW g \in GoalIds,
         g > received <=> g > received', sent'[g] = sent[g],
         handle = g <=> handle' = g,
         handle = g => ready' = ready /\ (ready => response' = response)
  PROVE  Same(g)
<1>1. LifeTable /\ LifeTable'
  BY LifeCases, LifeCasesNext
<1>2. CASE g > received
  BY <1>1, <1>2 DEF LifeTable, Same
<1>3. CASE sent[g].times = 1
  BY <1>1, <1>3 DEF LifeTable, Same
<1>4. CASE g <= received /\ sent[g].times = 0 /\ handle # g
  <2>1. g <= received'
    BY <1>4 DEF IInv, TypeOK, GoalIds
  <2> QED
    BY <1>1, <1>4, <2>1 DEF LifeTable, Same
<1>5. CASE handle = g
  BY <1>1, <1>5 DEF LifeTable, Same
<1> QED
  BY <1>2, <1>3, <1>4, <1>5 DEF IInv, TypeOK, ResultsOut, GoalIds

(* A step of the server is a step of one goal, or of none.                 *)
LEMMA NoneBecomes ==
  ASSUME \A g \in GoalIds : Same(g)
  PROVE  UNCHANGED Promise!lifeVars
BY DEF Same, Promise!lifeVars

LEMMA OneBecomes ==
  ASSUME NEW g \in GoalIds, \A h \in GoalIds \ {g} : Same(h)
  PROVE  Promise!Becomes(g, LifeOf(g)', ResultOf(g)')
BY DEF Same, Promise!Becomes

(* What the actions do to the goal that has the handle.                    *)
LEMMA DecidedStep ==
  ASSUME IInv, IInv', NEW g \in GoalIds, handle = g, ready' = TRUE,
         UNCHANGED <<received, sent, handle>>,
         \/ ~ready /\ response' \in {"succeeded", "aborted"}
         \/ response' = "canceled"
  PROVE  Promise!LifeNext
<1>1. LifeTable /\ LifeTable'
  BY LifeCases, LifeCasesNext
<1>2. \A h \in GoalIds \ {g} : Same(h)
  BY Unaffected
<1>3. LifeOf(g)' = "decided" /\ ResultOf(g)' = response'
  BY <1>1 DEF LifeTable
<1>4. Promise!Becomes(g, "decided", response')
  BY <1>2, <1>3, OneBecomes
<1>5. CASE ~ready /\ response' \in {"succeeded", "aborted"}
  <2>1. LifeOf(g) = "executing"
    BY <1>1, <1>5 DEF LifeTable
  <2> QED
    BY <1>4, <1>5, <2>1 DEF Promise!LifeNext, Promise!Decide, GoalIds,
                            Promise!GoalIds
<1>6. CASE response' = "canceled"
  <2>1. LifeOf(g) \in {"executing", "decided"}
    BY <1>1 DEF LifeTable, IInv, TypeOK
  <2> QED
    BY <1>4, <1>6, <2>1 DEF Promise!LifeNext, Promise!Cancel, GoalIds,
                            Promise!GoalIds
<1> QED
  BY <1>5, <1>6

LEMMA ReceiveStep ==
  ASSUME IInv, IInv', Receive, UNCHANGED sent,
         ready' => response' = "aborted"
  PROVE  Promise!LifeNext
<1> USE DEF IInv, TypeOK, OneGoal, SessionState, ResultsOut, GoalIds, None,
            Receive, Serving
<1>1. LifeTable /\ LifeTable'
  BY LifeCases, LifeCasesNext
<1>2. PICK g \in GoalIds : g = received + 1
  BY BoundsAssumption
<1>3. \A h \in GoalIds \ {g} : Same(h)
  BY <1>2, Unaffected
<1>4. LifeOf(g) = "unknown"
  BY <1>1, <1>2 DEF LifeTable
<1>5. \A h \in GoalIds : h < g => LifeOf(h) \in {"reported", "lost"}
  BY <1>1, <1>2 DEF LifeTable
<1>6. Promise!Becomes(g, LifeOf(g)', ResultOf(g)')
  BY <1>3, OneBecomes
<1>7. CASE ready'
  <2>1. LifeOf(g)' = "decided" /\ ResultOf(g)' = "aborted"
    BY <1>1, <1>2, <1>7 DEF LifeTable
  <2> QED
    BY <1>4, <1>5, <1>6, <2>1
    DEF Promise!LifeNext, Promise!Start, Promise!Over, Promise!GoalIds
<1>8. CASE ~ready'
  <2>1. LifeOf(g)' = "executing" /\ ResultOf(g)' = "none"
    BY <1>1, <1>2, <1>8 DEF LifeTable
  <2> QED
    BY <1>4, <1>5, <1>6, <2>1
    DEF Promise!LifeNext, Promise!Start, Promise!Over, Promise!GoalIds
<1> QED
  BY <1>7, <1>8

LEMMA SentStep ==
  ASSUME IInv, IInv', ResultSent, session, UNCHANGED <<received, response>>
  PROVE  Promise!LifeNext
<1> USE DEF IInv, TypeOK, OneGoal, SessionState, ResultsOut, GoalIds, None
<1>1. LifeTable /\ LifeTable'
  BY LifeCases, LifeCasesNext
<1>2. PICK g, s : Send(g, s) /\ ready /\ g \in {active, rejected} \ {None}
  BY DEF ResultSent
<1>3. g \in GoalIds /\ handle = g
  BY <1>2
<1>4. sent'[g].times = 1 /\ sent'[g].status = response
  BY <1>2, <1>3 DEF Send
<1>5. \A h \in GoalIds \ {g} : Same(h)
  <2>1. handle' = None /\ \A h \in GoalIds \ {g} : sent'[h] = sent[h]
    BY <1>2 DEF Send
  <2> QED
    BY <1>3, <2>1, Unaffected
<1>6. LifeOf(g) = "decided" /\ ResultOf(g) = response
  BY <1>1, <1>2, <1>3 DEF LifeTable
<1>7. LifeOf(g)' = "reported" /\ ResultOf(g)' = response
  BY <1>1, <1>3, <1>4 DEF LifeTable
<1>8. Promise!Becomes(g, "reported", ResultOf(g))
  BY <1>3, <1>5, <1>6, <1>7, OneBecomes
<1> QED
  BY <1>3, <1>6, <1>8 DEF Promise!LifeNext, Promise!Report, Promise!GoalIds

LEMMA CleanupStep ==
  ASSUME IInv, IInv', Cleanup, handle # None
  PROVE  Promise!LifeNext
<1> USE DEF IInv, TypeOK, OneGoal, SessionState, ResultsOut, GoalIds, None,
            Cleanup
<1>1. LifeTable /\ LifeTable'
  BY LifeCases, LifeCasesNext
<1>2. PICK g \in GoalIds : g = handle
  OBVIOUS
<1>3. \A h \in GoalIds \ {g} : Same(h)
  BY <1>2, Unaffected
<1>4. LifeOf(g) \in {"executing", "decided"}
  BY <1>1, <1>2 DEF LifeTable
<1>5. LifeOf(g)' = "lost" /\ ResultOf(g)' = "none"
  BY <1>1, <1>2 DEF LifeTable
<1>6. Promise!Becomes(g, "lost", "none")
  BY <1>3, <1>5, OneBecomes
<1> QED
  BY <1>4, <1>6 DEF Promise!LifeNext, Promise!Lose, Promise!GoalIds

LEMMA StepIsPromised ==
  ASSUME IInv, IInv', [Next]_vars
  PROVE  [Promise!LifeNext]_(Promise!lifeVars)
<1>1. CASE /\ UNCHANGED <<received, sent, handle>>
           /\ handle # None => UNCHANGED <<ready, response>>
  <2>1. \A g \in GoalIds : Same(g)
    BY <1>1, Unaffected DEF GoalIds, None
  <2> QED
    BY <2>1, NoneBecomes
<1> USE DEF IInv, TypeOK, OneGoal, SessionState, None, GoalIds
<1>2. CASE Initialize
  BY <1>1, <1>2 DEF Initialize, client
<1>3. CASE Cleanup
  BY <1>1, <1>3, CleanupStep DEF Cleanup
<1>4. CASE GoalAccepted
  BY <1>4, ReceiveStep DEF GoalAccepted, Receive, Serving
<1>5. CASE GoalRejected
  BY <1>5, ReceiveStep DEF GoalRejected
<1>6. CASE GoalCancel
  BY <1>6, DecidedStep DEF GoalCancel, Complete
<1>7. CASE ProcessFeedback
  <2>1. CASE active # None /\ ~ready /\ (AnyFault \/ ~IsInMotion)
    <3>1. ready' = TRUE /\ response' \in {"succeeded", "aborted"}
      BY <1>7, <2>1 DEF ProcessFeedback, Complete
    <3>2. handle \in GoalIds /\ UNCHANGED <<received, sent, handle>>
      BY <1>7, <2>1 DEF ProcessFeedback, client, Serving
    <3> QED
      BY <2>1, <3>1, <3>2, DecidedStep
  <2> QED
    BY <1>1, <1>7, <2>1 DEF ProcessFeedback, client
<1>8. CASE ProcessResult
  BY <1>1, <1>8, SentStep DEF ProcessResult, KeepsResult
<1>9. CASE AskResult \/ World
  BY <1>1, <1>9 DEF AskResult, World, RobotChanges, ModeChanges, QueueMoves,
                    MotionEnds, DeferredSent, server, client
<1>10. CASE UNCHANGED vars
  BY <1>1, <1>10 DEF vars, server, client
<1> QED
  BY <1>2, <1>3, <1>4, <1>5, <1>6, <1>7, <1>8, <1>9, <1>10
  DEF Next, Handlers, Timer

(* Every goal gets one result, its own and the one decided last, across    *)
(* rejections, cancels, sends that fail and the ends of sessions: the      *)
(* server implements what ActionServer promises.                           *)
THEOREM Promised == Spec => KeepsPromise
<1>1. Init => IInv /\ Promise!LifeInit
  <2> SUFFICES ASSUME Init PROVE IInv /\ Promise!LifeInit
    OBVIOUS
  <2>1. IInv
    BY InvInit
  <2>2. \A g \in GoalIds : LifeOf(g) = "unknown" /\ ResultOf(g) = "none"
    BY <2>1, LifeCases DEF LifeTable, Init, GoalIds
  <2> QED
    BY <2>1, <2>2 DEF Promise!LifeInit, Promise!GoalIds, GoalIds
<1>2. IInv /\ [Next]_vars => IInv'
  BY InvStep
<1>3. IInv /\ IInv' /\ [Next]_vars => [Promise!LifeNext]_(Promise!lifeVars)
  BY StepIsPromised
<1> QED
  BY <1>1, <1>2, <1>3, PTL DEF Spec, KeepsPromise, Promise!LifeSpec
=============================================================================
