---------------------------- MODULE ActionServer ----------------------------
(***************************************************************************)
(* What the client of an action server that runs one goal at a time is     *)
(* promised.  A goal is taken up only when the one before it is over; its  *)
(* result is decided once, but for a cancel that comes before the result   *)
(* is out; it is reported once, as it was decided; or all is lost with the *)
(* session.                                                                *)
(***************************************************************************)
EXTENDS Naturals

CONSTANT MaxGoals  \* bound: goals ever sent

VARIABLES
  life,    \* how far each goal has come
  result   \* its result, once decided
lifeVars == <<life, result>>

GoalIds == 1 .. MaxGoals
Over == {"reported", "lost"}

Becomes(g, l, r) ==
  /\ life' = [life EXCEPT ![g] = l]
  /\ result' = [result EXCEPT ![g] = r]

Start(g) ==
  /\ life[g] = "unknown"
  /\ \A h \in GoalIds : h < g => life[h] \in Over
  /\ \/ Becomes(g, "executing", "none")
     \/ Becomes(g, "decided", "aborted")

Decide(g) ==
  /\ life[g] = "executing"
  /\ \E r \in {"succeeded", "aborted"} : Becomes(g, "decided", r)

Cancel(g) == life[g] \in {"executing", "decided"} /\ Becomes(g, "decided", "canceled")

Report(g) == life[g] = "decided" /\ Becomes(g, "reported", result[g])

Lose(g) == life[g] \in {"executing", "decided"} /\ Becomes(g, "lost", "none")

LifeInit ==
  /\ life = [g \in GoalIds |-> "unknown"]
  /\ result = [g \in GoalIds |-> "none"]

LifeNext ==
  \E g \in GoalIds : Start(g) \/ Decide(g) \/ Cancel(g) \/ Report(g) \/ Lose(g)

LifeSpec == LifeInit /\ [][LifeNext]_lifeVars
=============================================================================
