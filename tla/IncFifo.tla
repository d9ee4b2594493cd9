------------------------------ MODULE IncFifo ------------------------------
(***************************************************************************)
(* What the increment queue of one control group promises, free of ring    *)
(* buffers, locks and tasks: a bounded first-in first-out queue of pulse   *)
(* increments.  An interpolation cycle takes its move from the front: one  *)
(* increment, or several consecutive ones of the same format.  Clearing    *)
(* the queue drops everything that no cycle has taken yet.                 *)
(***************************************************************************)
EXTENDS Naturals, Sequences

CONSTANTS Increments, \* every increment that may be queued
          Capacity    \* how many of them the queue holds

VARIABLES fifo,       \* the increments that wait, oldest first
          move        \* the increments the running cycle has taken so far

fifoVars == <<fifo, move>>

FifoInit == fifo = <<>> /\ move = <<>>

(* The producer appends one increment, if there is room. *)
Put == \E x \in Increments :
          /\ Len(fifo) < Capacity
          /\ fifo' = Append(fifo, x)
          /\ UNCHANGED move

(* A cycle takes the oldest increment, and perhaps further ones that have  *)
(* the same format as the first.                                           *)
Take == /\ fifo # <<>>
        /\ move # <<>> => Head(fifo).fmt = move[1].fmt
        /\ move' = Append(move, Head(fifo))
        /\ fifo' = Tail(fifo)

(* The cycle hands its move to the motion kernel. *)
Deliver == /\ move # <<>>
           /\ move' = <<>>
           /\ UNCHANGED fifo

(* A stop or an alarm empties the queue. *)
Clear == /\ fifo' = <<>>
         /\ UNCHANGED move

FifoNext == Put \/ Take \/ Deliver \/ Clear

FifoSpec == FifoInit /\ [][FifoNext]_fifoVars
=============================================================================
