----------------------------- MODULE LossyFifo -----------------------------
(***************************************************************************)
(* What the shared-memory queue promises: a bounded FIFO that gives up its *)
(* oldest message when it is full.  The promise ends when a receiver reads *)
(* the empty queue (misread), which can happen once it has overflowed.     *)
(***************************************************************************)
EXTENDS Integers, Sequences

CONSTANTS Capacity, Payloads

VARIABLES
  queue,       \* the messages waiting, oldest first
  removed,     \* what has left the queue, in order, and how
  overflowed,  \* the queue has dropped a message
  misread      \* the promise has ended

vars == <<queue, removed, overflowed, misread>>

Init ==
  /\ queue = <<>>
  /\ removed = <<>>
  /\ overflowed = FALSE
  /\ misread = FALSE

Leave(how) == removed' = Append(removed, [msg |-> Head(queue), how |-> how])

Put(m) ==
  /\ ~misread
  /\ Len(queue) < Capacity
  /\ queue' = Append(queue, m)
  /\ UNCHANGED <<removed, overflowed, misread>>

Take ==
  /\ ~misread
  /\ queue # <<>>
  /\ queue' = Tail(queue)
  /\ Leave("received")
  /\ UNCHANGED <<overflowed, misread>>

Drop ==
  /\ ~misread
  /\ Len(queue) = Capacity
  /\ queue' = Tail(queue)
  /\ Leave("dropped")
  /\ overflowed' = TRUE
  /\ UNCHANGED misread

Misread ==
  /\ queue = <<>>
  /\ overflowed
  /\ misread' = TRUE

(* After a misread nothing more is promised.                               *)
Unspecified == misread /\ misread'

Next == (\E m \in Payloads : Put(m)) \/ Take \/ Drop \/ Misread \/ Unspecified

Spec == Init /\ [][Next]_vars
=============================================================================
