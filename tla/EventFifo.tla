------------------------------- MODULE EventFifo -------------------------------
(***************************************************************************)
(* What a control-event queue promises its users (IControlEventQueue,      *)
(* control_queue.h): a bounded first-in first-out channel.  A push into a  *)
(* full queue rejects the newest event and counts it; a pop hands out the  *)
(* oldest accepted event.  Nothing here knows about a ring.                *)
(***************************************************************************)
EXTENDS Naturals, Sequences

CONSTANTS
  Event,      \* the events transports push
  NoEvent,    \* the value of the consumer's event before its first pop
  Capacity,   \* how many accepted events may wait
  MaxDropped  \* bound: rejections counted before pushes into a full queue stop

VARIABLES
  fifo,     \* the accepted events that wait, oldest first
  taken,    \* the event the last successful pop handed out
  dropped   \* how many events were rejected

vars == <<fifo, taken, dropped>>

Init ==
  /\ fifo = <<>>
  /\ taken = NoEvent
  /\ dropped = 0

Accept(e) ==
  /\ Len(fifo) < Capacity
  /\ fifo' = Append(fifo, e)
  /\ UNCHANGED <<taken, dropped>>

Reject(e) ==
  /\ Len(fifo) = Capacity
  /\ dropped < MaxDropped
  /\ dropped' = dropped + 1
  /\ UNCHANGED <<fifo, taken>>

Take ==
  /\ fifo # <<>>
  /\ taken' = Head(fifo)
  /\ fifo' = Tail(fifo)
  /\ UNCHANGED dropped

Next == Take \/ \E e \in Event : Accept(e) \/ Reject(e)

Spec == Init /\ [][Next]_vars
================================================================================
