------------------------------- MODULE RingQueue -------------------------------
(***************************************************************************)
(* RingControlEventQueue (control_queue.cpp): the mutex-guarded circular   *)
(* buffer between the input transports and the render task.  The same ring *)
(* text backs the beat queue and the eval queue.  Every method runs under  *)
(* the mutex, so each is one action.                                       *)
(***************************************************************************)
EXTENDS Integers, Sequences

CONSTANTS
  Event,      \* the events transports push
  NoEvent,    \* a default-constructed event
  Capacity,   \* the constructor's argument
  MaxDropped  \* bound: rejections counted before pushes into a full queue stop

ASSUME RingAssumption ==
  /\ Capacity \in Nat
  /\ MaxDropped \in Nat
  /\ NoEvent \notin Event

VARIABLES
  buffer,   \* buffer_: the slots, indexed from 0
  head,     \* head_: next pop index
  tail,     \* tail_: next push index
  count,    \* count_: events waiting
  dropped,  \* dropped_: rejected pushes
  taken     \* the consumer's out parameter: the last event popped

vars == <<buffer, head, tail, count, dropped, taken>>

\* A zero capacity would reject every push; the constructor allocates one slot.
Size == IF Capacity > 0 THEN Capacity ELSE 1

Slot == 0 .. Size - 1

NextSlot(i) == (i + 1) % Size

Init ==
  /\ buffer = [i \in Slot |-> NoEvent]
  /\ head = 0
  /\ tail = 0
  /\ count = 0
  /\ dropped = 0
  /\ taken = NoEvent

\* Mutant: the off-by-one that lets a push overwrite the oldest event.
PushOverwriting(e) ==
  /\ count <= Size
  /\ buffer' = [buffer EXCEPT ![tail] = e]
  /\ tail' = NextSlot(tail)
  /\ count' = IF count < Size THEN count + 1 ELSE count
  /\ UNCHANGED <<head, dropped, taken>>

Push(e) ==
  /\ count < Size
  /\ buffer' = [buffer EXCEPT ![tail] = e]
  /\ tail' = NextSlot(tail)
  /\ count' = count + 1
  /\ UNCHANGED <<head, dropped, taken>>

PushRejected(e) ==
  /\ count >= Size
  /\ dropped < MaxDropped
  /\ dropped' = dropped + 1
  /\ UNCHANGED <<buffer, head, tail, count, taken>>

\* Popping an empty queue returns false and leaves every variable alone.
Pop ==
  /\ count # 0
  /\ taken' = buffer[head]
  /\ head' = NextSlot(head)
  /\ count' = count - 1
  /\ UNCHANGED <<buffer, tail, dropped>>

Next == Pop \/ \E e \in Event : Push(e) \/ PushRejected(e)

Spec == Init /\ [][Next]_vars

--------------------------------------------------------------------------------
(* The indices stay inside the buffer and a waiting slot holds an event.       *)
TypeOK ==
  /\ buffer \in [Slot -> Event \cup {NoEvent}]
  /\ head \in Slot
  /\ tail \in Slot
  /\ count \in 0 .. Size
  /\ dropped \in Nat
  /\ taken \in Event \cup {NoEvent}

\* The slots that hold the waiting events, oldest first.
WaitingSlot(i) == (head + i - 1) % Size

Waiting == [i \in 1 .. count |-> buffer[WaitingSlot(i)]]

(* The tail is where the waiting events end, and every slot between head and   *)
(* tail was written by an accepted push: the push index, the pop index and the *)
(* count, each maintained by a different method, never disagree.               *)
RingConsistent ==
  /\ tail = (head + count) % Size
  /\ \A i \in 1 .. count : buffer[WaitingSlot(i)] \in Event

Fifo == INSTANCE EventFifo WITH fifo <- Waiting, Capacity <- Size

(* The ring is a first-in first-out queue: whatever mix of pushes, rejected    *)
(* pushes and pops wraps the indices around the buffer, the consumer receives  *)
(* the accepted events exactly once, in order, and only a full queue rejects.  *)
RingIsFifo == Fifo!Spec
================================================================================
