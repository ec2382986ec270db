----------------------------- MODULE Console_proofs ----------------------------
(***************************************************************************)
(* The console's server for any number of browsers, sockets, slots, cues   *)
(* and effects.  First its queue, RingQueue, for every capacity and every  *)
(* set of events: the indices and the count stay consistent, and the ring  *)
(* implements EventFifo.  Then the messages: every submission is answered  *)
(* and every broken effect reported to each browser in the table.          *)
(***************************************************************************)
EXTENDS Console, FiniteSetTheorems, WellFoundedInduction, SequenceTheorems, TLAPS

(* The buffer has at least one slot, whatever the constructor was given.       *)
LEMMA SizePositive == Size \in Nat \ {0}
BY RingAssumption DEF Size

(* An index that ran at most once past the end wraps by one buffer length.     *)
LEMMA Wrap ==
  \A i \in Int : 0 <= i /\ i < 2 * Size =>
    /\ i < Size => i % Size = i
    /\ i >= Size => i % Size = i - Size
<1>. SUFFICES ASSUME NEW i \in Int, 0 <= i, i < 2 * Size
              PROVE  /\ i < Size => i % Size = i
                     /\ i >= Size => i % Size = i - Size
  OBVIOUS
<1>. USE SizePositive
<1>1. CASE i < Size
  BY <1>1, SMT
<1>2. CASE i >= Size
  <2>1. i = 1 * Size + (i - Size) /\ i - Size \in 0 .. Size - 1
    BY <1>2
  <2>. QED BY <2>1, <1>2, SMT
<1>. QED BY <1>1, <1>2

(* A slot and a distance of at most one round reach the slot that far ahead.   *)
LEMMA WrapSum ==
  \A s \in Slot, k \in 0 .. Size :
    /\ (s + k) % Size = IF s + k < Size THEN s + k ELSE s + k - Size
    /\ (s + k) % Size \in Slot
<1>. TAKE s \in Slot, k \in 0 .. Size
<1>1. PICK n \in Int : n = s + k
  BY SizePositive DEF Slot
<1>2. 0 <= n /\ n < 2 * Size
  BY <1>1, SizePositive DEF Slot
<1>3. n % Size = (IF n < Size THEN n ELSE n - Size) /\ n % Size \in Slot
  BY <1>2, Wrap, SizePositive DEF Slot
<1>4. s \in Int /\ k \in Int /\ Size \in Int
  BY SizePositive DEF Slot
<1>. QED BY <1>1, <1>3, <1>4

--------------------------------------------------------------------------------
(* The inductive invariant: the types and the consistency of the indices need  *)
(* each other, for the slots of the waiting events are computed from both.     *)

RingInv == TypeOK /\ RingConsistent

(* The slot of the i-th waiting event, without the modulus.                    *)
LEMMA SlotOfWaiting ==
  ASSUME head \in Slot
  PROVE  \A i \in 1 .. Size :
           /\ WaitingSlot(i) = IF head + i - 1 < Size THEN head + i - 1 ELSE head + i - 1 - Size
           /\ WaitingSlot(i) \in Slot
<1>. TAKE i \in 1 .. Size
<1>1. i - 1 \in 0 .. Size /\ head + (i - 1) = head + i - 1
  BY SizePositive DEF Slot
<1>2. /\ (head + (i - 1)) % Size = IF head + (i - 1) < Size THEN head + (i - 1)
                                                           ELSE head + (i - 1) - Size
      /\ (head + (i - 1)) % Size \in Slot
  BY <1>1, WrapSum
<1>. QED BY <1>1, <1>2 DEF WaitingSlot

(* Advancing an index wraps it to 0 at the end.                                *)
LEMMA NextSlotWraps ==
  \A i \in Slot : /\ NextSlot(i) = IF i + 1 < Size THEN i + 1 ELSE 0
                  /\ NextSlot(i) \in Slot
<1>. TAKE i \in Slot
<1>1. 1 \in 0 .. Size
  BY SizePositive
<1>2. /\ (i + 1) % Size = IF i + 1 < Size THEN i + 1 ELSE i + 1 - Size
      /\ (i + 1) % Size \in Slot
  BY <1>1, WrapSum
<1>. QED BY <1>2, SizePositive DEF NextSlot, Slot

(* The tail, without the modulus.                                              *)
LEMMA TailOfRing ==
  ASSUME head \in Slot, count \in 0 .. Size, tail = (head + count) % Size
  PROVE  tail = IF head + count < Size THEN head + count ELSE head + count - Size
BY WrapSum

LEMMA InitRing == Init => RingInv
<1>. SUFFICES ASSUME Init PROVE RingInv
  OBVIOUS
<1>1. TypeOK
  BY SizePositive DEF Init, TypeOK, Slot
<1>2. RingConsistent
  BY <1>1, WrapSum, SizePositive DEF Init, TypeOK, RingConsistent
<1>. QED BY <1>1, <1>2 DEF RingInv

(* A push writes the one slot after the waiting events and moves the tail.     *)
LEMMA PushKeepsRing ==
  ASSUME RingInv, NEW e \in Event, Push(e)
  PROVE  /\ RingInv'
         /\ \A i \in 1 .. count : buffer'[WaitingSlot(i)] = buffer[WaitingSlot(i)]
         /\ buffer'[WaitingSlot(count + 1)] = e
<1>. USE SizePositive
<1>1. /\ head \in Slot /\ tail \in Slot
      /\ count \in 0 .. Size /\ count < Size /\ count + 1 \in 1 .. Size
      /\ count' = count + 1 /\ head' = head
  BY DEF RingInv, TypeOK, Push
<1>2. tail = IF head + count < Size THEN head + count ELSE head + count - Size
  BY <1>1, TailOfRing DEF RingInv, RingConsistent
<1>3. TypeOK'
  BY NextSlotWraps DEF RingInv, TypeOK, Push
<1>4. WaitingSlot(count + 1) = tail
  BY <1>1, <1>2, SlotOfWaiting DEF Slot
<1>5. \A i \in 1 .. count : WaitingSlot(i) \in Slot /\ WaitingSlot(i) # tail
  BY <1>1, <1>2, SlotOfWaiting DEF Slot
<1>6. buffer'[tail] = e /\ \A s \in Slot : s # tail => buffer'[s] = buffer[s]
  BY DEF RingInv, TypeOK, Push
<1>7. \A i \in 1 .. count : buffer'[WaitingSlot(i)] = buffer[WaitingSlot(i)]
  BY <1>5, <1>6
<1>8. tail' = (head' + count') % Size
  <2>1. (head + (count + 1)) % Size = IF head + (count + 1) < Size THEN head + (count + 1)
                                                           ELSE head + (count + 1) - Size
    BY <1>1, WrapSum
  <2>2. tail' = IF tail + 1 < Size THEN tail + 1 ELSE 0
    BY <1>1, NextSlotWraps DEF Push
  <2>. QED BY <1>1, <1>2, <2>1, <2>2 DEF Slot
<1>9. \A i \in 1 .. count' : buffer'[WaitingSlot(i)'] \in Event
  <2>. SUFFICES ASSUME NEW i \in 1 .. count + 1 PROVE buffer'[WaitingSlot(i)] \in Event
    BY <1>1 DEF WaitingSlot
  <2>1. CASE i \in 1 .. count
    BY <2>1, <1>7 DEF RingInv, RingConsistent
  <2>2. CASE i = count + 1
    BY <2>2, <1>4, <1>6
  <2>. QED BY <1>1, <2>1, <2>2
<1>. QED BY <1>3, <1>4, <1>6, <1>7, <1>8, <1>9 DEF RingInv, RingConsistent

(* A pop takes the oldest waiting event and shifts the others by one.          *)
LEMMA PopKeepsRing ==
  ASSUME RingInv, Pop
  PROVE  /\ RingInv'
         /\ taken' = buffer[WaitingSlot(1)]
         /\ \A i \in 1 .. count - 1 : WaitingSlot(i)' = WaitingSlot(i + 1)
<1>. USE SizePositive
<1>1. /\ head \in Slot /\ tail \in Slot /\ count \in 1 .. Size
      /\ count \in 0 .. Size
      /\ count' = count - 1 /\ tail' = tail /\ buffer' = buffer
  BY DEF RingInv, TypeOK, Pop
<1>2. tail = IF head + count < Size THEN head + count ELSE head + count - Size
  BY <1>1, TailOfRing DEF RingInv, RingConsistent
<1>3. WaitingSlot(1) = head
  BY <1>1, SlotOfWaiting DEF Slot
<1>4. head' = (IF head + 1 < Size THEN head + 1 ELSE 0) /\ head' \in Slot
  BY <1>1, NextSlotWraps DEF Pop
<1>5. TypeOK'
  BY <1>4 DEF RingInv, TypeOK, Pop, Slot
<1>6. ASSUME NEW i \in 1 .. count - 1
      PROVE  WaitingSlot(i)' = WaitingSlot(i + 1)
  <2>1. i - 1 \in 0 .. Size /\ i + 1 \in 1 .. Size
    BY <1>1
  <2>2. WaitingSlot(i + 1) = IF head + (i + 1) - 1 < Size THEN head + (i + 1) - 1
                                                         ELSE head + (i + 1) - 1 - Size
    BY <1>1, <2>1, SlotOfWaiting
  <2>3. (head' + (i - 1)) % Size = IF head' + (i - 1) < Size THEN head' + (i - 1)
                                                            ELSE head' + (i - 1) - Size
    BY <1>4, <2>1, WrapSum
  <2>4. WaitingSlot(i)' = (head' + (i - 1)) % Size
    <3>1. head' + i - 1 = head' + (i - 1)
      BY <1>4 DEF Slot
    <3>. QED BY <3>1 DEF WaitingSlot
  <2>. QED BY <1>1, <1>4, <2>2, <2>3, <2>4 DEF Slot
<1>7. tail' = (head' + count') % Size
  <2>1. count - 1 \in 0 .. Size
    BY <1>1
  <2>2. (head' + (count - 1)) % Size = IF head' + (count - 1) < Size THEN head' + (count - 1)
                                                            ELSE head' + (count - 1) - Size
    BY <1>4, <2>1, WrapSum
  <2>. QED BY <1>1, <1>2, <1>4, <2>2 DEF Slot
<1>8. \A i \in 1 .. count' : buffer'[WaitingSlot(i)'] \in Event
  BY <1>1, <1>6 DEF RingInv, RingConsistent
<1>. QED BY <1>3, <1>5, <1>6, <1>7, <1>8 DEF RingInv, RingConsistent, Pop

LEMMA NextRing == RingInv /\ [Next]_vars => RingInv'
<1>. SUFFICES ASSUME RingInv, [Next]_vars PROVE RingInv'
  OBVIOUS
<1>1. ASSUME NEW e \in Event, Push(e) PROVE RingInv'
  BY <1>1, PushKeepsRing
<1>2. ASSUME NEW e \in Event, PushRejected(e) PROVE RingInv'
  BY <1>2 DEF RingInv, TypeOK, RingConsistent, WaitingSlot, PushRejected
<1>3. CASE Pop
  BY <1>3, PopKeepsRing
<1>4. CASE UNCHANGED vars
  BY <1>4 DEF RingInv, TypeOK, RingConsistent, WaitingSlot, vars
<1>. QED BY <1>1, <1>2, <1>3, <1>4 DEF Next

(* The ring's inductive invariant holds in every reachable state.              *)
THEOREM RingInvariant == Spec => []RingInv
BY InitRing, NextRing, PTL DEF Spec

(* Every index stays inside the buffer and the count within its size, for any  *)
(* capacity, the rejected zero included (control_queue.cpp:13-39).             *)
THEOREM RingTypeCorrect == Spec => []TypeOK
<1>1. RingInv => TypeOK
  BY DEF RingInv
<1>. QED BY <1>1, RingInvariant, PTL

(* The push index, the pop index and the count never disagree.                 *)
THEOREM RingStaysConsistent == Spec => []RingConsistent
<1>1. RingInv => RingConsistent
  BY DEF RingInv
<1>. QED BY <1>1, RingInvariant, PTL

--------------------------------------------------------------------------------
(* The refinement: each operation of the ring is one of the FIFO's.            *)

LEMMA WaitingIsSeq ==
  ASSUME RingInv
  PROVE  Waiting \in Seq(Event) /\ Len(Waiting) = count
BY DEF RingInv, TypeOK, RingConsistent, Waiting

LEMMA PushRefines ==
  ASSUME RingInv, NEW e \in Event, Push(e)
  PROVE  Fifo!Accept(e)
<1>1. Waiting' = Append(Waiting, e)
  <2>1. RingInv' /\ Waiting' \in Seq(Event) /\ Len(Waiting') = count'
    BY PushKeepsRing DEF RingInv, TypeOK, RingConsistent, Waiting
  <2>2. count' = count + 1 /\ count \in Nat
    BY SizePositive DEF Push, RingInv, TypeOK
  <2>3. /\ Append(Waiting, e) \in Seq(Event)
        /\ Len(Append(Waiting, e)) = count + 1
        /\ \A i \in 1 .. count : Append(Waiting, e)[i] = Waiting[i]
        /\ Append(Waiting, e)[count + 1] = e
    BY WaitingIsSeq, AppendProperties
  <2>4. ASSUME NEW i \in 1 .. count + 1
        PROVE  Waiting'[i] = Append(Waiting, e)[i]
    <3>1. Waiting'[i] = buffer'[WaitingSlot(i)]
      BY <2>2 DEF Waiting, WaitingSlot, Push
    <3>2. CASE i \in 1 .. count
      BY <3>1, <3>2, <2>3, PushKeepsRing DEF Waiting
    <3>3. CASE i = count + 1
      BY <3>1, <3>3, <2>3, PushKeepsRing
    <3>4. i \in 1 .. count \/ i = count + 1
      BY <2>2
    <3>. QED BY <3>2, <3>3, <3>4
  <2>. QED BY <2>1, <2>2, <2>3, <2>4, SeqEqual
<1>2. Len(Waiting) < Size
  BY WaitingIsSeq DEF Push
<1>. QED BY <1>1, <1>2 DEF Fifo!Accept, Push

LEMMA PopRefines ==
  ASSUME RingInv, Pop
  PROVE  Fifo!Take
<1>1. count \in 1 .. Size
  BY DEF RingInv, TypeOK, Pop
<1>2. Waiting # <<>> /\ taken' = Head(Waiting)
  BY <1>1, WaitingIsSeq, PopKeepsRing DEF Waiting
<1>3. Waiting' = Tail(Waiting)
  <2>1. Waiting' \in Seq(Event) /\ Len(Waiting') = count'
    BY PopKeepsRing DEF RingInv, TypeOK, RingConsistent, Waiting
  <2>2. count' = count - 1
    BY DEF Pop
  <2>3. /\ Tail(Waiting) \in Seq(Event)
        /\ Len(Tail(Waiting)) = count - 1
        /\ \A i \in 1 .. count - 1 : Tail(Waiting)[i] = Waiting[i + 1]
    BY <1>2, WaitingIsSeq, HeadTailProperties
  <2>4. ASSUME NEW i \in 1 .. count - 1
        PROVE  Waiting'[i] = Tail(Waiting)[i]
    <3>1. i + 1 \in 1 .. count
      BY <1>1
    <3>2. Waiting'[i] = buffer'[WaitingSlot(i)'] /\ Waiting[i + 1] = buffer[WaitingSlot(i + 1)]
      BY <2>2, <3>1 DEF Waiting
    <3>. QED BY <2>3, <3>2, PopKeepsRing DEF Pop
  <2>. QED BY <2>1, <2>2, <2>3, <2>4, SeqEqual
<1>. QED BY <1>2, <1>3 DEF Fifo!Take, Pop

LEMMA RejectRefines ==
  ASSUME RingInv, NEW e \in Event, PushRejected(e)
  PROVE  Fifo!Reject(e)
<1>1. Len(Waiting) = Size
  BY WaitingIsSeq, SizePositive DEF RingInv, TypeOK, PushRejected
<1>2. Waiting' = Waiting
  BY DEF PushRejected, Waiting, WaitingSlot
<1>. QED BY <1>1, <1>2 DEF Fifo!Reject, PushRejected

LEMMA StepRefines == RingInv /\ [Next]_vars => [Fifo!Next]_(Fifo!vars)
<1>. SUFFICES ASSUME RingInv, [Next]_vars PROVE [Fifo!Next]_(Fifo!vars)
  OBVIOUS
<1>1. ASSUME NEW e \in Event, Push(e) PROVE Fifo!Next
  BY <1>1, PushRefines DEF Fifo!Next
<1>2. ASSUME NEW e \in Event, PushRejected(e) PROVE Fifo!Next
  BY <1>2, RejectRefines DEF Fifo!Next
<1>3. CASE Pop
  BY <1>3, PopRefines DEF Fifo!Next
<1>4. CASE UNCHANGED vars
  BY <1>4 DEF vars, Fifo!vars, Waiting, WaitingSlot
<1>. QED BY <1>1, <1>2, <1>3, <1>4 DEF Next

LEMMA InitRefines == Init => Fifo!Init
BY DEF Init, Fifo!Init, Waiting

(* The ring with its wrapping indices is a bounded FIFO: accepted events are   *)
(* handed out once, in order, and only a full queue rejects.                   *)
THEOREM RingImplementsFifo == Spec => RingIsFifo
BY InitRefines, StepRefines, RingInvariant, PTL DEF Spec, RingIsFifo, Fifo!Spec

(* A finite set of numbers has a least one: the member before which the        *)
(* fewest others lie.                                                          *)
LEMMA LeastOfFinite ==
  ASSUME NEW S, S \subseteq Int, IsFiniteSet(S), S # {}
  PROVE  Min(S) \in S /\ \A y \in S : Min(S) <= y
<1>. DEFINE UpTo(x) == {y \in S : y <= x}
            Starts == {UpTo(x) : x \in S}
<1>1. PICK A \in Starts : \A B \in Starts : <<B, A>> \notin StrictSubsetOrdering(S)
  <2>1. IsWellFoundedOn(StrictSubsetOrdering(S), FiniteSubsetsOf(S))
    BY FS_StrictSubsetOrderingWellFounded
  <2>2. Starts \subseteq FiniteSubsetsOf(S)
    BY FS_Subset DEF FiniteSubsetsOf
  <2>3. Starts # {}
    OBVIOUS
  <2>. HIDE DEF Starts
  <2>. QED BY <2>1, <2>2, <2>3, WFMin
<1>2. PICK x \in S : A = UpTo(x)
  OBVIOUS
<1>3. \A y \in S : x <= y
  <2>. SUFFICES ASSUME NEW y \in S, ~ (x <= y) PROVE FALSE
    OBVIOUS
  <2>1. x \in Int /\ y \in Int /\ \A z \in S : z \in Int
    OBVIOUS
  <2>2. y <= y /\ x <= x /\ \A z \in S : z <= y => z <= x
    BY <2>1
  <2>3. UpTo(y) \in SUBSET S /\ UpTo(x) \in SUBSET S /\ UpTo(y) \in Starts
    OBVIOUS
  <2>4. UpTo(y) \subseteq UpTo(x)
    BY <2>2
  <2>5. x \in UpTo(x) /\ x \notin UpTo(y)
    BY <2>2
  <2>. HIDE DEF UpTo, Starts
  <2>6. <<UpTo(y), A>> \in StrictSubsetOrdering(S)
    BY <1>2, <2>3, <2>4, <2>5 DEF StrictSubsetOrdering
  <2>. QED BY <1>1, <2>3, <2>6
<1>. QED BY <1>3 DEF Min

--------------------------------------------------------------------------------
(* The console's inductive invariant.  The browsers and the table are kept by  *)
(* one task and the messages by another, which sends from a copy of the table. *)

Sending == phase \in {"snapshot", "send", "drop"}

\* The part of the frame, the one that broadcasts while it does.
Part == IF Sending THEN outbox.then ELSE phase

BoundsHold ==
  /\ setup \in Setups
  /\ done \in [connects : Nat, requests : Nat, failures : Nat, changes : Nat]

(* A socket is one browser's, and a browser that is not there, or not quite,   *)
(* is owed nothing.                                                            *)
TableHolds ==
  /\ fd \in [Client -> 0 .. Fds] /\ slots \in [1 .. Slots -> 0 .. Fds]
  /\ \A c, d \in Client : c # d /\ fd[c] # NoFd => fd[c] # fd[d]
  /\ IF worker = "idle" THEN joining = Nobody ELSE joining \in Client /\ fd[joining] # NoFd
  /\ owed \in [Client -> SUBSET Nat] /\ unaware \in [Client -> SUBSET Fx]
  /\ \A c \in Client : fd[c] = NoFd \/ c = joining => owed[c] = {} /\ unaware[c] = {}

(* Each kind of message belongs to a part of the frame, and broken effects are *)
(* reported before the next effect can break.                                  *)
FrameHolds ==
  /\ effects \in [Fx -> {"fine", "broken", "reported"}] /\ errors \in Seq(Fx)
  /\ phase \in {"input", "evals", "leds", "draw", "take", "check", "record", "poll", "report",
                "snapshot", "send", "drop"}
  /\ ~ Sending => outbox.kind = "none"
  /\ Sending => \/ outbox.kind = "answer" /\ outbox.then = "evals"
                \/ outbox.kind = "state" /\ outbox.then = "record"
                \/ outbox.kind = "error" /\ outbox.then = "report"
  /\ Part \in {"input", "evals", "leds", "draw", "report"} => Broken = {}
  /\ Part # "report" => errors = <<>>

Awaits(c) ==
  \/ outbox.kind = "answer" /\ outbox.body \in owed[c]
  \/ outbox.kind = "error" /\ outbox.body \in unaware[c]

(* Wherever the table has the socket of a browser that awaits the message, the *)
(* copy still has it: the table loses a socket no later than the copy, though  *)
(* a socket that was left over from an earlier browser may be in it twice.     *)
CopyServes ==
  phase \in {"send", "drop"} =>
    \A c \in Client : Awaits(c) =>
      \A i \in 1 .. Slots : slots[i] = fd[c] => i \in DOMAIN targets /\ targets[i] = fd[c]

(* The submissions are numbered: none that is on its way has a number still to *)
(* come, so a new one is never taken for the one being answered.               *)
Numbered ==
  /\ \A i \in 1 .. count : Waiting[i].id \in 1 .. done.requests
  /\ outbox.kind = "answer" => outbox.body \in 1 .. done.requests

CopyHolds == DOMAIN targets \subseteq 1 .. Slots

ErrorTo(c) ==
  IF outbox.kind = "error" /\ (phase = "snapshot" \/ \E i \in DOMAIN targets : targets[i] = fd[c])
  THEN {outbox.body} ELSE {}

Reports(c) == Broken \cup {errors[i] : i \in DOMAIN errors} \cup ErrorTo(c)

ErrorsKept == \A c \in Client : Listed(c) => unaware[c] \subseteq Reports(c)

ConsoleInv ==
  /\ BoundsHold /\ RingInv /\ TableHolds /\ FrameHolds
  /\ Numbered /\ CopyHolds /\ CopyServes /\ EvalsAreAnswered /\ ErrorsKept

LEMMA InitConsole == ConsoleInit => ConsoleInv
<1>. SUFFICES ASSUME ConsoleInit PROVE ConsoleInv
  OBVIOUS
<1>1. BoundsHold /\ RingInv
  BY InitRing DEF ConsoleInit, BoundsHold
<1>2. TableHolds
  BY ConsoleAssumption DEF ConsoleInit, TableHolds, NoFd
<1>3. FrameHolds
  BY DEF ConsoleInit, FrameHolds, Sending, Part, Broken
<1>4. CopyHolds /\ CopyServes
  BY DEF ConsoleInit, CopyHolds, CopyServes
<1>6. Numbered
  BY DEF ConsoleInit, Init, Numbered
<1>5. EvalsAreAnswered /\ ErrorsKept
  BY DEF ConsoleInit, EvalsAreAnswered, ErrorsKept, Listed
<1>. QED BY <1>1, <1>2, <1>3, <1>4, <1>5, <1>6 DEF ConsoleInv

(* What was done stays countable.                                              *)
LEMMA SpendCounts ==
  ASSUME BoundsHold, NEW what \in {"connects", "requests", "failures", "changes"}, Spend(what)
  PROVE  /\ done' \in [connects : Nat, requests : Nat, failures : Nat, changes : Nat]
         /\ done[what] \in Nat /\ done[what] < setup[what]
BY DEF BoundsHold, Spend

LEMMA BoundsKept == BoundsHold /\ [ConsoleNext]_consoleVars => BoundsHold'
<1>. SUFFICES ASSUME BoundsHold, [ConsoleNext]_consoleVars PROVE BoundsHold'
  OBVIOUS
<1>1. CASE UNCHANGED <<setup, done>>
  BY <1>1 DEF BoundsHold
<1>2. ASSUME NEW what \in {"connects", "requests", "failures", "changes"}, Spend(what), setup' = setup
      PROVE  BoundsHold'
  BY <1>2, SpendCounts DEF BoundsHold
<1>3. CASE Server
  BY <1>1, <1>2, <1>3 DEF Server, Connect, WsClientAdd, NoteNewClient, Disconnect, Submit
<1>4. CASE Broadcasting
  BY <1>1, <1>2, <1>4 DEF Broadcasting, Snapshot, Send, SendFails, WsClientRemove, Sent
<1>5. CASE PumpControl \/ PumpEval \/ PumpEvalsDone \/ RefreshLeds \/ Draw \/ TakeForced
  BY <1>1, <1>2, <1>5 DEF PumpControl, PumpEval, PumpEvalsDone, RefreshLeds, Draw, TakeForced
<1>6. CASE Check \/ Record \/ PollFxError \/ ReportFxError \/ EndFrame
  BY <1>1, <1>6 DEF Check, Record, PollFxError, ReportFxError, EndFrame
<1>7. CASE UNCHANGED consoleVars
  BY <1>1, <1>7 DEF consoleVars
<1>. QED BY <1>3, <1>4, <1>5, <1>6, <1>7 DEF ConsoleNext, Render

(* The event a browser pushes.                                                 *)
LEMMA SubmitPushes ==
  ASSUME BoundsHold, NEW c \in Client, Submit(c)
  PROVE  \E e \in Event :
           /\ e.id = done.requests + 1 /\ done'.requests = done.requests + 1
           /\ done.requests \in Nat
           /\ \/ Push(e) /\ owed' = [owed EXCEPT ![c] = @ \cup {e.id}]
              \/ PushRejected(e) /\ owed' = owed
<1>1. PICK s \in setup.scripts :
        LET e == [id |-> done.requests + 1, script |-> s]
        IN  \/ Push(e) /\ owed' = [owed EXCEPT ![c] = @ \cup {e.id}]
            \/ PushRejected(e) /\ owed' = owed
  BY DEF Submit
<1>2. done.requests \in Nat /\ done.requests < setup.requests
  BY SpendCounts DEF Submit
<1>3. setup \in Setups /\ setup.requests \in Nat
  BY ConsoleAssumption DEF BoundsHold
<1>4. done.requests + 1 \in 1 .. setup.requests
  BY <1>2, <1>3
<1>5. [id |-> done.requests + 1, script |-> s] \in Event
  BY <1>3, <1>4, ConsoleAssumption
<1>6. done'.requests = done.requests + 1
  BY DEF Submit, Spend, BoundsHold
<1>. QED BY <1>1, <1>2, <1>5, <1>6

(* The console uses the ring as its callers may.                               *)
LEMMA RingStep == BoundsHold /\ [ConsoleNext]_consoleVars => [Next]_vars
<1>. SUFFICES ASSUME BoundsHold, [ConsoleNext]_consoleVars PROVE [Next]_vars
  OBVIOUS
<1>1. ASSUME NEW c \in Client, Submit(c) PROVE Next
  BY <1>1, SubmitPushes DEF Next
<1>2. CASE Server
  BY <1>1, <1>2 DEF Server, Connect, WsClientAdd, NoteNewClient, Disconnect
<1>3. CASE Broadcasting
  BY <1>3 DEF Broadcasting, Snapshot, Send, SendFails, WsClientRemove, Sent
<1>4. CASE PumpControl \/ PumpEval \/ PumpEvalsDone \/ RefreshLeds \/ Draw \/ TakeForced
  BY <1>4 DEF PumpControl, PumpEval, PumpEvalsDone, RefreshLeds, Draw, TakeForced, Next
<1>5. CASE Check \/ Record \/ PollFxError \/ ReportFxError \/ EndFrame
  BY <1>5 DEF Check, Record, PollFxError, ReportFxError, EndFrame
<1>6. CASE UNCHANGED consoleVars
  BY <1>6 DEF consoleVars
<1>. QED BY <1>2, <1>3, <1>4, <1>5, <1>6 DEF ConsoleNext, Render

--------------------------------------------------------------------------------
(* The table.                                                                  *)

(* The lowest of the free sockets is one.                                      *)
LEMMA LowestFree ==
  ASSUME FreeFds # {}
  PROVE  /\ Min(FreeFds) \in 1 .. Fds
         /\ \A c \in Client : fd[c] # Min(FreeFds)
<1>1. IsFiniteSet(1 .. Fds) /\ FreeFds \subseteq 1 .. Fds /\ 1 .. Fds \subseteq Int
  BY FS_Interval, ConsoleAssumption DEF FreeFds
<1>2. IsFiniteSet(FreeFds) /\ FreeFds \subseteq Int
  BY <1>1, FS_Subset
<1>3. Min(FreeFds) \in FreeFds
  BY <1>2, LeastOfFinite
<1>. QED BY <1>1, <1>3 DEF FreeFds

LEMMA ConnectKeepsTable ==
  ASSUME TableHolds, NEW c \in Client, Connect(c)
  PROVE  TableHolds'
<1>. DEFINE f == Min(FreeFds)
<1>1. f \in 1 .. Fds /\ \A d \in Client : fd[d] # f
  BY LowestFree DEF Connect
<1>2. f # NoFd /\ f \in 0 .. Fds
  BY <1>1, ConsoleAssumption DEF NoFd
<1>3. fd' = [fd EXCEPT ![c] = f] /\ worker' = "add" /\ joining' = c /\ fd[c] = NoFd
  BY DEF Connect
<1>. HIDE DEF f
<1>4. fd' \in [Client -> 0 .. Fds] /\ fd'[c] = f /\ \A d \in Client : d # c => fd'[d] = fd[d]
  BY <1>2, <1>3 DEF TableHolds
<1>5. \A d, e \in Client : d # e /\ fd'[d] # NoFd => fd'[d] # fd'[e]
  BY <1>1, <1>4 DEF TableHolds
<1>6. slots' = slots /\ owed' = owed /\ unaware' = unaware
  BY DEF Connect, knowledge
<1>7. \A d \in Client : fd'[d] = NoFd \/ d = joining' => owed'[d] = {} /\ unaware'[d] = {}
  BY <1>2, <1>3, <1>4, <1>6 DEF TableHolds
<1>. QED BY <1>2, <1>3, <1>4, <1>5, <1>6, <1>7 DEF TableHolds

LEMMA AddKeepsTable ==
  ASSUME TableHolds, WsClientAdd
  PROVE  TableHolds'
<1>1. slots' \in [1 .. Slots -> 0 .. Fds]
  <2>1. fd[joining] \in 0 .. Fds
    BY DEF TableHolds, WsClientAdd
  <2>. QED BY <2>1 DEF TableHolds, WsClientAdd
<1>. QED BY <1>1 DEF TableHolds, WsClientAdd, knowledge

LEMMA NoteKeepsTable ==
  ASSUME TableHolds, NoteNewClient
  PROVE  TableHolds'
BY ConsoleAssumption DEF TableHolds, NoteNewClient, knowledge

LEMMA DisconnectKeepsTable ==
  ASSUME TableHolds, NEW c \in Client, Disconnect(c)
  PROVE  TableHolds'
<1>1. NoFd \in 0 .. Fds
  BY ConsoleAssumption DEF NoFd
<1>2. fd' \in [Client -> 0 .. Fds] /\ fd'[c] = NoFd /\ \A d \in Client : d # c => fd'[d] = fd[d]
  BY <1>1 DEF TableHolds, Disconnect
<1>3. /\ owed' \in [Client -> SUBSET Nat] /\ owed'[c] = {}
      /\ \A d \in Client : d # c => owed'[d] = owed[d]
  BY DEF TableHolds, Disconnect
<1>4. /\ unaware' \in [Client -> SUBSET Fx] /\ unaware'[c] = {}
      /\ \A d \in Client : d # c => unaware'[d] = unaware[d]
  BY DEF TableHolds, Disconnect
<1>5. \A d, e \in Client : d # e /\ fd'[d] # NoFd => fd'[d] # fd'[e]
  BY <1>2 DEF TableHolds
<1>6. worker = "idle" /\ worker' = worker /\ joining' = joining /\ slots' = slots
  BY DEF Disconnect
<1>. QED BY <1>2, <1>3, <1>4, <1>5, <1>6, ConsoleAssumption DEF TableHolds

LEMMA SubmitKeepsTable ==
  ASSUME BoundsHold, TableHolds, NEW c \in Client, Submit(c)
  PROVE  TableHolds'
<1>1. PICK id \in Nat : owed' = owed \/ owed' = [owed EXCEPT ![c] = @ \cup {id}]
  <2>1. done.requests + 1 \in Nat
    BY SpendCounts DEF Submit
  <2>. QED BY <2>1 DEF Submit
<1>2. owed' \in [Client -> SUBSET Nat] /\ \A d \in Client : d # c => owed'[d] = owed[d]
  BY <1>1 DEF TableHolds
<1>3. worker = "idle" /\ fd[c] # NoFd /\ UNCHANGED <<server, unaware>>
  BY DEF Submit
<1>4. c # joining
  BY <1>3, ConsoleAssumption DEF TableHolds
<1>. QED BY <1>2, <1>3, <1>4 DEF TableHolds, server

LEMMA SendKeepsTable ==
  ASSUME TableHolds, Send
  PROVE  TableHolds'
<1>1. PICK c \in Client : Deliver(c)
  BY DEF Send
<1>2. owed' \in [Client -> SUBSET Nat] /\ \A d \in Client : owed'[d] \subseteq owed[d]
  BY <1>1 DEF TableHolds, Deliver
<1>3. unaware' \in [Client -> SUBSET Fx] /\ \A d \in Client : unaware'[d] \subseteq unaware[d]
  BY <1>1 DEF TableHolds, Deliver
<1>. QED BY <1>2, <1>3 DEF TableHolds, Send, server

LEMMA RemoveKeepsTable ==
  ASSUME TableHolds, WsClientRemove
  PROVE  TableHolds'
<1>1. NoFd \in 0 .. Fds
  BY ConsoleAssumption DEF NoFd
<1>2. slots' \in [1 .. Slots -> 0 .. Fds]
  BY <1>1 DEF TableHolds, WsClientRemove
<1>. QED BY <1>2 DEF TableHolds, WsClientRemove, knowledge

LEMMA DrawKeepsTable ==
  ASSUME BoundsHold, TableHolds, Draw
  PROVE  TableHolds'
<1>1. unaware' \in [Client -> SUBSET Fx]
      /\ \A d \in Client : Listed(d) \/ unaware'[d] = unaware[d]
  <2>1. setup.fx \subseteq Fx
    BY ConsoleAssumption DEF BoundsHold
  <2>. QED BY <2>1 DEF Draw, TableHolds
<1>2. UNCHANGED <<server, owed>>
  BY DEF Draw
<1>3. \A d \in Client : Listed(d) => fd[d] # NoFd /\ d # joining
  BY DEF Listed
<1>. QED BY <1>1, <1>2, <1>3 DEF TableHolds, server

LEMMA TableKept ==
  ASSUME BoundsHold, TableHolds, [ConsoleNext]_consoleVars
  PROVE  TableHolds'
<1>1. CASE UNCHANGED <<fd, slots, worker, joining, owed, unaware>>
  BY <1>1 DEF TableHolds
<1>2. CASE Server
  BY <1>2, ConnectKeepsTable, AddKeepsTable, NoteKeepsTable, DisconnectKeepsTable, SubmitKeepsTable
     DEF Server
<1>3. CASE Broadcasting
  BY <1>1, <1>3, SendKeepsTable, RemoveKeepsTable
     DEF Broadcasting, Snapshot, SendFails, Sent, server, knowledge
<1>4. CASE PumpControl \/ PumpEval \/ PumpEvalsDone \/ RefreshLeds \/ TakeForced
  BY <1>1, <1>4 DEF PumpControl, PumpEval, PumpEvalsDone, RefreshLeds, TakeForced, server, knowledge
<1>5. CASE Check \/ Record \/ PollFxError \/ ReportFxError \/ EndFrame
  BY <1>1, <1>5 DEF Check, Record, PollFxError, ReportFxError, EndFrame, server, knowledge
<1>6. CASE UNCHANGED consoleVars
  BY <1>1, <1>6 DEF consoleVars, server, knowledge
<1>. QED BY <1>2, <1>3, <1>4, <1>5, <1>6, DrawKeepsTable DEF ConsoleNext, Render

--------------------------------------------------------------------------------
(* The frame.                                                                  *)

(* A finite set as a sequence has all its elements.                            *)
LEMMA SetToSeqHasAll ==
  ASSUME NEW S, IsFiniteSet(S)
  PROVE  /\ SetToSeq(S) \in Seq(S)
         /\ S \subseteq {SetToSeq(S)[i] : i \in DOMAIN SetToSeq(S)}
<1>. DEFINE n == Cardinality(S)
            f == SetToSeq(S)
<1>1. n \in Nat /\ ExistsBijection(1 .. n, S)
  BY FS_CardinalityType
<1>2. f \in [1 .. n -> S] /\ IsInjective(f)
  BY <1>1 DEF SetToSeq, ExistsBijection, Bijection, Injection
<1>3. f \in Injection(1 .. n, S)
  BY <1>2 DEF Injection
<1>4. Cardinality(1 .. n) = n
  BY <1>1, FS_Interval
<1>. HIDE DEF f
<1>5. f \in Surjection(1 .. n, S)
  BY <1>3, <1>4, FS_Injection
<1>6. f \in Seq(S)
  BY <1>1, <1>2
<1>7. S \subseteq {f[i] : i \in DOMAIN f}
  BY <1>2, <1>5 DEF Surjection
<1>. QED BY <1>6, <1>7 DEF f

LEMMA FrameKept ==
  ASSUME FrameHolds, [ConsoleNext]_consoleVars
  PROVE  FrameHolds'
<1>. USE DEF Sending, Part
<1>1. CASE UNCHANGED <<phase, outbox, effects, errors>>
  BY <1>1 DEF FrameHolds, Broken
<1>2. CASE Server
  BY <1>1, <1>2 DEF Server, Connect, WsClientAdd, NoteNewClient, Disconnect, Submit, render
<1>3. CASE Snapshot \/ Send \/ SendFails \/ WsClientRemove
  BY <1>3 DEF Snapshot, Send, SendFails, WsClientRemove, FrameHolds, Broken
<1>4. CASE Sent
  BY <1>4 DEF Sent, FrameHolds, Broken
<1>5. CASE PumpControl \/ PumpEval \/ PumpEvalsDone \/ RefreshLeds \/ TakeForced
  BY <1>5 DEF PumpControl, PumpEval, PumpEvalsDone, RefreshLeds, TakeForced, Broadcast, FrameHolds,
              Broken
<1>6. CASE Draw
  <2>1. effects' \in [Fx -> {"fine", "broken", "reported"}]
    BY <1>6 DEF Draw, FrameHolds
  <2>. QED BY <1>6, <2>1 DEF Draw, FrameHolds
<1>7. CASE Check \/ Record
  BY <1>7 DEF Check, Record, Broadcast, FrameHolds, Broken
<1>8. CASE PollFxError
  <2>1. effects' \in [Fx -> {"fine", "broken", "reported"}] /\ Broken' = {}
    BY <1>8 DEF PollFxError, FrameHolds, Broken
  <2>2. errors' \in Seq(Fx)
    <3>1. IsFiniteSet(Broken) /\ Broken \subseteq Fx
      BY FS_Subset, ConsoleAssumption DEF Broken
    <3>2. SetToSeq(Broken) \in Seq(Broken)
      BY <3>1, SetToSeqHasAll
    <3>3. Seq(Broken) \subseteq Seq(Fx)
      BY <3>1
    <3>. QED BY <1>8, <3>2, <3>3 DEF PollFxError
  <2>. QED BY <1>8, <2>1, <2>2 DEF PollFxError, FrameHolds
<1>9. CASE ReportFxError
  <2>1. errors' \in Seq(Fx)
    BY <1>9, HeadTailProperties DEF ReportFxError, FrameHolds
  <2>. QED BY <1>9, <2>1 DEF ReportFxError, Broadcast, FrameHolds, Broken
<1>10. CASE EndFrame
  BY <1>10 DEF EndFrame, FrameHolds, Broken
<1>11. CASE UNCHANGED consoleVars
  BY <1>1, <1>11 DEF consoleVars, render
<1>. QED BY <1>2, <1>3, <1>4, <1>5, <1>6, <1>7, <1>8, <1>9, <1>10, <1>11
         DEF ConsoleNext, Render, Broadcasting

(* The copy keeps to the slots of the table.                                   *)
LEMMA CopyKept ==
  ASSUME CopyHolds, [ConsoleNext]_consoleVars
  PROVE  CopyHolds'
<1>1. CASE UNCHANGED targets
  BY <1>1 DEF CopyHolds
<1>2. CASE Broadcasting
  BY <1>1, <1>2 DEF Broadcasting, Snapshot, Send, SendFails, WsClientRemove, Sent, Later, CopyHolds
<1>3. CASE Server
  BY <1>1, <1>3 DEF Server, Connect, WsClientAdd, NoteNewClient, Disconnect, Submit, render
<1>4. CASE PumpControl \/ PumpEval \/ PumpEvalsDone \/ RefreshLeds \/ Draw \/ TakeForced
  BY <1>1, <1>4 DEF PumpControl, PumpEval, PumpEvalsDone, RefreshLeds, Draw, TakeForced
<1>5. CASE Check \/ Record \/ PollFxError \/ ReportFxError \/ EndFrame
  BY <1>1, <1>5 DEF Check, Record, PollFxError, ReportFxError, EndFrame
<1>6. CASE UNCHANGED consoleVars
  BY <1>1, <1>6 DEF consoleVars, render
<1>. QED BY <1>2, <1>3, <1>4, <1>5, <1>6 DEF ConsoleNext, Render

--------------------------------------------------------------------------------
(* The submissions that wait.                                                  *)

LEMMA PushAppends ==
  ASSUME RingInv, NEW e \in Event, Push(e)
  PROVE  /\ count \in Nat /\ count' = count + 1
         /\ \A i \in 1 .. count : Waiting'[i] = Waiting[i]
         /\ Waiting'[count + 1] = e
<1>1. count \in Nat /\ count' = count + 1
  BY SizePositive DEF RingInv, TypeOK, Push
<1>2. \A i \in 1 .. count + 1 : Waiting'[i] = buffer'[WaitingSlot(i)]
  BY <1>1 DEF Waiting, WaitingSlot, Push
<1>. QED BY <1>1, <1>2, PushKeepsRing DEF Waiting

LEMMA PopRemoves ==
  ASSUME RingInv, Pop
  PROVE  /\ count \in Nat \ {0} /\ count' = count - 1
         /\ buffer[head] = Waiting[1]
         /\ \A i \in 1 .. count - 1 : Waiting'[i] = Waiting[i + 1]
<1>1. count \in Nat \ {0} /\ count' = count - 1 /\ count <= Size
  BY SizePositive DEF RingInv, TypeOK, Pop
<1>2. buffer[head] = Waiting[1]
  BY <1>1, PopKeepsRing DEF Pop, Waiting
<1>3. ASSUME NEW i \in 1 .. count - 1 PROVE Waiting'[i] = Waiting[i + 1]
  <2>1. i + 1 \in 1 .. count
    BY <1>1
  <2>2. Waiting'[i] = buffer'[WaitingSlot(i)'] /\ Waiting[i + 1] = buffer[WaitingSlot(i + 1)]
    BY <1>1, <2>1 DEF Waiting
  <2>. QED BY <2>2, PopKeepsRing DEF Pop
<1>. QED BY <1>1, <1>2, <1>3

LEMMA NumbersKept ==
  ASSUME BoundsHold, RingInv, FrameHolds, Numbered, [ConsoleNext]_consoleVars
  PROVE  Numbered'
<1>1. done.requests \in Nat
  BY DEF BoundsHold
<1>2. ASSUME done' = done \/ \E what \in {"connects", "failures", "changes"} : Spend(what)
      PROVE  done'.requests = done.requests
  BY <1>2 DEF Spend, BoundsHold
<1>3. ASSUME done' = done \/ \E what \in {"connects", "failures", "changes"} : Spend(what),
             UNCHANGED vars, outbox' = outbox \/ outbox'.kind # "answer"
      PROVE  Numbered'
  BY <1>2, <1>3 DEF Numbered, vars, Waiting, WaitingSlot
<1>4. ASSUME NEW c \in Client, Submit(c) PROVE Numbered'
  <2>1. PICK e \in Event :
           /\ e.id = done.requests + 1 /\ done'.requests = done.requests + 1
           /\ Push(e) \/ PushRejected(e)
    BY <1>4, SubmitPushes
  <2>2. outbox' = outbox
    BY <1>4 DEF Submit, render
  <2>3. 1 .. done.requests \subseteq 1 .. done'.requests /\ done.requests + 1 \in 1 .. done'.requests
    BY <1>1, <2>1
  <2>4. CASE Push(e)
    <3>1. \A i \in 1 .. count : Waiting'[i].id \in 1 .. done'.requests
      BY <2>3, <2>4, PushAppends DEF Numbered
    <3>2. \A i \in 1 .. count' : i \in 1 .. count \/ i = count + 1
      BY <2>4, PushAppends
    <3>. QED BY <2>1, <2>2, <2>3, <2>4, <3>1, <3>2, PushAppends DEF Numbered
  <2>5. CASE PushRejected(e)
    BY <2>2, <2>3, <2>5 DEF Numbered, PushRejected, Waiting, WaitingSlot
  <2>. QED BY <2>1, <2>4, <2>5
<1>5. CASE PumpEval
  <2>1. Pop /\ done' = done /\ outbox'.body = buffer[head].id
    BY <1>5 DEF PumpEval, Broadcast
  <2>2. count \in Nat \ {0} /\ 1 \in 1 .. count /\ \A i \in 1 .. count' : i \in 1 .. count - 1 /\ i + 1 \in 1 .. count
    BY <2>1, PopRemoves
  <2>. QED BY <2>1, <2>2, PopRemoves DEF Numbered
<1>6. CASE Server
  BY <1>3, <1>4, <1>6 DEF Server, Connect, WsClientAdd, NoteNewClient, Disconnect, render
<1>7. CASE Broadcasting
  BY <1>3, <1>7 DEF Broadcasting, Snapshot, Send, SendFails, WsClientRemove, Sent
<1>8. CASE PumpControl \/ PumpEvalsDone \/ RefreshLeds \/ Draw \/ TakeForced
  BY <1>3, <1>8 DEF PumpControl, PumpEvalsDone, RefreshLeds, Draw, TakeForced
<1>9. CASE Check \/ Record \/ PollFxError \/ ReportFxError \/ EndFrame
  BY <1>3, <1>9 DEF Check, Record, PollFxError, ReportFxError, EndFrame, Broadcast
<1>10. CASE UNCHANGED consoleVars
  BY <1>3, <1>10 DEF consoleVars, render
<1>. QED BY <1>5, <1>6, <1>7, <1>8, <1>9, <1>10 DEF ConsoleNext, Render

--------------------------------------------------------------------------------
(* The messages.                                                               *)

MessagesHold == CopyServes /\ EvalsAreAnswered /\ ErrorsKept

\* What the queue owes.
Queued == {Waiting[i].id : i \in 1 .. count}

(* A change of the table that gives nobody else's socket away leaves the       *)
(* messages alone.                                                             *)
LEMMA MessagesStay ==
  ASSUME TableHolds, MessagesHold, UNCHANGED <<render, vars>>,
         \A c \in Client :
           \/ owed'[c] = {} /\ unaware'[c] = {}
           \/ /\ owed'[c] = owed[c] /\ unaware'[c] = unaware[c] /\ fd'[c] = fd[c]
              /\ c = joining => c = joining'
              /\ fd[c] # NoFd => \A i \in 1 .. Slots : slots'[i] = fd[c] => slots[i] = fd[c]
  PROVE  MessagesHold'
<1>1. UNCHANGED <<phase, outbox, targets, effects, errors>> /\ Queued' = Queued
  BY DEF render, vars, Queued, Waiting, WaitingSlot
<1>2. ASSUME NEW c \in Client, owed'[c] # {} \/ unaware'[c] # {}
      PROVE  /\ owed'[c] = owed[c] /\ unaware'[c] = unaware[c] /\ fd'[c] = fd[c]
             /\ \A i \in 1 .. Slots : slots'[i] = fd[c] => slots[i] = fd[c]
             /\ Listed(c)' => Listed(c)
  BY <1>2 DEF TableHolds, Listed
<1>3. CopyServes'
  BY <1>1, <1>2 DEF MessagesHold, CopyServes, Awaits
<1>4. EvalsAreAnswered'
  <2>. SUFFICES ASSUME NEW c \in Client, Listed(c)', owed'[c] # {}
                PROVE  owed'[c] \subseteq Queued' \cup AnswerTo(c)'
    BY DEF EvalsAreAnswered, Queued
  <2>1. owed[c] \subseteq Queued \cup AnswerTo(c)
    BY <1>2 DEF MessagesHold, EvalsAreAnswered, Queued
  <2>2. AnswerTo(c)' = AnswerTo(c)
    BY <1>1, <1>2 DEF AnswerTo
  <2>. QED BY <1>1, <1>2, <2>1, <2>2
<1>5. ErrorsKept'
  <2>. SUFFICES ASSUME NEW c \in Client, Listed(c)', unaware'[c] # {}
                PROVE  unaware'[c] \subseteq Reports(c)'
    BY DEF ErrorsKept
  <2>1. unaware[c] \subseteq Reports(c)
    BY <1>2 DEF MessagesHold, ErrorsKept
  <2>2. Reports(c)' = Reports(c)
    BY <1>1, <1>2 DEF Reports, ErrorTo, Broken
  <2>. QED BY <1>2, <2>1, <2>2
<1>. QED BY <1>3, <1>4, <1>5 DEF MessagesHold

LEMMA TableStepsKeepMessages ==
  ASSUME TableHolds, MessagesHold,
         WsClientAdd \/ NoteNewClient \/ \E c \in Client : Connect(c) \/ Disconnect(c)
  PROVE  MessagesHold'
<1>1. CASE WsClientAdd
  <2>1. joining \in Client /\ fd[joining] # NoFd /\ \A c \in Client : c # joining => fd[c] # fd[joining]
    BY <1>1 DEF WsClientAdd, TableHolds
  <2>2. \A i \in 1 .. Slots : slots'[i] = slots[i] \/ slots'[i] = fd[joining]
    BY <1>1 DEF WsClientAdd, TableHolds
  <2>3. \A c \in Client : c # joining => \A i \in 1 .. Slots : slots'[i] = fd[c] => slots[i] = fd[c]
    BY <2>1, <2>2
  <2>. QED BY <1>1, <2>1, <2>3, MessagesStay DEF WsClientAdd, TableHolds, knowledge
<1>2. CASE NoteNewClient
  <2>1. \A c \in Client : c = joining => owed[c] = {} /\ unaware[c] = {}
    BY DEF TableHolds
  <2>. QED BY <1>2, <2>1, MessagesStay DEF NoteNewClient, knowledge
<1>3. ASSUME NEW c \in Client, Connect(c) PROVE MessagesHold'
  <2>1. owed[c] = {} /\ unaware[c] = {} /\ joining = Nobody /\ c # Nobody
    BY <1>3, ConsoleAssumption DEF Connect, TableHolds
  <2>2. \A d \in Client : d # c => fd'[d] = fd[d] /\ d # joining
    BY <1>3, <2>1, ConsoleAssumption DEF Connect, TableHolds
  <2>. QED BY <1>3, <2>1, <2>2, MessagesStay DEF Connect, knowledge
<1>4. ASSUME NEW c \in Client, Disconnect(c) PROVE MessagesHold'
  <2>1. owed'[c] = {} /\ unaware'[c] = {}
    BY <1>4 DEF Disconnect, TableHolds
  <2>2. \A d \in Client : d # c => fd'[d] = fd[d] /\ owed'[d] = owed[d] /\ unaware'[d] = unaware[d]
    BY <1>4 DEF Disconnect, TableHolds
  <2>. QED BY <1>4, <2>1, <2>2, MessagesStay DEF Disconnect
<1>. QED BY <1>1, <1>2, <1>3, <1>4

LEMMA SubmitKeepsMessages ==
  ASSUME BoundsHold, RingInv, TableHolds, Numbered, MessagesHold, NEW c \in Client, Submit(c)
  PROVE  MessagesHold'
<1>1. PICK e \in Event :
         /\ e.id = done.requests + 1 /\ done.requests \in Nat
         /\ \/ Push(e) /\ owed' = [owed EXCEPT ![c] = @ \cup {e.id}]
            \/ PushRejected(e) /\ owed' = owed
  BY SubmitPushes
<1>2. UNCHANGED <<phase, outbox, targets, effects, errors, fd, joining, slots, unaware>>
  BY DEF Submit, server, render
<1>3. \A d \in Client : owed'[d] \subseteq owed[d] \cup {e.id}
  BY <1>1 DEF TableHolds
<1>4. \A d \in Client : Awaits(d)' => Awaits(d)
  <2>1. outbox.kind = "answer" => outbox.body # e.id
    BY <1>1 DEF Numbered
  <2>. QED BY <1>2, <1>3, <2>1 DEF Awaits
<1>5. CopyServes'
  BY <1>2, <1>4 DEF MessagesHold, CopyServes
<1>6. \A d \in Client : owed'[d] \subseteq owed[d] \cup Queued' /\ Queued \subseteq Queued'
  <2>1. CASE Push(e) /\ owed' = [owed EXCEPT ![c] = @ \cup {e.id}]
    <3>1. e.id \in Queued' /\ Queued \subseteq Queued'
      <4>1. count + 1 \in 1 .. count' /\ \A i \in 1 .. count : i \in 1 .. count'
        BY <2>1, PushAppends
      <4>. QED BY <2>1, <4>1, PushAppends DEF Queued
    <3>. QED BY <1>3, <3>1
  <2>2. CASE PushRejected(e) /\ owed' = owed
    BY <2>2 DEF PushRejected, Queued, Waiting, WaitingSlot
  <2>. QED BY <1>1, <2>1, <2>2
<1>7. \A d \in Client : /\ Listed(d)' = Listed(d) /\ AnswerTo(d)' = AnswerTo(d)
                        /\ Reports(d)' = Reports(d) /\ unaware'[d] = unaware[d]
  BY <1>2 DEF Listed, AnswerTo, Reports, ErrorTo, Broken
<1>8. EvalsAreAnswered'
  <2>. SUFFICES ASSUME NEW d \in Client, Listed(d)'
                PROVE  owed'[d] \subseteq Queued' \cup AnswerTo(d)'
    BY DEF EvalsAreAnswered, Queued
  <2>1. owed[d] \subseteq Queued \cup AnswerTo(d)
    BY <1>7 DEF MessagesHold, EvalsAreAnswered, Queued
  <2>. QED BY <1>6, <1>7, <2>1
<1>9. ErrorsKept'
  BY <1>7 DEF MessagesHold, ErrorsKept
<1>. QED BY <1>5, <1>8, <1>9 DEF MessagesHold

(* Outside a broadcast nothing is on its way, and a broadcast of the state     *)
(* concerns neither answers nor errors.                                        *)
LEMMA FrameStepsKeepMessages ==
  ASSUME FrameHolds, MessagesHold, UNCHANGED <<server, knowledge, vars, effects, errors>>,
         ~ Sending, phase' \notin {"send", "drop"},
         outbox' = outbox \/ outbox'.kind = "state"
  PROVE  MessagesHold'
<1>1. UNCHANGED <<fd, joining, slots, owed, unaware>> /\ Queued' = Queued
  BY DEF server, knowledge, vars, Queued, Waiting, WaitingSlot
<1>2. outbox.kind = "none" /\ outbox'.kind \notin {"answer", "error"}
  BY DEF FrameHolds
<1>3. \A c \in Client : /\ AnswerTo(c) = {} /\ AnswerTo(c)' = {} /\ ErrorTo(c) = {} /\ ErrorTo(c)' = {}
                        /\ Listed(c)' = Listed(c)
  BY <1>1, <1>2 DEF AnswerTo, ErrorTo, Listed
<1>4. EvalsAreAnswered'
  BY <1>1, <1>3 DEF MessagesHold, EvalsAreAnswered, Queued
<1>5. ErrorsKept'
  BY <1>1, <1>3 DEF MessagesHold, ErrorsKept, Reports, Broken
<1>. QED BY <1>4, <1>5 DEF MessagesHold, CopyServes

LEMMA PumpKeepsMessages ==
  ASSUME RingInv, FrameHolds, MessagesHold, PumpEval
  PROVE  MessagesHold'
<1>1. /\ UNCHANGED <<fd, joining, slots, owed, unaware, effects, errors>>
      /\ phase' = "snapshot" /\ outbox'.kind = "answer" /\ outbox'.body = buffer[head].id
      /\ outbox.kind = "none"
  BY DEF PumpEval, Broadcast, server, knowledge, FrameHolds, Sending
<1>2. Queued \subseteq Queued' \cup {outbox'.body}
  <2>. SUFFICES ASSUME NEW i \in 1 .. count PROVE Waiting[i].id \in Queued' \cup {outbox'.body}
    BY DEF Queued
  <2>1. Pop
    BY DEF PumpEval
  <2>2. CASE i = 1
    BY <1>1, <2>1, <2>2, PopRemoves
  <2>3. CASE i # 1
    <3>1. PICK j \in 1 .. count - 1 : i = j + 1
      <4>1. i - 1 \in 1 .. count - 1 /\ i = (i - 1) + 1
        BY <2>1, <2>3, PopRemoves
      <4>. QED BY <4>1
    <3>2. j \in 1 .. count' /\ Waiting'[j] = Waiting[i]
      BY <2>1, <3>1, PopRemoves
    <3>. QED BY <3>2 DEF Queued
  <2>. QED BY <2>2, <2>3
<1>3. \A c \in Client : /\ AnswerTo(c) = {} /\ AnswerTo(c)' = {outbox'.body}
                        /\ ErrorTo(c) = {} /\ Listed(c)' = Listed(c)
  BY <1>1 DEF AnswerTo, ErrorTo, Listed
<1>4. EvalsAreAnswered'
  BY <1>1, <1>2, <1>3 DEF MessagesHold, EvalsAreAnswered, Queued
<1>5. ErrorsKept'
  BY <1>1, <1>3 DEF MessagesHold, ErrorsKept, Reports, Broken
<1>. QED BY <1>1, <1>4, <1>5 DEF MessagesHold, CopyServes

LEMMA SnapshotKeepsMessages ==
  ASSUME RingInv, TableHolds, MessagesHold, Snapshot
  PROVE  MessagesHold'
<1>1. UNCHANGED <<fd, joining, slots, owed, unaware, outbox, effects, errors>> /\ Queued' = Queued
  BY DEF Snapshot, server, knowledge, vars, Queued, Waiting, WaitingSlot
<1>2. \A c \in Client : \A i \in 1 .. Slots :
        slots[i] = fd[c] /\ fd[c] # NoFd => i \in DOMAIN targets' /\ targets'[i] = fd[c]
  BY DEF Snapshot, TableHolds
<1>3. CopyServes'
  BY <1>1, <1>2 DEF CopyServes, Awaits, TableHolds
<1>4. \A c \in Client : Listed(c)' =>
        Listed(c) /\ AnswerTo(c)' = AnswerTo(c) /\ ErrorTo(c)' = ErrorTo(c)
  BY <1>1, <1>2 DEF Listed, AnswerTo, ErrorTo, Snapshot
<1>5. EvalsAreAnswered'
  BY <1>1, <1>4 DEF MessagesHold, EvalsAreAnswered, Queued
<1>6. ErrorsKept'
  BY <1>1, <1>4 DEF MessagesHold, ErrorsKept, Reports, Broken
<1>. QED BY <1>3, <1>5, <1>6 DEF MessagesHold

(* A browser whose socket is elsewhere in the copy still gets the message.     *)
LEMMA LaterServes ==
  ASSUME NEW c \in Client, fd[c] # targets[Turn]
  PROVE  (\E i \in DOMAIN targets : targets[i] = fd[c]) <=> (\E i \in DOMAIN Later : Later[i] = fd[c])
BY DEF Later

LEMMA SendKeepsMessages ==
  ASSUME RingInv, TableHolds, MessagesHold, Send
  PROVE  MessagesHold'
<1>1. PICK c \in Client : fd[c] = targets[Turn] /\ Deliver(c)
  BY DEF Send
<1>2. /\ UNCHANGED <<fd, joining, slots, outbox, effects, errors, phase>> /\ Queued' = Queued
      /\ phase = "send" /\ targets' = Later
  BY DEF Send, server, vars, Queued, Waiting, WaitingSlot
<1>3. \A d \in Client : d # c => owed'[d] = owed[d] /\ unaware'[d] = unaware[d]
  BY <1>1 DEF Deliver, TableHolds
<1>4. /\ owed'[c] = (IF outbox.kind = "answer" THEN owed[c] \ {outbox.body} ELSE owed[c])
      /\ unaware'[c] = (IF outbox.kind = "error" THEN unaware[c] \ {outbox.body} ELSE unaware[c])
  BY <1>1 DEF Deliver, TableHolds
<1>5. \A d \in Client : d # c /\ fd[d] # NoFd => fd[d] # targets[Turn]
  BY <1>1 DEF TableHolds
<1>6. \A d \in Client : Listed(d)' = Listed(d) /\ (Listed(d) => fd[d] # NoFd)
  BY <1>2 DEF Listed
<1>7. \A d \in Client : d # c /\ fd[d] # NoFd =>
        AnswerTo(d)' = AnswerTo(d) /\ ErrorTo(d)' = ErrorTo(d)
  BY <1>2, <1>5, LaterServes DEF AnswerTo, ErrorTo
<1>8. AnswerTo(c) \subseteq (IF outbox.kind = "answer" THEN {outbox.body} ELSE {})
      /\ ErrorTo(c) \subseteq (IF outbox.kind = "error" THEN {outbox.body} ELSE {})
  BY DEF AnswerTo, ErrorTo
<1>9. CopyServes'
  <2>. SUFFICES ASSUME NEW d \in Client, Awaits(d)', NEW i \in 1 .. Slots, slots[i] = fd[d]
                PROVE  i \in DOMAIN targets' /\ targets'[i] = fd[d]
    BY <1>2 DEF CopyServes
  <2>1. d # c
    BY <1>2, <1>4 DEF Awaits
  <2>2. Awaits(d) /\ fd[d] # NoFd
    BY <1>2, <1>3, <2>1 DEF Awaits, TableHolds
  <2>3. i \in DOMAIN targets /\ targets[i] = fd[d] /\ fd[d] # targets[Turn]
    BY <1>2, <1>5, <2>1, <2>2 DEF MessagesHold, CopyServes
  <2>. QED BY <1>2, <2>3 DEF Later
<1>10. EvalsAreAnswered'
  <2>. SUFFICES ASSUME NEW d \in Client, Listed(d)
                PROVE  owed'[d] \subseteq Queued' \cup AnswerTo(d)'
    BY <1>6 DEF EvalsAreAnswered, Queued
  <2>1. owed[d] \subseteq Queued \cup AnswerTo(d)
    BY DEF MessagesHold, EvalsAreAnswered, Queued
  <2>2. CASE d = c
    BY <1>2, <1>4, <1>8, <2>1, <2>2
  <2>3. CASE d # c
    BY <1>2, <1>3, <1>6, <1>7, <2>1, <2>3
  <2>. QED BY <2>2, <2>3
<1>11. ErrorsKept'
  <2>. SUFFICES ASSUME NEW d \in Client, Listed(d)
                PROVE  unaware'[d] \subseteq Reports(d)'
    BY <1>6 DEF ErrorsKept
  <2>1. unaware[d] \subseteq Reports(d)
    BY DEF MessagesHold, ErrorsKept
  <2>2. CASE d = c
    BY <1>2, <1>4, <1>8, <2>1, <2>2 DEF Reports, Broken
  <2>3. CASE d # c
    BY <1>2, <1>3, <1>6, <1>7, <2>1, <2>3 DEF Reports, Broken
  <2>. QED BY <2>2, <2>3
<1>. QED BY <1>9, <1>10, <1>11 DEF MessagesHold

LEMMA FailureKeepsMessages ==
  ASSUME MessagesHold, SendFails
  PROVE  MessagesHold'
<1>1. UNCHANGED <<fd, joining, slots, owed, unaware, outbox, targets, effects, errors>>
      /\ Queued' = Queued /\ phase = "send" /\ phase' = "drop"
  BY DEF SendFails, server, knowledge, vars, Queued, Waiting, WaitingSlot
<1>2. \A c \in Client : AnswerTo(c)' = AnswerTo(c) /\ ErrorTo(c)' = ErrorTo(c) /\ Listed(c)' = Listed(c)
  BY <1>1 DEF AnswerTo, ErrorTo, Listed
<1>3. CopyServes'
  BY <1>1 DEF MessagesHold, CopyServes, Awaits
<1>4. EvalsAreAnswered' /\ ErrorsKept'
  BY <1>1, <1>2 DEF MessagesHold, EvalsAreAnswered, ErrorsKept, Reports, Broken, Queued
<1>. QED BY <1>3, <1>4 DEF MessagesHold

(* The first slot with the socket goes, and the copy's turn is the first that  *)
(* has it: what the table still has, the copy still has.                       *)
LEMMA RemovalServes ==
  ASSUME TableHolds, CopyHolds, CopyServes, WsClientRemove
  PROVE  CopyServes'
<1>1. UNCHANGED <<fd, owed, unaware, outbox>> /\ phase = "drop" /\ targets' = Later
  BY DEF WsClientRemove, knowledge
<1>. SUFFICES ASSUME NEW c \in Client, Awaits(c), NEW i \in 1 .. Slots, slots'[i] = fd[c]
              PROVE  i \in DOMAIN Later /\ Later[i] = fd[c]
  BY <1>1 DEF CopyServes, Awaits
<1>. DEFINE mine == {j \in 1 .. Slots : slots[j] = targets[Turn]}
<1>2. fd[c] # NoFd
  BY DEF Awaits, TableHolds
<1>3. slots' = (IF mine = {} THEN slots ELSE [slots EXCEPT ![Min(mine)] = NoFd])
  BY DEF WsClientRemove
<1>4. slots[i] = fd[c]
  BY <1>2, <1>3 DEF TableHolds
<1>5. \A j \in 1 .. Slots : slots[j] = fd[c] => j \in DOMAIN targets /\ targets[j] = fd[c]
  BY <1>1 DEF CopyServes
<1>6. CASE i = Turn
  <2>1. \A j \in mine : j \in DOMAIN targets
    BY <1>4, <1>5, <1>6
  <2>2. i \in mine
    BY <1>4, <1>5, <1>6
  <2>3. IsFiniteSet(1 .. Slots) /\ 1 .. Slots \subseteq Int
    BY FS_Interval, ConsoleAssumption
  <2>4. IsFiniteSet(mine) /\ mine \subseteq Int /\ IsFiniteSet(DOMAIN targets) /\ DOMAIN targets \subseteq Int
    BY <2>3, FS_Subset DEF CopyHolds
  <2>. HIDE DEF mine
  <2>5. Min(mine) \in mine /\ Min(mine) <= i
    BY <2>2, <2>4, LeastOfFinite
  <2>6. i <= Min(mine)
    <3>1. \A j \in DOMAIN targets : Min(DOMAIN targets) <= j
      BY <1>4, <1>5, <2>4, LeastOfFinite
    <3>. QED BY <1>6, <2>1, <2>5, <3>1 DEF Turn
  <2>7. Min(mine) = i
    <3>1. Min(mine) \in Int /\ i \in Int
      BY <2>2, <2>4, <2>5
    <3>. QED BY <2>5, <2>6, <3>1
  <2>8. slots'[i] = NoFd
    BY <1>3, <2>2, <2>7 DEF TableHolds
  <2>. QED BY <1>2, <2>8
<1>7. CASE i # Turn
  BY <1>4, <1>5, <1>7 DEF Later
<1>. QED BY <1>6, <1>7

LEMMA RemovalKeepsMessages ==
  ASSUME TableHolds, CopyHolds, MessagesHold, WsClientRemove
  PROVE  MessagesHold'
<1>1. UNCHANGED <<fd, joining, owed, unaware, outbox, effects, errors>> /\ Queued' = Queued
      /\ phase = "drop" /\ phase' = "send"
  BY DEF WsClientRemove, knowledge, vars, Queued, Waiting, WaitingSlot
<1>2. CopyServes'
  BY RemovalServes DEF MessagesHold
<1>3. \A i \in 1 .. Slots : slots'[i] = slots[i] \/ slots'[i] = NoFd
  BY DEF WsClientRemove, TableHolds
<1>4. ASSUME NEW c \in Client, Listed(c)'
      PROVE  Listed(c) /\ (Awaits(c) => \E i \in DOMAIN targets' : targets'[i] = fd[c])
  <2>1. PICK i \in 1 .. Slots : slots'[i] = fd[c] /\ fd[c] # NoFd /\ c # joining
    BY <1>1, <1>4 DEF Listed
  <2>2. Listed(c)
    BY <1>3, <2>1 DEF Listed
  <2>3. Awaits(c) => i \in DOMAIN targets' /\ targets'[i] = fd[c]
    BY <1>1, <1>2, <2>1 DEF CopyServes, Awaits
  <2>. QED BY <2>2, <2>3
<1>5. EvalsAreAnswered'
  <2>. SUFFICES ASSUME NEW c \in Client, Listed(c)', NEW id \in owed[c], id \notin Queued
                PROVE  id \in AnswerTo(c)'
    BY <1>1 DEF EvalsAreAnswered, Queued
  <2>1. outbox.kind = "answer" /\ id = outbox.body
    BY <1>4 DEF MessagesHold, EvalsAreAnswered, AnswerTo, Queued
  <2>. QED BY <1>1, <1>4, <2>1 DEF AnswerTo, Awaits
<1>6. ErrorsKept'
  <2>. SUFFICES ASSUME NEW c \in Client, Listed(c)', NEW x \in unaware[c],
                       x \notin Broken \cup {errors[i] : i \in DOMAIN errors}
                PROVE  x \in ErrorTo(c)'
    BY <1>1 DEF ErrorsKept, Reports, Broken
  <2>1. outbox.kind = "error" /\ x = outbox.body
    BY <1>4 DEF MessagesHold, ErrorsKept, Reports, ErrorTo
  <2>. QED BY <1>1, <1>4, <2>1 DEF ErrorTo, Awaits
<1>. QED BY <1>2, <1>5, <1>6 DEF MessagesHold

LEMMA SentKeepsMessages ==
  ASSUME FrameHolds, MessagesHold, Sent
  PROVE  MessagesHold'
<1>1. UNCHANGED <<fd, joining, slots, owed, unaware, targets, effects, errors>> /\ Queued' = Queued
      /\ phase = "send" /\ DOMAIN targets = {} /\ outbox'.kind = "none"
      /\ phase' \notin {"send", "drop"}
  BY DEF Sent, FrameHolds, Sending, server, knowledge, vars, Queued, Waiting, WaitingSlot
<1>2. \A c \in Client : AnswerTo(c) = {} /\ ErrorTo(c) = {} /\ Listed(c)' = Listed(c)
  BY <1>1 DEF AnswerTo, ErrorTo, Listed
<1>. QED BY <1>1, <1>2
         DEF MessagesHold, CopyServes, EvalsAreAnswered, ErrorsKept, Reports, Broken, Queued

LEMMA DrawKeepsMessages ==
  ASSUME BoundsHold, TableHolds, FrameHolds, MessagesHold, Draw
  PROVE  MessagesHold'
<1>1. UNCHANGED <<fd, joining, slots, owed, outbox, targets, errors>> /\ Queued' = Queued
      /\ phase = "draw" /\ phase' = "take" /\ outbox.kind = "none"
  BY DEF Draw, FrameHolds, Sending, server, vars, Queued, Waiting, WaitingSlot
<1>2. \A c \in Client : Listed(c)' = Listed(c) /\ AnswerTo(c)' = AnswerTo(c)
  BY <1>1 DEF Listed, AnswerTo
<1>3. \A c \in Client : Broken \subseteq Broken' /\ unaware'[c] \subseteq unaware[c] \cup Broken'
  <2>1. setup.fx \subseteq Fx
    BY ConsoleAssumption DEF BoundsHold
  <2>. QED BY <2>1 DEF Draw, Broken, TableHolds, FrameHolds
<1>4. EvalsAreAnswered'
  BY <1>1, <1>2 DEF MessagesHold, EvalsAreAnswered, Queued
<1>5. ErrorsKept'
  BY <1>1, <1>2, <1>3 DEF MessagesHold, ErrorsKept, Reports, ErrorTo
<1>. QED BY <1>1, <1>4, <1>5 DEF MessagesHold, CopyServes

LEMMA PollKeepsMessages ==
  ASSUME FrameHolds, MessagesHold, PollFxError
  PROVE  MessagesHold'
<1>1. UNCHANGED <<fd, joining, slots, owed, unaware, outbox, targets>> /\ Queued' = Queued
      /\ phase = "poll" /\ phase' = "report" /\ outbox.kind = "none" /\ errors = <<>>
  BY DEF PollFxError, FrameHolds, Sending, Part, server, knowledge, vars, Queued, Waiting, WaitingSlot
<1>2. \A c \in Client : Listed(c)' = Listed(c) /\ AnswerTo(c)' = AnswerTo(c) /\ ErrorTo(c) = {}
  BY <1>1 DEF Listed, AnswerTo, ErrorTo
<1>3. Broken \subseteq {errors'[i] : i \in DOMAIN errors'}
  <2>1. IsFiniteSet(Broken)
    BY FS_Subset, ConsoleAssumption DEF Broken
  <2>. QED BY <2>1, SetToSeqHasAll DEF PollFxError
<1>4. EvalsAreAnswered'
  BY <1>1, <1>2 DEF MessagesHold, EvalsAreAnswered, Queued
<1>5. ErrorsKept'
  BY <1>1, <1>2, <1>3 DEF MessagesHold, ErrorsKept, Reports
<1>. QED BY <1>1, <1>4, <1>5 DEF MessagesHold, CopyServes

LEMMA ReportKeepsMessages ==
  ASSUME FrameHolds, MessagesHold, ReportFxError
  PROVE  MessagesHold'
<1>1. UNCHANGED <<fd, joining, slots, owed, unaware, effects, targets>> /\ Queued' = Queued
      /\ phase = "report" /\ phase' = "snapshot" /\ outbox.kind = "none" /\ errors # <<>>
      /\ outbox'.kind = "error" /\ outbox'.body = Head(errors) /\ errors' = Tail(errors)
  BY DEF ReportFxError, Broadcast, FrameHolds, Sending, server, knowledge, vars, Queued, Waiting,
         WaitingSlot
<1>2. \A c \in Client : /\ Listed(c)' = Listed(c) /\ AnswerTo(c) = {}
                        /\ ErrorTo(c) = {} /\ ErrorTo(c)' = {Head(errors)}
  BY <1>1 DEF Listed, AnswerTo, ErrorTo
<1>3. {errors[i] : i \in DOMAIN errors} \subseteq {errors'[i] : i \in DOMAIN errors'} \cup {Head(errors)}
  <2>1. errors \in Seq(Fx) /\ errors # <<>>
    BY <1>1 DEF FrameHolds
  <2>2. /\ Len(errors) \in Nat /\ DOMAIN errors = 1 .. Len(errors) /\ errors[1] = Head(errors)
        /\ DOMAIN Tail(errors) = 1 .. Len(errors) - 1
        /\ \A j \in 1 .. Len(errors) - 1 : Tail(errors)[j] = errors[j + 1]
    BY <2>1, HeadTailProperties
  <2>3. ASSUME NEW i \in 1 .. Len(errors), i # 1
        PROVE  \E j \in DOMAIN Tail(errors) : Tail(errors)[j] = errors[i]
    <3>1. i - 1 \in 1 .. Len(errors) - 1 /\ (i - 1) + 1 = i
      BY <2>2, <2>3
    <3>. QED BY <2>2, <3>1
  <2>. QED BY <1>1, <2>2, <2>3
<1>4. EvalsAreAnswered'
  BY <1>1, <1>2 DEF MessagesHold, EvalsAreAnswered, Queued
<1>5. ErrorsKept'
  BY <1>1, <1>2, <1>3 DEF MessagesHold, ErrorsKept, Reports, Broken
<1>. QED BY <1>1, <1>4, <1>5 DEF MessagesHold, CopyServes

LEMMA MessagesKept ==
  ASSUME ConsoleInv, [ConsoleNext]_consoleVars
  PROVE  MessagesHold'
<1>1. /\ BoundsHold /\ RingInv /\ TableHolds /\ FrameHolds /\ Numbered
      /\ CopyHolds /\ MessagesHold
  BY DEF ConsoleInv, MessagesHold
<1>2. CASE Server
  BY <1>1, <1>2, TableStepsKeepMessages, SubmitKeepsMessages DEF Server
<1>3. CASE Broadcasting
  BY <1>1, <1>3, SnapshotKeepsMessages, SendKeepsMessages, FailureKeepsMessages, RemovalKeepsMessages,
     SentKeepsMessages DEF Broadcasting
<1>4. CASE PumpControl \/ PumpEvalsDone \/ RefreshLeds \/ TakeForced \/ EndFrame
  BY <1>1, <1>4, FrameStepsKeepMessages
     DEF PumpControl, PumpEvalsDone, RefreshLeds, TakeForced, EndFrame, Sending
<1>5. CASE Check
  BY <1>1, <1>5 DEF MessagesHold, Check, FrameHolds, Sending, Broadcast, knowledge, vars, CopyServes,
     EvalsAreAnswered, ErrorsKept, Listed, AnswerTo, Reports, ErrorTo, Broken, Waiting, WaitingSlot
<1>6. CASE Record
  BY <1>1, <1>6, FrameStepsKeepMessages DEF Record, Sending
<1>7. CASE UNCHANGED consoleVars
  BY <1>1, <1>7, MessagesStay DEF consoleVars, server, knowledge
<1>. QED BY <1>1, <1>2, <1>3, <1>4, <1>5, <1>6, <1>7, PumpKeepsMessages, DrawKeepsMessages,
            PollKeepsMessages, ReportKeepsMessages DEF ConsoleNext, Render

LEMMA NextConsole == ConsoleInv /\ [ConsoleNext]_consoleVars => ConsoleInv'
<1>. SUFFICES ASSUME ConsoleInv, [ConsoleNext]_consoleVars PROVE ConsoleInv'
  OBVIOUS
<1>1. BoundsHold /\ RingInv /\ TableHolds /\ FrameHolds /\ Numbered /\ CopyHolds
  BY DEF ConsoleInv
<1>2. BoundsHold' /\ RingInv'
  BY <1>1, BoundsKept, RingStep, NextRing
<1>3. TableHolds' /\ FrameHolds' /\ Numbered' /\ CopyHolds'
  BY <1>1, TableKept, FrameKept, NumbersKept, CopyKept
<1>. QED BY <1>2, <1>3, MessagesKept DEF ConsoleInv, MessagesHold

(* The console's inductive invariant holds in every reachable state.           *)
THEOREM ConsoleStaysSound == ConsoleSpec => []ConsoleInv
BY InitConsole, NextConsole, PTL DEF ConsoleSpec

(* Every submission the queue accepted is waiting, on its way to its browser,  *)
(* or answered, for any number of browsers and submissions a frame             *)
(* (eval_queue.h, web_input.h:118-121).                                        *)
THEOREM SubmissionsAreAnswered == ConsoleSpec => []EvalsAreAnswered
<1>1. ConsoleInv => EvalsAreAnswered
  BY DEF ConsoleInv
<1>. QED BY <1>1, ConsoleStaysSound, PTL

(* When a frame begins, no browser in the table is unaware of an effect that   *)
(* broke before it (web_input.cpp:272-288).                                    *)
THEOREM BreakagesAreHeard == ConsoleSpec => []ErrorsAreHeard
<1>1. ASSUME ConsoleInv, phase = "input", NEW c \in Client, Listed(c) PROVE unaware[c] = {}
  <2>1. Broken = {} /\ errors = <<>> /\ outbox.kind = "none"
    BY <1>1 DEF ConsoleInv, FrameHolds, Sending, Part
  <2>2. Reports(c) = {}
    BY <2>1 DEF Reports, ErrorTo
  <2>. QED BY <1>1, <2>2 DEF ConsoleInv, ErrorsKept
<1>2. ConsoleInv => ErrorsAreHeard
  BY <1>1 DEF ErrorsAreHeard
<1>. QED BY <1>2, ConsoleStaysSound, PTL

(* The queue of submissions is a FIFO as the server and the render task use it *)
(* (eval_queue.h).                                                             *)
THEOREM SubmissionsAreFifo == ConsoleSpec => RingIsFifo
<1>1. ConsoleInit => Fifo!Init
  BY InitRefines DEF ConsoleInit
<1>2. ConsoleInv /\ [ConsoleNext]_consoleVars => [Fifo!Next]_(Fifo!vars)
  BY RingStep, StepRefines DEF ConsoleInv
<1>. QED BY <1>1, <1>2, ConsoleStaysSound, PTL DEF ConsoleSpec, RingIsFifo, Fifo!Spec
================================================================================
