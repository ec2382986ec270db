----------------------------- MODULE Output_proofs -----------------------------
(***************************************************************************)
(* What leaves the device, for every instance.  The line (DmxOutput), with *)
(* any number of universes, matrices and frames: the shape of its state,   *)
(* and that a blackout stays dark.  The network (ArtNet), with any nodes,  *)
(* universes, size of the table and timeout: who is told to latch a frame, *)
(* how packets are numbered, and who keeps a place in the table.           *)
(***************************************************************************)
EXTENDS DmxOutput, ArtNet, TLAPS

--------------------------------------------------------------------------------
(* The line.                                                                   *)

\* A blackout stays dark for two reasons, one for each kind of universe: the
\* matrices' were zeroed and nothing writes them, the fixtures' are zeroed in
\* every frame and only a cue lights them.
MatricesDark == blackout => lit \cap Raw = {}

FixturesDark == pc = "flush" /\ ~ cueOn => lit \subseteq Raw

OutputInv == OutputTypeOK /\ MatricesDark /\ FixturesDark

(* A universe's contents, as they are written to the mailbox.                  *)
LEMMA WrittenContent ==
  ASSUME OutputTypeOK, NEW u \in Universe
  PROVE  [frame |-> frame, universe |-> u, lit |-> u \in lit] \in Content
BY OutputAssumption DEF OutputTypeOK, Content, Universe

LEMMA InitOutput == Init => OutputInv
<1>. SUFFICES ASSUME Init PROVE OutputInv
  OBVIOUS
<1>1. Dark \in Content
  BY OutputAssumption DEF Dark, Content
<1>2. frame \in 0 .. MaxFrames /\ next \in 0 .. Universes + 1
  BY OutputAssumption DEF Init
<1>3. {mailbox, buf, line, shown} \subseteq Content
  BY <1>1 DEF Init
<1>4. {cueOn, blackout, dirty} \subseteq BOOLEAN
  BY DEF Init
<1>5. OutputTypeOK
  BY <1>2, <1>3, <1>4 DEF Init, OutputTypeOK
<1>. QED
  BY <1>5 DEF Init, OutputInv, MatricesDark, FixturesDark

(* Before the first frame, and when the frames end.                            *)
LEMMA BootKeepsInv ==
  ASSUME OutputInv, BootScript \/ BootFails \/ StartRendering \/ Rollback \/ Reboot
  PROVE  OutputInv'
<1>. USE DEF OutputInv, OutputTypeOK, MatricesDark, FixturesDark, slot, wire
<1>1. CASE BootScript
  BY <1>1 DEF BootScript
<1>2. CASE BootFails
  BY <1>2 DEF BootFails, SafeBlackout
<1>3. CASE StartRendering
  BY <1>3 DEF StartRendering
<1>4. CASE Rollback
  BY <1>4 DEF Rollback, SafeBlackout
<1>5. CASE Reboot
  BY <1>5 DEF Reboot
<1>. QED
  BY <1>1, <1>2, <1>3, <1>4, <1>5

LEMMA PreRenderKeepsInv ==
  ASSUME OutputInv, PreRender
  PROVE  OutputInv'
<1>. USE DEF OutputInv
<1>1. lit' \subseteq Universe
  BY OutputAssumption DEF PreRender, OutputTypeOK
<1>2. frame' \in 0 .. MaxFrames
  BY OutputAssumption DEF PreRender, OutputTypeOK
<1>3. OutputTypeOK'
  BY <1>1, <1>2 DEF PreRender, OutputTypeOK, slot, wire
<1>4. MatricesDark'
  BY DEF PreRender, MatricesDark
<1>5. FixturesDark'
  BY DEF PreRender, FixturesDark
<1>. QED
  BY <1>3, <1>4, <1>5

LEMMA ComputeKeepsInv ==
  ASSUME OutputInv, Compute
  PROVE  OutputInv'
<1>. USE DEF OutputInv
<1>1. PICK glowing \in SUBSET Played : lit' = (lit \cap Raw) \cup glowing
  BY DEF Compute
<1>2. Played \subseteq Universe \ Raw /\ (~ cueOn => Played = {})
  BY DEF Played
<1>3. next' \in 0 .. Universes + 1
  BY OutputAssumption DEF Compute
<1>4. OutputTypeOK'
  BY <1>1, <1>2, <1>3 DEF Compute, OutputTypeOK, slot, wire
<1>5. MatricesDark'
  BY <1>1, <1>2 DEF Compute, MatricesDark
<1>6. FixturesDark'
  BY <1>1, <1>2 DEF Compute, FixturesDark
<1>. QED
  BY <1>4, <1>5, <1>6

LEMMA FlushKeepsInv ==
  ASSUME OutputInv, Flush \/ EndFrame
  PROVE  OutputInv'
<1>. USE DEF OutputInv
<1>1. CASE Flush
  <2>1. next' \in 0 .. Universes + 1
    BY <1>1, OutputAssumption DEF Flush, OutputTypeOK
  <2>2. mailbox' \in Content /\ dirty' \in BOOLEAN
    <3>1. CASE next \in Wired
      BY <1>1, <3>1, WrittenContent, OutputAssumption DEF Flush, Write
    <3>2. CASE next \notin Wired
      BY <1>1, <3>2 DEF Flush, slot, OutputTypeOK
    <3>. QED
      BY <3>1, <3>2
  <2>3. OutputTypeOK'
    BY <1>1, <2>1, <2>2 DEF Flush, OutputTypeOK, wire
  <2>. QED
    BY <1>1, <2>3 DEF Flush, MatricesDark, FixturesDark
<1>2. CASE EndFrame
  BY <1>2 DEF EndFrame, OutputTypeOK, MatricesDark, FixturesDark, slot, wire
<1>. QED
  BY <1>1, <1>2

(* The transmit task and the line leave the render task's state alone.         *)
LEMMA WireKeepsInv ==
  ASSUME OutputInv, Take \/ Transmit \/ TransmitFails \/ LineDone
  PROVE  OutputInv'
<1>. USE DEF OutputInv
<1>1. UNCHANGED render
  BY DEF Take, Transmit, TransmitFails, LineDone
<1>2. Dark \in Content
  BY OutputAssumption DEF Dark, Content
<1>3. /\ {mailbox, buf, line, shown}' \subseteq Content
      /\ dirty' \in BOOLEAN
      /\ tx' \in {"poll", "wait"}
  BY <1>2 DEF Take, Transmit, TransmitFails, LineDone, OutputTypeOK, slot
<1>. QED
  BY <1>1, <1>3 DEF render, OutputTypeOK, MatricesDark, FixturesDark

LEMMA NextOutput == OutputInv /\ [Next]_vars => OutputInv'
<1>. SUFFICES ASSUME OutputInv, [Next]_vars PROVE OutputInv'
  OBVIOUS
<1>1. CASE UNCHANGED vars
  BY <1>1 DEF vars, render, slot, wire, OutputInv, OutputTypeOK, MatricesDark, FixturesDark
<1>2. CASE Next
  BY <1>2, BootKeepsInv, PreRenderKeepsInv, ComputeKeepsInv, FlushKeepsInv, WireKeepsInv
  DEF Next, RenderTask, TxTask
<1>. QED
  BY <1>1, <1>2

(* The inductive invariant holds of every behaviour.                           *)
THEOREM OutputInvariant == Spec => []OutputInv
<1>. QED
  BY InitOutput, NextOutput, PTL DEF Spec

(* Render task, mailbox and line keep their shape, with any universes.         *)
THEOREM OutputTypeCorrect == Spec => []OutputTypeOK
<1>1. OutputInv => OutputTypeOK
  BY DEF OutputInv
<1>. QED
  BY <1>1, OutputInvariant, PTL

(* A blacked-out rig without a running cue renders dark frames only, however   *)
(* many universes of either kind it has (main.cpp:764-769).                    *)
THEOREM BlackoutIsDark == Spec => []BlackoutStaysDark
<1>1. OutputInv => BlackoutStaysDark
  BY DEF OutputInv, MatricesDark, FixturesDark, BlackoutStaysDark
<1>. QED
  BY <1>1, OutputInvariant, PTL

--------------------------------------------------------------------------------
(* The network.                                                                *)

\* The show and configuration stay, and every universe keeps its route.
RoutesHold == conf \in Confs /\ DOMAIN dest = ArtUniverse

\* Only universes already sent in this frame are active.
ActiveWereSent ==
  /\ rpc \in 1 .. ArtUniverses + 1 /\ active \subseteq ArtUniverse
  /\ ~ conf.broadcast => \A u \in active : u < rpc

\* What the frame's data has gone to is where the active universes are routed.
FedAreActive ==
  ~ moved /\ ~ conf.broadcast =>
    fed = {ResolveIp(dest[u]) : u \in active} /\ NoIp \notin fed

FrameInv == RoutesHold /\ ActiveWereSent /\ FedAreActive

\* The next number of a universe follows the last one it sent.
NumbersFollow ==
  /\ DOMAIN seq = ArtUniverse /\ DOMAIN last = ArtUniverse
  /\ \A u \in ArtUniverse : seq[u] = Following(last[u])

\* The table lists nodes that are not too old, and replies come from nodes.
TableIsFresh ==
  /\ DOMAIN table \subseteq Node /\ table = [n \in DOMAIN table |-> table[n]]
  /\ \A n \in DOMAIN table : "age" \in DOMAIN table[n] /\ table[n].age \in 0 .. Timeout
  /\ \A p \in inbox : p.ip \in Node
  /\ alive \subseteq Node /\ missed \in [Node -> 0 .. MaxMissed]

\* A node that left is away until it answers again.
LeftAreAway == Node \ alive \subseteq away

\* When a poll is due, every reply to the one before has been read.
RepliesAreRead == due => inbox = {}

\* A node that is there was heard of as many polls ago as it missed, one more
\* while its reply waits or the next poll is due.
HeardOf ==
  \A n \in (DOMAIN table) \ away :
    IF due THEN table[n].age <= missed[n] + 1
    ELSE /\ table[n].age <= MaxMissed + 1
         /\ (\A p \in inbox : p.ip # n) => table[n].age <= missed[n]

FinderInv == TableIsFresh /\ LeftAreAway /\ RepliesAreRead /\ HeardOf

--------------------------------------------------------------------------------
(* Frames.                                                                     *)

LEMMA FrameInit == ArtInit => FrameInv
BY ArtNetAssumption
   DEF ArtInit, FrameInv, RoutesHold, ActiveWereSent, FedAreActive, ArtUniverse

LEMMA SendKeepsFrame ==
  ASSUME FrameInv, NEW u \in ArtUniverse, Send(u)
  PROVE  FrameInv'
<1>. DEFINE ip == ResolveIp(dest[u])
<1>. USE DEF FrameInv
<1>1. /\ rpc = u /\ rpc' = u + 1 /\ UNCHANGED <<conf, dest, moved>>
      /\ active' = IF ip = NoIp THEN active \ {u} ELSE active \cup {u}
      /\ fed' = fed \cup ({ip} \ {NoIp})
  BY DEF Send
<1>2. RoutesHold'
  BY <1>1 DEF RoutesHold
<1>3. ActiveWereSent'
  <2>1. u \in Nat /\ u <= ArtUniverses /\ ArtUniverses \in Nat
    BY ArtNetAssumption DEF ArtUniverse
  <2>2. rpc' \in 1 .. ArtUniverses + 1 /\ active' \subseteq ArtUniverse
    BY <1>1, <2>1 DEF ActiveWereSent, ArtUniverse
  <2>3. ASSUME ~ conf'.broadcast, NEW v \in active' PROVE v < rpc'
    <3>1. v = u \/ v \in active
      BY <1>1, <2>3
    <3>. QED
      BY <1>1, <2>1, <2>3, <3>1 DEF ActiveWereSent, ArtUniverse
  <2>. QED
    BY <2>2, <2>3 DEF ActiveWereSent
<1>4. FedAreActive'
  <2>. SUFFICES ASSUME ~ moved', ~ conf'.broadcast
                PROVE  fed' = {ResolveIp(dest[v]) : v \in active'} /\ NoIp \notin fed'
    BY <1>1 DEF FedAreActive, ResolveIp
  <2>1. fed = {ResolveIp(dest[v]) : v \in active} /\ NoIp \notin fed
    BY <1>1 DEF FedAreActive
  <2>2. u \notin active
    BY <1>1 DEF ActiveWereSent, ArtUniverse
  <2>3. CASE ip = NoIp
    BY <1>1, <2>1, <2>2, <2>3
  <2>4. CASE ip # NoIp
    BY <1>1, <2>1, <2>4
  <2>. QED
    BY <2>3, <2>4
<1>. QED
  BY <1>2, <1>3, <1>4

LEMMA FrameEndKeepsFrame ==
  ASSUME FrameInv, FrameEnd
  PROVE  FrameInv'
BY ArtNetAssumption
   DEF FrameEnd, FrameInv, RoutesHold, ActiveWereSent, FedAreActive, ArtUniverse

(* A route that changes under an active universe is noted.                     *)
LEMMA RouteKeepsFrame ==
  ASSUME FrameInv, Route
  PROVE  FrameInv'
<1>. USE DEF FrameInv
<1>1. /\ UNCHANGED <<conf, active, rpc, fed>>
      /\ moved' = (moved \/ (dest' # dest /\ dpc \in active))
      /\ dest' = IF conf.show[dpc] = NoIp THEN [dest EXCEPT ![dpc] = Resolved(dpc)] ELSE dest
  BY DEF Route
<1>2. RoutesHold' /\ ActiveWereSent'
  BY <1>1 DEF RoutesHold, ActiveWereSent
<1>3. ~ moved' => \A u \in active : dest'[u] = dest[u]
  BY <1>1 DEF RoutesHold, ActiveWereSent
<1>4. FedAreActive'
  BY <1>1, <1>3 DEF FedAreActive, ResolveIp
<1>. QED
  BY <1>2, <1>4

LEMMA FrameNext == FrameInv /\ [ArtNext]_artVars => FrameInv'
<1>. SUFFICES ASSUME FrameInv, [ArtNext]_artVars PROVE FrameInv'
  OBVIOUS
<1>1. CASE UNCHANGED artVars \/ Poll \/ Receive \/ Wait \/ NodeChanges
  <2>1. UNCHANGED <<conf, dest, active, rpc, fed, moved>>
    BY <1>1 DEF artVars, router, frameVars, network, Poll, Receive, Wait, NodeChanges
  <2>. QED
    BY <2>1 DEF FrameInv, RoutesHold, ActiveWereSent, FedAreActive, ResolveIp
<1>. QED
  BY <1>1, SendKeepsFrame, FrameEndKeepsFrame, RouteKeepsFrame
     DEF ArtNext, RenderStep, DiscoveryStep

--------------------------------------------------------------------------------
(* Numbers.                                                                    *)

LEMMA NumbersInit == ArtInit => NumbersFollow
<1>1. Following(0) = 1
  BY ArtNetAssumption DEF Following
<1>. QED
  BY <1>1 DEF ArtInit, NumbersFollow

\* What SequenceUnbroken says of one step.
NextNumber == \A u \in ArtUniverse : last'[u] # last[u] => last'[u] = Following(last[u])

LEMMA NumbersNext ==
  ASSUME NumbersFollow, [ArtNext]_artVars
  PROVE  NumbersFollow' /\ NextNumber
<1>1. CASE \E u \in ArtUniverse : Send(u)
  <2>1. PICK u \in ArtUniverse : Send(u)
    BY <1>1
  <2>2. \/ UNCHANGED <<seq, last>>
        \/ last' = [last EXCEPT ![u] = seq[u]] /\ seq' = [seq EXCEPT ![u] = Following(seq[u])]
    BY <2>1 DEF Send
  <2>. QED
    BY <2>2 DEF NumbersFollow, NextNumber
<1>2. CASE UNCHANGED <<seq, last>>
  BY <1>2 DEF NumbersFollow, NextNumber
<1>3. UNCHANGED artVars \/ FrameEnd \/ DiscoveryStep \/ NodeChanges => UNCHANGED <<seq, last>>
  BY DEF artVars, router, FrameEnd, DiscoveryStep, Poll, Receive, Wait, Route, NodeChanges
<1>. QED
  BY <1>1, <1>2, <1>3 DEF ArtNext, RenderStep

--------------------------------------------------------------------------------
(* The table of nodes.                                                         *)

\* What LiveNodeKept says of one step.
NoneForgotten == \A n \in Node : Known(n) /\ ~ Known(n)' => n \in away

LEMMA FinderInit == ArtInit => FinderInv
BY ArtNetAssumption
   DEF ArtInit, FinderInv, TableIsFresh, LeftAreAway, RepliesAreRead, HeardOf

LEMMA PollKeepsFinder ==
  ASSUME FinderInv, Poll
  PROVE  FinderInv' /\ NoneForgotten
<1>. USE DEF FinderInv
<1>1. PICK lost \in SUBSET {n \in alive : missed[n] < MaxMissed} :
        /\ inbox' = inbox \cup {Reply(n) : n \in alive \ lost}
        /\ missed' = [n \in Node |-> IF n \in lost THEN missed[n] + 1 ELSE 0]
  BY DEF Poll
<1>2. due /\ ~ due' /\ UNCHANGED <<table, alive, away>>
  BY DEF Poll
<1>3. \A n \in Node : missed[n] \in 0 .. MaxMissed /\ MaxMissed \in Nat
  BY ArtNetAssumption DEF TableIsFresh
<1>4. missed' \in [Node -> 0 .. MaxMissed]
  <2>1. ASSUME NEW n \in Node PROVE (IF n \in lost THEN missed[n] + 1 ELSE 0) \in 0 .. MaxMissed
    BY <1>3
  <2>. QED
    BY <1>1, <2>1
<1>5. \A q \in inbox' : q.ip \in Node
  BY <1>1 DEF TableIsFresh, Reply
<1>6. TableIsFresh' /\ LeftAreAway' /\ RepliesAreRead'
  BY <1>2, <1>4, <1>5 DEF TableIsFresh, LeftAreAway, RepliesAreRead
<1>7. HeardOf'
  <2>. SUFFICES ASSUME NEW n \in (DOMAIN table) \ away
                PROVE  /\ table[n].age <= MaxMissed + 1
                       /\ (\A q \in inbox' : q.ip # n) => table[n].age <= missed'[n]
    BY <1>2 DEF HeardOf
  <2>1. n \in Node /\ n \in alive /\ table[n].age \in Nat /\ table[n].age <= missed[n] + 1
    BY <1>2, ArtNetAssumption DEF TableIsFresh, LeftAreAway, HeardOf
  <2>2. n \notin lost => Reply(n) \in inbox' /\ Reply(n).ip = n
    BY <1>1, <2>1 DEF Reply
  <2>3. n \in lost => missed'[n] = missed[n] + 1
    BY <1>1, <2>1
  <2>. QED
    BY <1>3, <2>1, <2>2, <2>3
<1>8. NoneForgotten
  BY <1>2 DEF NoneForgotten, Known
<1>. QED
  BY <1>6, <1>7, <1>8

(* A packet makes nobody older, so nobody expires with it.                     *)
LEMMA ReceiveKeepsFinder ==
  ASSUME FinderInv, Receive
  PROVE  FinderInv' /\ NoneForgotten
<1>. USE DEF FinderInv
<1>1. PICK p \in inbox :
        /\ inbox' = inbox \ {p}
        /\ table' = Unexpired(IF Accepts(p) THEN Learnt(p) ELSE table)
        /\ away' = IF Accepts(p) THEN away \ ({p.ip} \cap alive) ELSE away \cup {p.ip}
  BY DEF Receive
<1>2. ~ due /\ ~ due' /\ UNCHANGED <<alive, missed>>
  BY DEF Receive
<1>3. p.ip \in Node /\ 0 \in 0 .. Timeout /\ MaxMissed \in Nat
  BY ArtNetAssumption DEF TableIsFresh
<1>4. CASE table' = table /\ (p.ip \in DOMAIN table => p.ip \in away')
  <2>1. TableIsFresh' /\ LeftAreAway' /\ RepliesAreRead'
    BY <1>1, <1>2, <1>3, <1>4 DEF TableIsFresh, LeftAreAway, RepliesAreRead
  <2>2. ASSUME NEW n \in (DOMAIN table) \ away'
        PROVE  n \notin away /\ n # p.ip
    BY <1>1, <1>4, <2>2
  <2>3. HeardOf'
    <3>. SUFFICES ASSUME NEW n \in (DOMAIN table) \ away'
                  PROVE  /\ table[n].age <= MaxMissed + 1
                         /\ (\A q \in inbox' : q.ip # n) => table[n].age <= missed[n]
      BY <1>2, <1>4 DEF HeardOf
    <3>1. n \in (DOMAIN table) \ away /\ n # p.ip
      BY <2>2
    <3>2. (\A q \in inbox' : q.ip # n) => \A q \in inbox : q.ip # n
      BY <1>1, <3>1
    <3>. QED
      BY <1>2, <3>1, <3>2 DEF HeardOf
  <2>4. NoneForgotten
    BY <1>4 DEF NoneForgotten, Known
  <2>. QED
    BY <2>1, <2>3, <2>4
<1>5. CASE Accepts(p) /\ (Known(p.ip) \/ Cardinality(DOMAIN table) < MaxNodes)
  <2>1. table' = [n \in DOMAIN table \cup {p.ip} |-> IF n = p.ip THEN Heard(p) ELSE table[n]]
    <3>. DEFINE updated == [n \in DOMAIN table \cup {p.ip} |-> IF n = p.ip THEN Heard(p) ELSE table[n]]
    <3>1. \A n \in DOMAIN updated : updated[n].age \in 0 .. Timeout
      BY <1>3 DEF TableIsFresh, Heard
    <3>. HIDE DEF updated
    <3>4. \A n \in DOMAIN updated : updated[n].age <= Timeout
      BY <3>1, ArtNetAssumption
    <3>2. {n \in DOMAIN updated : updated[n].age <= Timeout} = DOMAIN updated
      BY <3>4
    <3>3. table' = Unexpired(updated)
      BY <1>1, <1>5 DEF Learnt, updated
    <3>. QED
      BY <3>2, <3>3 DEF Unexpired, updated
  <2>2. /\ DOMAIN table' = DOMAIN table \cup {p.ip} /\ table' = [n \in DOMAIN table' |-> table'[n]]
        /\ "age" \in DOMAIN table'[p.ip] /\ table'[p.ip].age = 0
    BY <2>1 DEF Heard
  <2>3. \A n \in DOMAIN table \ {p.ip} : table'[n] = table[n]
    BY <2>1
  <2>4. away' = away \ ({p.ip} \cap alive)
    BY <1>1, <1>5
  <2>5. TableIsFresh'
    BY <1>1, <1>2, <1>3, <2>2, <2>3 DEF TableIsFresh
  <2>6. LeftAreAway' /\ RepliesAreRead'
    BY <1>2, <2>4 DEF LeftAreAway, RepliesAreRead
  <2>7. HeardOf'
    <3>. SUFFICES ASSUME NEW n \in (DOMAIN table') \ away'
                  PROVE  /\ table'[n].age <= MaxMissed + 1
                         /\ (\A q \in inbox' : q.ip # n) => table'[n].age <= missed[n]
      BY <1>2 DEF HeardOf
    <3>1. CASE n = p.ip
      BY <1>3, <2>2, <3>1 DEF TableIsFresh
    <3>2. CASE n # p.ip
      <4>1. n \in (DOMAIN table) \ away /\ table'[n] = table[n]
        BY <2>2, <2>3, <2>4, <3>2
      <4>2. (\A q \in inbox' : q.ip # n) => \A q \in inbox : q.ip # n
        BY <1>1, <3>2
      <4>. QED
        BY <1>2, <4>1, <4>2 DEF HeardOf
    <3>. QED
      BY <3>1, <3>2
  <2>8. NoneForgotten
    BY <2>2 DEF NoneForgotten, Known
  <2>. QED
    BY <2>5, <2>6, <2>7, <2>8
<1>6. CASE ~ (Accepts(p) /\ (Known(p.ip) \/ Cardinality(DOMAIN table) < MaxNodes))
  <2>1. table' = Unexpired(table)
    BY <1>1, <1>6 DEF Learnt
  <2>5. \A n \in DOMAIN table : table[n].age <= Timeout
    BY ArtNetAssumption DEF TableIsFresh
  <2>2. {n \in DOMAIN table : table[n].age <= Timeout} = DOMAIN table
    BY <2>5
  <2>3. table' = table
    BY <2>1, <2>2 DEF Unexpired, TableIsFresh
  <2>4. p.ip \in DOMAIN table => p.ip \in away'
    BY <1>1, <1>6 DEF Known
  <2>. QED
    BY <1>4, <2>3, <2>4
<1>. QED
  BY <1>5, <1>6

(* A tick that nobody answered makes everybody older, and whoever did not miss *)
(* too many polls is young enough to stay.                                     *)
LEMMA WaitKeepsFinder ==
  ASSUME FinderInv, Wait
  PROVE  FinderInv' /\ NoneForgotten
<1>. USE DEF FinderInv
<1>. DEFINE older == [n \in DOMAIN table |-> [table[n] EXCEPT !.age = @ + 1]]
<1>1. /\ ~ due /\ due' /\ inbox = {} /\ UNCHANGED <<inbox, alive, missed, away>>
      /\ table' = Unexpired(older)
  BY DEF Wait, network
<1>2. \A n \in DOMAIN table : table[n].age \in Nat
  BY DEF TableIsFresh
<1>3. \A n \in DOMAIN table : "age" \in DOMAIN older[n] /\ older[n].age = table[n].age + 1
  BY DEF TableIsFresh
<1>4. DOMAIN table' = {n \in DOMAIN table : table[n].age + 1 <= Timeout}
  BY <1>1, <1>3 DEF Unexpired
<1>5. \A n \in DOMAIN table' : table'[n].age = table[n].age + 1
  BY <1>1, <1>3, <1>4 DEF Unexpired
<1>6. TableIsFresh'
  <2>1. table' = [n \in DOMAIN table' |-> table'[n]] /\ \A n \in DOMAIN table' : "age" \in DOMAIN table'[n]
    BY <1>1, <1>3 DEF Unexpired
  <2>2. \A n \in DOMAIN table' : table'[n].age \in 0 .. Timeout
    BY <1>2, <1>4, <1>5, ArtNetAssumption
  <2>. QED
    BY <1>1, <1>4, <2>1, <2>2 DEF TableIsFresh
<1>7. LeftAreAway' /\ RepliesAreRead'
  BY <1>1 DEF LeftAreAway, RepliesAreRead
<1>8. \A n \in (DOMAIN table) \ away : table[n].age <= missed[n]
  BY <1>1 DEF HeardOf
<1>9. HeardOf'
  <2>. SUFFICES ASSUME NEW n \in (DOMAIN table') \ away' PROVE table'[n].age <= missed[n] + 1
    BY <1>1 DEF HeardOf
  <2>1. n \in DOMAIN table /\ n \in Node /\ table[n].age <= missed[n]
    BY <1>1, <1>4, <1>8 DEF TableIsFresh
  <2>2. missed[n] \in Nat /\ table[n].age \in Nat
    BY <1>2, <2>1 DEF TableIsFresh
  <2>. QED
    BY <1>5, <2>1, <2>2
<1>10. NoneForgotten
  <2>. SUFFICES ASSUME NEW n \in DOMAIN table, n \notin away PROVE n \in DOMAIN table'
    BY DEF NoneForgotten, Known
  <2>1. table[n].age <= missed[n] /\ table[n].age \in Nat /\ missed[n] \in 0 .. MaxMissed
    BY <1>2, <1>8 DEF TableIsFresh
  <2>. QED
    BY <1>4, <2>1, ArtNetAssumption
<1>. QED
  BY <1>6, <1>7, <1>9, <1>10

LEMMA NodeChangesKeepFinder ==
  ASSUME FinderInv, NodeChanges
  PROVE  FinderInv' /\ NoneForgotten
<1>. USE DEF FinderInv
<1>1. UNCHANGED <<table, inbox, due>>
  BY DEF NodeChanges, finder
<1>2. PICK n \in Node :
        \/ alive' = alive \ {n} /\ away' = away \cup {n} /\ missed' = missed
        \/ n \notin alive /\ alive' = alive \cup {n} /\ missed' = [missed EXCEPT ![n] = 0] /\ away' = away
        \/ UNCHANGED <<alive, missed, away>>
  BY DEF NodeChanges
<1>3. away \subseteq away' /\ LeftAreAway'
  BY <1>2 DEF LeftAreAway
<1>4. missed' \in [Node -> 0 .. MaxMissed]
  BY <1>2, ArtNetAssumption DEF TableIsFresh
<1>5. TableIsFresh' /\ RepliesAreRead'
  BY <1>1, <1>2, <1>4 DEF TableIsFresh, RepliesAreRead
<1>6. \A m \in Node \ away' : missed'[m] = missed[m]
  BY <1>2 DEF LeftAreAway, TableIsFresh
<1>7. HeardOf'
  BY <1>1, <1>3, <1>6 DEF HeardOf, TableIsFresh
<1>8. NoneForgotten
  BY <1>1 DEF NoneForgotten, Known
<1>. QED
  BY <1>3, <1>5, <1>7, <1>8

LEMMA FinderNext ==
  ASSUME FinderInv, [ArtNext]_artVars
  PROVE  FinderInv' /\ NoneForgotten
<1>1. CASE UNCHANGED artVars \/ RenderStep \/ Route
  <2>1. UNCHANGED <<table, inbox, due, alive, missed, away>>
    BY <1>1 DEF artVars, finder, network, RenderStep, Send, FrameEnd, Route
  <2>. QED
    BY <2>1 DEF FinderInv, TableIsFresh, LeftAreAway, RepliesAreRead, HeardOf, NoneForgotten, Known
<1>. QED
  BY <1>1, PollKeepsFinder, ReceiveKeepsFinder, WaitKeepsFinder, NodeChangesKeepFinder
     DEF ArtNext, DiscoveryStep

--------------------------------------------------------------------------------
(* Theorems.                                                                   *)

(* A frame without reroutes is latched by exactly the nodes its data went to,  *)
(* for any universes, routes and fallback (artnet_router.cpp:102-141).         *)
THEOREM SyncGoesWhereDataWent == ArtSpec => []SyncFollowsData
<1>1. FrameInv => SyncFollowsData
  BY DEF FrameInv, FedAreActive, SyncFollowsData, SyncTargets
<1>. QED
  BY <1>1, FrameInit, FrameNext, PTL DEF ArtSpec

(* The packets of a universe are numbered without a gap, through every drop    *)
(* and every wrap of the number (artnet_router.cpp:83-96).                     *)
THEOREM NumbersHaveNoGap == ArtSpec => SequenceUnbroken
<1>1. NumbersFollow /\ [ArtNext]_artVars => NumbersFollow' /\ [NextNumber]_artVars
  BY NumbersNext
<1>. QED
  BY <1>1, NumbersInit, PTL DEF ArtSpec, SequenceUnbroken, NextNumber

(* A node that stays on the network and misses no more polls in a row than the *)
(* timeout allows is not forgotten, whatever the others do to the table        *)
(* (artnet_discovery.cpp:85-117).                                              *)
THEOREM LiveNodesAreKept == ArtSpec => LiveNodeKept
<1>1. FinderInv /\ [ArtNext]_artVars => FinderInv' /\ [NoneForgotten]_artVars
  BY FinderNext
<1>. QED
  BY <1>1, FinderInit, PTL DEF ArtSpec, LiveNodeKept, NoneForgotten

================================================================================
