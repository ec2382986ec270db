-------------------------------- MODULE ArtNet ---------------------------------
(***************************************************************************)
(* Art-Net output: two tasks around one routing table.  The render task    *)
(* sends each universe and ends the frame with an ArtSync                  *)
(* (artnet_router.cpp); the discovery task polls the network, keeps the    *)
(* table of nodes that answer and routes the universes the show leaves     *)
(* open (artnet_discovery.cpp, artnet_discovery_task.cpp).  Every critical *)
(* section of the code is one step and no step has two.                    *)
(*                                                                         *)
(* A tick of time is a poll interval, and an age is the time since a node  *)
(* was last heard, in ticks.                                               *)
(***************************************************************************)
EXTENDS Integers, FiniteSets

CONSTANTS
  Node,      \* the nodes that may be on the network; a node is its address
  Gateway,   \* an address that is no node, for artnetFallbackIp
  NoIp,      \* address 0
  ArtUniverses, \* universeCount
  Wire,      \* the wire universe of each universe
  Confs,     \* the shows and configurations the device may have
  Adverts,   \* the sets of wire universes each node may say it carries
  Carries,   \* what each says at first
  MaxPorts,  \* ARTNET_MAX_REPLY_PORTS
  MaxNodes,  \* kMaxNodes, and kSnapshotCap, its equal
  Timeout,   \* the age a node may reach
  SeqMax,    \* 255: the last sequence number
  MaxMissed, \* bound: replies of a node lost in a row
  MaxFaults   \* bound: replies lost, nodes coming, going or changing

ArtUniverse == 1 .. ArtUniverses

Ip == Node \cup {Gateway, NoIp}

ASSUME ArtNetAssumption ==
  /\ {ArtUniverses, MaxPorts, MaxNodes, Timeout, MaxMissed, MaxFaults} \subseteq Nat
  /\ SeqMax \in Nat \ {0, 1}
  /\ Gateway # NoIp /\ Gateway \notin Node /\ NoIp \notin Node
  /\ MaxMissed < Timeout
  /\ \A n \in Node : Carries[n] \in Adverts[n]
  /\ Confs \subseteq [show : [ArtUniverse -> Node \cup {NoIp}], fallback : {Gateway, NoIp},
                      broadcast : BOOLEAN]

VARIABLES
  conf,   \* the show's routes, the fallback address, syncBroadcast
  dest,   \* dest_: the routed addresses
  seq,    \* seq_
  active, \* activeThisFrame_
  rpc,    \* the universe the render task sends next, then ArtUniverses + 1
  last,   \* the sequence number of the last packet of each universe
  fed,    \* the addresses this frame's data has gone to
  moved,  \* a universe already sent was rerouted within the frame
  dpc,    \* the discovery task: 0 in its loop, then the universe it routes
  due,    \* the poll interval has passed
  table,  \* nodes_: what each node it knows said, and its age
  ahead,  \* the order of nodes_: <<m, n>> when m comes before n
  inbox,  \* packets waiting on the discovery socket
  alive,  \* nodes on the network
  ports,  \* what each node carries
  missed, \* replies lost in a row
  away,   \* nodes that left, or said nonsense, and have not been heard since
  faults   \* replies lost and changes of the network

router == <<dest, seq, active, last>>
frameVars == <<rpc, fed, moved>>
finder == <<dpc, due, table, ahead>>
network == <<alive, ports, missed, away, faults>>
artVars == <<conf, router, frameVars, finder, inbox, network>>

\* What a node sends back.
Reply(n) == [ip |-> n, ports |-> ports[n]]

ArtInit ==
  /\ conf \in Confs
  /\ dest = conf.show
  /\ seq = [u \in ArtUniverse |-> 1] /\ last = [u \in ArtUniverse |-> 0]
  /\ active = {} /\ rpc = 1 /\ fed = {} /\ moved = FALSE
  /\ dpc = 0 /\ due = TRUE /\ table = [n \in {} |-> {}] /\ ahead = {} /\ inbox = {}
  /\ alive = Node /\ ports = Carries
  /\ missed = [n \in Node |-> 0] /\ away = {} /\ faults = 0

--------------------------------------------------------------------------------
(* The render task.                                                            *)

\* The address of a route: 0 when it has none and there is no fallback.
ResolveIp(d) == IF d # NoIp THEN d ELSE conf.fallback

\* 1 .. SeqMax, never 0.
Following(s) == (s % SeqMax) + 1

\* A universe without an address is dropped: no packet, no sequence number.
Send(u) ==
  /\ rpc = u /\ rpc' = u + 1
  /\ LET ip == ResolveIp(dest[u])
     IN  /\ active' = IF ip = NoIp THEN active \ {u} ELSE active \cup {u}
         /\ fed' = fed \cup ({ip} \ {NoIp})
         /\ last' = IF ip = NoIp THEN last ELSE [last EXCEPT ![u] = seq[u]]
         /\ seq' = IF ip = NoIp THEN seq ELSE [seq EXCEPT ![u] = Following(@)]
  /\ UNCHANGED <<conf, dest, moved, finder, inbox, network>>

\* Mutant: every universe of the table is synchronised, sent or not.
SyncWholeTable == {ResolveIp(dest[u]) : u \in ArtUniverse} \ {NoIp}

\* One ArtSync goes to each distinct address of an active universe, as the
\* table is now, or one to everybody.
SyncTargets ==
  IF conf.broadcast THEN Node \cup {Gateway}
  ELSE {ResolveIp(dest[u]) : u \in active} \ {NoIp}

\* Only the ArtSync to targets clears the active universes.
FrameEnd ==
  /\ rpc = ArtUniverses + 1 /\ rpc' = 1
  /\ active' = IF conf.broadcast THEN active ELSE {}
  /\ fed' = {} /\ moved' = FALSE
  /\ UNCHANGED <<conf, dest, seq, last, finder, inbox, network>>

RenderStep == (\E u \in ArtUniverse : Send(u)) \/ FrameEnd

--------------------------------------------------------------------------------
(* The discovery task.                                                         *)

\* Broadcast an ArtPoll: every node answers, the network loses some answers.
Poll ==
  /\ dpc = 0 /\ due /\ due' = FALSE
  /\ \E lost \in SUBSET {n \in alive : missed[n] < MaxMissed} :
       /\ faults' = faults + Cardinality(lost) /\ faults' <= MaxFaults
       /\ inbox' = inbox \cup {Reply(n) : n \in alive \ lost}
       /\ missed' = [n \in Node |-> IF n \in lost THEN missed[n] + 1 ELSE 0]
  /\ UNCHANGED <<conf, router, frameVars, dpc, table, ahead, alive, ports, away>>

\* parseArtPollReply: a reply with more ports than the protocol has is refused.
Accepts(p) == Cardinality(p.ports) <= MaxPorts

Known(n) == n \in DOMAIN table

Heard(p) == [ports |-> p.ports, age |-> 0]

\* Mutant: a full table forgets the node it has known longest.
LearntEvicting(p) ==
  LET oldest == {n \in DOMAIN table : \A m \in DOMAIN table \ {n} : <<n, m>> \in ahead}
      dropped == IF Known(p.ip) \/ Cardinality(DOMAIN table) < MaxNodes THEN {} ELSE oldest
  IN  [n \in (DOMAIN table \ dropped) \cup {p.ip} |-> IF n = p.ip THEN Heard(p) ELSE table[n]]

\* onReply: a known node is refreshed in its place, a new one comes last if
\* there is room.
Learnt(p) ==
  IF Known(p.ip) \/ Cardinality(DOMAIN table) < MaxNodes
  THEN [n \in DOMAIN table \cup {p.ip} |-> IF n = p.ip THEN Heard(p) ELSE table[n]]
  ELSE table

\* expire.
Unexpired(t) == [n \in {m \in DOMAIN t : t[m].age <= Timeout} |-> t[n]]

\* What stays keeps its order, and what is new comes after it.
Reordered ==
  LET before == DOMAIN table
      after == DOMAIN table'
  IN  ahead' = (ahead \cup (before \X (after \ before))) \cap (after \X after)

\* A packet arrives before the receive times out.
Receive ==
  /\ dpc = 0 /\ ~ due
  /\ \E p \in inbox :
       /\ inbox' = inbox \ {p}
       /\ table' = Unexpired(IF Accepts(p) THEN Learnt(p) ELSE table) /\ Reordered
       /\ away' = IF Accepts(p) THEN away \ ({p.ip} \cap alive) ELSE away \cup {p.ip}
  /\ dpc' = 1
  /\ UNCHANGED <<conf, router, frameVars, due, alive, ports, missed, faults>>

\* The receive times out until the next poll is due.
Wait ==
  /\ dpc = 0 /\ ~ due /\ inbox = {}
  /\ table' = Unexpired([n \in DOMAIN table |-> [table[n] EXCEPT !.age = @ + 1]]) /\ Reordered
  /\ due' = TRUE /\ dpc' = 1
  /\ UNCHANGED <<conf, router, frameVars, inbox, network>>

\* findByWireUniverse: the first node that carries w.
Carrier(w) ==
  LET carriers == {n \in DOMAIN table : w \in table[n].ports}
  IN  IF carriers = {} THEN NoIp
      ELSE CHOOSE n \in carriers : \A m \in carriers \ {n} : <<n, m>> \in ahead

\* Mutant: a route is only replaced, never withdrawn.
ResolvedOrKept(u) ==
  CASE conf.show[u] # NoIp -> conf.show[u]
    [] conf.show[u] = NoIp /\ Carrier(Wire[u]) # NoIp -> Carrier(Wire[u])
    [] OTHER -> dest[u]

\* resolveDiscoveredDests, for one universe.
Resolved(u) == IF conf.show[u] # NoIp THEN conf.show[u] ELSE Carrier(Wire[u])

\* setDest, only for the universes the show leaves open.
Route ==
  /\ dpc \in ArtUniverse /\ dpc' = (dpc + 1) % (ArtUniverses + 1)
  /\ dest' = IF conf.show[dpc] = NoIp THEN [dest EXCEPT ![dpc] = Resolved(dpc)] ELSE dest
  /\ moved' = (moved \/ (dest' # dest /\ dpc \in active))
  /\ UNCHANGED <<conf, seq, active, last, rpc, fed, due, table, ahead, inbox, network>>

DiscoveryStep == Poll \/ Receive \/ Wait \/ Route

--------------------------------------------------------------------------------
(* The network.                                                                *)

\* A node is switched on or off, or carries other universes.
NodeChanges ==
  /\ faults < MaxFaults /\ faults' = faults + 1
  /\ \E n \in Node :
       \/ /\ n \in alive /\ alive' = alive \ {n} /\ away' = away \cup {n}
          /\ UNCHANGED <<ports, missed>>
       \/ /\ n \notin alive /\ alive' = alive \cup {n} /\ missed' = [missed EXCEPT ![n] = 0]
          /\ UNCHANGED <<ports, away>>
       \/ /\ n \in alive /\ \E p \in Adverts[n] \ {ports[n]} : ports' = [ports EXCEPT ![n] = p]
          /\ UNCHANGED <<alive, missed, away>>
  /\ UNCHANGED <<conf, router, frameVars, finder, inbox>>

--------------------------------------------------------------------------------
ArtNext == RenderStep \/ DiscoveryStep \/ NodeChanges

ArtSpec == ArtInit /\ [][ArtNext]_artVars

\* Both tasks are scheduled for ever; the network is not.
FairArtSpec == ArtSpec /\ WF_artVars(RenderStep) /\ WF_artVars(DiscoveryStep)

--------------------------------------------------------------------------------
(* Properties.                                                                 *)

Advertised == UNION {Adverts[n] : n \in Node}

Entry == [ports : Advertised, age : 0 .. Timeout]

(* Every variable keeps its type, and the table's order is one.                *)
ArtNetTypeOK ==
  /\ dest \in [ArtUniverse -> Ip] /\ seq \in [ArtUniverse -> 1 .. SeqMax]
  /\ last \in [ArtUniverse -> 0 .. SeqMax]
  /\ active \subseteq ArtUniverse /\ rpc \in 1 .. ArtUniverses + 1 /\ dpc \in 0 .. ArtUniverses
  /\ {moved, due} \subseteq BOOLEAN /\ fed \subseteq Ip \ {NoIp}
  /\ DOMAIN table \subseteq Node /\ Cardinality(DOMAIN table) <= MaxNodes
  /\ table \in [DOMAIN table -> Entry]
  /\ \A m, n \in DOMAIN table : m # n => (<<m, n>> \in ahead) # (<<n, m>> \in ahead)
  /\ alive \subseteq Node /\ ports \in [Node -> Advertised] /\ missed \in [Node -> 0 .. MaxMissed]

(* A frame without reroutes is latched by exactly the nodes its data went to,  *)
(* however many universes each has (artnet_router.cpp:102-141): none tears and *)
(* none is told to latch a frame it did not get.                               *)
SyncFollowsData == rpc = ArtUniverses + 1 /\ ~ moved /\ ~ conf.broadcast => SyncTargets = fed

(* The numbers of a universe's packets have no gap, whatever was dropped in    *)
(* between and wherever it was routed (artnet_router.cpp:83-96).               *)
SequenceUnbroken ==
  [][\A u \in ArtUniverse : last'[u] # last[u] => last'[u] = Following(last[u])]_artVars

(* A node that stays on the network is not forgotten although its replies to   *)
(* MaxMissed polls in a row are lost, and other nodes crowd the table          *)
(* (artnet_discovery.cpp:85-117).                                              *)
LiveNodeKept ==
  [][\A n \in Node : Known(n) /\ ~ Known(n)' => n \in away]_artVars

(* When the network has settled and fits the table, an open universe is routed *)
(* to a node that carries it, or to none if there is none: stale nodes lose    *)
(* their routes, and new ones find room (artnet_discovery_task.cpp:99-134).    *)
RoutesRight ==
  Cardinality(alive) <= MaxNodes =>
    \A u \in ArtUniverse : conf.show[u] = NoIp =>
      LET carriers == {n \in alive : Wire[u] \in ports[n] /\ Accepts(Reply(n))}
      IN  dest[u] \in IF carriers = {} THEN {NoIp} ELSE carriers

RoutesSettle == <>[]RoutesRight
================================================================================
