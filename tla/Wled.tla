--------------------------------- MODULE Wled ----------------------------------
(***************************************************************************)
(* LED strips with a controller of their own (wled_manager.cpp): the show  *)
(* names them, and what a script asks of one becomes one datagram, which   *)
(* the network may refuse (wled_udp_sink.cpp) and nobody sends again.      *)
(*                                                                         *)
(* Speeds, intensities and transitions are left out; a colour is lit or    *)
(* black, an effect's name known or not.                                   *)
(***************************************************************************)
EXTENDS Integers, SequencesExt

CONSTANTS
  Directives, \* the show's WLED directives in order: [name, ip]
  Everyone,   \* 255.255.255.255
  NotAnIp,    \* a host name, which inet_aton does not take
  NoPacket    \* nothing has been sent yet

VARIABLES
  targets,  \* targets_
  socket,   \* sock_ >= 0
  datagrams \* the last datagram to each address

wledVars == <<targets, socket, datagrams>>

Ips == {d.ip : d \in ToSet(Directives)} \cup {Everyone}

\* addTarget: a name that is declared again gets the later address.
AddTarget(ts, d) ==
  IF \E i \in DOMAIN ts : ts[i].name = d.name
  THEN [i \in DOMAIN ts |-> IF ts[i].name = d.name THEN d ELSE ts[i]]
  ELSE Append(ts, d)

\* apply_loaded_show declares the targets; the socket may not come up.
WledInit ==
  /\ targets = FoldLeft(AddTarget, <<>>, Directives)
  /\ socket \in BOOLEAN
  /\ datagrams = [ip \in Ips |-> NoPacket]

HasTarget(name) == \E i \in DOMAIN targets : targets[i].name = name

Address(name) == targets[CHOOSE i \in DOMAIN targets : targets[i].name = name].ip

\* WledUdpSink::send: the socket never blocks, so a busy network drops it.
SendTo(ip, packet) ==
  /\ \/ socket /\ ip # NotAnIp /\ datagrams' = [datagrams EXCEPT ![ip] = packet]
     \/ UNCHANGED datagrams
  /\ UNCHANGED <<targets, socket>>

Packet(mode, effect, palette, colour, bright) ==
  [mode |-> mode, effect |-> effect, palette |-> palette, colour |-> colour, bright |-> bright]

\* effectIdFromName and paletteIdFromName: a name not in the table is 0.
EffectId(known) == IF known THEN 1 ELSE 0
PaletteId(known) == IF known THEN 1 ELSE 0

SetEffect(name) ==
  /\ HasTarget(name)
  /\ \E effect, palette, bright \in BOOLEAN :
       SendTo(Address(name), Packet("effect", EffectId(effect), PaletteId(palette), FALSE, bright))

SetSolidColor(name) ==
  /\ HasTarget(name)
  /\ \E colour, bright \in BOOLEAN : SendTo(Address(name), Packet("direct", 0, 0, colour, bright))

SetPower(name, on) ==
  /\ HasTarget(name)
  /\ SendTo(Address(name), Packet("direct", 0, 0, FALSE, on))

BroadcastEffect ==
  \E effect, palette, bright \in BOOLEAN :
    SendTo(Everyone, Packet("effect", EffectId(effect), PaletteId(palette), FALSE, bright))
================================================================================
