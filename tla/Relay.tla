------------------------------- MODULE Relay --------------------------------
(***************************************************************************)
(* What a lobby server forwards: the match traffic of the two seated       *)
(* players through the lobby's relay, and the feed of a spectator through  *)
(* a pipe.  Both learn where a player is from his packets, and who may be  *)
(* there from the session, once per round of the server's loop.            *)
(*                                                                         *)
(* An address is a client's: its IP and one of the ports its NAT has given *)
(* it.  Two clients may share an IP.  `playing' is SessionServer's         *)
(* `clients' without the spectators: two seats, in order.                  *)
(***************************************************************************)
EXTENDS Integers, Sequences, FiniteSets, SequencesExt

CONSTANTS
  Players, Spectators,   \* clients, by what they join as
  Ip,                    \* [client -> IP]
  MaxChanges,            \* of the session's members, and releases
  MaxFaults,             \* new ports, packets of somebody who has no seat, and
                         \*   twenty seconds without a packet of somebody who sends
  MaxInFlight

Clients == Players \cup Spectators
NoIp == "none"

ASSUME RelayAssumption ==
  /\ Players \cap Spectators = {}
  /\ IsFiniteSet(Spectators) /\ Cardinality(Spectators) <= 1   \* a spectator has a pipe of his own
  /\ DOMAIN Ip = Clients /\ NoIp \notin Range(Ip)
  /\ {MaxChanges, MaxFaults, MaxInFlight} \subseteq Nat

VARIABLES
  playing, watching,   \* the session's members
  port,              \* of each client, now
  net,               \* packets on their way to the server
  players, eps,      \* Relay: the seats' IPs and the slots' addresses
  allowed,           \* Pipe: the members' IPs,
  ends,              \*   and the addresses of its two sides
  used               \* of each bound

vars == <<playing, watching, port, net, players, eps, allowed, ends, used>>

Seats == {1, 2}
None == <<>>
Address == Clients \X (0 .. MaxFaults)
IpOf(a) == Ip[a[1]]
Here(c) == <<c, port[c]>>
Sides == {"host", "spec"}
Doors == {"relay"} \cup Sides
Packet == [from : Address, door : Doors, probe : BOOLEAN]

Seated == Range(playing)
Members == Seated \cup watching

Init ==
  /\ playing = <<>> /\ watching = {}
  /\ port = [c \in Clients |-> 0] /\ net = {}
  /\ players = [i \in Seats |-> NoIp] /\ eps = [i \in Seats |-> None]
  /\ allowed = <<>> /\ ends = [s \in Sides |-> None]
  /\ used = [changes |-> 0, faults |-> 0]

Use(bound) == used' = [used EXCEPT ![bound] = @ + 1]

-----------------------------------------------------------------------------
(* A round of the server's loop: the session steps, then its members are   *)
(* told to the relay and to the pipe.                                      *)

(* PlayerIPv4s and MemberIPv4s                                             *)
SeatIps(q) == [i \in Seats |-> IF i <= Len(q) THEN Ip[q[i]] ELSE NoIp]
MemberIps(q, w) == [i \in DOMAIN q |-> Ip[q[i]]] \o [i \in 1 .. Cardinality(w) |-> Ip[SetToSeq(w)[i]]]

KeepSlots(ips) == /\ players' = ips   \* broken: a seat change keeps its slot
                  /\ UNCHANGED eps

(* A seat whose IP is another one drops its slot.                          *)
SetPlayers(ips) ==
  /\ players' = ips
  /\ eps' = [i \in Seats |-> IF players[i] = ips[i] THEN eps[i] ELSE None]

KeepEnds(ips) == /\ allowed' = ips   \* broken: the feed goes on to whoever has left
                 /\ UNCHANGED ends

(* Other members clear both sides of the pipe.                             *)
SetAllowed(ips) ==
  /\ allowed' = ips
  /\ ends' = IF ips = allowed THEN ends ELSE [s \in Sides |-> None]

Tell(q, w) ==
  /\ playing' = q /\ watching' = w
  /\ SetPlayers(SeatIps(q)) /\ SetAllowed(MemberIps(q, w))

JoinTwice(c) ==   \* broken: a member's second join gives him the other seat too
  /\ c \in Players => Len(playing) < 2
  /\ used.changes < MaxChanges
  /\ IF c \in Players THEN Tell(Append(playing, c), watching) ELSE Tell(playing, watching \cup {c})
  /\ Use("changes") /\ UNCHANGED <<port, net>>

Join(c) ==
  /\ c \notin Members /\ (c \in Players => Len(playing) < 2)
  /\ used.changes < MaxChanges
  /\ IF c \in Players THEN Tell(Append(playing, c), watching) ELSE Tell(playing, watching \cup {c})
  /\ Use("changes") /\ UNCHANGED <<port, net>>

Leave(c) ==
  /\ c \in Members /\ used.changes < MaxChanges
  /\ \/ \E i \in DOMAIN playing : playing[i] = c /\ Tell(RemoveAt(playing, i), watching)
     \/ c \in watching /\ Tell(playing, watching \ {c})
  /\ Use("changes") /\ UNCHANGED <<port, net>>

(* The loser of a match goes behind the other player (HandleResults).      *)
Rotate(loser) ==
  /\ Len(playing) = 2 /\ used.changes < MaxChanges
  /\ Tell(Append(RemoveAt(playing, loser), playing[loser]), watching)
  /\ Use("changes") /\ UNCHANGED <<port, net>>

(* ResetLobby, at the end of a round or for a create: everyone is gone,    *)
(* but until the next round the relay still has their IPs.                 *)
Release ==
  /\ Members # {} /\ used.changes < MaxChanges
  /\ playing' = <<>> /\ watching' = {}
  /\ eps' = [i \in Seats |-> None] /\ ends' = [s \in Sides |-> None]
  /\ Use("changes")
  /\ UNCHANGED <<port, net, players, allowed>>

Round ==
  /\ Tell(playing, watching)
  /\ UNCHANGED <<port, net, used>>

-----------------------------------------------------------------------------
(* Packets.                                                                *)

(* The players send to the relay, the first one also to the pipe, and a    *)
(* spectator to his side of it.                                            *)
Sends(c, d) ==
  \/ d = "relay" /\ c \in Seated
  \/ d = "host" /\ playing # <<>> /\ playing[1] = c
  \/ d = "spec" /\ c \in watching

(* A packet is on its way for a while; Arrive, below, is one that is not.  *)
Send(c, d) ==
  /\ Sends(c, d) /\ Cardinality(net) < MaxInFlight
  /\ net' = net \cup {[from |-> Here(c), door |-> d, probe |-> FALSE]}
  /\ UNCHANGED <<playing, watching, port, players, eps, allowed, ends, used>>

(* A packet of somebody who is not playing, or an address query.           *)
Stray(c) ==
  /\ used.faults < MaxFaults /\ Cardinality(net) < MaxInFlight
  /\ \E d \in Doors, probe \in BOOLEAN :
       /\ IF probe THEN d = "relay" ELSE ~Sends(c, d)
       /\ net' = net \cup {[from |-> Here(c), door |-> d, probe |-> probe]}
  /\ Use("faults")
  /\ UNCHANGED <<playing, watching, port, players, eps, allowed, ends>>

Lose(p) ==
  /\ p \in net /\ net' = net \ {p}
  /\ UNCHANGED <<playing, watching, port, players, eps, allowed, ends, used>>

(* A client's NAT gives it another port, or its game another socket.       *)
Rebind(c) ==
  /\ used.faults < MaxFaults /\ Use("faults") /\ port' = [port EXCEPT ![c] = @ + 1]
  /\ UNCHANGED <<playing, watching, net, players, eps, allowed, ends>>

LearnedTwice(a) ==   \* broken: the seats of a known address are looked for again
  LET free == {i \in Seats : eps[i] = None /\ players[i] = IpOf(a)}
  IN  IF free = {} THEN eps
      ELSE [eps EXCEPT ![CHOOSE i \in free : \A j \in free : i <= j] = a]

(* The slots with address a learned, if need be and if a seat is free: the *)
(* first seat of that IP without an address.                               *)
Learned(a) ==
  LET free == {i \in Seats : eps[i] = None /\ players[i] = IpOf(a)}
  IN  IF a \in Range(eps) \/ free = {} THEN eps
      ELSE [eps EXCEPT ![CHOOSE i \in free : \A j \in free : i <= j] = a]

(* Relay::Pump: only a match packet takes a slot.                          *)
AtRelay(p) ==
  /\ p.door = "relay"
  /\ eps' = IF p.probe THEN eps ELSE Learned(p.from)
  /\ UNCHANGED <<playing, watching, port, players, allowed, ends, used>>

SeatsOnly(p) ==   \* broken: only the players' IPs are let in
  /\ p.door \in Sides
  /\ ends' = IF IpOf(p.from) \in Range(players) THEN [ends EXCEPT ![p.door] = p.from] ELSE ends
  /\ UNCHANGED <<playing, watching, port, players, eps, allowed, used>>

(* Pipe::PumpSide: a side learns every new address of a member.            *)
AtPipe(p) ==
  /\ p.door \in Sides
  /\ ends' = IF IpOf(p.from) \in Range(allowed) THEN [ends EXCEPT ![p.door] = p.from] ELSE ends
  /\ UNCHANGED <<playing, watching, port, players, eps, allowed, used>>

Receive(p) == /\ p \in net /\ net' = net \ {p}
              /\ AtRelay(p) \/ AtPipe(p)

Arrive(c, d) ==
  LET p == [from |-> Here(c), door |-> d, probe |-> FALSE]
  IN  /\ Sends(c, d)
      /\ AtRelay(p) \/ AtPipe(p)
      /\ UNCHANGED net

(* Where a packet that arrives now is sent on to: a query is answered to a *)
(* seat's IP, a packet from a slot goes to the other slot, one at a side   *)
(* of the pipe to the other side.                                          *)
OtherSide(s) == IF s = "host" THEN "spec" ELSE "host"
Onward(p) ==
  IF p.door \in Sides
  THEN IF ends[p.door] = p.from \/ IpOf(p.from) \in Range(allowed) THEN ends[OtherSide(p.door)] ELSE None
  ELSE IF p.probe
  THEN IF IpOf(p.from) \in Range(players) THEN p.from ELSE None
  ELSE LET slots == Learned(p.from)
       IN  IF p.from \in Range(slots) THEN slots[3 - CHOOSE i \in Seats : slots[i] = p.from] ELSE None

(* Who an address belongs to sends from it, and to this door.              *)
Sending(a, d) == Sends(a[1], d) /\ a = Here(a[1])

KeepForIp(i) ==   \* broken: a slot's age counts from the last packet of its IP
  /\ eps[i] # None /\ \A c \in Seated : Ip[c] # IpOf(eps[i])
  /\ eps' = [eps EXCEPT ![i] = None]
  /\ UNCHANGED <<playing, watching, port, net, players, allowed, ends, used>>

(* Nothing from a slot's address for RELAY_ENDPOINT_TIMEOUT_MS: it is not  *)
(* sent from any more, or all that was sent from it was lost.              *)
SlotTimeout(i) ==
  /\ eps[i] # None
  /\ IF Sending(eps[i], "relay") THEN used.faults < MaxFaults /\ Use("faults") ELSE UNCHANGED used
  /\ eps' = [eps EXCEPT ![i] = None]
  /\ UNCHANGED <<playing, watching, port, net, players, allowed, ends>>

EndTimeout(s) ==
  /\ ends[s] # None
  /\ IF Sending(ends[s], s) THEN used.faults < MaxFaults /\ Use("faults") ELSE UNCHANGED used
  /\ ends' = [ends EXCEPT ![s] = None]
  /\ UNCHANGED <<playing, watching, port, net, players, eps, allowed>>

Next ==
  \/ \E c \in Clients : Join(c) \/ Leave(c) \/ Stray(c) \/ Rebind(c)
  \/ \E c \in Clients, d \in Doors : Send(c, d) \/ Arrive(c, d)
  \/ \E i \in Seats : Rotate(i) \/ SlotTimeout(i)
  \/ \E s \in Sides : EndTimeout(s)
  \/ \E p \in net : Lose(p) \/ Receive(p)
  \/ Release \/ Round

Spec == Init /\ [][Next]_vars

(* The server's loop goes round; a game sends every frame, and not all of  *)
(* its packets are lost; who is silent is silent for long enough.          *)
Fairness ==
  /\ WF_vars(Round)
  /\ \A i \in Seats : WF_vars(eps[i] # None /\ ~Sending(eps[i], "relay") /\ SlotTimeout(i))
  /\ \A s \in Sides : WF_vars(ends[s] # None /\ ~Sending(ends[s], s) /\ EndTimeout(s))
  /\ \A c \in Players, d \in {"relay", "host"} : WF_vars(Arrive(c, d))
  /\ \A c \in Spectators : WF_vars(Arrive(c, "spec"))

FairSpec == Spec /\ Fairness

-----------------------------------------------------------------------------
TypeOK ==
  /\ playing \in Seq(Players) /\ IsInjective(playing) /\ watching \subseteq Spectators
  /\ port \in [Clients -> 0 .. MaxFaults] /\ net \subseteq Packet
  /\ players \in [Seats -> {NoIp} \cup Range(Ip)] /\ eps \in [Seats -> {None} \cup Address]
  /\ Range(allowed) \subseteq Range(Ip) /\ ends \in [Sides -> {None} \cup Address]
  /\ used \in [changes : 0 .. MaxChanges, faults : 0 .. MaxFaults]

(* The two slots are two addresses, each of its own seat's IP: a packet    *)
(* never goes back to its sender, and the opponent's is never kept out by  *)
(* one's own.                                                              *)
SlotsApart == \A i \in Seats : eps[i] # None =>
  IpOf(eps[i]) = players[i] /\ eps[i] # eps[3 - i]

(* Between a release and the next round the server still has the members   *)
(* of before.                                                              *)
UpToDate == players = SeatIps(playing) /\ allowed = MemberIps(playing, watching)

(* Whatever arrives is sent on, if at all, to another address than its     *)
(* sender's, and to the IP of somebody who is in the lobby now: whoever    *)
(* has left gets nothing more, of the match or of the feed.                *)
StaysInside == UpToDate => \A p \in net : Onward(p) # None =>
  /\ p.door = "relay" => (p.probe <=> Onward(p) = p.from)
  /\ \E c \in Members : Ip[c] = IpOf(Onward(p))

(* Two players who keep their seats and their ports come to be connected   *)
(* through the relay, and stay so, whatever ports and players it knew.     *)
Linked == Len(playing) >= 2 => Range(eps) = {Here(playing[1]), Here(playing[2])}
PlayersMeet == <>[]Linked

(* A spectator who stays is fed.                                           *)
Fed == \A c \in watching : Seated # {} => ends = [s \in Sides |-> IF s = "host" THEN Here(playing[1]) ELSE Here(c)]
SpectatorFed == <>[]Fed
=============================================================================
