------------------------------ MODULE DirectPath ------------------------------
(***************************************************************************)
(* Opt-in direct play of the two players of a lobby.  A client arms it: it *)
(* opens the socket GGPO will use, learns its public address and offers it *)
(* to the session server, which hands both players each other's address    *)
(* and a fresh token.  Both punch at once, keep the path open while they   *)
(* are in the lobby, prove it once more at match start, with marked        *)
(* probes, and each decides where to point GGPO.                           *)
(*                                                                         *)
(* The session's messages are reliable and ordered, the datagrams of the   *)
(* punch are not.  A punch blocks its client.  Deadlines are abstract: a   *)
(* punch may end at any time.                                              *)
(***************************************************************************)
EXTENDS Integers, Sequences, FiniteSets, Functions

CONSTANTS
  Peers,          \* the two players
  MAX_ATTEMPTS,   \* to find one's own address, between two matches
  MaxMatches,
  MaxFailures,    \* queries of a client's own address that fail
  MaxInFlight     \* datagrams

ASSUME DirectPathAssumption ==
  /\ IsFiniteSet(Peers) /\ Cardinality(Peers) = 2
  /\ {MAX_ATTEMPTS, MaxMatches, MaxFailures, MaxInFlight} \subseteq Nat

VARIABLES
  \* of each client
  phase,       \* lobby (also its results screen), loading, marking, playing
  armed,       \* _directEnabled: the socket is open
  attempts,    \* _directAttempts
  token,       \* _directToken, 0 before a first pairing
  proven,      \* _punchProven
  punch,       \* the punch it is in: gotAck and ackedPeer
  path,        \* what it decided for the match
  used,        \* the token of its punch at match start, 0 when there was none
  \* the session server and its connections
  offering,    \* offers on their way, at most one of each
  offered,     \* who has offered
  lastToken,
  inbox,       \* messages on their way to each client
  ready,       \* who has readied
  \* the network and the bounds
  net, matches, failures

clientVars == <<phase, armed, attempts, token, proven, punch, path, used>>
serverVars == <<offering, offered, lastToken, inbox, ready>>
vars == <<clientVars, serverVars, net, matches, failures>>

Other(p) == CHOOSE q \in Peers : q # p
None == "none"
Start == 0   \* a message; the tokens are above it
NoPunch == [on |-> FALSE, gotAck |-> FALSE, ackedPeer |-> FALSE]
Punching(p) == punch[p].on
Marking(p) == phase[p] = "marking"
Datagram(kind, t, to) == [kind |-> kind, token |-> t, to |-> to]

Init ==
  /\ phase = [p \in Peers |-> "lobby"] /\ armed = [p \in Peers |-> FALSE]
  /\ attempts = [p \in Peers |-> 0] /\ token = [p \in Peers |-> 0]
  /\ proven = [p \in Peers |-> FALSE] /\ punch = [p \in Peers |-> NoPunch]
  /\ path = [p \in Peers |-> None] /\ used = [p \in Peers |-> 0]
  /\ offering = {} /\ offered = {} /\ lastToken = 0
  /\ inbox = [p \in Peers |-> <<>>] /\ ready = {}
  /\ net = {} /\ matches = 0 /\ failures = 0

Put(d) == net' = net \cup {d}

-----------------------------------------------------------------------------
(* Pairing.                                                                *)

(* The socket is bound to the port that GGPO will use, unless GGPO still   *)
(* has it.                                                                 *)
Open(portFree) == portFree

(* What a server that is asked has answered by the deadline: the address   *)
(* it sees, a refusal, or nothing.                                         *)
QueryMapping(answer) == answer = "address"

(* The matchmaker is asked, and only when it does not say, the relay, if   *)
(* the lobby has told of one.  The relay answers members only.             *)
Discover(knowsRelay, answer) ==
  QueryMapping(answer.matchmaker) \/ (knowsRelay /\ QueryMapping(answer.relay))

Answers == LET replies == {"address", "refused", "silence"}
           IN  [matchmaker : replies, relay : replies]

(* EnableDirect.  Whatever of it fails is tried again later, a few times.  *)
Arm(p) ==
  /\ phase[p] = "lobby" /\ ~armed[p] /\ ~Punching(p) /\ attempts[p] < MAX_ATTEMPTS
  /\ attempts' = [attempts EXCEPT ![p] = @ + 1]
  /\ \E portFree, knowsRelay, sent \in BOOLEAN, answer \in Answers :
       IF Open(portFree) /\ Discover(knowsRelay, answer) /\ sent
       THEN /\ armed' = [armed EXCEPT ![p] = TRUE] /\ offering' = offering \cup {p}
            /\ UNCHANGED failures
       ELSE /\ failures < MaxFailures /\ failures' = failures + 1
            /\ UNCHANGED <<armed, offering>>
  /\ UNCHANGED <<phase, token, proven, punch, path, used, offered, lastToken, inbox, ready, net, matches>>

PairOnce(p) ==   \* broken: who has been paired is not paired again
  /\ p \in offering /\ offering' = offering \ {p} /\ offered' = offered \cup {p}
  /\ IF offered' = Peers /\ lastToken = 0
     THEN /\ lastToken' = lastToken + 1
          /\ inbox' = [q \in Peers |-> Append(inbox[q], lastToken')]
     ELSE UNCHANGED <<lastToken, inbox>>
  /\ UNCHANGED <<clientVars, ready, net, matches, failures>>

(* MT_DIRECT_OFFER: every offer pairs anew, with the last one of the other *)
(* player, which the server never forgets.                                 *)
Pair(p) ==
  /\ p \in offering /\ offering' = offering \ {p} /\ offered' = offered \cup {p}
  /\ IF offered' = Peers
     THEN /\ lastToken' = lastToken + 1
          /\ inbox' = [q \in Peers |-> Append(inbox[q], lastToken')]
     ELSE UNCHANGED <<lastToken, inbox>>
  /\ UNCHANGED <<clientVars, ready, net, matches, failures>>

HasNews(p) == ~Punching(p) /\ inbox[p] # <<>>
Taken(p) == inbox' = [inbox EXCEPT ![p] = Tail(@)]

KeepProven(p) ==   \* broken: who has a path does not look for another one
  /\ HasNews(p) /\ Head(inbox[p]) # Start /\ Taken(p)
  /\ IF armed[p] /\ ~proven[p]
     THEN /\ token' = [token EXCEPT ![p] = Head(inbox[p])]
          /\ punch' = [punch EXCEPT ![p] = [NoPunch EXCEPT !.on = TRUE]]
     ELSE UNCHANGED <<token, punch>>
  /\ UNCHANGED <<phase, armed, attempts, proven, path, used, offering, offered, lastToken, ready,
                 net, matches, failures>>

(* MT_DIRECT_PEER: who is not armed, or no more, ignores it.               *)
TakePeer(p) ==
  /\ HasNews(p) /\ Head(inbox[p]) # Start /\ Taken(p)
  /\ IF armed[p]
     THEN /\ token' = [token EXCEPT ![p] = Head(inbox[p])]
          /\ punch' = [punch EXCEPT ![p] = [NoPunch EXCEPT !.on = TRUE]]
     ELSE UNCHANGED <<token, punch>>
  /\ UNCHANGED <<phase, armed, attempts, proven, path, used, offering, offered, lastToken, ready,
                 net, matches, failures>>

-----------------------------------------------------------------------------
(* Punching.                                                               *)

(* A probe is sent to the peer every 50 ms, marked at match start.         *)
SendProbe(p) ==
  /\ Punching(p) /\ Cardinality(net) < MaxInFlight
  /\ Put(Datagram(IF Marking(p) THEN "marked" ELSE "plain", token[p], Other(p)))
  /\ UNCHANGED <<clientVars, serverVars, matches, failures>>

AnyProbeWillDo(p, d) ==   \* broken: a plain probe is as good as a marked one
  /\ net' = (net \ {d}) \cup {Datagram("ack", token[p], Other(p))}
  /\ punch' = [punch EXCEPT ![p].ackedPeer = TRUE]

(* Their probe is answered; at match start only a marked one counts.       *)
AnswerProbe(p, d) ==
  /\ net' = (net \ {d}) \cup {Datagram("ack", token[p], Other(p))}
  /\ punch' = [punch EXCEPT ![p].ackedPeer = @ \/ d.kind = "marked" \/ ~Marking(p)]

(* A datagram reaches a punch.  One of another token is ignored.           *)
Hear(p) ==
  /\ Punching(p)
  /\ \E d \in net :
       /\ d.to = p
       /\ \/ /\ d.kind # "ack" /\ d.token = token[p] /\ AnswerProbe(p, d)
          \/ /\ d.kind = "ack" /\ d.token = token[p] /\ net' = net \ {d}
             /\ punch' = [punch EXCEPT ![p].gotAck = TRUE]
          \/ d.token # token[p] /\ net' = net \ {d} /\ UNCHANGED punch
  /\ UNCHANGED <<phase, armed, attempts, token, proven, path, used, serverVars, matches, failures>>

(* Both screens of the lobby pump, as long as there is a path to keep.     *)
KeepsAlive(p) == phase[p] = "lobby" /\ ~Punching(p)
PumpDirect(p) == KeepsAlive(p) /\ proven[p]

(* Keepalive of a proven path, in the lobby: a plain probe, and an answer  *)
(* to a plain one; whatever else has come is dropped.                      *)
Keepalive(p) ==
  /\ PumpDirect(p)
  /\ \/ /\ Cardinality(net) < MaxInFlight /\ Put(Datagram("plain", token[p], Other(p)))
     \/ \E d \in net : /\ d.to = p /\ d.kind = "plain" /\ d.token = token[p]
                      /\ net' = (net \ {d}) \cup {Datagram("ack", token[p], Other(p))}
  /\ UNCHANGED <<clientVars, serverVars, matches, failures>>

Lose == \E d \in net : /\ net' = net \ {d}
                       /\ UNCHANGED <<clientVars, serverVars, matches, failures>>

(* What a punch has shown: the round trip and, at match start, that the    *)
(* other player is there too.                                              *)
Succeeds(p) == punch[p].gotAck /\ (punch[p].ackedPeer \/ ~Marking(p))

(* TryDirectPath, its decision: the socket is closed, and armed again for  *)
(* the next match.  The token stays.                                       *)
Decide(p, direct) ==
  /\ path' = [path EXCEPT ![p] = IF direct THEN "direct" ELSE "relay"]
  /\ phase' = [phase EXCEPT ![p] = "playing"]
  /\ armed' = [armed EXCEPT ![p] = FALSE] /\ attempts' = [attempts EXCEPT ![p] = 0]
  /\ proven' = [proven EXCEPT ![p] = FALSE]

(* A punch ends with what it has shown, or without a path, whatever it has *)
(* shown, when a receive fails.                                            *)
Finish(p) ==
  /\ Punching(p) /\ punch' = [punch EXCEPT ![p] = NoPunch]
  /\ \E shown \in {FALSE, Succeeds(p)} :
       IF Marking(p) THEN Decide(p, shown)
                     ELSE /\ proven' = [proven EXCEPT ![p] = shown]
                          /\ UNCHANGED <<phase, armed, attempts, path>>
  /\ UNCHANGED <<token, used, serverVars, net, matches, failures>>

-----------------------------------------------------------------------------
(* Matches.                                                                *)

(* READY, as the server hears it, after an offer of the same client.       *)
Ready(p) ==
  /\ phase[p] = "lobby" /\ ~Punching(p) /\ Start \notin Range(inbox[p])
  /\ p \notin ready \cup offering /\ matches < MaxMatches
  /\ IF ready = {Other(p)}
     THEN /\ ready' = {} /\ matches' = matches + 1 /\ used' = [q \in Peers |-> 0]
          /\ inbox' = [q \in Peers |-> Append(inbox[q], Start)]
     ELSE ready' = {p} /\ UNCHANGED <<matches, inbox, used>>
  /\ UNCHANGED <<phase, armed, attempts, token, proven, punch, path, offering, offered, lastToken, net, failures>>

TakeStart(p) ==
  /\ HasNews(p) /\ Head(inbox[p]) = Start /\ Taken(p)
  /\ phase' = [phase EXCEPT ![p] = "loading"]
  /\ UNCHANGED <<armed, attempts, token, proven, punch, path, used, offering, offered, lastToken, ready,
                 net, matches, failures>>

(* TryDirectPath: whoever is armed and has been paired punches once more.  *)
StartMatch(p) ==
  /\ phase[p] = "loading" /\ ~Punching(p)
  /\ IF armed[p] /\ token[p] # 0
     THEN /\ phase' = [phase EXCEPT ![p] = "marking"]
          /\ punch' = [punch EXCEPT ![p] = [NoPunch EXCEPT !.on = TRUE]]
          /\ used' = [used EXCEPT ![p] = token[p]]
          /\ UNCHANGED <<armed, attempts, proven, path>>
     ELSE /\ Decide(p, proven[p])
          /\ used' = [used EXCEPT ![p] = 0]
          /\ UNCHANGED punch
  /\ UNCHANGED <<token, serverVars, net, matches, failures>>

Back(p) == phase[p] = "lobby" /\ Start \notin Range(inbox[p])

(* Both play before either is back, and no datagram is under way as long   *)
(* as a match lasts.                                                       *)
EndMatch(p) ==
  /\ phase[p] = "playing"
  /\ Back(Other(p)) \/ (phase[Other(p)] = "playing" /\ net = {})
  /\ phase' = [phase EXCEPT ![p] = "lobby"] /\ path' = [path EXCEPT ![p] = None]
  /\ UNCHANGED <<armed, attempts, token, proven, punch, used, serverVars, net, matches, failures>>

Next ==
  \/ \E p \in Peers : Arm(p) \/ Pair(p) \/ TakePeer(p) \/ SendProbe(p) \/ Hear(p) \/ Keepalive(p)
  \/ \E p \in Peers : Finish(p) \/ Ready(p) \/ TakeStart(p) \/ StartMatch(p) \/ EndMatch(p)
  \/ Lose

Spec == Init /\ [][Next]_vars

(* Frames and the server's loop go on, and a punch has a deadline.  No     *)
(* datagram need ever arrive, nobody need ever press a button.             *)
Fairness == \A p \in Peers :
  WF_vars(Arm(p)) /\ WF_vars(Pair(p)) /\ WF_vars(TakePeer(p)) /\ WF_vars(Finish(p))

FairSpec == Spec /\ Fairness

-----------------------------------------------------------------------------
(* Whoever points GGPO at the other player has met him at the start of     *)
(* this very match: he, too, has come to TryDirectPath, armed, and with    *)
(* the token of the same pairing.                                          *)
DirectMet == \A p \in Peers : path[p] = "direct" => used[p] # 0 /\ used[Other(p)] = used[p]

(* Two armed clients that have taken all their news are in one pairing:    *)
(* offers and pairings that cross each other leave nobody behind.          *)
OnePairing ==
  (offering = {} /\ \A p \in Peers : armed[p] /\ inbox[p] = <<>>)
    => \A p \in Peers : token[p] = lastToken

(* Two players who stay in the lobby, between matches too, both get armed, *)
(* and paired anew.                                                        *)
Repaired == <>[]((\A p \in Peers : Back(p)) =>
                   \A p \in Peers : armed[p] /\ token[p] = lastToken /\ token[p] > used[p])
=============================================================================
