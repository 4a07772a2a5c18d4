-------------------------- MODULE SessionProtocol --------------------------
(***************************************************************************)
(* The vocabulary the session server and the session clients share: the    *)
(* two seats, the match data they exchange, and the pure rules the header  *)
(* fixes (input delay, readiness, validity).  Everything here is constant  *)
(* level.                                                                  *)
(***************************************************************************)
EXTENDS Integers

Sides == {0, 1}
Other(side) == 1 - side

(* Picks are character ids; id 0 is a real character (Ryu) and also what a *)
(* zeroed pick reads as.                                                   *)
ZeroChara == 0
NoStage == -1
NoSeed == -1
NoDelay == -1

INPUT_DELAY_AUTO == 0
INPUT_DELAY_DEFAULT == 2
INPUT_DELAY_MAX == 8

(* The delay that hides a measured round trip; unknown is negative.        *)
InputDelayForRoundTrip(ms) ==
  CASE ms < 0 -> INPUT_DELAY_DEFAULT
    [] ms \in 0 .. 50 -> 1
    [] ms \in 51 .. 100 -> 2
    [] ms \in 101 .. 150 -> 3
    [] ms \in 151 .. 200 -> 4
    [] OTHER -> 5

(* What a seat sends with its ready: the delay it chose and two round      *)
(* trips it measured, negative when unknown.                               *)
ReadyRequest == [inputDelay : Int, serverPingMs : Int, directRoundTripMs : Int]
NoRequest == [inputDelay |-> NoDelay, serverPingMs |-> -1, directRoundTripMs |-> -1]

Larger(a, b) == IF a > b THEN a ELSE b
Smaller(a, b) == IF a < b THEN a ELSE b

(* Direct when both players proved a path to each other; otherwise the     *)
(* match goes through the server, one ping after the other.                *)
MeasuredRoundTripMs(reqs) ==
  IF \A s \in Sides : reqs[s].directRoundTripMs >= 0
  THEN Larger(reqs[0].directRoundTripMs, reqs[1].directRoundTripMs)
  ELSE IF \A s \in Sides : reqs[s].serverPingMs >= 0
       THEN reqs[0].serverPingMs + reqs[1].serverPingMs
       ELSE -1

UncappedDelay(req, automatic) ==   \* broken: no upper bound
  IF req.inputDelay <= INPUT_DELAY_AUTO THEN automatic ELSE req.inputDelay

ChosenDelay(req, automatic) ==
  Smaller(IF req.inputDelay <= INPUT_DELAY_AUTO THEN automatic ELSE req.inputDelay,
          INPUT_DELAY_MAX)

(* Both seats play at the higher of the two choices.                       *)
SharedInputDelay(reqs) ==
  LET automatic == InputDelayForRoundTrip(MeasuredRoundTripMs(reqs))
  IN  Larger(ChosenDelay(reqs[0], automatic), ChosenDelay(reqs[1], automatic))

(* MatchData::Clear.  `nobody` is the ready value of a seat that is not    *)
(* ready (readyMessageNum -1); a ready seat holds the connection whose     *)
(* message made it ready, which is what its message number identifies.     *)
ClearMatchData(nobody) ==
  [ready      |-> [s \in Sides |-> nobody],
   chara      |-> [s \in Sides |-> ZeroChara],
   stageID    |-> NoStage,
   rngSeed    |-> NoSeed,
   inputDelay |-> [s \in Sides |-> NoDelay]]

MatchDataOf(conns, charas, stages, seeds) ==
  [ready      : [Sides -> conns],
   chara      : [Sides -> charas \cup {ZeroChara}],
   stageID    : stages \cup {NoStage},
   rngSeed    : seeds \cup {NoSeed},
   inputDelay : [Sides -> Int]]

IsAllReady(match, nobody) == \A s \in Sides : match.ready[s] # nobody
=============================================================================
