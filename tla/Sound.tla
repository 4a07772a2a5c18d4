------------------------------- MODULE Sound -------------------------------
(***************************************************************************)
(* Sounds under rollback.  The battle plays into a silent stub manager,    *)
(* whose sounds are saved and loaded with the game; a real manager is      *)
(* brought in line with it between frames (SyncState), so that a sound     *)
(* played in frames that are simulated again is not heard again.           *)
(*                                                                         *)
(* The game's own manager is external: it plays a sound on a free adapter, *)
(* takes one from another sound if the request may interrupt, and fails    *)
(* otherwise.  GGPO saves every frame, goes back at most Prediction frames *)
(* and simulates up to the frame it came from.                             *)
(***************************************************************************)
EXTENDS Integers, FiniteSets, SequencesExt

CONSTANTS
  NumAdapters,   \* players of a manager
  Cues,          \* what can be asked for: sheet, cue, type, flags and position
  Interrupting,  \* the requests that may take another sound's adapter
  Prediction,    \* how far GGPO may go back
  MaxFrame, MaxCalls   \* bounds: frames of a battle, sounds asked for in a frame

NoCue == "none"

ASSUME SoundAssumption ==
  /\ NumAdapters \in Nat \ {0} /\ Prediction \in Nat
  /\ Interrupting \subseteq Cues /\ NoCue \notin Cues

Adapters == 1 .. NumAdapters

VARIABLES
  stub, real,   \* adapterToCurrentSound of the two managers' adapters; fresh
                \* tells what the last SyncState started
  queuedStops,  \* stops the real manager has not seen
  saved,        \* the stub's sounds in the save state of each frame
  frame,        \* frames simulated
  at,           \* where the tick is: "none" without a battle, "idle" between
                \* ticks, "frame" in BattleUpdate, "advanced" after it, "polled"
  until,        \* the frame a rollback has to reach, or 0
  calls,        \* what this frame has asked for; NoCue stands for a stop
  skipped       \* the last SyncState could not start a sound; for the properties

world == <<frame, at, until, calls, saved>>
vars == <<stub, real, queuedStops, world, skipped>>

Silent == [i \in Adapters |-> [live |-> FALSE, cue |-> NoCue, frame |-> 0]]
NotHeard == [live |-> FALSE, cue |-> NoCue, frame |-> 0, fresh |-> FALSE]
Heard == [i \in Adapters |-> NotHeard]

Playing(players) == {i \in Adapters : players[i].live}
Least(S) == CHOOSE i \in S : \A j \in S : i <= j

Init ==
  /\ stub = Silent /\ real = Heard /\ queuedStops = <<>> /\ saved = <<>>
  /\ frame = 1 /\ at = "none" /\ until = 0 /\ calls = {}
  /\ skipped = FALSE

(* A battle's managers start and end with no sound on record.              *)
Factory ==
  /\ at = "none"
  /\ stub' = Silent /\ real' = Heard /\ queuedStops' = <<>>
  /\ saved' = <<Silent>> /\ frame' = 1 /\ at' = "idle" /\ until' = 0 /\ calls' = {}
  /\ skipped' = FALSE

destructor ==
  /\ at = "idle" /\ until = 0
  /\ stub' = Silent /\ real' = Heard /\ queuedStops' = <<>> /\ at' = "none" /\ saved' = <<>>
  /\ frame' = 1 /\ calls' = {} /\ UNCHANGED until
  /\ skipped' = FALSE

-----------------------------------------------------------------------------
(* What a simulated frame asks of the stub.                                *)

Simulating == until > 0 \/ at = "frame"

(* Where the game's manager can put a sound.  If nowhere, the detour stops *)
(* the oldest sound and asks again.                                        *)
Oldest(players) == {i \in Playing(players) : \A j \in Playing(players) : players[i].frame <= players[j].frame}
Places(players, cue) ==
  IF Playing(players) # Adapters THEN Adapters \ Playing(players)
  ELSE IF cue \in Interrupting THEN Adapters ELSE {Least(Oldest(players))}

Instance(sound) == [cue |-> sound.cue, frame |-> sound.frame]

(* A sound whose adapter is taken is queued as a stop.  No two identical   *)
(* requests fall into one frame, so that request and frame name a sound.   *)
PlaySound(cue) ==
  /\ Simulating /\ cue \notin calls /\ Cardinality(calls \ {NoCue}) < MaxCalls
  /\ \E i \in Places(stub, cue) :
       /\ stub' = [stub EXCEPT ![i] = [live |-> TRUE, cue |-> cue, frame |-> frame]]
       /\ queuedStops' = IF stub[i].live THEN Append(queuedStops, Instance(stub[i])) ELSE queuedStops
  /\ calls' = calls \cup {cue}
  /\ UNCHANGED <<real, frame, at, until, saved, skipped>>

(* The game stops a sound it has the handle of, playing or not.  A frame   *)
(* makes one stop; another bound.                                          *)
StopSound(i) ==
  /\ Simulating /\ stub[i].cue # NoCue /\ NoCue \notin calls
  /\ stub' = [stub EXCEPT ![i].live = FALSE]
  /\ queuedStops' = Append(queuedStops, Instance(stub[i]))
  /\ calls' = calls \cup {NoCue}
  /\ UNCHANGED <<real, frame, at, until, saved, skipped>>

StopAll ==
  /\ Simulating /\ NoCue \notin calls
  /\ stub' = [i \in Adapters |-> [stub[i] EXCEPT !.live = FALSE]]
  /\ queuedStops' = queuedStops \o [i \in Adapters |-> Instance(stub[i])]
  /\ calls' = calls \cup {NoCue}
  /\ UNCHANGED <<real, frame, at, until, saved, skipped>>

-----------------------------------------------------------------------------
(* SyncState.                                                              *)

StopsRequest(stop, sound) == sound.cue = stop.cue   \* broken: any sound of the request
(* A stop ends the one real sound of its request and its start.            *)
Stops(stop, sound) == Instance(sound) = stop
StopQueued(players, stop) ==
  LET hit == {i \in Playing(players) : Stops(stop, players[i])}
  IN  IF hit = {} THEN players ELSE [players EXCEPT ![Least(hit)] = NotHeard]

ClaimableTwice(players, claims, s) ==   \* broken: two stubs may have one player
  {r \in Playing(players) : players[r].cue = stub[s].cue}
(* PairLiveSounds: every live stub sound, in turn, claims the first real   *)
(* sound of the same request that no other has claimed; 0 is none.         *)
Claimable(players, claims, s) ==
  {r \in Playing(players) : players[r].cue = stub[s].cue /\ \A t \in Adapters : claims[t] # r}
Claim(players, claims, s) ==
  IF stub[s].live /\ Claimable(players, claims, s) # {}
  THEN [claims EXCEPT ![s] = Least(Claimable(players, claims, s))] ELSE claims
PairLiveSounds(players) ==
  LET claim(claims, s) == Claim(players, claims, s)
  IN  FoldLeft(claim, [s \in Adapters |-> 0], [s \in Adapters |-> s])

Unclaimed(players, pairing) ==
  [r \in Adapters |-> IF \E s \in Adapters : pairing[s] = r
                      THEN [players[r] EXCEPT !.fresh = FALSE] ELSE NotHeard]

(* A start that fails: the real manager's own detour stops its oldest      *)
(* sound and asks again, in vain, and the sound is skipped.                *)
Refused(players) ==
  IF Playing(players) = {} THEN players ELSE [players EXCEPT ![Least(Oldest(players))] = NotHeard]

(* A live stub sound lends its start to the real one it claimed, which may *)
(* have been stopped for a start that failed, or starts one on a free      *)
(* adapter, if its cue sheet is not stale; there is always one.            *)
Reconcile(players, pairing, stale, s) ==
  IF ~stub[s].live THEN players
  ELSE IF pairing[s] # 0
    THEN IF players[pairing[s]].live THEN [players EXCEPT ![pairing[s]].frame = stub[s].frame]
         ELSE players
  ELSE IF stub[s].cue \in stale THEN Refused(players)
  ELSE [players EXCEPT ![Least(Adapters \ Playing(players))] =
          [live |-> TRUE, cue |-> stub[s].cue, frame |-> stub[s].frame, fresh |-> TRUE]]

Stopped == FoldLeft(StopQueued, real, queuedStops)
Synced(stale) ==
  LET pairing == PairLiveSounds(Stopped)
      reconcile(players, s) == Reconcile(players, pairing, stale, s)
  IN  FoldLeft(reconcile, Unclaimed(Stopped, pairing), [s \in Adapters |-> s])
Skips(stale) ==
  \E s \in Adapters : stub[s].live /\ PairLiveSounds(Stopped)[s] = 0 /\ stub[s].cue \in stale

(* Before a frame, and after it once GGPO has it; `stale` are the requests *)
(* whose cue sheet the real manager has no more.                           *)
SyncState ==
  /\ until = 0 /\ at \in {"idle", "advanced", "polled"} /\ (at = "idle" => frame < MaxFrame)
  /\ \E stale \in SUBSET Cues : real' = Synced(stale) /\ skipped' = Skips(stale)
  /\ queuedStops' = <<>>
  /\ at' = IF at = "idle" THEN "frame" ELSE "idle"
  /\ UNCHANGED <<stub, frame, until, calls, saved>>

-----------------------------------------------------------------------------
(* GGPO.                                                                   *)

(* BattleUpdate and ggpo_advance_frame: the next frame is saved, with what *)
(* the stub plays.                                                         *)
Advance ==
  /\ Simulating
  /\ frame' = frame + 1
  /\ saved' = [f \in {g \in DOMAIN saved : g <= frame /\ g >= frame - Prediction} \cup {frame + 1} |->
                IF f = frame + 1 THEN stub ELSE saved[f]]
  /\ calls' = {}
  /\ until' = IF until = frame + 1 THEN 0 ELSE until
  /\ at' = IF until = 0 THEN "advanced" ELSE at
  /\ UNCHANGED <<stub, real, queuedStops, skipped>>

KeptQueue(f) == queuedStops   \* broken: stops of the abandoned frames stay
QueueAfterLoad(f) == <<>>

(* A rollback, from ggpo_advance_frame or ggpo_idle.                       *)
Load(f) ==
  /\ until = 0 /\ at \in {"idle", "advanced"}
  /\ f \in DOMAIN saved /\ f < frame /\ f >= frame - Prediction
  /\ stub' = saved[f] /\ queuedStops' = QueueAfterLoad(f)
  /\ frame' = f /\ until' = frame /\ calls' = {}
  /\ at' = IF at = "advanced" THEN "polled" ELSE at
  /\ UNCHANGED <<real, saved, skipped>>

Next ==
  \/ Factory \/ destructor
  \/ \E cue \in Cues : PlaySound(cue)
  \/ \E i \in Adapters : StopSound(i)
  \/ StopAll
  \/ Advance
  \/ SyncState
  \/ \E f \in 1 .. MaxFrame : Load(f)

Spec == Init /\ [][Next]_vars

-----------------------------------------------------------------------------
(* How many adapters play an instance.                                     *)
Count(players, cue, f) ==
  Cardinality({i \in Playing(players) : players[i].cue = cue /\ players[i].frame = f})

Sounding(players, cue) == Cardinality({i \in Playing(players) : players[i].cue = cue})

(* After SyncState exactly the sounds of the simulation are heard, each on *)
(* a player of its own, whatever was rolled back or skipped since the last *)
(* one.  When a start fails there is less to be heard, and still nothing   *)
(* that the simulation does not play.                                      *)
Mirrored ==
  [][SyncState =>
       IF skipped' THEN \A cue \in Cues : Sounding(real', cue) <= Sounding(stub, cue)
       ELSE \A cue \in Cues, f \in 1 .. MaxFrame : Count(real', cue, f) = Count(stub, cue, f)]_vars

(* A sound that was heard and still plays in the simulation is not cut and *)
(* started again: SyncState leaves as many sounds of its request alone,    *)
(* unless it cut one to make room for a start that failed all the same.    *)
PlaysOn ==
  [][SyncState /\ ~skipped' => \A cue \in Cues :
       LET lasting == {i \in Playing(stub) : stub[i].cue = cue /\ Count(real, cue, stub[i].frame) > 0}
           uncut == {i \in Playing(real) : real'[i].live /\ ~real'[i].fresh /\ real'[i].cue = cue
                                             /\ real[i].cue = cue}
       IN  Cardinality(uncut) >= Cardinality(lasting)]_vars
=============================================================================
