------------------------------ MODULE Rollback ------------------------------
(***************************************************************************)
(* A match played by two machines.  Each runs its battle a few frames      *)
(* ahead of the other's inputs, on guesses, and rolls back when a guess    *)
(* was wrong: GGPO decides when, the battle system saves, restores and     *)
(* simulates again.  Once a second each machine takes a snapshot, sends it *)
(* through the session server when it can no longer change, and ends the   *)
(* match when the other's snapshot of the same frame is different.         *)
(*                                                                         *)
(* What the battle looks like is left out: a state is the number of frames *)
(* simulated, and the first of them with a wrong input, if any.  GGPO is a *)
(* library; it is here as far as the battle system depends on it.          *)
(***************************************************************************)
EXTENDS Integers, Sequences, FiniteSets, SequencesExt, FiniteSetsExt, Functions

CONSTANTS
  GGPO_MAX_PREDICTION_FRAMES,
  Delay,                 \* the input delay both play with
  SNAPSHOT_EVERY,        \* 60 in the code
  SETTLED,               \* 60 in the code
  HOLD_CAP,              \* 30 in the code
  Checkpointing,         \* the machines with bRoundCheckpoint (SF4E_ROUND_CHECKPOINT)
  Drifting,              \* the machines that draw with another rounding
  IdleFrames,            \* frames of the battle in which its flow is BF__IDLE
  OverAt, ResultAt,      \* and from which on it is MATCH_OVER and MATCH_RESULT
  LastFrame,             \* frames simulated of a match
  MaxMatches, MaxFaults  \* of forks, departures and frame skips

ASSUME RollbackAssumption ==
  /\ GGPO_MAX_PREDICTION_FRAMES \in Nat \ {0} /\ Delay \in Nat \ {0}
  /\ SNAPSHOT_EVERY \in Nat \ {0} /\ {SETTLED, HOLD_CAP, MaxMatches, MaxFaults} \subseteq Nat
  /\ Checkpointing \subseteq {1, 2} /\ Drifting \subseteq {1, 2} /\ IdleFrames \subseteq Nat
  /\ {OverAt, ResultAt, LastFrame} \subseteq Nat /\ OverAt < ResultAt /\ ResultAt <= LastFrame

VARIABLES
  sim,        \* the battle, GGPO's account of it, the save states, the snapshots
  ctl,        \* how far each machine is, and what keeps its battle from updating
  inbox,      \* session messages on their way to it
  pending,    \* pendingRemoteSnapshots: frame -> state
  verdict,    \* bDesyncAbort, _desyncReported, and the result published
  faults      \* forks, departures and frame skips so far

vars == <<sim, ctl, inbox, pending, verdict, faults>>

Machines == {1, 2}
Peer(m) == 3 - m
None == -1

NUM_SAVE_STATES == GGPO_MAX_PREDICTION_FRAMES + 2
Slots == 1 .. NUM_SAVE_STATES
Ring == 0 .. GGPO_MAX_PREDICTION_FRAMES + 1   \* GGPO's saved frames
NoSlot == 0

TotalFaults == Cardinality(faults.forked) + faults.quits + faults.skips

(* This machine computes something else in this match.                     *)
Forked(m) == <<m, ctl[m].match>> \in faults.forked

Unused == [used |-> FALSE, n |-> 0, bad |-> None]
NoSnaps == [f \in {} |-> 0]

(* A session that has just been started; the seed tells matches apart.     *)
NewBattle(seed, drift) == [
                    seed |-> seed, n |-> 0, bad |-> None, frame |-> 0, conf |-> Delay, wrong |-> None,
                    pool |-> [s \in Slots |-> Unused], ring |-> [i \in Ring |-> NoSlot],
                    snaps |-> NoSnaps, lost |-> FALSE, drift |-> drift]
NoBattle == NewBattle(0, FALSE)

InMenu == [at |-> "menu", match |-> 0, open |-> FALSE, allowed |-> FALSE, leaving |-> FALSE,
           leftIdle |-> FALSE, skip |-> 0, held |-> 0, lastFlow |-> "none"]

NoVerdict == [abort |-> FALSE, reported |-> FALSE, seen |-> FALSE, result |-> "none"]

Init ==
  /\ sim = [m \in Machines |-> NoBattle] /\ ctl = [m \in Machines |-> InMenu]
  /\ inbox = [m \in Machines |-> <<>>] /\ pending = [m \in Machines |-> NoSnaps]
  /\ verdict = [m \in Machines |-> NoVerdict]
  /\ faults = [forked |-> {}, quits |-> 0, skips |-> 0]

Flow(n) == IF n \in IdleFrames THEN "idle"
           ELSE IF n >= ResultAt THEN "result" ELSE IF n >= OverAt THEN "over" ELSE "fight"

-----------------------------------------------------------------------------
(* The battle system under GGPO, as functions on one machine's sim.        *)

KeepUsed(s, slot) == s   \* broken: the slot stays in use

(* ggpo_free_buffer; an empty place in the ring is null.                   *)
Free(s, slot) == IF slot = NoSlot THEN s ELSE [s EXCEPT !.pool[slot] = Unused]

(* ggpo_save_game_state_callback, after GGPO has freed the oldest state in *)
(* its ring: the first slot not in use, or "FATAL".                        *)
SaveState(s0) ==
  LET i == s0.frame % (GGPO_MAX_PREDICTION_FRAMES + 2)
      s == Free(s0, s0.ring[i])
      unused == {slot \in Slots : ~s.pool[slot].used}
  IN  IF unused = {} THEN [s EXCEPT !.ring[i] = NoSlot, !.lost = TRUE]
      ELSE [s EXCEPT !.ring[i] = Min(unused),
                     !.pool[Min(unused)] = [used |-> TRUE, n |-> s.n, bad |-> s.bad]]

KeepTimeline(s, k) == [s EXCEPT !.frame = k]   \* broken: does not restore

(* ggpo_load_game_state_callback                                           *)
LoadState(s, k) ==
  LET state == s.pool[s.ring[k % (GGPO_MAX_PREDICTION_FRAMES + 2)]]
  IN  [s EXCEPT !.frame = k, !.n = state.n, !.bad = state.bad]

(* What the snapshots compare: what the characters are, which the inputs   *)
(* make, and where they are drawn.                                         *)
BuildSnapshot(s) == [match |-> s.seed, frame |-> s.frame, bad |-> s.bad, rootPos |-> s.drift]

(* insert_or_assign of a map.                                              *)
With(f, k, v) == [x \in DOMAIN f \cup {k} |-> IF x = k THEN v ELSE f[x]]

(* Once a second, also for a frame that is simulated again.                *)
CaptureSnapshot(s) ==
  IF s.n % SNAPSHOT_EVERY # 0 THEN s
  ELSE [s EXCEPT !.snaps = With(@, s.n, [state |-> BuildSnapshot(s), sent |-> FALSE,
                                         confirmed |-> FALSE])]

(* BattleUpdate of the game with the inputs for this frame, good or bad,   *)
(* then ggpo_advance_frame, which saves, then the snapshot.                *)
Advance(s, bad) ==
  CaptureSnapshot(SaveState([s EXCEPT !.n = @ + 1, !.frame = @ + 1,
                                      !.bad = IF bad /\ @ = None THEN s.n ELSE @]))

(* GGPO has the other's inputs for the first c frames: when one of them    *)
(* was guessed wrong it goes back to it and simulates what came after,     *)
(* guessing again, wrong from frame w on.                                  *)
Poll(s, c, w, forked) ==
  IF s.wrong = None \/ s.wrong >= c THEN [s EXCEPT !.conf = c]
  ELSE FoldLeft(LAMBDA t, i : Advance(t, forked \/ (w # None /\ i >= w)),
                [LoadState(s, s.wrong) EXCEPT !.conf = c, !.wrong = w],
                [j \in 1 .. s.frame - s.wrong |-> s.wrong + j - 1])

(* What may arrive and what may be guessed.                                *)
Arrivals(m) == sim[m].conf .. Max({sim[m].conf, sim[Peer(m)].frame + Delay})
Guesses(m, c) == IF sim[m].wrong = None \/ sim[m].wrong >= c THEN {sim[m].wrong}
                 ELSE {None} \cup c .. sim[m].frame - 1

Depth(s) == s.frame - (s.conf - 1)   \* ggpo_get_unconfirmed_depth

AheadOf(s) == s.frame >= GGPO_MAX_PREDICTION_FRAMES /\ Depth(s) >= GGPO_MAX_PREDICTION_FRAMES

-----------------------------------------------------------------------------
(* From the lobby to the battle.                                           *)

(* The call comes to both, after everything either sent in the last match: *)
(* the server relays in order.                                             *)
Called(m) ==
  /\ ctl[m].at = "menu" /\ ctl[m].match < MaxMatches /\ inbox[m] = <<>>
  /\ ctl[Peer(m)].at # "gone"
  /\ \/ ctl[Peer(m)].match = ctl[m].match /\ ctl[Peer(m)].at = "menu" /\ inbox[Peer(m)] = <<>>
     \/ ctl[Peer(m)].match = ctl[m].match + 1

KeepPending(m) == pending   \* broken: snapshots outlive their match

ClearPending(m) == [pending EXCEPT ![m] = NoSnaps]

(* _OnVsBattleTasksRegistered and StartGGPO                                *)
StartGGPO(m) ==
  /\ Called(m)
  /\ pending' = ClearPending(m)
  /\ sim' = [sim EXCEPT ![m] = NewBattle(ctl[m].match + 1, m \in Drifting)]
  /\ ctl' = [ctl EXCEPT ![m] = [InMenu EXCEPT !.at = "battle", !.match = ctl[m].match + 1, !.open = TRUE]]
  /\ UNCHANGED <<inbox, verdict, faults>>

(* ... when GGPO refuses: AbortMatchStart.                                 *)
StartFails(m) ==
  /\ Called(m) /\ TotalFaults < MaxFaults
  /\ faults' = [faults EXCEPT !.quits = @ + 1]
  /\ pending' = ClearPending(m)
  /\ sim' = [sim EXCEPT ![m] = NoBattle]
  /\ ctl' = [ctl EXCEPT ![m] = [InMenu EXCEPT !.at = "battle", !.match = ctl[m].match + 1,
                                              !.leaving = TRUE]]
  /\ UNCHANGED <<inbox, verdict>>

Playing(m) == ctl[m].at = "battle" /\ ctl[m].open
Together(m) == Playing(Peer(m)) /\ ctl[Peer(m)].match = ctl[m].match

(* GGPO_EVENTCODE_RUNNING                                                  *)
Running(m) ==
  /\ Playing(m) /\ ~ctl[m].allowed /\ Together(m)
  /\ ctl' = [ctl EXCEPT ![m].allowed = TRUE]
  /\ UNCHANGED <<sim, inbox, pending, verdict, faults>>

NoTimeout(m) ==   \* broken: silence is waited out
  /\ Playing(m) /\ ctl[m].allowed /\ ctl[Peer(m)].at = "gone" /\ ~ctl[m].leaving
  /\ ctl' = [ctl EXCEPT ![m].leaving = TRUE]
  /\ UNCHANGED <<sim, inbox, pending, verdict, faults>>

(* GGPO_EVENTCODE_DISCONNECTED_FROM_PEER: no packets for the timeout.  Who *)
(* has not reached RUNNING has nobody to be disconnected from: the screen  *)
(* stays black.                                                            *)
Disconnected(m) ==
  /\ Playing(m) /\ ctl[m].allowed /\ ~Together(m) /\ ~ctl[m].leaving
  /\ ctl' = [ctl EXCEPT ![m].leaving = TRUE]
  /\ UNCHANGED <<sim, inbox, pending, verdict, faults>>

(* GGPO trips over itself: OnGgpoAssertFailed asks the battle to leave and *)
(* calls nothing of GGPO's.                                                *)
OnGgpoAssertFailed(m) ==
  /\ Playing(m) /\ ~ctl[m].leaving /\ TotalFaults < MaxFaults
  /\ faults' = [faults EXCEPT !.quits = @ + 1]
  /\ ctl' = [ctl EXCEPT ![m].leaving = TRUE]
  /\ UNCHANGED <<sim, inbox, pending, verdict>>

(* GGPO_EVENTCODE_TIMESYNC, with pacing off.                               *)
TimeSync(m) ==
  /\ Playing(m) /\ ctl[m].allowed /\ TotalFaults < MaxFaults
  /\ faults' = [faults EXCEPT !.skips = @ + 1]
  /\ ctl' = [ctl EXCEPT ![m].skip = @ + 1]
  /\ UNCHANGED <<sim, inbox, pending, verdict>>

-----------------------------------------------------------------------------
(* A frame.                                                                *)

(* Steam_PostUpdate pumps GGPO also while the battle does not update.      *)
Idle(m) ==
  /\ Playing(m) /\ Together(m)
  /\ \E c \in Arrivals(m) : \E w \in Guesses(m, c) :
       /\ c > sim[m].conf
       /\ sim' = [sim EXCEPT ![m] = Poll(sim[m], c, w, Forked(m))]
  /\ UNCHANGED <<ctl, inbox, pending, verdict, faults>>

HoldForEver(m, s) ==   \* broken: no cap
  m \in Checkpointing /\ Flow(s.n) # "fight" /\ Depth(s) > 0

(* The round checkpoint.                                                   *)
Holds(m, s) ==
  m \in Checkpointing /\ Flow(s.n) # "fight" /\ Depth(s) > 0 /\ ctl[m].held < HOLD_CAP

HeldAfter(m, s) ==
  IF m \notin Checkpointing \/ Flow(s.n) = "fight" \/ Depth(s) <= 0 THEN 0
  ELSE IF ctl[m].held = HOLD_CAP THEN HOLD_CAP + 1 ELSE ctl[m].held

LeftIdle(m, s) == ctl[m].leftIdle \/ Flow(s.n) # "idle"

(* With bGgpoDuringIdle, as it is set: only the idle frames before the     *)
(* battle go round GGPO.                                                   *)
InTimeline(m, s) == LeftIdle(m, s)

(* The match is over when the flow says so, on this machine, now.          *)
ResultFirstOnly(m, s) ==   \* broken: the first result stands
  LET flow == Flow(s.n)
  IN  IF flow # ctl[m].lastFlow /\ flow = "over"
      THEN IF s.bad # None /\ s.bad < OverAt THEN "wrong" ELSE "right"
      ELSE verdict[m].result

OnMatchResult(m, s) ==
  LET flow == Flow(s.n)
  IN  IF flow # ctl[m].lastFlow /\ flow \in {"over", "result"}
      THEN IF s.bad # None /\ s.bad < OverAt THEN "wrong" ELSE "right"
      ELSE verdict[m].result

(* ggpo_add_local_input, ggpo_synchronize_input, the game's BattleUpdate,  *)
(* ggpo_advance_frame; or nothing, at the prediction limit.                *)
Frame(m, s, guessedWrong) ==
  IF ~InTimeline(m, s) THEN [s EXCEPT !.n = @ + 1]
  ELSE IF AheadOf(s) THEN s
  ELSE LET first == IF s.frame = 0 THEN SaveState(s) ELSE s
       IN  Advance([first EXCEPT !.wrong = IF guessedWrong /\ @ = None THEN s.frame ELSE @],
                   guessedWrong \/ Forked(m))

BattleUpdate(m) ==
  /\ Playing(m) /\ ctl[m].allowed /\ sim[m].n < LastFrame
  /\ \E c \in IF Together(m) THEN Arrivals(m) ELSE {sim[m].conf} : \E w \in Guesses(m, c) :
       LET s == Poll(sim[m], c, w, Forked(m))
       IN  \/ /\ Holds(m, s)
              /\ ctl' = [ctl EXCEPT ![m].held = @ + 1]
              /\ sim' = [sim EXCEPT ![m] = s]
              /\ UNCHANGED verdict
           \/ /\ ~Holds(m, s) /\ ctl[m].skip > 0
              /\ ctl' = [ctl EXCEPT ![m].held = HeldAfter(m, s), ![m].skip = @ - 1]
              /\ sim' = [sim EXCEPT ![m] = s]
              /\ UNCHANGED verdict
           \/ /\ ~Holds(m, s) /\ ctl[m].skip = 0
              /\ \E guessedWrong \in IF s.frame >= s.conf THEN BOOLEAN ELSE {FALSE} :
                   LET t == Frame(m, s, guessedWrong)
                   IN  /\ sim' = [sim EXCEPT ![m] = t]
                       /\ ctl' = [ctl EXCEPT ![m].held = HeldAfter(m, s),
                                             ![m].leftIdle = LeftIdle(m, s),
                                             ![m].lastFlow = Flow(t.n)]
                       /\ verdict' = [verdict EXCEPT ![m].result = OnMatchResult(m, t)]
  /\ UNCHANGED <<inbox, pending, faults>>

(* One machine computes something else from now on: another rounding mode, *)
(* a state that the save states do not hold.                               *)
Fork(m) ==
  /\ Playing(m) /\ ctl[m].allowed
  /\ TotalFaults < MaxFaults
  /\ faults' = [faults EXCEPT !.forked = @ \cup {<<m, ctl[m].match>>}]
  /\ UNCHANGED <<sim, ctl, inbox, pending, verdict>>

-----------------------------------------------------------------------------
(* SessionClient::Step: the snapshots.                                     *)

SettledDepth(s) == Max({SETTLED, Depth(s)})
Settled(snaps, m) == {f \in DOMAIN snaps : sim[m].n - f >= SettledDepth(sim[m])}

(* One machine while it steps: its snapshots, the other's that wait, what  *)
(* it sends, and what it has concluded.                                    *)
Stepping(m) == [snaps |-> sim[m].snaps, pending |-> pending[m], out |-> <<>>,
                abort |-> verdict[m].abort, reported |-> verdict[m].reported,
                seen |-> verdict[m].seen, leaving |-> ctl[m].leaving]

Drop(f, k) == Restrict(f, DOMAIN f \ {k})

AbortForDesync(t, m) == [t EXCEPT !.abort = TRUE, !.leaving = @ \/ ctl[m].at = "battle"]

(* Positions are left out.  Two machines that both went wrong did so each  *)
(* in its own way.                                                         *)
SnapshotGameplayDiffers(a, b) ==
  a.match # b.match \/ a.frame # b.frame \/ a.bad # b.bad \/ a.bad # None

(* HandleDesync                                                            *)
Compare(t, m, mine, theirs) ==
  IF ~SnapshotGameplayDiffers(mine, theirs) THEN t
  ELSE AbortForDesync([t EXCEPT !.out = IF t.reported THEN @ ELSE Append(@, [type |-> "desync"]),
                                !.reported = TRUE, !.seen = TRUE], m)

OnSnapshot(t, m, msg) ==
  IF msg.n \notin DOMAIN t.snaps
  THEN [t EXCEPT !.pending = With(@, msg.n, msg.state)]
  ELSE LET u == Compare(t, m, t.snaps[msg.n].state, msg.state)
       IN  IF t.snaps[msg.n].sent THEN [u EXCEPT !.snaps = Drop(@, msg.n)]
           ELSE [u EXCEPT !.snaps[msg.n].confirmed = TRUE]

Receive(t, m, msg) ==
  IF msg.type = "snapshot" THEN OnSnapshot(t, m, msg)
  ELSE IF t.abort THEN t ELSE AbortForDesync(t, m)

(* Every message that has come, in the order it came.                      *)
ReceiveAll(t, m, msgs) == FoldLeft(LAMBDA u, msg : Receive(u, m, msg), t, msgs)

ForgetSent(t, m, f) ==   \* broken: forgets a snapshot once it is sent
  [t EXCEPT !.out = Append(@, [type |-> "snapshot", n |-> f, state |-> t.snaps[f].state]),
            !.snaps = Drop(@, f)]

(* A snapshot that can no longer change is sent, and compared when the     *)
(* other's is here already.                                                *)
Reconcile(t, m, f) ==
  LET mine == t.snaps[f]
      u == IF mine.sent THEN t
           ELSE [t EXCEPT !.out = Append(@, [type |-> "snapshot", n |-> f, state |-> mine.state]),
                          !.snaps[f].sent = TRUE]
      v == IF mine.confirmed \/ f \notin DOMAIN t.pending THEN u
           ELSE [Compare(u, m, mine.state, t.pending[f]) EXCEPT !.snaps[f].confirmed = TRUE,
                                                                !.pending = Drop(@, f)]
  IN  IF v.snaps[f].confirmed THEN [v EXCEPT !.snaps = Drop(@, f)] ELSE v

(* In the order of the frames; what is not settled is passed over.         *)
ReconcileAll(t, m) ==
  LET settled == Settled(t.snaps, m)
  IN  FoldLeft(LAMBDA u, f : IF f \in settled THEN Reconcile(u, m, f) ELSE u,
               t, [i \in 1 .. LastFrame + 1 |-> i - 1])

Step(m) ==
  /\ ctl[m].at # "gone"
  /\ \E k \in 0 .. Len(inbox[m]) :
       LET t == ReceiveAll(Stepping(m), m, SubSeq(inbox[m], 1, k))
           v == ReconcileAll(t, m)
       IN  /\ sim' = [sim EXCEPT ![m].snaps = v.snaps]
           /\ pending' = [pending EXCEPT ![m] = v.pending]
           /\ verdict' = [verdict EXCEPT ![m].abort = v.abort, ![m].reported = v.reported,
                                         ![m].seen = v.seen]
           /\ ctl' = [ctl EXCEPT ![m].leaving = v.leaving]
           /\ inbox' = [inbox EXCEPT ![m] = SubSeq(@, k + 1, Len(@)),
                                     ![Peer(m)] = IF ctl[Peer(m)].at = "gone" THEN @ ELSE @ \o v.out]
  /\ UNCHANGED faults

-----------------------------------------------------------------------------
(* And back.                                                               *)

(* The game leaves the battle, asked to or at its end.                     *)
CloseBattle(m) ==
  /\ ctl[m].at = "battle" /\ (ctl[m].leaving \/ sim[m].n = LastFrame)
  /\ sim' = [sim EXCEPT ![m] = NoBattle]
  /\ ctl' = [ctl EXCEPT ![m] = [InMenu EXCEPT !.at = "closed", !.match = ctl[m].match]]
  /\ UNCHANGED <<inbox, pending, verdict, faults>>

(* Lobby::Draw takes the result and the flag, and the next match may come. *)
Draw(m) ==
  /\ ctl[m].at = "closed"
  /\ ctl' = [ctl EXCEPT ![m].at = "menu"]
  /\ verdict' = [verdict EXCEPT ![m].abort = FALSE, ![m].seen = FALSE, ![m].result = "none"]
  /\ UNCHANGED <<sim, inbox, pending, faults>>

(* The player closes the game.                                             *)
Quit(m) ==
  /\ ctl[m].at = "battle" /\ TotalFaults < MaxFaults
  /\ faults' = [faults EXCEPT !.quits = @ + 1]
  /\ sim' = [sim EXCEPT ![m] = NoBattle] /\ inbox' = [inbox EXCEPT ![m] = <<>>]
  /\ pending' = [pending EXCEPT ![m] = NoSnaps] /\ verdict' = [verdict EXCEPT ![m] = NoVerdict]
  /\ ctl' = [ctl EXCEPT ![m] = [InMenu EXCEPT !.at = "gone"]]

Next == \E m \in Machines :
  \/ StartGGPO(m) \/ StartFails(m) \/ Running(m) \/ Disconnected(m)
  \/ OnGgpoAssertFailed(m) \/ TimeSync(m)
  \/ Idle(m) \/ BattleUpdate(m) \/ Fork(m) \/ Step(m)
  \/ CloseBattle(m) \/ Draw(m) \/ Quit(m)

Spec == Init /\ [][Next]_vars

(* There is input of the other's to take in, a frame to play, a snapshot   *)
(* to send or to compare.                                                  *)
CanPoll(m) == Playing(m) /\ Together(m) /\ sim[m].conf < sim[Peer(m)].frame + Delay
CanUpdate(m) == /\ Playing(m) /\ ctl[m].allowed /\ sim[m].n < LastFrame
                /\ ~(InTimeline(m, sim[m]) /\ AheadOf(sim[m]))
CanStep(m) == /\ ctl[m].at # "gone"
              /\ \/ inbox[m] # <<>>
                 \/ \E f \in Settled(sim[m].snaps, m) :
                      ~sim[m].snaps[f].sent \/ f \in DOMAIN pending[m]

(* The game updates every frame, asks GGPO and steps its session every     *)
(* frame, and inputs are sent again until they arrive.  Nobody has to end  *)
(* a match.  The first three say of Idle, BattleUpdate and Step what they  *)
(* do, which asks no more than the steps' own weak fairness.               *)
Fairness == \A m \in Machines :
  /\ []<>~CanPoll(m) \/ []<><<sim'[m].conf # sim[m].conf>>_vars
  /\ []<>~CanUpdate(m) \/ []<><<sim'[m].n # sim[m].n \/ ctl'[m] # ctl[m]>>_vars
  /\ []<>~CanStep(m) \/ []<><<sim'[m].snaps # sim[m].snaps \/ Len(inbox'[m]) < Len(inbox[m])>>_vars
  /\ WF_vars(Running(m)) /\ WF_vars(Disconnected(m))
  /\ WF_vars(ctl[m].leaving /\ CloseBattle(m)) /\ WF_vars(Draw(m))

FairSpec == Spec /\ Fairness

-----------------------------------------------------------------------------
SnapState == [match : 1 .. MaxMatches, frame : 0 .. LastFrame,
              bad : {None} \cup 0 .. LastFrame, rootPos : BOOLEAN]

TypeOK == \A m \in Machines :
  /\ sim[m].n \in 0 .. LastFrame /\ sim[m].frame \in 0 .. LastFrame
  /\ sim[m].conf \in 0 .. LastFrame + Delay /\ sim[m].wrong \in {None} \cup 0 .. LastFrame
  /\ sim[m].pool \in [Slots -> [used : BOOLEAN, n : 0 .. LastFrame, bad : {None} \cup 0 .. LastFrame]]
  /\ sim[m].ring \in [Ring -> {NoSlot} \cup Slots]
  /\ \A f \in DOMAIN sim[m].snaps : sim[m].snaps[f] \in
       [state : SnapState, sent : BOOLEAN, confirmed : BOOLEAN]
  /\ ctl[m] \in [at : {"menu", "battle", "closed", "gone"}, match : 0 .. MaxMatches,
                 open : BOOLEAN, allowed : BOOLEAN, leaving : BOOLEAN, leftIdle : BOOLEAN,
                 skip : 0 .. MaxFaults, held : 0 .. HOLD_CAP + 1,
                 lastFlow : {"none", "idle", "fight", "over", "result"}]
  /\ verdict[m] \in [abort : BOOLEAN, reported : BOOLEAN, seen : BOOLEAN,
                     result : {"none", "right", "wrong"}]
  /\ \A f \in DOMAIN pending[m] : pending[m][f] \in SnapState

(* Two machines that compute the same never end a match for a desync,      *)
(* however wrong their guesses were and whenever the snapshots arrive: no  *)
(* snapshot is compared before it can no longer change, none with one of   *)
(* another match, round transitions are rolled back like the rest, and what *)
(* is only drawn otherwise does not count.                                 *)
NoFalseDesync == \A m \in Machines : verdict[m].seen => \E p \in Machines : <<p, ctl[m].match>> \in faults.forked

(* The save states never run out, and every state that GGPO can go back to *)
(* is in a slot of its own, as it was saved.                               *)
StatesKept == \A m \in Machines : LET s == sim[m] IN
  /\ ~s.lost
  /\ \A i, j \in Ring : s.ring[i] = s.ring[j] /\ i # j => s.ring[i] = NoSlot
  /\ \A i \in Ring : s.ring[i] # NoSlot => s.pool[s.ring[i]].used
  /\ (s.wrong # None /\ ~Forked(m)) =>
       LET slot == s.ring[s.wrong % (GGPO_MAX_PREDICTION_FRAMES + 2)]
       IN  slot # NoSlot /\ s.pool[slot].bad = None

(* The result that a match which was played to its end is left with is the *)
(* one of the inputs the players really gave.                              *)
ResultStands == \A m \in Machines :
  ctl[m].at = "battle" /\ sim[m].n = LastFrame /\ ~Forked(m) => verdict[m].result # "wrong"

(* A battle under way is played on or left: prediction limits, frame skips *)
(* and round checkpoints of two machines never hold each other for ever.   *)
MatchGoesOn == \A m \in Machines :
  (Playing(m) /\ ctl[m].allowed) ~> (sim[m].n = LastFrame \/ ctl[m].at # "battle")

(* A real fork ends the match for both, or for the one whose battle has    *)
(* begun, when a snapshot after it can still be compared.                  *)
ForkEndsBoth ==
  (\E m \in Machines : /\ Forked(m) /\ ctl[m].at = "battle"
                       /\ \E f \in sim[m].n + 1 .. LastFrame - SETTLED : f % SNAPSHOT_EVERY = 0)
    ~> \A p \in Machines : ctl[p].at # "battle" \/ ~ctl[p].allowed \/ \A f \in faults.forked : f[2] # ctl[p].match

(* Whoever sees two games fork tells the server, in every match.           *)
ForksReported == [][\A m \in Machines :
  (verdict'[m].seen /\ ~verdict[m].seen /\ ctl[Peer(m)].at # "gone")
    => \E i \in DOMAIN inbox'[Peer(m)] :
         i > Len(inbox[Peer(m)]) /\ inbox'[Peer(m)][i].type = "desync"]_vars
=============================================================================
