# sf4e netplay: specifications and proofs

sf4e adds online play to Ultra Street Fighter IV. It is a library loaded into
the game: it hosts or joins *sessions* (lobbies) over GameNetworkingSockets,
runs matches on GGPO rollback, and talks to a stand-alone lobby server that
matches people by code and relays their game traffic. This directory holds
TLA+ models of the parts of that program that make decisions, the TLC
configurations that check them, and proofs for TLAPS. File and line references
are to the repository's own tree.

    tlasany M.tla                               parse
    tlc -workers 2 -config X.cfg MCSessionServer    model-check (PROJECT.json, "runs")
    tlapm SessionServer_proofs.tla              check the proofs (likewise the other *_proofs)

## 1. Inventory

| Component | State it keeps | Operations | Talks to | Hard behaviour |
|---|---|---|---|---|
| Session server (`session/sf4e__SessionServer.cxx`) | accepted addresses, connections past HELLO, members in seat order, match data by seat, pick owners, ready requests, pairing flag, desync count, join secret, build hash, dirty flag | connection callbacks; `Step`: one handler per message, then seat repair, pairing, broadcasts; `ResetLobby`, `SetJoinSecret`, `SetSidecarHash`, `DisconnectAll`, `ResetBattleSync` | every session client; the lobby server or host process that owns it | seats move under data kept by seat; departures between two messages of one client; readiness across matches; load gate |
| Session protocol (`session/sf4e__SessionProtocol.*`) | none | match data, input delay rules, snapshot comparison, JSON | both sides | missing measurements, choices that are not clamped |
| Session client (`session/sf4e__SessionClient.cxx`) | last data update, own and remote snapshots, direct peer, session-synced, connection-lost and desync flags | join, ready, result, load and desync messages; snapshot reconciliation; direct play | server; the other player's `HolePunch` | reports arriving after the match, aborts, lost connection in a battle |
| Lobby screen (`sf4e/sf4e__Lobby.cxx`) | sent-ready flag, match-started flag, delay choice | READY, not ready, result report, leave | session client | decides its side from the last data update |
| Battle start gate (`sf4e__GameEvents.cxx`, `sf4e__UserApp.cxx`) | sent-loaded and synced flags | load report, wait, leave | client, server | a gate nobody evaluates again; flags of the last match |
| Matchmaker (`server/lobby_server.cxx`) | lobbies: code, secret, address, times | create, join, list, timeouts, reset | session server of each lobby, relay | reuse of a lobby, timeouts against joiners |
| Relay (`server/lobby_server.cxx`) | per lobby: player endpoints, spectator pipes | forward, learn endpoints, follow the seats | GGPO packets | stale endpoints, changing seats |
| Matchmaker client (`sf4e__Matchmaker.cxx`) | one request | send, retry, give up | matchmaker | lost and late answers |
| Hole punching (`session/sf4e__HolePunch.cxx`) | peer endpoint, nonces, deadlines, result | probe, answer, decide | the other player | two sides deciding differently |
| Rollback battle system (`sf4e__Game__Battle__System.cxx`) | GGPO session, pool of save states, abort flags | start, save, load, advance, free, end | GGPO | a slot reused while still referred to |
| Pacing (`sf4e__Pacing.hxx`, `sf4e__Platform.cxx`) | the debt of time, the hold after a stall; the shift under its lock; the frame period, under none | sample, ask for a shift, limit a frame, report | rollback loop, frame limiter, the game's settings | the limiter on another thread; sessions that end and settings that change meanwhile |
| Sounds under rollback (`sf4e__Game__Battle.cxx`) | the sounds of a stub and of a real manager, queued stops | play, stop, save, load, `SyncState` | game, rollback loop | starts and stops of an abandoned timeline; starts that the real manager refuses |
| Battle objects (`sf4e__Game__Battle__Hud.cxx`, `..__Chara.cxx`, `sf4e.cxx`, `sf4e__Platform.cxx`, `sf4e__Game.cxx`) | what a memento adds to the game's own: announcements and notices, sprite pool, tasks, a shadow's actor | record, restore, checksum | the save states | restores that undo each other or lose something; addresses that change |
| Port mapping, overlay, plumbing, bindings, launcher | | | | not modelled, see section 8 |

What makes each of them correct:

* **Session server.** What is kept by seat always belongs to the player sitting
  there; readiness is not lost to somebody else's coming or going; players stay
  in front of spectators; nobody shares a relay pipe; the two players use one
  input delay; every visible change is broadcast; pairs for direct play are
  exactly the two players; nobody of an earlier lobby is left in a reused one;
  a match is called only when both players can take the call.
* **Gate.** Both players enter the battle or neither does; the flags of one
  match never open the gate of another.
* **Matchmaker.** Whoever is in a lobby was meant for the lobby that is there
  now; a request ends; a lobby nobody is in comes back.
* **Relay.** A packet reaches the other player, or the spectator, of the same
  lobby and nobody else; two players who stay are connected, whatever their
  addresses were before.
* **Hole punching.** Nobody points the game at a peer who is not there.
* **Rollback.** Two machines that compute the same are never told they do not;
  two that do not are, both; the result is the one of the real inputs; a
  battle never stands still.
* **Save states.** A state GGPO may still load is never overwritten; the buffers
  of the game's heap have one owner each.

* **Pacing.** A debt is paid once, and by the session that has it.
* **Sounds.** What is heard is what the simulation plays, without a sound cut and
  restarted because frames were simulated again.

PROJECT.json lists the hazards, each at its line.

## 2. Modules

| Module | Models |
|---|---|
| `SessionProtocol` | the vocabulary both sides share: seats, match data, input delay rules |
| `SessionServer` | one session server with its clients as senders |
| `Rendezvous` | what a match start promises: an abstract barrier |
| `BattleGate` | the match cycle of two clients and their server over delayed connections; implements `Rendezvous` |
| `Matchmaking` | the lobby server's table and matchmaker port, each player's matchmaker client and lobby screens |
| `Relay` | a lobby's relay and a spectator's pipe, told by the session who may be there |
| `DirectPath` | direct play: offers, pairings, punches, keepalives, the decision at match start |
| `Rollback` | a match of two machines on GGPO, with its snapshots and fork detection |
| `Memento` | what a memento holds of the battle system or of a shadow, and what a restore makes of the object |
| `SaveStates` | the pool of save states and the memento buffers it shares with the game |
| `Pacing` | the debt of frame time, and the frame limiter that pays it |
| `Sound` | the stub and the real sound manager of a battle that is rolled back |
| `MC*` | values for TLC: builds, names, addresses, views, symmetry |
| `SessionServer_proofs`, `BattleGate_proofs`, `Matchmaking_proofs`, `Relay_proofs`, `DirectPath_proofs`, `Rollback_proofs`, `SaveStates_proofs`, `Tick_proofs` (`Pacing` and `Sound`) | lemmas and theorems for TLAPS |

`SessionServer` and `BattleGate` look at the same handlers from two sides.
`SessionServer` has all of them, any number of connections, and clients that
see every update at once; `BattleGate` has two players, only the messages of
the match cycle, and clients that act on what has reached them. The other
modules sit around these: `Matchmaking` brings players to a session server,
`Relay` follows its members, `DirectPath` has its pairing (`DirectOffer` in
`SessionServer`) with delays and the datagrams between the players, `Rollback`
is the battle that `BattleGate` lets both into, with the session's messages
relayed in order, `SaveStates` opens up the slots that `Rollback` counts, and
`Sound` and `Pacing` are what a rollback and its cost do to the ear and the clock.

### 2.1 How the model corresponds to the code

The server is single threaded. Its owner (`lobby_server.cxx` main loop, or
`fUserApp::Steam_PostUpdate` in a host's game) alternates connection callbacks
with `Step`. `Step` polls up to 200 messages, handles each, and then repairs
the seats, pairs the players and broadcasts. In the model each handler is an
action; `inStep` is set by the first message handled and reset by `FinishStep`,
so callbacks, `Assign`, `Release`, `Return` and `ResetBattleSync` (guarded by
`~inStep`) never fall inside a Step, while a message handled by one Step may be
the first of that Step or follow any other.

| Variable | Code |
|---|---|
| `accepted`, `cidMap`, `clients` | `_accepted`, `cidMap`, `clients` |
| `member` | the `SessionMember` (role, flags, relay slot, offered port) and, in its last three fields, the client's own place in the match cycle |
| `matchData`, `charaOwner`, `readyRequest` | `_matchData`, `_charaOwner`, `_readyRequest` |
| `directExchanged`, `desyncReports`, `joinSecret`, `sidecarHash`, `dataDirty` | the members of those names, with a leading underscore |
| `allReadyDue`, `syncedDue` | the locals of `Step` that make it broadcast |
| `told`, `peer` | the last data update and peer endpoint sent to each connection |
| `out` | the messages the last action sent |
| `readying` | clients between the first and the last message of `SendReady` |
| `spent`, `drawn` | handles and secrets already used (each is used once) |

`matchData.ready[s]` stands for `readyMessageNum[s]`. The code tells readiness
from a message number other than -1; the model puts the connection that sent
the message there instead of its number, which is what lets a property say
*whose* readiness a seat holds. The code never reads more of the number than
that.

A client is what `SessionServer` needs of it: the messages it may send next.
`phase` is "lobby" on the menu, "waiting" once READY was pressed
(`g_sentReady`), "loading" when ALLREADY was received, "fighting" after
BATTLE_LOADED, "reporting" when it came back believing it is P1 and owes a
result. Only clients that have been told of the lobby send (`Plays`); only
players ready up (the lobby screen offers READY to nobody else).

`SendReady` writes SETCHARA, SETENV, SETSTAGE and READY at once. With
`ReadyInOnePoll` TRUE a Step that saw the first sees the last (the messages of
one call arrive together and 200 fit in one poll); FALSE lets Steps fall
between them. Every run here uses TRUE.

Abstracted: names, addresses and hashes are values of three constant functions
of the connection; picks, stages and seeds are small numbers; a data update
carries the members' public fields and the match data; the relay's port is not
part of it. `ZeroChara` is the number 0 in the code and in the model: it is a
real character's id (Ryu) *and* what a cleared seat reads as, and the code's
tests cannot tell the two apart, so neither can the model's.

### 2.2 BattleGate and the code

| Variable | Code |
|---|---|
| `seats`, `ready`, `chara`, `loaded`, `dirty` | the players among `clients`, `readyMessageNum` and `chara` of `_matchData`, `MF_BATTLE_LOADED`, `_dataDirty` |
| `callDue`, `syncedDue` | `bSendLobbyAllReady`, `bSendBattleSynced` of `Step` |
| `up`, `down` | the reliable connection of each client, in both directions, in order |
| `scene` | the game's foreground event: main menu, called to versus mode (`OnReady`), loading, waiting in `HasInitialized`, the battle, on the way back, gone |
| `view` | `_lobbyData` and `_matchData` of the client |
| `sentReady`, `synced` | `g_sentReady`, `bSessionSynced` |
| `game` | what `_OnVsPreBattleTasksRegistered` and `_OnVsBattleTasksRegistered` read when they set the battle up |
| `running`, `loser` | `g_ggpoReachedRunning`; `g_resultWinner`, as the seat that lost |

`bSessionSentLoaded` is the step from "loading" to "gate". SETCHARA and READY
are one message here (`SessionServer` has them apart), as are the two data
updates of a Step that calls a match. GGPO is what the code uses of it: a
handshake once both have a session open, the same result in both games, and a
disconnect when the other side's packets stop; the game's battle ends with a
loser. `Host` is the player whose process holds the server, for
`fUserApp::server` in `ExitForeground`; `Nobody` is a lobby server.

`Rendezvous` is the promise: `Call`, `Arrive`, `Start`, `End` per player, with
`Start` only when everybody has arrived and `Call` only when nobody is still in
the last battle. The refinement maps each client's `scene` to its place there.
The guards the abstract steps have are nowhere in the concrete ones: they are
the work of flags, messages and their order.

### 2.3 Matchmaking and the code

| Variable | Code |
|---|---|
| `lobby` | `g_lobbies` of `lobby_server.cxx`, with the members of each one's session server; `entered` is remembered for a mutant only |
| `created` | numbers the secrets (128 random bits in the code) |
| `requests`, `replies` | datagrams under way; sets, since a repeated one is the same |
| `screen`, `serverStatus`, `pingInFlight` | `g_screen`, `g_serverStatus`, `g_pingInFlight` of the lobby screen; the home, code and browse screens, which poll nothing but a ping, are one |
| `mm` | `g_mm`: state, pending request, transmissions, the code of the last ok reply |
| `session` | `fUserApp::netplay`: the port and secret it was started with, and its `link`: connecting, asked to be let in, joined, closed by the server |
| `asked` | bounds |

`Send` is `Matchmaker::Send` with the first transmission of the `Poll` that
follows it in the same frame; the two times of the code (`RETRY_MS`,
`EMPTY_LOBBY_TIMEOUT_MS`) and the lobby's age are steps that may come at any
time. `Answer` takes whatever comes from the server for the answer, as `Poll`
does. The rate limit `AllowMatchmaker` shows as a loss. A lobby nobody has
takes no secret, which is how `RegisterToWait` turns late joiners away.

Getting in takes the steps it takes: `ConnectFromMatchmaker`, `JoinRequest` (the
connection is accepted and the hello answered), then `RegisterToWait` or
`OnJoinFailed`. Each of them may come after the lobby in that place has been
released, reset or given to somebody else; a reset or a release
(`HandleCreate`, `ResetLobby`) closes the connections of its lobby
(`DisconnectAll`), and only `NoticeGone` or the client's own next step finds out. A
request to be let in that was sent before LEAVE LOBBY may still be granted.

### 2.4 Relay and the code

`playing` and `watching` are the session's members; `Tell` is what a round of the
main loop does with them (`SetPlayers`, `SetAllowed`). `players` and `eps` are the
`Relay`'s seats (by IP) and slots, `allowed` and `ends` those of a `Pipe`. An
address is a client and the number of its current port; its IP is the
client's. A join, a departure, a result and the round after it are one step;
only a `Release`, which comes between two rounds, leaves the relay with the
members of before. `Arrive` is a packet sent and received at once, `Send` and
`Receive` one that is under way while other things happen. Times are steps
that may come once an address is silent, or, counted as a fault, while it is
not. Counters and logging are left out, and so is the host's own loopback.

### 2.5 DirectPath and the code

`armed`, `attempts`, `token`, `proven` are `_directEnabled`, `_directAttempts`,
`_directToken` and `_punchProven` of `SessionClient`; `punch` is the punch that
blocks the client (`gotAck`, `ackedPeer` of `HolePunch::Punch`); `path` is what
`TryDirectPath` returned; `used` remembers the token it was proven with.
`offering`, `offered`, `lastToken` are the server's side (`SessionServer` has it in
full); `inbox` is the reliable connection to each client. A punch ends at any
time, with whatever it has seen. `Marking` is `matchStart`: the probes of the
punch at match start carry a mark, and only an answered marked one shows that
the other is there too. A datagram names pairing and receiver; the address it
goes to is the peer's. `Arm` is `EnableDirect` with its three ways to fail: the port
GGPO still has (`Open`), the matchmaker and then the relay asked for one's own
address (`Discover`, `QueryMapping`, with any of the `Answers`), the offer that
cannot be sent. `PumpDirect` is what both lobby screens do while there is a path
to keep. `EndMatch` keeps no datagram of the lobby under way
through a whole match.

### 2.6 Rollback and the code

The battle is the number of frames simulated (`n`) and the first of them that
had a wrong input (`bad`): two machines have the same state exactly when both
agree. `frame`, `conf`, `wrong` and `ring` are GGPO's: its current frame, the
inputs it has, the first guess that is wrong, the saved frames; `pool` is
`saveStates`, `snaps` `snapshotMap`. `Poll` is what GGPO does when inputs come in:
load the frame of the first wrong guess and simulate again through
`ggpo_advance_frame_callback`, which saves and takes snapshots as the code
does. `BattleUpdate` is the detour of that name: round checkpoint (`Holds`,
`held`, `HOLD_CAP`), frame skips (`skip`), idle frames before the battle
(`leftIdle`), the prediction limit (`AheadOf`), and the match result. `Step` is the
snapshot part of `SessionClient::Step`: any number of the messages that have
arrived, then every snapshot that can no longer change. `Fork` stands for what
makes real machines differ (another floating point mode, a state the save
states miss). `Drifting` machines compute the same and draw otherwise: what
`BuildSnapshot` records has their positions, and `SnapshotGameplayDiffers` leaves
them out. `OnGgpoAssertFailed` asks the battle to leave; the flag it sets besides,
`bGgpoAssertAbort`, is "Read by the lobby" according to its comment, but nothing
in the repository reads it. `Disconnected` needs a battle that was let begin
(`allowed`, set by `Running`): who has not got there when the other vanishes has nobody
to be disconnected from and keeps the black screen of `System.cxx:1436-1442`, and
`ForkEndsBoth` excepts him.

### 2.7 SaveStates and the code

`mem` is one record, because a callback changes most of it at once: the game's
objects (`alive`, `state`), their memento keys (`live`), the detour's
`trackedKeys`, the game's heap and what its buffers hold, the slots (`keys` and
the buffer of each), what every slot was saved from (`saved`, for the
properties) and whether a slot was used after its objects were gone (`stray`).
`ring` and `head` are what GGPO holds. The objects and the heap are the game's
and appear as the comments of the code describe them: recording initializes a
key, which releases what it had; `ClearKey` releases too. Two assumptions come
from there: objects die only when the game closes the battle, and a buffer
that cannot be had leaves the key empty. `FreeAll` is the sweep over the pool.
The battle's flow (`Globals`) belongs to no key: a slot copies it (`d`) and a load
writes it back.

`sync` is the sync test: its distance, the frames simulated and those verified,
the inputs since, a record (checksum and game state) of every frame it may meet
again, and its two counts of mismatches; `losses` and `crossed` are for the
properties. `SyncTestFrame` is a frame of it with the
replay that is due, from the last verified frame. `IdempotenceCheck` makes the
round trips of `RunIdempotenceCheck` one after the other, on slots that are
unused, and gives them back. One object and the flow are enough for both: what
they compare is compared key by key.

A load is not exact, and the code says where. The model has both places:

* *Cosmetic bytes.* "the actor's cosmetic bytes drift on every single rollback",
  and "checksum noise is expected, gameplay is the verdict"
  (`System.cxx:1079-1091`); the actor's restore is not lossless (`2022-2031`), which
  shows as 128 words of every round trip of which the code asks whether "the lossy
  words are not gameplay state" (`2822-2856`). A shadow has `cosmetic` bytes, other
  ones after every restore (`Drifted`). They are in the checksum, so the sync test's
  raw count (`mismatches`) goes up with nearly every replay, and no property says it does
  not. That nothing else of an actor is lost is what the model assumes of the game.
* *The reset of the round.* "The round reset [...] is not rollback-safe. When a
  rollback spans it, [...] the restore produces a mixture of the two", and the sync
  test found a divergence of gameplay there (`675-685`). A load `Crosses` one when the
  flow has moved since the save; then any of the objects may stay what the
  abandoned path has made of them (`Mixed`, `kept`), and a sync test that did so
  (`crossed`) may count divergences. The code keeps netplay from it by the round
  checkpoint, which is in `Rollback`.

The overlay's save and load (`ExtendedSave`, `ExtendedLoad`) take slot 0 in any battle,
GGPO's or not, as `System.cxx:1199-1212` does. Only in a sync test they are left out:
it has an input for every frame, and a state that comes from elsewhere is none.

What a buffer holds is in `Memento`, operators only. An object is a record: the
battle system (`announce` and `notice` with their queues and controls, the sprite
`pool`, the `tasks` and the units' `handles` on them, the sprites of the `cockpit`)
or a fighter's shadow (its `actor`, the `poses` last drawn); both have fields of
their own (`own`), which the game copies as they are, and addresses (`links`), which a
restore puts elsewhere. One control stands for each screen and one list of `boxes`
for the actor's, because every control and every list is treated alike. `Announce`
and `Notice` differ as the code has them: the one switches what has changed, the
other everything. `last` is `bRestoreGfxLast`: whether the sprite pool is restored after
all units or with the system, before the cockpit stages its sprites. That staging,
what `Enable` does to a sprite and where the heap puts things are the game's, and
appear as the comments of `Hud.cxx` and `System.cxx` describe them. `Normalized` is
what the checksum makes of addresses; that two different memories hash to the same
number is left out. `Seen` is for the properties: what a player and the simulation
make of an object. `System`, `Shadow` and `Alike` are for the theorems: what a value is
and what two systems of one battle share.

### 2.8 Pacing and the code

`pacer` is the `Controller` (`outstandingMs`, `holdRemaining`), `shift` the
`s_shift` that the tick and the limiter share under its lock, `limiter` where
`LimitFrame` is and its locals, `period` what the game's limiter reads and
`setting` what the game's settings last wrote. `StepPacing` takes its three
sections under the lock as one step: the limiter's steps in between change
what the tick does not read. The period has no lock, and every read and every
write of it is a step of its own: `ReadPeriod` (`Platform.cxx:103`) and `WritePeriod`
(`119`) with the query of the clock between them, the comparison in `EndFrame` (`122`) and
`RestorePeriod` (`123`). `crossed` notes a change of the settings that fell into one of
the two gaps. `twoThreads` says whether the limiter runs beside
the tick or in turn with it. `drift` is what a sample adds to the debt: the
running average is left out, so any sequence of samples is a sequence of
drifts. The first frame, which has
no previous one to measure from, is one that came in time.

### 2.9 Sound and the code

`stub` and `real` are the entries of `adapterToCurrentSound` for the adapters of
the two managers, `queuedStops` the stub's queue, `saved` the stub's entries in
the save states GGPO has (`criPlayerState`). `fresh` marks the players the last
`SyncState` started, for `PlaysOn`. What can be asked for is a cue: sheet, index,
type, flags and position together. The game's own manager is external: it uses
a free player, may interrupt any with some requests, and refuses otherwise,
upon which the detour stops the oldest. The real manager may also refuse a start that
`SyncState` asks of it, because its handle of the cue sheet is stale
(`Game__Battle.cxx:398-416`): `stale` are the requests it refuses this time, any
of them. Before it gives up, the manager's own detour has stopped its oldest sound
to make room (`Refused`), which may be one that another stub sound has claimed.
The second half of that branch, an adapter out of range, is left out: the same detour
asserts that an adapter it returns is in range. `begun` are the sounds of this timeline
and `skipped` whether the last `SyncState` had to skip one, for the properties.
`Load` is a rollback from
`ggpo_advance_frame` (at "advanced", once) or `ggpo_idle` (at "idle", any number
of times, also twice without a `SyncState` between: a stalled tick has none). A
sound ends when the game stops it (`IsStillPlaying` answers from the entry).

### 2.10 What is left out of SessionServer, and why

* `AddConnection`, the host's own loopback connection: once added it is an
  accepted connection as any other.
* `SetPublic`, `SetRelayPort`, `_matchStartMs`: nothing modelled reads them.
* Messages that do not parse or name a value out of range: dropped before any
  state is touched.
* A spectator sending player messages: the server accepts a pick only by seat
  and role, and no client offers those controls to a spectator.
* Messages in flight. A client's message is handled in the order sent; its
  delay shows as other actions happening first. Updates *to* a client are taken
  as received when sent; `BattleGate` delays them.

## 3. Runs

Each run uses the `MC` module of its specification. Deadlock is checked in
`save_states`, `pacing` and `sound`: elsewhere players leave for good, handles, secrets, faults
and matches are bounded, and what is left may stop.

| Run | Instance | Properties | Shows |
|---|---|---|---|
| `session_host` | a host's process, 3 connections, 3 picks with character 0 among them, no spectators | `SeatsDescribeTheirPlayers`, `ReadinessSurvives` | what is kept by seat follows its player through joins, departures and rotations |
| `session_seats` | lobby server, 4 connections, two of one name, 3 users, 2 spectators on 2 pipes | `Seating` | two players and a spectator at once: caps, order, pipes, rotation with a spectator behind |
| `session_lobby` | lobby server, 2 secrets, 3 connections of two names, 2 users, direct play everywhere, 1 desync report | `TypeOK`, `DelayAgreed`, `SameLobby`, `DirectPairing`, `MembersUpToDate` | a lobby handed out twice shares nobody; pairs remade, one delay, everyone up to date |
| `gate_host` | one player hosts, 2 picks, 2 messages under way, the guest may vanish, fairness | `TypeOK`, `SameGame`, `Meets`, `CallsEnd` | battles are entered and left together, from the same picks, and end |
| `matchmaking` | 2 players behind one IP, 2 places, 1 lobby per IP, 2 transmissions, 2 creates of one player and 1 join of the other, fairness | `SameTenure`, `WaitingEnds`, `LobbiesReturn` | nobody gets into a lobby he was not meant for; waiting ends; lobbies come back |
| `relay` | 3 players, two behind one IP, 1 spectator, 5 changes of members, 1 fault, 1 packet under way, fairness | `TypeOK`, `SlotsApart`, `StaysInside`, `PlayersMeet`, `SpectatorFed` | packets stay inside the lobby; who stays is connected |
| `direct_path` | 2 matches, 4 attempts, 1 failed query, 1 datagram under way, fairness | `DirectMet`, `OnePairing`, `Repaired` | direct play only with a peer who is there; pairs remade after every match |
| `rollback` | 2 matches of 5 frames, prediction limit 2, delay 1, snapshots every 2, both checkpointing, one drawing otherwise, 1 fault, fairness | `TypeOK`, `NoFalseDesync`, `StatesKept`, `ResultStands`, `MatchGoesOn`, `ForkEndsBoth` | forks are found by both and never invented; no state lost; no standstill |
| `save_states` | an object and the flow, 2 values each, 5 buffers, prediction limit 2 (4 slots), 6 frames of a sync test | `OneOwner`, `WhatWasSaved`, `NoStrays`, `RingHeld`, `NoFalseMismatch` | buffers have one owner; what was saved stays; the sync test and the idempotence check invent nothing beyond cosmetic bytes |
| `save_loads` | the same with a prediction limit of 1 (3 slots) and 3 frames of a sync test | `LoadBringsBack` | loads bring back what was saved |
| `pacing` | one thread or two, 2 sessions, a limit of 8 or none, frames that take 2 or 9, fairness | `OwnShifts`, `NoOvershoot`, `PeriodKept`, `DebtPaid` | no session pays for another, no debt twice; the settings' period comes back; level machines come to rest |
| `sound` | 2 players, 2 cues of which one interrupts, 3 frames, up to 2 back, 1 request and 1 stop a frame, any request refused at any `SyncState` | `Mirrored`, `PlaysOn` | what is heard is what the simulation plays, without restarts |
| `gate_lobby` | a lobby server, nobody vanishes | `Meets` violated | finding 1 |
| `rollback_report` | 2 matches of 5 frames, 2 faults | `ForksReported` violated | finding 2 |
| `session_ryu` | a host's process, 3 connections, character 0 | `ShownReadyHasReadied` violated | finding 3 |
| `sound_stops` | the instance of `sound` | `StopsHeard` violated | finding 4 |

**Bounds.** *Sessions.* A third client of `session_host` is refused while both seats are
taken (`RegisterToWait`) and takes a seat that has become free: three connections are
the smallest number where a seat passes to somebody new and a rotation has two
players to swap. Three picks are character 0 and two that can be told
apart. `session_seats` has two players and a spectator in the lobby at once and a
fourth client to be refused or let in: three users are where neither the cap of
players nor that of spectators is met by the cap of users alone, a rotation has a
spectator behind it, and two of three entries may be spectators, each with a pipe
of its own. Handles are used once (`spent`),
so a run ends after its clients have come and gone; a client that rejoins is
a new handle. Two secrets are two lobbies on one server, the least that can
mix; its lobbies hold two users, since its properties are about who is in which
lobby and in which pair, and each of its three clients may be a player or a spectator.
One desync report reaches the cap of `session_lobby`. One build: that a wrong one is turned away is `LobbyCorrect`. *Gates.*
The number of matches is not bounded. `MaxInFlight` = 2 lets a client's result
and its next READY be under way together, and a broadcast follow one that has
not been read; `MaxQuits` = 1 is the one opponent. `Patient` = TRUE: a player
presses READY or BACK only when the lobby shows its last press (a round trip);
see section 5 for what the others do. *Matchmaking.* Two lobbies given out in
two places are what a late answer can confuse; one lobby per IP, with both
players behind it, makes every create meet the cap and the release of empty
lobbies; two transmissions are a request and its repetition. *Relay.* Five
changes are both players and the spectator in, and two seats changing hands
again; one fault is a rebound, a stray packet or a silence too many. One packet
under way beside those that arrive at once is enough for a stale packet to
meet every later state of the relay, as packets do not interact. *DirectPath.*
Two matches are one after a match, with all that is left of it; safety was
also checked with two datagrams under way (too large to keep). *Rollback.* The
frame counts are small and keep the code's proportions: `NUM_SAVE_STATES` is
the prediction limit and two, `SETTLED` at least the furthest two machines can
be apart over a round trip (2 P + delay - 2; the code's 60 is far above it),
and the idle frames include one inside the match (between rounds).
Input delay is at least 1, as `StartGGPO` makes it: with 0, two machines that
both checkpoint hold each other. *SaveStates.* Five buffers are one more
than four slots can hold, so that the live key has one; a prediction limit of 2
makes replays of two frames, and six frames of a sync test are two or three
replays, which go round the ring and once past the frames that are forgotten. What a
load brings back is said of one load, so `save_loads` has a shorter ring.
Of the battle system there are two states, with nothing on screen and with an
announcement, a combo and a second task; of a shadow two, with different actors
and sizes; of the flow two. Every load of one over the other is among them.
Keys never meet in a buffer, so one of them shows what each does. *Pacing.* A step of at
most 2 and a least shift of 1 are the code's 3 ms and 1 ms; a load of 9 is
beyond the period, one of 2 leaves room for a whole shift; two sessions are a
shift that outlives its own. *Sound.* Two players are full after two requests,
so that the next interrupts or is refused; three frames with two to go back are
a start, a stop and a retrigger that are all simulated again.

**View and symmetry.** `StateView` leaves out `out`, which no guard reads and no
property of the runs that use the view mentions; `SeatView`, of the runs without
`MembersUpToDate`, keeps of the last update only who is a member, the one thing of it
that a guard reads. `View` of `MCSound` leaves out `fresh`, `skipped` and `begun`: the first
two only the step that sets them is asked about, and `begun` only `StopsHeard` reads, whose
run has no view. Connections are interchangeable in `SessionHost` and `SessionRyu` (own
names, one build, one address, equal requests), two that have names of their own in
`SessionSeats`, secrets in `SessionLobby`, objects and values of the flow in `SaveStates` and
`SaveLoads`, whose view (`BuffersAside`) also leaves aside which buffer it is that holds
something, cosmetic bytes and the count of mismatches they cause, what a sync test has
found once it went back across a reset, and what `Seen` leaves out of an object, which
nothing but the next restore looks at; no run with symmetry checks liveness.

**Fairness.** The `session` runs, `save_states`, `save_loads` and the `sound` runs assume none. *`gate_host`*
assumes that what happens by itself happens: `Steam_PostUpdate` polls the
connections and runs both Steps every frame, and the game polls
`HasInitialized` and its events every frame, so each of these actions has weak
fairness. A Step, a closed connection and the host's own game take turns on one
thread: `Close` and `LeaveBattle`, which the model keeps out of a Step, have
strong fairness, so that a stream of Steps does not starve them. A battle ends
because rounds are timed. Nobody has to press READY. *`matchmaking`*: the
screens poll every frame (`Repeat`, `GiveUp`), the server goes round its
lobbies and connections every two milliseconds (`EmptyTimeout`, `NoticeGone`);
every datagram may be lost. *`relay`*: the main loop's round, the timeouts of
addresses nobody sends from any more, and packets of players and spectators
who stay: a game sends every frame, and not all of it is lost for ever.
*`direct_path`*: frames and the server's loop (`Arm`, `Pair`, `TakePeer`) and the
deadline of a punch (`Finish`); no datagram need arrive. *`rollback`*: the game
updates, asks GGPO and steps its session every frame, and GGPO sends inputs
again until they arrive; the handshake and the disconnect timeout happen; a
battle asked to end ends. Nobody has to end a match. *`pacing`*: every frame has
a tick and a call of the limiter, so each of the limiter's steps has weak fairness;
`StepPacing` has strong fairness, since on one thread it is enabled in turns.

## 4. Properties

* `Seating`: members are distinct live connections with distinct names, players
  first, at most two of them, no shared relay pipe.
* `SeatsDescribeTheirPlayers`: between Steps, a seat's pick is the last one the
  player sitting there sent, its ready flag that player's own.
* `ReadinessSurvives`: a ready player that keeps its seat stays ready through
  every step that is not its own or a result's.
* `DelayAgreed`: both seats ready implies one delay in 1..8 for both.
* `MembersUpToDate`: between Steps every member was sent exactly what the server
  holds: no change escaped the dirty flag.
* `DirectPairing`: opted-in players hold each other's endpoint, spectators none.
* `SameLobby`: every member joined with the secret and build of this lobby.
* `Meets` (refinement of `Rendezvous`): nobody is in a battle before both have
  loaded it, nobody is called to the next while the other is in this one.
* `SameGame`: two players who load or play a match have it with the same seats
  and picks.
* `CallsEnd`: whoever is called to a match comes back to the menu, unless a
  player vanishes.
* `SameTenure`: whoever believes to be in a lobby is among its members and was
  given the secret of the lobby that is in this place now; a place with members
  is handed out.
* `WaitingEnds`: nobody is left looking at "Contacting the server".
* `LobbiesReturn`: a lobby without players comes back to the pool.
* `SlotsApart`: the relay's two slots are two addresses, each of its seat's IP.
* `StaysInside`: what arrives at the server's doors is sent on only to the IP of
  somebody who is in the lobby now, and never back to its sender.
* `PlayersMeet`, `SpectatorFed`: once the members and ports stay as they are, the
  relay comes to connect exactly the two players, and the pipe the first player
  and the spectator, and they stay so.
* `DirectMet`: a client that points GGPO at its peer has a peer that came to
  `TryDirectPath` for this match, armed, with the same pairing.
* `OnePairing`: two armed clients without news under way hold the same pairing.
* `Repaired`: two players who stay in the lobby both get armed again and paired
  anew, also after a match.
* `NoFalseDesync`: a desync is seen only in a match in which a machine forked.
* `ForkEndsBoth`: a fork early enough to be compared ends the match for both.
* `StatesKept`: the pool never runs out; every frame GGPO can go back to is in a
  slot of its own, as it was before the wrong guess.
* `ResultStands`: a match played to its end leaves the result of the real inputs.
* `MatchGoesOn`: a battle under way is played on or left.
* `OneOwner`: every buffer of the heap has exactly one owner, the live key or one
  slot.
* `WhatWasSaved`: a slot's buffers hold what the objects were when it was saved.
* `NoStrays`: a slot is loaded or freed only while its objects exist.
* `RingHeld`: what GGPO holds is in slots in use, each in its own.
* `NoFalseMismatch`: with the same inputs the sync test finds no mismatch, and the
  idempotence check no difference; the latter leaves battle and save states as
  they were.
* `LoadBringsBack`: a load restores every object of the slot, on screen as in the
  simulation, with every unit's hold on its task, and leaves the game's own
  mementos as they were.

* `OwnShifts`: a session that has asked for no shift is charged for none.
* `NoOvershoot`: on one thread, what the limiter applied and the tick has not yet
  taken off is a part of the debt.
* `PeriodKept`: outside a shifted frame the limiter's period is that of the
  settings (by theorem).
* `DebtPaid`: if from some time on the machines run level and the game keeps up,
  the debt comes to stay below the least shift.
* `Mirrored`: after `SyncState` the real manager plays each sound of the stub's
  exactly as often as the stub.
* `PlaysOn`: a sound that is heard and that the simulation still plays is not
  stopped and started again by `SyncState`.

Each property of a passing run has a mutant in PROJECT.json: a definition of
the model changed the way a plausible bug would change the code, under which
TLC finds the property violated.

## 5. Where the code and its comments part

Two runs show it:

1. **A rematch on a lobby server** (`gate_lobby`). `ResetBattleSync` has one
   caller at the end of a battle (`sf4e__GameEvents.cxx:278`), in a process with
   a server. On a lobby server the load flags survive the match and the first
   player to load the rematch is let in alone. GGPO's handshake still holds the
   first frame back until both have a session; the gate itself is open.
2. **One report per session** (`rollback_report`). `_desyncReported` is set in
   `ReportDesync` and never reset, though the comments say once per match
   (`sf4e__SessionClient.cxx:86`, `sf4e__SessionClient.hxx:88`). In a later match
   that forks, the client that compares first ends its own match and tells
   nobody; the other one learns of it from GGPO's timeout, if it has not
   compared the snapshots itself.
Others came up while modelling and have no run of their own:

* `Matchmaker::Poll` (`sf4e__Matchmaker.cxx:177`) takes any ok reply for the answer
  to the pending request. The answer to the ping of the home screen that comes
  after CREATE was pressed ends the create with an empty code and port 0, where
  `sf4e__Matchmaker.hxx:25` says "Filled in on Done."; `Matchmaking` has it.
* `SaveState::Load` clears the queued stops because "Re-simulation queues again
  whatever survives" (`sf4e__Game__Battle__System.cxx:2106`). Two rollbacks
  without a `SyncState` between, the second to a frame after the stop, lose it:
  what was stopped and started anew plays on from its earlier start. `Mirrored`
  and `PlaysOn` hold all the same.
* `docs/index.html:200` has sounds reconciled on confirmed frames; the code does
  so every frame.
* With the limiter on a thread of its own, a tick may ask for a shift while the
  frame of the last one is still under way: the same debt is paid twice, and
  turned round by the next samples (`NoOvershoot` is about one thread).
* `DropCharaFromVacatedSeats` (`sf4e__SessionServer.cxx:173-176`) skips a seat
  whose `charaID` is 0, so a ready player who picked Ryu and leaves keeps the
  seat ready for whoever sits there next (`SeatsDescribeTheirPlayers` fails when
  0 is among `Charas`).
* READY starts the match when both flags are set (`:624-631`); only a result
  clears them after a match (`:1059`). A second player who is back first
  readies against the first player's old flag; `sf4e__Lobby.cxx:1454` leaves the
  race to the players' reaction time.
* A second player who is ready when the first leaves moves to seat 0; its pick
  and flag belong to seat 1's owner and are dropped, while its client goes on
  waiting. `:832` says that dropping it "costs nothing".
* `MySide()` is asked back on the menu, of the last data update
  (`sf4e__Lobby.cxx:1466`). If P1 lost and is back first, the rotated seats reach
  the other player before it is back, and it reports too, which `:1463` says
  must not happen.
* The gate is evaluated when a BATTLE_LOADED arrives and never when a player
  leaves; the watchdog that `sf4e__Game__Battle__System.cxx:1438` arms for every
  match runs in soak tests only (`:650`).
* With `Patient` FALSE, READY, BACK and READY with another pick within one round
  trip break `SameGame`: SETCHARA is taken after the call too.
* The relay compares seats by IP: one that passes between two players behind one
  IP keeps its old address until the timeout, though `lobby_server.cxx:125` says
  a seat change drops its slot.
* A create releases every empty lobby of its IP, also one whose creator has not
  yet got there; `lobby_server.cxx:530` has those in mind that were left.
* The two sides of a punch can differ when only the last answer is lost; one
  then plays direct and the other by relay.
* The client does not discard its peer and token after a match, though
  `sf4e__SessionServer.cxx:510` says so; an armed client that is not yet paired
  again spends its match-start punch on the old token.
* A desync report that arrives after its match sets `bDesyncAbort` for the next
  return to the lobby.

## 6. Proofs

`SessionServer_proofs` proves, for every value of the constants that satisfies
`ServerAssumption` (any number of connections, secrets, characters; any limits
with at least two users):

* `TypeCorrect`: `Spec => []TypeOK`. `TypeOK` is inductive as it stands. One
  step per action; the steps that are not a matter of expanding definitions are
  the sequence operations (`RemoveAtProperties`, `InsertAtProperties`), the
  choice of a relay slot (`LowestFreeSlotIsFree`, on `LeastNatural`), and the
  range of the shared delay (`SharedInputDelayRange`).
* `DelayCorrect`: `Spec => []DelayAgreed`. Inductive together with `TypeOK`:
  the READY that makes both seats ready writes both delays, and every other
  action leaves them or unreadies a seat. It covers all integer choices and
  measurements, where the run has two requests.
* `ToldCorrect`: `Spec => []MembersUpToDate`. `MembersUpToDate` says nothing
  during a Step, so it is strengthened to `CleanIsTold` (whenever the dirty flag
  is down, every member was told what the server holds), which is inductive:
  every action either raises the flag or leaves alone what a data update
  carries.
* `LobbyCorrect`: `Spec => []SameLobby`. A departure keeps it only if nobody is
  in the lobby twice (the entry left behind would have its secret wiped), so it
  is strengthened to `OneLobby`: the
  names of the entries differ, and `SameLobby`. Every departure removes an entry
  (`RemovedIsOut`), every arrival passed the tests of `RegisterToWait` and is
  inserted once (`InsertedIsNew`), a rotation does both, and no action changes a
  secret (`SecretsKept`).

* `SeatsCorrect`: `Spec => []Seating`. The tests of `RegisterToWait` count the
  members of each role before letting one in; what has to be shown is that
  counting a prefix is counting the players (`SeatsHeld`: players come first, so
  the player who is inserted lands right behind them and the spectator at the
  end), and that a departure and a rotation, which move entries, keep the order.
  The relay pipe given out is the least that is free (`LowestFreeSlotIsFree`).
* `DirectCorrect`: `Spec => []DirectPairing`. During a Step the pairing flag may
  be behind the seats; `Pairing` says of every moment that whoever holds an
  endpoint holds that of the one across, that the flag is up only while both
  players are the ones who were paired, and that whatever separates them (a
  departure, a rotation, a new join) takes flag and endpoints down before the
  Step ends.
* `PicksCorrect`: `Spec => []SeatsDescribeTheirPlayers`, and `ReadinessCorrect`:
  `Spec => ReadinessSurvives`. Between a change of seats and the repair at the end
  of the Step the data kept by seat belong to whoever `charaOwner` names and not
  to who sits there: `SeatedAs` relates owners, seats and picks in the middle of a
  Step, and `Readiness` says that a ready flag is its owner's own and that a client
  who is between the messages of `SendReady` has its pick where its READY will
  look for it. Both assume `ReadyInOnePoll`: a pick and a READY that fall into two
  polls are a hazard of the code that nothing there covers. `PicksCorrect`
  assumes besides that nobody picks character 0: a seat whose pick is 0 (Ryu)
  reads as an empty one, keeps its flag when its player leaves, and the property
  is false (section 5).

`BattleGate_proofs`, under `GateAssumption` (any finite set of clients, of which a
match takes the first two; any number of picks, of messages under way and of
departures):

* `TypeCorrect`: `Spec => []TypeOK`.
* `SameGameCorrect` (`Spec => []SameGame`) and `MeetsCorrect` (`Spec => Meets`), from one
  inductive invariant, `Inv`. What makes a match cycle safe is the order of the
  messages under way, so most of `Inv` is about the two streams of each client.
  What a client has been or will be told of its own readiness is read off its
  view and the updates on their way (`Told`): it is set at most once and then
  stays clear until the client is called (`SetOnce`, `StaysClear`, `NeverSet`); what
  it has sent comes in the order of the cycle (`Uplink`); a call is on its way or
  taken while the server's flags say so (`Calls`, `Flags`). `Alone` is that for one
  client. `Starting` says that from the call on the match data are those of the
  match. `Joint` relates the two: one who is called and has not yet been told
  that both have loaded (`Early`) has an opponent who is too, with all flags set;
  a BATTLE_SYNCED under way means that both have loaded this match and neither
  has been through it.
  `MeetsCorrect` is the refinement of `Rendezvous` step by step: taking a call is
  `Call`, the end of loading `Arrive`, passing the gate `Start`, the way back from the
  battle `End`, quitting `Leave`, and everything else leaves the abstract places
  alone.
  Both assume `Host \in Clients` and `Patient`. Without a host the load flags
  survive the match and `Meets` is false (section 5, finding 1); with players who
  press READY, BACK and READY within a round trip `SameGame` is (section 5).

`Matchmaking_proofs`, under `MatchmakingAssumption` (any players, places, caps and
bounds; codes are used again):

* `TenureCorrect` (`Spec => []SameTenure`). Inductive together with types and
  `Tenures`: two lobbies handed out never have one secret, no secret is higher
  than the number of lobbies handed out, and a place nobody has is the
  `FreeLobby`, which admits nobody. It does not depend on what is under way: an
  answer that is late, doubled or somebody else's carries a secret that is
  compared at the door, and a place that changes hands turns out everyone who
  was in it or before it (`DisconnectAllProperties`).

`Relay_proofs`, under `RelayAssumption` (any number of players; spectators have a
pipe each, so at most one here; any bounds):

* `TypeCorrect`, `SlotsCorrect` (`SlotsApart`) from one inductive invariant: `TypeOK`,
  `SlotsApart`, that a port in use is at most the client's current one
  (`PortsCounted`), and that the pipe's ends are of allowed IPs (`EndsAllowed`).
  The slots stay apart because an address that is already known is looked up
  before a slot is given to it (`LearnedIsSound`); a round of the main loop keeps
  a slot only under the same IP.
* `InsideCorrect` (`Spec => []StaysInside`): an action property, from the same
  invariant: what `Tell` allowed is what is in the lobby, and a packet is sent on
  only to a slot or an end other than the one it came from.

`DirectPath_proofs`, under `DirectPathAssumption` (two peers; any numbers of
matches, attempts, failures and datagrams):

* `MetCorrect` (`Spec => []DirectMet`). A client knows of the other only what an
  answer to its marked probe tells, so the invariant follows the token: who is
  armed with a token was paired with it, once (`Paired`, `OneStart`), a marked
  datagram is of a punch that goes on now (`MarkedIsNow`), and one that was
  answered found its receiver at this start (`BothStarted`, `UsedIsNow`).
* `PairingCorrect` (`Spec => []OnePairing`). The last token that is on its way to an
  armed client or, with none on its way, that it holds, is the server's last one;
  every pairing goes to both.

`Rollback_proofs`, under `RollbackAssumption` (two machines; any prediction limit,
delay, snapshot interval, length and flow of a match, number of matches and of
faults):

* `TypeCorrect` (`TypeOK`) and `StatesCorrect` (`StatesKept`) from one inductive invariant,
  `Inv`: types (`Typed`) and, for each machine alone (`Alone`), what its battle is.
  A slot is in use exactly when GGPO's ring has it, once (`Rings`), so of
  `GGPO_MAX_PREDICTION_FRAMES + 2` slots one is always free; a machine is never
  further ahead of its inputs than the limit and its first wrong guess is one it has
  simulated (`Guessing`); the state is wrong exactly from that guess on (`WrongFrom`);
  and the states of the last frames, as many as the ring holds, are there as they
  were (`StatesSaved`), with the snapshots of this timeline (`SnapsTaken`). A rollback
  breaks the last three in its middle: `Kept` says of every frame of the replay
  what they say at its end.
* `ResultCorrect` (`ResultStands`), with `ResultDue`: the result is decided again on the
  way into MATCH_RESULT. Assumes `LongEnough`: MATCH_OVER lasts at least one frame
  less than the prediction limit, and the battle is not idle any more when its
  result is shown. Without the first TLC finds the result decided twice from the
  same guess. The length is the game's and not in the repository: MATCH_OVER is an
  animation of seconds.
* `DesyncCorrect` (`NoFalseDesync`), with `JointInv`: whoever is a match further on
  waits for the other (`InOrder`), nobody has inputs that were not given (`Given`),
  every snapshot under way or waiting is of this match and of a frame its receiver
  guesses nothing of any more (`SnapshotsSettled`), and a desync is seen in the match
  it happened in (`SeenInMatch`). Assumes `SettledEnough`: `SETTLED` is at least twice the
  prediction limit plus the delay, less two: a machine can be that many frames
  ahead of the last frame it has all inputs of and the other cannot guess.
  The code's 60 (`settledDepth`) does for a delay of `INPUT_DELAY_MAX`, 8, and any
  limit up to 27; with 0 TLC finds the false desync.

`ReceiveAll`, `ReconcileAll` and the replay of `Poll` are folds. What a fold does
is proved by hand: there is a function that gives the value after every number of
elements (`PollAgain`, `ReceiveInTurn`, `ReconcileInTurn`), and if one of them were wrong,
one would be the first (`LeastNatural`), which the step before it excludes.

`SaveStates_proofs`, under `SaveStatesAssumption` (any objects, heap, values and
prediction limit; a sync test of any length):

* `OwnersCorrect` (`OneOwner`), `SavedCorrect` (`WhatWasSaved`), `StraysCorrect` (`NoStrays`)
  and `RingCorrect` (`RingHeld`), from one inductive invariant. `Consistent` is about one
  memory and is kept by every operator on memories: a slot that is not in use has
  nothing, nobody has a buffer without being tracked (so what a record hands out is
  not what a slot holds, and a save moves everything), nobody tracks an object that
  is gone. `Held` relates it to GGPO's ring: every slot in use is in the ring, once, so
  that of as many slots as the ring has places one is free when its oldest state is
  (`SlotLeft`). In a sync test the ring moreover has every frame at its place
  (`InStep`), so that the replay finds the frame it goes back to; its replay is a
  fold, taken apart as the ones of `Rollback` (`FrameByFrame`). The idempotence check
  leaves in use what was (`After`), whether its passes find enough slots or not.
  Outside battles nothing is in use or alive, which `OpenBattle` needs: netplay would
  otherwise forget slots whose buffers nobody has released.
  In these four what a memento holds plays no part: `Recorded` and `Restored` may be
  anything.
* `LoadsCorrect` (`LoadBringsBack`) and `MismatchCorrect` (`NoFalseMismatch`) are about
  that, and have two hypotheses, which `MCSaveStates` has TLC evaluate
  (`InstanceAssumption`). `ValuesFit`: what a battle is made of is a battle system, a
  shadow or the flow; two systems have the same controls at the same nodes and sprite
  pools of one size (screens are built once for a battle), and a handle finds the
  last task of its name. `EnoughHeap`: an object has a buffer for each slot and one for
  its key, so that every allocation succeeds, as the code expects of the game's heap;
  a key that was left empty would be restored from nothing.
* `LoadsCorrect` follows from a second invariant, `Shape`: every place keeps its kind
  of value, in the battle, in the buffers and in the slots (`Fits`), because updates,
  records and restores do. Of values that fit, `SystemComesBack` and `ShadowComesBack` show
  that restoring what was recorded of one over any other gives what is seen of the
  first: the controls (`Announce` switches only what differs), the sprites, whichever
  order the cockpit stages them in (`last`), and every unit's handle.
* `MismatchCorrect` is about two tests. The idempotence check: each of its passes
  leaves the objects looking as they did (`After`, `Agree`) and the other slots
  untouched, so that nothing differs (`RunIdempotenceCheckKeeps`). The sync test:
  what its records hold is not inductive by itself, since a replay starts from a
  slot. So `Matched` says besides that there is a course (`Course`): the battle after
  each of the inputs since the verified frame; that every record past that frame is
  the one of the course (`Matching`); that the battle is where the course ends; and
  that the slot at the verified frame's place still holds where it begins
  (`OnCourse`). The slot is not given away because a test looks back no further than
  the prediction limit, less than the ring is long (`PlacesApart`). A replay loads the
  beginning, meets the same inputs and so the same records (`ReplayMatches`), and the
  next test sets out from its end. Replays are folds again, taken apart by their
  first failing frame.

`Tick_proofs` has what goes on beside the battle in every tick. It extends `Pacing` and
instantiates `Sound` (as `Snd`), whose assumption its theorems name as a hypothesis.

Of `Pacing`, under `PacingAssumption` (any times; two different periods of the
settings lie further apart than a shift, as 1/60 and 1/30 s do):

* `TypeCorrect`: no request exceeds `MaxStep`, no debt 3 `MaxStep`.
* `OwnShiftsCorrect`, `NoOvershootCorrect`, `PeriodCorrect`. The invariant says which
  generation the limiter works for (`Generations`), that only a session that has
  asked has anything under way (`Asked`), that requested and applied shifts are
  parts of the debt on one thread (`Debts`, `Parts`), and what the period is in
  a shifted frame (`Shifted`).

Of `Sound`, under `SoundAssumption` (any number of players, any requests, any of them
interrupting; GGPO may go back any number of frames):

* `MirroredCorrect` (`Mirrored`) is about the algorithm of `SyncState`, whatever state it
  meets; of the battle it needs only types (`SoundTypes`). Its three loops are folds,
  which `FoldedValues` takes apart, once for any operator given as a function. What
  each loop keeps: a player is as it was or silent (`StoppedBy`); every claim is on a
  sound of the same request that no other has, and who has none found all taken
  (`PairedUpTo`); the stub sounds that were served have different players, and no
  other player is heard (`HeardUpTo`). A free player is left for each that still
  waits, because there are no more stub sounds than players (`PlayerFree`). In the
  end players and stub sounds correspond one to one (`CountsMatch`).
* `PlaysOnCorrect` (`PlaysOn`) needs what the battle did: a request and its frame name one
  sound, in the stub and in every save state, and no sound that plays is queued as a
  stop (`Instances`). That is inductive because a save state has earlier sounds only,
  and because a load empties the queue: what was stopped on the abandoned frames may
  play again. So a sound that lasts outlives the queue, and is claimed, or all players
  of its request are (`LastingGoesOn`).

Model-checked only:

* Liveness: `CallsEnd`, `WaitingEnds`, `LobbiesReturn`, `PlayersMeet`, `SpectatorFed`, `Repaired`,
  `MatchGoesOn`, `ForkEndsBoth`, `DebtPaid`. The provers here do not reason about
  fairness and ENABLED.

No module declares a RECURSIVE operator. The prover has no induction over data,
which is why the folds above are taken apart by hand.

## 7. Plan

In this order, the behaviour players depend on most first:

1. `SessionProtocol`, `SessionServer`: done, every property proved.
2. `BattleGate` and `Rendezvous`: done, safety and the refinement proved.
3. `Matchmaking`, `Relay`, `DirectPath`: done, safety proved.
4. `Rollback`, `SaveStates`, `Pacing`, `Sound`: done, safety proved.

Left:

* Models: `WinnerStays`, the abstract queue of players, which `SessionServer` with
  its stale sides is to implement or to contradict; the spectator's client and
  what it simulates; the NAT check; the lifetime of a port mapping.

## 8. Not modelled

* The fields of battle objects one by one, and the mementos the game itself makes
  of effects, cameras and the rest: copies of the game's memory; the game is not in
  the repository. `Memento` has what the detours add.
* Overlay, match HUD, styling: presentation and debug controls.
* Port mapping: one sequence of blocking router requests, with nothing beside it;
  nothing in the code takes a mapping back.
* Process plumbing, bindings, launcher, sidecar: loading and hooks. The frame
  limiter among them is in `Pacing`.
* The spectator: its client, its copy of the battle, its overlay.
* `CheckNatType` of the hole puncher: a query whose answer is shown to the player
  and decides nothing. `DisableDirect` (`sf4e__SessionClient.cxx:850`): only the home
  screen calls it (`sf4e__Lobby.cxx:779`), where no session runs as far as we see.
* Tests (`session/interactive_test.cxx`) and the soak test are read as
  documentation of intent.
