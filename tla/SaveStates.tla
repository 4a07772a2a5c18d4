----------------------------- MODULE SaveStates -----------------------------
(***************************************************************************)
(* The save states of a battle, which rollback, the sync test, the overlay *)
(* and the training mode use.  Every object of the game that can save      *)
(* itself has a memento key, which owns a buffer of the game's heap.  A    *)
(* save has the objects fill their keys' buffers and moves the buffers     *)
(* into a slot; a load puts them back just long enough for the objects to  *)
(* read; a free lets the game release them through the object's own key.   *)
(* Nobody counts references: a buffer has one owner, the key or a slot, or *)
(* it is lost or released twice.                                           *)
(*                                                                         *)
(* The objects and their keys are the game's: what it does with them is    *)
(* modelled as the comments in the code describe it.  What a buffer holds  *)
(* of an object is in Memento.                                             *)
(***************************************************************************)
EXTENDS Integers, FiniteSets, FiniteSetsExt, SequencesExt, Memento

CONSTANTS
  Keys,                         \* of the objects that save themselves
  Globals,                      \* the battle flow, which is no object's
  Values,                       \* what the state of an object, or of the flow, may be
  Buffers,                      \* the heap, of each key
  GGPO_MAX_PREDICTION_FRAMES,
  MaxSyncFrames                 \* bound: the frames of a sync test

NUM_SAVE_STATES == GGPO_MAX_PREDICTION_FRAMES + 2
Parts == Keys \cup {Globals}
Slots == 1 .. NUM_SAVE_STATES
Ring == 0 .. GGPO_MAX_PREDICTION_FRAMES + 1
None == 0
Nothing == [kind |-> "flow", own |-> None, links |-> <<>>]   \* a cleared flow

ASSUME SaveStatesAssumption ==
  /\ GGPO_MAX_PREDICTION_FRAMES \in Nat \ {0}
  /\ None \notin Buffers /\ Globals \notin Keys

(* What the game gives: values that a battle may be made of, systems with  *)
(* the same screens and sprite pool, and shadows; and a heap with a buffer *)
(* for every slot and for the key itself, so that every allocation         *)
(* succeeds.                                                               *)
ValuesFit ==
  /\ \A v \in Values : v.kind = "flow" \/ System(v) \/ Shadow(v)
  /\ \A v, w \in Values : System(v) /\ System(w) => Alike(v, w)

EnoughHeap == IsFiniteSet(Buffers) => Cardinality(Buffers) > NUM_SAVE_STATES

VARIABLES
  mem,     \* the game's objects, their keys, the heap, the save states
  mode,    \* no battle, one without a session, or whose session it has
  ring,    \* the states that GGPO holds: places in saveStates
  head,    \* and where its next one goes
  sync     \* the sync test

vars == <<mem, mode, ring, head, sync>>

Empty == [used |-> FALSE, keys |-> {}, held |-> [k \in Keys |-> None], d |-> Nothing]

NoSyncTest == [distance |-> 0, frame |-> 0, verified |-> 0, inputs |-> <<>>,
               records |-> <<>>, mismatches |-> 0, gameplay |-> 0,
               losses |-> 0, crossed |-> FALSE]

(* Each key's object is a battle system or a shadow.                       *)
States(globals) == {v \in Values : (v.kind = "flow") = globals}

Init ==
  \E v \in [Parts -> Values] :
    /\ \A p \in Parts : v[p] \in States(p = Globals)
    /\ mem = [alive |-> {}, state |-> v, live |-> [k \in Keys |-> None],
              tracked |-> {}, heap |-> [k \in Keys |-> {}],
              content |-> [k \in Keys |-> [b \in Buffers |-> Recorded(v[k])]],
              slots |-> [s \in Slots |-> Empty],
              saved |-> [s \in Slots |-> v], stray |-> FALSE]
    /\ mode = "none" /\ ring = [i \in Ring |-> None] /\ head = 0 /\ sync = NoSyncTest

-----------------------------------------------------------------------------
(* The game's own part.                                                    *)

(* A buffer of the heap that is not in use, if there is one.               *)
Alloc(used) == IF Buffers \subseteq used THEN None ELSE CHOOSE b \in Buffers \ used : TRUE

Release(m, k, b) == m.heap[k] \ {b}

(* The same memory, worked out at once and not wherever it is used.        *)
Evaluated(m) == CHOOSE n \in {m} : n = m

(* RecordToInternalMementoKey: every object initializes its key, which     *)
(* releases what the key had, is tracked from then on, and takes a new     *)
(* buffer with the object's state.                                         *)
NewBuffer(m, k) == Alloc(Release(m, k, m.live[k]))

RecordAll(m) == [m EXCEPT
  !.tracked = @ \cup m.alive,
  !.live = [k \in Keys |-> IF k \in m.alive THEN NewBuffer(m, k) ELSE m.live[k]],
  !.heap = [k \in Keys |-> IF k \in m.alive
                           THEN Release(m, k, m.live[k]) \cup ({NewBuffer(m, k)} \ {None})
                           ELSE m.heap[k]],
  !.content = [k \in Keys |-> [b \in Buffers |->
                 IF k \in m.alive /\ b = NewBuffer(m, k) THEN Recorded(m.state[k]) ELSE m.content[k][b]]]]

(* RestoreFromInternalMementoKey, with these buffers in the keys.          *)
RestoreAll(m, keys, last) == [m EXCEPT
  !.state = [p \in Parts |-> IF p \in m.alive /\ keys[p] # None
                             THEN Restored(m.state[p], m.content[p][keys[p]], last) ELSE m.state[p]]]

(* ClearKey as the game calls it, for the keys of these objects: the       *)
(* detour also stops tracking them.                                        *)
ClearKeys(m, keys) == [m EXCEPT
  !.tracked = @ \ keys,
  !.live = [k \in Keys |-> IF k \in keys THEN None ELSE m.live[k]],
  !.heap = [k \in Keys |-> IF k \in keys THEN Release(m, k, m.live[k]) ELSE m.heap[k]]]

-----------------------------------------------------------------------------
(* SaveState, on one slot.                                                 *)

CopiedOnly(m, s) == [m EXCEPT   \* broken: the key keeps the buffer it gave away
  !.slots[s] = [used |-> TRUE, keys |-> m.tracked,
                held |-> [k \in Keys |-> IF k \in m.tracked THEN m.live[k] ELSE None],
                d |-> m.state[Globals]],
  !.saved[s] = m.state]

(* Every tracked key moves its buffer into the slot, and the flow is       *)
(* copied.                                                                 *)
Moved(m, s) == [m EXCEPT
  !.slots[s] = [used |-> TRUE, keys |-> m.tracked,
                held |-> [k \in Keys |-> IF k \in m.tracked THEN m.live[k] ELSE None],
                d |-> m.state[Globals]],
  !.saved[s] = m.state,
  !.live = [k \in Keys |-> IF k \in m.tracked THEN None ELSE m.live[k]]]

Save(m, s) == Evaluated(Moved(Evaluated(RecordAll(m)), s))

(* The flow goes back into place, and the objects read these keys.         *)
CopyIntoPlace(m, s, keys, last) ==
  RestoreAll([m EXCEPT !.state[Globals] = m.slots[s].d], keys, last)

(* The tracked keys are put aside and zeroed, the slot's go in, the        *)
(* objects read, the slot's are zeroed, and the tracked keys come back.    *)
LoadWith(m, s, last) ==
  LET zeroed == [k \in Keys |-> IF k \in m.tracked THEN None ELSE m.live[k]]
      injected == [k \in Keys |-> IF k \in m.slots[s].keys THEN m.slots[s].held[k] ELSE zeroed[k]]
  IN  Evaluated([CopyIntoPlace(m, s, injected, last) EXCEPT
         !.live = [k \in Keys |-> IF k \in m.tracked THEN m.live[k]
                                  ELSE IF k \in m.slots[s].keys THEN None ELSE m.live[k]],
         !.stray = @ \/ ~(m.slots[s].keys \subseteq m.alive)])

LoadInline(m, s) == LoadWith(m, s, FALSE)   \* broken: what the HUD stages is left on screen

Load(m, s) == LoadWith(m, s, TRUE)

(* A load crosses a reset of the round if the flow has moved since the     *)
(* save.  The reset is not rollback-safe: what comes back is a mixture, in *)
(* which these objects keep what the other path has made of them.          *)
Crosses(m, s) == m.state[Globals] # m.slots[s].d

Mixed(m, from, kept) ==
  [m EXCEPT !.state = [p \in Parts |-> IF p \in kept THEN from.state[p] ELSE m.state[p]]]

LoadAcross(m, s, kept) ==
  IF Crosses(m, s) THEN Evaluated(Mixed(Load(m, s), m, kept)) ELSE Load(m, s)

(* What it may keep: nothing, unless it crosses one.                       *)
Keepable(m, s) == IF s # None /\ Crosses(m, s) THEN SUBSET m.alive ELSE {{}}

Forget(m, s) == [m EXCEPT   \* broken: the buffers are dropped, not released
  !.slots[s] = Empty,
  !.stray = @ \/ ~(m.slots[s].keys \subseteq m.alive)]

(* Each key holds the slot's buffer just long enough to release it,        *)
(* through the game's function and not the detour.                         *)
FreeSlots(m, S) == [m EXCEPT
  !.heap = [k \in Keys |-> m.heap[k] \ {m.slots[s].held[k] : s \in S}],
  !.slots = [s \in Slots |-> IF s \in S THEN Empty ELSE m.slots[s]],
  !.stray = @ \/ \E s \in S : ~(m.slots[s].keys \subseteq m.alive)]

Free(m, s) == Evaluated(FreeSlots(m, {s}))

(* Free of every slot in use; Free of an unused one changes nothing.       *)
FreeAll(m) == FreeSlots(m, Slots)

(* Forgets the slots, and releases nothing.                                *)
ReclaimAll(m) == [m EXCEPT !.slots = [s \in Slots |-> Empty]]

AnySlot(m) == Slots   \* broken: takes a slot whether it is in use or not

Unused(m) == {s \in Slots : ~m.slots[s].used}

-----------------------------------------------------------------------------
(* The battle.                                                             *)

(* ArmSyncTest: how far apart the frames are that the test goes back to.   *)
CheckDistance(asked) == Max({1, Min({asked, GGPO_MAX_PREDICTION_FRAMES})})

(* The game makes the objects of a battle; netplay reclaims the slots, and *)
(* a sync test starts with no records.                                     *)
OpenBattle(kind) ==
  /\ mode = "none" /\ mode' = kind
  /\ \E alive \in SUBSET Keys :
       mem' = [(IF kind = "netplay" THEN ReclaimAll(mem) ELSE mem) EXCEPT !.alive = alive]
  /\ ring' = [i \in Ring |-> None] /\ head' = 0
  /\ IF kind = "synctest"
     THEN \E asked \in {0, 1, NUM_SAVE_STATES} :
            sync' = [NoSyncTest EXCEPT !.distance = CheckDistance(asked)]
     ELSE UNCHANGED sync

(* A frame of the game: an object changes, or is made.                     *)
Simulated(m, p, v) == [m EXCEPT !.state[p] = v, !.alive = @ \cup ({p} \ {Globals})]

Update(p, v) ==
  /\ mode \in {"offline", "netplay"} /\ v.kind = mem.state[p].kind
  /\ mem' = Simulated(mem, p, v)
  /\ UNCHANGED <<mode, ring, head, sync>>

(* The game gives up the memento of an object.                             *)
GameClears(k) ==
  /\ mode # "none" /\ k \in mem.alive
  /\ mem' = ClearKeys(mem, {k})
  /\ UNCHANGED <<mode, ring, head, sync>>

TearDownFirst ==   \* broken: the game's objects go before the save states
  /\ mode # "none" /\ mode' = "none"
  /\ mem' = ReclaimAll(FreeAll([ClearKeys(mem, mem.alive) EXCEPT !.alive = {}]))
  /\ ring' = [i \in Ring |-> None] /\ head' = 0 /\ sync' = NoSyncTest

(* GGPO's session frees what it holds, then every slot in use is freed,    *)
(* the rest reclaimed, and only then the game takes its objects down.      *)
CloseBattle ==
  /\ mode # "none" /\ mode' = "none"
  /\ LET m == ReclaimAll(FreeAll(mem))
     IN  mem' = [ClearKeys(m, m.alive) EXCEPT !.alive = {}]
  /\ ring' = [i \in Ring |-> None] /\ head' = 0 /\ sync' = NoSyncTest

(* A match that cannot start loses its session; the battle is left next.   *)
AbortMatchStart ==
  /\ mode = "netplay"
  /\ mem' = FreeAll(mem) /\ mode' = "offline"
  /\ ring' = [i \in Ring |-> None] /\ head' = 0 /\ UNCHANGED sync

-----------------------------------------------------------------------------
(* The states that GGPO asks for, of a battle g: the memory and GGPO's     *)
(* ring.                                                                   *)

Battle == [mem |-> mem, ring |-> ring, head |-> head]

(* The oldest of GGPO's states is freed, and the first unused slot is      *)
(* taken for the new one.                                                  *)
SaveFrame(g) ==
  LET m == IF g.ring[g.head] = None THEN g.mem ELSE Free(g.mem, g.ring[g.head])
      s == IF Unused(m) = {} THEN None ELSE Min(Unused(m))
  IN  [mem |-> IF s = None THEN m ELSE Save(m, s),
       ring |-> [g.ring EXCEPT ![g.head] = s],
       head |-> (g.head + 1) % NUM_SAVE_STATES]

LoadFrame(g, i, kept) ==
  [mem |-> LoadAcross(g.mem, g.ring[i], kept), ring |-> g.ring, head |-> (i + 1) % NUM_SAVE_STATES]

Become(g) == ring' = g.ring /\ head' = g.head /\ mem' = g.mem

SaveCallback ==
  /\ mode = "netplay" /\ Become(SaveFrame(Battle))
  /\ UNCHANGED <<mode, sync>>

(* A rollback, to a state at most the prediction limit back.               *)
LoadCallback(i, kept) ==
  /\ mode = "netplay" /\ i # head /\ ring[i] # None
  /\ Become(LoadFrame(Battle, i, kept))
  /\ UNCHANGED <<mode, sync>>

-----------------------------------------------------------------------------
(* The sync test, t: GGPO's battle and the test's records.                 *)

(* What a slot holds of an object, wherever the buffer lies.               *)
Holds(m, s, k) ==
  IF m.slots[s].held[k] = None THEN Nothing ELSE ChecksumNormalized(m.content[k][m.slots[s].held[k]])

HashGlobalData(m, s) == ChecksumNormalized(m.slots[s].d)

ComputeChecksum(m, s) ==
  <<[k \in m.slots[s].keys |-> Holds(m, s, k)], HashGlobalData(m, s)>>

(* BuildSnapshot: what the game tells of its fight when it is asked.       *)
Snapshot(m) == [p \in Parts |-> m.state[p].own]

Record(m, s) == [checksum |-> ComputeChecksum(m, s), snapshot |-> Snapshot(m)]

(* A record, the cosmetic bytes aside.                                     *)
Telling(rec) ==
  [checksum |-> <<[k \in DOMAIN rec.checksum[1] |-> Exact(rec.checksum[1][k])], rec.checksum[2]>>,
   snapshot |-> rec.snapshot]

(* The first save of a frame is the original, kept for the second, the     *)
(* replay.  What can no longer be replayed is dropped.  Counted besides    *)
(* are the losses: the mismatches that are in more than cosmetic bytes.    *)
SyncTestVerify(y, rec) ==
  LET f == y.frame
      again == f \in DOMAIN y.records
      kept == {h \in (DOMAIN y.records \cup {f}) \ (IF again THEN {f} ELSE {}) :
                 h >= f - (2 * y.distance + NUM_SAVE_STATES + 8)}
  IN  [y EXCEPT
         !.records = [h \in kept |-> IF h = f THEN rec ELSE y.records[h]],
         !.mismatches = @ + (IF again /\ y.records[f].checksum # rec.checksum THEN 1 ELSE 0),
         !.gameplay = @ + (IF again /\ y.records[f].snapshot # rec.snapshot THEN 1 ELSE 0),
         !.losses = @ + (IF again /\ Telling(y.records[f]) # Telling(rec) THEN 1 ELSE 0)]

SaveAndVerify(t) ==
  LET g == SaveFrame(t.g)
  IN  [g |-> g, sync |-> SyncTestVerify(t.sync, Record(g.mem, g.ring[t.g.head]))]

(* A frame, simulated with this input, and saved.                          *)
Advance(t, in) ==
  SaveAndVerify([g |-> [t.g EXCEPT !.mem = Simulated(t.g.mem, in[1], in[2])],
                 sync |-> [t.sync EXCEPT !.frame = @ + 1]])

ReplayFrom(t, kept) ==
  LET i == t.sync.verified % NUM_SAVE_STATES
  IN  [g |-> LoadFrame(t.g, i, kept),
       sync |-> [t.sync EXCEPT !.frame = t.sync.verified,
                               !.crossed = @ \/ Crosses(t.g.mem, t.g.ring[i])]]

(* Back to the last frame that was verified, and the same inputs again.    *)
Replay(t, kept) ==
  LET done == FoldLeft(Advance, ReplayFrom(t, kept), t.sync.inputs)
  IN  [done EXCEPT !.sync.verified = done.sync.frame, !.sync.inputs = <<>>]

(* A frame of the test, of which the first also saves where it starts.     *)
SyncTestFrame(p, v, kept) ==
  /\ mode = "synctest" /\ p \in mem.alive \cup {Globals} /\ sync.frame < MaxSyncFrames
  /\ v.kind = mem.state[p].kind
  /\ LET start == [g |-> Battle, sync |-> sync]
         first == IF sync.frame = 0 THEN SaveAndVerify(start) ELSE start
         next == Advance([first EXCEPT !.sync.inputs = Append(@, <<p, v>>)], <<p, v>>)
         t == IF next.sync.frame - next.sync.verified = sync.distance THEN Replay(next, kept) ELSE next
     IN  Become(t.g) /\ sync' = t.sync
  /\ UNCHANGED mode

-----------------------------------------------------------------------------
(* What the overlay and the training mode ask for.                         *)

(* The overlay's own save and load use the first slot, whosever it is.     *)
(* They are left out of a sync test, whose course they would change.       *)
ExtendedSave ==
  /\ mode \in {"offline", "netplay"}
  /\ mem' = Save(IF mem.slots[1].used THEN Free(mem, 1) ELSE mem, 1)
  /\ UNCHANGED <<mode, ring, head, sync>>

ExtendedLoad(kept) ==
  /\ mode \in {"offline", "netplay"} /\ mem.slots[1].used
  /\ UNCHANGED <<mode, ring, head, sync>>
  /\ mem' = LoadAcross(mem, 1, kept)

(* The training mode's own mementos, which stay in the keys.               *)
TrainingSave ==
  /\ mode = "offline"
  /\ mem' = RecordAll(mem)
  /\ UNCHANGED <<mode, ring, head, sync>>

TrainingLoad ==
  /\ mode = "offline"
  /\ mem' = RestoreAll(mem, mem.live, TRUE)
  /\ UNCHANGED <<mode, ring, head, sync>>

(* The idempotence check holds a baseline and makes round trips from it.   *)
(* Each pass gives what it leaves and how many keys it found to differ, or *)
(* -1 if there were too few slots for it.                                  *)

Free2(m, a, b) == Free(Free(m, a), b)

(* The first slot that is unused, but for these.                           *)
FirstUnused(m, taken) == Min(Unused(m) \ taken)

RoundTrip(m, s) == Load(Save(m, s), s)

(* The code counts the keys that differ in their cosmetic bytes, too.      *)
CompareSaves(m, a, b) ==
  Cardinality({k \in m.slots[a].keys \cap m.slots[b].keys :
                 Exact(Holds(m, a, k)) # Exact(Holds(m, b, k))})

(* What the game can see, before a round trip and after it.                *)
GameplayPass(m, base) ==
  LET before == Load(m, base)
      s == FirstUnused(before, {})
      after == RoundTrip(before, s)
  IN  IF Unused(before) = {} THEN [mem |-> before, differing |-> -1]
      ELSE [mem |-> Free(after, s),
            differing |-> Cardinality({p \in Parts : Snapshot(after)[p] # Snapshot(before)[p]})]

(* The saves before and after a round trip, restoring the sprites last or  *)
(* at once.                                                                *)
RunIdempotencePass(m, base, last) ==
  LET a == FirstUnused(m, {})
      b == FirstUnused(m, {a})
      trip == Save(LoadWith(Save(Load(m, base), a), a, last), b)
  IN  IF Cardinality(Unused(m)) < 2 THEN [mem |-> m, differing |-> -1]
      ELSE [mem |-> Free2(trip, a, b), differing |-> CompareSaves(trip, a, b)]

(* Two round trips, and what the second adds.                              *)
ConvergencePass(m, base) ==
  LET x == FirstUnused(m, {})
      y == FirstUnused(m, {x})
      z == FirstUnused(m, {x, y})
      trips == Save(RoundTrip(RoundTrip(Load(m, base), x), y), z)
  IN  IF Cardinality(Unused(m)) < 3 THEN [mem |-> m, differing |-> -1]
      ELSE [mem |-> Free(Free2(trips, x, y), z),
            differing |-> CompareSaves(trips, x, y) + CompareSaves(trips, y, z)]

(* One pass after the other, and back to the baseline.  One restores the   *)
(* sprites at once, for comparison.                                        *)
RunIdempotenceCheck(m) ==
  LET base == FirstUnused(m, {})
      gameplay == GameplayPass(Save(m, base), base)
      variant1 == RunIdempotencePass(gameplay.mem, base, TRUE)
      variant2 == RunIdempotencePass(variant1.mem, base, FALSE)
      variant3 == RunIdempotencePass(variant2.mem, base, TRUE)
      convergence == ConvergencePass(variant3.mem, base)
  IN  [mem |-> Free(Load(convergence.mem, base), base),
       differing |-> {r.differing : r \in {gameplay, variant1, variant3, convergence}}]

IdempotenceCheck ==
  /\ mode # "none" /\ Unused(mem) # {}
  /\ mem' = RunIdempotenceCheck(mem).mem
  /\ UNCHANGED <<mode, ring, head, sync>>

Next ==
  \/ \E kind \in {"offline", "netplay", "synctest"} : OpenBattle(kind)
  \/ \E p \in Parts, v \in Values : Update(p, v)
  \/ \E k \in Keys : GameClears(k)
  \/ CloseBattle \/ AbortMatchStart
  \/ SaveCallback \/ (\E i \in Ring : \E kept \in Keepable(mem, ring[i]) : LoadCallback(i, kept))
  \/ (\E p \in Parts, v \in Values, kept \in SUBSET mem.alive : SyncTestFrame(p, v, kept))
  \/ ExtendedSave \/ (\E kept \in Keepable(mem, 1) : ExtendedLoad(kept))
  \/ TrainingSave \/ TrainingLoad
  \/ IdempotenceCheck

Spec == Init /\ [][Next]_vars

-----------------------------------------------------------------------------
Picture(m) == [p \in Parts |-> Seen(m.state[p])]

(* Every buffer of the heap is the live key's or that of one save state:   *)
(* none is lost, none is released twice, and none is released while        *)
(* another still counts on it.                                             *)
OneOwner == \A k \in Keys :
  /\ mem.heap[k] = ({mem.live[k]} \cup {mem.slots[s].held[k] : s \in Slots}) \ {None}
  /\ \A s \in Slots : mem.slots[s].held[k] # None =>
       /\ mem.slots[s].held[k] # mem.live[k]
       /\ \A t \in Slots \ {s} : mem.slots[s].held[k] # mem.slots[t].held[k]

(* A save state stays what the battle was when it was taken, whatever the  *)
(* game, the overlay and other saves and loads do before it is used.       *)
WhatWasSaved == \A s \in Slots :
  /\ mem.slots[s].used => mem.slots[s].d = mem.saved[s][Globals]
  /\ \A k \in mem.slots[s].keys : mem.slots[s].held[k] # None =>
       mem.content[k][mem.slots[s].held[k]] = Recorded(mem.saved[s][k])

(* Save states are only used while the objects whose keys they hold exist. *)
NoStrays == ~mem.stray

(* Every state that GGPO can go back to is in a slot of its own.           *)
RingHeld == \A i \in Ring : ring[i] # None =>
  mem.slots[ring[i]].used /\ \A j \in Ring \ {i} : ring[j] # ring[i]

(* With the same inputs the game does the same, and a save and a load      *)
(* change nothing but addresses and cosmetic bytes: a sync test that never *)
(* went back across a reset of the round has found no divergence of        *)
(* gameplay, and no checksum that differs in more than cosmetic bytes; nor *)
(* does the idempotence check, as the game restores by default, find more, *)
(* and it leaves the battle and the save states as they were.              *)
NoFalseMismatch ==
  /\ ~sync.crossed => sync.gameplay = 0 /\ sync.losses = 0
  /\ mode # "none" /\ Unused(mem) # {} =>
       LET check == RunIdempotenceCheck(mem)
       IN  /\ check.differing \subseteq {-1, 0}
           /\ Picture(check.mem) = Picture(mem) /\ check.mem.slots = mem.slots

(* Whatever has happened since a state was saved, loading it now, without  *)
(* crossing a reset of the round, makes every object and the flow what     *)
(* they were then, on screen as in the simulation, with every unit's hold  *)
(* on its task, but for the cosmetic bytes that the game's own restore of  *)
(* an actor loses; and it leaves the game's own mementos as they are.      *)
LoadBringsBack == \A s \in Slots : mem.slots[s].used /\ ~Crosses(mem, s) =>
  LET m == LoadAcross(mem, s, mem.alive)
  IN  /\ \A p \in mem.slots[s].keys \cup {Globals} : Seen(m.state[p]) = Seen(mem.saved[s][p])
      /\ m.live = mem.live
=============================================================================
