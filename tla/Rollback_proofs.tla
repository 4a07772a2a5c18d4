--------------------------- MODULE Rollback_proofs ---------------------------
(***************************************************************************)
(* That two machines which compute the same never see a desync, that no    *)
(* state GGPO can go back to is ever lost, and that the result of a match  *)
(* played to its end is the right one, for any prediction limit, delay,    *)
(* length of the match and number of matches.                              *)
(***************************************************************************)
EXTENDS Rollback, FiniteSetTheorems, SequenceTheorems,
        WellFoundedInduction, TLAPS

(***************************************************************************)
(* Types.                                                                  *)
(***************************************************************************)
Frames == 0 .. LastFrame
FramesOrNone == {None} \cup Frames
SlotOf == [used : BOOLEAN, n : Frames, bad : FramesOrNone]
SnapOf == [state : SnapState, sent : BOOLEAN, confirmed : BOOLEAN]
MapsTo(S) == UNION {[D -> S] : D \in SUBSET Frames}

SimOf == [seed : 0 .. MaxMatches, n : Frames, bad : FramesOrNone, frame : Frames,
          conf : 0 .. LastFrame + Delay, wrong : FramesOrNone,
          pool : [Slots -> SlotOf], ring : [Ring -> {NoSlot} \cup Slots],
          snaps : MapsTo(SnapOf), lost : BOOLEAN, drift : BOOLEAN]

CtlOf == [at : {"menu", "battle", "closed", "gone"}, match : 0 .. MaxMatches,
          open : BOOLEAN, allowed : BOOLEAN, leaving : BOOLEAN, leftIdle : BOOLEAN,
          skip : Nat, held : 0 .. HOLD_CAP + 1,
          lastFlow : {"none", "idle", "fight", "over", "result"}]

VerdictOf == [abort : BOOLEAN, reported : BOOLEAN, seen : BOOLEAN,
              result : {"none", "right", "wrong"}]

Message == [type : {"snapshot"}, n : Frames, state : SnapState] \cup [type : {"desync"}]

SteppingOf == [snaps : MapsTo(SnapOf), pending : MapsTo(SnapState), out : Seq(Message),
               abort : BOOLEAN, reported : BOOLEAN, seen : BOOLEAN, leaving : BOOLEAN]

Typed ==
  /\ sim \in [Machines -> SimOf] /\ ctl \in [Machines -> CtlOf]
  /\ inbox \in [Machines -> Seq(Message)] /\ pending \in [Machines -> MapsTo(SnapState)]
  /\ verdict \in [Machines -> VerdictOf]
  /\ faults \in [forked : SUBSET (Machines \X (0 .. MaxMatches)), quits : Nat, skips : Nat]
  /\ TotalFaults <= MaxFaults /\ \A m \in Machines : ctl[m].skip <= faults.skips

(***************************************************************************)
(* One machine.                                                            *)
(***************************************************************************)

(* The battle leaves its idle frames, and GGPO's first frame is this one.  *)
Lead(k) == k \in Frames /\ Flow(k) # "idle" /\ \A j \in 0 .. k - 1 : Flow(j) = "idle"

(* What of the first wrong input a state of k frames knows.                *)
BadBefore(s, k) == IF s.bad # None /\ s.bad < k THEN s.bad ELSE None

(* A slot is in use exactly when GGPO's ring has it, once.                 *)
Rings(s) ==
  /\ ~s.lost
  /\ \A i \in Ring : s.ring[i] # NoSlot => s.pool[s.ring[i]].used
  /\ \A i, j \in Ring : i # j /\ s.ring[i] = s.ring[j] => s.ring[i] = NoSlot
  /\ \A slot \in Slots : s.pool[slot].used => \E i \in Ring : s.ring[i] = slot

SavedAt(s, f) == s.pool[s.ring[f % NUM_SAVE_STATES]]

(* With the first frame of GGPO at lead and its last one at top, while it  *)
(* is simulated up to s.frame: the states that can still be loaded, and    *)
(* the snapshots, are those of this timeline.                              *)
StatesSaved(s, lead, top, clean) == \A f \in 0 .. s.frame : top < f + NUM_SAVE_STATES =>
  /\ s.ring[f % NUM_SAVE_STATES] # NoSlot
  /\ SavedAt(s, f).n = f + lead
  /\ clean => SavedAt(s, f).bad = BadBefore(s, f + lead)

SnapsTaken(s, lead, top, clean) == \A f \in DOMAIN s.snaps :
  /\ f % SNAPSHOT_EVERY = 0 /\ lead < f /\ f <= top + lead
  /\ f <= s.n => /\ s.snaps[f].state.match = s.seed /\ s.snaps[f].state.frame = f - lead
                 /\ clean => s.snaps[f].state.bad = BadBefore(s, f)

Kept(s, lead, top, clean) ==
  /\ s \in SimOf /\ Rings(s) /\ s.seed # 0
  /\ s.n = s.frame + lead
  /\ clean /\ s.bad # None => s.bad < s.n
  /\ StatesSaved(s, lead, top, clean) /\ SnapsTaken(s, lead, top, clean)

(* The guesses of one machine: how far it is ahead, and that what it has   *)
(* simulated is wrong from the first wrong guess on.                       *)
Guessing(s) ==
  /\ Delay <= s.conf /\ s.frame < s.conf + GGPO_MAX_PREDICTION_FRAMES
  /\ s.wrong # None => s.conf <= s.wrong /\ s.wrong < s.frame

WrongFrom(s) == s.bad = IF s.wrong = None THEN None ELSE s.wrong + (s.n - s.frame)

(* Before GGPO's first frame there is nothing to go back to.               *)
Unstarted(s) ==
  /\ s.wrong = None /\ s.bad = None /\ s.ring = [i \in Ring |-> NoSlot] /\ DOMAIN s.snaps = {}

(* The battle of one machine, with what it computes not forked if clean.   *)
InBattle(s, seed, clean, leftIdle, allowed) ==
  /\ s \in SimOf /\ s.seed = seed /\ seed # 0
  /\ Rings(s) /\ Guessing(s)
  /\ clean => WrongFrom(s)
  /\ IF s.frame = 0 THEN Unstarted(s)
     ELSE leftIdle /\ allowed /\ Kept(s, s.n - s.frame, s.frame, clean)
  /\ s.frame <= s.n
  /\ IF leftIdle THEN Lead(s.n - s.frame) ELSE \A j \in 0 .. s.n - 1 : Flow(j) = "idle"

Battling(m) == InBattle(sim[m], ctl[m].match, ~Forked(m), ctl[m].leftIdle, ctl[m].allowed)

Alone(m) == IF Playing(m) THEN Battling(m) ELSE sim[m] = NoBattle /\ ~ctl[m].allowed

(* The result is decided on the way into MATCH_RESULT, if not before, and  *)
(* what MATCH_OVER was decided from cannot be a guess any more then.       *)
ResultDue(m) == Playing(m) =>
  /\ ctl[m].lastFlow \in (IF sim[m].n = 0 THEN {"none", Flow(0)} ELSE {Flow(sim[m].n)})
  /\ sim[m].n >= ResultAt /\ ~Forked(m) => verdict[m].result # "wrong"

(***************************************************************************)
(* The two of them.                                                        *)
(***************************************************************************)
Here(m) == ctl[m].at # "gone"

(* Who is called first waits for the other.                                *)
InOrder == \A m \in Machines :
  Here(m) /\ Here(Peer(m)) /\ ctl[m].match > ctl[Peer(m)].match =>
    /\ ctl[m].match = ctl[Peer(m)].match + 1
    /\ ctl[Peer(m)].at = "menu" /\ ~ctl[m].allowed
    /\ Playing(m) => sim[m].conf = Delay

(* Nobody has inputs that were not given.                                  *)
Given == \A m \in Machines :
  Playing(m) /\ Together(m) => sim[m].conf <= sim[Peer(m)].frame + Delay

(* A snapshot of the other machine: of this match, and of a frame before   *)
(* which this one guesses nothing any more.                                *)
Settling(m, n, state) ==
  /\ state.match = ctl[m].match
  /\ \A k \in Frames : Lead(k) => state.frame = n - k
  /\ <<Peer(m), state.match>> \notin faults.forked => state.bad = None
  /\ Playing(m) => state.frame <= sim[m].conf

SnapshotsSettled == \A m \in Machines :
  /\ ~Here(m) => inbox[m] = <<>>
  /\ \A i \in DOMAIN inbox[m] :
       inbox[m][i].type = "snapshot" => Settling(m, inbox[m][i].n, inbox[m][i].state)
  /\ Playing(m) => \A f \in DOMAIN pending[m] : Settling(m, f, pending[m][f])

SeenInMatch == \A m \in Machines : verdict[m].seen =>
  /\ ctl[m].at \in {"battle", "closed"}
  /\ \E p \in Machines : <<p, ctl[m].match>> \in faults.forked

Inv == Typed /\ \A m \in Machines : Alone(m)
JointInv == InOrder /\ Given /\ SnapshotsSettled /\ SeenInMatch

-----------------------------------------------------------------------------
(* Arithmetic and sets.                                                    *)

LEMMA ConstantsTyped ==
  /\ GGPO_MAX_PREDICTION_FRAMES \in Nat /\ GGPO_MAX_PREDICTION_FRAMES >= 1
  /\ NUM_SAVE_STATES \in Nat /\ NUM_SAVE_STATES = GGPO_MAX_PREDICTION_FRAMES + 2
  /\ Delay \in Nat /\ Delay >= 1 /\ SNAPSHOT_EVERY \in Nat /\ SNAPSHOT_EVERY >= 1
  /\ SETTLED \in Nat /\ HOLD_CAP \in Nat /\ MaxMatches \in Nat /\ MaxFaults \in Nat
  /\ OverAt \in Nat /\ ResultAt \in Nat /\ LastFrame \in Nat
  /\ OverAt < ResultAt /\ ResultAt <= LastFrame
BY RollbackAssumption DEF NUM_SAVE_STATES

(* Frames that are less than a round of the ring apart have places of      *)
(* their own in it.                                                        *)
LEMMA RoundTheRing ==
  ASSUME NEW a \in Nat, NEW b \in Nat, NEW n \in Nat \ {0}
  PROVE  /\ a % n \in 0 .. n - 1
         /\ a < b /\ b < a + n => a % n # b % n
<1>1. a % n \in 0 .. n - 1
  OBVIOUS
<1>2. ASSUME a < b, b < a + n, a % n = b % n PROVE FALSE
  <2>1. a = n * (a \div n) + (a % n) /\ b = n * (b \div n) + (b % n)
    OBVIOUS
  <2> DEFINE x == a \div n
             y == b \div n
  <2>2. x \in Int /\ y \in Int
    OBVIOUS
  <2> HIDE DEF x, y
  <2>3. n * x < n * y /\ n * y < n * x + n
    BY <1>2, <2>1, <2>2 DEF x, y
  <2>4. y <= x \/ y >= x + 1
    BY <2>2
  <2>5. CASE y <= x
    <3>1. n * y <= n * x
      BY <2>5, <2>2
    <3> QED BY <3>1, <2>3, <2>2
  <2>6. CASE y >= x + 1
    <3>1. n * y >= n * (x + 1)
      BY <2>6, <2>2
    <3>2. n * (x + 1) = n * x + n
      BY <2>2
    <3> QED BY <3>1, <3>2, <2>3, <2>2
  <2> QED BY <2>4, <2>5, <2>6
<1> QED BY <1>1, <1>2

(* Every frame has its place in the ring of saved states.                   *)
LEMMA InTheRing ==
  ASSUME NEW f \in Nat
  PROVE  f % NUM_SAVE_STATES \in Ring
BY RoundTheRing, ConstantsTyped DEF Ring

(* Every non-empty set of naturals has a least element.                    *)
LEMMA LeastNatural ==
  ASSUME NEW T \in SUBSET Nat, T # {}
  PROVE  \E x \in T : \A y \in T : x <= y
<1> DEFINE R == OpToRel(<, Nat)
<1>1. IsWellFoundedOn(R, Nat)
  BY NatLessThanWellFounded
<1>2. \A x, y \in Nat : <<y, x>> \in R <=> y < x
  BY DEF OpToRel
<1> HIDE DEF R
<1>3. PICK x \in T : \A y \in T : ~(<<y, x>> \in R)
  BY <1>1, WFMin
<1>4. ASSUME NEW y \in T PROVE x <= y
  <2>1. x \in Nat /\ y \in Nat /\ ~(<<y, x>> \in R)
    BY <1>3
  <2>2. ~(y < x)
    BY <1>2, <2>1
  <2> QED BY <2>1, <2>2
<1> QED BY <1>4

(* The least of a set of frames is in it and below all of it.               *)
LEMMA LeastOfSet ==
  ASSUME NEW T \in SUBSET Nat, T # {}
  PROVE  Min(T) \in T /\ \A y \in T : Min(T) <= y
BY LeastNatural DEF Min

(* The greatest of two numbers is one of them and above both.               *)
LEMMA GreatestOfTwo ==
  ASSUME NEW a \in Int, NEW b \in Int
  PROVE  Max({a, b}) = IF a >= b THEN a ELSE b
<1>1. \E x \in {a, b} : \A y \in {a, b} : x >= y
  OBVIOUS
<1>2. Max({a, b}) \in {a, b} /\ \A y \in {a, b} : Max({a, b}) >= y
  BY <1>1 DEF Max
<1> QED BY <1>2

(* The greatest of some of the first numbers.                              *)
LEMMA GreatestOfFirst ==
  ASSUME NEW n \in Nat, NEW T \in SUBSET (1 .. n), T # {}
  PROVE  Max(T) \in T /\ \A y \in T : y <= Max(T)
<1> DEFINE D == {n - y : y \in T}
<1>1. D \in SUBSET Nat /\ D # {}
  <2>1. \A y \in T : y \in Int /\ 1 <= y /\ y <= n
    OBVIOUS
  <2>2. \A y \in T : n - y \in Nat
    BY <2>1
  <2> QED BY <2>2
<1>2. PICK x \in D : \A y \in D : x <= y
  BY <1>1, LeastNatural
<1>3. PICK z \in T : x = n - z
  BY <1>2
<1>4. \A y \in T : z >= y
  <2> TAKE y \in T
  <2>1. n - z <= n - y
    BY <1>2, <1>3
  <2> QED BY <2>1
<1>5. Max(T) \in T /\ \A y \in T : Max(T) >= y
  BY <1>3, <1>4 DEF Max
<1> QED BY <1>5

-----------------------------------------------------------------------------
(* Saving.                                                                 *)

(* Freeing a place in the ring leaves a slot that is not in use: there are *)
(* as many slots as places, and a slot in use is in one of them.           *)
LEMMA SlotLeft ==
  ASSUME NEW s \in SimOf, Rings(s), NEW i \in Ring, s.ring[i] = NoSlot
  PROVE  \E slot \in Slots : ~s.pool[slot].used
<1> SUFFICES ASSUME \A slot \in Slots : s.pool[slot].used
             PROVE  FALSE
  OBVIOUS
<1> DEFINE h == [slot \in Slots |-> CHOOSE j \in Ring : s.ring[j] = slot]
           R == Ring \ {i}
<1>1. \A slot \in Slots : h[slot] \in Ring /\ s.ring[h[slot]] = slot
  BY DEF Rings
<1>2. NoSlot \notin Slots
  BY DEF NoSlot, Slots
<1>3. h \in [Slots -> R]
  BY <1>1, <1>2
<1>4. IsFiniteSet(Slots) /\ Cardinality(Slots) = NUM_SAVE_STATES
  BY FS_Interval, ConstantsTyped DEF Slots
<1>5. IsFiniteSet(Ring) /\ Cardinality(Ring) = NUM_SAVE_STATES
  BY FS_Interval, ConstantsTyped DEF Ring
<1>6. IsFiniteSet(R) /\ Cardinality(R) = NUM_SAVE_STATES - 1
  BY <1>5, FS_RemoveElement
<1>7. Cardinality(R) < Cardinality(Slots)
  BY <1>4, <1>6, ConstantsTyped
<1>8. PICK x \in Slots, y \in Slots : x # y /\ h[x] = h[y]
  <2> HIDE DEF h, R
  <2> QED BY <1>3, <1>4, <1>6, <1>7, FS_PigeonHole, Zenon
<1> QED BY <1>1, <1>8

(* A slot of the pool has its type.                                         *)
LEMMA SlotTypes ==
  /\ NoSlot \notin Slots /\ Slots \subseteq Nat /\ None \notin Nat
  /\ Unused \in SlotOf /\ ~Unused.used /\ Frames \subseteq Nat
BY ConstantsTyped DEF NoSlot, Slots, None, Unused, SlotOf, FramesOrNone, Frames

(* The oldest state of the ring makes room for a new one, and the others   *)
(* stay as they are.                                                       *)
SavedInto(s, r, i, slot) ==
  /\ r \in SimOf /\ Rings(r)
  /\ r = [s EXCEPT !.ring = r.ring, !.pool = r.pool]
  /\ r.ring = [s.ring EXCEPT ![i] = slot]
  /\ r.pool[slot].n = s.n /\ r.pool[slot].bad = s.bad
  /\ \A j \in Ring \ {i} : s.ring[j] # NoSlot => r.pool[s.ring[j]] = s.pool[s.ring[j]]

(* A save goes into one slot, which the ring then has, and leaves the others.*)
LEMMA SaveProperties ==
  ASSUME NEW s \in SimOf, Rings(s)
  PROVE  \E slot \in Slots : SavedInto(s, SaveState(s), s.frame % NUM_SAVE_STATES, slot)
<1> DEFINE i == s.frame % NUM_SAVE_STATES
           f == Free(s, s.ring[i])
           U == {slot \in Slots : ~f.pool[slot].used}
           slot == Min(U)
           entry == [used |-> TRUE, n |-> f.n, bad |-> f.bad]
           r == [f EXCEPT !.ring[i] = slot, !.pool[slot] = entry]
<1>0. i \in Ring /\ s.ring[i] \in {NoSlot} \cup Slots
  BY InTheRing, SlotTypes DEF SimOf
<1>1. f \in SimOf /\ f = [s EXCEPT !.pool = f.pool]
  BY <1>0, SlotTypes DEF SimOf, Free
<1>2. \A t \in Slots : f.pool[t] = IF t = s.ring[i] THEN Unused ELSE s.pool[t]
  BY <1>0, SlotTypes DEF SimOf, Free
<1>3. U # {}
  <2>1. CASE s.ring[i] = NoSlot
    BY <2>1, <1>0, <1>2, SlotLeft, SlotTypes
  <2>2. CASE s.ring[i] # NoSlot
    BY <2>2, <1>0, <1>2, SlotTypes
  <2> QED BY <2>1, <2>2
<1>4. slot \in Slots /\ ~f.pool[slot].used
  BY <1>3, LeastOfSet, SlotTypes
<1>5. SaveState(s) = r
  <2> HIDE DEF r, entry, slot, U, f, i
  <2>1. NUM_SAVE_STATES = GGPO_MAX_PREDICTION_FRAMES + 2
    BY ConstantsTyped
  <2>2. SaveState(s) = IF U = {} THEN [f EXCEPT !.ring[i] = NoSlot, !.lost = TRUE]
                       ELSE [f EXCEPT !.ring[i] = Min(U),
                                      !.pool[Min(U)] = [used |-> TRUE, n |-> f.n, bad |-> f.bad]]
    BY <2>1, Zenon DEF SaveState, U, f, i
  <2> QED BY <2>2, <1>3 DEF r, entry, slot
<1> HIDE DEF f, U, slot, r, i
<1>6. entry \in SlotOf /\ entry.used /\ entry.n = s.n /\ entry.bad = s.bad
  BY <1>1 DEF SimOf, SlotOf
<1> HIDE DEF entry
<1>7. /\ r.ring = [f.ring EXCEPT ![i] = slot] /\ r.pool = [f.pool EXCEPT ![slot] = entry]
      /\ r = [f EXCEPT !.ring = r.ring, !.pool = r.pool] /\ r \in SimOf
  BY <1>0, <1>1, <1>4, <1>6 DEF r, SimOf
<1>8. /\ f.ring = s.ring /\ ~f.lost /\ r = [s EXCEPT !.ring = r.ring, !.pool = r.pool]
      /\ f.pool \in [Slots -> SlotOf] /\ s.ring \in [Ring -> {NoSlot} \cup Slots]
      /\ r.lost = s.lost
  BY <1>1, <1>7 DEF SimOf, Rings
<1>9. /\ \A j \in Ring : r.ring[j] = IF j = i THEN slot ELSE s.ring[j]
      /\ \A t \in Slots : r.pool[t] = IF t = slot THEN entry ELSE f.pool[t]
  BY <1>0, <1>4, <1>7, <1>8
<1>10. \A j \in Ring \ {i} : s.ring[j] # NoSlot =>
         /\ s.ring[j] \in Slots /\ s.ring[j] # s.ring[i] /\ s.ring[j] # slot
         /\ f.pool[s.ring[j]] = s.pool[s.ring[j]] /\ s.pool[s.ring[j]].used
  <2> TAKE j \in Ring \ {i}
  <2> HAVE s.ring[j] # NoSlot
  <2>1. s.ring[j] \in Slots /\ s.ring[j] # s.ring[i] /\ s.pool[s.ring[j]].used
    BY <1>0, <1>8 DEF Rings
  <2>2. f.pool[s.ring[j]] = s.pool[s.ring[j]]
    BY <1>2, <2>1
  <2> QED BY <2>1, <2>2, <1>4
<1>11. Rings(r)
  <2>1. ~r.lost
    BY <1>8 DEF Rings
  <2>2. ASSUME NEW j \in Ring, r.ring[j] # NoSlot PROVE r.pool[r.ring[j]].used
    <3>1. CASE j = i
      BY <3>1, <1>4, <1>6, <1>9
    <3>2. CASE j # i
      BY <3>2, <2>2, <1>9, <1>10
    <3> QED BY <3>1, <3>2
  <2>3. ASSUME NEW j \in Ring, NEW k \in Ring, j # k, r.ring[j] = r.ring[k]
        PROVE  r.ring[j] = NoSlot
    <3>1. CASE j = i
      BY <3>1, <2>3, <1>4, <1>9, <1>10, SlotTypes
    <3>2. CASE k = i
      BY <3>2, <2>3, <1>4, <1>9, <1>10, SlotTypes
    <3>3. CASE j # i /\ k # i
      BY <3>3, <2>3, <1>9 DEF Rings
    <3> QED BY <3>1, <3>2, <3>3
  <2>4. ASSUME NEW t \in Slots, r.pool[t].used PROVE \E j \in Ring : r.ring[j] = t
    <3>1. CASE t = slot
      BY <3>1, <1>0, <1>9
    <3>2. CASE t # slot
      <4>1. f.pool[t].used
        BY <3>2, <2>4, <1>9
      <4>2. t # s.ring[i] /\ s.pool[t].used
        BY <4>1, <1>2, SlotTypes
      <4>3. PICK j \in Ring : s.ring[j] = t
        BY <4>2 DEF Rings
      <4> QED BY <4>2, <4>3, <1>9
    <3> QED BY <3>1, <3>2
  <2> QED BY <2>1, <2>2, <2>3, <2>4 DEF Rings
<1>12. SavedInto(s, r, i, slot)
  <2>1. r.pool[slot].n = s.n /\ r.pool[slot].bad = s.bad
    BY <1>4, <1>6, <1>9
  <2>2. \A j \in Ring \ {i} : s.ring[j] # NoSlot => r.pool[s.ring[j]] = s.pool[s.ring[j]]
    BY <1>9, <1>10
  <2> QED BY <2>1, <2>2, <1>7, <1>8, <1>11 DEF SavedInto
<1> QED BY <1>4, <1>5, <1>12 DEF i

-----------------------------------------------------------------------------
(* Advancing a frame.                                                      *)

LEMMA CaptureProperties ==
  ASSUME NEW s \in SimOf, s.seed # 0
  PROVE  LET r == CaptureSnapshot(s) IN
         /\ r \in SimOf /\ r = [s EXCEPT !.snaps = r.snaps]
         /\ IF s.n % SNAPSHOT_EVERY # 0 THEN r.snaps = s.snaps
            ELSE /\ DOMAIN r.snaps = DOMAIN s.snaps \cup {s.n}
                 /\ r.snaps[s.n].state = BuildSnapshot(s)
                 /\ \A f \in DOMAIN s.snaps \ {s.n} : r.snaps[f] = s.snaps[f]
<1> DEFINE new == [state |-> BuildSnapshot(s), sent |-> FALSE, confirmed |-> FALSE]
           snaps == With(s.snaps, s.n, new)
<1>1. CASE s.n % SNAPSHOT_EVERY # 0
  BY <1>1 DEF CaptureSnapshot, SimOf
<1>2. CASE s.n % SNAPSHOT_EVERY = 0
  <2>1. new \in SnapOf /\ new.state = BuildSnapshot(s)
    BY DEF SimOf, SnapOf, SnapState, BuildSnapshot, Frames, FramesOrNone
  <2>2. PICK D \in SUBSET Frames : s.snaps \in [D -> SnapOf]
    BY DEF SimOf, MapsTo
  <2>3. s.n \in Frames
    BY DEF SimOf
  <2>4. CaptureSnapshot(s) = [s EXCEPT !.snaps = snaps]
    BY <1>2 DEF CaptureSnapshot, SimOf
  <2> HIDE DEF new
  <2>5. snaps \in [D \cup {s.n} -> SnapOf] /\ D \cup {s.n} \in SUBSET Frames
    BY <2>1, <2>2, <2>3 DEF With
  <2>6. /\ DOMAIN snaps = DOMAIN s.snaps \cup {s.n} /\ snaps[s.n] = new
        /\ \A f \in DOMAIN s.snaps \ {s.n} : snaps[f] = s.snaps[f]
    BY <2>2 DEF With
  <2> HIDE DEF snaps
  <2>7. snaps \in MapsTo(SnapOf)
    BY <2>5 DEF MapsTo
  <2>8. [s EXCEPT !.snaps = snaps] \in SimOf /\ [s EXCEPT !.snaps = snaps].snaps = snaps
    BY <2>7 DEF SimOf
  <2> QED BY <1>2, <2>1, <2>4, <2>6, <2>8
<1> QED BY <1>1, <1>2

(* A frame more, good or bad, keeps what could still be loaded and the     *)
(* snapshots, and adds its own.                                            *)
LEMMA AdvanceProperties ==
  ASSUME NEW s, NEW lead \in Nat, NEW top \in Nat, NEW clean \in BOOLEAN, NEW bad \in BOOLEAN,
         Kept(s, lead, top, clean), s.frame < top, top + lead <= LastFrame
  PROVE  LET r == Advance(s, bad) IN
         /\ Kept(r, lead, top, clean)
         /\ r.frame = s.frame + 1 /\ r.bad = IF bad /\ s.bad = None THEN s.n ELSE s.bad
         /\ r.conf = s.conf /\ r.wrong = s.wrong /\ r.seed = s.seed
<1> DEFINE b == IF bad /\ s.bad = None THEN s.n ELSE s.bad
           t == [s EXCEPT !.n = s.n + 1, !.frame = s.frame + 1, !.bad = b]
           u == SaveState(t)
           r == CaptureSnapshot(u)
           i == t.frame % NUM_SAVE_STATES
<1>1. Advance(s, bad) = r
  BY DEF Advance, Kept, SimOf
<1>2. /\ s \in SimOf /\ Rings(s) /\ s.seed # 0 /\ s.n = s.frame + lead
      /\ clean /\ s.bad # None => s.bad < s.n
      /\ s.n \in Nat /\ s.frame \in Nat /\ s.n + 1 <= LastFrame /\ s.frame + 1 <= LastFrame
      /\ s.bad \in FramesOrNone /\ LastFrame \in Nat
  BY ConstantsTyped DEF Kept, SimOf, Frames
<1>3. b \in FramesOrNone /\ s.n + 1 \in Frames /\ s.frame + 1 \in Frames
  BY <1>2 DEF FramesOrNone, Frames
<1> HIDE DEF b
<1>4. /\ t \in SimOf /\ t.n = s.n + 1 /\ t.frame = s.frame + 1 /\ t.bad = b /\ t.ring = s.ring
      /\ t.pool = s.pool /\ t.lost = s.lost /\ t.snaps = s.snaps /\ t.seed = s.seed
      /\ t.conf = s.conf /\ t.wrong = s.wrong
  BY <1>2, <1>3 DEF SimOf
<1> HIDE DEF t
<1>5. Rings(t)
  BY <1>2, <1>4 DEF Rings
<1>6. PICK slot \in Slots : SavedInto(t, u, i, slot)
  BY <1>4, <1>5, SaveProperties
<1> HIDE DEF u
<1>7. /\ u \in SimOf /\ Rings(u) /\ u.n = s.n + 1 /\ u.frame = s.frame + 1 /\ u.bad = b
      /\ u.snaps = s.snaps /\ u.seed = s.seed /\ u.conf = s.conf /\ u.wrong = s.wrong
      /\ u.ring = [s.ring EXCEPT ![i] = slot]
      /\ u.pool[slot].n = s.n + 1 /\ u.pool[slot].bad = b
      /\ \A j \in Ring \ {i} : s.ring[j] # NoSlot => u.pool[s.ring[j]] = s.pool[s.ring[j]]
  <2>1. /\ u \in SimOf /\ Rings(u) /\ u = [t EXCEPT !.ring = u.ring, !.pool = u.pool]
        /\ u.ring = [t.ring EXCEPT ![i] = slot]
        /\ u.pool[slot].n = t.n /\ u.pool[slot].bad = t.bad
        /\ \A j \in Ring \ {i} : t.ring[j] # NoSlot => u.pool[t.ring[j]] = t.pool[t.ring[j]]
    BY <1>6 DEF SavedInto
  <2>2. /\ u.n = t.n /\ u.frame = t.frame /\ u.bad = t.bad /\ u.snaps = t.snaps
        /\ u.seed = t.seed /\ u.conf = t.conf /\ u.wrong = t.wrong
    BY <1>4, <2>1 DEF SimOf
  <2> QED BY <1>4, <2>1, <2>2
<1>8. i \in Ring /\ i = (s.frame + 1) % NUM_SAVE_STATES
  BY <1>2, <1>4, InTheRing
<1> HIDE DEF i
<1>9. clean /\ b # None => b < s.n + 1
  BY <1>2 DEF b, FramesOrNone, Frames, None
(* Nothing that was there before knows of a wrong input of this frame.     *)
<1>10. \A k \in Nat : k <= s.n => BadBefore(u, k) = BadBefore(s, k)
  BY <1>2, <1>7, SlotTypes DEF BadBefore, b
<1>11. clean => BadBefore(u, s.n + 1) = b
  BY <1>7, <1>9 DEF BadBefore
<1>12. StatesSaved(u, lead, top, clean)
  <2> SUFFICES ASSUME NEW f \in 0 .. s.frame + 1, top < f + NUM_SAVE_STATES
               PROVE  /\ u.ring[f % NUM_SAVE_STATES] # NoSlot
                      /\ SavedAt(u, f).n = f + lead
                      /\ clean => SavedAt(u, f).bad = BadBefore(u, f + lead)
    BY <1>7 DEF StatesSaved
  <2>1. s.ring \in [Ring -> {NoSlot} \cup Slots]
    BY <1>2 DEF SimOf
  <2>2. CASE f = s.frame + 1
    <3>1. f % NUM_SAVE_STATES = i /\ u.ring[i] = slot /\ f + lead = s.n + 1
      BY <2>1, <2>2, <1>2, <1>7, <1>8
    <3> QED BY <3>1, <1>7, <1>11, SlotTypes DEF SavedAt
  <2>3. CASE f # s.frame + 1
    <3>1. f \in Nat /\ f \in 0 .. s.frame /\ f + lead \in Nat /\ f + lead <= s.n
      BY <2>3, <1>2
    <3>2. f % NUM_SAVE_STATES \in Ring /\ f % NUM_SAVE_STATES # i
      <4>1. f < s.frame + 1 /\ s.frame + 1 < f + NUM_SAVE_STATES
        BY <3>1, <1>2, ConstantsTyped
      <4>2. NUM_SAVE_STATES \in Nat \ {0} /\ s.frame + 1 \in Nat
        BY <1>2, ConstantsTyped
      <4>3. f % NUM_SAVE_STATES # (s.frame + 1) % NUM_SAVE_STATES
        BY <4>1, <4>2, <3>1, RoundTheRing
      <4> QED BY <4>3, <3>1, <1>8, InTheRing
    <3>3. /\ s.ring[f % NUM_SAVE_STATES] # NoSlot /\ SavedAt(s, f).n = f + lead
          /\ clean => SavedAt(s, f).bad = BadBefore(s, f + lead)
      BY <3>1 DEF Kept, StatesSaved
    <3>4. u.ring[f % NUM_SAVE_STATES] = s.ring[f % NUM_SAVE_STATES]
      BY <3>2, <2>1, <1>7
    <3>5. SavedAt(u, f) = SavedAt(s, f)
      BY <3>2, <3>3, <3>4, <1>7 DEF SavedAt
    <3> QED BY <3>1, <3>3, <3>4, <3>5, <1>10
  <2> QED BY <2>2, <2>3
<1>13. /\ r \in SimOf /\ r = [u EXCEPT !.snaps = r.snaps]
       /\ IF u.n % SNAPSHOT_EVERY # 0 THEN r.snaps = u.snaps
          ELSE /\ DOMAIN r.snaps = DOMAIN u.snaps \cup {u.n}
               /\ r.snaps[u.n].state = BuildSnapshot(u)
               /\ \A f \in DOMAIN u.snaps \ {u.n} : r.snaps[f] = u.snaps[f]
  BY <1>2, <1>7, CaptureProperties
<1> HIDE DEF r
<1>14. /\ r.n = u.n /\ r.frame = u.frame /\ r.bad = u.bad /\ r.conf = u.conf /\ r.wrong = u.wrong
       /\ r.seed = u.seed /\ r.pool = u.pool /\ r.ring = u.ring /\ r.lost = u.lost
  BY <1>7, <1>13 DEF SimOf
<1>15. Rings(r) /\ StatesSaved(r, lead, top, clean)
  BY <1>7, <1>12, <1>14 DEF Rings, StatesSaved, SavedAt, BadBefore
<1>16. SnapsTaken(r, lead, top, clean)
  <2>1. ASSUME NEW f \in DOMAIN s.snaps
        PROVE  /\ f \in Nat /\ f % SNAPSHOT_EVERY = 0 /\ lead < f /\ f <= top + lead
               /\ f <= s.n => /\ s.snaps[f].state.match = s.seed /\ s.snaps[f].state.frame = f - lead
                              /\ clean => s.snaps[f].state.bad = BadBefore(r, f)
    <3>1. f \in Nat
      BY <1>2 DEF SimOf, MapsTo, Frames
    <3>2. f <= s.n => BadBefore(r, f) = BadBefore(s, f)
      BY <3>1, <1>10, <1>14 DEF BadBefore
    <3> QED BY <3>1, <3>2 DEF Kept, SnapsTaken
  <2>2. CASE u.n % SNAPSHOT_EVERY # 0
    <3> SUFFICES ASSUME NEW f \in DOMAIN r.snaps
                 PROVE  /\ f % SNAPSHOT_EVERY = 0 /\ lead < f /\ f <= top + lead
                        /\ f <= r.n => /\ r.snaps[f].state.match = r.seed
                                       /\ r.snaps[f].state.frame = f - lead
                                       /\ clean => r.snaps[f].state.bad = BadBefore(r, f)
      BY DEF SnapsTaken
    <3>1. r.snaps = s.snaps
      BY <2>2, <1>7, <1>13
    <3>2. f % SNAPSHOT_EVERY = 0 /\ f \in Nat
      BY <2>1, <3>1
    <3>3. f # s.n + 1
      BY <2>2, <3>2, <1>7
    <3>4. f <= r.n => f <= s.n
      BY <3>2, <3>3, <1>2, <1>7, <1>14
    <3> QED BY <2>1, <3>1, <3>4, <1>7, <1>14
  <2>3. CASE u.n % SNAPSHOT_EVERY = 0
    <3> SUFFICES ASSUME NEW f \in DOMAIN r.snaps
                 PROVE  /\ f % SNAPSHOT_EVERY = 0 /\ lead < f /\ f <= top + lead
                        /\ f <= r.n => /\ r.snaps[f].state.match = r.seed
                                       /\ r.snaps[f].state.frame = f - lead
                                       /\ clean => r.snaps[f].state.bad = BadBefore(r, f)
      BY DEF SnapsTaken
    <3>1. CASE f = u.n
      <4>1. r.snaps[f].state = BuildSnapshot(u)
        BY <2>3, <3>1, <1>13
      <4>2. /\ r.snaps[f].state.match = u.seed /\ r.snaps[f].state.frame = u.frame
            /\ r.snaps[f].state.bad = u.bad
        BY <4>1 DEF BuildSnapshot
      <4>3. clean => BadBefore(r, f) = u.bad
        BY <3>1, <1>7, <1>11, <1>14 DEF BadBefore
      <4>4. f - lead = u.frame /\ lead < f /\ f <= top + lead
        BY <3>1, <1>2, <1>7
      <4> QED BY <2>3, <3>1, <4>2, <4>3, <4>4, <1>14
    <3>2. CASE f # u.n
      <4>1. f \in DOMAIN s.snaps /\ r.snaps[f] = s.snaps[f]
        BY <2>3, <3>2, <1>7, <1>13
      <4>2. f <= r.n => f <= s.n
        BY <2>1, <4>1, <3>2, <1>2, <1>7, <1>14
      <4> QED BY <2>1, <4>1, <4>2, <1>7, <1>14
    <3> QED BY <3>1, <3>2
  <2> QED BY <2>2, <2>3
<1>17. Kept(r, lead, top, clean)
  <2>1. r.n = r.frame + lead /\ r.seed # 0
    BY <1>2, <1>7, <1>14
  <2>2. clean /\ r.bad # None => r.bad < r.n
    BY <1>7, <1>9, <1>14
  <2> QED BY <2>1, <2>2, <1>13, <1>15, <1>16 DEF Kept
<1> QED BY <1>1, <1>7, <1>14, <1>17 DEF b

-----------------------------------------------------------------------------
(* Going back.                                                             *)

(* What GGPO simulates again, frame by frame.                              *)
Reloaded(s, c, w) == [LoadState(s, s.wrong) EXCEPT !.conf = c, !.wrong = w]

Again(h, s, c, w, forked, n) ==
  /\ h[0] = Reloaded(s, c, w)
  /\ \A k \in 1 .. n : h[k] = Advance(h[k - 1], forked \/ (w # None /\ s.wrong + k - 1 >= w))

(* The frames played again after a rollback, one at a time.                 *)
LEMMA PollAgain ==
  ASSUME NEW s, NEW c, NEW w, NEW forked, NEW n \in Nat, n = s.frame - s.wrong,
         ~(s.wrong = None \/ s.wrong >= c)
  PROVE  \E h : Again(h, s, c, w, forked, n) /\ Poll(s, c, w, forked) = h[n]
<1> DEFINE base == Reloaded(s, c, w)
           Op(t, i) == Advance(t, forked \/ (w # None /\ i >= w))
           seq == [j \in 1 .. s.frame - s.wrong |-> s.wrong + j - 1]
           Rec(g, j) == g = [T \in SUBSET (1 .. j) |->
                               IF T = {} THEN base ELSE Op(g[T \ {Max(T)}], seq[Max(T)])]
           iter == CHOOSE g : Rec(g, n)
<1>1. Poll(s, c, w, forked) = FoldLeft(Op, base, seq)
  BY DEF Poll, Reloaded
<1>2. DOMAIN seq = 1 .. n /\ \A k \in 1 .. n : seq[k] = s.wrong + k - 1
  OBVIOUS
<1> HIDE DEF base, Op, seq
<1>3. FoldLeft(Op, base, seq) = iter[1 .. n]
  BY <1>2 DEF FoldLeft, MapThenFoldSet
<1> HIDE DEF Rec
<1>4. \A j \in 0 .. n : \E g : Rec(g, j)
  <2> DEFINE B == {j \in 0 .. n : ~\E g : Rec(g, j)}
  <2> SUFFICES ASSUME B # {} PROVE FALSE
    OBVIOUS
  <2>1. PICK j \in B : \A k \in B : j <= k
    <3>1. B \in SUBSET Nat
      OBVIOUS
    <3> QED BY <3>1, LeastNatural
  <2>2. j # 0
    <3>1. Rec([T \in SUBSET (1 .. 0) |-> base], 0)
      BY DEF Rec
    <3> QED BY <3>1, <2>1
  <2>3. j \in 1 .. n /\ j - 1 \in 0 .. n /\ j - 1 \notin B
    BY <2>1, <2>2
  <2>4. PICK g0 : Rec(g0, j - 1)
    BY <2>3
  <2>g. \A T \in SUBSET (1 .. j - 1) :
          g0[T] = IF T = {} THEN base ELSE Op(g0[T \ {Max(T)}], seq[Max(T)])
    BY <2>4, Zenon DEF Rec
  <2> DEFINE g1 == [T \in SUBSET (1 .. j) |-> IF j \in T THEN Op(g0[T \ {j}], seq[j]) ELSE g0[T]]
  <2>5. ASSUME NEW T \in SUBSET (1 .. j)
        PROVE  g1[T] = IF T = {} THEN base ELSE Op(g1[T \ {Max(T)}], seq[Max(T)])
    <3>1. CASE T = {}
      <4>1. g1[T] = g0[{}] /\ {} \in SUBSET (1 .. j - 1)
        BY <3>1
      <4> QED BY <3>1, <4>1, <2>g
    <3>2. CASE j \in T
      <4>0. j \in Nat /\ T # {}
        BY <3>2, <2>3
      <4>1. Max(T) \in T /\ \A y \in T : y <= Max(T)
        BY <4>0, GreatestOfFirst
      <4>2. Max(T) \in 1 .. j /\ j <= Max(T)
        BY <4>1, <3>2
      <4>4. Max(T) = j
        BY <4>0, <4>2
      <4>3. g1[T \ {j}] = g0[T \ {j}]
        OBVIOUS
      <4> QED BY <3>2, <4>4, <4>3, <4>0
    <3>3. CASE T # {} /\ j \notin T
      <4>1. T \in SUBSET (1 .. j - 1) /\ g1[T] = g0[T]
        BY <3>3, <2>3
      <4>0. j \in Nat /\ T # {}
        BY <3>3, <2>3
      <4>2. Max(T) \in T
        BY <4>0, GreatestOfFirst
      <4>3. g1[T \ {Max(T)}] = g0[T \ {Max(T)}]
        BY <3>3
      <4>4. g0[T] = Op(g0[T \ {Max(T)}], seq[Max(T)])
        BY <2>g, <4>1, <3>3
      <4> QED BY <3>3, <4>1, <4>3, <4>4
    <3> QED BY <3>1, <3>2, <3>3
  <2>6. Rec(g1, j)
    <3>1. g1 = [T \in SUBSET (1 .. j) |-> g1[T]]
      OBVIOUS
    <3> HIDE DEF g1
    <3> QED BY <3>1, <2>5 DEF Rec
  <2> QED BY <2>1, <2>6
<1>5. Rec(iter, n)
  <2>1. \E g : Rec(g, n)
    BY <1>4
  <2> QED BY <2>1
<1> HIDE DEF iter
<1>i. \A T \in SUBSET (1 .. n) :
        iter[T] = IF T = {} THEN base ELSE Op(iter[T \ {Max(T)}], seq[Max(T)])
  BY <1>5, Zenon DEF Rec
<1> DEFINE h == [k \in 0 .. n |-> iter[1 .. k]]
<1>6. h[0] = base
  <2>1. h[0] = iter[1 .. 0] /\ 1 .. 0 = {} /\ {} \in SUBSET (1 .. n)
    OBVIOUS
  <2> QED BY <1>i, <2>1
<1>7. ASSUME NEW k \in 1 .. n PROVE h[k] = Op(h[k - 1], seq[k])
  <2>1. 1 .. k \in SUBSET (1 .. n) /\ k \in 1 .. k /\ k \in Nat
    OBVIOUS
  <2>2. Max(1 .. k) \in 1 .. k /\ \A y \in 1 .. k : y <= Max(1 .. k)
    BY <2>1, GreatestOfFirst
  <2>3. Max(1 .. k) = k
    BY <2>1, <2>2
  <2>4. (1 .. k) \ {k} = 1 .. (k - 1) /\ k - 1 \in 0 .. n
    OBVIOUS
  <2>5. iter[1 .. k] = Op(iter[(1 .. k) \ {k}], seq[k])
    BY <1>i, <2>1, <2>3
  <2>6. h[k] = iter[1 .. k] /\ h[k - 1] = iter[1 .. (k - 1)]
    BY <2>4
  <2> QED BY <2>4, <2>5, <2>6
<1>8. Poll(s, c, w, forked) = h[n]
  BY <1>1, <1>3
<1> HIDE DEF h
<1>9. \A k \in 1 .. n : h[k] = Advance(h[k - 1], forked \/ (w # None /\ s.wrong + k - 1 >= w))
  BY <1>2, <1>7 DEF Op
<1> QED BY <1>6, <1>8, <1>9 DEF base, Again

(* What can be loaded is the timeline up to there, without a wrong input.  *)
LEMMA LoadProperties ==
  ASSUME NEW s, NEW lead \in Nat, NEW clean \in BOOLEAN, NEW c \in 0 .. LastFrame + Delay,
         NEW w \in FramesOrNone, Kept(s, lead, s.frame, clean), clean => WrongFrom(s),
         s.wrong # None, s.wrong <= s.frame, s.frame < s.wrong + NUM_SAVE_STATES
  PROVE  LET r == Reloaded(s, c, w) IN
         /\ Kept(r, lead, s.frame, clean)
         /\ clean => r.bad = None
         /\ r.frame = s.wrong /\ r.conf = c /\ r.wrong = w /\ r.seed = s.seed
<1> DEFINE k == s.wrong
           state == SavedAt(s, k)
           r == [s EXCEPT !.frame = k, !.n = state.n, !.bad = state.bad, !.conf = c, !.wrong = w]
<1>1. /\ s \in SimOf /\ Rings(s) /\ s.seed # 0 /\ s.n = s.frame + lead
      /\ k \in Frames /\ k \in Nat /\ s.frame \in Nat /\ s.n \in Nat /\ k \in 0 .. s.frame
      /\ s.bad \in FramesOrNone
  BY SlotTypes, ConstantsTyped DEF Kept, SimOf, FramesOrNone, Frames, None
<1>2. k % NUM_SAVE_STATES \in Ring
  BY <1>1, InTheRing
<1>3. /\ s.ring[k % NUM_SAVE_STATES] # NoSlot /\ state.n = k + lead
      /\ clean => state.bad = BadBefore(s, k + lead)
  BY <1>1 DEF Kept, StatesSaved
<1>4. state \in SlotOf
  BY <1>1, <1>2, <1>3 DEF SavedAt, SimOf
<1>5. Reloaded(s, c, w) = r
  <2>1. LoadState(s, k) = [s EXCEPT !.frame = k, !.n = state.n, !.bad = state.bad]
    BY ConstantsTyped DEF LoadState, SavedAt
  <2> HIDE DEF state
  <2> QED BY <2>1, <1>1 DEF SimOf, Reloaded
<1>6. clean => s.bad = k + lead
  <2>1. s.wrong + (s.n - s.frame) = k + lead
    BY <1>1
  <2> QED BY <2>1 DEF WrongFrom
<1>7. clean => state.bad = None
  BY <1>1, <1>3, <1>6 DEF BadBefore
<1> HIDE DEF state
<1>8. /\ r \in SimOf /\ r.n = k + lead /\ r.frame = k /\ r.bad = state.bad /\ r.conf = c
      /\ r.wrong = w /\ r.seed = s.seed /\ r.pool = s.pool /\ r.ring = s.ring
      /\ r.lost = s.lost /\ r.snaps = s.snaps
  <2>1. state.n \in Frames /\ state.bad \in FramesOrNone
    BY <1>4 DEF SlotOf
  <2> QED BY <1>1, <1>3, <2>1 DEF SimOf
<1> HIDE DEF r, k
<1>9. \A f \in Nat : clean /\ f <= k + lead => BadBefore(s, f) = None /\ BadBefore(r, f) = None
  BY <1>1, <1>6, <1>7, <1>8 DEF BadBefore
<1>10. Rings(r)
  BY <1>1, <1>8 DEF Rings
<1>11. StatesSaved(r, lead, s.frame, clean)
  <2> SUFFICES ASSUME NEW f \in 0 .. k, s.frame < f + NUM_SAVE_STATES
               PROVE  /\ r.ring[f % NUM_SAVE_STATES] # NoSlot
                      /\ SavedAt(r, f).n = f + lead
                      /\ clean => SavedAt(r, f).bad = BadBefore(r, f + lead)
    BY <1>8 DEF StatesSaved
  <2>1. f \in 0 .. s.frame /\ f + lead \in Nat /\ f + lead <= k + lead
    BY <1>1
  <2>2. /\ s.ring[f % NUM_SAVE_STATES] # NoSlot /\ SavedAt(s, f).n = f + lead
        /\ clean => SavedAt(s, f).bad = BadBefore(s, f + lead)
    BY <2>1 DEF Kept, StatesSaved
  <2>3. SavedAt(r, f) = SavedAt(s, f)
    BY <1>8 DEF SavedAt
  <2> QED BY <2>1, <2>2, <2>3, <1>8, <1>9
<1>12. SnapsTaken(r, lead, s.frame, clean)
  <2> SUFFICES ASSUME NEW f \in DOMAIN s.snaps
               PROVE  /\ f % SNAPSHOT_EVERY = 0 /\ lead < f /\ f <= s.frame + lead
                      /\ f <= r.n => /\ s.snaps[f].state.match = s.seed
                                     /\ s.snaps[f].state.frame = f - lead
                                     /\ clean => s.snaps[f].state.bad = BadBefore(r, f)
    BY <1>8 DEF SnapsTaken
  <2>1. f \in Nat
    BY <1>1 DEF SimOf, MapsTo, Frames
  <2>2. f <= r.n => f <= s.n /\ f <= k + lead
    BY <2>1, <1>1, <1>8
  <2> QED BY <2>1, <2>2, <1>9 DEF Kept, SnapsTaken
<1>13. Kept(r, lead, s.frame, clean)
  BY <1>1, <1>7, <1>8, <1>10, <1>11, <1>12 DEF Kept
<1> QED BY <1>5, <1>7, <1>8, <1>13 DEF k

(* Whatever arrives and is guessed, polling GGPO leaves a machine at the   *)
(* frame it was at, on a timeline that is wrong from the first wrong guess *)
(* on and nowhere before.                                                  *)
LEMMA PollProperties ==
  ASSUME NEW s, NEW lead \in Nat, NEW clean \in BOOLEAN, NEW c \in 0 .. LastFrame + Delay, NEW w,
         Kept(s, lead, s.frame, clean), Guessing(s), clean => WrongFrom(s), s.conf <= c,
         w \in IF s.wrong = None \/ s.wrong >= c THEN {s.wrong} ELSE {None} \cup c .. s.frame - 1
  PROVE  LET r == Poll(s, c, w, ~clean) IN
         /\ Kept(r, lead, s.frame, clean) /\ Guessing(r)
         /\ clean => WrongFrom(r)
         /\ r.frame = s.frame /\ r.conf = c /\ r.seed = s.seed /\ r.n = s.n
<1> DEFINE r == Poll(s, c, w, ~clean)
<1>1. /\ s \in SimOf /\ s.n = s.frame + lead /\ s.frame \in Nat /\ s.n \in Nat /\ s.n <= LastFrame
      /\ s.conf \in Nat /\ s.wrong \in FramesOrNone
      /\ s.frame < s.conf + GGPO_MAX_PREDICTION_FRAMES /\ Delay <= s.conf
      /\ s.wrong # None => s.conf <= s.wrong /\ s.wrong < s.frame
  BY ConstantsTyped DEF Kept, Guessing, SimOf, Frames
<1>2. CASE s.wrong = None \/ s.wrong >= c
  <2>1. r = [s EXCEPT !.conf = c]
    BY <1>2 DEF Poll
  <2>2. /\ r \in SimOf /\ r.n = s.n /\ r.frame = s.frame /\ r.bad = s.bad /\ r.conf = c
        /\ r.wrong = s.wrong /\ r.seed = s.seed /\ r.pool = s.pool /\ r.ring = s.ring
        /\ r.lost = s.lost /\ r.snaps = s.snaps
    BY <1>1, <2>1 DEF SimOf
  <2> HIDE DEF r
  <2>3. Kept(r, lead, s.frame, clean)
    BY <2>2 DEF Kept, Rings, StatesSaved, SnapsTaken, SavedAt, BadBefore
  <2>4. Guessing(r)
    BY <1>1, <1>2, <2>2, ConstantsTyped DEF Guessing
  <2> QED BY <2>2, <2>3, <2>4 DEF WrongFrom, r
<1>3. CASE ~(s.wrong = None \/ s.wrong >= c)
  <2>1. /\ s.wrong \in Nat /\ s.wrong < c /\ s.wrong < s.frame /\ s.conf <= s.wrong
        /\ w \in {None} \cup c .. s.frame - 1 /\ w \in FramesOrNone
        /\ s.wrong <= s.frame /\ s.frame < s.wrong + NUM_SAVE_STATES
    BY <1>1, <1>3, ConstantsTyped DEF FramesOrNone, Frames, None
  <2> DEFINE n == s.frame - s.wrong
  <2>2. n \in Nat
    BY <1>1, <2>1
  <2>3. PICK h : Again(h, s, c, w, ~clean, n) /\ r = h[n]
    <3>1. n = s.frame - s.wrong
      OBVIOUS
    <3> HIDE DEF n
    <3> QED BY <1>3, <2>2, <3>1, PollAgain
  <2> HIDE DEF r, n
  <2> DEFINE Good(k) == /\ Kept(h[k], lead, s.frame, clean) /\ h[k].frame = s.wrong + k
                        /\ h[k].conf = c /\ h[k].wrong = w /\ h[k].seed = s.seed
                        /\ clean => h[k].bad = IF w # None /\ w < s.wrong + k THEN w + lead ELSE None
  <2>4. Good(0)
    <3>1. w # None => ~(w < s.wrong + 0)
      BY <2>1 DEF None
    <3>2. /\ Kept(h[0], lead, s.frame, clean) /\ h[0].frame = s.wrong
          /\ clean => h[0].bad = None
          /\ h[0].conf = c /\ h[0].wrong = w /\ h[0].seed = s.seed
      <4> DEFINE b == Reloaded(s, c, w)
      <4>1. w \in FramesOrNone /\ s.wrong # None /\ s.wrong <= s.frame
            /\ s.frame < s.wrong + NUM_SAVE_STATES
        BY <1>3, <2>1
      <4>2. /\ Kept(b, lead, s.frame, clean) /\ b.frame = s.wrong
            /\ clean => b.bad = None
            /\ b.conf = c /\ b.wrong = w /\ b.seed = s.seed
        BY <4>1, LoadProperties
      <4> QED BY <4>2, <2>3 DEF Again
    <3> QED BY <2>1, <3>1, <3>2
  <2>5. ASSUME NEW k \in 1 .. n, Good(k - 1) PROVE Good(k)
    <3> DEFINE t == h[k - 1]
               bad == ~clean \/ (w # None /\ s.wrong + k - 1 >= w)
    <3>1. /\ k - 1 \in Nat /\ k \in Nat /\ s.wrong + k - 1 < s.frame
          /\ s.wrong + k - 1 = s.wrong + (k - 1)
      BY <2>1, <2>2, <1>1 DEF n
    <3>2. /\ Kept(t, lead, s.frame, clean) /\ t.frame = s.wrong + k - 1 /\ t.conf = c /\ t.wrong = w
          /\ t.seed = s.seed
          /\ clean => t.bad = IF w # None /\ w < s.wrong + k - 1 THEN w + lead ELSE None
      BY <2>5, <3>1
    <3>3. t.n = s.wrong + k - 1 + lead
      BY <3>2 DEF Kept
    <3>4. h[k] = Advance(t, bad) /\ bad \in BOOLEAN
      BY <2>3 DEF Again
    <3> HIDE DEF t, bad, Good
    <3>5. /\ Kept(h[k], lead, s.frame, clean)
          /\ h[k].frame = t.frame + 1 /\ h[k].bad = IF bad /\ t.bad = None THEN t.n ELSE t.bad
          /\ h[k].conf = c /\ h[k].wrong = w /\ h[k].seed = s.seed
      <4>1. t.frame < s.frame /\ s.frame + lead <= LastFrame
        BY <3>1, <3>2, <1>1
      <4>2. /\ Kept(Advance(t, bad), lead, s.frame, clean)
            /\ Advance(t, bad).frame = t.frame + 1
            /\ Advance(t, bad).bad = IF bad /\ t.bad = None THEN t.n ELSE t.bad
            /\ Advance(t, bad).conf = t.conf /\ Advance(t, bad).wrong = t.wrong
            /\ Advance(t, bad).seed = t.seed
        BY <4>1, <3>2, <3>4, <1>1, AdvanceProperties, SMT
      <4> QED BY <4>2, <3>2, <3>4
    <3>6. clean => h[k].bad = IF w # None /\ w < s.wrong + k THEN w + lead ELSE None
      <4> SUFFICES ASSUME clean
                   PROVE  h[k].bad = IF w # None /\ w < s.wrong + k THEN w + lead ELSE None
        OBVIOUS
      <4>1. CASE w = None
        BY <4>1, <3>2, <3>5 DEF bad
      <4>2. CASE w # None
        <5>1. w \in Nat /\ w + lead \in Nat
          BY <4>2, <2>1, <1>1
        <5>2. bad <=> s.wrong + k - 1 >= w
          BY <4>2 DEF bad
        <5>3. CASE w < s.wrong + k - 1
          BY <5>1, <5>3, <4>2, <3>1, <3>2, <3>5, <2>1, SlotTypes
        <5>4. CASE w = s.wrong + k - 1
          BY <5>1, <5>2, <5>4, <4>2, <3>1, <3>2, <3>3, <3>5, <2>1, SlotTypes
        <5>5. CASE w > s.wrong + k - 1
          BY <5>1, <5>2, <5>5, <4>2, <3>1, <3>2, <3>5, <2>1, SlotTypes
        <5> QED BY <5>1, <5>3, <5>4, <5>5, <3>1, <2>1
      <4> QED BY <4>1, <4>2
    <3>7. h[k].frame = s.wrong + k
      BY <3>1, <3>2, <3>5, <2>1
    <3> QED BY <3>5, <3>6, <3>7 DEF Good
  <2>6. Good(n)
    <3> HIDE DEF Good
    <3> DEFINE B == {k \in 0 .. n : ~Good(k)}
    <3> SUFFICES ASSUME B # {} PROVE FALSE
      BY <2>2
    <3>1. PICK k \in B : \A j \in B : k <= j
      <4>1. B \in SUBSET Nat
        OBVIOUS
      <4> QED BY <4>1, LeastNatural
    <3>2. k \in 1 .. n /\ k - 1 \in 0 .. n /\ k - 1 \notin B /\ ~Good(k)
      BY <2>2, <2>4, <3>1
    <3> QED BY <2>5, <3>2
  <2>7. /\ Kept(r, lead, s.frame, clean) /\ r.frame = s.frame /\ r.conf = c /\ r.wrong = w
        /\ r.seed = s.seed
        /\ clean => r.bad = IF w # None /\ w < s.frame THEN w + lead ELSE None
    <3>1. s.wrong + n = s.frame
      BY <1>1, <2>1 DEF n
    <3> QED BY <2>3, <2>6, <3>1
  <2>8. r.n = s.n
    BY <1>1, <2>7 DEF Kept
  <2>9. Guessing(r)
    <3>1. Delay <= c /\ s.frame < c + GGPO_MAX_PREDICTION_FRAMES
      BY <1>1, ConstantsTyped
    <3>2. w # None => c <= w /\ w < s.frame
      BY <2>1, <1>1
    <3> QED BY <2>7, <3>1, <3>2 DEF Guessing
  <2>10. clean => WrongFrom(r)
    <3>1. w # None => w < s.frame
      BY <2>1, <1>1
    <3>2. r.n - r.frame = lead
      BY <1>1, <2>7, <2>8
    <3> QED BY <2>7, <3>1, <3>2 DEF WrongFrom
  <2> QED BY <2>7, <2>8, <2>9, <2>10 DEF r
<1> QED BY <1>2, <1>3

-----------------------------------------------------------------------------
(* A battle under way.                                                     *)

LEMMA InBattleTypes ==
  ASSUME NEW s, NEW seed, NEW clean \in BOOLEAN, NEW left \in BOOLEAN, NEW on \in BOOLEAN,
         InBattle(s, seed, clean, left, on)
  PROVE  /\ s \in SimOf /\ s.seed = seed /\ seed # 0 /\ Rings(s) /\ Guessing(s)
         /\ clean => WrongFrom(s)
         /\ s.n \in Nat /\ s.n <= LastFrame /\ s.frame \in Nat /\ s.frame <= s.n
         /\ s.conf \in Nat /\ s.wrong \in FramesOrNone /\ s.bad \in FramesOrNone
         /\ s.n - s.frame \in Nat /\ s.n - s.frame \in Frames
BY ConstantsTyped DEF InBattle, SimOf, Frames

(* GGPO's poll, with or without a rollback, keeps what a battle promises.   *)
LEMMA PollKeeps ==
  ASSUME NEW s, NEW seed, NEW clean \in BOOLEAN, NEW left \in BOOLEAN, NEW on \in BOOLEAN,
         InBattle(s, seed, clean, left, on),
         NEW c \in 0 .. LastFrame + Delay, s.conf <= c, NEW w,
         w \in IF s.wrong = None \/ s.wrong >= c THEN {s.wrong} ELSE {None} \cup c .. s.frame - 1
  PROVE  LET r == Poll(s, c, w, ~clean) IN
         /\ InBattle(r, seed, clean, left, on)
         /\ r.frame = s.frame /\ r.conf = c /\ r.n = s.n
<1> DEFINE r == Poll(s, c, w, ~clean)
           lead == s.n - s.frame
<1>1. /\ s \in SimOf /\ s.seed = seed /\ seed # 0 /\ Rings(s) /\ Guessing(s)
      /\ clean => WrongFrom(s)
      /\ s.n \in Nat /\ s.frame \in Nat /\ lead \in Nat /\ s.conf \in Nat
  BY InBattleTypes
<1>2. CASE s.frame = 0
  <2>1. Unstarted(s)
    BY <1>2 DEF InBattle
  <2>2. r = [s EXCEPT !.conf = c]
    BY <2>1 DEF Unstarted, Poll
  <2>3. /\ r \in SimOf /\ r.n = s.n /\ r.frame = s.frame /\ r.bad = s.bad /\ r.conf = c
        /\ r.wrong = s.wrong /\ r.seed = s.seed /\ r.pool = s.pool /\ r.ring = s.ring
        /\ r.lost = s.lost /\ r.snaps = s.snaps
    BY <1>1, <2>2 DEF SimOf
  <2> HIDE DEF r
  <2>4. Rings(r) /\ Unstarted(r)
    BY <1>1, <2>1, <2>3 DEF Rings, Unstarted
  <2>5. clean => WrongFrom(r)
    BY <1>1, <2>3 DEF WrongFrom
  <2>6. Guessing(r)
    BY <1>1, <1>2, <2>1, <2>3, ConstantsTyped DEF Guessing, Unstarted
  <2>7. InBattle(r, seed, clean, left, on)
    BY <1>1, <1>2, <2>3, <2>4, <2>5, <2>6 DEF InBattle
  <2> QED BY <2>3, <2>7 DEF r
<1>3. CASE s.frame # 0
  <2>1. left /\ on /\ Kept(s, lead, s.frame, clean)
    BY <1>3 DEF InBattle
  <2> HIDE DEF lead
  <2>2. /\ Kept(r, lead, s.frame, clean) /\ Guessing(r)
        /\ clean => WrongFrom(r)
        /\ r.frame = s.frame /\ r.conf = c /\ r.seed = s.seed /\ r.n = s.n
    BY <1>1, <2>1, PollProperties
  <2> HIDE DEF r
  <2>3. r \in SimOf /\ Rings(r)
    BY <2>2 DEF Kept
  <2>4. r.n - r.frame = lead
    BY <2>2 DEF lead
  <2>5. InBattle(r, seed, clean, left, on)
    BY <1>1, <1>3, <2>1, <2>2, <2>3, <2>4 DEF InBattle, lead
  <2> QED BY <2>2, <2>5 DEF r
<1> QED BY <1>2, <1>3

(* The first state, that of GGPO's frame 0.                                *)
LEMMA FirstSave ==
  ASSUME NEW s \in SimOf, NEW clean \in BOOLEAN, Rings(s), s.seed # 0, s.frame = 0, Unstarted(s)
  PROVE  LET r == SaveState(s) IN
         /\ Kept(r, s.n, 0, clean)
         /\ r.frame = 0 /\ r.n = s.n /\ r.bad = None /\ r.wrong = None /\ r.conf = s.conf
         /\ r.seed = s.seed
<1> DEFINE r == SaveState(s)
<1>1. PICK slot \in Slots : SavedInto(s, r, s.frame % NUM_SAVE_STATES, slot)
  BY SaveProperties
<1> HIDE DEF r
<1>2. s.frame % NUM_SAVE_STATES = 0 % NUM_SAVE_STATES /\ 0 % NUM_SAVE_STATES \in Ring
  BY InTheRing
<1>3. /\ r \in SimOf /\ Rings(r) /\ r = [s EXCEPT !.ring = r.ring, !.pool = r.pool]
      /\ r.ring = [s.ring EXCEPT ![0 % NUM_SAVE_STATES] = slot]
      /\ r.pool[slot].n = s.n /\ r.pool[slot].bad = s.bad
  BY <1>1, <1>2 DEF SavedInto
<1>4. /\ r.n = s.n /\ r.frame = 0 /\ r.bad = None /\ r.wrong = None /\ r.conf = s.conf
      /\ r.snaps = s.snaps /\ r.seed = s.seed /\ DOMAIN s.snaps = {} /\ s.bad = None
      /\ s.n \in Nat
  <2>1. /\ r.n = s.n /\ r.frame = s.frame /\ r.bad = s.bad /\ r.wrong = s.wrong
        /\ r.conf = s.conf /\ r.snaps = s.snaps /\ r.seed = s.seed
    BY <1>3 DEF SimOf
  <2>2. s.wrong = None /\ s.bad = None /\ DOMAIN s.snaps = {}
    BY DEF Unstarted
  <2>3. s.n \in Nat
    BY ConstantsTyped DEF SimOf, Frames
  <2> QED BY <2>1, <2>2, <2>3
<1>5. r.ring[0 % NUM_SAVE_STATES] = slot
  BY <1>2, <1>3 DEF SimOf
<1>6. StatesSaved(r, s.n, 0, clean)
  <2> SUFFICES ASSUME NEW f \in 0 .. 0
               PROVE  /\ r.ring[f % NUM_SAVE_STATES] # NoSlot
                      /\ SavedAt(r, f).n = f + s.n
                      /\ clean => SavedAt(r, f).bad = BadBefore(r, f + s.n)
    BY <1>4 DEF StatesSaved
  <2>1. f = 0
    OBVIOUS
  <2>2. f % NUM_SAVE_STATES = 0 % NUM_SAVE_STATES
    BY <2>1
  <2>3. r.ring[f % NUM_SAVE_STATES] = slot /\ slot # NoSlot
    BY <2>2, <1>5, SlotTypes
  <2>4. SavedAt(r, f).n = s.n /\ SavedAt(r, f).bad = None
    BY <2>3, <1>3, <1>4 DEF SavedAt
  <2>5. BadBefore(r, f + s.n) = None
    BY <1>4 DEF BadBefore
  <2> QED BY <2>1, <2>3, <2>4, <2>5, <1>4
<1>7. SnapsTaken(r, s.n, 0, clean)
  BY <1>4 DEF SnapsTaken
<1>8. Kept(r, s.n, 0, clean)
  BY <1>3, <1>4, <1>6, <1>7 DEF Kept
<1> QED BY <1>4, <1>8 DEF r

(* Room for a frame more, and a guess for it.                              *)
Guessed(s, w) == [s EXCEPT !.wrong = w]

(* A guess of a frame does not disturb the states kept for it.              *)
LEMMA KeptFurther ==
  ASSUME NEW s, NEW lead \in Nat, NEW clean \in BOOLEAN, Kept(s, lead, s.frame, clean),
         NEW w \in FramesOrNone
  PROVE  LET r == Guessed(s, w) IN
         /\ Kept(r, lead, s.frame + 1, clean)
         /\ r.frame = s.frame /\ r.n = s.n /\ r.bad = s.bad /\ r.wrong = w /\ r.conf = s.conf
         /\ r.seed = s.seed
<1> DEFINE r == Guessed(s, w)
<1>1. s \in SimOf /\ s.frame \in Nat
  BY ConstantsTyped DEF Kept, SimOf, Frames
<1>2. /\ r \in SimOf /\ r.n = s.n /\ r.frame = s.frame /\ r.bad = s.bad /\ r.conf = s.conf
      /\ r.wrong = w /\ r.seed = s.seed /\ r.pool = s.pool /\ r.ring = s.ring
      /\ r.lost = s.lost /\ r.snaps = s.snaps
  BY <1>1 DEF SimOf, Guessed
<1> HIDE DEF r
<1>3. StatesSaved(r, lead, s.frame + 1, clean)
  <2> SUFFICES ASSUME NEW f \in 0 .. s.frame, s.frame + 1 < f + NUM_SAVE_STATES
               PROVE  /\ r.ring[f % NUM_SAVE_STATES] # NoSlot
                      /\ SavedAt(r, f).n = f + lead
                      /\ clean => SavedAt(r, f).bad = BadBefore(r, f + lead)
    BY <1>2 DEF StatesSaved
  <2>1. s.frame < f + NUM_SAVE_STATES
    BY <1>1, ConstantsTyped
  <2> QED BY <2>1, <1>2 DEF Kept, StatesSaved, SavedAt, BadBefore
<1>4. SnapsTaken(r, lead, s.frame + 1, clean)
  <2> SUFFICES ASSUME NEW f \in DOMAIN s.snaps
               PROVE  /\ f % SNAPSHOT_EVERY = 0 /\ lead < f /\ f <= s.frame + 1 + lead
                      /\ f <= s.n => /\ s.snaps[f].state.match = s.seed
                                     /\ s.snaps[f].state.frame = f - lead
                                     /\ clean => s.snaps[f].state.bad = BadBefore(r, f)
    BY <1>2 DEF SnapsTaken
  <2>1. f \in Nat
    BY <1>1 DEF SimOf, MapsTo, Frames
  <2>2. /\ f % SNAPSHOT_EVERY = 0 /\ lead < f /\ f <= s.frame + lead
        /\ f <= s.n => /\ s.snaps[f].state.match = s.seed
                       /\ s.snaps[f].state.frame = f - lead
                       /\ clean => s.snaps[f].state.bad = BadBefore(s, f)
    BY DEF Kept, SnapsTaken
  <2>3. BadBefore(r, f) = BadBefore(s, f)
    BY <1>2 DEF BadBefore
  <2> QED BY <2>1, <2>2, <2>3, <1>1
<1>5. Kept(r, lead, s.frame + 1, clean)
  BY <1>2, <1>3, <1>4 DEF Kept, Rings
<1> QED BY <1>2, <1>5 DEF r

(* The flow of the battle is one of four.                                   *)
LEMMA FlowTypes ==
  ASSUME NEW n \in Nat
  PROVE  Flow(n) \in {"idle", "fight", "over", "result"}
BY DEF Flow

(* The first frame of the timeline is the first one out of the idle ones.  *)
LEMMA LeadFound ==
  ASSUME NEW m, NEW s, NEW seed, NEW clean \in BOOLEAN, NEW on \in BOOLEAN,
         ctl[m].leftIdle \in BOOLEAN, InBattle(s, seed, clean, ctl[m].leftIdle, on)
  PROVE  IF LeftIdle(m, s) THEN Lead(s.n - s.frame)
         ELSE s.frame = 0 /\ Flow(s.n) = "idle" /\ \A j \in 0 .. s.n : Flow(j) = "idle"
<1>1. s.n \in Frames /\ s.n \in Nat /\ s.frame \in Nat /\ s.n - s.frame \in Nat
  BY InBattleTypes DEF Frames
<1>2. CASE ctl[m].leftIdle
  BY <1>2 DEF InBattle, LeftIdle
<1>3. CASE ~ctl[m].leftIdle
  <2>1. s.frame = 0 /\ \A j \in 0 .. s.n - 1 : Flow(j) = "idle"
    BY <1>3 DEF InBattle
  <2>2. s.n - s.frame = s.n
    BY <2>1, <1>1
  <2>3. CASE Flow(s.n) = "idle"
    <3>1. \A j \in 0 .. s.n : j = s.n \/ j \in 0 .. s.n - 1
      BY <1>1
    <3> QED BY <1>3, <2>1, <2>3, <3>1 DEF LeftIdle
  <2>4. CASE Flow(s.n) # "idle"
    BY <1>1, <2>1, <2>2, <2>4 DEF LeftIdle, Lead
  <2> QED BY <2>3, <2>4
<1> QED BY <1>2, <1>3

(* A frame more, in or before the timeline, or none at the prediction      *)
(* limit.                                                                  *)
FrameOn(s, t) ==
  /\ t.conf = s.conf /\ s.frame <= t.frame
  /\ t.n = s.n + 1 \/ (t = s /\ s.n >= 1)

(* A frame played keeps what a battle promises.                             *)
LEMMA FrameKeeps ==
  ASSUME NEW m, NEW s, NEW seed, NEW clean \in BOOLEAN, clean <=> ~Forked(m), NEW lead,
         lead = s.n - s.frame, ctl[m].leftIdle \in BOOLEAN,
         InBattle(s, seed, clean, ctl[m].leftIdle, TRUE), s.n < LastFrame,
         NEW guessed \in BOOLEAN, guessed => s.frame >= s.conf
  PROVE  /\ InBattle(Frame(m, s, guessed), seed, clean, LeftIdle(m, s), TRUE)
         /\ FrameOn(s, Frame(m, s, guessed))
<1> DEFINE t == Frame(m, s, guessed)
<1> SUFFICES /\ InBattle(t, seed, clean, LeftIdle(m, s), TRUE)
             /\ t.conf = s.conf /\ s.frame <= t.frame
             /\ t.n = s.n + 1 \/ (t = s /\ s.n >= 1)
  BY DEF FrameOn
<1>0. clean \in BOOLEAN /\ LeftIdle(m, s) \in BOOLEAN /\ lead \in Nat
  BY InBattleTypes DEF LeftIdle
<1>1. /\ s \in SimOf /\ s.seed = seed /\ seed # 0 /\ Rings(s) /\ Guessing(s)
      /\ clean => WrongFrom(s)
      /\ s.n \in Nat /\ s.n < LastFrame /\ s.frame \in Nat /\ s.frame <= s.n
      /\ s.conf \in Nat /\ s.wrong \in FramesOrNone /\ s.bad \in FramesOrNone
      /\ lead \in Nat /\ lead \in Frames /\ lead + s.frame = s.n
  <2>1. /\ s \in SimOf /\ s.seed = seed /\ seed # 0 /\ Rings(s) /\ Guessing(s)
        /\ clean => WrongFrom(s)
    BY DEF InBattle
  <2>3. s.n \in Nat /\ s.frame \in Nat /\ s.frame <= s.n
    BY InBattleTypes
  <2>2. s.conf \in Nat /\ s.wrong \in FramesOrNone /\ s.bad \in FramesOrNone /\ lead \in Frames
    BY InBattleTypes
  <2> QED BY <2>1, <2>2, <2>3
<1>2. IF LeftIdle(m, s) THEN Lead(lead)
      ELSE s.frame = 0 /\ Flow(s.n) = "idle" /\ \A j \in 0 .. s.n : Flow(j) = "idle"
  BY <1>0, <1>1, LeadFound
<1>3. CASE ~LeftIdle(m, s)
  <2>1. t = [s EXCEPT !.n = s.n + 1]
    BY <1>3 DEF Frame, InTimeline
  <2>2. s.frame = 0 /\ Unstarted(s) /\ \A j \in 0 .. s.n : Flow(j) = "idle"
    BY <1>1, <1>2, <1>3 DEF InBattle
  <2>3. s.n + 1 \in Frames
    BY <1>1, ConstantsTyped DEF Frames
  <2>4. /\ t \in SimOf /\ t.n = s.n + 1 /\ t.frame = s.frame /\ t.bad = s.bad /\ t.conf = s.conf
        /\ t.wrong = s.wrong /\ t.seed = s.seed /\ t.pool = s.pool /\ t.ring = s.ring
        /\ t.lost = s.lost /\ t.snaps = s.snaps
    BY <1>1, <2>1, <2>3 DEF SimOf
  <2> HIDE DEF t
  <2>5. Rings(t) /\ Unstarted(t) /\ Guessing(t)
    BY <1>1, <2>2, <2>4 DEF Rings, Unstarted, Guessing
  <2>6. WrongFrom(t)
    BY <2>5 DEF WrongFrom, Unstarted
  <2>7. t.frame <= t.n /\ t.n - 1 = s.n
    BY <1>1, <2>2, <2>4
  <2>8. InBattle(t, seed, clean, LeftIdle(m, s), TRUE)
    BY <1>1, <1>3, <2>2, <2>4, <2>5, <2>6, <2>7 DEF InBattle
  <2>9. t.conf = s.conf /\ s.frame <= t.frame /\ t.n = s.n + 1
    BY <1>1, <2>4
  <2> QED BY <2>8, <2>9, Zenon
<1>4. CASE LeftIdle(m, s) /\ AheadOf(s)
  <2>1. t = s
    BY <1>4 DEF Frame, InTimeline
  <2>2. s.frame >= 1
    BY <1>1, <1>4, ConstantsTyped DEF AheadOf
  <2>3. Lead(lead)
    BY <1>2, <1>4
  <2>4. Kept(s, lead, s.frame, clean)
    BY <1>1, <2>2 DEF InBattle
  <2>5. InBattle(s, seed, clean, LeftIdle(m, s), TRUE)
    <3> HIDE DEF t
    <3> QED BY <1>1, <1>4, <2>2, <2>3, <2>4 DEF InBattle
  <2>7. s.n >= 1 /\ s.frame <= s.frame
    BY <1>1, <2>2
  <2> QED BY <2>1, <2>5, <2>7
<1>5. CASE LeftIdle(m, s) /\ ~AheadOf(s)
  <2> DEFINE first == IF s.frame = 0 THEN SaveState(s) ELSE s
             w == IF guessed /\ first.wrong = None THEN s.frame ELSE first.wrong
             x == Guessed(first, w)
             bad == guessed \/ Forked(m)
  <2>1. t = Advance(x, bad)
    BY <1>5 DEF Frame, InTimeline, Guessed
  <2>2. /\ Kept(first, lead, s.frame, clean) /\ first.frame = s.frame /\ first.n = s.n
        /\ first.bad = s.bad /\ first.wrong = s.wrong /\ first.conf = s.conf /\ first.seed = seed
    <3>1. CASE s.frame = 0
      <4>1. Unstarted(s)
        BY <1>1, <3>1 DEF InBattle
      <4>2. s.wrong = None /\ s.bad = None /\ lead = s.n
        BY <1>1, <3>1, <4>1 DEF Unstarted
      <4>3. first = SaveState(s)
        BY <3>1
      <4> HIDE DEF first
      <4> QED BY <1>0, <1>1, <3>1, <4>1, <4>2, <4>3, FirstSave
    <3>2. CASE s.frame # 0
      BY <1>1, <3>2 DEF InBattle
    <3> QED BY <3>1, <3>2
  <2>3. w = (IF guessed /\ s.wrong = None THEN s.frame ELSE s.wrong) /\ w \in FramesOrNone
    <3>1. s.frame \in FramesOrNone
      BY <1>1, ConstantsTyped DEF Frames, FramesOrNone
    <3> QED BY <1>1, <2>2, <3>1
  <2> HIDE DEF first, w, t
  <2>4. /\ Kept(x, lead, s.frame + 1, clean)
        /\ x.frame = s.frame /\ x.n = s.n /\ x.bad = s.bad /\ x.wrong = w /\ x.conf = s.conf
        /\ x.seed = seed
    <3> HIDE DEF x
    <3>1. Kept(first, lead, first.frame, clean)
      BY <2>2
    <3>2. /\ Kept(x, lead, first.frame + 1, clean)
          /\ x.frame = first.frame /\ x.n = first.n /\ x.bad = first.bad /\ x.wrong = w
          /\ x.conf = first.conf /\ x.seed = first.seed
      <4>1. w \in FramesOrNone /\ lead \in Nat /\ clean \in BOOLEAN /\ first.frame \in Nat
        BY <1>0, <1>1, <2>2, <2>3
      <4> QED BY <3>1, <4>1, KeptFurther DEF x
    <3> QED BY <2>2, <3>2
  <2> HIDE DEF x
  <2>5. bad \in BOOLEAN /\ guessed \in BOOLEAN
    BY DEF Forked
  <2> HIDE DEF bad
  <2>6. /\ Kept(t, lead, s.frame + 1, clean)
        /\ t.frame = s.frame + 1 /\ t.bad = IF bad /\ s.bad = None THEN s.n ELSE s.bad
        /\ t.conf = s.conf /\ t.wrong = w /\ t.seed = seed
    <3>1. s.frame < s.frame + 1 /\ s.frame + 1 + lead <= LastFrame /\ s.frame + 1 \in Nat
      BY <1>1, ConstantsTyped
    <3>2. x.frame < s.frame + 1
      BY <3>1, <2>4
    <3>3. /\ Kept(Advance(x, bad), lead, s.frame + 1, clean)
          /\ Advance(x, bad).frame = x.frame + 1
          /\ Advance(x, bad).bad = IF bad /\ x.bad = None THEN x.n ELSE x.bad
          /\ Advance(x, bad).conf = x.conf /\ Advance(x, bad).wrong = x.wrong
          /\ Advance(x, bad).seed = x.seed
      BY <1>0, <1>1, <2>4, <2>5, <3>1, <3>2, AdvanceProperties
    <3> QED BY <2>1, <2>4, <3>3
  <2>7. t.n = s.n + 1 /\ t \in SimOf /\ Rings(t)
    BY <1>1, <2>6 DEF Kept
  <2>8. Guessing(t)
    <3>1. s.frame + 1 < s.conf + GGPO_MAX_PREDICTION_FRAMES /\ Delay <= s.conf
      BY <1>1, <1>5, ConstantsTyped DEF AheadOf, Depth, Guessing
    <3>2. w # None => s.conf <= w /\ w < s.frame + 1
      <4>1. CASE guessed /\ s.wrong = None
        BY <1>1, <2>3, <4>1
      <4>2. CASE ~(guessed /\ s.wrong = None)
        <5>1. w = s.wrong
          BY <2>3, <4>2
        <5>2. w # None => s.conf <= s.wrong /\ s.wrong < s.frame /\ s.wrong \in Nat
          BY <1>1, <5>1, ConstantsTyped DEF Guessing, FramesOrNone, Frames
        <5> QED BY <1>1, <5>1, <5>2
      <4> QED BY <4>1, <4>2
    <3> QED BY <2>6, <3>1, <3>2 DEF Guessing
  <2>9. clean => WrongFrom(t)
    <3> SUFFICES ASSUME clean PROVE WrongFrom(t)
      OBVIOUS
    <3>1. bad = guessed
      BY <2>5 DEF bad
    <3>2. t.n - t.frame = lead
      BY <1>1, <2>6, <2>7
    <3>3. s.bad = IF s.wrong = None THEN None ELSE s.wrong + lead
      BY <1>1 DEF WrongFrom
    <3>4. s.bad = None <=> s.wrong = None
      <4>1. s.wrong # None => s.wrong \in Nat
        BY <1>1, ConstantsTyped DEF FramesOrNone, Frames
      <4>2. s.wrong # None => s.wrong + lead \in Nat
        BY <4>1, <1>1
      <4> QED BY <3>3, <4>2, SlotTypes
    <3>5. CASE guessed /\ s.wrong = None
      <4>1. w = s.frame /\ t.bad = s.n /\ s.frame # None
        BY <2>3, <2>6, <3>1, <3>4, <3>5, <1>1, SlotTypes
      <4> QED BY <4>1, <3>2, <2>6, <1>1 DEF WrongFrom
    <3>6. CASE ~(guessed /\ s.wrong = None)
      <4>1. w = s.wrong /\ t.bad = s.bad
        BY <2>3, <2>6, <3>1, <3>4, <3>6
      <4> QED BY <4>1, <3>2, <3>3, <2>6 DEF WrongFrom
    <3> QED BY <3>5, <3>6
  <2>10. InBattle(t, seed, clean, LeftIdle(m, s), TRUE)
    <3>1. t.n - t.frame = lead /\ t.frame # 0 /\ t.frame <= t.n
      BY <1>1, <2>6, <2>7
    <3>2. Kept(t, t.n - t.frame, t.frame, clean)
      BY <2>6, <3>1
    <3>3. Lead(t.n - t.frame)
      BY <1>2, <1>5, <3>1
    <3> QED BY <1>1, <1>5, <2>6, <2>7, <2>8, <2>9, <3>1, <3>2, <3>3 DEF InBattle
  <2>11. t.conf = s.conf /\ s.frame <= t.frame
    BY <1>1, <2>6
  <2> QED BY <2>7, <2>10, <2>11
<1> QED BY <1>0, <1>3, <1>4, <1>5

-----------------------------------------------------------------------------
(* A session step, one message and one snapshot after the other.           *)

Received(h, t, m, msgs, n) ==
  /\ h[0] = t
  /\ \A k \in 1 .. n : h[k] = Receive(h[k - 1], m, msgs[k])

(* The messages that have come are received one after the other.            *)
LEMMA ReceiveInTurn ==
  ASSUME NEW t, NEW m, NEW S, NEW msgs \in Seq(S), NEW n \in Nat, n = Len(msgs)
  PROVE  \E h : Received(h, t, m, msgs, n) /\ ReceiveAll(t, m, msgs) = h[n]
<1> DEFINE base == t
           Op(u, msg) == Receive(u, m, msg)
           seq == msgs
           Rec(g, j) == g = [T \in SUBSET (1 .. j) |->
                               IF T = {} THEN base ELSE Op(g[T \ {Max(T)}], seq[Max(T)])]
           iter == CHOOSE g : Rec(g, n)
<1>1. ReceiveAll(t, m, msgs) = FoldLeft(Op, base, seq)
  BY DEF ReceiveAll
<1>2. DOMAIN seq = 1 .. n
  OBVIOUS
<1> HIDE DEF base, Op, seq
<1>3. FoldLeft(Op, base, seq) = iter[1 .. n]
  BY <1>2 DEF FoldLeft, MapThenFoldSet
<1> HIDE DEF Rec
<1>4. \A j \in 0 .. n : \E g : Rec(g, j)
  <2> DEFINE B == {j \in 0 .. n : ~\E g : Rec(g, j)}
  <2> SUFFICES ASSUME B # {} PROVE FALSE
    OBVIOUS
  <2>1. PICK j \in B : \A k \in B : j <= k
    <3>1. B \in SUBSET Nat
      OBVIOUS
    <3> QED BY <3>1, LeastNatural
  <2>2. j # 0
    <3>1. Rec([T \in SUBSET (1 .. 0) |-> base], 0)
      BY DEF Rec
    <3> QED BY <3>1, <2>1
  <2>3. j \in 1 .. n /\ j - 1 \in 0 .. n /\ j - 1 \notin B
    BY <2>1, <2>2
  <2>4. PICK g0 : Rec(g0, j - 1)
    BY <2>3
  <2>g. \A T \in SUBSET (1 .. j - 1) :
          g0[T] = IF T = {} THEN base ELSE Op(g0[T \ {Max(T)}], seq[Max(T)])
    BY <2>4, Zenon DEF Rec
  <2> DEFINE g1 == [T \in SUBSET (1 .. j) |-> IF j \in T THEN Op(g0[T \ {j}], seq[j]) ELSE g0[T]]
  <2>5. ASSUME NEW T \in SUBSET (1 .. j)
        PROVE  g1[T] = IF T = {} THEN base ELSE Op(g1[T \ {Max(T)}], seq[Max(T)])
    <3>1. CASE T = {}
      <4>1. g1[T] = g0[{}] /\ {} \in SUBSET (1 .. j - 1)
        BY <3>1
      <4> QED BY <3>1, <4>1, <2>g
    <3>2. CASE j \in T
      <4>0. j \in Nat /\ T # {}
        BY <3>2, <2>3
      <4>1. Max(T) \in T /\ \A y \in T : y <= Max(T)
        BY <4>0, GreatestOfFirst
      <4>2. Max(T) \in 1 .. j /\ j <= Max(T)
        BY <4>1, <3>2
      <4>4. Max(T) = j
        BY <4>0, <4>2
      <4>3. g1[T \ {j}] = g0[T \ {j}]
        OBVIOUS
      <4> QED BY <3>2, <4>4, <4>3, <4>0
    <3>3. CASE T # {} /\ j \notin T
      <4>1. T \in SUBSET (1 .. j - 1) /\ g1[T] = g0[T]
        BY <3>3, <2>3
      <4>0. j \in Nat /\ T # {}
        BY <3>3, <2>3
      <4>2. Max(T) \in T
        BY <4>0, GreatestOfFirst
      <4>3. g1[T \ {Max(T)}] = g0[T \ {Max(T)}]
        BY <3>3
      <4>4. g0[T] = Op(g0[T \ {Max(T)}], seq[Max(T)])
        BY <2>g, <4>1, <3>3
      <4> QED BY <3>3, <4>1, <4>3, <4>4
    <3> QED BY <3>1, <3>2, <3>3
  <2>6. Rec(g1, j)
    <3>1. g1 = [T \in SUBSET (1 .. j) |-> g1[T]]
      OBVIOUS
    <3> HIDE DEF g1
    <3> QED BY <3>1, <2>5 DEF Rec
  <2> QED BY <2>1, <2>6
<1>5. Rec(iter, n)
  <2>1. \E g : Rec(g, n)
    BY <1>4
  <2> QED BY <2>1
<1> HIDE DEF iter
<1>i. \A T \in SUBSET (1 .. n) :
        iter[T] = IF T = {} THEN base ELSE Op(iter[T \ {Max(T)}], seq[Max(T)])
  BY <1>5, Zenon DEF Rec
<1> DEFINE h == [k \in 0 .. n |-> iter[1 .. k]]
<1>6. h[0] = base
  <2>1. h[0] = iter[1 .. 0] /\ 1 .. 0 = {} /\ {} \in SUBSET (1 .. n)
    OBVIOUS
  <2> QED BY <1>i, <2>1
<1>7. ASSUME NEW k \in 1 .. n PROVE h[k] = Op(h[k - 1], seq[k])
  <2>1. 1 .. k \in SUBSET (1 .. n) /\ k \in 1 .. k /\ k \in Nat
    OBVIOUS
  <2>2. Max(1 .. k) \in 1 .. k /\ \A y \in 1 .. k : y <= Max(1 .. k)
    BY <2>1, GreatestOfFirst
  <2>3. Max(1 .. k) = k
    BY <2>1, <2>2
  <2>4. (1 .. k) \ {k} = 1 .. (k - 1) /\ k - 1 \in 0 .. n
    OBVIOUS
  <2>5. iter[1 .. k] = Op(iter[(1 .. k) \ {k}], seq[k])
    BY <1>i, <2>1, <2>3
  <2>6. h[k] = iter[1 .. k] /\ h[k - 1] = iter[1 .. (k - 1)]
    BY <2>4
  <2> QED BY <2>4, <2>5, <2>6
<1>8. ReceiveAll(t, m, msgs) = h[n]
  BY <1>1, <1>3
<1> HIDE DEF h
<1>9. \A k \in 1 .. n : h[k] = Receive(h[k - 1], m, msgs[k])
  BY <1>7 DEF Op, seq
<1> QED BY <1>6, <1>8, <1>9 DEF base, Received

Reconciled(h, t, m, n) ==
  /\ h[0] = t
  /\ \A k \in 1 .. n : h[k] = IF k - 1 \in Settled(t.snaps, m) THEN Reconcile(h[k - 1], m, k - 1)
                             ELSE h[k - 1]

(* The settled snapshots are reconciled one after the other.                *)
LEMMA ReconcileInTurn ==
  ASSUME NEW t, NEW m, NEW n \in Nat, n = LastFrame + 1
  PROVE  \E h : Reconciled(h, t, m, n) /\ ReconcileAll(t, m) = h[n]
<1> DEFINE base == t
           settled == Settled(t.snaps, m)
           Op(u, f) == IF f \in settled THEN Reconcile(u, m, f) ELSE u
           seq == [i \in 1 .. LastFrame + 1 |-> i - 1]
           Rec(g, j) == g = [T \in SUBSET (1 .. j) |->
                               IF T = {} THEN base ELSE Op(g[T \ {Max(T)}], seq[Max(T)])]
           iter == CHOOSE g : Rec(g, n)
<1>1. ReconcileAll(t, m) = FoldLeft(Op, base, seq)
  BY DEF ReconcileAll
<1>2. DOMAIN seq = 1 .. n /\ \A k \in 1 .. n : seq[k] = k - 1
  OBVIOUS
<1> HIDE DEF base, Op, seq
<1>3. FoldLeft(Op, base, seq) = iter[1 .. n]
  BY <1>2 DEF FoldLeft, MapThenFoldSet
<1> HIDE DEF Rec
<1>4. \A j \in 0 .. n : \E g : Rec(g, j)
  <2> DEFINE B == {j \in 0 .. n : ~\E g : Rec(g, j)}
  <2> SUFFICES ASSUME B # {} PROVE FALSE
    OBVIOUS
  <2>1. PICK j \in B : \A k \in B : j <= k
    <3>1. B \in SUBSET Nat
      OBVIOUS
    <3> QED BY <3>1, LeastNatural
  <2>2. j # 0
    <3>1. Rec([T \in SUBSET (1 .. 0) |-> base], 0)
      BY DEF Rec
    <3> QED BY <3>1, <2>1
  <2>3. j \in 1 .. n /\ j - 1 \in 0 .. n /\ j - 1 \notin B
    BY <2>1, <2>2
  <2>4. PICK g0 : Rec(g0, j - 1)
    BY <2>3
  <2>g. \A T \in SUBSET (1 .. j - 1) :
          g0[T] = IF T = {} THEN base ELSE Op(g0[T \ {Max(T)}], seq[Max(T)])
    BY <2>4, Zenon DEF Rec
  <2> DEFINE g1 == [T \in SUBSET (1 .. j) |-> IF j \in T THEN Op(g0[T \ {j}], seq[j]) ELSE g0[T]]
  <2>5. ASSUME NEW T \in SUBSET (1 .. j)
        PROVE  g1[T] = IF T = {} THEN base ELSE Op(g1[T \ {Max(T)}], seq[Max(T)])
    <3>1. CASE T = {}
      <4>1. g1[T] = g0[{}] /\ {} \in SUBSET (1 .. j - 1)
        BY <3>1
      <4> QED BY <3>1, <4>1, <2>g
    <3>2. CASE j \in T
      <4>0. j \in Nat /\ T # {}
        BY <3>2, <2>3
      <4>1. Max(T) \in T /\ \A y \in T : y <= Max(T)
        BY <4>0, GreatestOfFirst
      <4>2. Max(T) \in 1 .. j /\ j <= Max(T)
        BY <4>1, <3>2
      <4>4. Max(T) = j
        BY <4>0, <4>2
      <4>3. g1[T \ {j}] = g0[T \ {j}]
        OBVIOUS
      <4> QED BY <3>2, <4>4, <4>3, <4>0
    <3>3. CASE T # {} /\ j \notin T
      <4>1. T \in SUBSET (1 .. j - 1) /\ g1[T] = g0[T]
        BY <3>3, <2>3
      <4>0. j \in Nat /\ T # {}
        BY <3>3, <2>3
      <4>2. Max(T) \in T
        BY <4>0, GreatestOfFirst
      <4>3. g1[T \ {Max(T)}] = g0[T \ {Max(T)}]
        BY <3>3
      <4>4. g0[T] = Op(g0[T \ {Max(T)}], seq[Max(T)])
        BY <2>g, <4>1, <3>3
      <4> QED BY <3>3, <4>1, <4>3, <4>4
    <3> QED BY <3>1, <3>2, <3>3
  <2>6. Rec(g1, j)
    <3>1. g1 = [T \in SUBSET (1 .. j) |-> g1[T]]
      OBVIOUS
    <3> HIDE DEF g1
    <3> QED BY <3>1, <2>5 DEF Rec
  <2> QED BY <2>1, <2>6
<1>5. Rec(iter, n)
  <2>1. \E g : Rec(g, n)
    BY <1>4
  <2> QED BY <2>1
<1> HIDE DEF iter
<1>i. \A T \in SUBSET (1 .. n) :
        iter[T] = IF T = {} THEN base ELSE Op(iter[T \ {Max(T)}], seq[Max(T)])
  BY <1>5, Zenon DEF Rec
<1> DEFINE h == [k \in 0 .. n |-> iter[1 .. k]]
<1>6. h[0] = base
  <2>1. h[0] = iter[1 .. 0] /\ 1 .. 0 = {} /\ {} \in SUBSET (1 .. n)
    OBVIOUS
  <2> QED BY <1>i, <2>1
<1>7. ASSUME NEW k \in 1 .. n PROVE h[k] = Op(h[k - 1], seq[k])
  <2>1. 1 .. k \in SUBSET (1 .. n) /\ k \in 1 .. k /\ k \in Nat
    OBVIOUS
  <2>2. Max(1 .. k) \in 1 .. k /\ \A y \in 1 .. k : y <= Max(1 .. k)
    BY <2>1, GreatestOfFirst
  <2>3. Max(1 .. k) = k
    BY <2>1, <2>2
  <2>4. (1 .. k) \ {k} = 1 .. (k - 1) /\ k - 1 \in 0 .. n
    OBVIOUS
  <2>5. iter[1 .. k] = Op(iter[(1 .. k) \ {k}], seq[k])
    BY <1>i, <2>1, <2>3
  <2>6. h[k] = iter[1 .. k] /\ h[k - 1] = iter[1 .. (k - 1)]
    BY <2>4
  <2> QED BY <2>4, <2>5, <2>6
<1>8. ReconcileAll(t, m) = h[n]
  BY <1>1, <1>3
<1> HIDE DEF h
<1>9. \A k \in 1 .. n : h[k] = IF k - 1 \in Settled(t.snaps, m) THEN Reconcile(h[k - 1], m, k - 1)
                             ELSE h[k - 1]
  BY <1>2, <1>7 DEF Op, settled
<1> QED BY <1>6, <1>8, <1>9 DEF base, Reconciled

(* A map of frames is a function on some of them, with values of its type.  *)
LEMMA MapTypes ==
  ASSUME NEW S, NEW f \in MapsTo(S)
  PROVE  /\ DOMAIN f \in SUBSET Frames /\ \A k \in DOMAIN f : f[k] \in S
         /\ f = [k \in DOMAIN f |-> f[k]]
BY DEF MapsTo

(* A function on frames with values of a type is a map.                     *)
LEMMA MapOf ==
  ASSUME NEW S, NEW f, NEW D \in SUBSET Frames, f \in [D -> S]
  PROVE  f \in MapsTo(S)
BY DEF MapsTo

(* What is left of a map is a map.                                          *)
LEMMA DropTypes ==
  ASSUME NEW S, NEW f \in MapsTo(S), NEW k
  PROVE  /\ Drop(f, k) \in MapsTo(S) /\ DOMAIN Drop(f, k) = DOMAIN f \ {k}
         /\ \A j \in DOMAIN f \ {k} : Drop(f, k)[j] = f[j]
<1>1. DOMAIN f \in SUBSET Frames /\ \A j \in DOMAIN f : f[j] \in S
  BY MapTypes
<1>2. Drop(f, k) = [j \in DOMAIN f \ {k} |-> f[j]]
  BY DEF Drop, Restrict
<1>3. Drop(f, k) \in [DOMAIN f \ {k} -> S] /\ DOMAIN f \ {k} \in SUBSET Frames
  BY <1>1, <1>2
<1> QED BY <1>2, <1>3, MapOf

(* A map with one more entry is a map.                                      *)
LEMMA WithTypes ==
  ASSUME NEW S, NEW f \in MapsTo(S), NEW k \in Frames, NEW v \in S
  PROVE  /\ With(f, k, v) \in MapsTo(S) /\ DOMAIN With(f, k, v) = DOMAIN f \cup {k}
         /\ With(f, k, v)[k] = v
         /\ \A j \in DOMAIN f \ {k} : With(f, k, v)[j] = f[j]
<1>1. DOMAIN f \in SUBSET Frames /\ \A j \in DOMAIN f : f[j] \in S
  BY MapTypes
<1>2. With(f, k, v) \in [DOMAIN f \cup {k} -> S] /\ DOMAIN f \cup {k} \in SUBSET Frames
  BY <1>1 DEF With
<1>3. With(f, k, v) \in MapsTo(S)
  BY <1>2, MapOf
<1> QED BY <1>3 DEF With

(* The snapshots of t are some of these, whatever else became of them.     *)
SomeOf(t, snaps) ==
  DOMAIN t.snaps \subseteq DOMAIN snaps /\ \A f \in DOMAIN t.snaps : t.snaps[f].state = snaps[f].state

(* Nothing is sent but a report, or nothing at all.                        *)
Reports(t, out) == t.out = out \/ t.out = Append(out, [type |-> "desync"])

(* A comparison changes no map, and is seen only where two snapshots differ.*)
LEMMA CompareTypes ==
  ASSUME NEW t \in SteppingOf, NEW m, NEW mine, NEW theirs
  PROVE  LET r == Compare(t, m, mine, theirs) IN
         /\ r \in SteppingOf /\ r.snaps = t.snaps /\ r.pending = t.pending /\ Reports(r, t.out)
         /\ r.seen # t.seen => SnapshotGameplayDiffers(mine, theirs)
<1> DEFINE r == Compare(t, m, mine, theirs)
<1>1. CASE ~SnapshotGameplayDiffers(mine, theirs)
  BY <1>1 DEF Compare, Reports
<1>2. CASE SnapshotGameplayDiffers(mine, theirs)
  <2> DEFINE out == IF t.reported THEN t.out ELSE Append(t.out, [type |-> "desync"])
             left == t.leaving \/ ctl[m].at = "battle"
  <2>1. r = [t EXCEPT !.out = out, !.reported = TRUE, !.seen = TRUE, !.abort = TRUE, !.leaving = left]
    BY <1>2 DEF Compare, AbortForDesync, SteppingOf
  <2>2. [type |-> "desync"] \in Message
    BY DEF Message
  <2>3. out \in Seq(Message) /\ (out = t.out \/ out = Append(t.out, [type |-> "desync"]))
    BY <2>2 DEF SteppingOf
  <2>4. left \in BOOLEAN
    BY DEF SteppingOf
  <2> HIDE DEF out, left, r
  <2> QED BY <1>2, <2>1, <2>3, <2>4 DEF SteppingOf, Reports, r
<1> QED BY <1>1, <1>2

(* One message.                                                            *)
LEMMA ReceiveTypes ==
  ASSUME NEW t \in SteppingOf, NEW m, NEW msg \in Message
  PROVE  LET r == Receive(t, m, msg) IN
         /\ r \in SteppingOf /\ SomeOf(r, t.snaps) /\ Reports(r, t.out)
         /\ \A f \in DOMAIN r.pending :
              \/ f \in DOMAIN t.pending /\ r.pending[f] = t.pending[f]
              \/ msg.type = "snapshot" /\ f = msg.n /\ r.pending[f] = msg.state
         /\ r.seen # t.seen =>
              /\ msg.type = "snapshot" /\ msg.n \in DOMAIN t.snaps
              /\ SnapshotGameplayDiffers(t.snaps[msg.n].state, msg.state)
<1> DEFINE r == Receive(t, m, msg)
<1> SUFFICES /\ r \in SteppingOf /\ SomeOf(r, t.snaps) /\ Reports(r, t.out)
             /\ \A f \in DOMAIN r.pending :
                  \/ f \in DOMAIN t.pending /\ r.pending[f] = t.pending[f]
                  \/ msg.type = "snapshot" /\ f = msg.n /\ r.pending[f] = msg.state
             /\ r.seen # t.seen =>
                  /\ msg.type = "snapshot" /\ msg.n \in DOMAIN t.snaps
                  /\ SnapshotGameplayDiffers(t.snaps[msg.n].state, msg.state)
  OBVIOUS
<1>1. CASE msg.type # "snapshot"
  <2>1. CASE t.abort
    <3>1. r = t
      BY <1>1, <2>1 DEF Receive
    <3> HIDE DEF r
    <3> QED BY <3>1 DEF SomeOf, Reports
  <2>2. CASE ~t.abort
    <3> DEFINE left == t.leaving \/ ctl[m].at = "battle"
    <3>1. r = [t EXCEPT !.abort = TRUE, !.leaving = left]
      BY <1>1, <2>2 DEF Receive, AbortForDesync
    <3>2. left \in BOOLEAN
      BY DEF SteppingOf
    <3> HIDE DEF r, left
    <3> QED BY <3>1, <3>2 DEF SteppingOf, SomeOf, Reports
  <2> QED BY <2>1, <2>2
<1>2. CASE msg.type = "snapshot" /\ msg.n \notin DOMAIN t.snaps
  <2>1. msg.n \in Frames /\ msg.state \in SnapState
    BY <1>2 DEF Message
  <2>2. r = [t EXCEPT !.pending = With(t.pending, msg.n, msg.state)]
    BY <1>2 DEF Receive, OnSnapshot, SteppingOf
  <2>3. t.pending \in MapsTo(SnapState)
    BY DEF SteppingOf
  <2> DEFINE p == With(t.pending, msg.n, msg.state)
  <2>4. /\ p \in MapsTo(SnapState) /\ DOMAIN p = DOMAIN t.pending \cup {msg.n}
        /\ p[msg.n] = msg.state /\ \A j \in DOMAIN t.pending \ {msg.n} : p[j] = t.pending[j]
    <3> DEFINE q == t.pending
               k == msg.n
               v == msg.state
    <3>1. q \in MapsTo(SnapState) /\ k \in Frames /\ v \in SnapState
      BY <2>1, <2>3
    <3> HIDE DEF q, k, v
    <3>2. /\ With(q, k, v) \in MapsTo(SnapState) /\ DOMAIN With(q, k, v) = DOMAIN q \cup {k}
          /\ With(q, k, v)[k] = v
          /\ \A j \in DOMAIN q \ {k} : With(q, k, v)[j] = q[j]
      BY <3>1, WithTypes
    <3> QED BY <3>2 DEF q, k, v
  <2> HIDE DEF p
  <2>5. /\ r = [t EXCEPT !.pending = p]
    BY <2>2 DEF p
  <2> HIDE DEF r
  <2>6. r \in SteppingOf /\ r.pending = p /\ r.snaps = t.snaps /\ r.out = t.out /\ r.seen = t.seen
    BY <2>4, <2>5 DEF SteppingOf
  <2> QED BY <1>2, <2>4, <2>6 DEF SomeOf, Reports
<1>3. CASE msg.type = "snapshot" /\ msg.n \in DOMAIN t.snaps
  <2> DEFINE n == msg.n
             u == Compare(t, m, t.snaps[n].state, msg.state)
  <2>1. /\ u \in SteppingOf /\ u.snaps = t.snaps /\ u.pending = t.pending /\ Reports(u, t.out)
        /\ u.seen # t.seen => SnapshotGameplayDiffers(t.snaps[n].state, msg.state)
    BY CompareTypes
  <2>2. t.snaps \in MapsTo(SnapOf)
    BY DEF SteppingOf
  <2> DEFINE kept == [t.snaps EXCEPT ![n].confirmed = TRUE]
             snaps == IF t.snaps[n].sent THEN Drop(t.snaps, n) ELSE kept
  <2>3. r = [u EXCEPT !.snaps = snaps]
    <3>1. r = OnSnapshot(t, m, msg)
      BY <1>3 DEF Receive
    <3> HIDE DEF u
    <3>2. OnSnapshot(t, m, msg) = IF t.snaps[n].sent THEN [u EXCEPT !.snaps = Drop(@, n)]
                                  ELSE [u EXCEPT !.snaps[n].confirmed = TRUE]
      BY <1>3 DEF OnSnapshot, u
    <3> QED BY <2>1, <3>1, <3>2 DEF SteppingOf
  <2>4. /\ snaps \in MapsTo(SnapOf) /\ DOMAIN snaps \subseteq DOMAIN t.snaps
        /\ \A f \in DOMAIN snaps : snaps[f].state = t.snaps[f].state
    <3>1. CASE t.snaps[n].sent
      <4>1. snaps = Drop(t.snaps, n)
        BY <3>1
      <4> HIDE DEF snaps
      <4>2. /\ Drop(t.snaps, n) \in MapsTo(SnapOf) /\ DOMAIN Drop(t.snaps, n) = DOMAIN t.snaps \ {n}
            /\ \A j \in DOMAIN t.snaps \ {n} : Drop(t.snaps, n)[j] = t.snaps[j]
        BY <2>2, DropTypes
      <4> QED BY <4>1, <4>2
    <3>2. CASE ~t.snaps[n].sent
      <4>1. /\ DOMAIN t.snaps \in SUBSET Frames /\ \A k \in DOMAIN t.snaps : t.snaps[k] \in SnapOf
            /\ t.snaps = [k \in DOMAIN t.snaps |-> t.snaps[k]]
        BY <2>2, MapTypes
      <4>2. kept \in [DOMAIN t.snaps -> SnapOf]
        BY <1>3, <4>1 DEF SnapOf
      <4>3. \A f \in DOMAIN t.snaps : kept[f].state = t.snaps[f].state
        BY <1>3, <4>1 DEF SnapOf
      <4> QED BY <3>2, <4>1, <4>2, <4>3, MapOf
    <3> QED BY <3>1, <3>2
  <2> HIDE DEF snaps, u, r
  <2>5. r \in SteppingOf /\ r.pending = u.pending /\ r.snaps = snaps /\ r.out = u.out /\ r.seen = u.seen
    BY <2>1, <2>3, <2>4 DEF SteppingOf
  <2> QED BY <1>3, <2>1, <2>4, <2>5 DEF SomeOf, Reports
<1> QED BY <1>1, <1>2, <1>3

(* The snapshots among these messages are those, or the one of frame f.    *)
SnapshotsOf(out, old, f, state) == \A i \in DOMAIN out : out[i].type = "snapshot" =>
  (\E j \in DOMAIN old : out[i] = old[j]) \/ (out[i].n = f /\ out[i].state = state)

(* A message appended says what it says, the others what they said.         *)
LEMMA AppendSays ==
  ASSUME NEW old \in Seq(Message), NEW msg \in Message, NEW out \in Seq(Message), NEW f, NEW state,
         SnapshotsOf(out, old, f, state),
         msg.type = "snapshot" => msg.n = f /\ msg.state = state
  PROVE  /\ Append(out, msg) \in Seq(Message) /\ SnapshotsOf(Append(out, msg), old, f, state)
         /\ SnapshotsOf(old, old, f, state)
<1>1. \A i \in DOMAIN Append(out, msg) :
        \/ i \in DOMAIN out /\ Append(out, msg)[i] = out[i]
        \/ Append(out, msg)[i] = msg
  OBVIOUS
<1> QED BY <1>1 DEF SnapshotsOf

(* One snapshot.                                                           *)
LEMMA ReconcileTypes ==
  ASSUME NEW t \in SteppingOf, NEW m, NEW f \in DOMAIN t.snaps
  PROVE  LET r == Reconcile(t, m, f) IN
         /\ r \in SteppingOf /\ SomeOf(r, t.snaps) /\ DOMAIN t.snaps \ {f} \subseteq DOMAIN r.snaps
         /\ SnapshotsOf(r.out, t.out, f, t.snaps[f].state)
         /\ \A k \in DOMAIN r.pending : k \in DOMAIN t.pending /\ r.pending[k] = t.pending[k]
         /\ r.seen # t.seen =>
              f \in DOMAIN t.pending /\ SnapshotGameplayDiffers(t.snaps[f].state, t.pending[f])
<1> DEFINE mine == t.snaps[f]
           msg == [type |-> "snapshot", n |-> f, state |-> mine.state]
           u == IF mine.sent THEN t
                ELSE [t EXCEPT !.out = Append(t.out, msg), !.snaps[f].sent = TRUE]
           v == IF mine.confirmed \/ f \notin DOMAIN t.pending THEN u
                ELSE [Compare(u, m, mine.state, t.pending[f])
                        EXCEPT !.snaps[f].confirmed = TRUE, !.pending = Drop(@, f)]
           r == IF v.snaps[f].confirmed THEN [v EXCEPT !.snaps = Drop(@, f)] ELSE v
<1>1. Reconcile(t, m, f) = r
  BY DEF Reconcile, SteppingOf
<1>2. /\ t.snaps \in MapsTo(SnapOf) /\ t.pending \in MapsTo(SnapState) /\ t.out \in Seq(Message)
      /\ f \in Frames /\ mine \in SnapOf /\ DOMAIN t.snaps \in SUBSET Frames
      /\ \A k \in DOMAIN t.snaps : t.snaps[k] \in SnapOf
      /\ t.snaps = [k \in DOMAIN t.snaps |-> t.snaps[k]]
  <2>1. t.snaps \in MapsTo(SnapOf) /\ t.pending \in MapsTo(SnapState) /\ t.out \in Seq(Message)
    BY DEF SteppingOf
  <2> QED BY <2>1, MapTypes
<1>3. msg \in Message
  BY <1>2 DEF Message, SnapOf
<1>4. /\ u \in SteppingOf /\ u.pending = t.pending /\ u.seen = t.seen
      /\ DOMAIN u.snaps = DOMAIN t.snaps /\ SomeOf(u, t.snaps)
      /\ SnapshotsOf(u.out, t.out, f, mine.state)
  <2>1. SnapshotsOf(t.out, t.out, f, mine.state)
    BY DEF SnapshotsOf
  <2>2. CASE mine.sent
    <3>1. u = t
      BY <2>2
    <3> HIDE DEF u, mine
    <3> QED BY <3>1, <2>1 DEF SomeOf
  <2>3. CASE ~mine.sent
    <3> DEFINE out == Append(t.out, msg)
               snaps == [t.snaps EXCEPT ![f].sent = TRUE]
    <3>1. u = [t EXCEPT !.out = out, !.snaps = snaps]
      BY <2>3 DEF SteppingOf
    <3>2. snaps \in [DOMAIN t.snaps -> SnapOf] /\ DOMAIN snaps = DOMAIN t.snaps
      BY <1>2 DEF SnapOf
    <3>3. \A k \in DOMAIN snaps : snaps[k].state = t.snaps[k].state
      BY <1>2 DEF SnapOf
    <3>4. snaps \in MapsTo(SnapOf)
      <4> HIDE DEF snaps
      <4> QED BY <1>2, <3>2, MapOf
    <3>5. msg.n = f /\ msg.state = mine.state
      OBVIOUS
    <3> HIDE DEF msg, mine, snaps
    <3>6. out \in Seq(Message) /\ SnapshotsOf(out, t.out, f, mine.state)
      BY <1>2, <1>3, <2>1, <3>5, AppendSays
    <3> HIDE DEF out, u
    <3> QED BY <3>1, <3>2, <3>3, <3>4, <3>6 DEF SteppingOf, SomeOf
  <2> QED BY <2>2, <2>3
<1> HIDE DEF u
<1>5. /\ v \in SteppingOf /\ DOMAIN v.snaps = DOMAIN t.snaps /\ SomeOf(v, t.snaps)
      /\ SnapshotsOf(v.out, t.out, f, mine.state)
      /\ \A k \in DOMAIN v.pending : k \in DOMAIN t.pending /\ v.pending[k] = t.pending[k]
      /\ v.seen # t.seen =>
           f \in DOMAIN t.pending /\ SnapshotGameplayDiffers(mine.state, t.pending[f])
  <2>1. CASE mine.confirmed \/ f \notin DOMAIN t.pending
    <3>1. v = u
      BY <2>1
    <3> HIDE DEF v, mine
    <3> QED BY <1>4, <3>1
  <2>2. CASE ~(mine.confirmed \/ f \notin DOMAIN t.pending)
    <3> DEFINE c == Compare(u, m, mine.state, t.pending[f])
    <3>1. /\ c \in SteppingOf /\ c.snaps = u.snaps /\ c.pending = t.pending /\ Reports(c, u.out)
          /\ c.seen # t.seen => SnapshotGameplayDiffers(mine.state, t.pending[f])
      BY <1>4, CompareTypes
    <3> HIDE DEF c
    <3> DEFINE snaps == [c.snaps EXCEPT ![f].confirmed = TRUE]
               left == Drop(c.pending, f)
    <3>2. v = [c EXCEPT !.snaps = snaps, !.pending = left]
      <4>1. v = [c EXCEPT !.snaps[f].confirmed = TRUE, !.pending = Drop(@, f)]
        BY <2>2 DEF c
      <4> HIDE DEF v
      <4> QED BY <3>1, <4>1 DEF SteppingOf
    <3>3. /\ c.snaps \in MapsTo(SnapOf) /\ DOMAIN c.snaps \in SUBSET Frames
          /\ \A k \in DOMAIN c.snaps : c.snaps[k] \in SnapOf
          /\ c.snaps = [k \in DOMAIN c.snaps |-> c.snaps[k]] /\ DOMAIN c.snaps = DOMAIN t.snaps
      <4>1. c.snaps \in MapsTo(SnapOf)
        BY <3>1 DEF SteppingOf
      <4> QED BY <4>1, <1>4, <3>1, MapTypes
    <3>4. snaps \in [DOMAIN t.snaps -> SnapOf] /\ DOMAIN snaps = DOMAIN t.snaps
      BY <3>3 DEF SnapOf
    <3>5. \A k \in DOMAIN snaps : snaps[k].state = c.snaps[k].state
      BY <3>3 DEF SnapOf
    <3>6. snaps \in MapsTo(SnapOf)
      <4> HIDE DEF snaps
      <4> QED BY <1>2, <3>4, MapOf
    <3>7. /\ left \in MapsTo(SnapState)
          /\ \A k \in DOMAIN left : k \in DOMAIN t.pending /\ left[k] = t.pending[k]
      <4>1. /\ left \in MapsTo(SnapState) /\ DOMAIN left = DOMAIN t.pending \ {f}
            /\ \A k \in DOMAIN t.pending \ {f} : left[k] = t.pending[k]
        <5>1. c.pending \in MapsTo(SnapState) /\ c.pending = t.pending
          BY <1>2, <3>1
        <5>2. left = Drop(t.pending, f)
          BY <5>1
        <5> HIDE DEF left
        <5>3. /\ Drop(t.pending, f) \in MapsTo(SnapState)
              /\ DOMAIN Drop(t.pending, f) = DOMAIN t.pending \ {f}
              /\ \A k \in DOMAIN t.pending \ {f} : Drop(t.pending, f)[k] = t.pending[k]
          <6>1. t.pending \in MapsTo(SnapState)
            BY <1>2
          <6> QED BY <6>1, DropTypes
        <5> QED BY <5>2, <5>3
      <4> HIDE DEF left
      <4> QED BY <4>1
    <3>8. SnapshotsOf(c.out, t.out, f, mine.state)
      <4>1. [type |-> "desync"] \in Message /\ [type |-> "desync"].type # "snapshot"
        BY DEF Message
      <4>2. u.out \in Seq(Message)
        BY <1>4 DEF SteppingOf
      <4> HIDE DEF mine
      <4>3. SnapshotsOf(Append(u.out, [type |-> "desync"]), t.out, f, mine.state)
        BY <1>2, <1>4, <4>1, <4>2, AppendSays
      <4> QED BY <1>4, <3>1, <4>3 DEF Reports
    <3> HIDE DEF v, snaps, left, mine
    <3>9. /\ v \in SteppingOf /\ v.snaps = snaps /\ v.pending = left /\ v.out = c.out
          /\ v.seen = c.seen
      BY <3>1, <3>2, <3>6, <3>7 DEF SteppingOf
    <3>10. SomeOf(v, t.snaps)
      BY <1>4, <3>1, <3>4, <3>5, <3>9 DEF SomeOf
    <3> QED BY <2>2, <3>1, <3>4, <3>7, <3>8, <3>9, <3>10
  <2> QED BY <2>1, <2>2
<1> HIDE DEF v, mine
<1>6. /\ r \in SteppingOf /\ SomeOf(r, t.snaps) /\ DOMAIN t.snaps \ {f} \subseteq DOMAIN r.snaps
      /\ r.out = v.out /\ r.pending = v.pending /\ r.seen = v.seen
  <2>1. CASE v.snaps[f].confirmed
    <3> DEFINE left == Drop(v.snaps, f)
    <3>1. v.snaps \in MapsTo(SnapOf)
      BY <1>5 DEF SteppingOf
    <3>2. /\ left \in MapsTo(SnapOf) /\ DOMAIN left = DOMAIN v.snaps \ {f}
          /\ \A k \in DOMAIN v.snaps \ {f} : left[k] = v.snaps[k]
      BY <3>1, DropTypes
    <3>3. r = [v EXCEPT !.snaps = left]
      BY <1>5, <2>1 DEF SteppingOf
    <3> HIDE DEF r, left
    <3>4. /\ r \in SteppingOf /\ r.snaps = left /\ r.out = v.out /\ r.pending = v.pending
          /\ r.seen = v.seen
      BY <1>5, <3>2, <3>3 DEF SteppingOf
    <3> QED BY <1>5, <3>2, <3>4 DEF SomeOf
  <2>2. CASE ~v.snaps[f].confirmed
    <3>1. r = v
      BY <2>2
    <3> HIDE DEF r
    <3> QED BY <1>5, <3>1
  <2> QED BY <2>1, <2>2
<1> HIDE DEF r
<1> QED BY <1>1, <1>5, <1>6 DEF mine

(* The parts of a machine have their types.                                 *)
LEMMA MachineTypes ==
  ASSUME NEW m \in Machines, Typed
  PROVE  /\ sim[m] \in SimOf /\ ctl[m] \in CtlOf /\ inbox[m] \in Seq(Message)
         /\ pending[m] \in MapsTo(SnapState) /\ verdict[m] \in VerdictOf
         /\ ctl[m].leftIdle \in BOOLEAN /\ ctl[m].allowed \in BOOLEAN /\ ctl[m].open \in BOOLEAN
         /\ ctl[m].leaving \in BOOLEAN /\ ctl[m].match \in 0 .. MaxMatches
         /\ ctl[m].held \in 0 .. HOLD_CAP + 1
         /\ ctl[m].match \in Nat /\ Peer(m) \in Machines /\ Peer(m) # m /\ Peer(Peer(m)) = m
         /\ (~Forked(m)) \in BOOLEAN
<1>1. ctl[m] \in CtlOf
  BY DEF Typed
<1>2. /\ ctl[m].leftIdle \in BOOLEAN /\ ctl[m].allowed \in BOOLEAN /\ ctl[m].open \in BOOLEAN
      /\ ctl[m].leaving \in BOOLEAN /\ ctl[m].match \in 0 .. MaxMatches
      /\ ctl[m].held \in 0 .. HOLD_CAP + 1
  BY <1>1 DEF CtlOf
<1>3. ctl[m].match \in Nat
  BY <1>2, ConstantsTyped
<1>4. Peer(m) \in Machines /\ Peer(m) # m /\ Peer(Peer(m)) = m
  BY DEF Peer, Machines
<1>5. (~Forked(m)) \in BOOLEAN
  OBVIOUS
<1>6. sim[m] \in SimOf /\ inbox[m] \in Seq(Message) /\ pending[m] \in MapsTo(SnapState)
      /\ verdict[m] \in VerdictOf
  BY DEF Typed
<1> QED BY <1>1, <1>2, <1>3, <1>4, <1>5, <1>6

(* What this machine's snapshot of a frame says.                           *)
LEMMA OwnSnapshot ==
  ASSUME NEW m \in Machines, Inv, NEW f \in DOMAIN sim[m].snaps
  PROVE  LET s == sim[m] IN
         /\ Playing(m) /\ ctl[m].allowed /\ Lead(s.n - s.frame)
         /\ f \in Nat /\ f <= s.n /\ s.n \in Nat /\ s.frame \in Nat /\ s.n - s.frame \in Nat
         /\ s.n - s.frame < f /\ s.conf \in Nat
         /\ s.snaps[f].state \in SnapState
         /\ s.snaps[f].state.match = ctl[m].match /\ s.snaps[f].state.frame = f - (s.n - s.frame)
         /\ ~Forked(m) => s.snaps[f].state.bad = BadBefore(s, f)
<1> DEFINE s == sim[m]
<1> SUFFICES /\ Playing(m) /\ ctl[m].allowed /\ Lead(s.n - s.frame)
             /\ f \in Nat /\ f <= s.n /\ s.n \in Nat /\ s.frame \in Nat /\ s.n - s.frame \in Nat
             /\ s.n - s.frame < f /\ s.conf \in Nat
             /\ s.snaps[f].state \in SnapState
             /\ s.snaps[f].state.match = ctl[m].match /\ s.snaps[f].state.frame = f - (s.n - s.frame)
             /\ ~Forked(m) => s.snaps[f].state.bad = BadBefore(s, f)
  OBVIOUS
<1>1. Playing(m)
  <2>1. DOMAIN NoSnaps = {}
    BY DEF NoSnaps
  <2> QED BY <2>1 DEF Inv, Alone, NoBattle, NewBattle
<1>2. Battling(m)
  BY <1>1 DEF Inv, Alone
<1>3. ctl[m].leftIdle \in BOOLEAN /\ ctl[m].allowed \in BOOLEAN /\ (~Forked(m)) \in BOOLEAN
  BY MachineTypes DEF Inv
<1>4. InBattle(s, ctl[m].match, ~Forked(m), ctl[m].leftIdle, ctl[m].allowed) /\ f \in DOMAIN s.snaps
  BY <1>2 DEF Battling
<1> HIDE DEF s
<1>5. s \in SimOf /\ s.seed = ctl[m].match /\ s.n \in Nat /\ s.frame \in Nat /\ s.n - s.frame \in Nat
      /\ s.conf \in Nat
  BY <1>3, <1>4, InBattleTypes
<1>6. s.frame # 0
  BY <1>4 DEF InBattle, Unstarted
<1>7. /\ ctl[m].allowed /\ Lead(s.n - s.frame)
      /\ Kept(s, s.n - s.frame, s.frame, ~Forked(m))
  BY <1>4, <1>6 DEF InBattle
<1>8. f \in Nat /\ s.snaps[f].state \in SnapState
  <2>1. s.snaps \in MapsTo(SnapOf)
    BY <1>5 DEF SimOf
  <2>2. DOMAIN s.snaps \in SUBSET Frames /\ s.snaps[f] \in SnapOf
    BY <1>4, <2>1, MapTypes
  <2> QED BY <1>4, <2>2, SlotTypes DEF SnapOf
<1>9. f <= s.frame + (s.n - s.frame) /\ s.n - s.frame < f
  BY <1>4, <1>7 DEF Kept, SnapsTaken
<1>10. f <= s.n
  BY <1>5, <1>8, <1>9
<1>11. /\ s.snaps[f].state.match = s.seed /\ s.snaps[f].state.frame = f - (s.n - s.frame)
       /\ ~Forked(m) => s.snaps[f].state.bad = BadBefore(s, f)
  BY <1>4, <1>7, <1>10 DEF Kept, SnapsTaken
<1> QED BY <1>1, <1>5, <1>7, <1>8, <1>9, <1>10, <1>11

(* Up to the inputs this machine has, it knows of no wrong one.            *)
LEMMA NothingWrong ==
  ASSUME NEW m \in Machines, Inv, Playing(m), ~Forked(m), NEW f \in Nat,
         f - (sim[m].n - sim[m].frame) <= sim[m].conf
  PROVE  BadBefore(sim[m], f) = None
<1> DEFINE s == sim[m]
<1>1. InBattle(s, ctl[m].match, ~Forked(m), ctl[m].leftIdle, ctl[m].allowed)
  BY DEF Inv, Alone, Battling
<1> HIDE DEF s
<1>2. ctl[m].leftIdle \in BOOLEAN /\ ctl[m].allowed \in BOOLEAN /\ (~Forked(m)) \in BOOLEAN
  BY MachineTypes DEF Inv
<1>3. /\ Guessing(s) /\ WrongFrom(s) /\ s.n \in Nat /\ s.frame \in Nat /\ s.conf \in Nat
      /\ s.n - s.frame \in Nat /\ s.wrong \in FramesOrNone
  BY <1>1, <1>2, InBattleTypes
<1>4. CASE s.wrong = None
  BY <1>3, <1>4 DEF WrongFrom, BadBefore, s
<1>5. CASE s.wrong # None
  <2>1. s.wrong \in Nat /\ s.conf <= s.wrong /\ s.bad = s.wrong + (s.n - s.frame)
    BY <1>3, <1>5, ConstantsTyped DEF FramesOrNone, Frames, Guessing, WrongFrom
  <2>2. ~(s.bad < f)
    BY <1>3, <2>1 DEF s
  <2> QED BY <2>2 DEF BadBefore, s
<1> QED BY <1>4, <1>5

(* Settled snapshots of the same game are the same.                        *)
LEMMA NothingDiffers ==
  ASSUME NEW m \in Machines, Inv, NEW f \in DOMAIN sim[m].snaps, NEW theirs \in SnapState,
         Settling(m, f, theirs), SnapshotGameplayDiffers(sim[m].snaps[f].state, theirs)
  PROVE  Playing(m) /\ \E p \in Machines : <<p, ctl[m].match>> \in faults.forked
<1> DEFINE lead == sim[m].n - sim[m].frame
           mine == sim[m].snaps[f].state
<1>1. /\ Playing(m) /\ Lead(lead) /\ f \in Nat /\ lead \in Nat /\ sim[m].conf \in Nat
      /\ mine.match = ctl[m].match /\ mine.frame = f - lead
      /\ ~Forked(m) => mine.bad = BadBefore(sim[m], f)
  BY OwnSnapshot
<1>2. /\ theirs.match = ctl[m].match /\ theirs.frame = f - lead /\ theirs.frame <= sim[m].conf
      /\ <<Peer(m), theirs.match>> \notin faults.forked => theirs.bad = None
  <2>1. lead \in Frames
    BY <1>1 DEF Lead
  <2> HIDE DEF lead
  <2> QED BY <1>1, <2>1 DEF Settling
<1>3. SUFFICES ASSUME \A p \in Machines : <<p, ctl[m].match>> \notin faults.forked
               PROVE  FALSE
  BY <1>1
<1>4. Peer(m) \in Machines
  BY DEF Peer, Machines
<1>5. ~Forked(m) /\ theirs.bad = None
  BY <1>2, <1>3, <1>4 DEF Forked
<1>6. mine.bad = None
  <2>1. f - (sim[m].n - sim[m].frame) <= sim[m].conf
    BY <1>2
  <2> QED BY <1>1, <1>5, <2>1, NothingWrong
<1> HIDE DEF mine
<1>7. SnapshotGameplayDiffers(mine, theirs)
  BY DEF mine
<1> QED BY <1>1, <1>2, <1>5, <1>6, <1>7 DEF SnapshotGameplayDiffers

(* While m steps: what it has sent, and kept, is its own.                  *)
Stepped(t, m) ==
  /\ t \in SteppingOf /\ SomeOf(t, sim[m].snaps)
  /\ \A i \in DOMAIN t.out : t.out[i].type = "snapshot" =>
       /\ t.out[i].n \in Settled(sim[m].snaps, m)
       /\ t.out[i].state = sim[m].snaps[t.out[i].n].state

(* ... and what waits, and what it has concluded, is right.                *)
SteppedWell(t, m) ==
  /\ Playing(m) => \A f \in DOMAIN t.pending : Settling(m, f, t.pending[f])
  /\ t.seen # verdict[m].seen =>
       Playing(m) /\ \E p \in Machines : <<p, ctl[m].match>> \in faults.forked

(* A message received keeps what a session step promises.                   *)
LEMMA ReceiveSound ==
  ASSUME NEW m \in Machines, Inv, NEW t, Stepped(t, m), NEW msg \in Message
  PROVE  /\ Stepped(Receive(t, m, msg), m)
         /\ (SteppedWell(t, m) /\ (msg.type = "snapshot" => Settling(m, msg.n, msg.state)))
              => SteppedWell(Receive(t, m, msg), m)
<1> DEFINE r == Receive(t, m, msg)
<1>1. t \in SteppingOf /\ SomeOf(t, sim[m].snaps)
  BY DEF Stepped
<1>2. /\ r \in SteppingOf /\ SomeOf(r, t.snaps) /\ Reports(r, t.out)
      /\ \A f \in DOMAIN r.pending :
           \/ f \in DOMAIN t.pending /\ r.pending[f] = t.pending[f]
           \/ msg.type = "snapshot" /\ f = msg.n /\ r.pending[f] = msg.state
      /\ r.seen # t.seen =>
           /\ msg.type = "snapshot" /\ msg.n \in DOMAIN t.snaps
           /\ SnapshotGameplayDiffers(t.snaps[msg.n].state, msg.state)
  BY <1>1, ReceiveTypes
<1> HIDE DEF r
<1>3. SomeOf(r, sim[m].snaps)
  BY <1>1, <1>2 DEF SomeOf
<1>4. ASSUME NEW i \in DOMAIN r.out, r.out[i].type = "snapshot"
      PROVE  \E j \in DOMAIN t.out : r.out[i] = t.out[j]
  <2>1. CASE r.out = t.out
    BY <2>1
  <2>2. CASE r.out = Append(t.out, [type |-> "desync"])
    <3>1. t.out \in Seq(Message)
      BY <1>1 DEF SteppingOf
    <3>2. i \in DOMAIN t.out \/ i = Len(t.out) + 1
      BY <2>2, <3>1
    <3>3. i \in DOMAIN t.out => r.out[i] = t.out[i]
      BY <2>2, <3>1
    <3>4. i = Len(t.out) + 1 => r.out[i] = [type |-> "desync"]
      BY <2>2, <3>1
    <3> QED BY <3>2, <3>3, <3>4, <1>4
  <2> QED BY <2>1, <2>2, <1>2 DEF Reports
<1>5. Stepped(r, m)
  BY <1>2, <1>3, <1>4 DEF Stepped
<1>6. ASSUME SteppedWell(t, m), msg.type = "snapshot" => Settling(m, msg.n, msg.state)
      PROVE  SteppedWell(r, m)
  <2>1. ASSUME Playing(m), NEW f \in DOMAIN r.pending PROVE Settling(m, f, r.pending[f])
    BY <2>1, <1>2, <1>6 DEF SteppedWell
  <2>2. ASSUME r.seen # verdict[m].seen
        PROVE  Playing(m) /\ \E p \in Machines : <<p, ctl[m].match>> \in faults.forked
    <3>1. CASE t.seen # verdict[m].seen
      BY <3>1, <1>6 DEF SteppedWell
    <3>2. CASE t.seen = verdict[m].seen
      <4>1. /\ msg.type = "snapshot" /\ msg.n \in DOMAIN t.snaps
            /\ SnapshotGameplayDiffers(t.snaps[msg.n].state, msg.state)
        BY <2>2, <3>2, <1>2
      <4>2. /\ msg.n \in DOMAIN sim[m].snaps /\ t.snaps[msg.n].state = sim[m].snaps[msg.n].state
        BY <1>1, <4>1 DEF SomeOf
      <4>3. msg.state \in SnapState /\ Settling(m, msg.n, msg.state)
        BY <4>1, <1>6 DEF Message
      <4>4. SnapshotGameplayDiffers(sim[m].snaps[msg.n].state, msg.state)
        BY <4>1, <4>2
      <4> QED BY <4>2, <4>3, <4>4, NothingDiffers
    <3> QED BY <3>1, <3>2
  <2> QED BY <2>1, <2>2 DEF SteppedWell
<1> QED BY <1>5, <1>6 DEF r

(* A snapshot reconciled keeps what a session step promises.                *)
LEMMA ReconcileSound ==
  ASSUME NEW m \in Machines, Inv, NEW t, Stepped(t, m), NEW f \in DOMAIN t.snaps,
         f \in Settled(sim[m].snaps, m)
  PROVE  /\ Stepped(Reconcile(t, m, f), m)
         /\ DOMAIN t.snaps \ {f} \subseteq DOMAIN Reconcile(t, m, f).snaps
         /\ SteppedWell(t, m) /\ Playing(m) => SteppedWell(Reconcile(t, m, f), m)
<1> DEFINE r == Reconcile(t, m, f)
<1>1. t \in SteppingOf /\ SomeOf(t, sim[m].snaps)
  BY DEF Stepped
<1>2. /\ r \in SteppingOf /\ SomeOf(r, t.snaps) /\ DOMAIN t.snaps \ {f} \subseteq DOMAIN r.snaps
      /\ SnapshotsOf(r.out, t.out, f, t.snaps[f].state)
      /\ \A k \in DOMAIN r.pending : k \in DOMAIN t.pending /\ r.pending[k] = t.pending[k]
      /\ r.seen # t.seen =>
           f \in DOMAIN t.pending /\ SnapshotGameplayDiffers(t.snaps[f].state, t.pending[f])
  BY <1>1, ReconcileTypes
<1> HIDE DEF r
<1>3. SomeOf(r, sim[m].snaps)
  BY <1>1, <1>2 DEF SomeOf
<1>4. f \in DOMAIN sim[m].snaps /\ t.snaps[f].state = sim[m].snaps[f].state
  BY <1>1 DEF SomeOf
<1>5. Stepped(r, m)
  <2> SUFFICES ASSUME NEW i \in DOMAIN r.out, r.out[i].type = "snapshot"
               PROVE  /\ r.out[i].n \in Settled(sim[m].snaps, m)
                      /\ r.out[i].state = sim[m].snaps[r.out[i].n].state
    BY <1>2, <1>3 DEF Stepped
  <2>1. CASE \E j \in DOMAIN t.out : r.out[i] = t.out[j]
    BY <2>1 DEF Stepped
  <2>2. CASE r.out[i].n = f /\ r.out[i].state = t.snaps[f].state
    BY <2>2, <1>4
  <2> QED BY <2>1, <2>2, <1>2 DEF SnapshotsOf
<1>6. ASSUME SteppedWell(t, m), Playing(m) PROVE SteppedWell(r, m)
  <2>1. ASSUME NEW k \in DOMAIN r.pending PROVE Settling(m, k, r.pending[k])
    BY <1>2, <1>6 DEF SteppedWell
  <2>2. ASSUME r.seen # verdict[m].seen
        PROVE  \E p \in Machines : <<p, ctl[m].match>> \in faults.forked
    <3>1. CASE t.seen # verdict[m].seen
      BY <3>1, <1>6 DEF SteppedWell
    <3>2. CASE t.seen = verdict[m].seen
      <4>1. f \in DOMAIN t.pending /\ SnapshotGameplayDiffers(t.snaps[f].state, t.pending[f])
        BY <2>2, <3>2, <1>2
      <4>2. Settling(m, f, t.pending[f])
        BY <4>1, <1>6 DEF SteppedWell
      <4>3. t.pending[f] \in SnapState
        <5>1. t.pending \in MapsTo(SnapState)
          BY <1>1 DEF SteppingOf
        <5> QED BY <4>1, <5>1, MapTypes
      <4>4. SnapshotGameplayDiffers(sim[m].snaps[f].state, t.pending[f])
        BY <4>1, <1>4
      <4> QED BY <4>2, <4>3, <4>4, <1>4, NothingDiffers
    <3> QED BY <3>1, <3>2
  <2> QED BY <1>6, <2>1, <2>2 DEF SteppedWell
<1> QED BY <1>2, <1>5, <1>6 DEF r

(* The whole of it.                                                        *)
LEMMA StepSound ==
  ASSUME NEW m \in Machines, Inv, NEW k \in 0 .. Len(inbox[m])
  PROVE  LET v == ReconcileAll(ReceiveAll(Stepping(m), m, SubSeq(inbox[m], 1, k)), m) IN
         /\ Stepped(v, m)
         /\ SnapshotsSettled => SteppedWell(v, m)
<1> DEFINE msgs == SubSeq(inbox[m], 1, k)
           t0 == Stepping(m)
           t == ReceiveAll(t0, m, msgs)
           v == ReconcileAll(t, m)
<1>1. /\ inbox[m] \in Seq(Message) /\ pending[m] \in MapsTo(SnapState) /\ verdict[m] \in VerdictOf
      /\ ctl[m].leaving \in BOOLEAN /\ sim[m] \in SimOf
  BY MachineTypes DEF Inv
<1>2. k \in Nat /\ msgs \in Seq(Message) /\ Len(msgs) = k /\ \A i \in 1 .. k : msgs[i] = inbox[m][i]
  BY <1>1
<1> HIDE DEF msgs
<1>3. Stepped(t0, m) /\ t0.pending = pending[m] /\ t0.seen = verdict[m].seen
  <2>1. t0 \in SteppingOf
    <3>1. <<>> \in Seq(Message)
      OBVIOUS
    <3>2. sim[m].snaps \in MapsTo(SnapOf)
      BY <1>1 DEF SimOf
    <3>3. verdict[m].abort \in BOOLEAN /\ verdict[m].reported \in BOOLEAN /\ verdict[m].seen \in BOOLEAN
      BY <1>1 DEF VerdictOf
    <3> QED BY <1>1, <3>1, <3>2, <3>3 DEF Stepping, SteppingOf
  <2>2. t0.snaps = sim[m].snaps /\ t0.out = <<>> /\ t0.pending = pending[m] /\ t0.seen = verdict[m].seen
    BY DEF Stepping
  <2> HIDE DEF t0
  <2> QED BY <2>1, <2>2 DEF Stepped, SomeOf
<1>4. SnapshotsSettled => SteppedWell(t0, m)
  BY <1>3 DEF SnapshotsSettled, SteppedWell
<1> HIDE DEF t0
<1>5. PICK g : Received(g, t0, m, msgs, k) /\ t = g[k]
  BY <1>2, ReceiveInTurn
<1> HIDE DEF t
<1>6. ASSUME NEW j \in 1 .. k, Stepped(g[j - 1], m), SnapshotsSettled => SteppedWell(g[j - 1], m)
      PROVE  Stepped(g[j], m) /\ (SnapshotsSettled => SteppedWell(g[j], m))
  <2>1. g[j] = Receive(g[j - 1], m, msgs[j]) /\ msgs[j] \in Message
    BY <1>2, <1>5 DEF Received
  <2>2. SnapshotsSettled => (msgs[j].type = "snapshot" => Settling(m, msgs[j].n, msgs[j].state))
    <3>1. j \in DOMAIN inbox[m] /\ msgs[j] = inbox[m][j]
      BY <1>1, <1>2
    <3> QED BY <3>1 DEF SnapshotsSettled
  <2> QED BY <1>6, <2>1, <2>2, ReceiveSound
<1>7. Stepped(t, m) /\ (SnapshotsSettled => SteppedWell(t, m))
  <2> DEFINE B == {j \in 0 .. k : ~(Stepped(g[j], m) /\ (SnapshotsSettled => SteppedWell(g[j], m)))}
  <2>1. SUFFICES ASSUME B # {} PROVE FALSE
    BY <1>2, <1>5
  <2>2. PICK j \in B : \A i \in B : j <= i
    <3>1. B \in SUBSET Nat
      OBVIOUS
    <3> QED BY <2>1, <3>1, LeastNatural
  <2>3. 0 \notin B
    BY <1>3, <1>4, <1>5 DEF Received
  <2>4. j \in 1 .. k /\ j - 1 \in 0 .. k /\ ~(j <= j - 1)
    BY <2>2, <2>3
  <2>5. j - 1 \notin B
    BY <2>2, <2>4
  <2> QED BY <1>6, <2>2, <2>4, <2>5
<1> DEFINE n == LastFrame + 1
<1>8. n \in Nat
  BY ConstantsTyped
<1>9. PICK h : Reconciled(h, t, m, n) /\ v = h[n]
  BY <1>8, ReconcileInTurn
<1> HIDE DEF v, n
<1> DEFINE Good(j) == /\ Stepped(h[j], m) /\ (SnapshotsSettled => SteppedWell(h[j], m))
                      /\ \A f \in DOMAIN t.snaps : f >= j => f \in DOMAIN h[j].snaps
<1>10. ASSUME NEW j \in 1 .. n, Good(j - 1) PROVE Good(j)
  <2>1. h[j] = IF j - 1 \in Settled(t.snaps, m) THEN Reconcile(h[j - 1], m, j - 1) ELSE h[j - 1]
    BY <1>9 DEF Reconciled
  <2>2. j \in Nat /\ j - 1 \in Nat
    OBVIOUS
  <2>3. \A f \in DOMAIN t.snaps : f \in Nat
    <3>1. t.snaps \in MapsTo(SnapOf)
      BY <1>7 DEF Stepped, SteppingOf
    <3> QED BY <3>1, MapTypes, SlotTypes
  <2>4. CASE j - 1 \notin Settled(t.snaps, m)
    <3>1. h[j] = h[j - 1]
      BY <2>1, <2>4
    <3>2. \A f \in DOMAIN t.snaps : f >= j => f >= j - 1
      BY <2>2, <2>3
    <3> QED BY <3>1, <3>2, <1>10
  <2>5. CASE j - 1 \in Settled(t.snaps, m)
    <3> DEFINE f == j - 1
    <3>1. h[j] = Reconcile(h[f], m, f) /\ f \in DOMAIN t.snaps /\ f >= f
      BY <2>1, <2>2, <2>5 DEF Settled
    <3>2. f \in Settled(sim[m].snaps, m)
      BY <2>5, <1>7 DEF Stepped, SomeOf, Settled
    <3>3. f \in DOMAIN sim[m].snaps
      BY <3>2 DEF Settled
    <3>4. Stepped(h[f], m) /\ f \in DOMAIN h[f].snaps /\ (SnapshotsSettled => SteppedWell(h[f], m))
      BY <1>10, <3>1
    <3>5. Playing(m)
      BY <3>3, OwnSnapshot
    <3> HIDE DEF f
    <3>6. /\ Stepped(h[j], m) /\ (SnapshotsSettled => SteppedWell(h[j], m))
          /\ DOMAIN h[f].snaps \ {f} \subseteq DOMAIN h[j].snaps
      BY <3>1, <3>2, <3>4, <3>5, ReconcileSound
    <3>7. ASSUME NEW i \in DOMAIN t.snaps, i >= j PROVE i \in DOMAIN h[j].snaps
      <4>1. i >= j - 1 /\ i # j - 1
        BY <2>2, <2>3, <3>7
      <4>2. i \in DOMAIN h[f].snaps /\ i # f
        BY <4>1, <1>10 DEF f
      <4> QED BY <4>2, <3>6
    <3> QED BY <3>6, <3>7
  <2> QED BY <2>4, <2>5
<1>11. Good(0)
  BY <1>7, <1>9 DEF Reconciled
<1>12. Good(n)
  <2> HIDE DEF Good
  <2> DEFINE B == {j \in 0 .. n : ~Good(j)}
  <2>1. SUFFICES ASSUME B # {} PROVE FALSE
    BY <1>8
  <2>2. PICK j \in B : \A i \in B : j <= i
    <3>1. B \in SUBSET Nat
      OBVIOUS
    <3> QED BY <2>1, <3>1, LeastNatural
  <2>4. j \in 1 .. n /\ j - 1 \in 0 .. n /\ ~(j <= j - 1)
    BY <1>8, <1>11, <2>2
  <2>5. j - 1 \notin B
    BY <2>2, <2>4
  <2> QED BY <1>10, <2>2, <2>4, <2>5
<1>13. Stepped(v, m) /\ (SnapshotsSettled => SteppedWell(v, m))
  BY <1>9, <1>12
<1> QED BY <1>13 DEF v, t, t0, msgs

-----------------------------------------------------------------------------
(* The actions, as one machine sees them.                                  *)

LEMMA FaultTypes ==
  ASSUME Typed
  PROVE  /\ IsFiniteSet(faults.forked) /\ Cardinality(faults.forked) \in Nat
         /\ faults.quits \in Nat /\ faults.skips \in Nat /\ TotalFaults \in Nat
         /\ faults.skips <= TotalFaults /\ TotalFaults <= MaxFaults
<1>1. faults.forked \in SUBSET (Machines \X (0 .. MaxMatches))
  BY DEF Typed
<1>2. IsFiniteSet(Machines) /\ IsFiniteSet(0 .. MaxMatches)
  <2>1. Machines = 1 .. 2
    BY DEF Machines
  <2>2. IsFiniteSet(1 .. 2)
    <3>1. 1 \in Int /\ 2 \in Int
      OBVIOUS
    <3> QED BY <3>1, FS_Interval, Zenon
  <2>3. IsFiniteSet(0 .. MaxMatches)
    BY FS_Interval, ConstantsTyped
  <2> QED BY <2>1, <2>2, <2>3
<1>3. IsFiniteSet(Machines \X (0 .. MaxMatches))
  BY <1>2, FS_Product
<1>4. IsFiniteSet(faults.forked)
  BY <1>1, <1>3, FS_Subset
<1>5. Cardinality(faults.forked) \in Nat
  BY <1>4, FS_CardinalityType
<1>6. faults.quits \in Nat /\ faults.skips \in Nat /\ TotalFaults <= MaxFaults
  BY DEF Typed
<1> QED BY <1>4, <1>5, <1>6 DEF TotalFaults

(* What is true of one machine stays true when nothing of it changes.       *)
LEMMA AloneKept ==
  ASSUME NEW m, Alone(m), sim'[m] = sim[m],
         ctl'[m].at = ctl[m].at, ctl'[m].open = ctl[m].open, ctl'[m].match = ctl[m].match,
         ctl'[m].leftIdle = ctl[m].leftIdle, ctl'[m].allowed = ctl[m].allowed,
         <<m, ctl[m].match>> \in faults'.forked <=> <<m, ctl[m].match>> \in faults.forked
  PROVE  Alone(m)'
<1>1. Forked(m)' <=> Forked(m)
  BY DEF Forked
<1>2. Playing(m)' <=> Playing(m)
  BY DEF Playing
<1>3. CASE ~Playing(m)
  BY <1>2, <1>3 DEF Alone
<1>4. CASE Playing(m)
  <2> DEFINE s == sim[m]
             on == ctl[m].allowed
             left == ctl[m].leftIdle
             seed == ctl[m].match
  <2>1. InBattle(s, seed, ~Forked(m), left, on)
    BY <1>4 DEF Alone, Battling
  <2>2. sim'[m] = s /\ ctl'[m].match = seed /\ ctl'[m].leftIdle = left /\ ctl'[m].allowed = on
    OBVIOUS
  <2> HIDE DEF s, on, left, seed
  <2>3. CASE Forked(m)
    BY <1>1, <1>2, <1>4, <2>1, <2>2, <2>3 DEF Alone, Battling, InBattle
  <2>4. CASE ~Forked(m)
    BY <1>1, <1>2, <1>4, <2>1, <2>2, <2>4 DEF Alone, Battling, InBattle
  <2> QED BY <2>3, <2>4
<1> QED BY <1>3, <1>4

(* A step of m that leaves the other machine alone.                        *)
LEMMA InvFrom ==
  ASSUME NEW m \in Machines, Inv, NEW s \in SimOf, NEW c \in CtlOf,
         sim' = [sim EXCEPT ![m] = s], ctl' = [ctl EXCEPT ![m] = c],
         inbox' \in [Machines -> Seq(Message)], pending' \in [Machines -> MapsTo(SnapState)],
         verdict' \in [Machines -> VerdictOf],
         faults' \in [forked : SUBSET (Machines \X (0 .. MaxMatches)), quits : Nat, skips : Nat],
         faults'.forked = faults.forked, TotalFaults' <= MaxFaults,
         faults.skips <= faults'.skips, c.skip <= faults'.skips, Alone(m)'
  PROVE  Inv'
<1>1. sim \in [Machines -> SimOf] /\ ctl \in [Machines -> CtlOf] /\ faults.skips \in Nat
      /\ \A p \in Machines : ctl[p].skip <= faults.skips /\ ctl[p].skip \in Nat
  BY DEF Inv, Typed, CtlOf
<1>2. sim' \in [Machines -> SimOf] /\ ctl' \in [Machines -> CtlOf]
  BY <1>1
<1>3. \A p \in Machines \ {m} : sim'[p] = sim[p] /\ ctl'[p] = ctl[p]
  BY <1>1
<1>4. ctl'[m] = c
  BY <1>1
<1>5. \A p \in Machines : ctl'[p].skip <= faults'.skips
  BY <1>1, <1>3, <1>4
<1>6. Typed'
  BY <1>2, <1>5 DEF Typed
<1>7. ASSUME NEW p \in Machines \ {m} PROVE Alone(p)'
  BY <1>3, AloneKept DEF Inv
<1> QED BY <1>6, <1>7 DEF Inv

(* With the same faults and typed variables the types stay.                 *)
LEMMA SameFaults ==
  ASSUME Typed, UNCHANGED faults
  PROVE  /\ faults' \in [forked : SUBSET (Machines \X (0 .. MaxMatches)), quits : Nat, skips : Nat]
         /\ faults'.forked = faults.forked /\ TotalFaults' <= MaxFaults
         /\ faults.skips <= faults'.skips
<1>1. faults.skips \in Nat
  BY FaultTypes
<1> QED BY <1>1 DEF Typed, TotalFaults

(* A fault within the bound keeps the types of the faults.                  *)
LEMMA OneMoreFault ==
  ASSUME Typed, TotalFaults < MaxFaults, NEW q \in {0, 1},
         \/ q = 0 /\ faults' = [faults EXCEPT !.quits = @ + 1]
         \/ q = 1 /\ faults' = [faults EXCEPT !.skips = @ + 1]
  PROVE  /\ faults' \in [forked : SUBSET (Machines \X (0 .. MaxMatches)), quits : Nat, skips : Nat]
         /\ faults'.forked = faults.forked /\ TotalFaults' <= MaxFaults
         /\ faults'.skips = faults.skips + q /\ faults.skips <= faults'.skips
<1>1. /\ faults \in [forked : SUBSET (Machines \X (0 .. MaxMatches)), quits : Nat, skips : Nat]
      /\ faults.quits \in Nat /\ faults.skips \in Nat /\ Cardinality(faults.forked) \in Nat
      /\ MaxFaults \in Nat
  BY FaultTypes, ConstantsTyped DEF Typed
<1>2. /\ faults'.forked = faults.forked /\ faults'.quits = faults.quits + (1 - q)
      /\ faults'.skips = faults.skips + q
      /\ faults' \in [forked : SUBSET (Machines \X (0 .. MaxMatches)), quits : Nat, skips : Nat]
  <2>1. CASE q = 0 /\ faults' = [faults EXCEPT !.quits = @ + 1]
    BY <1>1, <2>1
  <2>2. CASE q = 1 /\ faults' = [faults EXCEPT !.skips = @ + 1]
    BY <1>1, <2>2
  <2> QED BY <2>1, <2>2
<1>3. TotalFaults' = TotalFaults + 1
  BY <1>1, <1>2 DEF TotalFaults
<1>4. TotalFaults \in Nat
  BY FaultTypes
<1> QED BY <1>1, <1>2, <1>3, <1>4

(* A battle that has just been made has the types of one.                  *)
LEMMA NewBattleTyped ==
  ASSUME NEW seed \in 0 .. MaxMatches, NEW drift \in BOOLEAN
  PROVE  NewBattle(seed, drift) \in SimOf
<1>1. NoSnaps \in MapsTo(SnapOf)
  <2>1. NoSnaps \in [{} -> SnapOf] /\ {} \in SUBSET Frames
    BY DEF NoSnaps
  <2> QED BY <2>1 DEF MapsTo
<1>2. Unused \in SlotOf /\ 0 \in Frames /\ None \in FramesOrNone /\ Delay \in 0 .. LastFrame + Delay
  BY ConstantsTyped DEF Unused, SlotOf, Frames, FramesOrNone
<1>3. [i \in Ring |-> NoSlot] \in [Ring -> {NoSlot} \cup Slots] /\ [i \in Slots |-> Unused] \in [Slots -> SlotOf]
  BY <1>2
<1> QED BY <1>1, <1>2, <1>3 DEF NewBattle, SimOf

(* Nothing has begun.                                                      *)
LEMMA Beginning ==
  ASSUME Init
  PROVE  Inv
<1>1. NoBattle \in SimOf
  <2>1. 0 \in 0 .. MaxMatches /\ FALSE \in BOOLEAN
    BY ConstantsTyped
  <2> QED BY <2>1, NewBattleTyped DEF NoBattle
<1>2. InMenu \in CtlOf /\ NoVerdict \in VerdictOf /\ InMenu.skip = 0
  BY ConstantsTyped DEF InMenu, NoVerdict, CtlOf, VerdictOf
<1>3. NoSnaps \in MapsTo(SnapState) /\ <<>> \in Seq(Message)
  BY DEF NoSnaps, MapsTo
<1>4. faults \in [forked : SUBSET (Machines \X (0 .. MaxMatches)), quits : Nat, skips : Nat]
  BY DEF Init
<1>5. TotalFaults <= MaxFaults
  <2>1. TotalFaults = Cardinality({})
    BY FS_EmptySet DEF Init, TotalFaults
  <2> QED BY <2>1, FS_EmptySet, ConstantsTyped
<1>6. Typed
  BY <1>1, <1>2, <1>3, <1>4, <1>5 DEF Typed, Init
<1>7. \A m \in Machines : ~Playing(m) /\ sim[m] = NoBattle /\ ~ctl[m].allowed
  BY DEF Init, Playing, InMenu
<1> QED BY <1>6, <1>7 DEF Inv, Alone

(* A new battle, nothing simulated yet.                                    *)
LEMMA NewBattleFits ==
  ASSUME NEW seed \in 1 .. MaxMatches, NEW drift \in BOOLEAN, NEW clean \in BOOLEAN,
         NEW allowed \in BOOLEAN
  PROVE  NewBattle(seed, drift) \in SimOf /\ InBattle(NewBattle(seed, drift), seed, clean, FALSE, allowed)
<1> DEFINE s == NewBattle(seed, drift)
<1>1. s \in SimOf
  BY NewBattleTyped, ConstantsTyped
<1>2. /\ s.seed = seed /\ s.n = 0 /\ s.frame = 0 /\ s.bad = None /\ s.conf = Delay /\ s.wrong = None
      /\ ~s.lost /\ s.ring = [i \in Ring |-> NoSlot] /\ DOMAIN s.snaps = {}
      /\ \A slot \in Slots : ~s.pool[slot].used
  BY DEF NewBattle, NoSnaps, Unused
<1> HIDE DEF s
<1>3. Rings(s)
  BY <1>2 DEF Rings
<1>4. Guessing(s) /\ WrongFrom(s) /\ Unstarted(s)
  BY <1>2, ConstantsTyped DEF Guessing, WrongFrom, Unstarted
<1>5. InBattle(s, seed, clean, FALSE, allowed)
  BY <1>1, <1>2, <1>3, <1>4, ConstantsTyped DEF InBattle
<1> QED BY <1>1, <1>5 DEF s

(* StartGGPO keeps the invariant.                                           *)
LEMMA StartGGPOKeeps ==
  ASSUME NEW m \in Machines, Inv, StartGGPO(m)
  PROVE  Inv'
<1> DEFINE seed == ctl[m].match + 1
           s == NewBattle(seed, m \in Drifting)
           c == [InMenu EXCEPT !.at = "battle", !.match = seed, !.open = TRUE]
<1>1. /\ sim' = [sim EXCEPT ![m] = s] /\ ctl' = [ctl EXCEPT ![m] = c]
      /\ pending' = [pending EXCEPT ![m] = NoSnaps] /\ UNCHANGED <<inbox, verdict, faults>>
      /\ ctl[m].match < MaxMatches
  BY DEF StartGGPO, Called, ClearPending
<1>2. seed \in 1 .. MaxMatches /\ seed \in 0 .. MaxMatches
  <2>1. ctl[m].match \in 0 .. MaxMatches
    BY DEF Inv, Typed, CtlOf
  <2> QED BY <1>1, <2>1, ConstantsTyped
<1>3. c \in CtlOf /\ c.at = "battle" /\ c.open /\ c.match = seed /\ c.leftIdle = FALSE
      /\ c.allowed = FALSE /\ c.skip = 0
  <2>1. 0 \in 0 .. HOLD_CAP + 1 /\ 0 \in Nat
    BY ConstantsTyped
  <2> HIDE DEF seed
  <2> QED BY <1>2, <2>1 DEF InMenu, CtlOf
<1> HIDE DEF c, seed
<1>4. s \in SimOf /\ InBattle(s, seed, TRUE, FALSE, FALSE) /\ InBattle(s, seed, FALSE, FALSE, FALSE)
  <2>1. (m \in Drifting) \in BOOLEAN /\ TRUE \in BOOLEAN /\ FALSE \in BOOLEAN
    OBVIOUS
  <2>2. s \in SimOf /\ InBattle(s, seed, TRUE, FALSE, FALSE)
    BY <1>2, <2>1, NewBattleFits
  <2>3. InBattle(s, seed, FALSE, FALSE, FALSE)
    BY <1>2, <2>1, NewBattleFits
  <2> QED BY <2>2, <2>3
<1> HIDE DEF s
<1>5. Typed
  BY DEF Inv
<1>6. pending' \in [Machines -> MapsTo(SnapState)]
  <2>1. NoSnaps \in MapsTo(SnapState)
    BY DEF NoSnaps, MapsTo
  <2> QED BY <1>1, <1>5, <2>1 DEF Typed
<1>7. sim'[m] = s /\ ctl'[m] = c
  BY <1>1, <1>5 DEF Typed
<1>8. Alone(m)'
  <2>1. Playing(m)' /\ ctl'[m].match = seed /\ ~ctl'[m].leftIdle /\ ~ctl'[m].allowed
    BY <1>3, <1>7 DEF Playing
  <2>2. Battling(m)'
    BY <1>4, <1>7, <2>1 DEF Battling, InBattle
  <2> QED BY <2>1, <2>2 DEF Alone
<1>9. c.skip <= faults'.skips
  BY <1>1, <1>3, <1>5, FaultTypes
<1>10. inbox' \in [Machines -> Seq(Message)] /\ verdict' \in [Machines -> VerdictOf]
  BY <1>1, <1>5 DEF Typed
<1>11. /\ faults' \in [forked : SUBSET (Machines \X (0 .. MaxMatches)), quits : Nat, skips : Nat]
       /\ faults'.forked = faults.forked /\ TotalFaults' <= MaxFaults
       /\ faults.skips <= faults'.skips
  BY <1>1, <1>5, SameFaults
<1> QED BY <1>1, <1>3, <1>4, <1>6, <1>8, <1>9, <1>10, <1>11, InvFrom

(* Into and out of what is known of a battle, with a name for ~Forked(m).  *)
LEMMA BattleOf ==
  ASSUME NEW m \in Machines, Inv, Playing(m), NEW clean \in BOOLEAN, clean <=> ~Forked(m)
  PROVE  InBattle(sim[m], ctl[m].match, clean, ctl[m].leftIdle, ctl[m].allowed)
<1> DEFINE s == sim[m]
           on == ctl[m].allowed
           left == ctl[m].leftIdle
           seed == ctl[m].match
<1>1. InBattle(s, seed, ~Forked(m), left, on)
  BY DEF Inv, Alone, Battling
<1> HIDE DEF s, on, left, seed
<1>2. CASE clean
  <2>1. InBattle(s, seed, TRUE, left, on)
    BY <1>1, <1>2 DEF InBattle
  <2> QED BY <1>2, <2>1 DEF s, on, left, seed
<1>3. CASE ~clean
  <2>1. InBattle(s, seed, FALSE, left, on)
    BY <1>1, <1>3 DEF InBattle
  <2> QED BY <1>3, <2>1 DEF s, on, left, seed
<1> QED BY <1>2, <1>3

(* A battle that keeps what it promises, after the step as before.          *)
LEMMA BattleThen ==
  ASSUME NEW m \in Machines, NEW clean \in BOOLEAN, clean <=> ~Forked(m)', NEW s, NEW seed, NEW left, NEW on,
         sim'[m] = s, ctl'[m].match = seed, ctl'[m].leftIdle = left, ctl'[m].allowed = on,
         InBattle(s, seed, clean, left, on), Playing(m)'
  PROVE  Alone(m)'
<1>1. CASE clean
  BY <1>1 DEF Alone, Battling, InBattle
<1>2. CASE ~clean
  BY <1>2 DEF Alone, Battling, InBattle
<1> QED BY <1>1, <1>2

(* What only changes how far the machine is, and not that it plays.        *)
LEMMA ControlKeeps ==
  ASSUME NEW m \in Machines, Inv, NEW c \in CtlOf, UNCHANGED <<sim, inbox, pending>>,
         ctl' = [ctl EXCEPT ![m] = c],
         verdict' \in [Machines -> VerdictOf],
         c.match = ctl[m].match, c.leftIdle = ctl[m].leftIdle,
         \/ c.at = ctl[m].at /\ c.open = ctl[m].open /\ c.allowed = ctl[m].allowed
         \/ Playing(m) /\ c.at = "battle" /\ c.open /\ c.allowed
         \/ ~Playing(m) /\ c.at # "battle" /\ c.allowed = ctl[m].allowed,
         faults' \in [forked : SUBSET (Machines \X (0 .. MaxMatches)), quits : Nat, skips : Nat],
         faults'.forked = faults.forked, TotalFaults' <= MaxFaults,
         faults.skips <= faults'.skips, c.skip <= faults'.skips
  PROVE  Inv'
<1>1. sim[m] \in SimOf /\ sim' = [sim EXCEPT ![m] = sim[m]] /\ sim'[m] = sim[m] /\ ctl'[m] = c
  BY DEF Inv, Typed
<1>2. inbox' \in [Machines -> Seq(Message)] /\ pending' \in [Machines -> MapsTo(SnapState)]
  BY DEF Inv, Typed
<1>3. Alone(m)
  BY DEF Inv
<1>4. Forked(m)' <=> Forked(m)
  BY <1>1 DEF Forked
<1>5. CASE c.at = ctl[m].at /\ c.open = ctl[m].open /\ c.allowed = ctl[m].allowed
  <2>1. Alone(m)'
    BY <1>1, <1>3, <1>5, AloneKept
  <2> QED BY <1>1, <1>2, <2>1, InvFrom
<1>6. CASE Playing(m) /\ c.at = "battle" /\ c.open /\ c.allowed
  <2> DEFINE clean == ~Forked(m)
             s == sim[m]
  <2>1. clean \in BOOLEAN /\ (clean <=> ~Forked(m)) /\ (clean <=> ~Forked(m)')
    BY <1>4
  <2> HIDE DEF clean
  <2>2. InBattle(s, ctl[m].match, clean, ctl[m].leftIdle, ctl[m].allowed)
    BY <1>6, <2>1, BattleOf
  <2> HIDE DEF s
  <2>3. InBattle(s, c.match, clean, c.leftIdle, c.allowed)
    BY <1>6, <2>2 DEF InBattle
  <2>4. sim'[m] = s
    BY <1>1 DEF s
  <2>5. Playing(m)'
    BY <1>1, <1>6 DEF Playing
  <2>6. Alone(m)'
    BY <1>1, <2>1, <2>3, <2>4, <2>5, BattleThen
  <2> QED BY <1>1, <1>2, <2>6, InvFrom
<1>7. CASE ~Playing(m) /\ c.at # "battle" /\ c.allowed = ctl[m].allowed
  <2>1. Alone(m)'
    BY <1>1, <1>3, <1>7 DEF Alone, Playing
  <2> QED BY <1>1, <1>2, <2>1, InvFrom
<1> QED BY <1>5, <1>6, <1>7

(* GGPO's session that runs, and lets the battle begin, keeps the invariant.*)
LEMMA RunningKeeps ==
  ASSUME NEW m \in Machines, Inv, Running(m)
  PROVE  Inv'
<1> DEFINE c == [ctl[m] EXCEPT !.allowed = TRUE]
<1>1. ctl[m] \in CtlOf /\ Typed /\ ctl[m].skip <= faults.skips
  BY DEF Inv, Typed
<1>2. c \in CtlOf /\ c.at = ctl[m].at /\ c.open = ctl[m].open /\ c.match = ctl[m].match /\ c.allowed
      /\ c.leftIdle = ctl[m].leftIdle /\ c.skip = ctl[m].skip
  BY <1>1 DEF CtlOf
<1>3. /\ ctl' = [ctl EXCEPT ![m] = c] /\ UNCHANGED <<sim, inbox, pending, verdict, faults>>
      /\ Playing(m)
  BY DEF Running
<1> HIDE DEF c
<1>4. /\ faults' \in [forked : SUBSET (Machines \X (0 .. MaxMatches)), quits : Nat, skips : Nat]
      /\ faults'.forked = faults.forked /\ TotalFaults' <= MaxFaults /\ faults.skips <= faults'.skips
  BY <1>1, <1>3, SameFaults
<1>5. verdict' \in [Machines -> VerdictOf] /\ c.skip <= faults'.skips
  BY <1>1, <1>2, <1>3 DEF Typed
<1> QED BY <1>2, <1>3, <1>4, <1>5, ControlKeeps DEF Playing

(* The peer's disconnection keeps the invariant.                            *)
LEMMA DisconnectedKeeps ==
  ASSUME NEW m \in Machines, Inv, Disconnected(m)
  PROVE  Inv'
<1> DEFINE c == [ctl[m] EXCEPT !.leaving = TRUE]
<1>1. ctl[m] \in CtlOf /\ Typed /\ ctl[m].skip <= faults.skips
  BY DEF Inv, Typed
<1>2. c \in CtlOf /\ c.at = ctl[m].at /\ c.open = ctl[m].open /\ c.match = ctl[m].match
      /\ c.allowed = ctl[m].allowed /\ c.leftIdle = ctl[m].leftIdle /\ c.skip = ctl[m].skip
  BY <1>1 DEF CtlOf
<1>3. ctl' = [ctl EXCEPT ![m] = c] /\ UNCHANGED <<sim, inbox, pending, verdict, faults>>
  BY DEF Disconnected
<1> HIDE DEF c
<1>4. /\ faults' \in [forked : SUBSET (Machines \X (0 .. MaxMatches)), quits : Nat, skips : Nat]
      /\ faults'.forked = faults.forked /\ TotalFaults' <= MaxFaults /\ faults.skips <= faults'.skips
  BY <1>1, <1>3, SameFaults
<1>5. verdict' \in [Machines -> VerdictOf] /\ c.skip <= faults'.skips
  BY <1>1, <1>2, <1>3 DEF Typed
<1> QED BY <1>2, <1>3, <1>4, <1>5, ControlKeeps

(* A failed assertion keeps the invariant.                                  *)
LEMMA AssertKeeps ==
  ASSUME NEW m \in Machines, Inv, OnGgpoAssertFailed(m)
  PROVE  Inv'
<1> DEFINE c == [ctl[m] EXCEPT !.leaving = TRUE]
<1>1. ctl[m] \in CtlOf /\ Typed /\ ctl[m].skip <= faults.skips /\ ctl[m].skip \in Nat
  BY DEF Inv, Typed, CtlOf
<1>2. c \in CtlOf /\ c.at = ctl[m].at /\ c.open = ctl[m].open /\ c.match = ctl[m].match
      /\ c.allowed = ctl[m].allowed /\ c.leftIdle = ctl[m].leftIdle /\ c.skip = ctl[m].skip
  BY <1>1 DEF CtlOf
<1>3. /\ ctl' = [ctl EXCEPT ![m] = c] /\ UNCHANGED <<sim, inbox, pending, verdict>>
      /\ TotalFaults < MaxFaults /\ faults' = [faults EXCEPT !.quits = @ + 1]
  BY DEF OnGgpoAssertFailed
<1> HIDE DEF c
<1>4. /\ faults' \in [forked : SUBSET (Machines \X (0 .. MaxMatches)), quits : Nat, skips : Nat]
      /\ faults'.forked = faults.forked /\ TotalFaults' <= MaxFaults
      /\ faults'.skips = faults.skips + 0 /\ faults.skips <= faults'.skips
  BY <1>1, <1>3, OneMoreFault
<1>5. verdict' \in [Machines -> VerdictOf] /\ c.skip <= faults'.skips
  <2>1. faults.skips \in Nat
    BY <1>1, FaultTypes
  <2> QED BY <1>1, <1>2, <1>3, <1>4, <2>1 DEF Typed
<1> QED BY <1>2, <1>3, <1>4, <1>5, ControlKeeps

(* A frame skipped to let the peer catch up keeps the invariant.            *)
LEMMA TimeSyncKeeps ==
  ASSUME NEW m \in Machines, Inv, TimeSync(m)
  PROVE  Inv'
<1> DEFINE c == [ctl[m] EXCEPT !.skip = @ + 1]
<1>1. /\ ctl[m] \in CtlOf /\ Typed /\ ctl[m].skip <= faults.skips /\ ctl[m].skip \in Nat
      /\ faults.skips \in Nat
  BY FaultTypes DEF Inv, Typed, CtlOf
<1>2. c \in CtlOf /\ c.at = ctl[m].at /\ c.open = ctl[m].open /\ c.match = ctl[m].match
      /\ c.allowed = ctl[m].allowed /\ c.leftIdle = ctl[m].leftIdle /\ c.skip = ctl[m].skip + 1
  BY <1>1 DEF CtlOf
<1>3. /\ ctl' = [ctl EXCEPT ![m] = c] /\ UNCHANGED <<sim, inbox, pending, verdict>>
      /\ TotalFaults < MaxFaults /\ faults' = [faults EXCEPT !.skips = @ + 1]
  BY DEF TimeSync
<1> HIDE DEF c
<1>4. /\ faults' \in [forked : SUBSET (Machines \X (0 .. MaxMatches)), quits : Nat, skips : Nat]
      /\ faults'.forked = faults.forked /\ TotalFaults' <= MaxFaults
      /\ faults'.skips = faults.skips + 1 /\ faults.skips <= faults'.skips
  BY <1>1, <1>3, OneMoreFault
<1>5. verdict' \in [Machines -> VerdictOf] /\ c.skip <= faults'.skips
  BY <1>1, <1>2, <1>3, <1>4 DEF Typed
<1> QED BY <1>2, <1>3, <1>4, <1>5, ControlKeeps

(* The lobby that takes the result of a battle keeps the invariant.         *)
LEMMA DrawKeeps ==
  ASSUME NEW m \in Machines, Inv, Draw(m)
  PROVE  Inv'
<1> DEFINE c == [ctl[m] EXCEPT !.at = "menu"]
<1>1. ctl[m] \in CtlOf /\ Typed /\ ctl[m].skip <= faults.skips
  BY DEF Inv, Typed
<1>2. c \in CtlOf /\ c.at = "menu" /\ c.open = ctl[m].open /\ c.match = ctl[m].match
      /\ c.allowed = ctl[m].allowed /\ c.leftIdle = ctl[m].leftIdle /\ c.skip = ctl[m].skip
  BY <1>1 DEF CtlOf
<1>3. /\ ctl' = [ctl EXCEPT ![m] = c] /\ UNCHANGED <<sim, inbox, pending, faults>>
      /\ ctl[m].at = "closed"
  BY DEF Draw
<1> HIDE DEF c
<1>4. /\ faults' \in [forked : SUBSET (Machines \X (0 .. MaxMatches)), quits : Nat, skips : Nat]
      /\ faults'.forked = faults.forked /\ TotalFaults' <= MaxFaults /\ faults.skips <= faults'.skips
  BY <1>1, <1>3, SameFaults
<1>5. verdict' \in [Machines -> VerdictOf]
  <2>1. verdict \in [Machines -> VerdictOf] /\ verdict[m] \in VerdictOf
    BY <1>1 DEF Typed
  <2>2. [verdict[m] EXCEPT !.abort = FALSE, !.seen = FALSE, !.result = "none"] \in VerdictOf
    BY <2>1 DEF VerdictOf
  <2>3. verdict' = [verdict EXCEPT ![m] = [verdict[m] EXCEPT !.abort = FALSE, !.seen = FALSE, !.result = "none"]]
    BY <2>1 DEF Draw
  <2> QED BY <2>1, <2>2, <2>3
<1>6. c.skip <= faults'.skips /\ ~Playing(m)
  BY <1>1, <1>2, <1>3 DEF Playing
<1> QED BY <1>2, <1>3, <1>4, <1>5, <1>6, ControlKeeps

(* What leaves, or does not get into, the battle.                          *)
LEMMA LeavingKeeps ==
  ASSUME NEW m \in Machines, Inv, NEW c \in CtlOf, ~c.open, ~c.allowed, c.skip = 0,
         sim' = [sim EXCEPT ![m] = NoBattle], ctl' = [ctl EXCEPT ![m] = c],
         inbox' \in [Machines -> Seq(Message)], pending' \in [Machines -> MapsTo(SnapState)],
         verdict' \in [Machines -> VerdictOf],
         faults' \in [forked : SUBSET (Machines \X (0 .. MaxMatches)), quits : Nat, skips : Nat],
         faults'.forked = faults.forked, TotalFaults' <= MaxFaults, faults.skips <= faults'.skips
  PROVE  Inv'
<1>1. NoBattle \in SimOf
  <2>1. 0 \in 0 .. MaxMatches /\ FALSE \in BOOLEAN
    BY ConstantsTyped
  <2> QED BY <2>1, NewBattleTyped DEF NoBattle
<1>2. sim'[m] = NoBattle /\ ctl'[m] = c
  BY DEF Inv, Typed
<1>3. Alone(m)'
  BY <1>2 DEF Alone, Playing
<1>4. c.skip <= faults'.skips
  OBVIOUS
<1> QED BY <1>1, <1>3, <1>4, InvFrom

(* Where it is then.                                                       *)
LEMMA MenuTyped ==
  ASSUME NEW at \in {"menu", "battle", "closed", "gone"}, NEW match \in 0 .. MaxMatches
  PROVE  LET c == [InMenu EXCEPT !.at = at, !.match = match]
             d == [InMenu EXCEPT !.at = at, !.match = match, !.leaving = TRUE]
             e == [InMenu EXCEPT !.at = at]
         IN  /\ c \in CtlOf /\ c.at = at /\ c.match = match /\ ~c.open /\ ~c.allowed /\ c.skip = 0
             /\ d \in CtlOf /\ d.at = at /\ d.match = match /\ ~d.open /\ ~d.allowed /\ d.skip = 0
             /\ e \in CtlOf /\ e.at = at /\ e.match = 0 /\ ~e.open /\ ~e.allowed /\ e.skip = 0
<1>1. 0 \in 0 .. HOLD_CAP + 1 /\ 0 \in Nat /\ 0 \in 0 .. MaxMatches
  BY ConstantsTyped
<1> QED BY <1>1 DEF InMenu, CtlOf

(* A start that fails keeps the invariant.                                  *)
LEMMA StartFailsKeeps ==
  ASSUME NEW m \in Machines, Inv, StartFails(m)
  PROVE  Inv'
<1> DEFINE match == ctl[m].match + 1
<1>1. Typed /\ ctl[m].match \in 0 .. MaxMatches
  BY DEF Inv, Typed, CtlOf
<1>2. /\ sim' = [sim EXCEPT ![m] = NoBattle] /\ UNCHANGED <<inbox, verdict>>
      /\ ctl' = [ctl EXCEPT ![m] = [InMenu EXCEPT !.at = "battle", !.match = match, !.leaving = TRUE]]
      /\ pending' = [pending EXCEPT ![m] = NoSnaps] /\ ctl[m].match < MaxMatches
      /\ TotalFaults < MaxFaults /\ faults' = [faults EXCEPT !.quits = @ + 1]
  BY DEF StartFails, ClearPending, Called
<1>3. match \in 0 .. MaxMatches
  BY <1>1, <1>2, ConstantsTyped
<1> DEFINE c == [InMenu EXCEPT !.at = "battle", !.match = match, !.leaving = TRUE]
<1> HIDE DEF match
<1>6. c \in CtlOf /\ ~c.open /\ ~c.allowed /\ c.skip = 0 /\ ctl' = [ctl EXCEPT ![m] = c]
  BY <1>2, <1>3, MenuTyped
<1> HIDE DEF c
<1>4. inbox' \in [Machines -> Seq(Message)] /\ pending' \in [Machines -> MapsTo(SnapState)]
      /\ verdict' \in [Machines -> VerdictOf]
  <2>1. NoSnaps \in MapsTo(SnapState)
    BY DEF NoSnaps, MapsTo
  <2> QED BY <1>1, <1>2, <2>1 DEF Typed
<1>5. /\ faults' \in [forked : SUBSET (Machines \X (0 .. MaxMatches)), quits : Nat, skips : Nat]
      /\ faults'.forked = faults.forked /\ TotalFaults' <= MaxFaults /\ faults.skips <= faults'.skips
  BY <1>1, <1>2, OneMoreFault
<1> QED BY <1>2, <1>4, <1>5, <1>6, LeavingKeeps

(* The end of a battle keeps the invariant.                                 *)
LEMMA CloseBattleKeeps ==
  ASSUME NEW m \in Machines, Inv, CloseBattle(m)
  PROVE  Inv'
<1> DEFINE match == ctl[m].match
<1>1. Typed /\ match \in 0 .. MaxMatches
  BY DEF Inv, Typed, CtlOf
<1>2. /\ sim' = [sim EXCEPT ![m] = NoBattle] /\ UNCHANGED <<inbox, pending, verdict, faults>>
  BY DEF CloseBattle
<1> DEFINE c == [InMenu EXCEPT !.at = "closed", !.match = match]
<1>5. c \in CtlOf /\ ~c.open /\ ~c.allowed /\ c.skip = 0
  BY <1>1, MenuTyped
<1>6. ctl' = [ctl EXCEPT ![m] = c]
  BY DEF CloseBattle
<1> HIDE DEF match, c
<1>3. inbox' \in [Machines -> Seq(Message)] /\ pending' \in [Machines -> MapsTo(SnapState)]
      /\ verdict' \in [Machines -> VerdictOf]
  BY <1>1, <1>2 DEF Typed
<1>4. /\ faults' \in [forked : SUBSET (Machines \X (0 .. MaxMatches)), quits : Nat, skips : Nat]
      /\ faults'.forked = faults.forked /\ TotalFaults' <= MaxFaults /\ faults.skips <= faults'.skips
  BY <1>1, <1>2, SameFaults
<1> QED BY <1>2, <1>3, <1>4, <1>5, <1>6, LeavingKeeps

(* A player who quits keeps the invariant.                                  *)
LEMMA QuitKeeps ==
  ASSUME NEW m \in Machines, Inv, Quit(m)
  PROVE  Inv'
<1>1. Typed /\ 0 \in 0 .. MaxMatches
  BY ConstantsTyped DEF Inv
<1>2. /\ sim' = [sim EXCEPT ![m] = NoBattle] /\ inbox' = [inbox EXCEPT ![m] = <<>>]
      /\ pending' = [pending EXCEPT ![m] = NoSnaps] /\ verdict' = [verdict EXCEPT ![m] = NoVerdict]
      /\ TotalFaults < MaxFaults /\ faults' = [faults EXCEPT !.quits = @ + 1]
  BY DEF Quit
<1> DEFINE c == [InMenu EXCEPT !.at = "gone"]
<1>5. c \in CtlOf /\ ~c.open /\ ~c.allowed /\ c.skip = 0
  BY <1>1, MenuTyped
<1>6. ctl' = [ctl EXCEPT ![m] = c]
  BY DEF Quit
<1> HIDE DEF c
<1>3. inbox' \in [Machines -> Seq(Message)] /\ pending' \in [Machines -> MapsTo(SnapState)]
      /\ verdict' \in [Machines -> VerdictOf]
  <2>1. NoSnaps \in MapsTo(SnapState)
    BY DEF NoSnaps, MapsTo
  <2>2. <<>> \in Seq(Message)
    OBVIOUS
  <2>3. NoVerdict \in VerdictOf
    BY DEF NoVerdict, VerdictOf
  <2> QED BY <1>1, <1>2, <2>1, <2>2, <2>3 DEF Typed
<1>4. /\ faults' \in [forked : SUBSET (Machines \X (0 .. MaxMatches)), quits : Nat, skips : Nat]
      /\ faults'.forked = faults.forked /\ TotalFaults' <= MaxFaults /\ faults.skips <= faults'.skips
  BY <1>1, <1>2, OneMoreFault
<1> QED BY <1>2, <1>3, <1>4, <1>5, <1>6, LeavingKeeps

(* A frame's worth of a battle under way.                                  *)
LEMMA PlayingKeeps ==
  ASSUME NEW m \in Machines, Inv, Playing(m), NEW clean \in BOOLEAN, clean <=> ~Forked(m), NEW s,
         NEW c \in CtlOf, InBattle(s, ctl[m].match, clean, c.leftIdle, c.allowed),
         c.at = "battle", c.open, c.match = ctl[m].match, c.skip <= ctl[m].skip,
         sim' = [sim EXCEPT ![m] = s], ctl' = [ctl EXCEPT ![m] = c],
         UNCHANGED <<inbox, pending, faults>>, verdict' \in [Machines -> VerdictOf]
  PROVE  Inv'
<1>1. s \in SimOf
  BY DEF InBattle
<1>2. sim'[m] = s /\ ctl'[m] = c /\ Typed
  BY DEF Inv, Typed
<1>3. Playing(m)' /\ (clean <=> ~Forked(m)')
  BY <1>2 DEF Playing, Forked
<1>4. Alone(m)'
  <2> DEFINE seed == ctl[m].match
             left == c.leftIdle
             on == c.allowed
  <2>1. /\ InBattle(s, seed, clean, left, on) /\ sim'[m] = s
        /\ ctl'[m].match = seed /\ ctl'[m].leftIdle = left /\ ctl'[m].allowed = on
    BY <1>2
  <2> HIDE DEF seed, left, on
  <2> QED BY <1>3, <2>1, BattleThen
<1>5. /\ faults' \in [forked : SUBSET (Machines \X (0 .. MaxMatches)), quits : Nat, skips : Nat]
      /\ faults'.forked = faults.forked /\ TotalFaults' <= MaxFaults /\ faults.skips <= faults'.skips
  BY <1>2, SameFaults
<1>6. inbox' \in [Machines -> Seq(Message)] /\ pending' \in [Machines -> MapsTo(SnapState)]
  BY <1>2 DEF Typed
<1>7. c.skip <= faults'.skips
  <2>1. ctl[m].skip \in Nat /\ ctl[m].skip <= faults.skips /\ faults.skips \in Nat /\ c.skip \in Nat
    BY <1>2, FaultTypes DEF Typed, CtlOf
  <2> QED BY <2>1
<1> QED BY <1>1, <1>4, <1>5, <1>6, <1>7, InvFrom

(* What GGPO takes in, and where that leaves the battle.                   *)
LEMMA Polled ==
  ASSUME NEW m \in Machines, Inv, Playing(m), NEW clean \in BOOLEAN, clean <=> ~Forked(m),
         NEW c, c \in Arrivals(m) \/ c = sim[m].conf, NEW w \in Guesses(m, c)
  PROVE  LET s == Poll(sim[m], c, w, Forked(m)) IN
         /\ InBattle(s, ctl[m].match, clean, ctl[m].leftIdle, ctl[m].allowed)
         /\ s.frame = sim[m].frame /\ s.n = sim[m].n /\ s.conf = c /\ c \in Nat
         /\ sim[m].conf <= c
         /\ c = sim[m].conf \/ c <= sim[Peer(m)].frame + Delay
<1> DEFINE s == sim[m]
           q == sim[Peer(m)].frame + Delay
<1>1. /\ s \in SimOf /\ Peer(m) \in Machines /\ ctl[m].leftIdle \in BOOLEAN /\ ctl[m].allowed \in BOOLEAN
  BY MachineTypes DEF Inv
<1>2. InBattle(s, ctl[m].match, clean, ctl[m].leftIdle, ctl[m].allowed)
  BY BattleOf
<1>3. s.conf \in 0 .. LastFrame + Delay /\ s.conf \in Nat /\ q \in 0 .. LastFrame + Delay /\ q \in Nat
  <2>1. sim[Peer(m)] \in SimOf
    BY <1>1, MachineTypes DEF Inv
  <2>2. sim[Peer(m)].frame \in 0 .. LastFrame
    BY <2>1 DEF SimOf, Frames
  <2>3. s.conf \in 0 .. LastFrame + Delay
    BY <1>1 DEF SimOf
  <2> QED BY <2>2, <2>3, ConstantsTyped
<1> HIDE DEF q
<1>4. c \in 0 .. LastFrame + Delay /\ c \in Nat /\ s.conf <= c /\ (c = s.conf \/ c <= q)
  <2>1. CASE c = s.conf
    BY <1>3, <2>1
  <2>2. CASE c \in Arrivals(m)
    <3>1. c \in s.conf .. Max({s.conf, q})
      BY <2>2 DEF Arrivals, q
    <3>2. Max({s.conf, q}) = IF s.conf >= q THEN s.conf ELSE q
      BY <1>3, GreatestOfTwo
    <3> HIDE DEF s
    <3> QED BY <1>3, <3>1, <3>2, ConstantsTyped
  <2> QED BY <2>1, <2>2
<1>5. w \in IF s.wrong = None \/ s.wrong >= c THEN {s.wrong} ELSE {None} \cup c .. s.frame - 1
  BY DEF Guesses
<1> DEFINE f == Forked(m)
<1>6. f = (~clean)
  BY DEF Forked
<1> HIDE DEF f
<1> DEFINE left == ctl[m].leftIdle
           on == ctl[m].allowed
           seed == ctl[m].match
           r == Poll(s, c, w, ~clean)
<1>7. InBattle(s, seed, clean, left, on) /\ left \in BOOLEAN /\ on \in BOOLEAN
  BY <1>1, <1>2
<1> HIDE DEF s, left, on, seed
<1>8. InBattle(r, seed, clean, left, on) /\ r.frame = s.frame /\ r.conf = c /\ r.n = s.n
  BY <1>4, <1>5, <1>7, PollKeeps
<1>9. Poll(s, c, w, f) = r
  BY <1>6
<1> HIDE DEF r
<1>10. Poll(sim[m], c, w, Forked(m)) = r
  BY <1>9 DEF f, s
<1> QED BY <1>4, <1>8, <1>10 DEF s, left, on, seed, q

(* GGPO pumped while the battle does not update keeps the invariant.        *)
LEMMA IdleKeeps ==
  ASSUME NEW m \in Machines, Inv, Idle(m)
  PROVE  Inv'
<1> DEFINE clean == ~Forked(m)
<1>1. clean \in BOOLEAN /\ (clean <=> ~Forked(m))
  OBVIOUS
<1> HIDE DEF clean
<1>2. PICK c \in Arrivals(m) : \E w \in Guesses(m, c) :
        sim' = [sim EXCEPT ![m] = Poll(sim[m], c, w, Forked(m))]
  BY DEF Idle
<1>3. PICK w \in Guesses(m, c) : sim' = [sim EXCEPT ![m] = Poll(sim[m], c, w, Forked(m))]
  BY <1>2
<1>4. Playing(m) /\ UNCHANGED <<ctl, inbox, pending, verdict, faults>>
  BY DEF Idle
<1> DEFINE s == Poll(sim[m], c, w, Forked(m))
<1>5. InBattle(s, ctl[m].match, clean, ctl[m].leftIdle, ctl[m].allowed)
  <2>1. (c \in Arrivals(m) \/ c = sim[m].conf) /\ w \in Guesses(m, c)
    OBVIOUS
  <2> QED BY <1>1, <1>4, <2>1, Polled
<1>6. sim' = [sim EXCEPT ![m] = s]
  BY <1>3
<1> HIDE DEF s
<1>7. /\ ctl[m] \in CtlOf /\ ctl' = [ctl EXCEPT ![m] = ctl[m]] /\ ctl[m].skip <= ctl[m].skip
      /\ verdict' \in [Machines -> VerdictOf]
  BY <1>4 DEF Inv, Typed, CtlOf
<1> QED BY <1>1, <1>4, <1>5, <1>6, <1>7, PlayingKeeps DEF Playing

(* The disjuncts of BattleUpdate, by name.                                 *)
FramePlayed(m, s, t) ==
  /\ sim' = [sim EXCEPT ![m] = t]
  /\ ctl' = [ctl EXCEPT ![m].held = HeldAfter(m, s), ![m].leftIdle = LeftIdle(m, s),
                        ![m].lastFlow = Flow(t.n)]
  /\ verdict' = [verdict EXCEPT ![m].result = OnMatchResult(m, t)]

Updates(m, s) ==
  \/ /\ Holds(m, s) /\ sim' = [sim EXCEPT ![m] = s] /\ UNCHANGED verdict
     /\ ctl' = [ctl EXCEPT ![m].held = @ + 1]
  \/ /\ ctl[m].skip > 0 /\ sim' = [sim EXCEPT ![m] = s] /\ UNCHANGED verdict
     /\ ctl' = [ctl EXCEPT ![m].held = HeldAfter(m, s), ![m].skip = @ - 1]
  \/ /\ ctl[m].skip = 0
     /\ \E guessed \in (IF s.frame >= s.conf THEN BOOLEAN ELSE {FALSE}) :
          FramePlayed(m, s, Frame(m, s, guessed))

(* What a battle's update does, with its choices named.                     *)
LEMMA UpdateTaken ==
  ASSUME NEW m \in Machines, BattleUpdate(m)
  PROVE  /\ Playing(m) /\ ctl[m].allowed /\ sim[m].n < LastFrame /\ UNCHANGED <<inbox, pending, faults>>
         /\ \E c \in (IF Together(m) THEN Arrivals(m) ELSE {sim[m].conf}) : \E w \in Guesses(m, c) :
              Updates(m, Poll(sim[m], c, w, Forked(m)))
BY DEF BattleUpdate, Updates, FramePlayed

(* A battle's update keeps the invariant.                                   *)
LEMMA BattleUpdateKeeps ==
  ASSUME NEW m \in Machines, Inv, BattleUpdate(m)
  PROVE  Inv'
<1> DEFINE clean == ~Forked(m)
<1>1. clean \in BOOLEAN /\ (clean <=> ~Forked(m))
  OBVIOUS
<1> HIDE DEF clean
<1>2. PICK c \in (IF Together(m) THEN Arrivals(m) ELSE {sim[m].conf}) : \E w \in Guesses(m, c) :
        Updates(m, Poll(sim[m], c, w, Forked(m)))
  BY UpdateTaken
<1>3. PICK w \in Guesses(m, c) : Updates(m, Poll(sim[m], c, w, Forked(m)))
  BY <1>2
<1>4. Playing(m) /\ ctl[m].allowed /\ sim[m].n < LastFrame /\ UNCHANGED <<inbox, pending, faults>>
  BY UpdateTaken
<1> DEFINE s == Poll(sim[m], c, w, Forked(m))
<1>5. InBattle(s, ctl[m].match, clean, ctl[m].leftIdle, ctl[m].allowed) /\ s.n = sim[m].n
  <2>1. (c \in Arrivals(m) \/ c = sim[m].conf) /\ w \in Guesses(m, c)
    OBVIOUS
  <2>2. InBattle(s, ctl[m].match, clean, ctl[m].leftIdle, ctl[m].allowed)
    BY <1>1, <1>4, <2>1, Polled
  <2>3. s.n = sim[m].n
    BY <1>1, <1>4, <2>1, Polled
  <2> QED BY <2>2, <2>3
<1>6. Updates(m, s)
  BY <1>3
<1> HIDE DEF s
<1>7. /\ ctl[m] \in CtlOf /\ ctl[m].leftIdle \in BOOLEAN /\ ctl[m].held \in 0 .. HOLD_CAP + 1
      /\ ctl[m].skip \in Nat /\ verdict \in [Machines -> VerdictOf] /\ verdict[m] \in VerdictOf
      /\ ctl \in [Machines -> CtlOf]
  BY MachineTypes DEF Inv, Typed, CtlOf
<1>8. HeldAfter(m, s) \in 0 .. HOLD_CAP + 1
  BY <1>7, ConstantsTyped DEF HeldAfter
<1>9. CASE /\ Holds(m, s) /\ sim' = [sim EXCEPT ![m] = s] /\ UNCHANGED verdict
           /\ ctl' = [ctl EXCEPT ![m].held = @ + 1]
  <2> DEFINE d == [ctl[m] EXCEPT !.held = @ + 1]
  <2>1. ctl[m].held + 1 \in 0 .. HOLD_CAP + 1
    BY <1>7, <1>9, ConstantsTyped DEF Holds
  <2>2. /\ d \in CtlOf /\ d.at = ctl[m].at /\ d.open = ctl[m].open /\ d.match = ctl[m].match
        /\ d.leftIdle = ctl[m].leftIdle /\ d.allowed = ctl[m].allowed /\ d.skip = ctl[m].skip
    BY <1>7, <2>1 DEF CtlOf
  <2>3. ctl' = [ctl EXCEPT ![m] = d]
    BY <1>9
  <2> HIDE DEF d
  <2>4. /\ InBattle(s, ctl[m].match, clean, d.leftIdle, d.allowed) /\ d.skip <= ctl[m].skip
        /\ verdict' \in [Machines -> VerdictOf]
    BY <1>5, <1>7, <1>9, <2>2
  <2> QED BY <1>1, <1>4, <1>9, <2>2, <2>3, <2>4, PlayingKeeps DEF Playing
<1>10. CASE /\ ctl[m].skip > 0 /\ sim' = [sim EXCEPT ![m] = s] /\ UNCHANGED verdict
            /\ ctl' = [ctl EXCEPT ![m].held = HeldAfter(m, s), ![m].skip = @ - 1]
  <2> DEFINE d == [ctl[m] EXCEPT !.held = HeldAfter(m, s), !.skip = @ - 1]
  <2>1. ctl[m].skip - 1 \in Nat
    BY <1>7, <1>10
  <2>2. /\ d \in CtlOf /\ d.at = ctl[m].at /\ d.open = ctl[m].open /\ d.match = ctl[m].match
        /\ d.leftIdle = ctl[m].leftIdle /\ d.allowed = ctl[m].allowed /\ d.skip = ctl[m].skip - 1
    BY <1>7, <1>8, <2>1 DEF CtlOf
  <2>3. ctl' = [ctl EXCEPT ![m] = d]
    BY <1>7, <1>10
  <2> HIDE DEF d
  <2>4. /\ InBattle(s, ctl[m].match, clean, d.leftIdle, d.allowed) /\ d.skip <= ctl[m].skip
        /\ verdict' \in [Machines -> VerdictOf]
    BY <1>5, <1>7, <1>10, <2>2
  <2> QED BY <1>1, <1>4, <1>10, <2>2, <2>3, <2>4, PlayingKeeps DEF Playing
<1>11. CASE \E guessed \in (IF s.frame >= s.conf THEN BOOLEAN ELSE {FALSE}) :
              FramePlayed(m, s, Frame(m, s, guessed))
  <2>1. PICK guessed \in (IF s.frame >= s.conf THEN BOOLEAN ELSE {FALSE}) :
               FramePlayed(m, s, Frame(m, s, guessed))
    BY <1>11
  <2> DEFINE t == Frame(m, s, guessed)
             flow == Flow(t.n)
             d == [ctl[m] EXCEPT !.held = HeldAfter(m, s), !.leftIdle = LeftIdle(m, s),
                                 !.lastFlow = flow]
  <2>2. InBattle(t, ctl[m].match, clean, LeftIdle(m, s), TRUE)
    <3> DEFINE seed == ctl[m].match
               lead == s.n - s.frame
    <3>1. InBattle(s, seed, clean, ctl[m].leftIdle, TRUE)
      BY <1>4, <1>5, <1>7 DEF InBattle
    <3>2. s.n < LastFrame /\ guessed \in BOOLEAN /\ (guessed => s.frame >= s.conf) /\ lead = s.n - s.frame
      BY <1>4, <1>5
    <3> HIDE DEF seed, lead
    <3>3. InBattle(t, seed, clean, LeftIdle(m, s), TRUE)
      BY <1>1, <1>7, <3>1, <3>2, FrameKeeps
    <3> QED BY <3>3 DEF seed
  <2>3. LeftIdle(m, s) \in BOOLEAN
    BY <1>7 DEF LeftIdle
  <2>4. FramePlayed(m, s, t)
    BY <2>1
  <2> HIDE DEF t
  <2>5. flow \in {"idle", "fight", "over", "result"}
    <3>1. t.n \in Nat
      BY <2>2, ConstantsTyped DEF InBattle, SimOf, Frames
    <3> QED BY <3>1, FlowTypes
  <2> HIDE DEF flow
  <2>6. /\ d \in CtlOf /\ d.at = ctl[m].at /\ d.open = ctl[m].open /\ d.match = ctl[m].match
        /\ d.leftIdle = LeftIdle(m, s) /\ d.allowed = ctl[m].allowed /\ d.skip = ctl[m].skip
    BY <1>7, <1>8, <2>3, <2>5 DEF CtlOf
  <2>7. ctl' = [ctl EXCEPT ![m] = d]
    BY <1>7, <2>4 DEF FramePlayed, flow
  <2> HIDE DEF d
  <2>8. InBattle(t, ctl[m].match, clean, d.leftIdle, d.allowed) /\ d.skip <= ctl[m].skip
    <3>1. d.leftIdle = LeftIdle(m, s) /\ d.allowed = TRUE
      BY <1>4, <1>7, <2>6 DEF CtlOf
    <3> DEFINE left == LeftIdle(m, s)
               seed == ctl[m].match
    <3>2. InBattle(t, seed, clean, left, TRUE) /\ d.leftIdle = left
      BY <2>2, <3>1
    <3> HIDE DEF left, seed
    <3>3. InBattle(t, seed, clean, d.leftIdle, d.allowed)
      BY <3>1, <3>2
    <3> QED BY <1>7, <2>6, <3>3 DEF seed
  <2>9. verdict' \in [Machines -> VerdictOf]
    <3> DEFINE r == OnMatchResult(m, t)
    <3>1. r \in {"none", "right", "wrong"}
      BY <1>7 DEF OnMatchResult, VerdictOf
    <3>2. verdict' = [verdict EXCEPT ![m].result = r]
      BY <2>4 DEF FramePlayed
    <3> HIDE DEF r
    <3> QED BY <1>7, <3>1, <3>2 DEF VerdictOf
  <2>10. sim' = [sim EXCEPT ![m] = t]
    BY <2>4 DEF FramePlayed
  <2> QED BY <1>1, <1>4, <2>6, <2>7, <2>8, <2>9, <2>10, PlayingKeeps DEF Playing
<1> QED BY <1>6, <1>9, <1>10, <1>11 DEF Updates

(* A machine that begins to compute otherwise keeps the invariant.          *)
LEMMA ForkKeeps ==
  ASSUME NEW m \in Machines, Inv, Fork(m)
  PROVE  Inv'
<1> DEFINE fork == <<m, ctl[m].match>>
<1>1. /\ Typed /\ TotalFaults < MaxFaults /\ UNCHANGED <<sim, ctl, inbox, pending, verdict>>
      /\ faults' = [faults EXCEPT !.forked = @ \cup {fork}] /\ Playing(m)
  BY DEF Fork, Inv
<1>2. fork \in Machines \X (0 .. MaxMatches)
  BY <1>1, MachineTypes
<1> HIDE DEF fork
<1>3. /\ faults' \in [forked : SUBSET (Machines \X (0 .. MaxMatches)), quits : Nat, skips : Nat]
      /\ faults'.forked = faults.forked \cup {fork} /\ faults'.quits = faults.quits
      /\ faults'.skips = faults.skips
  BY <1>1, <1>2 DEF Typed
<1>4. TotalFaults' <= MaxFaults
  <2>1. /\ IsFiniteSet(faults.forked) /\ Cardinality(faults.forked) \in Nat
        /\ faults.quits \in Nat /\ faults.skips \in Nat /\ MaxFaults \in Nat
    BY <1>1, FaultTypes, ConstantsTyped
  <2>2. \/ Cardinality(faults.forked \cup {fork}) = Cardinality(faults.forked)
        \/ Cardinality(faults.forked \cup {fork}) = Cardinality(faults.forked) + 1
    BY <2>1, FS_AddElement
  <2> QED BY <1>1, <1>3, <2>1, <2>2 DEF TotalFaults
<1>5. Typed'
  BY <1>1, <1>3, <1>4 DEF Typed
<1>6. ASSUME NEW p \in Machines, p # m PROVE Alone(p)'
  <2>1. <<p, ctl[p].match>> # fork
    BY <1>6 DEF fork
  <2>2. <<p, ctl[p].match>> \in faults'.forked <=> <<p, ctl[p].match>> \in faults.forked
    BY <1>3, <2>1
  <2> QED BY <1>1, <2>2, AloneKept DEF Inv
<1>7. Alone(m)'
  <2>1. Playing(m)' /\ Forked(m)'
    BY <1>1, <1>3 DEF Playing, Forked, fork
  <2> DEFINE s == sim[m]
             seed == ctl[m].match
             left == ctl[m].leftIdle
             on == ctl[m].allowed
  <2>2. InBattle(s, seed, ~Forked(m), left, on)
    BY <1>1 DEF Inv, Alone, Battling
  <2>3. sim'[m] = s /\ ctl'[m].match = seed /\ ctl'[m].leftIdle = left /\ ctl'[m].allowed = on
    BY <1>1
  <2> HIDE DEF s, seed, left, on
  <2>4. InBattle(s, seed, FALSE, left, on)
    <3>1. \A lead, top : Kept(s, lead, top, ~Forked(m)) => Kept(s, lead, top, FALSE)
      BY DEF Kept, StatesSaved, SnapsTaken
    <3> QED BY <2>2, <3>1 DEF InBattle
  <2> QED BY <2>1, <2>3, <2>4, BattleThen
<1> QED BY <1>5, <1>6, <1>7 DEF Inv

(* What is kept of the snapshots is of this timeline, like all of them.    *)
LEMMA FewerSnaps ==
  ASSUME NEW s, NEW seed, NEW clean \in BOOLEAN, NEW left \in BOOLEAN, NEW on \in BOOLEAN,
         InBattle(s, seed, clean, left, on), NEW snaps \in MapsTo(SnapOf),
         DOMAIN snaps \subseteq DOMAIN s.snaps,
         \A f \in DOMAIN snaps : snaps[f].state = s.snaps[f].state
  PROVE  InBattle([s EXCEPT !.snaps = snaps], seed, clean, left, on)
<1> DEFINE r == [s EXCEPT !.snaps = snaps]
<1>1. s \in SimOf
  BY DEF InBattle
<1>2. /\ r \in SimOf /\ r.n = s.n /\ r.frame = s.frame /\ r.bad = s.bad /\ r.conf = s.conf
      /\ r.wrong = s.wrong /\ r.seed = s.seed /\ r.pool = s.pool /\ r.ring = s.ring
      /\ r.lost = s.lost /\ r.snaps = snaps
  BY <1>1 DEF SimOf
<1> HIDE DEF r
<1>3. Rings(r) /\ Guessing(r) /\ (clean => WrongFrom(r))
  BY <1>2 DEF InBattle, Rings, Guessing, WrongFrom
<1>4. ASSUME NEW lead, NEW top, Kept(s, lead, top, clean)
      PROVE  Kept(r, lead, top, clean)
  <2>1. StatesSaved(r, lead, top, clean)
    BY <1>2, <1>4 DEF Kept, StatesSaved, SavedAt, BadBefore
  <2>2. SnapsTaken(r, lead, top, clean)
    <3> SUFFICES ASSUME NEW f \in DOMAIN snaps
                 PROVE  /\ f % SNAPSHOT_EVERY = 0 /\ lead < f /\ f <= top + lead
                        /\ f <= r.n => /\ snaps[f].state.match = r.seed /\ snaps[f].state.frame = f - lead
                                       /\ clean => snaps[f].state.bad = BadBefore(r, f)
      BY <1>2 DEF SnapsTaken
    <3>1. f \in DOMAIN s.snaps /\ snaps[f].state = s.snaps[f].state /\ BadBefore(r, f) = BadBefore(s, f)
      BY <1>2 DEF BadBefore
    <3>2. /\ f % SNAPSHOT_EVERY = 0 /\ lead < f /\ f <= top + lead
          /\ f <= s.n => /\ s.snaps[f].state.match = s.seed /\ s.snaps[f].state.frame = f - lead
                         /\ clean => s.snaps[f].state.bad = BadBefore(s, f)
      BY <1>4, <3>1 DEF Kept, SnapsTaken
    <3> QED BY <1>2, <3>1, <3>2
  <2>3. Rings(s) /\ s.seed # 0 /\ s.n = s.frame + lead /\ (clean => (s.bad # None => s.bad < s.n))
    BY <1>4 DEF Kept
  <2> QED BY <1>2, <1>3, <2>1, <2>2, <2>3 DEF Kept
<1>5. s.frame = 0 => Unstarted(r)
  <2>1. ASSUME s.frame = 0 PROVE Unstarted(r)
    <3>1. Unstarted(s)
      BY <2>1 DEF InBattle
    <3>2. DOMAIN snaps = {}
      BY <3>1 DEF Unstarted
    <3> QED BY <1>2, <3>1, <3>2 DEF Unstarted
  <2> QED BY <2>1
<1>6. s.frame # 0 => left /\ on /\ Kept(r, r.n - r.frame, r.frame, clean)
  BY <1>2, <1>4 DEF InBattle
<1> HIDE DEF Kept, Unstarted
<1>7. /\ s.seed = seed /\ seed # 0 /\ s.frame <= s.n
      /\ IF left THEN Lead(s.n - s.frame) ELSE \A j \in 0 .. s.n - 1 : Flow(j) = "idle"
  BY DEF InBattle
<1>8. InBattle(r, seed, clean, left, on)
  BY <1>2, <1>3, <1>5, <1>6, <1>7 DEF InBattle
<1> QED BY <1>8 DEF r

(* What a step of the session is, in the terms of StepSound.               *)
Session(m, k) == ReconcileAll(ReceiveAll(Stepping(m), m, SubSeq(inbox[m], 1, k)), m)

StepsTo(m, k, v) ==
  /\ sim' = [sim EXCEPT ![m] = [sim[m] EXCEPT !.snaps = v.snaps]]
  /\ pending' = [pending EXCEPT ![m] = v.pending]
  /\ verdict' = [verdict EXCEPT ![m] = [verdict[m] EXCEPT !.abort = v.abort, !.reported = v.reported,
                                                          !.seen = v.seen]]
  /\ ctl' = [ctl EXCEPT ![m] = [ctl[m] EXCEPT !.leaving = v.leaving]]
  /\ inbox'[m] = SubSeq(inbox[m], k + 1, Len(inbox[m]))
  /\ inbox'[Peer(m)] = IF ctl[Peer(m)].at = "gone" THEN inbox[Peer(m)] ELSE inbox[Peer(m)] \o v.out
  /\ inbox' = [p \in Machines |-> inbox'[p]] /\ UNCHANGED faults

(* What a step of the session client does, with its choices named.          *)
LEMMA StepTaken ==
  ASSUME NEW m \in Machines, Inv, Step(m)
  PROVE  \E k \in 0 .. Len(inbox[m]) : \E v :
           /\ StepsTo(m, k, v) /\ Stepped(v, m) /\ (SnapshotsSettled => SteppedWell(v, m))
           /\ Here(m)
<1>1. PICK k \in 0 .. Len(inbox[m]) :
        LET v == Session(m, k) IN
        /\ sim' = [sim EXCEPT ![m].snaps = v.snaps]
        /\ pending' = [pending EXCEPT ![m] = v.pending]
        /\ verdict' = [verdict EXCEPT ![m].abort = v.abort, ![m].reported = v.reported,
                                      ![m].seen = v.seen]
        /\ ctl' = [ctl EXCEPT ![m].leaving = v.leaving]
        /\ inbox' = [inbox EXCEPT ![m] = SubSeq(@, k + 1, Len(@)),
                                  ![Peer(m)] = IF ctl[Peer(m)].at = "gone" THEN @ ELSE @ \o v.out]
  BY DEF Step, Session
<1> DEFINE v == Session(m, k)
<1>2. Stepped(v, m) /\ (SnapshotsSettled => SteppedWell(v, m))
  BY StepSound DEF Session
<1>3. /\ sim' = [sim EXCEPT ![m].snaps = v.snaps]
      /\ pending' = [pending EXCEPT ![m] = v.pending]
      /\ verdict' = [verdict EXCEPT ![m].abort = v.abort, ![m].reported = v.reported,
                                    ![m].seen = v.seen]
      /\ ctl' = [ctl EXCEPT ![m].leaving = v.leaving]
      /\ inbox' = [inbox EXCEPT ![m] = SubSeq(@, k + 1, Len(@)),
                                ![Peer(m)] = IF ctl[Peer(m)].at = "gone" THEN @ ELSE @ \o v.out]
  BY <1>1
<1> HIDE DEF v
<1>4. inbox \in [Machines -> Seq(Message)] /\ Peer(m) # m /\ Peer(m) \in Machines /\ verdict \in [Machines -> VerdictOf]
      /\ verdict[m] \in VerdictOf
  BY MachineTypes DEF Inv, Typed
<1>5. verdict' = [verdict EXCEPT ![m] = [verdict[m] EXCEPT !.abort = v.abort, !.reported = v.reported,
                                                           !.seen = v.seen]]
  BY <1>3, <1>4
<1>6. /\ inbox'[m] = SubSeq(inbox[m], k + 1, Len(inbox[m]))
      /\ inbox'[Peer(m)] = IF ctl[Peer(m)].at = "gone" THEN inbox[Peer(m)] ELSE inbox[Peer(m)] \o v.out
      /\ inbox' = [p \in Machines |-> inbox'[p]]
  BY <1>3, <1>4
<1>7. UNCHANGED faults /\ Here(m)
  BY DEF Step, Here
<1>8. StepsTo(m, k, v)
  BY <1>3, <1>5, <1>6, <1>7 DEF StepsTo
<1> QED BY <1>2, <1>7, <1>8

(* A step of the session client keeps the invariant.                        *)
LEMMA StepKeeps ==
  ASSUME NEW m \in Machines, Inv, Step(m)
  PROVE  Inv'
<1>1. PICK k \in 0 .. Len(inbox[m]) : \E v : StepsTo(m, k, v) /\ Stepped(v, m)
  BY StepTaken
<1>2. PICK v : StepsTo(m, k, v) /\ Stepped(v, m)
  BY <1>1
<1>3. /\ sim[m] \in SimOf /\ ctl[m] \in CtlOf /\ inbox[m] \in Seq(Message) /\ inbox[Peer(m)] \in Seq(Message)
      /\ verdict[m] \in VerdictOf /\ Typed /\ ctl[m].skip <= faults.skips
      /\ Peer(m) \in Machines /\ Peer(m) # m
  BY MachineTypes DEF Inv, Typed
<1>4. v \in SteppingOf /\ SomeOf(v, sim[m].snaps)
  BY <1>2 DEF Stepped
<1> DEFINE s == [sim[m] EXCEPT !.snaps = v.snaps]
           c == [ctl[m] EXCEPT !.leaving = v.leaving]
           d == [verdict[m] EXCEPT !.abort = v.abort, !.reported = v.reported, !.seen = v.seen]
<1>5. s \in SimOf
  BY <1>3, <1>4 DEF SimOf, SteppingOf
<1>6. /\ c \in CtlOf /\ c.at = ctl[m].at /\ c.open = ctl[m].open /\ c.match = ctl[m].match
      /\ c.leftIdle = ctl[m].leftIdle /\ c.allowed = ctl[m].allowed /\ c.skip = ctl[m].skip
  BY <1>3, <1>4 DEF CtlOf, SteppingOf
<1>7. d \in VerdictOf
  BY <1>3, <1>4 DEF VerdictOf, SteppingOf
<1>8. /\ sim' = [sim EXCEPT ![m] = s] /\ ctl' = [ctl EXCEPT ![m] = c]
      /\ verdict' = [verdict EXCEPT ![m] = d] /\ pending' = [pending EXCEPT ![m] = v.pending]
      /\ UNCHANGED faults
  BY <1>2 DEF StepsTo
<1>9. sim'[m] = s /\ ctl'[m] = c
  BY <1>3, <1>8 DEF Typed
<1>10. Alone(m)'
  <2>1. CASE ~Playing(m)
    <3>1. DOMAIN v.snaps = {}
      <4>1. sim[m] = NoBattle /\ DOMAIN NoSnaps = {}
        BY <2>1 DEF Inv, Alone, NoSnaps
      <4> QED BY <1>4, <4>1 DEF SomeOf, NoBattle, NewBattle
    <3>2. v.snaps = NoSnaps
      <4>1. v.snaps \in MapsTo(SnapOf)
        BY <1>4 DEF SteppingOf
      <4> QED BY <3>1, <4>1 DEF MapsTo, NoSnaps
    <3>3. s = NoBattle
      <4>1. sim[m] = NoBattle
        BY <2>1 DEF Inv, Alone
      <4>2. sim[m].snaps = v.snaps
        BY <3>2, <4>1 DEF NoBattle, NewBattle
      <4>3. s = sim[m]
        BY <1>3, <4>2 DEF SimOf
      <4> QED BY <4>1, <4>3
    <3> QED BY <1>6, <1>9, <2>1, <3>3 DEF Alone, Playing, Inv
  <2>2. CASE Playing(m)
    <3> DEFINE clean == ~Forked(m)
               b == sim[m]
               seed == ctl[m].match
               left == ctl[m].leftIdle
               on == ctl[m].allowed
               snaps == v.snaps
    <3>1. clean \in BOOLEAN /\ (clean <=> ~Forked(m)) /\ (clean <=> ~Forked(m)')
      BY <1>6, <1>8, <1>9 DEF Forked
    <3> HIDE DEF clean
    <3>2. InBattle(b, seed, clean, left, on) /\ left \in BOOLEAN /\ on \in BOOLEAN
      BY <2>2, <3>1, <1>3, MachineTypes, BattleOf
    <3>3. snaps \in MapsTo(SnapOf) /\ DOMAIN snaps \subseteq DOMAIN b.snaps
          /\ \A f \in DOMAIN snaps : snaps[f].state = b.snaps[f].state
      BY <1>4 DEF SteppingOf, SomeOf
    <3>4. ctl'[m].match = seed /\ ctl'[m].leftIdle = left /\ ctl'[m].allowed = on
          /\ sim'[m] = [b EXCEPT !.snaps = snaps] /\ Playing(m)'
      BY <1>6, <1>9, <2>2 DEF Playing
    <3> HIDE DEF b, seed, left, on, snaps, s, c, d
    <3>5. InBattle([b EXCEPT !.snaps = snaps], seed, clean, left, on)
      BY <3>1, <3>2, <3>3, FewerSnaps
    <3> QED BY <3>1, <3>4, <3>5, BattleThen
  <2> QED BY <2>1, <2>2
<1>11. inbox' \in [Machines -> Seq(Message)]
  <2>1. v.out \in Seq(Message)
    BY <1>4 DEF SteppingOf
  <2>2. SubSeq(inbox[m], k + 1, Len(inbox[m])) \in Seq(Message)
    <3>1. k + 1 \in 1 .. Len(inbox[m]) + 1
      BY <1>3
    <3> QED BY <1>3, <3>1, SubSeqProperties
  <2>3. inbox[Peer(m)] \o v.out \in Seq(Message)
    BY <1>3, <2>1
  <2>4. \A p \in Machines : p = m \/ p = Peer(m)
    BY DEF Machines, Peer
  <2>5. inbox'[m] \in Seq(Message) /\ inbox'[Peer(m)] \in Seq(Message)
    BY <1>2, <1>3, <2>2, <2>3 DEF StepsTo
  <2>6. inbox' = [p \in Machines |-> inbox'[p]]
    BY <1>2 DEF StepsTo
  <2> QED BY <2>4, <2>5, <2>6
<1>12. pending' \in [Machines -> MapsTo(SnapState)] /\ verdict' \in [Machines -> VerdictOf]
  <2>1. v.pending \in MapsTo(SnapState)
    BY <1>4 DEF SteppingOf
  <2> HIDE DEF d
  <2> QED BY <1>3, <1>7, <1>8, <2>1 DEF Typed
<1>13. /\ faults' \in [forked : SUBSET (Machines \X (0 .. MaxMatches)), quits : Nat, skips : Nat]
       /\ faults'.forked = faults.forked /\ TotalFaults' <= MaxFaults /\ faults.skips <= faults'.skips
  BY <1>3, <1>8, SameFaults
<1>14. c.skip <= faults'.skips
  BY <1>3, <1>6, <1>8
<1> HIDE DEF s, c, d
<1> QED BY <1>5, <1>6, <1>8, <1>10, <1>11, <1>12, <1>13, <1>14, InvFrom

(* Every step keeps the invariant.                                          *)
LEMMA NextKeeps ==
  ASSUME Inv, [Next]_vars
  PROVE  Inv'
<1>1. CASE Next
  <2>1. PICK m \in Machines :
          \/ StartGGPO(m) \/ StartFails(m) \/ Running(m) \/ Disconnected(m)
          \/ OnGgpoAssertFailed(m) \/ TimeSync(m)
          \/ Idle(m) \/ BattleUpdate(m) \/ Fork(m) \/ Step(m)
          \/ CloseBattle(m) \/ Draw(m) \/ Quit(m)
    BY <1>1 DEF Next
  <2> QED BY <2>1, StartGGPOKeeps, StartFailsKeeps, RunningKeeps, DisconnectedKeeps, AssertKeeps,
             TimeSyncKeeps, IdleKeeps, BattleUpdateKeeps, ForkKeeps, StepKeeps, CloseBattleKeeps,
             DrawKeeps, QuitKeeps
<1>2. CASE UNCHANGED vars
  <2>1. Typed'
    BY <1>2 DEF Inv, Typed, TotalFaults, vars
  <2>2. ASSUME NEW m \in Machines PROVE Alone(m)'
    BY <1>2, AloneKept DEF Inv, vars
  <2> QED BY <2>1, <2>2 DEF Inv
<1> QED BY <1>1, <1>2

-----------------------------------------------------------------------------
(* The invariant holds of every run.                                        *)
LEMMA InvHolds == Spec => []Inv
<1>1. Init => Inv
  BY Beginning
<1>2. Inv /\ [Next]_vars => Inv'
  BY NextKeeps
<1> QED BY <1>1, <1>2, PTL DEF Spec

(* The types follow from the invariant.                                     *)
LEMMA TypesFromInv ==
  ASSUME Inv
  PROVE  TypeOK
<1> SUFFICES ASSUME NEW m \in Machines
             PROVE
  /\ sim[m].n \in 0 .. LastFrame /\ sim[m].frame \in 0 .. LastFrame
  /\ sim[m].conf \in 0 .. LastFrame + Delay /\ sim[m].wrong \in {None} \cup 0 .. LastFrame
  /\ sim[m].pool \in [Slots -> [used : BOOLEAN, n : 0 .. LastFrame, bad : {None} \cup 0 .. LastFrame]]
  /\ sim[m].ring \in [Ring -> {NoSlot} \cup Slots]
  /\ \A f \in DOMAIN sim[m].snaps : sim[m].snaps[f] \in
       [state : SnapState, sent : BOOLEAN, confirmed : BOOLEAN]
  /\ ctl[m] \in [at : {"menu", "battle", "closed", "gone"}, match : 0 .. MaxMatches,
                 open : BOOLEAN, allowed : BOOLEAN, leaving : BOOLEAN, leftIdle : BOOLEAN,
                 skip : 0 .. MaxFaults, held : 0 .. HOLD_CAP + 1,
                 lastFlow : {"none", "idle", "fight", "over", "result"}]
  /\ verdict[m] \in [abort : BOOLEAN, reported : BOOLEAN, seen : BOOLEAN,
                     result : {"none", "right", "wrong"}]
  /\ \A f \in DOMAIN pending[m] : pending[m][f] \in SnapState
  BY DEF TypeOK
<1>1. /\ sim[m] \in SimOf /\ ctl[m] \in CtlOf /\ pending[m] \in MapsTo(SnapState)
      /\ verdict[m] \in VerdictOf
  BY MachineTypes DEF Inv
<1>2. /\ sim[m].n \in 0 .. LastFrame /\ sim[m].frame \in 0 .. LastFrame
      /\ sim[m].conf \in 0 .. LastFrame + Delay /\ sim[m].wrong \in {None} \cup 0 .. LastFrame
      /\ sim[m].pool \in [Slots -> [used : BOOLEAN, n : 0 .. LastFrame, bad : {None} \cup 0 .. LastFrame]]
      /\ sim[m].ring \in [Ring -> {NoSlot} \cup Slots]
  BY <1>1 DEF SimOf, Frames, FramesOrNone, SlotOf
<1>3. \A f \in DOMAIN sim[m].snaps : sim[m].snaps[f] \in SnapOf
  <2>1. sim[m].snaps \in MapsTo(SnapOf)
    BY <1>1 DEF SimOf
  <2> QED BY <2>1, MapTypes
<1>4. \A f \in DOMAIN pending[m] : pending[m][f] \in SnapState
  BY <1>1, MapTypes
<1>5. ctl[m].skip \in 0 .. MaxFaults
  <2>1. ctl[m].skip \in Nat /\ ctl[m].skip <= faults.skips
    BY <1>1 DEF CtlOf, Inv, Typed
  <2> QED BY <2>1, FaultTypes, ConstantsTyped DEF Inv
<1>6. ctl[m] \in [at : {"menu", "battle", "closed", "gone"}, match : 0 .. MaxMatches,
                  open : BOOLEAN, allowed : BOOLEAN, leaving : BOOLEAN, leftIdle : BOOLEAN,
                  skip : 0 .. MaxFaults, held : 0 .. HOLD_CAP + 1,
                  lastFlow : {"none", "idle", "fight", "over", "result"}]
  BY <1>1, <1>5 DEF CtlOf
<1>7. verdict[m] \in [abort : BOOLEAN, reported : BOOLEAN, seen : BOOLEAN,
                      result : {"none", "right", "wrong"}]
  BY <1>1 DEF VerdictOf
<1> QED BY <1>2, <1>3, <1>4, <1>6, <1>7 DEF SnapOf

(* Whatever is rolled back, every part of the state keeps its type: no     *)
(* frame is played past the match, no save state has a slot outside the    *)
(* pool, no frame skip is owed that GGPO did not ask for.                  *)
THEOREM TypeCorrect == Spec => []TypeOK
BY InvHolds, TypesFromInv, PTL

(* That every state is kept follows from the invariant.                     *)
LEMMA StatesFromInv ==
  ASSUME Inv
  PROVE  StatesKept
<1> SUFFICES ASSUME NEW m \in Machines
             PROVE
  LET s == sim[m] IN
  /\ ~s.lost
  /\ \A i, j \in Ring : s.ring[i] = s.ring[j] /\ i # j => s.ring[i] = NoSlot
  /\ \A i \in Ring : s.ring[i] # NoSlot => s.pool[s.ring[i]].used
  /\ (s.wrong # None /\ ~Forked(m)) =>
       LET slot == s.ring[s.wrong % (GGPO_MAX_PREDICTION_FRAMES + 2)]
       IN  slot # NoSlot /\ s.pool[slot].bad = None
  BY DEF StatesKept
<1> DEFINE s == sim[m]
           slot == s.ring[s.wrong % (GGPO_MAX_PREDICTION_FRAMES + 2)]
<1> SUFFICES /\ ~s.lost
             /\ \A i, j \in Ring : s.ring[i] = s.ring[j] /\ i # j => s.ring[i] = NoSlot
             /\ \A i \in Ring : s.ring[i] # NoSlot => s.pool[s.ring[i]].used
             /\ (s.wrong # None /\ ~Forked(m)) => slot # NoSlot /\ s.pool[slot].bad = None
  OBVIOUS
<1>1. CASE ~Playing(m)
  <2>1. s = NoBattle
    BY <1>1 DEF Inv, Alone
  <2> HIDE DEF s
  <2>2. /\ ~s.lost /\ s.wrong = None /\ \A i \in Ring : s.ring[i] = NoSlot
    BY <2>1 DEF NoBattle, NewBattle
  <2> QED BY <2>2
<1>2. CASE Playing(m)
  <2>1. InBattle(s, ctl[m].match, ~Forked(m), ctl[m].leftIdle, ctl[m].allowed)
    BY <1>2 DEF Inv, Alone, Battling
  <2>2. ctl[m].leftIdle \in BOOLEAN /\ ctl[m].allowed \in BOOLEAN /\ (~Forked(m)) \in BOOLEAN
    BY MachineTypes DEF Inv
  <2> HIDE DEF s
  <2>3. /\ Rings(s) /\ Guessing(s) /\ s.n \in Nat /\ s.frame \in Nat /\ s.conf \in Nat
        /\ s.wrong \in FramesOrNone /\ s.n - s.frame \in Nat
    BY <2>1, <2>2, InBattleTypes
  <2>4. ASSUME s.wrong # None, ~Forked(m) PROVE slot # NoSlot /\ s.pool[slot].bad = None
    <3>1. s.wrong \in Nat /\ s.conf <= s.wrong /\ s.wrong < s.frame /\ s.frame < s.conf + GGPO_MAX_PREDICTION_FRAMES
      BY <2>3, <2>4, ConstantsTyped DEF FramesOrNone, Frames, Guessing
    <3>2. s.frame # 0 /\ s.wrong \in 0 .. s.frame /\ s.frame < s.wrong + NUM_SAVE_STATES
      BY <2>3, <3>1, ConstantsTyped
    <3>3. Kept(s, s.n - s.frame, s.frame, ~Forked(m)) /\ WrongFrom(s)
      BY <2>1, <2>4, <3>2 DEF InBattle
    <3>4. /\ s.ring[s.wrong % NUM_SAVE_STATES] # NoSlot
          /\ SavedAt(s, s.wrong).bad = BadBefore(s, s.wrong + (s.n - s.frame))
      BY <2>4, <3>2, <3>3 DEF Kept, StatesSaved
    <3>5. s.bad = s.wrong + (s.n - s.frame)
      BY <2>4, <3>3 DEF WrongFrom
    <3>6. BadBefore(s, s.wrong + (s.n - s.frame)) = None
      BY <2>3, <3>1, <3>5 DEF BadBefore
    <3>7. slot = s.ring[s.wrong % NUM_SAVE_STATES]
      BY DEF NUM_SAVE_STATES
    <3> QED BY <3>4, <3>6, <3>7 DEF SavedAt
  <2> QED BY <2>3, <2>4 DEF Rings
<1> QED BY <1>1, <1>2

(* For any prediction limit, length of a match and sequence of rollbacks:  *)
(* the pool of save states never runs out, GGPO's ring never holds a slot  *)
(* twice, and the state it would go back to is there, from before the      *)
(* first wrong guess.                                                      *)
THEOREM StatesCorrect == Spec => []StatesKept
BY InvHolds, StatesFromInv, PTL

-----------------------------------------------------------------------------
(* The two machines, step by step.                                         *)
Moves(m) ==
  \/ StartGGPO(m) \/ StartFails(m) \/ Running(m) \/ Disconnected(m)
  \/ OnGgpoAssertFailed(m) \/ TimeSync(m)
  \/ Idle(m) \/ BattleUpdate(m) \/ Fork(m) \/ Step(m)
  \/ CloseBattle(m) \/ Draw(m) \/ Quit(m)

(* What a machine does is its own, but for the messages it sends.          *)
LEMMA OthersStay ==
  ASSUME NEW m \in Machines, Inv, Moves(m), NEW p \in Machines, p # m
  PROVE  /\ sim'[p] = sim[p] /\ ctl'[p] = ctl[p] /\ verdict'[p] = verdict[p]
         /\ pending'[p] = pending[p]
<1>1. /\ sim \in [Machines -> SimOf] /\ ctl \in [Machines -> CtlOf]
      /\ verdict \in [Machines -> VerdictOf] /\ pending \in [Machines -> MapsTo(SnapState)]
  BY DEF Inv, Typed
<1>2. CASE Step(m)
  <2>1. PICK k \in 0 .. Len(inbox[m]) : \E v : StepsTo(m, k, v)
    BY <1>2, StepTaken
  <2>2. PICK v : StepsTo(m, k, v)
    BY <2>1
  <2> QED BY <1>1, <2>2 DEF StepsTo
<1>3. CASE StartGGPO(m) \/ StartFails(m)
  BY <1>1, <1>3 DEF StartGGPO, StartFails, ClearPending
<1>4. CASE Running(m) \/ Disconnected(m) \/ OnGgpoAssertFailed(m) \/ TimeSync(m)
  BY <1>1, <1>4 DEF Running, Disconnected, OnGgpoAssertFailed, TimeSync
<1>5. CASE Idle(m) \/ Fork(m)
  BY <1>1, <1>5 DEF Idle, Fork
<1>6. CASE BattleUpdate(m)
  <2>1. pending' = pending /\ \E s : Updates(m, s)
    BY <1>6, UpdateTaken
  <2>2. PICK s : Updates(m, s)
    BY <2>1
  <2>3. CASE UNCHANGED verdict
    BY <1>1, <2>1, <2>2, <2>3 DEF Updates, FramePlayed
  <2>4. CASE \E t : FramePlayed(m, s, t)
    BY <1>1, <2>1, <2>4 DEF FramePlayed
  <2> QED BY <2>2, <2>3, <2>4 DEF Updates
<1>7. CASE CloseBattle(m) \/ Draw(m) \/ Quit(m)
  BY <1>1, <1>7 DEF CloseBattle, Draw, Quit
<1> QED BY <1>2, <1>3, <1>4, <1>5, <1>6, <1>7 DEF Moves

(* Forks are not undone.                                                   *)
LEMMA ForksStay ==
  ASSUME NEW m \in Machines, Inv, Moves(m)
  PROVE  /\ faults.forked \subseteq faults'.forked
         /\ ~Fork(m) => faults'.forked = faults.forked
<1>1. faults \in [forked : SUBSET (Machines \X (0 .. MaxMatches)), quits : Nat, skips : Nat]
  BY DEF Inv, Typed
<1>2. CASE Fork(m)
  BY <1>1, <1>2 DEF Fork
<1>3. CASE Step(m)
  BY <1>3 DEF Step
<1>4. CASE StartFails(m) \/ OnGgpoAssertFailed(m) \/ TimeSync(m) \/ Quit(m)
  BY <1>1, <1>4 DEF StartFails, OnGgpoAssertFailed, TimeSync, Quit
<1>5. CASE StartGGPO(m) \/ Running(m) \/ Disconnected(m) \/ Idle(m) \/ BattleUpdate(m)
           \/ CloseBattle(m) \/ Draw(m)
  BY <1>5 DEF StartGGPO, Running, Disconnected, Idle, BattleUpdate, CloseBattle, Draw
<1> QED BY <1>2, <1>3, <1>4, <1>5 DEF Moves

(* What does not play a frame leaves the battle where it is, or out of it. *)
LEMMA SamePlace ==
  ASSUME NEW m \in Machines, Inv, Moves(m), ~BattleUpdate(m), ~StartGGPO(m), Playing(m)'
  PROVE  /\ Playing(m) /\ ctl'[m].match = ctl[m].match /\ ctl'[m].lastFlow = ctl[m].lastFlow
         /\ sim'[m].n = sim[m].n /\ sim'[m].frame = sim[m].frame
         /\ verdict'[m].result = verdict[m].result
         /\ ctl[m].allowed => ctl'[m].allowed
<1>1. /\ sim \in [Machines -> SimOf] /\ ctl \in [Machines -> CtlOf]
      /\ verdict \in [Machines -> VerdictOf] /\ pending \in [Machines -> MapsTo(SnapState)]
      /\ ctl[m] \in CtlOf /\ sim[m] \in SimOf /\ verdict[m] \in VerdictOf
  BY DEF Inv, Typed
<1>2. CASE Step(m)
  <2>1. PICK k \in 0 .. Len(inbox[m]) : \E v : StepsTo(m, k, v)
    BY <1>2, StepTaken
  <2>2. PICK v : StepsTo(m, k, v)
    BY <2>1
  <2>3. /\ sim'[m] = [sim[m] EXCEPT !.snaps = v.snaps]
        /\ ctl'[m] = [ctl[m] EXCEPT !.leaving = v.leaving]
        /\ verdict'[m] = [verdict[m] EXCEPT !.abort = v.abort, !.reported = v.reported, !.seen = v.seen]
    BY <1>1, <2>2 DEF StepsTo
  <2>4. sim'[m].n = sim[m].n /\ sim'[m].frame = sim[m].frame
    BY <1>1, <2>3 DEF SimOf
  <2>5. /\ ctl'[m].match = ctl[m].match /\ ctl'[m].lastFlow = ctl[m].lastFlow /\ ctl'[m].at = ctl[m].at
        /\ ctl'[m].open = ctl[m].open /\ ctl'[m].allowed = ctl[m].allowed
    BY <1>1, <2>3 DEF CtlOf
  <2>6. verdict'[m].result = verdict[m].result
    BY <1>1, <2>3 DEF VerdictOf
  <2> QED BY <2>4, <2>5, <2>6 DEF Playing
<1>3. CASE Running(m) \/ Disconnected(m) \/ OnGgpoAssertFailed(m) \/ TimeSync(m)
  <2>1. sim' = sim /\ verdict' = verdict /\ Playing(m)
    BY <1>3 DEF Running, Disconnected, OnGgpoAssertFailed, TimeSync
  <2>2. \/ ctl' = [ctl EXCEPT ![m].allowed = TRUE] \/ ctl' = [ctl EXCEPT ![m].leaving = TRUE]
        \/ ctl' = [ctl EXCEPT ![m].skip = @ + 1]
    BY <1>3 DEF Running, Disconnected, OnGgpoAssertFailed, TimeSync
  <2>3. /\ ctl'[m].match = ctl[m].match /\ ctl'[m].lastFlow = ctl[m].lastFlow
        /\ ctl[m].allowed => ctl'[m].allowed
    BY <1>1, <2>2 DEF CtlOf
  <2> QED BY <2>1, <2>3
<1>4. CASE Fork(m)
  BY <1>4 DEF Fork
<1>5. CASE Idle(m)
  <2>1. PICK c \in Arrivals(m) : \E w \in Guesses(m, c) :
          sim' = [sim EXCEPT ![m] = Poll(sim[m], c, w, Forked(m))]
    BY <1>5 DEF Idle
  <2>2. PICK w \in Guesses(m, c) : sim' = [sim EXCEPT ![m] = Poll(sim[m], c, w, Forked(m))]
    BY <2>1
  <2>3. Playing(m) /\ UNCHANGED <<ctl, verdict>>
    BY <1>5 DEF Idle
  <2> DEFINE clean == ~Forked(m)
             s == Poll(sim[m], c, w, Forked(m))
  <2>4. clean \in BOOLEAN /\ (clean <=> ~Forked(m)) /\ (c \in Arrivals(m) \/ c = sim[m].conf)
    OBVIOUS
  <2> HIDE DEF clean
  <2>5. s.frame = sim[m].frame
    BY <2>3, <2>4, Polled
  <2>6. s.n = sim[m].n
    BY <2>3, <2>4, Polled
  <2>7. sim'[m] = s
    BY <1>1, <2>2
  <2> QED BY <2>3, <2>5, <2>6, <2>7
<1>6. ~(StartFails(m) \/ CloseBattle(m) \/ Draw(m) \/ Quit(m))
  <2>1. CASE StartFails(m) \/ CloseBattle(m) \/ Quit(m)
    <3>1. CASE StartFails(m)
      <4>1. ctl'[m] = [InMenu EXCEPT !.at = "battle", !.match = ctl[m].match + 1, !.leaving = TRUE]
        BY <1>1, <3>1 DEF StartFails
      <4> QED BY <4>1 DEF InMenu, Playing
    <3>2. CASE CloseBattle(m)
      <4>1. ctl'[m] = [InMenu EXCEPT !.at = "closed", !.match = ctl[m].match]
        BY <1>1, <3>2 DEF CloseBattle
      <4> QED BY <4>1 DEF InMenu, Playing
    <3>3. CASE Quit(m)
      <4>1. ctl'[m] = [InMenu EXCEPT !.at = "gone"]
        BY <1>1, <3>3 DEF Quit
      <4> QED BY <4>1 DEF InMenu, Playing
    <3> QED BY <2>1, <3>1, <3>2, <3>3
  <2>2. CASE Draw(m)
    <3>1. ctl'[m].at = "menu"
      BY <1>1, <2>2 DEF Draw, CtlOf
    <3> QED BY <3>1 DEF Playing
  <2> QED BY <2>1, <2>2
<1> QED BY <1>2, <1>3, <1>4, <1>5, <1>6 DEF Moves

(* A session starts from the menu, with nothing taken in or simulated.     *)
LEMMA Started ==
  ASSUME NEW m \in Machines, Inv, StartGGPO(m)
  PROVE  /\ sim'[m] = NewBattle(ctl[m].match + 1, m \in Drifting)
         /\ ctl'[m] = [InMenu EXCEPT !.at = "battle", !.match = ctl[m].match + 1, !.open = TRUE]
         /\ sim'[m].n = 0 /\ sim'[m].frame = 0 /\ sim'[m].conf = Delay
         /\ ctl'[m].lastFlow = "none" /\ ctl'[m].match = ctl[m].match + 1 /\ ~ctl'[m].allowed
         /\ ctl'[m].at = "battle" /\ Called(m) /\ pending'[m] = NoSnaps
         /\ inbox' = inbox /\ verdict' = verdict
<1>1. m \in DOMAIN sim /\ m \in DOMAIN ctl /\ m \in DOMAIN pending
  BY DEF Inv, Typed
<1>2. /\ sim'[m] = NewBattle(ctl[m].match + 1, m \in Drifting)
      /\ ctl'[m] = [InMenu EXCEPT !.at = "battle", !.match = ctl[m].match + 1, !.open = TRUE]
      /\ Called(m) /\ pending'[m] = NoSnaps /\ inbox' = inbox /\ verdict' = verdict
  BY <1>1 DEF StartGGPO, ClearPending
<1>3. sim'[m].n = 0 /\ sim'[m].frame = 0 /\ sim'[m].conf = Delay
  BY <1>2 DEF NewBattle
<1>4. /\ ctl'[m].lastFlow = "none" /\ ctl'[m].match = ctl[m].match + 1 /\ ~ctl'[m].allowed
      /\ ctl'[m].at = "battle"
  BY <1>2 DEF InMenu
<1> QED BY <1>2, <1>3, <1>4

(* A frame of the battle, played or not, and what it leaves.               *)
LEMMA Updated ==
  ASSUME NEW m \in Machines, Inv, BattleUpdate(m), NEW clean \in BOOLEAN, clean <=> ~Forked(m)
  PROVE  /\ Playing(m) /\ ctl[m].allowed /\ UNCHANGED <<inbox, pending, faults>>
         /\ ctl'[m].match = ctl[m].match /\ ctl'[m].at = ctl[m].at /\ ctl'[m].open = ctl[m].open
         /\ ctl'[m].allowed = ctl[m].allowed
         /\ verdict'[m].seen = verdict[m].seen
         /\ InBattle(sim'[m], ctl[m].match, clean, ctl'[m].leftIdle, TRUE)
         /\ sim[m].conf <= sim'[m].conf /\ sim'[m].conf \in Nat
         /\ sim'[m].conf = sim[m].conf \/ (Together(m) /\ sim'[m].conf <= sim[Peer(m)].frame + Delay)
         /\ sim[m].frame <= sim'[m].frame
         /\ \/ /\ sim'[m].n = sim[m].n /\ ctl'[m].lastFlow = ctl[m].lastFlow
               /\ verdict'[m].result = verdict[m].result
            \/ /\ sim'[m].n = sim[m].n + 1 \/ (sim'[m].n = sim[m].n /\ sim[m].n >= 1)
               /\ ctl'[m].lastFlow = Flow(sim'[m].n)
               /\ verdict'[m].result = OnMatchResult(m, sim'[m])
<1>1. /\ sim \in [Machines -> SimOf] /\ ctl \in [Machines -> CtlOf]
      /\ verdict \in [Machines -> VerdictOf] /\ ctl[m] \in CtlOf /\ verdict[m] \in VerdictOf
      /\ ctl[m].allowed \in BOOLEAN
  BY MachineTypes DEF Inv, Typed
<1>2. PICK c \in (IF Together(m) THEN Arrivals(m) ELSE {sim[m].conf}) : \E w \in Guesses(m, c) :
        Updates(m, Poll(sim[m], c, w, Forked(m)))
  BY UpdateTaken
<1>3. PICK w \in Guesses(m, c) : Updates(m, Poll(sim[m], c, w, Forked(m)))
  BY <1>2
<1>4. Playing(m) /\ ctl[m].allowed /\ sim[m].n < LastFrame /\ UNCHANGED <<inbox, pending, faults>>
  BY UpdateTaken
<1> DEFINE s == Poll(sim[m], c, w, Forked(m))
<1>5. (c \in Arrivals(m) \/ c = sim[m].conf) /\ w \in Guesses(m, c)
  OBVIOUS
<1>6. InBattle(s, ctl[m].match, clean, ctl[m].leftIdle, ctl[m].allowed)
  BY <1>4, <1>5, Polled
<1>7. s.n = sim[m].n /\ s.frame = sim[m].frame
  BY <1>4, <1>5, Polled
<1>8. s.conf = c /\ c \in Nat /\ sim[m].conf <= c
  BY <1>4, <1>5, Polled
<1>9. c = sim[m].conf \/ c <= sim[Peer(m)].frame + Delay
  BY <1>4, <1>5, Polled
<1>10. c = sim[m].conf \/ (Together(m) /\ c <= sim[Peer(m)].frame + Delay)
  BY <1>9
<1>11. Updates(m, s)
  BY <1>3
<1> HIDE DEF s
<1> DEFINE seed == ctl[m].match
           Goes == \/ /\ sim'[m].n = sim[m].n /\ ctl'[m].lastFlow = ctl[m].lastFlow
                      /\ verdict'[m].result = verdict[m].result
                   \/ /\ sim'[m].n = sim[m].n + 1 \/ (sim'[m].n = sim[m].n /\ sim[m].n >= 1)
                      /\ ctl'[m].lastFlow = Flow(sim'[m].n)
                      /\ verdict'[m].result = OnMatchResult(m, sim'[m])
           Same == /\ ctl'[m].match = ctl[m].match /\ ctl'[m].at = ctl[m].at /\ ctl'[m].open = ctl[m].open
                   /\ ctl'[m].allowed = ctl[m].allowed /\ verdict'[m].seen = verdict[m].seen
           Further == /\ InBattle(sim'[m], seed, clean, ctl'[m].leftIdle, TRUE)
                      /\ sim'[m].conf = c /\ sim[m].frame <= sim'[m].frame
<1>12. InBattle(s, seed, clean, ctl[m].leftIdle, TRUE)
  <2>1. ctl[m].allowed = TRUE
    BY <1>1, <1>4
  <2> QED BY <1>6, <2>1
<1>13. ctl[m].leftIdle \in BOOLEAN /\ sim[m].frame \in Nat /\ s.frame \in Nat
  <2>1. sim[m] \in SimOf
    BY <1>1
  <2> QED BY <1>1, <1>7, <2>1, MachineTypes, ConstantsTyped DEF SimOf, Frames, Inv
<1>14. CASE /\ sim' = [sim EXCEPT ![m] = s] /\ UNCHANGED verdict
            /\ \/ ctl' = [ctl EXCEPT ![m].held = @ + 1]
               \/ ctl' = [ctl EXCEPT ![m].held = HeldAfter(m, s), ![m].skip = @ - 1]
  <2>1. sim'[m] = s /\ verdict' = verdict
    BY <1>1, <1>14
  <2>2. /\ ctl'[m].match = ctl[m].match /\ ctl'[m].at = ctl[m].at /\ ctl'[m].open = ctl[m].open
        /\ ctl'[m].allowed = ctl[m].allowed /\ ctl'[m].lastFlow = ctl[m].lastFlow
        /\ ctl'[m].leftIdle = ctl[m].leftIdle
    BY <1>1, <1>14 DEF CtlOf
  <2>3. Further
    <3> DEFINE left == ctl[m].leftIdle
    <3>1. InBattle(s, seed, clean, left, TRUE) /\ ctl'[m].leftIdle = left
      BY <1>12, <2>2
    <3> HIDE DEF left, seed
    <3>2. InBattle(sim'[m], seed, clean, ctl'[m].leftIdle, TRUE)
      BY <2>1, <3>1
    <3>3. sim'[m].conf = c /\ sim[m].frame <= sim'[m].frame
      BY <1>7, <1>8, <1>13, <2>1
    <3> QED BY <3>2, <3>3
  <2>4. Goes /\ Same
    BY <1>7, <2>1, <2>2
  <2>5. sim'[m].conf = c /\ sim[m].frame <= sim'[m].frame
    BY <2>3
  <2>6. InBattle(sim'[m], ctl[m].match, clean, ctl'[m].leftIdle, TRUE)
    BY <2>3 DEF seed
  <2> QED BY <1>4, <1>8, <1>10, <2>4, <2>5, <2>6
<1>15. CASE \E guessed \in (IF s.frame >= s.conf THEN BOOLEAN ELSE {FALSE}) :
              FramePlayed(m, s, Frame(m, s, guessed))
  <2>1. PICK guessed \in (IF s.frame >= s.conf THEN BOOLEAN ELSE {FALSE}) :
               FramePlayed(m, s, Frame(m, s, guessed))
    BY <1>15
  <2> DEFINE t == Frame(m, s, guessed)
             lead == s.n - s.frame
  <2>2. s.n < LastFrame /\ guessed \in BOOLEAN /\ (guessed => s.frame >= s.conf) /\ lead = s.n - s.frame
    BY <1>4, <1>7
  <2> HIDE DEF seed, lead
  <2>3. /\ InBattle(t, seed, clean, LeftIdle(m, s), TRUE)
        /\ t.conf = s.conf /\ s.frame <= t.frame
        /\ t.n = s.n + 1 \/ (t = s /\ s.n >= 1)
    <3>1. InBattle(t, seed, clean, LeftIdle(m, s), TRUE) /\ FrameOn(s, t)
      BY <1>12, <1>13, <2>2, FrameKeeps
    <3> QED BY <3>1 DEF FrameOn
  <2>4. FramePlayed(m, s, t)
    BY <2>1
  <2> HIDE DEF t
  <2>5. sim'[m] = t
    BY <1>1, <2>4 DEF FramePlayed
  <2>6. /\ ctl'[m].match = ctl[m].match /\ ctl'[m].at = ctl[m].at /\ ctl'[m].open = ctl[m].open
        /\ ctl'[m].allowed = ctl[m].allowed /\ ctl'[m].lastFlow = Flow(t.n)
        /\ ctl'[m].leftIdle = LeftIdle(m, s)
    BY <1>1, <2>4 DEF FramePlayed, CtlOf
  <2>7. verdict'[m].seen = verdict[m].seen /\ verdict'[m].result = OnMatchResult(m, t)
    BY <1>1, <2>4 DEF FramePlayed, VerdictOf
  <2>8. Goes
    BY <1>7, <2>3, <2>5, <2>6, <2>7
  <2>9. Further
    <3> DEFINE left == LeftIdle(m, s)
    <3>1. InBattle(t, seed, clean, left, TRUE) /\ ctl'[m].leftIdle = left
      BY <2>3, <2>6
    <3> HIDE DEF left
    <3> QED BY <1>7, <1>8, <2>3, <2>5, <3>1
  <2>10. Same
    BY <2>6, <2>7
  <2> HIDE DEF Goes
  <2>11. sim'[m].conf = c /\ sim[m].frame <= sim'[m].frame
    BY <2>9
  <2>12. InBattle(sim'[m], ctl[m].match, clean, ctl'[m].leftIdle, TRUE)
    BY <2>9 DEF seed
  <2> QED BY <1>4, <1>8, <1>10, <2>8, <2>10, <2>11, <2>12 DEF Goes
<1> QED BY <1>11, <1>14, <1>15 DEF Updates

-----------------------------------------------------------------------------
(* The result.                                                             *)
LongEnough ==
  /\ ResultAt >= OverAt + (GGPO_MAX_PREDICTION_FRAMES - 1)
  /\ \A k \in IdleFrames : k < ResultAt

(* The battle shows its result from one frame on, and at no other.          *)
LEMMA FlowsOfResult ==
  ASSUME LongEnough, NEW n \in Nat
  PROVE  Flow(n) = "result" <=> n >= ResultAt
<1>1. n \in IdleFrames => n < ResultAt
  BY DEF LongEnough
<1> QED BY <1>1, ConstantsTyped DEF Flow

(* When MATCH_RESULT is entered, the frames before MATCH_OVER are played   *)
(* on inputs that have come.                                               *)
LEMMA NothingWrongBeforeOver ==
  ASSUME LongEnough, NEW s, NEW seed, NEW left \in BOOLEAN, InBattle(s, seed, TRUE, left, TRUE),
         s.n >= ResultAt
  PROVE  ~(s.bad # None /\ s.bad < OverAt)
<1>1. TRUE \in BOOLEAN
  OBVIOUS
<1>2. /\ Guessing(s) /\ s.n \in Nat /\ s.frame \in Nat /\ s.conf \in Nat
      /\ s.wrong \in FramesOrNone /\ s.n - s.frame \in Nat
  BY <1>1, InBattleTypes
<1>3. WrongFrom(s)
  BY DEF InBattle
<1>4. SUFFICES ASSUME s.bad # None PROVE ~(s.bad < OverAt)
  OBVIOUS
<1>5. s.wrong # None /\ s.bad = s.wrong + (s.n - s.frame)
  BY <1>3, <1>4 DEF WrongFrom
<1>6. s.wrong \in Nat /\ s.conf <= s.wrong /\ s.frame < s.conf + GGPO_MAX_PREDICTION_FRAMES
  BY <1>2, <1>5, ConstantsTyped DEF Guessing, FramesOrNone, Frames
<1>7. s.wrong + GGPO_MAX_PREDICTION_FRAMES >= s.frame + 1
  BY <1>2, <1>6, ConstantsTyped
<1>8. s.bad + (GGPO_MAX_PREDICTION_FRAMES - 1) >= s.n
  BY <1>2, <1>5, <1>6, <1>7, ConstantsTyped
<1>9. ResultAt >= OverAt + (GGPO_MAX_PREDICTION_FRAMES - 1)
  BY DEF LongEnough
<1> QED BY <1>2, <1>5, <1>6, <1>8, <1>9, ConstantsTyped

(* Every step keeps that the result is due.                                 *)
LEMMA ResultDueKept ==
  ASSUME LongEnough, NEW m \in Machines, Inv, Moves(m), NEW p \in Machines, ResultDue(p)
  PROVE  ResultDue(p)'
<1>1. SUFFICES ASSUME Playing(p)'
               PROVE  /\ ctl'[p].lastFlow \in
                           (IF sim'[p].n = 0 THEN {"none", Flow(0)} ELSE {Flow(sim'[p].n)})
                      /\ sim'[p].n >= ResultAt /\ ~Forked(p)' => verdict'[p].result # "wrong"
  BY DEF ResultDue
<1>2. CASE p # m \/ (~BattleUpdate(m) /\ ~StartGGPO(m))
  <2>1. /\ sim'[p].n = sim[p].n /\ ctl'[p].lastFlow = ctl[p].lastFlow /\ ctl'[p].match = ctl[p].match
        /\ verdict'[p].result = verdict[p].result /\ Playing(p)
    <3>1. CASE p # m
      <4>1. sim'[p] = sim[p] /\ ctl'[p] = ctl[p] /\ verdict'[p] = verdict[p]
        BY <3>1, OthersStay
      <4> QED BY <1>1, <4>1 DEF Playing
    <3>2. CASE p = m
      BY <1>1, <1>2, <3>2, SamePlace
    <3> QED BY <3>1, <3>2
  <2>2. ~Forked(p)' => ~Forked(p)
    BY <2>1, ForksStay DEF Forked
  <2> QED BY <2>1, <2>2 DEF ResultDue
<1>3. CASE p = m /\ StartGGPO(m)
  <2>1. sim'[p].n = 0 /\ ctl'[p].lastFlow = "none"
    BY <1>3, Started
  <2>2. ~(sim'[p].n >= ResultAt)
    BY <2>1, ConstantsTyped
  <2> QED BY <2>1, <2>2
<1>4. CASE p = m /\ BattleUpdate(m)
  <2> DEFINE clean == ~Forked(m)
             n == sim[m].n
             k == sim'[m].n
             left == ctl'[m].leftIdle
  <2>1. clean \in BOOLEAN /\ (clean <=> ~Forked(m))
    OBVIOUS
  <2> HIDE DEF clean
  <2>2. /\ Playing(m) /\ ctl'[m].match = ctl[m].match /\ UNCHANGED faults
        /\ InBattle(sim'[m], ctl[m].match, clean, left, TRUE)
        /\ \/ /\ k = n /\ ctl'[m].lastFlow = ctl[m].lastFlow /\ verdict'[m].result = verdict[m].result
           \/ /\ k = n + 1 \/ (k = n /\ n >= 1)
              /\ ctl'[m].lastFlow = Flow(k) /\ verdict'[m].result = OnMatchResult(m, sim'[m])
    BY <1>4, <2>1, Updated
  <2>3. left \in BOOLEAN /\ n \in Nat /\ k \in Nat
    <3>1. ctl'[m] \in CtlOf
      <4>1. Inv'
        BY <1>4, BattleUpdateKeeps
      <4> QED BY <4>1 DEF Inv, Typed
    <3>2. sim[m] \in SimOf
      BY MachineTypes DEF Inv
    <3>3. sim'[m] \in SimOf
      BY <2>2 DEF InBattle
    <3> QED BY <3>1, <3>2, <3>3, ConstantsTyped DEF CtlOf, SimOf, Frames
  <2>4. ~Forked(p)' => ~Forked(m)
    BY <1>4, <2>2 DEF Forked
  <2>5. /\ ctl[m].lastFlow \in (IF n = 0 THEN {"none", Flow(0)} ELSE {Flow(n)})
        /\ n >= ResultAt /\ ~Forked(m) => verdict[m].result # "wrong"
    BY <1>4, <2>2 DEF ResultDue
  <2>6. CASE /\ k = n /\ ctl'[m].lastFlow = ctl[m].lastFlow /\ verdict'[m].result = verdict[m].result
    BY <1>4, <2>4, <2>5, <2>6
  <2>7. CASE /\ k = n + 1 \/ (k = n /\ n >= 1)
             /\ ctl'[m].lastFlow = Flow(k) /\ verdict'[m].result = OnMatchResult(m, sim'[m])
    <3>1. k # 0
      BY <2>3, <2>7
    <3>2. ASSUME k >= ResultAt, ~Forked(m) PROVE verdict'[m].result # "wrong"
      <4>1. Flow(k) = "result" /\ (Flow(n) = "result" <=> n >= ResultAt)
                               /\ (Flow(0) = "result" <=> 0 >= ResultAt)
        BY <2>3, <3>2, FlowsOfResult
      <4> DEFINE flow == Flow(k)
      <4>2. CASE flow # ctl[m].lastFlow
        <5>1. InBattle(sim'[m], ctl[m].match, TRUE, left, TRUE)
          <6>1. clean = TRUE
            BY <2>1, <3>2
          <6> QED BY <2>2, <6>1
        <5>2. ~(sim'[m].bad # None /\ sim'[m].bad < OverAt)
          BY <2>3, <3>2, <5>1, NothingWrongBeforeOver
        <5>3. OnMatchResult(m, sim'[m]) = "right"
          BY <4>1, <4>2, <5>2 DEF OnMatchResult
        <5> QED BY <2>7, <5>3
      <4>3. CASE flow = ctl[m].lastFlow
        <5>1. OnMatchResult(m, sim'[m]) = verdict[m].result
          BY <4>3 DEF OnMatchResult
        <5>2. n >= ResultAt
          BY <2>3, <2>5, <4>1, <4>3, ConstantsTyped
        <5> QED BY <2>5, <2>7, <3>2, <5>1, <5>2
      <4> QED BY <4>2, <4>3
    <3> QED BY <1>4, <2>4, <2>7, <3>1, <3>2
  <2> QED BY <2>2, <2>6, <2>7
<1> QED BY <1>2, <1>3, <1>4

(* The result that a match which was played to its end is left with is     *)
(* right, when MATCH_OVER takes no fewer frames than can be guessed and    *)
(* the battle is not idle again at its end: OnMatchResult, called once     *)
(* more on the way into MATCH_RESULT, decides it from inputs that have     *)
(* come.                                                                   *)
THEOREM ResultCorrect ==
  ASSUME LongEnough
  PROVE  Spec => []ResultStands
<1> DEFINE RInv == Inv /\ \A p \in Machines : ResultDue(p)
<1>1. Init => RInv
  <2> SUFFICES ASSUME Init PROVE RInv
    OBVIOUS
  <2>1. \A p \in Machines : ~Playing(p)
    BY DEF Init, Playing, InMenu
  <2> QED BY <2>1, Beginning DEF ResultDue
<1>2. RInv /\ [Next]_vars => RInv'
  <2> SUFFICES ASSUME RInv, [Next]_vars PROVE RInv'
    OBVIOUS
  <2>1. Inv'
    BY NextKeeps
  <2>2. CASE Next
    <3>1. PICK m \in Machines : Moves(m)
      BY <2>2 DEF Next, Moves
    <3> QED BY <2>1, <3>1, ResultDueKept
  <2>3. CASE UNCHANGED vars
    <3>1. ASSUME NEW p \in Machines PROVE ResultDue(p)'
      <4>1. ResultDue(p)
        OBVIOUS
      <4> QED BY <2>3, <4>1 DEF ResultDue, Playing, Forked, vars
    <3> QED BY <2>1, <3>1
  <2> QED BY <2>2, <2>3
<1>3. RInv => ResultStands
  <2> SUFFICES ASSUME RInv, NEW m \in Machines, ctl[m].at = "battle", sim[m].n = LastFrame, ~Forked(m)
               PROVE  verdict[m].result # "wrong"
    BY DEF ResultStands
  <2>1. CASE Playing(m)
    BY <2>1, ConstantsTyped DEF ResultDue
  <2>2. CASE ~Playing(m)
    <3>1. sim[m].n = 0
      BY <2>2 DEF Inv, Alone, NoBattle, NewBattle
    <3> QED BY <3>1, ConstantsTyped
  <2> QED BY <2>1, <2>2
<1> HIDE DEF RInv
<1> QED BY <1>1, <1>2, <1>3, PTL DEF Spec

-----------------------------------------------------------------------------
(* No desync where none is.                                                *)
SettledEnough == SETTLED >= 2 * GGPO_MAX_PREDICTION_FRAMES + Delay - 2

(* What touches neither the place of a machine nor its battle.             *)
LEMMA Quiet ==
  ASSUME NEW m \in Machines, Inv,
         Disconnected(m) \/ OnGgpoAssertFailed(m) \/ TimeSync(m) \/ Fork(m) \/ Step(m)
  PROVE  /\ ctl'[m].at = ctl[m].at /\ ctl'[m].open = ctl[m].open /\ ctl'[m].match = ctl[m].match
         /\ ctl'[m].allowed = ctl[m].allowed
         /\ sim'[m].conf = sim[m].conf /\ sim'[m].frame = sim[m].frame
         /\ ~Step(m) => UNCHANGED <<sim, inbox, pending, verdict>>
<1>1. /\ sim \in [Machines -> SimOf] /\ ctl \in [Machines -> CtlOf]
      /\ ctl[m] \in CtlOf /\ sim[m] \in SimOf
  BY DEF Inv, Typed
<1>2. CASE Step(m)
  <2>1. PICK k \in 0 .. Len(inbox[m]) : \E v : StepsTo(m, k, v)
    BY <1>2, StepTaken
  <2>2. PICK v : StepsTo(m, k, v)
    BY <2>1
  <2>3. /\ sim'[m] = [sim[m] EXCEPT !.snaps = v.snaps]
        /\ ctl'[m] = [ctl[m] EXCEPT !.leaving = v.leaving]
    BY <1>1, <2>2 DEF StepsTo
  <2>4. sim'[m].conf = sim[m].conf /\ sim'[m].frame = sim[m].frame
    BY <1>1, <2>3 DEF SimOf
  <2>5. /\ ctl'[m].match = ctl[m].match /\ ctl'[m].at = ctl[m].at
        /\ ctl'[m].open = ctl[m].open /\ ctl'[m].allowed = ctl[m].allowed
    BY <1>1, <2>3 DEF CtlOf
  <2> QED BY <1>2, <2>4, <2>5
<1>3. CASE Disconnected(m) \/ OnGgpoAssertFailed(m) \/ TimeSync(m)
  <2>1. UNCHANGED <<sim, inbox, pending, verdict>>
    BY <1>3 DEF Disconnected, OnGgpoAssertFailed, TimeSync
  <2>2. ctl' = [ctl EXCEPT ![m].leaving = TRUE] \/ ctl' = [ctl EXCEPT ![m].skip = @ + 1]
    BY <1>3 DEF Disconnected, OnGgpoAssertFailed, TimeSync
  <2>3. /\ ctl'[m].at = ctl[m].at /\ ctl'[m].open = ctl[m].open /\ ctl'[m].match = ctl[m].match
        /\ ctl'[m].allowed = ctl[m].allowed
    BY <1>1, <2>2 DEF CtlOf
  <2> QED BY <2>1, <2>3
<1>4. CASE Fork(m)
  BY <1>4 DEF Fork
<1> QED BY <1>2, <1>3, <1>4

(* Where the ways out of a battle, and the failed way in, lead.            *)
LEMMA Leaves ==
  ASSUME NEW m \in Machines, Inv
  PROVE  /\ StartFails(m) => /\ Called(m) /\ ctl'[m].at = "battle" /\ ~ctl'[m].allowed /\ ~ctl'[m].open
                             /\ ctl'[m].match = ctl[m].match + 1 /\ pending'[m] = NoSnaps
                             /\ UNCHANGED <<inbox, verdict>>
         /\ CloseBattle(m) => /\ ctl[m].at = "battle" /\ ctl'[m].at = "closed" /\ ~ctl'[m].allowed
                              /\ ctl'[m].match = ctl[m].match /\ UNCHANGED <<inbox, pending, verdict>>
         /\ Draw(m) => /\ ctl[m].at = "closed" /\ ctl'[m].at = "menu" /\ ctl'[m].allowed = ctl[m].allowed
                       /\ ctl'[m].match = ctl[m].match /\ UNCHANGED <<inbox, pending>>
                       /\ ~verdict'[m].seen
         /\ Quit(m) => /\ ctl'[m].at = "gone" /\ inbox'[m] = <<>> /\ ~verdict'[m].seen
                       /\ \A p \in Machines : p # m => inbox'[p] = inbox[p]
<1>1. /\ ctl \in [Machines -> CtlOf] /\ ctl[m] \in CtlOf /\ verdict \in [Machines -> VerdictOf]
      /\ verdict[m] \in VerdictOf /\ inbox \in [Machines -> Seq(Message)]
      /\ pending \in [Machines -> MapsTo(SnapState)]
  BY DEF Inv, Typed
<1>2. ASSUME StartFails(m)
      PROVE  /\ Called(m) /\ ctl'[m].at = "battle" /\ ~ctl'[m].allowed /\ ~ctl'[m].open
             /\ ctl'[m].match = ctl[m].match + 1 /\ pending'[m] = NoSnaps
             /\ UNCHANGED <<inbox, verdict>>
  <2>1. /\ ctl'[m] = [InMenu EXCEPT !.at = "battle", !.match = ctl[m].match + 1, !.leaving = TRUE]
        /\ Called(m) /\ pending'[m] = NoSnaps /\ UNCHANGED <<inbox, verdict>>
    BY <1>1, <1>2 DEF StartFails, ClearPending
  <2>2. /\ ctl'[m].at = "battle" /\ ~ctl'[m].allowed /\ ~ctl'[m].open
        /\ ctl'[m].match = ctl[m].match + 1
    BY <2>1 DEF InMenu
  <2> QED BY <2>1, <2>2
<1>3. ASSUME CloseBattle(m)
      PROVE  /\ ctl[m].at = "battle" /\ ctl'[m].at = "closed" /\ ~ctl'[m].allowed
             /\ ctl'[m].match = ctl[m].match /\ UNCHANGED <<inbox, pending, verdict>>
  <2>1. /\ ctl'[m] = [InMenu EXCEPT !.at = "closed", !.match = ctl[m].match] /\ ctl[m].at = "battle"
        /\ UNCHANGED <<inbox, pending, verdict>>
    BY <1>1, <1>3 DEF CloseBattle
  <2>2. ctl'[m].at = "closed" /\ ~ctl'[m].allowed /\ ctl'[m].match = ctl[m].match
    BY <2>1 DEF InMenu
  <2> QED BY <2>1, <2>2
<1>4. ASSUME Draw(m)
      PROVE  /\ ctl[m].at = "closed" /\ ctl'[m].at = "menu" /\ ctl'[m].allowed = ctl[m].allowed
             /\ ctl'[m].match = ctl[m].match /\ UNCHANGED <<inbox, pending>> /\ ~verdict'[m].seen
  <2>1. /\ ctl' = [ctl EXCEPT ![m].at = "menu"] /\ ctl[m].at = "closed" /\ UNCHANGED <<inbox, pending>>
        /\ verdict'[m].seen = FALSE
    BY <1>1, <1>4 DEF Draw, VerdictOf
  <2>2. /\ ctl'[m].at = "menu" /\ ctl'[m].allowed = ctl[m].allowed /\ ctl'[m].match = ctl[m].match
    BY <1>1, <2>1 DEF CtlOf
  <2> QED BY <2>1, <2>2
<1>5. ASSUME Quit(m)
      PROVE  /\ ctl'[m].at = "gone" /\ inbox'[m] = <<>> /\ ~verdict'[m].seen
             /\ \A p \in Machines : p # m => inbox'[p] = inbox[p]
  <2>1. /\ ctl'[m] = [InMenu EXCEPT !.at = "gone"] /\ inbox'[m] = <<>> /\ verdict'[m] = NoVerdict
        /\ \A p \in Machines : p # m => inbox'[p] = inbox[p]
    BY <1>1, <1>5 DEF Quit
  <2>2. ctl'[m].at = "gone" /\ ~verdict'[m].seen
    BY <2>1 DEF InMenu, NoVerdict
  <2> QED BY <2>1, <2>2
<1> QED BY <1>2, <1>3, <1>4, <1>5

(* GGPO starts when both are there, and takes in what has come.            *)
LEMMA RunsOn ==
  ASSUME NEW m \in Machines, Inv, Running(m) \/ Idle(m)
  PROVE  /\ ctl'[m].at = ctl[m].at /\ ctl'[m].open = ctl[m].open /\ ctl'[m].match = ctl[m].match
         /\ Playing(m) /\ Together(m) /\ UNCHANGED <<inbox, pending, verdict, faults>>
         /\ sim'[m].frame = sim[m].frame /\ sim[m].conf <= sim'[m].conf
         /\ sim'[m].conf = sim[m].conf \/ sim'[m].conf <= sim[Peer(m)].frame + Delay
<1>1. /\ sim \in [Machines -> SimOf] /\ ctl \in [Machines -> CtlOf] /\ ctl[m] \in CtlOf
      /\ sim[m] \in SimOf
  BY DEF Inv, Typed
<1>2. CASE Running(m)
  <2>1. /\ ctl' = [ctl EXCEPT ![m].allowed = TRUE] /\ Playing(m) /\ Together(m)
        /\ UNCHANGED <<sim, inbox, pending, verdict, faults>>
    BY <1>2 DEF Running
  <2>2. ctl'[m].at = ctl[m].at /\ ctl'[m].open = ctl[m].open /\ ctl'[m].match = ctl[m].match
    BY <1>1, <2>1 DEF CtlOf
  <2>3. sim[m].conf \in Nat
    BY <1>1, ConstantsTyped DEF SimOf
  <2> QED BY <2>1, <2>2, <2>3
<1>3. CASE Idle(m)
  <2>1. PICK c \in Arrivals(m) : \E w \in Guesses(m, c) :
          sim' = [sim EXCEPT ![m] = Poll(sim[m], c, w, Forked(m))]
    BY <1>3 DEF Idle
  <2>2. PICK w \in Guesses(m, c) : sim' = [sim EXCEPT ![m] = Poll(sim[m], c, w, Forked(m))]
    BY <2>1
  <2>3. Playing(m) /\ Together(m) /\ UNCHANGED <<ctl, inbox, pending, verdict, faults>>
    BY <1>3 DEF Idle
  <2> DEFINE clean == ~Forked(m)
             s == Poll(sim[m], c, w, Forked(m))
  <2>4. clean \in BOOLEAN /\ (clean <=> ~Forked(m)) /\ (c \in Arrivals(m) \/ c = sim[m].conf)
    OBVIOUS
  <2> HIDE DEF clean
  <2>5. s.frame = sim[m].frame /\ s.conf = c
    BY <2>3, <2>4, Polled
  <2>6. sim[m].conf <= c
    BY <2>3, <2>4, Polled
  <2>7. c = sim[m].conf \/ c <= sim[Peer(m)].frame + Delay
    BY <2>3, <2>4, Polled
  <2>8. sim'[m] = s
    BY <1>1, <2>2
  <2> HIDE DEF s
  <2> QED BY <2>3, <2>5, <2>6, <2>7, <2>8
<1> QED BY <1>2, <1>3

(* Where both machines are when the next match is called.                   *)
LEMMA CalledFrom ==
  ASSUME NEW m \in Machines, Inv, Called(m)
  PROVE  LET p == Peer(m) IN
         /\ ctl[m].at = "menu" /\ inbox[m] = <<>> /\ ctl[p].at # "gone"
         /\ \/ ctl[p].match = ctl[m].match /\ ctl[p].at = "menu"
            \/ ctl[p].match = ctl[m].match + 1
BY DEF Called

(* Every step keeps the matches of both machines in order.                  *)
LEMMA InOrderKept ==
  ASSUME NEW m \in Machines, Inv, InOrder, Moves(m)
  PROVE  InOrder'
<1> DEFINE p == Peer(m)
           Ordered(a, b) == Here(a) /\ Here(b) /\ ctl[a].match > ctl[b].match =>
              /\ ctl[a].match = ctl[b].match + 1 /\ ctl[b].at = "menu" /\ ~ctl[a].allowed
              /\ Playing(a) => sim[a].conf = Delay
<1>1. /\ p \in Machines /\ p # m /\ Peer(p) = m /\ \A q \in Machines : q = m \/ q = p
      /\ ctl[m].match \in Nat /\ ctl[p].match \in Nat
  BY MachineTypes DEF Inv, Machines, Peer
<1>2. sim'[p] = sim[p] /\ ctl'[p] = ctl[p]
  BY <1>1, OthersStay
<1>3. Ordered(m, p) /\ Ordered(p, m)
  BY <1>1 DEF InOrder
<1>4. SUFFICES Ordered(m, p)' /\ Ordered(p, m)'
  BY <1>1 DEF InOrder
<1> HIDE DEF p
<1>5. CASE Disconnected(m) \/ OnGgpoAssertFailed(m) \/ TimeSync(m) \/ Fork(m) \/ Step(m)
  BY <1>2, <1>3, <1>5, Quiet DEF Here, Playing
<1>6. CASE Running(m) \/ Idle(m)
  <2>1. ctl'[m].match = ctl[m].match /\ ctl[p].match = ctl[m].match
    BY <1>6, RunsOn DEF Together, p
  <2> QED BY <1>1, <1>2, <2>1
<1>7. CASE BattleUpdate(m)
  <2>1. /\ Playing(m) /\ ctl[m].allowed /\ ctl'[m].match = ctl[m].match
    <3> DEFINE clean == ~Forked(m)
    <3>1. clean \in BOOLEAN /\ (clean <=> ~Forked(m))
      OBVIOUS
    <3> HIDE DEF clean
    <3> QED BY <1>7, <3>1, Updated
  <2>2. ctl'[m].at = ctl[m].at
    <3> DEFINE clean == ~Forked(m)
    <3>1. clean \in BOOLEAN /\ (clean <=> ~Forked(m))
      OBVIOUS
    <3> HIDE DEF clean
    <3> QED BY <1>7, <3>1, Updated
  <2>3. ctl[m].at = "battle"
    BY <2>1 DEF Playing
  <2> QED BY <1>1, <1>2, <1>3, <2>1, <2>2, <2>3 DEF Here
<1>8. CASE StartGGPO(m) \/ StartFails(m)
  <2>1. /\ Called(m) /\ ctl'[m].match = ctl[m].match + 1 /\ ~ctl'[m].allowed
        /\ StartGGPO(m) => sim'[m].conf = Delay
        /\ StartFails(m) => ~ctl'[m].open
    BY <1>8, Started, Leaves
  <2>2. /\ ctl[m].at = "menu" /\ ctl[p].at # "gone"
        /\ \/ ctl[p].match = ctl[m].match /\ ctl[p].at = "menu"
           \/ ctl[p].match = ctl[m].match + 1
    BY <2>1, CalledFrom DEF p
  <2>3. Playing(m)' => sim'[m].conf = Delay
    BY <1>8, <2>1 DEF Playing
  <2> QED BY <1>1, <1>2, <2>1, <2>2, <2>3
<1>9. CASE CloseBattle(m) \/ Draw(m)
  <2>1. /\ ctl'[m].match = ctl[m].match /\ ctl[m].at \in {"battle", "closed"}
        /\ ctl'[m].at \in {"closed", "menu"}
        /\ ~ctl'[m].allowed \/ ctl'[m].allowed = ctl[m].allowed
    BY <1>9, Leaves
  <2> QED BY <1>1, <1>2, <1>3, <2>1 DEF Here, Playing
<1>10. CASE Quit(m)
  <2>1. ctl'[m].at = "gone"
    BY <1>10, Leaves
  <2> QED BY <2>1 DEF Here
<1> QED BY <1>5, <1>6, <1>7, <1>8, <1>9, <1>10 DEF Moves

(* Every step keeps that nobody has inputs that were not given.             *)
LEMMA GivenKept ==
  ASSUME NEW m \in Machines, Inv, InOrder, Given, Moves(m)
  PROVE  Given'
<1> DEFINE p == Peer(m)
           Has(a, b) == Playing(a) /\ Playing(b) /\ ctl[b].match = ctl[a].match
                          => sim[a].conf <= sim[b].frame + Delay
<1>1. /\ p \in Machines /\ p # m /\ Peer(p) = m /\ \A q \in Machines : q = m \/ q = p
      /\ ctl[m].match \in Nat /\ ctl[p].match \in Nat
  BY MachineTypes DEF Inv, Machines, Peer
<1>2. sim'[p] = sim[p] /\ ctl'[p] = ctl[p] /\ (Playing(p)' <=> Playing(p))
  <2>1. sim'[p] = sim[p] /\ ctl'[p] = ctl[p]
    BY <1>1, OthersStay
  <2> QED BY <2>1 DEF Playing
<1>3. Has(m, p) /\ Has(p, m)
  BY <1>1 DEF Given, Together
<1>4. SUFFICES Has(m, p)' /\ Has(p, m)'
  BY <1>1 DEF Given, Together
<1>5. /\ sim[m].conf \in Nat /\ sim[m].frame \in Nat /\ sim[p].conf \in Nat /\ sim[p].frame \in Nat
      /\ Delay \in Nat
  <2>1. sim[m] \in SimOf /\ sim[p] \in SimOf
    BY <1>1, MachineTypes DEF Inv
  <2> QED BY <2>1, ConstantsTyped DEF SimOf, Frames
<1>6. sim'[m].conf \in Nat /\ sim'[m].frame \in Nat
  <2>1. Inv'
    <3>1. Next
      BY DEF Next, Moves
    <3> QED BY <3>1, NextKeeps
  <2>2. sim'[m] \in SimOf
    BY <2>1 DEF Inv, Typed
  <2> QED BY <2>2, ConstantsTyped DEF SimOf, Frames
<1>7. CASE Disconnected(m) \/ OnGgpoAssertFailed(m) \/ TimeSync(m) \/ Fork(m) \/ Step(m)
  BY <1>2, <1>3, <1>7, Quiet DEF Playing
<1>8. CASE Running(m) \/ Idle(m)
  <2>1. /\ ctl'[m].match = ctl[m].match /\ Playing(m) /\ sim'[m].frame = sim[m].frame
        /\ sim'[m].conf = sim[m].conf \/ sim'[m].conf <= sim[p].frame + Delay
    BY <1>8, RunsOn DEF p
  <2> HIDE DEF p
  <2> QED BY <1>2, <1>3, <2>1
<1>9. CASE BattleUpdate(m)
  <2> DEFINE clean == ~Forked(m)
  <2>1. clean \in BOOLEAN /\ (clean <=> ~Forked(m))
    OBVIOUS
  <2> HIDE DEF clean
  <2>2. /\ Playing(m) /\ ctl'[m].match = ctl[m].match /\ sim[m].frame <= sim'[m].frame
    BY <1>9, <2>1, Updated
  <2>3. sim'[m].conf = sim[m].conf \/ sim'[m].conf <= sim[p].frame + Delay
    BY <1>9, <2>1, Updated
  <2> HIDE DEF p
  <2> QED BY <1>2, <1>3, <1>5, <1>6, <2>2, <2>3
<1>10. CASE StartGGPO(m)
  <2>1. /\ Called(m) /\ ctl'[m].match = ctl[m].match + 1 /\ sim'[m].conf = Delay /\ sim'[m].frame = 0
    BY <1>10, Started
  <2>2. /\ ctl[m].at = "menu" /\ ctl[p].at # "gone"
        /\ \/ ctl[p].match = ctl[m].match /\ ctl[p].at = "menu"
           \/ ctl[p].match = ctl[m].match + 1
    BY <2>1, CalledFrom
  <2>3. ctl[p].match = ctl[m].match + 1 /\ Playing(p) => sim[p].conf = Delay
    BY <1>1, <2>2 DEF InOrder, Here
  <2> HIDE DEF p
  <2> QED BY <1>2, <1>5, <2>1, <2>3
<1>11. CASE StartFails(m) \/ CloseBattle(m) \/ Draw(m) \/ Quit(m)
  <2>1. ~Playing(m)'
    BY <1>11, Leaves DEF Playing
  <2> QED BY <2>1
<1> QED BY <1>7, <1>8, <1>9, <1>10, <1>11 DEF Moves

(* The end of a sequence, and two in a row.                                *)
LEMMA TailOf ==
  ASSUME NEW S, NEW s \in Seq(S), NEW k \in 0 .. Len(s), NEW i \in DOMAIN SubSeq(s, k + 1, Len(s))
  PROVE  \E j \in DOMAIN s : SubSeq(s, k + 1, Len(s))[i] = s[j]
<1>1. Len(s) \in Nat /\ k \in Nat /\ k <= Len(s)
  OBVIOUS
<1>2. k + 1 \in 1 .. Len(s) + 1 /\ Len(s) \in (k + 1) - 1 .. Len(s)
  BY <1>1
<1> DEFINE t == SubSeq(s, k + 1, Len(s))
<1>3. t \in Seq(S) /\ Len(t) = Len(s) - (k + 1) + 1 /\ \A x \in 1 .. Len(s) - (k + 1) + 1 : t[x] = s[(k + 1) + x - 1]
  BY <1>2, SubSeqProperties
<1> HIDE DEF t
<1>4. i \in 1 .. Len(s) - (k + 1) + 1
  <2>1. i \in DOMAIN t
    BY DEF t
  <2> QED BY <1>3, <2>1
<1>5. t[i] = s[(k + 1) + i - 1] /\ (k + 1) + i - 1 \in DOMAIN s
  BY <1>1, <1>3, <1>4
<1> QED BY <1>5 DEF t

(* An element of two sequences joined is of one of them.                    *)
LEMMA InEither ==
  ASSUME NEW S, NEW s \in Seq(S), NEW t \in Seq(S), NEW i \in DOMAIN (s \o t)
  PROVE  \/ \E j \in DOMAIN s : (s \o t)[i] = s[j]
         \/ \E j \in DOMAIN t : (s \o t)[i] = t[j]
<1> DEFINE u == s \o t
<1>1. /\ u \in Seq(S) /\ Len(u) = Len(s) + Len(t)
      /\ \A j \in 1 .. Len(s) + Len(t) : u[j] = IF j <= Len(s) THEN s[j] ELSE t[j - Len(s)]
  BY ConcatProperties
<1>2. Len(s) \in Nat /\ Len(t) \in Nat
  OBVIOUS
<1> HIDE DEF u
<1>3. i \in 1 .. Len(s) + Len(t)
  <2>1. i \in DOMAIN u
    BY DEF u
  <2> QED BY <1>1, <2>1
<1>4. CASE i <= Len(s)
  <2>1. i \in DOMAIN s /\ u[i] = s[i]
    BY <1>1, <1>2, <1>3, <1>4
  <2> QED BY <2>1 DEF u
<1>5. CASE ~(i <= Len(s))
  <2>1. i - Len(s) \in DOMAIN t /\ u[i] = t[i - Len(s)]
    BY <1>1, <1>2, <1>3, <1>5
  <2> QED BY <2>1 DEF u
<1> QED BY <1>4, <1>5

(* A snapshot that has come stays what it was.                             *)
LEMMA SettlingKept ==
  ASSUME NEW q \in Machines, Inv, NEW n, NEW state \in SnapState, Settling(q, n, state),
         ctl'[q].match = ctl[q].match, faults.forked \subseteq faults'.forked,
         Playing(q)' => Playing(q) /\ sim[q].conf <= sim'[q].conf /\ sim'[q].conf \in Nat
  PROVE  Settling(q, n, state)'
<1>1. state.frame \in Nat /\ sim[q].conf \in Nat
  <2>1. sim[q] \in SimOf
    BY MachineTypes DEF Inv
  <2> QED BY <2>1, ConstantsTyped DEF SnapState, SimOf
<1>2. Playing(q)' => state.frame <= sim'[q].conf
  BY <1>1 DEF Settling
<1>3. <<Peer(q), state.match>> \notin faults'.forked => state.bad = None
  BY DEF Settling
<1>4. state.match = ctl'[q].match /\ \A k \in Frames : Lead(k) => state.frame = n - k
  BY DEF Settling
<1> QED BY <1>2, <1>3, <1>4 DEF Settling

(* A snapshot that is sent can no longer change, and is of a frame that    *)
(* the other machine has all inputs for.                                   *)
LEMMA SentSettles ==
  ASSUME SettledEnough, NEW m \in Machines, Inv, InOrder, Given,
         NEW f \in Settled(sim[m].snaps, m), Here(m), Here(Peer(m))
  PROVE  Settling(Peer(m), f, sim[m].snaps[f].state)
<1> DEFINE p == Peer(m)
           s == sim[m]
           lead == s.n - s.frame
           state == s.snaps[f].state
<1>1. /\ p \in Machines /\ p # m /\ Peer(p) = m
      /\ ctl[m].match \in Nat /\ ctl[p].match \in Nat
  BY MachineTypes DEF Inv
<1>2. f \in DOMAIN s.snaps /\ s.n - f >= SettledDepth(s)
  BY DEF Settled
<1>3. /\ Playing(m) /\ ctl[m].allowed /\ Lead(lead)
      /\ f \in Nat /\ s.n \in Nat /\ s.frame \in Nat /\ lead \in Nat /\ s.conf \in Nat
      /\ state.match = ctl[m].match /\ state.frame = f - lead
      /\ ~Forked(m) => state.bad = BadBefore(s, f)
  BY <1>2, OwnSnapshot
<1>4. ctl[p].match = ctl[m].match
  <2>1. ~(ctl[m].match > ctl[p].match)
    BY <1>1, <1>3 DEF InOrder
  <2>2. ~(ctl[p].match > ctl[m].match)
    BY <1>1, <1>3 DEF InOrder, Playing
  <2> QED BY <1>1, <2>1, <2>2
<1> HIDE DEF p, state, lead
<1>5. s.n - f >= SETTLED /\ s.n - f >= s.frame - (s.conf - 1)
  <2>1. Max({SETTLED, Depth(s)}) = IF SETTLED >= Depth(s) THEN SETTLED ELSE Depth(s)
    <3>1. SETTLED \in Int /\ Depth(s) \in Int
      BY <1>3, ConstantsTyped DEF Depth
    <3> QED BY <3>1, GreatestOfTwo
  <2>2. Depth(s) = s.frame - (s.conf - 1)
    BY DEF Depth
  <2> HIDE DEF s
  <2> QED BY <1>2, <1>3, <2>1, <2>2, ConstantsTyped DEF SettledDepth
<1>6. \A k \in Frames : Lead(k) => state.frame = f - k
  <2> SUFFICES ASSUME NEW k \in Frames, Lead(k) PROVE k = lead
    BY <1>3
  <2>1. k \in Nat /\ lead \in Nat
    BY <1>3, ConstantsTyped DEF Frames
  <2>2. ~(k < lead)
    BY <1>3, <2>1 DEF Lead
  <2>3. ~(lead < k)
    BY <1>3, <2>1 DEF Lead
  <2> QED BY <2>1, <2>2, <2>3
<1>7. ~Forked(m) => state.bad = None
  <2> SUFFICES ASSUME ~Forked(m) PROVE BadBefore(s, f) = None
    BY <1>3
  <2>1. f - (sim[m].n - sim[m].frame) <= sim[m].conf
    BY <1>3, <1>5
  <2> QED BY <1>3, <2>1, NothingWrong
<1>8. Playing(p) => state.frame <= sim[p].conf
  <2> SUFFICES ASSUME Playing(p) PROVE state.frame <= sim[p].conf
    OBVIOUS
  <2> DEFINE r == sim[p]
             P == GGPO_MAX_PREDICTION_FRAMES
  <2>1. s.conf <= r.frame + Delay
    <3>1. Together(m)
      BY <1>4 DEF Together, p
    <3> QED BY <1>3, <3>1 DEF Given, p
  <2>2. /\ s.frame < s.conf + P /\ r.frame < r.conf + P
        /\ r.frame \in Nat /\ r.conf \in Nat
    <3>1. /\ InBattle(s, ctl[m].match, ~Forked(m), ctl[m].leftIdle, ctl[m].allowed)
          /\ InBattle(r, ctl[p].match, ~Forked(p), ctl[p].leftIdle, ctl[p].allowed)
      BY <1>1, <1>3 DEF Inv, Alone, Battling
    <3>2. r \in SimOf
      BY <1>1, MachineTypes DEF Inv
    <3> HIDE DEF s, r
    <3>3. s.frame < s.conf + P /\ r.frame < r.conf + P
      BY <3>1 DEF InBattle, Guessing
    <3> QED BY <3>2, <3>3, ConstantsTyped DEF SimOf, Frames
  <2>3. s.frame = s.n - lead
    BY <1>3 DEF lead
  <2>4. P \in Nat /\ Delay \in Nat /\ SETTLED \in Nat /\ SETTLED >= 2 * P + Delay - 2
    BY ConstantsTyped DEF SettledEnough
  <2> HIDE DEF P, r, s
  <2>5. state.frame <= s.frame - SETTLED
    BY <1>3, <1>5, <2>3, <2>4
  <2>6. s.frame <= r.conf + 2 * P + Delay - 2
    BY <1>3, <2>1, <2>2, <2>4
  <2>7. state.frame <= r.conf
    BY <1>3, <2>2, <2>4, <2>5, <2>6
  <2> QED BY <2>7 DEF r
<1>9. <<Peer(p), state.match>> \notin faults.forked => state.bad = None
  BY <1>1, <1>3, <1>7 DEF Forked
<1>10. state.match = ctl[p].match
  BY <1>3, <1>4
<1>11. Settling(p, f, state)
  BY <1>6, <1>8, <1>9, <1>10 DEF Settling
<1> QED BY <1>11 DEF p, state

(* Every step keeps that only settled snapshots travel or wait.             *)
LEMMA SnapshotsSettledKept ==
  ASSUME SettledEnough, NEW m \in Machines, Inv, InOrder, Given, SnapshotsSettled, Moves(m)
  PROVE  SnapshotsSettled'
<1> DEFINE p == Peer(m)
           Empty(q) == ~Here(q) => inbox[q] = <<>>
           Come(q) == \A i \in DOMAIN inbox[q] :
             inbox[q][i].type = "snapshot" => Settling(q, inbox[q][i].n, inbox[q][i].state)
           Waiting(q) == Playing(q) => \A f \in DOMAIN pending[q] : Settling(q, f, pending[q][f])
           Stays(q) == /\ ctl'[q].match = ctl[q].match /\ faults.forked \subseteq faults'.forked
                       /\ Playing(q)' => Playing(q) /\ sim[q].conf <= sim'[q].conf /\ sim'[q].conf \in Nat
<1>1. /\ p \in Machines /\ p # m /\ Peer(p) = m /\ \A q \in Machines : q = m \/ q = p
  BY MachineTypes DEF Inv, Machines, Peer
<1>2. \A q \in Machines : Empty(q) /\ Come(q) /\ Waiting(q)
  BY DEF SnapshotsSettled
<1>3. SUFFICES (Empty(m) /\ Come(m) /\ Waiting(m))' /\ (Empty(p) /\ Come(p) /\ Waiting(p))'
  BY <1>1 DEF SnapshotsSettled
<1>4. sim'[p] = sim[p] /\ ctl'[p] = ctl[p] /\ pending'[p] = pending[p] /\ (Playing(p)' <=> Playing(p))
      /\ (Here(p)' <=> Here(p)) /\ faults.forked \subseteq faults'.forked
  <2>1. sim'[p] = sim[p] /\ ctl'[p] = ctl[p] /\ pending'[p] = pending[p]
    BY <1>1, OthersStay
  <2> QED BY <2>1, ForksStay DEF Playing, Here
<1>5. \A q \in Machines : /\ sim[q].conf \in Nat /\ sim'[q].conf \in Nat
                          /\ inbox[q] \in Seq(Message) /\ pending[q] \in MapsTo(SnapState)
  <2>1. Inv'
    <3>1. Next
      BY DEF Next, Moves
    <3> QED BY <3>1, NextKeeps
  <2> SUFFICES ASSUME NEW q \in Machines
               PROVE  /\ sim[q].conf \in Nat /\ sim'[q].conf \in Nat
                      /\ inbox[q] \in Seq(Message) /\ pending[q] \in MapsTo(SnapState)
    OBVIOUS
  <2>2. sim'[q] \in SimOf /\ sim[q] \in SimOf
    BY <2>1 DEF Inv, Typed
  <2>3. inbox[q] \in Seq(Message) /\ pending[q] \in MapsTo(SnapState)
    BY MachineTypes DEF Inv
  <2> QED BY <2>2, <2>3, ConstantsTyped DEF SimOf
<1>6. Stays(p)
  BY <1>1, <1>4, <1>5
<1>7. ASSUME NEW q \in Machines, Stays(q), NEW n, NEW state \in SnapState, Settling(q, n, state)
      PROVE  Settling(q, n, state)'
  BY <1>7, SettlingKept
<1>8. ASSUME NEW q \in Machines, Stays(q),
             \A i \in DOMAIN inbox'[q] : \E j \in DOMAIN inbox[q] : inbox'[q][i] = inbox[q][j]
      PROVE  Come(q)'
  <2> SUFFICES ASSUME NEW i \in DOMAIN inbox'[q], inbox'[q][i].type = "snapshot"
               PROVE  Settling(q, inbox[q][i].n, inbox[q][i].state)'
    OBVIOUS
  <2>1. PICK j \in DOMAIN inbox[q] : inbox'[q][i] = inbox[q][j]
    BY <1>8
  <2>2. inbox[q][j] \in Message /\ inbox[q][j].type = "snapshot"
    BY <1>5, <2>1
  <2>3. /\ inbox[q][j].state \in SnapState /\ Settling(q, inbox[q][j].n, inbox[q][j].state)
    BY <1>2, <2>2 DEF Message
  <2>4. PICK n : n = inbox[q][j].n
    OBVIOUS
  <2>6. PICK state \in SnapState : state = inbox[q][j].state
    BY <2>3
  <2>5. Settling(q, n, state)'
    BY <1>7, <1>8, <2>3, <2>4, <2>6
  <2> QED BY <2>1, <2>4, <2>5, <2>6 DEF Settling
<1>9. ASSUME NEW q \in Machines, Stays(q), pending'[q] = pending[q]
      PROVE  Waiting(q)'
  <2> SUFFICES ASSUME Playing(q)', NEW f \in DOMAIN pending'[q]
               PROVE  Settling(q, f, pending[q][f])'
    OBVIOUS
  <2>1. pending[q][f] \in SnapState /\ Settling(q, f, pending[q][f])
    BY <1>2, <1>5, <1>9, MapTypes
  <2>2. PICK state \in SnapState : state = pending[q][f]
    BY <2>1
  <2>3. Settling(q, f, state)'
    BY <1>7, <1>9, <2>1, <2>2
  <2> QED BY <1>9, <2>2, <2>3 DEF Settling
<1>10. Waiting(p)'
  BY <1>1, <1>4, <1>6, <1>9
<1>11. ASSUME inbox'[p] = inbox[p] PROVE Empty(p)' /\ Come(p)'
  BY <1>1, <1>2, <1>4, <1>6, <1>8, <1>11
<1>12. ASSUME UNCHANGED inbox, pending'[m] = pending[m], Stays(m), Here(m)'
       PROVE  (Empty(m) /\ Come(m) /\ Waiting(m))' /\ (Empty(p) /\ Come(p) /\ Waiting(p))'
  <2>1. Come(m)' /\ Waiting(m)'
    BY <1>8, <1>9, <1>12
  <2> QED BY <1>10, <1>11, <1>12, <2>1
<1>13. CASE Disconnected(m) \/ OnGgpoAssertFailed(m) \/ TimeSync(m) \/ Fork(m)
  <2>1. ~Step(m) => UNCHANGED <<sim, inbox, pending, verdict>>
    BY <1>13, Quiet
  <2>2. Playing(m) /\ UNCHANGED <<inbox, pending>>
    BY <1>13 DEF Disconnected, OnGgpoAssertFailed, TimeSync, Fork
  <2>3. /\ ctl'[m].at = ctl[m].at /\ ctl'[m].open = ctl[m].open /\ ctl'[m].match = ctl[m].match
        /\ sim'[m].conf = sim[m].conf
    BY <1>13, Quiet
  <2>4. Stays(m) /\ Here(m)'
    BY <1>4, <1>5, <2>2, <2>3 DEF Playing, Here
  <2> QED BY <1>12, <2>2, <2>4
<1>14. CASE Running(m) \/ Idle(m)
  <2>1. /\ ctl'[m].at = ctl[m].at /\ ctl'[m].match = ctl[m].match
        /\ Playing(m) /\ UNCHANGED <<inbox, pending>> /\ sim[m].conf <= sim'[m].conf
    BY <1>14, RunsOn
  <2>2. Stays(m) /\ Here(m)'
    BY <1>4, <1>5, <2>1 DEF Playing, Here
  <2> QED BY <1>12, <2>1, <2>2
<1>15. CASE BattleUpdate(m)
  <2> DEFINE clean == ~Forked(m)
  <2>1. clean \in BOOLEAN /\ (clean <=> ~Forked(m))
    OBVIOUS
  <2> HIDE DEF clean
  <2>2. /\ Playing(m) /\ ctl'[m].match = ctl[m].match /\ ctl'[m].at = ctl[m].at
        /\ UNCHANGED <<inbox, pending>>
    BY <1>15, <2>1, Updated
  <2>3. sim[m].conf <= sim'[m].conf
    BY <1>15, <2>1, Updated
  <2>4. Stays(m) /\ Here(m)'
    BY <1>4, <1>5, <2>2, <2>3 DEF Playing, Here
  <2> QED BY <1>12, <2>2, <2>4
<1>16. CASE CloseBattle(m) \/ Draw(m)
  <2>1. /\ ctl'[m].match = ctl[m].match /\ ctl'[m].at \in {"closed", "menu"}
        /\ UNCHANGED <<inbox, pending>>
    BY <1>16, Leaves
  <2>2. Stays(m) /\ Here(m)'
    BY <1>4, <2>1 DEF Playing, Here
  <2> QED BY <1>12, <2>1, <2>2
<1>17. CASE StartGGPO(m) \/ StartFails(m)
  <2>1. /\ Called(m) /\ pending'[m] = NoSnaps /\ inbox' = inbox
    BY <1>17, Started, Leaves
  <2>2. inbox'[m] = <<>>
    BY <2>1, CalledFrom
  <2>3. Empty(m)' /\ Come(m)'
    BY <2>2
  <2>4. Waiting(m)'
    BY <2>1 DEF NoSnaps
  <2> QED BY <1>10, <1>11, <2>1, <2>3, <2>4
<1>18. CASE Quit(m)
  <2>1. ctl'[m].at = "gone" /\ inbox'[m] = <<>> /\ inbox'[p] = inbox[p]
    BY <1>1, <1>18, Leaves
  <2>2. Empty(m)' /\ Come(m)'
    BY <2>1
  <2>3. Waiting(m)'
    BY <2>1 DEF Playing
  <2> QED BY <1>10, <1>11, <2>1, <2>2, <2>3
<1>19. CASE Step(m)
  <2>1. PICK k \in 0 .. Len(inbox[m]) : \E v :
           /\ StepsTo(m, k, v) /\ Stepped(v, m) /\ (SnapshotsSettled => SteppedWell(v, m))
           /\ Here(m)
    BY <1>19, StepTaken
  <2>2. PICK v : StepsTo(m, k, v) /\ Stepped(v, m) /\ SteppedWell(v, m) /\ Here(m)
    BY <2>1
  <2>3. /\ ctl'[m].at = ctl[m].at /\ ctl'[m].open = ctl[m].open /\ ctl'[m].match = ctl[m].match
        /\ sim'[m].conf = sim[m].conf
    BY <1>19, Quiet
  <2>4. Stays(m) /\ Here(m)'
    BY <1>4, <1>5, <2>2, <2>3 DEF Playing, Here
  <2>5. Come(m)'
    <3>1. inbox'[m] = SubSeq(inbox[m], k + 1, Len(inbox[m])) /\ inbox[m] \in Seq(Message)
      BY <1>5, <2>2 DEF StepsTo
    <3>2. \A i \in DOMAIN inbox'[m] : \E j \in DOMAIN inbox[m] : inbox'[m][i] = inbox[m][j]
      BY <3>1, TailOf
    <3> QED BY <1>8, <2>4, <3>2
  <2>6. Waiting(m)'
    <3> SUFFICES ASSUME Playing(m)', NEW f \in DOMAIN pending'[m]
                 PROVE  Settling(m, f, pending[m][f])'
      OBVIOUS
    <3>1. pending'[m] = v.pending
      <4>1. m \in DOMAIN pending
        BY DEF Inv, Typed
      <4> QED BY <2>2, <4>1 DEF StepsTo
    <3>2. Playing(m)
      BY <2>4
    <3>3. Settling(m, f, v.pending[f]) /\ v.pending[f] \in SnapState
      <4>1. v.pending \in MapsTo(SnapState)
        BY <2>2 DEF Stepped, SteppingOf
      <4> QED BY <2>2, <3>1, <3>2, <4>1, MapTypes DEF SteppedWell
    <3>4. PICK state \in SnapState : state = v.pending[f]
      BY <3>3
    <3>5. Settling(m, f, state)'
      BY <1>7, <2>4, <3>3, <3>4
    <3> QED BY <3>1, <3>4, <3>5 DEF Settling
  <2>7. Empty(m)'
    BY <2>4
  <2>8. Empty(p)' /\ Come(p)'
    <3>1. CASE ~Here(p)
      <4>1. inbox'[p] = inbox[p]
        BY <2>2, <3>1 DEF StepsTo, Here
      <4> QED BY <1>11, <4>1
    <3>2. CASE Here(p)
      <4>1. inbox'[p] = inbox[p] \o v.out /\ v.out \in Seq(Message) /\ inbox[p] \in Seq(Message)
        BY <1>1, <1>5, <2>2, <3>2 DEF StepsTo, Here, Stepped, SteppingOf
      <4>2. Empty(p)'
        BY <1>4, <3>2
      <4>3. Come(p)'
        <5> SUFFICES ASSUME NEW i \in DOMAIN inbox'[p], inbox'[p][i].type = "snapshot"
                     PROVE  Settling(p, inbox[p][i].n, inbox[p][i].state)'
          OBVIOUS
        <5>1. \/ \E j \in DOMAIN inbox[p] : inbox'[p][i] = inbox[p][j]
              \/ \E j \in DOMAIN v.out : inbox'[p][i] = v.out[j]
          <6> DEFINE a == inbox[p]
                     b == v.out
          <6>1. a \in Seq(Message) /\ b \in Seq(Message) /\ inbox'[p] = a \o b
            BY <4>1
          <6> HIDE DEF a, b
          <6>2. i \in DOMAIN (a \o b)
            BY <6>1
          <6>3. \/ \E j \in DOMAIN a : (a \o b)[i] = a[j]
                \/ \E j \in DOMAIN b : (a \o b)[i] = b[j]
            BY <6>1, <6>2, InEither
          <6>4. inbox'[p][i] = (a \o b)[i]
            BY <6>1
          <6> QED BY <6>3, <6>4, Zenon DEF a, b
        <5>2. PICK msg \in Message : msg = inbox'[p][i]
          BY <4>1, <5>1
        <5>3. msg.type = "snapshot" /\ msg.state \in SnapState
          BY <5>2 DEF Message
        <5>4. Settling(p, msg.n, msg.state)
          <6>1. CASE \E j \in DOMAIN inbox[p] : inbox'[p][i] = inbox[p][j]
            BY <1>1, <1>2, <5>2, <5>3, <6>1
          <6>2. CASE \E j \in DOMAIN v.out : inbox'[p][i] = v.out[j]
            <7>1. msg.n \in Settled(sim[m].snaps, m) /\ msg.state = sim[m].snaps[msg.n].state
              BY <2>2, <5>2, <5>3, <6>2 DEF Stepped
            <7>2. Settling(Peer(m), msg.n, sim[m].snaps[msg.n].state)
              BY <2>2, <3>2, <7>1, SentSettles
            <7> QED BY <7>1, <7>2
          <6> QED BY <5>1, <6>1, <6>2
        <5>5. Settling(p, msg.n, msg.state)'
          <6>1. PICK n : n = msg.n
            OBVIOUS
          <6>3. PICK state \in SnapState : state = msg.state
            BY <5>3
          <6>2. Settling(p, n, state)'
            BY <1>1, <1>6, <1>7, <5>4, <6>1, <6>3
          <6> QED BY <6>1, <6>2, <6>3
        <5> QED BY <5>2, <5>5 DEF Settling
      <4> QED BY <4>2, <4>3
    <3> QED BY <3>1, <3>2
  <2> QED BY <1>10, <2>5, <2>6, <2>7, <2>8
<1> QED BY <1>13, <1>14, <1>15, <1>16, <1>17, <1>18, <1>19 DEF Moves

(* Every step keeps a desync within the match it was seen in.               *)
LEMMA SeenInMatchKept ==
  ASSUME NEW m \in Machines, Inv, SnapshotsSettled, SeenInMatch, Moves(m)
  PROVE  SeenInMatch'
<1> DEFINE Seen(q) == verdict[q].seen =>
             /\ ctl[q].at \in {"battle", "closed"}
             /\ \E p \in Machines : <<p, ctl[q].match>> \in faults.forked
<1>1. faults.forked \subseteq faults'.forked
  BY ForksStay
<1>2. ASSUME NEW q \in Machines, q # m PROVE Seen(q)'
  <2>1. verdict'[q] = verdict[q] /\ ctl'[q] = ctl[q]
    BY <1>2, OthersStay
  <2> QED BY <1>1, <2>1 DEF SeenInMatch
<1>3. Seen(m)
  BY DEF SeenInMatch
<1>4. SUFFICES Seen(m)'
  BY <1>2 DEF SeenInMatch
<1>5. ASSUME ctl'[m].at = ctl[m].at, ctl'[m].match = ctl[m].match, verdict'[m].seen = verdict[m].seen
      PROVE  Seen(m)'
  BY <1>1, <1>3, <1>5
<1>6. CASE Disconnected(m) \/ OnGgpoAssertFailed(m) \/ TimeSync(m) \/ Fork(m)
  <2>1. verdict' = verdict
    BY <1>6 DEF Disconnected, OnGgpoAssertFailed, TimeSync, Fork
  <2>2. ctl'[m].at = ctl[m].at /\ ctl'[m].match = ctl[m].match
    BY <1>6, Quiet
  <2> QED BY <1>5, <2>1, <2>2
<1>7. CASE Running(m) \/ Idle(m)
  <2>1. ctl'[m].at = ctl[m].at /\ ctl'[m].match = ctl[m].match /\ verdict' = verdict
    BY <1>7, RunsOn
  <2> QED BY <1>5, <2>1
<1>8. CASE BattleUpdate(m)
  <2> DEFINE clean == ~Forked(m)
  <2>1. clean \in BOOLEAN /\ (clean <=> ~Forked(m))
    OBVIOUS
  <2> HIDE DEF clean
  <2>2. ctl'[m].match = ctl[m].match /\ ctl'[m].at = ctl[m].at /\ verdict'[m].seen = verdict[m].seen
    BY <1>8, <2>1, Updated
  <2> QED BY <1>5, <2>2
<1>9. CASE StartGGPO(m) \/ StartFails(m)
  <2>1. Called(m) /\ verdict' = verdict
    BY <1>9, Started, Leaves
  <2>2. ctl[m].at = "menu"
    BY <2>1, CalledFrom
  <2> QED BY <1>3, <2>1, <2>2
<1>10. CASE CloseBattle(m)
  <2>1. ctl'[m].at = "closed" /\ ctl'[m].match = ctl[m].match /\ verdict' = verdict
    BY <1>10, Leaves
  <2> QED BY <1>1, <1>3, <2>1
<1>11. CASE Draw(m) \/ Quit(m)
  <2>1. ~verdict'[m].seen
    BY <1>11, Leaves
  <2> QED BY <2>1
<1>12. CASE Step(m)
  <2>1. PICK k \in 0 .. Len(inbox[m]) : \E v : StepsTo(m, k, v) /\ (SnapshotsSettled => SteppedWell(v, m))
    BY <1>12, StepTaken
  <2>2. PICK v : StepsTo(m, k, v) /\ SteppedWell(v, m)
    BY <2>1
  <2>3. ctl'[m].at = ctl[m].at /\ ctl'[m].match = ctl[m].match
    BY <1>12, Quiet
  <2>4. verdict'[m].seen = v.seen
    <3>1. m \in DOMAIN verdict /\ verdict[m] \in VerdictOf
      BY DEF Inv, Typed
    <3>2. verdict'[m] = [verdict[m] EXCEPT !.abort = v.abort, !.reported = v.reported, !.seen = v.seen]
      BY <2>2, <3>1 DEF StepsTo
    <3> QED BY <3>1, <3>2 DEF VerdictOf
  <2>5. CASE v.seen = verdict[m].seen
    BY <1>5, <2>3, <2>4, <2>5
  <2>6. CASE v.seen # verdict[m].seen
    <3>1. Playing(m) /\ \E p \in Machines : <<p, ctl[m].match>> \in faults.forked
      BY <2>2, <2>6 DEF SteppedWell
    <3> QED BY <1>1, <2>3, <3>1 DEF Playing
  <2> QED BY <2>5, <2>6
<1> QED BY <1>6, <1>7, <1>8, <1>9, <1>10, <1>11, <1>12 DEF Moves

(* What both machines promise together holds in the beginning.              *)
LEMMA JointBeginning ==
  ASSUME Init
  PROVE  JointInv
<1>1. /\ \A m \in Machines : /\ ctl[m] = InMenu /\ inbox[m] = <<>> /\ ~Playing(m) /\ ~verdict[m].seen
                             /\ Peer(m) \in Machines
  BY DEF Init, Playing, InMenu, NoVerdict, Machines, Peer
<1>2. InOrder
  <2>1. \A m \in Machines : ~(ctl[m].match > ctl[Peer(m)].match)
    BY <1>1 DEF InMenu
  <2> QED BY <2>1 DEF InOrder
<1>3. Given /\ SeenInMatch
  BY <1>1 DEF Given, SeenInMatch
<1>4. SnapshotsSettled
  BY <1>1 DEF SnapshotsSettled
<1> QED BY <1>2, <1>3, <1>4 DEF JointInv

(* Two machines that compute the same never end a match for a desync, when *)
(* a snapshot is held until no input that both can still be without can    *)
(* change it: a snapshot that was sent is of this match and of a frame     *)
(* that the other has all inputs for, so what both of them compared knows  *)
(* of no wrong guess.                                                      *)
THEOREM DesyncCorrect ==
  ASSUME SettledEnough
  PROVE  Spec => []NoFalseDesync
<1>1. Init => Inv /\ JointInv
  BY Beginning, JointBeginning
<1>2. Inv /\ JointInv /\ [Next]_vars => Inv' /\ JointInv'
  <2> SUFFICES ASSUME Inv, JointInv, [Next]_vars PROVE Inv' /\ JointInv'
    OBVIOUS
  <2>1. Inv'
    BY NextKeeps
  <2>2. CASE Next
    <3>1. PICK m \in Machines : Moves(m)
      BY <2>2 DEF Next, Moves
    <3>2. InOrder' /\ Given' /\ SnapshotsSettled' /\ SeenInMatch'
      BY <3>1, InOrderKept, GivenKept, SnapshotsSettledKept, SeenInMatchKept DEF JointInv
    <3> QED BY <2>1, <3>2 DEF JointInv
  <2>3. CASE UNCHANGED vars
    <3>1. InOrder' /\ Given' /\ SeenInMatch'
      BY <2>3 DEF JointInv, InOrder, Given, SeenInMatch, Here, Playing, Together, vars
    <3>2. SnapshotsSettled'
      BY <2>3 DEF JointInv, SnapshotsSettled, Settling, Here, Playing, vars
    <3> QED BY <2>1, <3>1, <3>2 DEF JointInv
  <2> QED BY <2>2, <2>3
<1>3. JointInv => NoFalseDesync
  BY DEF JointInv, SeenInMatch, NoFalseDesync
<1> QED BY <1>1, <1>2, <1>3, PTL DEF Spec
=============================================================================
