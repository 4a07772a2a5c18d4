-------------------------- MODULE SaveStates_proofs --------------------------
(***************************************************************************)
(* That every buffer of the heap has one owner, that a save state stays    *)
(* what was saved and is never used after its objects are gone, and that   *)
(* what GGPO holds is in slots of its own, for any number of objects, any  *)
(* heap, any values and any prediction limit: what an object is and what a *)
(* memento holds of it plays no part in that.  And that a load brings      *)
(* every object back, where the heap has room (EnoughHeap) and values are  *)
(* what a battle may be made of (ValuesFit): there Memento is what it is   *)
(* about.                                                                  *)
(***************************************************************************)
EXTENDS SaveStates, FiniteSetTheorems, WellFoundedInduction, TLAPS

LEMMA ConstantsTyped ==
  /\ GGPO_MAX_PREDICTION_FRAMES \in Nat /\ NUM_SAVE_STATES \in Nat
  /\ NUM_SAVE_STATES = GGPO_MAX_PREDICTION_FRAMES + 2
  /\ Slots \subseteq Nat /\ None \notin Slots /\ None \notin Buffers
  /\ Ring = 0 .. NUM_SAVE_STATES - 1 /\ 1 \in Slots
BY SaveStatesAssumption DEF NUM_SAVE_STATES, Slots, Ring, None

(* Every non-empty set of naturals has a least element.                    *)
LEMMA LeastNatural ==
  ASSUME NEW T \in SUBSET Nat, T # {}
  PROVE  \E x \in T : \A y \in T : x <= y
<1> DEFINE R == OpToRel(<, Nat)
<1>1. IsWellFoundedOn(R, Nat)
  BY NatLessThanWellFounded
<1>2. \A x, y \in Nat : <<y, x>> \in R <=> y < x
  BY DEF OpToRel
<1> HIDE DEF R
<1>3. PICK x \in T : \A y \in T : ~(<<y, x>> \in R)
  BY <1>1, WFMin
<1>4. ASSUME NEW y \in T PROVE x <= y
  <2>1. x \in Nat /\ y \in Nat /\ ~(<<y, x>> \in R)
    BY <1>3
  <2>2. ~(y < x)
    BY <1>2, <2>1
  <2> QED BY <2>1, <2>2
<1> QED BY <1>4

(* The greatest of some of the first numbers.                              *)
LEMMA GreatestOfFirst ==
  ASSUME NEW n \in Nat, NEW T \in SUBSET (1 .. n), T # {}
  PROVE  Max(T) \in T /\ \A y \in T : y <= Max(T)
<1> DEFINE D == {n - y : y \in T}
<1>1. D \in SUBSET Nat /\ D # {}
  <2>1. \A y \in T : y \in Int /\ 1 <= y /\ y <= n
    OBVIOUS
  <2>2. \A y \in T : n - y \in Nat
    BY <2>1
  <2> QED BY <2>2
<1>2. PICK x \in D : \A y \in D : x <= y
  BY <1>1, LeastNatural
<1>3. PICK z \in T : x = n - z
  BY <1>2
<1>4. \A y \in T : z >= y
  <2> TAKE y \in T
  <2>1. n - z <= n - y
    BY <1>2, <1>3
  <2> QED BY <2>1
<1>5. Max(T) \in T /\ \A y \in T : Max(T) >= y
  BY <1>3, <1>4 DEF Max
<1> QED BY <1>5

-----------------------------------------------------------------------------
(* What a load makes of an object.                                         *)

(* An address that lies elsewhere is worth the same place.                 *)
LEMMA ElsewhereIsTheSame ==
  ASSUME NEW x, Links(x)
  PROVE  /\ Elsewhere(x.links) \in [DOMAIN x.links -> Int]
         /\ Normalized(Elsewhere(x.links)) = Normalized(x.links)
<1> DEFINE l == x.links
           e == Elsewhere(l)
<1>1. l \in [DOMAIN l -> Int]
  BY DEF Links
<1>2. DOMAIN e = DOMAIN l /\ e \in [DOMAIN l -> Int] /\ \A i \in DOMAIN l : e[i] = 3 - l[i]
  BY <1>1 DEF Elsewhere
<1> HIDE DEF l, e
<1>3. ASSUME NEW i \in DOMAIN l
      PROVE  {j \in DOMAIN l : e[j] = e[i]} = {j \in DOMAIN l : l[j] = l[i]}
  <2>1. \A j \in DOMAIN l : e[j] = e[i] <=> l[j] = l[i]
    BY <1>1, <1>2
  <2> QED BY <2>1
<1>4. Normalized(e) = Normalized(l)
  <2>1. Normalized(e) = [i \in DOMAIN l |-> Min({j \in DOMAIN l : e[j] = e[i]})]
    BY <1>2 DEF Normalized
  <2>2. Normalized(l) = [i \in DOMAIN l |-> Min({j \in DOMAIN l : l[j] = l[i]})]
    BY DEF Normalized
  <2>3. \A i \in DOMAIN l :
          Min({j \in DOMAIN l : e[j] = e[i]}) = Min({j \in DOMAIN l : l[j] = l[i]})
    BY <1>3
  <2> QED BY <2>1, <2>2, <2>3
<1> QED BY <1>2, <1>4 DEF l, e

(* A screen comes back with its queue and its controls.                    *)
LEMMA ScreenComesBack ==
  ASSUME NEW s, NEW t, Screen(s), Screen(t), SameNodes(s, t)
  PROVE  RestoreScreen(s, RecordScreen(t)) = t
<1> DEFINE rec == RecordScreen(t)
           r == RestoreScreen(s, rec)
<1>1. rec.queue = t.queue /\ \A c \in DOMAIN t.controls : rec.controls[c] = RecordControl(t.controls[c])
  BY DEF RecordScreen
<1>2. /\ r \in [queue : {rec.queue}, controls : {r.controls}]
      /\ r.controls = [c \in DOMAIN s.controls |-> RestoreControl(s.controls[c], rec.controls[c])]
  BY DEF RestoreScreen
<1> HIDE DEF rec, r
<1>3. ASSUME NEW c \in DOMAIN t.controls
      PROVE  RestoreControl(s.controls[c], rec.controls[c]) = t.controls[c]
  <2> DEFINE a == s.controls[c]
             b == t.controls[c]
  <2>1. /\ a \in [node : {a.node}, enabled : {a.enabled}, frame : {a.frame}]
        /\ b \in [node : {b.node}, enabled : {b.enabled}, frame : {b.frame}]
        /\ a.node = b.node
    BY DEF Screen, SameNodes
  <2>2. rec.controls[c] = RecordControl(b)
    BY <1>1
  <2> HIDE DEF a, b
  <2>3. RestoreControl(a, RecordControl(b)) = b
    BY <2>1 DEF RestoreControl, RecordControl
  <2> QED BY <2>2, <2>3 DEF a, b
<1>4. r.controls = t.controls
  BY <1>2, <1>3 DEF Screen, SameNodes
<1> QED BY <1>1, <1>2, <1>4 DEF Screen, r, rec

(* The sprites that were in use come back with what they did.              *)
LEMMA SpritesComeBack ==
  ASSUME NEW pool, NEW was, DOMAIN pool = DOMAIN was
  PROVE  RecordPool(RestorePool(pool, RecordPool(was))) = RecordPool(was)
<1> DEFINE rec == RecordPool(was)
           r == RestorePool(pool, rec)
<1>1. DOMAIN rec \subseteq DOMAIN pool
  BY DEF RecordPool
<1>2. rec = [n \in DOMAIN rec |-> rec[n]]
  BY DEF RecordPool
<1> HIDE DEF rec
<1>3. /\ DOMAIN r = DOMAIN pool
      /\ \A n \in DOMAIN pool : r[n].used = (n \in DOMAIN rec)
      /\ \A n \in DOMAIN rec : r[n].action = rec[n]
  BY <1>1 DEF RestorePool
<1> HIDE DEF r
<1>4. {e \in DOMAIN r : r[e].used} = DOMAIN rec
  BY <1>1, <1>3
<1>5. RecordPool(r) = rec
  BY <1>2, <1>3, <1>4 DEF RecordPool
<1> QED BY <1>5 DEF r, rec

(* The fields of a battle system that is loaded.                           *)
SystemFields(x) ==
  x \in [kind : {x.kind}, own : {x.own}, links : {x.links}, announce : {x.announce},
         notice : {x.notice}, pool : {x.pool}, cockpit : {x.cockpit}, tasks : {x.tasks},
         handles : {x.handles}]

(* What x has become, loaded from rec.                                     *)
Loaded(x, rec, z) ==
  /\ SystemFields(z) /\ z.kind = "system" /\ z.own = rec.own
  /\ z.links = Elsewhere(rec.links)
  /\ z.announce = RestoreScreen(x.announce, rec.announce)
  /\ z.notice = RestoreScreen(x.notice, rec.notice)
  /\ z.tasks = RestoreTasks(rec.tasks) /\ z.handles = Handles(x, z.tasks)
  /\ DOMAIN z.pool = DOMAIN x.pool

(* The sprite pool of z is that of rec.                                    *)
Repooled(rec, z) == \E pool : DOMAIN pool = DOMAIN z.pool /\ z.pool = RestorePool(pool, rec.pool)

LEMMA SystemLoaded ==
  ASSUME NEW x, SystemFields(x), x.kind = "system", NEW rec, NEW last
  PROVE  /\ Loaded(x, rec, Restored(x, rec, last))
         /\ last = TRUE => Repooled(rec, Restored(x, rec, last))
<1> DEFINE shown == NoticeRestored(AnnounceRestored(x.pool, x.announce, rec.announce),
                                   x.notice, rec.notice)
           pool == IF last THEN shown ELSE RestorePool(shown, rec.pool)
           announce == RestoreScreen(x.announce, rec.announce)
           notice == RestoreScreen(x.notice, rec.notice)
           tasks == RestoreTasks(rec.tasks)
           handles == Handles(x, tasks)
           links == Elsewhere(rec.links)
           a == RestoreSystem(x, rec, last)
           b == RestoreHud(a)
           z == RestorePending(b, rec, last)
<1>1. a = [x EXCEPT !.own = rec.own, !.links = links, !.announce = announce, !.notice = notice,
                    !.pool = pool, !.tasks = tasks, !.handles = handles]
  BY Zenon DEF RestoreSystem
<1>2. DOMAIN pool = DOMAIN x.pool
  <2>1. \A p, on, off : DOMAIN Switched(p, on, off) = DOMAIN p
    BY DEF Switched
  <2>2. /\ DOMAIN AnnounceRestored(x.pool, x.announce, rec.announce) = DOMAIN x.pool
        /\ \A p : DOMAIN NoticeRestored(p, x.notice, rec.notice) = DOMAIN p
    BY <2>1 DEF NoticeRestored, AnnounceRestored
  <2>4. DOMAIN shown = DOMAIN x.pool
    BY <2>2
  <2> HIDE DEF shown
  <2>3. DOMAIN RestorePool(shown, rec.pool) = DOMAIN shown
    BY DEF RestorePool
  <2> QED BY <2>3, <2>4
<1>d. \A p, on, off : DOMAIN Switched(p, on, off) = DOMAIN p
  BY DEF Switched
<1> HIDE DEF pool, announce, notice, tasks, handles, links, a
<1>3. /\ SystemFields(a) /\ a.kind = "system" /\ a.own = rec.own /\ a.links = links
      /\ a.announce = announce /\ a.notice = notice /\ a.pool = pool /\ a.cockpit = x.cockpit
      /\ a.tasks = tasks /\ a.handles = handles
  BY <1>1 DEF SystemFields
<1> DEFINE staged == Switched(a.pool, a.cockpit, {})
<1>4. b = [a EXCEPT !.pool = staged]
  BY Zenon DEF RestoreHud
<1>5. DOMAIN staged = DOMAIN x.pool
  BY <1>2, <1>3, <1>d
<1> HIDE DEF staged, b
<1>6. /\ SystemFields(b) /\ b.kind = "system" /\ b.own = rec.own /\ b.links = links
      /\ b.announce = announce /\ b.notice = notice /\ b.pool = staged
      /\ b.tasks = tasks /\ b.handles = handles
  BY <1>3, <1>4 DEF SystemFields
<1> DEFINE final == RestorePool(b.pool, rec.pool)
<1>7. z = IF last THEN [b EXCEPT !.pool = final] ELSE b
  BY Zenon DEF RestorePending
<1>8. DOMAIN final = DOMAIN b.pool
  BY DEF RestorePool
<1>9. DOMAIN b.pool = DOMAIN x.pool
  BY <1>5, <1>6
<1>e. final = RestorePool(b.pool, rec.pool)
  OBVIOUS
<1> HIDE DEF final, z
<1>10. /\ SystemFields(z) /\ z.kind = "system" /\ z.own = rec.own /\ z.links = links
       /\ z.announce = announce /\ z.notice = notice /\ z.tasks = tasks /\ z.handles = handles
       /\ z.pool = IF last THEN final ELSE b.pool
  BY <1>6, <1>7 DEF SystemFields
<1>11. DOMAIN z.pool = DOMAIN x.pool
  BY <1>8, <1>9, <1>10
<1>12. ASSUME last = TRUE PROVE Repooled(rec, z)
  <2>1. z.pool = RestorePool(b.pool, rec.pool)
    BY <1>10, <1>12, <1>e
  <2> QED BY <2>1, <1>9, <1>11 DEF Repooled
<1>13. Restored(x, rec, last) = z
  BY DEF Restored, z, b, a
<1>14. Loaded(x, rec, z)
  BY <1>10, <1>11 DEF Loaded, announce, notice, tasks, handles, links
<1> QED BY <1>12, <1>13, <1>14

(* Tasks come back, and each unit finds the last of its name.              *)
TasksOf(y, z) ==
  /\ DOMAIN z.tasks = DOMAIN y.tasks /\ RecordTasks(z.tasks) = RecordTasks(y.tasks)
  /\ z.tasks \in Seq({z.tasks[i] : i \in DOMAIN z.tasks})
  /\ Names(z) = Names(y) /\ z.handles = [t \in Names(z) |-> z.handles[t]]
  /\ \A t \in Names(z) : Named(z, t) = Named(y, t) /\ HasOf(z, t) = {Max(Named(z, t))}

LEMMA TasksComeBack ==
  ASSUME NEW x, NEW y, NEW n \in Nat, DOMAIN y.tasks = 1 .. n, NEW z,
         z.tasks = RestoreTasks(RecordTasks(y.tasks)), z.handles = Handles(x, z.tasks)
  PROVE  TasksOf(y, z)
<1> DEFINE recs == RecordTasks(y.tasks)
           names == Names(y)
<1>1. DOMAIN recs = 1 .. n /\ \A i \in 1 .. n : recs[i] = RecordTask(y.tasks[i])
  BY DEF RecordTasks
<1>r. recs = [i \in 1 .. n |-> recs[i]]
  BY <1>1 DEF RecordTasks
<1>2. \A i \in 1 .. n : recs[i].name = y.tasks[i].name
  <2>1. \A t : RecordTask(t).name = t.name
    BY DEF RecordTask
  <2> HIDE DEF recs
  <2> QED BY <2>1, <1>1
<1> HIDE DEF recs
<1>3. DOMAIN z.tasks = 1 .. n /\ \A i \in 1 .. n : z.tasks[i] = RestoreTask(recs[i], i)
  BY <1>1 DEF RestoreTasks, recs
<1>t. \A r, i : RestoreTask(r, i).name = r.name /\ RestoreTask(r, i).at = i
  BY DEF RestoreTask
<1>4. \A i \in 1 .. n : z.tasks[i].name = y.tasks[i].name /\ z.tasks[i].at = i
  BY <1>t, <1>2, <1>3
<1>5. \A i \in 1 .. n : RecordTask(z.tasks[i]) = recs[i]
  <2>1. \A t, i : RecordTask(RestoreTask(RecordTask(t), i)) = RecordTask(t)
    BY DEF RestoreTask, RecordTask
  <2> QED BY <2>1, <1>1, <1>3
<1>6. RecordTasks(z.tasks) = recs
  BY <1>r, <1>3, <1>5 DEF RecordTasks
<1>7. Names(z) = names
  BY <1>3, <1>4 DEF Names
<1>8. \A t : Named(z, t) = Named(y, t)
  BY <1>3, <1>4 DEF Named
<1>9. z.handles = [t \in Names(z) |-> z.tasks[Max(Named(z, t))].at]
  BY Zenon DEF Handles, Named, Names
<1>10. ASSUME NEW t \in names
       PROVE  HasOf(z, t) = {Max(Named(z, t))}
  <2>1. Named(z, t) \in SUBSET (1 .. n) /\ Named(z, t) # {}
    BY <1>3, <1>4 DEF Named, Names
  <2>2. Max(Named(z, t)) \in 1 .. n
    BY <2>1, GreatestOfFirst
  <2> DEFINE last == Max(Named(z, t))
  <2>3. z.handles[t] = z.tasks[last].at
    BY <1>7, <1>9
  <2> HIDE DEF last
  <2>4. z.handles[t] = last /\ last \in 1 .. n
    BY <1>4, <2>2, <2>3 DEF last
  <2> QED BY <1>3, <1>4, <2>4 DEF last, HasOf
<1>11. z.handles = [t \in names |-> z.handles[t]] /\ DOMAIN z.handles = names
  BY <1>7, <1>9
<1>12. z.tasks \in Seq({z.tasks[i] : i \in DOMAIN z.tasks})
  <2>1. z.tasks = [i \in 1 .. n |-> RestoreTask(recs[i], i)]
    BY <1>1 DEF RestoreTasks, recs
  <2> QED BY <1>3, <2>1
<1> QED BY <1>3, <1>6, <1>7, <1>8, <1>10, <1>11, <1>12 DEF recs, names, TasksOf

(* What is restored to the last, sprites and all, is what was saved.       *)
Whole(last, z, y) == last = TRUE => Seen(z) = Seen(y)

(* A battle system is on screen and in the simulation what it was.         *)
LEMMA SystemComesBack ==
  ASSUME NEW x, System(x), NEW y, System(y), Alike(x, y), NEW last,
         NEW z, z = Restored(x, Recorded(y), last)
  PROVE  System(z) /\ Alike(x, z) /\ Whole(last, z, y)
<1> DEFINE rec == Recorded(y)
<1>1. /\ rec.own = y.own /\ rec.links = y.links /\ rec.announce = RecordScreen(y.announce)
      /\ rec.notice = RecordScreen(y.notice) /\ rec.pool = RecordPool(y.pool)
      /\ rec.tasks = RecordTasks(y.tasks)
  BY DEF Recorded, RecordSystem, System
<1> HIDE DEF rec
<1>2. Loaded(x, rec, z) /\ (last = TRUE => Repooled(rec, z))
  <2>1. SystemFields(x) /\ x.kind = "system"
    BY DEF System, SystemFields
  <2>2. z = Restored(x, rec, last)
    BY DEF rec
  <2> QED BY <2>1, <2>2, SystemLoaded
<1>3. PICK n \in Nat : DOMAIN y.tasks = 1 .. n
  <2>1. y.tasks \in Seq({y.tasks[i] : i \in DOMAIN y.tasks})
    BY DEF System
  <2> QED BY <2>1
<1>4. TasksOf(y, z)
  <2>1. z.tasks = RestoreTasks(RecordTasks(y.tasks)) /\ z.handles = Handles(x, z.tasks)
    BY <1>1, <1>2 DEF Loaded
  <2> QED BY <2>1, <1>3, TasksComeBack
<1>5. z.announce = y.announce /\ z.notice = y.notice /\ Screen(z.announce) /\ Screen(z.notice)
  BY <1>1, <1>2, ScreenComesBack DEF System, Alike, Loaded
<1>6. /\ Elsewhere(y.links) \in [DOMAIN y.links -> Int]
      /\ Normalized(z.links) = Normalized(y.links) /\ Links(z)
  <2>1. Links(y)
    BY DEF System
  <2>2. /\ Elsewhere(y.links) \in [DOMAIN y.links -> Int]
        /\ Normalized(Elsewhere(y.links)) = Normalized(y.links)
    BY <2>1, ElsewhereIsTheSame
  <2>3. z.links = Elsewhere(y.links)
    BY <1>1, <1>2 DEF Loaded
  <2> QED BY <2>2, <2>3 DEF Links
<1>7. System(z)
  BY <1>2, <1>3, <1>4, <1>5, <1>6 DEF System, SystemFields, Loaded, TasksOf
<1>8. Alike(x, z)
  BY <1>2, <1>5 DEF Alike, Loaded
<1>9. ASSUME last = TRUE PROVE Seen(z) = Seen(y)
  <2>1. RecordPool(z.pool) = RecordPool(y.pool)
    <3>1. PICK pool : DOMAIN pool = DOMAIN z.pool /\ z.pool = RestorePool(pool, rec.pool)
      BY <1>2, <1>9 DEF Repooled
    <3>2. DOMAIN pool = DOMAIN y.pool
      BY <3>1, <1>2 DEF Alike, Loaded
    <3> QED BY <3>1, <3>2, <1>1, SpritesComeBack
  <2> DEFINE holds(s) == [t \in DOMAIN s.handles |-> {i \in DOMAIN s.tasks : s.tasks[i].at = s.handles[t]}]
  <2>2. holds(z) = holds(y)
    <3>1. DOMAIN z.handles = Names(y) /\ DOMAIN y.handles = Names(y)
      BY <1>4 DEF System, TasksOf
    <3>2. \A t \in Names(y) : HasOf(z, t) = HasOf(y, t)
      BY <1>4 DEF System, TasksOf
    <3>3. \A t \in Names(y) : {i \in DOMAIN z.tasks : z.tasks[i].at = z.handles[t]}
                             = {i \in DOMAIN y.tasks : y.tasks[i].at = y.handles[t]}
      BY <3>2, Zenon DEF HasOf
    <3> QED BY <3>1, <3>3
  <2>3. \A s : s.kind = "system" =>
          Seen(s) = <<s.own, Normalized(s.links), s.announce, s.notice, RecordPool(s.pool),
                      RecordTasks(s.tasks), holds(s)>>
    BY DEF Seen
  <2> HIDE DEF holds
  <2>4. y.kind = "system"
    BY DEF System
  <2>5. z.kind = "system" /\ z.own = y.own
    BY <1>1, <1>2 DEF Loaded
  <2> QED BY <2>1, <2>2, <2>3, <2>4, <2>5, <1>4, <1>5, <1>6 DEF TasksOf
<1> QED BY <1>7, <1>8, <1>9 DEF Whole

(* And so is a shadow: the actor is always behind it, and is its own.      *)
LEMMA ShadowComesBack ==
  ASSUME NEW x, Shadow(x), NEW y, Shadow(y), NEW last,
         NEW z, z = Restored(x, Recorded(y), last)
  PROVE  Shadow(z) /\ Seen(z) = Seen(y)
<1> DEFINE rec == Recorded(y)
<1>1. rec.own = y.own /\ rec.links = y.links /\ rec.actor = y.actor
      /\ rec.tail.withActor = TRUE /\ rec.tail.boxes = rec.actor.boxes
  BY DEF Recorded, RecordShadow, GetMementoSize, Shadow
<1> DEFINE links == Elsewhere(rec.links)
           drifted == Drifted(rec.cosmetic)
<1> HIDE DEF rec, links, drifted
<1>2. z = [x EXCEPT !.own = rec.own, !.links = links, !.actor = rec.actor, !.cosmetic = drifted]
  <2>1. z = RestoreShadow(x, rec)
    BY DEF Restored, Shadow, rec
  <2> QED BY <2>1, <1>1 DEF RestoreShadow, links, drifted, Shadow
<1>3. /\ z.kind = "shadow" /\ z.own = y.own /\ z.links = links /\ z.actor = y.actor
      /\ z \in [kind : {z.kind}, own : {z.own}, links : {z.links}, actor : {z.actor},
               cosmetic : {z.cosmetic}, poses : {z.poses}]
  BY <1>1, <1>2 DEF Shadow
<1>4. links \in [DOMAIN y.links -> Int] /\ Normalized(links) = Normalized(y.links)
  BY <1>1, ElsewhereIsTheSame DEF Shadow, links
<1>5. Shadow(z)
  BY <1>3, <1>4 DEF Shadow, Links
<1>6. Seen(z) = Seen(y)
  <2>1. \A s : s.kind = "shadow" => Seen(s) = <<s.own, Normalized(s.links), s.actor>>
    BY DEF Seen
  <2>2. y.kind = "shadow"
    BY DEF Shadow
  <2> QED BY <2>1, <2>2, <1>3, <1>4
<1> QED BY <1>5, <1>6

(* What the objects of a kind have in common.                              *)
Fits(x, kind) ==
  /\ x.kind = kind
  /\ kind = "system" => System(x) /\ \E v \in Values : System(v) /\ Alike(v, x)
  /\ kind = "shadow" => Shadow(x)

LEMMA FitsAgain ==
  ASSUME ValuesFit, NEW kind \in {"system", "shadow"}, NEW x, Fits(x, kind), NEW y, Fits(y, kind),
         NEW last, NEW z, z = Restored(x, Recorded(y), last)
  PROVE  Fits(z, kind) /\ Whole(last, z, y)
<1>1. CASE kind = "system"
  <2>1. System(x) /\ System(y)
    BY <1>1 DEF Fits
  <2>2. PICK v \in Values : System(v) /\ Alike(v, x)
    BY <1>1 DEF Fits
  <2>3. PICK w \in Values : System(w) /\ Alike(w, y)
    BY <1>1 DEF Fits
  <2>4. Alike(v, w)
    BY <2>2, <2>3 DEF ValuesFit
  <2>5. Alike(x, y)
    BY <2>2, <2>3, <2>4 DEF Alike, SameNodes
  <2>6. System(z) /\ Alike(x, z) /\ Whole(last, z, y)
    BY <2>1, <2>5, SystemComesBack
  <2>7. Alike(v, z)
    BY <2>2, <2>6 DEF Alike, SameNodes
  <2> QED BY <1>1, <2>2, <2>6, <2>7 DEF Fits, System
<1>2. CASE kind = "shadow"
  <2>1. Shadow(x) /\ Shadow(y)
    BY <1>2 DEF Fits
  <2>2. Shadow(z) /\ Seen(z) = Seen(y)
    BY <2>1, ShadowComesBack
  <2> QED BY <1>2, <2>2 DEF Fits, Shadow, Whole
<1> QED BY <1>1, <1>2

LEMMA ValueFits ==
  ASSUME ValuesFit, NEW v \in Values, NEW kind, v.kind = kind
  PROVE  Fits(v, kind)
<1>1. v.kind = "flow" \/ System(v) \/ Shadow(v)
  BY DEF ValuesFit
<1>2. Alike(v, v)
  BY DEF Alike, SameNodes
<1> QED BY <1>1, <1>2 DEF Fits, System, Shadow

(* What looks the same records the same, addresses and cosmetic bytes      *)
(* aside, and tells the same of itself.                                    *)
LEMMA SeenTheSame ==
  ASSUME NEW kind \in {"system", "shadow"}, NEW x, Fits(x, kind), NEW y, Fits(y, kind),
         Seen(x) = Seen(y)
  PROVE  /\ x.own = y.own
         /\ Exact(ChecksumNormalized(Recorded(x))) = Exact(ChecksumNormalized(Recorded(y)))
<1> DEFINE holds(s) == [t \in DOMAIN s.handles |-> {i \in DOMAIN s.tasks : s.tasks[i].at = s.handles[t]}]
<1>1. CASE kind = "system"
  <2>1. x.kind = "system" /\ y.kind = "system"
    BY <1>1 DEF Fits
  <2>2. \A s : s.kind = "system" =>
          Seen(s) = <<s.own, Normalized(s.links), s.announce, s.notice, RecordPool(s.pool),
                      RecordTasks(s.tasks), holds(s)>>
    BY DEF Seen
  <2>3. \A s : s.kind = "system" =>
          Exact(ChecksumNormalized(Recorded(s))) =
            [kind |-> "system", own |-> s.own, links |-> Normalized(s.links),
             announce |-> RecordScreen(s.announce), notice |-> RecordScreen(s.notice),
             pool |-> RecordPool(s.pool), tasks |-> RecordTasks(s.tasks)]
    BY DEF Recorded, RecordSystem, ChecksumNormalized, Exact
  <2> HIDE DEF holds
  <2>4. /\ x.own = y.own /\ Normalized(x.links) = Normalized(y.links) /\ x.announce = y.announce
        /\ x.notice = y.notice /\ RecordPool(x.pool) = RecordPool(y.pool)
        /\ RecordTasks(x.tasks) = RecordTasks(y.tasks)
    BY <2>1, <2>2
  <2> QED BY <2>1, <2>3, <2>4
<1>2. CASE kind = "shadow"
  <2>1. x.kind = "shadow" /\ y.kind = "shadow"
    BY <1>2 DEF Fits
  <2>2. \A s : s.kind = "shadow" => Seen(s) = <<s.own, Normalized(s.links), s.actor>>
    BY DEF Seen
  <2> DEFINE tail(s) == [withActor |-> GetMementoSize(s) = GetMementoSize(s), boxes |-> GetMementoSize(s)]
  <2>3. \A s : s.kind = "shadow" =>
          Exact(ChecksumNormalized(Recorded(s))) =
            [kind |-> "shadow", own |-> s.own, links |-> Normalized(s.links),
             tail |-> tail(s), actor |-> s.actor, cosmetic |-> 0]
    <3> HIDE DEF tail
    <3>1. \A s : RecordShadow(s, GetMementoSize(s)) =
                    [kind |-> "shadow", own |-> s.own, links |-> s.links, tail |-> tail(s),
                     actor |-> s.actor, cosmetic |-> s.cosmetic]
      BY Zenon DEF RecordShadow, tail
    <3> SUFFICES ASSUME NEW s, s.kind = "shadow"
                 PROVE  Exact(ChecksumNormalized(Recorded(s))) =
                          [kind |-> "shadow", own |-> s.own, links |-> Normalized(s.links),
                           tail |-> tail(s), actor |-> s.actor, cosmetic |-> 0]
      OBVIOUS
    <3>2. Recorded(s) = [kind |-> "shadow", own |-> s.own, links |-> s.links, tail |-> tail(s),
                         actor |-> s.actor, cosmetic |-> s.cosmetic]
      BY <3>1 DEF Recorded
    <3>3. ChecksumNormalized(Recorded(s)) =
            [kind |-> "shadow", own |-> s.own, links |-> Normalized(s.links), tail |-> tail(s),
             actor |-> s.actor, cosmetic |-> s.cosmetic]
      BY <3>2 DEF ChecksumNormalized
    <3> QED BY <3>3 DEF Exact
  <2>5. x.actor = y.actor => tail(x) = tail(y)
    BY DEF GetMementoSize
  <2> HIDE DEF tail
  <2>4. x.own = y.own /\ Normalized(x.links) = Normalized(y.links) /\ x.actor = y.actor
    BY <2>1, <2>2
  <2> QED BY <2>1, <2>3, <2>4, <2>5
<1> QED BY <1>1, <1>2

-----------------------------------------------------------------------------
(* Objects stay of their kinds.                                            *)

(* K is the kind of each object, in the game and wherever it is saved;     *)
(* whatever key is in a slot has its buffer there, and a slot that is not  *)
(* in use holds nothing.                                                   *)
Shaped(m, K) ==
  /\ K \in [Parts -> {"system", "shadow", "flow"}] /\ \A p \in Parts : K[p] = "flow" <=> p = Globals
  /\ m.state = [p \in Parts |-> m.state[p]] /\ \A p \in Parts : Fits(m.state[p], K[p])
  /\ \A k \in Keys, b \in Buffers : \E y : Fits(y, K[k]) /\ m.content[k][b] = Recorded(y)
  /\ \A s \in Slots :
       /\ \A p \in Parts : Fits(m.saved[s][p], K[p])
       /\ Fits(m.slots[s].d, "flow")
       /\ \A k \in m.slots[s].keys : m.slots[s].held[k] # None
       /\ m.slots[s].used \/ m.slots[s] = Empty

(* There is room, and objects are of their kinds.                          *)
Fit(m) == EnoughHeap /\ ValuesFit /\ \E K : Shaped(m, K)

(* Two states of the battle that these objects and the flow tell nothing   *)
(* apart.                                                                  *)
Agree(A, u, v) == u[Globals] = v[Globals] /\ \A k \in A : Seen(u[k]) = Seen(v[k])

(* An input changes an object into another of its kind.                    *)
Apt(in, K) == in[2].kind = K[in[1]]

(* These inputs, or nothing, leave objects what they are.                  *)
KeptBy(inputs, m, n) ==
  EnoughHeap /\ ValuesFit =>
    \A K : Shaped(m, K) /\ (\A in \in inputs : Apt(in, K)) => Shaped(n, K)

Kept(m, n) == KeptBy({}, m, n)

LEMMA KeptByAll ==
  ASSUME NEW A, NEW B, NEW C, A \subseteq C, B \subseteq C, NEW m, NEW n, NEW r,
         KeptBy(A, m, n), KeptBy(B, n, r)
  PROVE  KeptBy(C, m, r)
BY DEF KeptBy

LEMMA KeptTwice ==
  ASSUME NEW m, NEW n, NEW r, Kept(m, n), Kept(n, r)
  PROVE  Kept(m, r)
BY KeptByAll DEF Kept

(* To forget a slot keeps them, too.                                       *)
LEMMA LessIsKept ==
  ASSUME NEW m, NEW n, n.state = m.state, n.saved = m.saved, n.content = m.content,
         \A s \in Slots : n.slots[s] = m.slots[s] \/ n.slots[s] = Empty
  PROVE  Kept(m, n)
<1>1. Empty.keys = {} /\ Fits(Empty.d, "flow")
  BY DEF Empty, Nothing, Fits
<1> SUFFICES ASSUME NEW K, Shaped(m, K) PROVE Shaped(n, K)
  BY DEF Kept, KeptBy
<1>2. ASSUME NEW s \in Slots
      PROVE  /\ Fits(n.slots[s].d, "flow") /\ \A k \in n.slots[s].keys : n.slots[s].held[k] # None
             /\ n.slots[s].used \/ n.slots[s] = Empty
  BY <1>1 DEF Shaped
<1> QED BY <1>2 DEF Shaped

-----------------------------------------------------------------------------
(* The memory.                                                             *)

SlotTyped(x) ==
  x.used \in BOOLEAN /\ x.keys \subseteq Keys /\ x.held \in [Keys -> Buffers \cup {None}]

(* A memory has its fields; what an object is plays no part.               *)
Fields(m) ==
  m \in [alive : {m.alive}, state : {m.state}, live : {m.live}, tracked : {m.tracked},
         heap : {m.heap}, content : {m.content}, slots : {m.slots}, saved : {m.saved},
         stray : {m.stray}]

Memory(m) ==
  /\ Fields(m)
  /\ m.alive \subseteq Keys /\ m.tracked \subseteq m.alive
  /\ m.live \in [Keys -> Buffers \cup {None}]
  /\ m.heap \in [Keys -> SUBSET Buffers]
  /\ m.slots = [s \in Slots |-> m.slots[s]] /\ m.saved = [s \in Slots |-> m.saved[s]]
  /\ \A s \in Slots : SlotTyped(m.slots[s])

(* The buffers that save states hold for a key.                            *)
InSlots(m, k) == {m.slots[s].held[k] : s \in Slots}

Owned(m, k) ==
  /\ m.heap[k] = ({m.live[k]} \cup InSlots(m, k)) \ {None}
  /\ \A s \in Slots : m.slots[s].held[k] # None =>
       /\ m.slots[s].held[k] # m.live[k]
       /\ \A t \in Slots \ {s} : m.slots[s].held[k] # m.slots[t].held[k]

(* A slot holds what its save state was made of.                           *)
Faithful(m, s) ==
  /\ m.slots[s].used => m.slots[s].d = m.saved[s][Globals]
  /\ \A k \in m.slots[s].keys : m.slots[s].held[k] # None =>
       m.content[k][m.slots[s].held[k]] = Recorded(m.saved[s][k])

(* A slot that is not in use has nothing, and nobody tracks the key of an  *)
(* object that is gone, nor has a buffer without being tracked.            *)
Consistent(m) ==
  /\ Memory(m) /\ ~m.stray
  /\ \A k \in Keys : Owned(m, k) /\ (m.live[k] # None => k \in m.tracked)
  /\ \A s \in Slots :
       /\ Faithful(m, s) /\ m.slots[s].keys \subseteq m.alive
       /\ m.slots[s].used \/ (m.slots[s].keys = {} /\ \A k \in Keys : m.slots[s].held[k] = None)

Used(m) == {s \in Slots : m.slots[s].used}

(* What most operators do to the slots: nothing.                           *)
SameSlots(m, n) == Consistent(n) /\ n.alive = m.alive /\ n.slots = m.slots

LEMMA EvaluatedIsItself ==
  ASSUME NEW m
  PROVE  Evaluated(m) = m
BY DEF Evaluated

(* A buffer that is handed out is a free one.                              *)
LEMMA AllocProperties ==
  ASSUME NEW used
  PROVE  Alloc(used) \in Buffers \cup {None} /\ Alloc(used) \notin used \cap Buffers
<1>1. CASE Buffers \subseteq used
  BY <1>1, ConstantsTyped DEF Alloc
<1>2. CASE ~(Buffers \subseteq used)
  BY <1>2 DEF Alloc
<1> QED BY <1>1, <1>2

(* A buffer that a key gets is not one that a slot holds.                  *)
LEMMA NewBufferProperties ==
  ASSUME NEW m, Consistent(m), NEW k \in Keys
  PROVE  /\ NewBuffer(m, k) \in Buffers \cup {None}
         /\ NewBuffer(m, k) \notin InSlots(m, k) \ {None}
         /\ Release(m, k, m.live[k]) = InSlots(m, k) \ {None}
<1>1. Owned(m, k) /\ m.heap[k] \in SUBSET Buffers
  BY DEF Consistent, Memory
<1>2. Release(m, k, m.live[k]) = InSlots(m, k) \ {None}
  BY <1>1 DEF Owned, Release, InSlots
<1>3. InSlots(m, k) \ {None} \subseteq Buffers
  BY <1>1 DEF Owned
<1> QED BY <1>2, <1>3, AllocProperties DEF NewBuffer

(* A key that needs a buffer gets one.                                     *)
LEMMA BufferLeft ==
  ASSUME EnoughHeap, NEW m, Consistent(m), NEW k \in Keys
  PROVE  NewBuffer(m, k) # None
<1> DEFINE U == InSlots(m, k) \ {None}
           h == [s \in Slots |-> m.slots[s].held[k]]
<1>1. NewBuffer(m, k) = Alloc(U)
  BY NewBufferProperties DEF NewBuffer
<1>2. ASSUME Buffers \subseteq U PROVE FALSE
  <2>1. IsFiniteSet(Slots) /\ Cardinality(Slots) = NUM_SAVE_STATES
    <3>1. NUM_SAVE_STATES \in Nat
      BY ConstantsTyped
    <3> QED BY <3>1, FS_Interval DEF Slots
  <2>2. IsFiniteSet({h[s] : s \in Slots}) /\ Cardinality({h[s] : s \in Slots}) <= Cardinality(Slots)
    <3>1. h \in Surjection(Slots, {h[s] : s \in Slots})
      BY DEF Surjection
    <3> HIDE DEF h
    <3> QED BY <2>1, <3>1, FS_Surjection
  <2>3. Buffers \subseteq {h[s] : s \in Slots}
    BY <1>2 DEF InSlots
  <2>4. IsFiniteSet(Buffers) /\ Cardinality(Buffers) <= Cardinality({h[s] : s \in Slots})
    <3> HIDE DEF h
    <3> QED BY <2>2, <2>3, FS_Subset
  <2>5. Cardinality(Buffers) \in Nat /\ Cardinality({h[s] : s \in Slots}) \in Nat
    <3> HIDE DEF h
    <3> QED BY <2>2, <2>4, FS_CardinalityType
  <2> HIDE DEF h
  <2>6. NUM_SAVE_STATES \in Nat
    BY ConstantsTyped
  <2> QED BY <2>1, <2>2, <2>4, <2>5, <2>6 DEF EnoughHeap
<1>3. Alloc(U) \in Buffers \ U
  BY <1>2 DEF Alloc
<1> QED BY <1>1, <1>3, ConstantsTyped

(* Every object records itself into a buffer that is its key's alone, and  *)
(* the buffers of the slots keep what they hold.                           *)
LEMMA RecordAllProperties ==
  ASSUME NEW m, Consistent(m)
  PROVE  LET n == RecordAll(m) IN
         /\ SameSlots(m, n) /\ n.state = m.state /\ n.saved = m.saved /\ n.tracked = m.alive
         /\ \A k \in m.alive : n.live[k] # None => n.content[k][n.live[k]] = Recorded(m.state[k])
<1> DEFINE n == RecordAll(m)
<1>0. Memory(m) /\ ~m.stray
  BY DEF Consistent
<1>1. /\ n.alive = m.alive /\ n.state = m.state /\ n.slots = m.slots /\ n.saved = m.saved
      /\ n.stray = m.stray /\ n.tracked = m.tracked \cup m.alive
  BY <1>0 DEF Memory, Fields, RecordAll
<1>2. n.live = [k \in Keys |-> IF k \in m.alive THEN NewBuffer(m, k) ELSE m.live[k]]
  BY <1>0 DEF Memory, Fields, RecordAll
<1>3. n.heap = [k \in Keys |-> IF k \in m.alive
                                THEN Release(m, k, m.live[k]) \cup ({NewBuffer(m, k)} \ {None})
                                ELSE m.heap[k]]
  BY <1>0 DEF Memory, Fields, RecordAll
<1>4. n.content = [k \in Keys |-> [b \in Buffers |->
         IF k \in m.alive /\ b = NewBuffer(m, k) THEN Recorded(m.state[k]) ELSE m.content[k][b]]]
  BY <1>0 DEF Memory, Fields, RecordAll
<1>5. Fields(n)
  BY <1>0 DEF Memory, Fields, RecordAll
<1> HIDE DEF n
<1>6. n.tracked = m.alive /\ ~n.stray
  BY <1>0, <1>1 DEF Memory
<1>7. /\ n.live \in [Keys -> Buffers \cup {None}] /\ n.heap \in [Keys -> SUBSET Buffers]
      /\ \A k \in Keys : Owned(n, k) /\ (n.live[k] # None => k \in n.tracked)
  <2>1. ASSUME NEW k \in Keys
        PROVE  /\ n.live[k] \in Buffers \cup {None} /\ n.heap[k] \in SUBSET Buffers
               /\ Owned(n, k) /\ (n.live[k] # None => k \in n.tracked)
    <3>0. InSlots(n, k) = InSlots(m, k) /\ m.live[k] \in Buffers \cup {None} /\ m.heap[k] \subseteq Buffers
      BY <1>0, <1>1 DEF InSlots, Memory
    <3>1. Owned(m, k) /\ (m.live[k] # None => k \in m.tracked)
      BY DEF Consistent
    <3>2. CASE k \in m.alive
      <4>1. n.live[k] = NewBuffer(m, k)
        BY <3>2, <1>2
      <4>2. n.heap[k] = (InSlots(m, k) \ {None}) \cup ({NewBuffer(m, k)} \ {None})
        BY <3>2, <1>3, NewBufferProperties
      <4>3. n.live[k] \notin InSlots(m, k) \ {None} /\ n.live[k] \in Buffers \cup {None}
        BY <4>1, NewBufferProperties
      <4>4. InSlots(m, k) \ {None} \subseteq Buffers
        BY <3>1, <3>0 DEF Owned
      <4> QED BY <4>1, <4>2, <4>3, <4>4, <3>0, <3>1, <3>2, <1>1, <1>6 DEF Owned, InSlots
    <3>3. CASE k \notin m.alive
      <4>1. n.live[k] = m.live[k] /\ n.heap[k] = m.heap[k]
        BY <3>3, <1>2, <1>3
      <4> QED BY <4>1, <3>0, <3>1, <3>3, <1>1 DEF Owned
    <3> QED BY <3>2, <3>3
  <2> QED BY <2>1, <1>2, <1>3
<1>8. Memory(n)
  BY <1>0, <1>1, <1>5, <1>6, <1>7 DEF Memory
<1>9. ASSUME NEW s \in Slots PROVE Faithful(n, s)
  <2>1. Faithful(m, s) /\ SlotTyped(m.slots[s])
    BY <1>0 DEF Consistent, Memory
  <2>2. ASSUME NEW k \in m.slots[s].keys, m.slots[s].held[k] # None
        PROVE  n.content[k][m.slots[s].held[k]] = Recorded(m.saved[s][k])
    <3>1. k \in Keys /\ m.slots[s].held[k] \in Buffers
      BY <2>1, <2>2 DEF SlotTyped
    <3>2. m.slots[s].held[k] # NewBuffer(m, k)
      BY <3>1, <2>2, NewBufferProperties DEF InSlots
    <3> QED BY <3>1, <3>2, <2>1, <2>2, <1>4 DEF Faithful
  <2> QED BY <2>1, <2>2, <1>1 DEF Faithful
<1>10. SameSlots(m, n)
  BY <1>1, <1>6, <1>7, <1>8, <1>9 DEF SameSlots, Consistent
<1>11. ASSUME NEW k \in m.alive, n.live[k] # None
       PROVE  n.content[k][n.live[k]] = Recorded(m.state[k])
  <2>1. k \in Keys /\ n.live[k] = NewBuffer(m, k)
    BY <1>0, <1>2 DEF Memory
  <2>2. n.live[k] \in Buffers
    BY <2>1, <1>11, <1>7
  <2> QED BY <2>1, <2>2, <1>4
<1> QED BY <1>1, <1>6, <1>10, <1>11 DEF n

LEMMA RecordAllKept ==
  ASSUME NEW m, Consistent(m)
  PROVE  /\ Kept(m, RecordAll(m))
         /\ EnoughHeap => \A k \in m.alive : RecordAll(m).live[k] # None
<1> DEFINE n == RecordAll(m)
<1>0. Memory(m)
  BY DEF Consistent
<1>1. n.state = m.state /\ n.slots = m.slots /\ n.saved = m.saved
  BY RecordAllProperties DEF SameSlots
<1>2. n.live = [k \in Keys |-> IF k \in m.alive THEN NewBuffer(m, k) ELSE m.live[k]]
  BY <1>0 DEF Memory, Fields, RecordAll
<1>3. n.content = [k \in Keys |-> [b \in Buffers |->
         IF k \in m.alive /\ b = NewBuffer(m, k) THEN Recorded(m.state[k]) ELSE m.content[k][b]]]
  BY <1>0 DEF Memory, Fields, RecordAll
<1> HIDE DEF n
<1>4. ASSUME EnoughHeap PROVE \A k \in m.alive : n.live[k] # None
  BY <1>0, <1>2, <1>4, BufferLeft DEF Memory
<1>5. ASSUME NEW K, Shaped(m, K) PROVE Shaped(n, K)
  <2>1. ASSUME NEW k \in Keys, NEW b \in Buffers
        PROVE  \E y : Fits(y, K[k]) /\ n.content[k][b] = Recorded(y)
    <3>1. n.content[k][b] = Recorded(m.state[k]) \/ n.content[k][b] = m.content[k][b]
      BY <1>3
    <3>2. Fits(m.state[k], K[k])
      BY <1>5 DEF Shaped, Parts
    <3>3. \E y : Fits(y, K[k]) /\ m.content[k][b] = Recorded(y)
      BY <1>5 DEF Shaped
    <3> QED BY <3>1, <3>2, <3>3
  <2> QED BY <2>1, <1>1, <1>5 DEF Shaped
<1> QED BY <1>4, <1>5 DEF n, Kept, KeptBy

(* The buffers move into a slot that held nothing, and with them goes what *)
(* the battle was.                                                         *)
LEMMA MovedProperties ==
  ASSUME NEW m, Consistent(m), NEW s \in Slots, ~m.slots[s].used, m.tracked = m.alive,
         \A k \in m.alive : m.live[k] # None => m.content[k][m.live[k]] = Recorded(m.state[k])
  PROVE  LET n == Moved(m, s) IN
         Consistent(n) /\ n.alive = m.alive /\ Used(n) = Used(m) \cup {s}
<1> DEFINE n == Moved(m, s)
           held == [k \in Keys |-> IF k \in m.tracked THEN m.live[k] ELSE None]
           slot == [used |-> TRUE, keys |-> m.tracked, held |-> held, d |-> m.state[Globals]]
<1>0. Memory(m) /\ ~m.stray
  BY DEF Consistent
<1>1. /\ n.alive = m.alive /\ n.heap = m.heap /\ n.content = m.content /\ n.tracked = m.tracked
      /\ n.stray = m.stray /\ n.state = m.state /\ Fields(n)
  BY <1>0 DEF Memory, Moved, Fields
<1>2. n.slots = [m.slots EXCEPT ![s] = slot] /\ n.saved = [m.saved EXCEPT ![s] = m.state]
  BY <1>0 DEF Memory, Fields, Moved
<1>3. n.live = [k \in Keys |-> IF k \in m.tracked THEN None ELSE m.live[k]]
  BY <1>0 DEF Memory, Fields, Moved
<1>4. /\ slot.used = TRUE /\ slot.keys = m.tracked /\ slot.held = held /\ slot.d = m.state[Globals]
      /\ \A k \in Keys : held[k] = IF k \in m.tracked THEN m.live[k] ELSE None
  OBVIOUS
<1>5. SlotTyped(slot)
  BY <1>0, <1>4 DEF SlotTyped, Memory
<1> HIDE DEF n, slot, held
<1>6. \A t \in Slots : /\ n.slots[t] = IF t = s THEN slot ELSE m.slots[t]
                       /\ n.saved[t] = IF t = s THEN m.state ELSE m.saved[t]
  BY <1>0, <1>2 DEF Memory
<1>7. n.slots = [t \in Slots |-> n.slots[t]] /\ n.saved = [t \in Slots |-> n.saved[t]]
  BY <1>0, <1>2 DEF Memory
<1>8. Memory(n)
  <2>1. \A t \in Slots : SlotTyped(n.slots[t])
    BY <1>0, <1>5, <1>6 DEF Memory
  <2>2. n.live \in [Keys -> Buffers \cup {None}]
    BY <1>0, <1>3 DEF Memory
  <2> QED BY <2>1, <2>2, <1>0, <1>1, <1>7 DEF Memory, Fields
<1>9. ASSUME NEW k \in Keys PROVE Owned(n, k) /\ (n.live[k] # None => k \in n.tracked)
  <2>1. Owned(m, k) /\ (m.live[k] # None => k \in m.tracked) /\ m.slots[s].held[k] = None
    BY DEF Consistent
  <2>2. n.live[k] = None /\ held[k] = m.live[k]
    BY <2>1, <1>3, <1>4
  <2>3. InSlots(n, k) \ {None} = (InSlots(m, k) \cup {m.live[k]}) \ {None}
    BY <2>1, <2>2, <1>4, <1>6 DEF InSlots
  <2>4. n.heap[k] = ({n.live[k]} \cup InSlots(n, k)) \ {None}
    BY <2>1, <2>2, <2>3, <1>1 DEF Owned
  <2>5. \A t \in Slots : n.slots[t].held[k] = IF t = s THEN m.live[k] ELSE m.slots[t].held[k]
    BY <2>2, <1>4, <1>6
  <2>6. ASSUME NEW t \in Slots, n.slots[t].held[k] # None, NEW u \in Slots \ {t}
        PROVE  n.slots[t].held[k] # n.slots[u].held[k]
    BY <2>1, <2>5, <2>6 DEF Owned
  <2> QED BY <2>1, <2>2, <2>4, <2>6 DEF Owned
<1>10. ASSUME NEW t \in Slots
       PROVE  /\ Faithful(n, t) /\ n.slots[t].keys \subseteq n.alive
              /\ n.slots[t].used \/ (n.slots[t].keys = {} /\ \A k \in Keys : n.slots[t].held[k] = None)
  <2>1. CASE t = s
    <3>1. n.slots[t] = slot /\ n.saved[t] = m.state
      BY <2>1, <1>6
    <3>2. \A k \in m.tracked : held[k] # None => m.content[k][held[k]] = Recorded(m.state[k])
      BY <1>0, <1>4 DEF Memory
    <3> QED BY <3>1, <3>2, <1>1, <1>4 DEF Faithful
  <2>2. CASE t # s
    <3>1. n.slots[t] = m.slots[t] /\ n.saved[t] = m.saved[t]
      BY <2>2, <1>6
    <3> QED BY <3>1, <1>1 DEF Faithful, Consistent
  <2> QED BY <2>1, <2>2
<1>11. Consistent(n)
  BY <1>0, <1>1, <1>8, <1>9, <1>10 DEF Consistent
<1>12. Used(n) = Used(m) \cup {s}
  BY <1>4, <1>6 DEF Used
<1> QED BY <1>1, <1>11, <1>12 DEF n

LEMMA MovedKept ==
  ASSUME NEW m, Consistent(m), NEW s \in Slots, m.tracked = m.alive,
         EnoughHeap => \A k \in m.alive : m.live[k] # None
  PROVE  Kept(m, Moved(m, s))
<1> DEFINE n == Moved(m, s)
           held == [k \in Keys |-> IF k \in m.tracked THEN m.live[k] ELSE None]
           slot == [used |-> TRUE, keys |-> m.tracked, held |-> held, d |-> m.state[Globals]]
<1>0. Memory(m)
  BY DEF Consistent
<1>1. /\ n.content = m.content /\ n.state = m.state
      /\ n.slots = [m.slots EXCEPT ![s] = slot] /\ n.saved = [m.saved EXCEPT ![s] = m.state]
  BY <1>0 DEF Memory, Fields, Moved
<1>2. /\ slot.used /\ slot.keys = m.tracked /\ slot.held = held /\ slot.d = m.state[Globals]
      /\ \A k \in Keys : held[k] = IF k \in m.tracked THEN m.live[k] ELSE None
  OBVIOUS
<1> HIDE DEF n, slot, held
<1>3. \A t \in Slots : /\ n.slots[t] = IF t = s THEN slot ELSE m.slots[t]
                       /\ n.saved[t] = IF t = s THEN m.state ELSE m.saved[t]
  BY <1>0, <1>1 DEF Memory
<1>4. ASSUME EnoughHeap, NEW K, Shaped(m, K) PROVE Shaped(n, K)
  <2>1. ASSUME NEW t \in Slots
        PROVE  /\ \A p \in Parts : Fits(n.saved[t][p], K[p])
               /\ Fits(n.slots[t].d, "flow")
               /\ \A k \in n.slots[t].keys : n.slots[t].held[k] # None
               /\ n.slots[t].used \/ n.slots[t] = Empty
    <3>1. CASE t = s
      <4>1. Globals \in Parts /\ Fits(m.state[Globals], K[Globals]) /\ K[Globals] = "flow"
        BY <1>4 DEF Shaped, Parts
      <4>2. m.tracked \subseteq Keys /\ m.tracked = m.alive
        BY <1>0 DEF Memory
      <4> QED BY <3>1, <4>1, <4>2, <1>2, <1>3, <1>4 DEF Shaped
    <3>2. CASE t # s
      BY <3>2, <1>3, <1>4 DEF Shaped
    <3> QED BY <3>1, <3>2
  <2> QED BY <2>1, <1>1, <1>4 DEF Shaped
<1> QED BY <1>4 DEF n, Kept, KeptBy

(* A save takes one slot that was not in use.                              *)
LEMMA SaveProperties ==
  ASSUME NEW m, Consistent(m), NEW s \in Slots \ Used(m)
  PROVE  LET n == Save(m, s) IN
         Consistent(n) /\ n.alive = m.alive /\ Used(n) = Used(m) \cup {s}
<1> DEFINE r == RecordAll(m)
<1>1. /\ Consistent(r) /\ r.alive = m.alive /\ r.slots = m.slots /\ r.state = m.state
      /\ r.tracked = r.alive
      /\ \A k \in r.alive : r.live[k] # None => r.content[k][r.live[k]] = Recorded(r.state[k])
  BY RecordAllProperties DEF SameSlots
<1>2. Save(m, s) = Moved(r, s)
  BY EvaluatedIsItself DEF Save
<1> HIDE DEF r
<1>3. ~m.slots[s].used
  BY DEF Used
<1>4. Used(r) = Used(m)
  BY <1>1, Zenon DEF Used
<1>5. ~r.slots[s].used
  BY <1>1, <1>3
<1>6. Consistent(Moved(r, s)) /\ Moved(r, s).alive = r.alive /\ Used(Moved(r, s)) = Used(r) \cup {s}
  BY <1>1, <1>5, MovedProperties, Zenon
<1> QED BY <1>1, <1>2, <1>4, <1>6, Zenon


(* It holds what the battle is, and the other slots what they held.        *)
LEMMA SaveDoes ==
  ASSUME NEW m, Consistent(m), NEW s \in Slots, NEW n, n = Save(m, s)
  PROVE  /\ n.state = m.state /\ n.saved[s] = m.state /\ n.slots[s].keys = m.alive /\ n.slots[s].used
         /\ \A t \in Slots \ {s} : n.slots[t] = m.slots[t] /\ n.saved[t] = m.saved[t]
<1> DEFINE r == RecordAll(m)
           held == [k \in Keys |-> IF k \in r.tracked THEN r.live[k] ELSE None]
           slot == [used |-> TRUE, keys |-> r.tracked, held |-> held, d |-> r.state[Globals]]
<1>1. /\ Consistent(r) /\ r.slots = m.slots /\ r.state = m.state /\ r.saved = m.saved
      /\ r.tracked = m.alive
  BY RecordAllProperties DEF SameSlots
<1>2. n = Moved(r, s)
  BY EvaluatedIsItself DEF Save
<1> HIDE DEF r
<1>3. Fields(r) /\ r.slots = [t \in Slots |-> r.slots[t]] /\ r.saved = [t \in Slots |-> r.saved[t]]
  BY <1>1 DEF Consistent, Memory
<1>4. /\ n.state = r.state /\ n.slots = [r.slots EXCEPT ![s] = slot]
      /\ n.saved = [r.saved EXCEPT ![s] = r.state]
  BY <1>2, <1>3 DEF Fields, Moved
<1>5. slot.keys = r.tracked /\ slot.used
  OBVIOUS
<1> HIDE DEF slot
<1> QED BY <1>1, <1>3, <1>4, <1>5

(* It keeps objects what they are.                                         *)
LEMMA SaveKept ==
  ASSUME NEW m, Consistent(m), NEW s \in Slots
  PROVE  Kept(m, Save(m, s))
<1> DEFINE r == RecordAll(m)
<1>1. Consistent(r) /\ r.tracked = r.alive /\ r.alive = m.alive
  BY RecordAllProperties DEF SameSlots
<1>2. Kept(m, r) /\ (EnoughHeap => \A k \in m.alive : r.live[k] # None)
  BY RecordAllKept
<1>3. Save(m, s) = Moved(r, s)
  BY EvaluatedIsItself DEF Save
<1> HIDE DEF r
<1>4. Kept(r, Moved(r, s))
  BY <1>1, <1>2, MovedKept
<1> QED BY <1>2, <1>3, <1>4, KeptTwice

(* Objects that read their keys change their states, and nothing else.     *)
Same(m, n) ==
  /\ Fields(n) /\ n.alive = m.alive /\ n.live = m.live /\ n.tracked = m.tracked
  /\ n.heap = m.heap /\ n.content = m.content /\ n.slots = m.slots /\ n.saved = m.saved
  /\ n.stray = m.stray

LEMMA RestoreAllProperties ==
  ASSUME NEW m, Fields(m), NEW keys, NEW last
  PROVE  Same(m, RestoreAll(m, keys, last))
BY DEF RestoreAll, Fields, Same

(* Objects that read buffers of their own are of their kinds again.        *)
LEMMA RestoreAllKept ==
  ASSUME NEW m, Fields(m), m.alive \subseteq Keys, NEW keys \in [Keys -> Buffers \cup {None}], NEW last
  PROVE  Kept(m, RestoreAll(m, keys, last))
<1> DEFINE n == RestoreAll(m, keys, last)
<1>1. Same(m, n)
  BY RestoreAllProperties
<1>2. n.state = [p \in Parts |-> IF p \in m.alive /\ keys[p] # None
                                 THEN Restored(m.state[p], m.content[p][keys[p]], last) ELSE m.state[p]]
  BY DEF RestoreAll, Fields
<1> HIDE DEF n
<1>3. ASSUME ValuesFit, NEW K, Shaped(m, K) PROVE Shaped(n, K)
  <2>1. ASSUME NEW p \in Parts PROVE Fits(n.state[p], K[p])
    <3>1. Fits(m.state[p], K[p])
      BY <1>3 DEF Shaped
    <3>2. CASE p \in m.alive /\ keys[p] # None
      <4>1. p \in Keys /\ keys[p] \in Buffers /\ p # Globals
        BY <3>2, SaveStatesAssumption
      <4>2. PICK y : Fits(y, K[p]) /\ m.content[p][keys[p]] = Recorded(y)
        BY <4>1, <1>3 DEF Shaped
      <4>3. K[p] \in {"system", "shadow"}
        BY <4>1, <1>3 DEF Shaped
      <4>4. n.state[p] = Restored(m.state[p], Recorded(y), last)
        BY <3>2, <4>2, <1>2
      <4> QED BY <3>1, <4>2, <4>3, <4>4, <1>3, FitsAgain
    <3>3. CASE ~(p \in m.alive /\ keys[p] # None)
      BY <3>1, <3>3, <1>2
    <3> QED BY <3>2, <3>3
  <2>2. n.state = [p \in Parts |-> n.state[p]]
    BY <1>2
  <2> QED BY <2>1, <2>2, <1>1, <1>3 DEF Shaped, Same
<1> QED BY <1>3 DEF n, Kept, KeptBy

LEMMA CopyIntoPlaceProperties ==
  ASSUME NEW m, Fields(m), NEW s, NEW keys, NEW last
  PROVE  Same(m, CopyIntoPlace(m, s, keys, last))
<1> DEFINE x == [m EXCEPT !.state[Globals] = m.slots[s].d]
<1>1. Same(m, x)
  BY DEF Fields, Same
<1>2. CopyIntoPlace(m, s, keys, last) = RestoreAll(x, keys, last)
  BY DEF CopyIntoPlace
<1> HIDE DEF x
<1>3. Same(x, RestoreAll(x, keys, last))
  BY <1>1, RestoreAllProperties DEF Same
<1> QED BY <1>1, <1>2, <1>3 DEF Same

(* A load leaves the slots, the heap and the live keys alone.              *)
LEMMA LoadProperties ==
  ASSUME NEW m, Consistent(m), NEW s \in Slots, NEW last
  PROVE  SameSlots(m, LoadWith(m, s, last))
<1> DEFINE n == LoadWith(m, s, last)
           zeroed == [k \in Keys |-> IF k \in m.tracked THEN None ELSE m.live[k]]
           injected == [k \in Keys |-> IF k \in m.slots[s].keys THEN m.slots[s].held[k] ELSE zeroed[k]]
           x == CopyIntoPlace(m, s, injected, last)
           live == [k \in Keys |-> IF k \in m.tracked THEN m.live[k]
                                   ELSE IF k \in m.slots[s].keys THEN None ELSE m.live[k]]
<1>0. Memory(m) /\ ~m.stray /\ m.slots[s].keys \subseteq m.alive /\ Fields(m)
  BY DEF Consistent, Memory, Fields
<1>a. Same(m, x)
  BY <1>0, CopyIntoPlaceProperties
<1>b. n = [x EXCEPT !.live = live, !.stray = @ \/ ~(m.slots[s].keys \subseteq m.alive)]
  BY EvaluatedIsItself DEF LoadWith
<1> HIDE DEF n, x, injected, live
<1>1. /\ n.alive = m.alive /\ n.heap = m.heap /\ n.content = m.content /\ n.tracked = m.tracked
      /\ n.slots = m.slots /\ n.saved = m.saved /\ Fields(n)
  BY <1>a, <1>b DEF Same, Fields
<1>c. ~n.stray
  BY <1>0, <1>a, <1>b DEF Same, Fields
<1>2. n.live = [k \in Keys |-> IF k \in m.tracked THEN m.live[k]
                               ELSE IF k \in m.slots[s].keys THEN None ELSE m.live[k]]
  BY <1>a, <1>b DEF Same, Fields, live
<1> HIDE DEF n
<1>3. n.live = m.live
  BY <1>0, <1>2 DEF Memory, Consistent
<1>4. Memory(n)
  BY <1>0, <1>1, <1>3 DEF Memory, Fields
<1>5. \A k \in Keys : Owned(n, k) /\ (n.live[k] # None => k \in n.tracked)
  BY <1>1, <1>3 DEF Consistent, Owned, InSlots
<1>6. \A t \in Slots : Faithful(n, t)
  BY <1>1 DEF Consistent, Faithful
<1>7. Consistent(n)
  BY <1>0, <1>1, <1>c, <1>4, <1>5, <1>6 DEF Consistent
<1> QED BY <1>1, <1>7 DEF SameSlots, n

(* What these objects and the flow are not stays what it is.               *)
Others(A, u, v) == \A p \in Parts \ (A \cup {Globals}) : u[p] = v[p]

(* A load keeps them, brings back what was saved, and leaves the game's    *)
(* own mementos alone.                                                     *)
Brought(m, s, last, n) ==
  Fit(m) => /\ Others(m.alive, n.state, m.state)
            /\ m.slots[s].used /\ last = TRUE => Agree(m.slots[s].keys, n.state, m.saved[s])

LEMMA LoadKept ==
  ASSUME NEW m, Consistent(m), NEW s \in Slots, NEW last, NEW n, n = LoadWith(m, s, last)
  PROVE  /\ Kept(m, n) /\ n.live = m.live /\ Brought(m, s, last, n)
         /\ n.slots = m.slots /\ n.saved = m.saved
<1> DEFINE zeroed == [k \in Keys |-> IF k \in m.tracked THEN None ELSE m.live[k]]
           injected == [k \in Keys |-> IF k \in m.slots[s].keys THEN m.slots[s].held[k] ELSE zeroed[k]]
           x == [m EXCEPT !.state[Globals] = m.slots[s].d]
           y == RestoreAll(x, injected, last)
           live == [k \in Keys |-> IF k \in m.tracked THEN m.live[k]
                                   ELSE IF k \in m.slots[s].keys THEN None ELSE m.live[k]]
<1>0. Memory(m) /\ m.slots[s].keys \subseteq m.alive /\ Fields(m) /\ m.alive \subseteq Keys
  BY DEF Consistent, Memory
<1>1. n = [y EXCEPT !.live = live, !.stray = @ \/ ~(m.slots[s].keys \subseteq m.alive)]
  BY EvaluatedIsItself DEF LoadWith, CopyIntoPlace
<1>2. Same(m, x) /\ x.state = [m.state EXCEPT ![Globals] = m.slots[s].d]
  BY <1>0 DEF Fields, Same
<1>3. /\ injected \in [Keys -> Buffers \cup {None}]
      /\ \A k \in m.slots[s].keys : injected[k] = m.slots[s].held[k]
  BY <1>0 DEF Memory, SlotTyped
<1>4. live = m.live
  BY <1>0 DEF Memory, Consistent
<1> HIDE DEF x, injected, live
<1>5. Same(x, y) /\ Kept(x, y)
  <2>1. Fields(x) /\ x.alive \subseteq Keys
    BY <1>0, <1>2 DEF Same
  <2> QED BY <2>1, <1>3, RestoreAllProperties, RestoreAllKept
<1>6. y.state = [p \in Parts |-> IF p \in x.alive /\ injected[p] # None
                                 THEN Restored(x.state[p], x.content[p][injected[p]], last) ELSE x.state[p]]
  BY <1>2 DEF Same, RestoreAll, Fields
<1> HIDE DEF y
<1>7. n.state = y.state /\ n.saved = y.saved /\ n.content = y.content /\ n.slots = y.slots /\ n.live = m.live
  BY <1>1, <1>4, <1>5 DEF Same, Fields
<1>8. ASSUME NEW K, Shaped(m, K) PROVE Shaped(x, K)
  <2>1. \A p \in Parts : x.state[p] = IF p = Globals THEN m.slots[s].d ELSE m.state[p]
    BY <1>2, <1>8 DEF Shaped
  <2>2. x.state = [p \in Parts |-> x.state[p]]
    BY <1>2, <1>8 DEF Shaped
  <2>3. \A p \in Parts : Fits(x.state[p], K[p])
    BY <2>1, <1>8 DEF Shaped
  <2> QED BY <2>2, <2>3, <1>2, <1>8 DEF Shaped, Same
<1>9. Kept(m, n)
  <2>1. Kept(m, x)
    BY <1>8 DEF Kept, KeptBy
  <2>2. Kept(y, n)
    BY <1>7, LessIsKept
  <2> QED BY <2>1, <2>2, <1>5, KeptTwice
<1>10. ASSUME Fit(m) PROVE Others(m.alive, n.state, m.state)
  <2>1. PICK K : Shaped(m, K)
    BY <1>10 DEF Fit
  <2>2. ASSUME NEW p \in Parts \ (m.alive \cup {Globals}) PROVE n.state[p] = m.state[p]
    <3>1. n.state[p] = x.state[p]
      BY <2>2, <1>2, <1>6, <1>7 DEF Same
    <3>2. x.state[p] = m.state[p]
      BY <2>1, <2>2, <1>2 DEF Shaped
    <3> QED BY <3>1, <3>2
  <2> QED BY <2>2 DEF Others
<1>11. ASSUME Fit(m), m.slots[s].used, last = TRUE PROVE Agree(m.slots[s].keys, n.state, m.saved[s])
  <2>0. PICK K : Shaped(m, K)
    BY <1>11 DEF Fit
  <2>1. n.state[Globals] = m.saved[s][Globals]
    <3>1. Globals \in Parts /\ Globals \notin x.alive
      BY <1>0, <1>2, SaveStatesAssumption DEF Same, Parts
    <3>2. n.state[Globals] = x.state[Globals]
      BY <3>1, <1>6, <1>7
    <3>3. x.state[Globals] = m.slots[s].d
      BY <2>0, <3>1, <1>2 DEF Shaped
    <3>4. m.slots[s].d = m.saved[s][Globals]
      BY <1>11 DEF Consistent, Faithful
    <3> QED BY <3>2, <3>3, <3>4
  <2>2. ASSUME NEW p \in m.slots[s].keys PROVE Seen(n.state[p]) = Seen(m.saved[s][p])
    <3> DEFINE b == m.slots[s].held[p]
               was == m.saved[s][p]
    <3>1. p \in Keys /\ p \in x.alive /\ p \in Parts /\ p # Globals
      BY <2>2, <1>0, <1>2, SaveStatesAssumption DEF Same, Parts
    <3>2. b # None /\ injected[p] = b
      BY <2>0, <2>2, <1>3 DEF Shaped
    <3>3. x.content[p][b] = Recorded(was)
      BY <2>2, <3>2, <1>2 DEF Consistent, Faithful, Same
    <3>4. n.state[p] = Restored(x.state[p], Recorded(was), last)
      BY <3>1, <3>2, <3>3, <1>6, <1>7
    <3>5. /\ Fits(x.state[p], K[p]) /\ Fits(was, K[p]) /\ K[p] \in {"system", "shadow"}
      <4>1. Shaped(x, K)
        BY <2>0, <1>8
      <4> QED BY <2>0, <3>1, <4>1 DEF Shaped
    <3> HIDE DEF was
    <3>6. Whole(last, n.state[p], was)
      BY <3>4, <3>5, <1>11, FitsAgain DEF Fit
    <3> QED BY <3>6, <1>11 DEF was, Whole
  <2> QED BY <2>1, <2>2 DEF Agree
<1>12. n.slots = m.slots /\ n.saved = m.saved
  BY <1>2, <1>5, <1>7 DEF Same
<1> QED BY <1>7, <1>9, <1>10, <1>11, <1>12 DEF Brought

(* Releasing what some slots hold releases nothing that anybody else has.  *)
LEMMA FreeProperties ==
  ASSUME NEW m, Consistent(m), NEW S \in SUBSET Slots
  PROVE  LET n == FreeSlots(m, S) IN
         Consistent(n) /\ n.alive = m.alive /\ Used(n) = Used(m) \ S
<1> DEFINE n == FreeSlots(m, S)
<1>0. Memory(m) /\ ~m.stray
  BY DEF Consistent
<1>1. /\ n.alive = m.alive /\ n.live = m.live /\ n.content = m.content /\ n.tracked = m.tracked
      /\ n.saved = m.saved /\ Fields(n)
  BY <1>0 DEF Memory, FreeSlots, Fields
<1>2. n.slots = [s \in Slots |-> IF s \in S THEN Empty ELSE m.slots[s]]
  BY <1>0 DEF Memory, Fields, FreeSlots
<1>3. n.heap = [k \in Keys |-> m.heap[k] \ {m.slots[s].held[k] : s \in S}]
  BY <1>0 DEF Memory, Fields, FreeSlots
<1>4. ~n.stray
  <2>1. \A s \in S : m.slots[s].keys \subseteq m.alive
    BY DEF Consistent
  <2> QED BY <2>1, <1>0 DEF Memory, Fields, FreeSlots
<1>5. /\ ~Empty.used /\ Empty.keys = {} /\ \A k \in Keys : Empty.held[k] = None
      /\ SlotTyped(Empty)
  BY DEF Empty, SlotTyped
<1> HIDE DEF n
<1>6. Memory(n)
  <2>1. \A s \in Slots : SlotTyped(n.slots[s])
    BY <1>0, <1>2, <1>5 DEF Memory
  <2>2. n.slots = [s \in Slots |-> n.slots[s]]
    BY <1>2
  <2>3. n.heap \in [Keys -> SUBSET Buffers]
    BY <1>0, <1>3 DEF Memory
  <2> QED BY <2>1, <2>2, <2>3, <1>0, <1>1 DEF Memory, Fields
<1>7. ASSUME NEW k \in Keys PROVE Owned(n, k) /\ (n.live[k] # None => k \in n.tracked)
  <2>1. Owned(m, k) /\ (m.live[k] # None => k \in m.tracked)
    BY DEF Consistent
  <2>2. \A s \in Slots : n.slots[s].held[k] = IF s \in S THEN None ELSE m.slots[s].held[k]
    BY <1>2, <1>5
  <2>3. n.heap[k] = ({n.live[k]} \cup InSlots(n, k)) \ {None}
    BY <2>1, <2>2, <1>1, <1>3 DEF Owned, InSlots
  <2> QED BY <2>1, <2>2, <2>3, <1>1 DEF Owned
<1>8. ASSUME NEW s \in Slots
      PROVE  /\ Faithful(n, s) /\ n.slots[s].keys \subseteq n.alive
             /\ n.slots[s].used \/ (n.slots[s].keys = {} /\ \A k \in Keys : n.slots[s].held[k] = None)
  BY <1>1, <1>2, <1>5 DEF Faithful, Consistent
<1>9. Consistent(n)
  BY <1>1, <1>4, <1>6, <1>7, <1>8 DEF Consistent
<1>10. Used(n) = Used(m) \ S
  BY <1>2, <1>5 DEF Used
<1> QED BY <1>1, <1>9, <1>10 DEF n


LEMMA FreeKept ==
  ASSUME NEW m, Consistent(m), NEW S
  PROVE  Kept(m, FreeSlots(m, S))
<1> DEFINE n == FreeSlots(m, S)
<1>1. Fields(m)
  BY DEF Consistent, Memory
<1>2. /\ n.state = m.state /\ n.saved = m.saved /\ n.content = m.content
      /\ n.slots = [s \in Slots |-> IF s \in S THEN Empty ELSE m.slots[s]]
  BY <1>1 DEF Fields, FreeSlots
<1> HIDE DEF n
<1>3. \A s \in Slots : n.slots[s] = m.slots[s] \/ n.slots[s] = Empty
  BY <1>2
<1> QED BY <1>2, <1>3, LessIsKept DEF n

(* An object that changes, or that is made.                                *)
LEMMA SimulatedProperties ==
  ASSUME NEW m, Consistent(m), NEW p \in Parts, NEW v
  PROVE  LET n == Simulated(m, p, v) IN
         /\ Consistent(n) /\ n.slots = m.slots /\ p \in n.alive \cup {Globals}
         /\ n.state = [m.state EXCEPT ![p] = v] /\ n.saved = m.saved
         /\ p \in m.alive \cup {Globals} => n.alive = m.alive
<1> DEFINE n == Simulated(m, p, v)
<1>0. Memory(m) /\ ~m.stray
  BY DEF Consistent
<1>1. /\ n.live = m.live /\ n.tracked = m.tracked /\ n.heap = m.heap /\ n.content = m.content
      /\ n.slots = m.slots /\ n.saved = m.saved /\ n.stray = m.stray /\ Fields(n)
      /\ n.alive = m.alive \cup ({p} \ {Globals}) /\ n.state = [m.state EXCEPT ![p] = v]
  BY <1>0 DEF Memory, Fields, Simulated
<1> HIDE DEF n
<1>2. n.alive \subseteq Keys /\ m.alive \subseteq n.alive
  BY <1>0, <1>1 DEF Memory, Parts
<1>3. Memory(n)
  BY <1>0, <1>1, <1>2 DEF Memory
<1>4. \A k \in Keys : Owned(n, k) /\ (n.live[k] # None => k \in n.tracked)
  BY <1>1 DEF Consistent, Owned, InSlots
<1>5. \A t \in Slots : Faithful(n, t)
  BY <1>1 DEF Consistent, Faithful
<1>6. Consistent(n)
  BY <1>0, <1>1, <1>2, <1>3, <1>4, <1>5 DEF Consistent
<1> QED BY <1>1, <1>6 DEF n


LEMMA SimulatedKept ==
  ASSUME NEW m, Consistent(m), NEW in \in Parts \X Values
  PROVE  KeptBy({in}, m, Simulated(m, in[1], in[2]))
<1> DEFINE p == in[1]
           v == in[2]
           n == Simulated(m, p, v)
<1>1. Fields(m) /\ p \in Parts /\ v \in Values
  BY DEF Consistent, Memory
<1> HIDE DEF p, v
<1>2. /\ n.saved = m.saved /\ n.content = m.content /\ n.slots = m.slots
      /\ n.state = [m.state EXCEPT ![p] = v]
  BY <1>1 DEF Fields, Simulated
<1> HIDE DEF n
<1>3. ASSUME ValuesFit, NEW K, Shaped(m, K), Apt(in, K) PROVE Shaped(n, K)
  <2>1. n.state = [q \in Parts |-> n.state[q]] /\ \A q \in Parts : n.state[q] = IF q = p THEN v ELSE m.state[q]
    BY <1>2, <1>3 DEF Shaped
  <2>2. Fits(v, K[p])
    BY <1>1, <1>3, ValueFits DEF Apt, p, v
  <2>3. \A q \in Parts : Fits(n.state[q], K[q])
    BY <2>1, <2>2, <1>3 DEF Shaped
  <2> QED BY <2>1, <2>3, <1>2, <1>3 DEF Shaped
<1> QED BY <1>3 DEF n, p, v, KeptBy

(* A mixture: what the objects are plays no part in who owns what.         *)
LEMMA MixedProperties ==
  ASSUME NEW m, Consistent(m), NEW from, NEW kept
  PROVE  SameSlots(m, Mixed(m, from, kept))
<1> DEFINE state == [p \in Parts |-> IF p \in kept THEN from.state[p] ELSE m.state[p]]
           n == Mixed(m, from, kept)
<1>0. Memory(m) /\ ~m.stray
  BY DEF Consistent
<1>1. n = [m EXCEPT !.state = state]
  BY DEF Mixed
<1> HIDE DEF state, n
<1>2. /\ n.live = m.live /\ n.tracked = m.tracked /\ n.heap = m.heap /\ n.content = m.content
      /\ n.slots = m.slots /\ n.saved = m.saved /\ n.stray = m.stray /\ Fields(n)
      /\ n.alive = m.alive
  BY <1>0, <1>1 DEF Memory, Fields
<1>3. Memory(n)
  BY <1>0, <1>2 DEF Memory
<1>4. \A k \in Keys : Owned(n, k) /\ (n.live[k] # None => k \in n.tracked)
  BY <1>2 DEF Consistent, Owned, InSlots
<1>5. \A t \in Slots : Faithful(n, t)
  BY <1>2 DEF Consistent, Faithful
<1>6. Consistent(n)
  BY <1>0, <1>2, <1>3, <1>4, <1>5 DEF Consistent
<1> QED BY <1>2, <1>6 DEF SameSlots, n

LEMMA MixedKept ==
  ASSUME NEW from, NEW m, Consistent(m), Kept(from, m), NEW kept
  PROVE  Kept(from, Mixed(m, from, kept))
<1> DEFINE state == [p \in Parts |-> IF p \in kept THEN from.state[p] ELSE m.state[p]]
           n == Mixed(m, from, kept)
<1>1. Fields(m) /\ n = [m EXCEPT !.state = state]
  BY DEF Consistent, Memory, Mixed
<1>2. /\ state = [p \in Parts |-> state[p]]
      /\ \A p \in Parts : state[p] = from.state[p] \/ state[p] = m.state[p]
  OBVIOUS
<1> HIDE DEF state, n
<1>3. n.saved = m.saved /\ n.content = m.content /\ n.slots = m.slots /\ n.state = state
  BY <1>1 DEF Fields
<1> SUFFICES ASSUME EnoughHeap, ValuesFit, NEW K, Shaped(from, K) PROVE Shaped(n, K)
  BY DEF n, Kept, KeptBy
<1>4. Shaped(m, K)
  BY DEF Kept, KeptBy
<1>5. \A p \in Parts : Fits(state[p], K[p])
  BY <1>2, <1>4 DEF Shaped
<1> QED BY <1>2, <1>3, <1>4, <1>5 DEF Shaped

(* So a load across a reset leaves the slots alone, too.                   *)
LEMMA LoadAcrossProperties ==
  ASSUME NEW m, Consistent(m), NEW s \in Slots, NEW kept
  PROVE  SameSlots(m, LoadAcross(m, s, kept)) /\ Kept(m, LoadAcross(m, s, kept))
<1> DEFINE n == LoadWith(m, s, TRUE)
<1>1. SameSlots(m, n) /\ Kept(m, n)
  BY LoadProperties, LoadKept
<1>2. LoadAcross(m, s, kept) = IF Crosses(m, s) THEN Mixed(n, m, kept) ELSE n
  BY EvaluatedIsItself DEF LoadAcross, Load
<1> HIDE DEF n
<1>3. SameSlots(n, Mixed(n, m, kept)) /\ Kept(m, Mixed(n, m, kept))
  BY <1>1, MixedProperties, MixedKept DEF SameSlots
<1>4. SameSlots(m, Mixed(n, m, kept))
  BY <1>1, <1>3 DEF SameSlots
<1> QED BY <1>1, <1>2, <1>3, <1>4

(* The game makes, or takes down, its objects while no slot is in use.     *)
LEMMA AliveProperties ==
  ASSUME NEW m, Consistent(m), Used(m) = {}, NEW A \in SUBSET Keys, m.tracked \subseteq A
  PROVE  LET n == [m EXCEPT !.alive = A] IN
         Consistent(n) /\ n.slots = m.slots /\ n.alive = A
<1> DEFINE n == [m EXCEPT !.alive = A]
<1>0. Memory(m) /\ ~m.stray
  BY DEF Consistent
<1>1. /\ n.live = m.live /\ n.tracked = m.tracked /\ n.heap = m.heap /\ n.content = m.content
      /\ n.slots = m.slots /\ n.saved = m.saved /\ n.stray = m.stray /\ Fields(n)
      /\ n.alive = A
  BY <1>0 DEF Memory, Fields
<1> HIDE DEF n
<1>2. Memory(n)
  BY <1>0, <1>1 DEF Memory
<1>3. \A k \in Keys : Owned(n, k) /\ (n.live[k] # None => k \in n.tracked)
  BY <1>1 DEF Consistent, Owned, InSlots
<1>4. \A t \in Slots : Faithful(n, t)
  BY <1>1 DEF Consistent, Faithful
<1>5. \A t \in Slots : n.slots[t].keys = {}
  <2>1. \A t \in Slots : ~m.slots[t].used
    BY DEF Used
  <2> QED BY <2>1, <1>1 DEF Consistent
<1>6. Consistent(n)
  BY <1>0, <1>1, <1>2, <1>3, <1>4, <1>5 DEF Consistent
<1> QED BY <1>1, <1>6 DEF n


LEMMA AliveKept ==
  ASSUME NEW m, Consistent(m), NEW A
  PROVE  Kept(m, [m EXCEPT !.alive = A])
<1> DEFINE n == [m EXCEPT !.alive = A]
<1>1. Fields(m)
  BY DEF Consistent, Memory
<1>2. n.state = m.state /\ n.saved = m.saved /\ n.content = m.content /\ n.slots = m.slots
  BY <1>1 DEF Fields
<1> HIDE DEF n
<1> QED BY <1>2, LessIsKept DEF n

(* The game gives up keys with what they have, which no slot does.         *)
LEMMA ClearKeysProperties ==
  ASSUME NEW m, Consistent(m), NEW keys \in SUBSET Keys
  PROVE  LET n == ClearKeys(m, keys) IN
         SameSlots(m, n) /\ n.tracked = m.tracked \ keys
<1> DEFINE n == ClearKeys(m, keys)
<1>0. Memory(m) /\ ~m.stray
  BY DEF Consistent
<1>1. /\ n.alive = m.alive /\ n.content = m.content /\ n.tracked = m.tracked \ keys
      /\ n.slots = m.slots /\ n.saved = m.saved /\ n.stray = m.stray /\ Fields(n)
  BY <1>0 DEF Memory, Fields, ClearKeys
<1>2. n.live = [k \in Keys |-> IF k \in keys THEN None ELSE m.live[k]]
  BY <1>0 DEF Memory, Fields, ClearKeys
<1>3. n.heap = [k \in Keys |-> IF k \in keys THEN Release(m, k, m.live[k]) ELSE m.heap[k]]
  BY <1>0 DEF Memory, Fields, ClearKeys
<1> HIDE DEF n
<1>4. Memory(n)
  <2>1. n.live \in [Keys -> Buffers \cup {None}]
    BY <1>0, <1>2 DEF Memory
  <2>2. n.heap \in [Keys -> SUBSET Buffers]
    BY <1>0, <1>3 DEF Memory, Release
  <2> QED BY <2>1, <2>2, <1>0, <1>1 DEF Memory
<1>5. ASSUME NEW k \in Keys PROVE Owned(n, k) /\ (n.live[k] # None => k \in n.tracked)
  <2>1. Owned(m, k) /\ (m.live[k] # None => k \in m.tracked) /\ InSlots(n, k) = InSlots(m, k)
    BY <1>1 DEF Consistent, InSlots
  <2>2. CASE k \in keys
    <3>1. n.live[k] = None /\ n.heap[k] = InSlots(m, k) \ {None}
      BY <2>2, <1>2, <1>3, NewBufferProperties
    <3> QED BY <3>1, <2>1, <1>1 DEF Owned
  <2>3. CASE k \notin keys
    BY <2>1, <2>3, <1>1, <1>2, <1>3 DEF Owned
  <2> QED BY <2>2, <2>3
<1>6. \A t \in Slots : Faithful(n, t)
  BY <1>1 DEF Consistent, Faithful
<1>7. Consistent(n)
  BY <1>0, <1>1, <1>4, <1>5, <1>6 DEF Consistent
<1> QED BY <1>1, <1>7 DEF SameSlots, n


LEMMA ClearKeysKept ==
  ASSUME NEW m, Consistent(m), NEW keys
  PROVE  Kept(m, ClearKeys(m, keys))
<1> DEFINE n == ClearKeys(m, keys)
<1>1. Fields(m)
  BY DEF Consistent, Memory
<1>2. n.state = m.state /\ n.saved = m.saved /\ n.content = m.content /\ n.slots = m.slots
  BY <1>1 DEF Fields, ClearKeys
<1> HIDE DEF n
<1> QED BY <1>2, LessIsKept DEF n

(* Where no slot is in use, there is nothing to forget.                    *)
LEMMA ReclaimAllProperties ==
  ASSUME NEW m, Consistent(m), Used(m) = {}
  PROVE  LET n == ReclaimAll(m) IN
         Consistent(n) /\ n.alive = m.alive /\ n.tracked = m.tracked /\ Used(n) = {}
<1> DEFINE n == ReclaimAll(m)
<1>0. Memory(m) /\ ~m.stray
  BY DEF Consistent
<1>1. /\ n.live = m.live /\ n.tracked = m.tracked /\ n.heap = m.heap /\ n.content = m.content
      /\ n.alive = m.alive /\ n.saved = m.saved /\ n.stray = m.stray /\ Fields(n)
      /\ n.slots = [s \in Slots |-> Empty]
  BY <1>0 DEF Memory, Fields, ReclaimAll
<1> HIDE DEF n
<1>2. /\ ~Empty.used /\ Empty.keys = {} /\ \A k \in Keys : Empty.held[k] = None
      /\ SlotTyped(Empty)
  BY DEF Empty, SlotTyped
<1>3. \A s \in Slots : n.slots[s] = Empty
  BY <1>1
<1>4. Memory(n)
  BY <1>0, <1>1, <1>2, <1>3 DEF Memory
<1>5. ASSUME NEW k \in Keys PROVE Owned(n, k) /\ (n.live[k] # None => k \in n.tracked)
  <2>1. Owned(m, k) /\ (m.live[k] # None => k \in m.tracked)
    BY DEF Consistent
  <2>2. \A s \in Slots : m.slots[s].held[k] = None /\ n.slots[s].held[k] = None
    <3>1. \A s \in Slots : ~m.slots[s].used
      BY DEF Used
    <3> QED BY <3>1, <1>2, <1>3 DEF Consistent
  <2>3. n.heap[k] = ({n.live[k]} \cup InSlots(n, k)) \ {None}
    BY <2>1, <2>2, <1>1 DEF Owned, InSlots
  <2> QED BY <2>1, <2>2, <2>3, <1>1 DEF Owned
<1>6. \A t \in Slots : Faithful(n, t)
  BY <1>2, <1>3 DEF Faithful
<1>7. Consistent(n)
  BY <1>0, <1>1, <1>2, <1>3, <1>4, <1>5, <1>6 DEF Consistent
<1>8. Used(n) = {}
  BY <1>2, <1>3 DEF Used
<1> QED BY <1>1, <1>7, <1>8 DEF n


LEMMA ReclaimAllKept ==
  ASSUME NEW m, Consistent(m)
  PROVE  Kept(m, ReclaimAll(m))
<1> DEFINE n == ReclaimAll(m)
<1>1. Fields(m)
  BY DEF Consistent, Memory
<1>2. /\ n.state = m.state /\ n.saved = m.saved /\ n.content = m.content
      /\ n.slots = [s \in Slots |-> Empty]
  BY <1>1 DEF Fields, ReclaimAll
<1> HIDE DEF n
<1>3. \A s \in Slots : n.slots[s] = Empty
  BY <1>2
<1> QED BY <1>2, <1>3, LessIsKept DEF n

(* The training mode's own load.                                           *)
LEMMA TrainingLoadProperties ==
  ASSUME NEW m, Consistent(m), NEW keys, NEW last
  PROVE  SameSlots(m, RestoreAll(m, keys, last))
<1> DEFINE n == RestoreAll(m, keys, last)
<1>0. Memory(m) /\ ~m.stray /\ Fields(m)
  BY DEF Consistent, Memory
<1>1. Same(m, n)
  BY <1>0, RestoreAllProperties
<1> HIDE DEF n
<1>2. Memory(n)
  BY <1>0, <1>1 DEF Memory, Same
<1>3. \A k \in Keys : Owned(n, k) /\ (n.live[k] # None => k \in n.tracked)
  BY <1>1 DEF Consistent, Owned, InSlots, Same
<1>4. \A t \in Slots : Faithful(n, t)
  BY <1>1 DEF Consistent, Faithful, Same
<1>5. Consistent(n)
  BY <1>0, <1>1, <1>2, <1>3, <1>4 DEF Consistent, Same
<1> QED BY <1>1, <1>5 DEF SameSlots, Same, n

-----------------------------------------------------------------------------
(* Slots that are not in use.                                              *)

(* The first slot of some is one of them.                                  *)
LEMMA LeastOfSlots ==
  ASSUME NEW T \in SUBSET Slots, T # {}
  PROVE  Min(T) \in T
<1>1. T \in SUBSET Nat
  BY ConstantsTyped
<1>2. \E x \in T : \A y \in T : x <= y
  BY <1>1, LeastNatural
<1> QED BY <1>2 DEF Min

LEMMA UnusedSlots ==
  ASSUME NEW m
  PROVE  Unused(m) = Slots \ Used(m)
BY DEF Unused, Used

(* Where so many slots are not in use, there is one but for fewer others.  *)
LEMMA OneMoreUnused ==
  ASSUME NEW m, NEW T, IsFiniteSet(T), ~(Cardinality(Unused(m)) <= Cardinality(T))
  PROVE  FirstUnused(m, T) \in Unused(m) \ T
<1>1. IsFiniteSet(Slots)
  BY FS_Interval, ConstantsTyped DEF Slots
<1>2. Unused(m) \subseteq Slots
  BY DEF Unused
<1>3. IsFiniteSet(Unused(m))
  BY <1>1, <1>2, FS_Subset
<1>4. Unused(m) \ T # {}
  <2> SUFFICES ASSUME Unused(m) \subseteq T PROVE FALSE
    OBVIOUS
  <2>1. Cardinality(Unused(m)) <= Cardinality(T)
    BY FS_Subset
  <2> QED BY <2>1
<1>5. Min(Unused(m) \ T) \in Unused(m) \ T
  BY <1>2, <1>4, LeastOfSlots
<1> QED BY <1>5 DEF FirstUnused

-----------------------------------------------------------------------------
(* What GGPO holds.                                                        *)

(* The states that GGPO holds are in slots of their own, ...               *)
Ringed(g) ==
  /\ g \in [mem : {g.mem}, ring : [Ring -> Slots \cup {None}], head : Ring]
  /\ Consistent(g.mem)
  /\ \A i \in Ring : g.ring[i] # None =>
       g.mem.slots[g.ring[i]].used /\ \A j \in Ring \ {i} : g.ring[j] # g.ring[i]

(* ... and, where the overlay takes none, no other slot is in use.         *)
Held(g) ==
  /\ g \in [mem : {g.mem}, ring : [Ring -> Slots \cup {None}], head : Ring]
  /\ Consistent(g.mem)
  /\ \A i \in Ring : g.ring[i] # None =>
       g.mem.slots[g.ring[i]].used /\ \A j \in Ring \ {i} : g.ring[j] # g.ring[i]
  /\ \A s \in Used(g.mem) : \E i \in Ring : g.ring[i] = s

LEMMA HeldIsRinged ==
  ASSUME NEW g, Held(g)
  PROVE  Ringed(g)
BY DEF Held, Ringed

LEMMA HeldSlot ==
  ASSUME NEW g, Held(g), NEW i \in Ring, g.ring[i] # None
  PROVE  g.ring[i] \in Slots /\ g.mem.slots[g.ring[i]].used /\ Consistent(g.mem)
BY DEF Held

(* With a place of its ring empty there is a slot that is not in use: it   *)
(* has as many places as there are slots.                                  *)
LEMMA SlotLeft ==
  ASSUME NEW g, Held(g), NEW i \in Ring, g.ring[i] = None
  PROVE  Unused(g.mem) # {}
<1> SUFFICES ASSUME Unused(g.mem) = {}
             PROVE  FALSE
  OBVIOUS
<1> DEFINE h == [s \in Slots |-> CHOOSE j \in Ring : g.ring[j] = s]
           R == Ring \ {i}
<1>1. \A s \in Slots : h[s] \in Ring /\ g.ring[h[s]] = s
  <2>1. \A s \in Slots : \E j \in Ring : g.ring[j] = s
    BY UnusedSlots DEF Held
  <2> QED BY <2>1
<1>2. None \notin Slots
  BY ConstantsTyped
<1>3. h \in [Slots -> R]
  BY <1>1, <1>2
<1>4. IsFiniteSet(Slots) /\ Cardinality(Slots) = NUM_SAVE_STATES
  BY FS_Interval, ConstantsTyped DEF Slots
<1>5. IsFiniteSet(Ring) /\ Cardinality(Ring) = NUM_SAVE_STATES
  BY FS_Interval, ConstantsTyped
<1>6. IsFiniteSet(R) /\ Cardinality(R) = NUM_SAVE_STATES - 1
  BY <1>5, FS_RemoveElement
<1>7. Cardinality(R) < Cardinality(Slots)
  BY <1>4, <1>6, ConstantsTyped
<1>8. PICK x \in Slots, y \in Slots : x # y /\ h[x] = h[y]
  <2> HIDE DEF h, R
  <2>1. IsFiniteSet(Slots) /\ IsFiniteSet(R)
    BY <1>4, <1>6
  <2>2. \E x \in Slots, y \in Slots : x # y /\ h[x] = h[y]
    BY <2>1, <1>3, <1>7, FS_PigeonHole
  <2> QED BY <2>2
<1> QED BY <1>1, <1>8

(* The oldest state makes room for the new one, if a slot is left for it.  *)
LEMMA SaveFrameInRing ==
  ASSUME NEW g, Ringed(g)
  PROVE  LET r == SaveFrame(g) IN Ringed(r) /\ Kept(g.mem, r.mem)
<1> DEFINE i == g.head
           m == IF g.ring[i] = None THEN g.mem ELSE Free(g.mem, g.ring[i])
           s == IF Unused(m) = {} THEN None ELSE Min(Unused(m))
           n == IF s = None THEN m ELSE Save(m, s)
           r == [mem |-> n, ring |-> [g.ring EXCEPT ![i] = s], head |-> (i + 1) % NUM_SAVE_STATES]
<1>0. i \in Ring /\ g.ring \in [Ring -> Slots \cup {None}] /\ Consistent(g.mem) /\ None \notin Slots
  BY ConstantsTyped DEF Ringed
<1>1. Consistent(m) /\ Kept(g.mem, m) /\ Used(m) = Used(g.mem) \ {g.ring[i]}
  <2>1. CASE g.ring[i] = None
    BY <2>1, <1>0, LessIsKept DEF Used
  <2>2. CASE g.ring[i] # None
    <3>1. {g.ring[i]} \in SUBSET Slots
      BY <2>2, <1>0
    <3>2. m = FreeSlots(g.mem, {g.ring[i]})
      BY <2>2, EvaluatedIsItself DEF Free
    <3> QED BY <3>1, <3>2, <1>0, FreeProperties, FreeKept
  <2> QED BY <2>1, <2>2
<1>2. SaveFrame(g) = r
  BY DEF SaveFrame
<1> HIDE DEF m
<1>3. s = None \/ s \in Slots \ Used(m)
  BY UnusedSlots, LeastOfSlots DEF Unused
<1> HIDE DEF s
<1>4. /\ Consistent(n) /\ Used(m) \subseteq Used(n) /\ (s # None => s \in Used(n))
      /\ Kept(g.mem, n)
  <2>1. CASE s = None
    BY <2>1, <1>1
  <2>2. CASE s # None
    <3>1. Consistent(n) /\ Used(n) = Used(m) \cup {s} /\ Kept(m, n)
      BY <2>2, <1>1, <1>3, SaveProperties, SaveKept
    <3> QED BY <3>1, <1>1, KeptTwice
  <2> QED BY <2>1, <2>2
<1>5. /\ r.mem = n /\ r \in [mem : {r.mem}, ring : [Ring -> Slots \cup {None}], head : Ring]
      /\ \A j \in Ring : r.ring[j] = IF j = i THEN s ELSE g.ring[j]
  BY <1>0, <1>3, ConstantsTyped
<1> HIDE DEF n, r, i
<1>6. ASSUME NEW j \in Ring \ {i}, g.ring[j] # None
      PROVE  /\ g.ring[j] \in Used(m) /\ g.ring[j] # s
             /\ \A k \in Ring \ {j} : g.ring[k] # g.ring[j]
  <2>1. /\ g.ring[j] \in Used(g.mem) /\ g.ring[j] # g.ring[i]
        /\ \A k \in Ring \ {j} : g.ring[k] # g.ring[j]
    BY <1>0, <1>6 DEF Ringed, Used
  <2> QED BY <2>1, <1>1, <1>3, <1>6
<1>7. ASSUME NEW j \in Ring, r.ring[j] # None
      PROVE  r.mem.slots[r.ring[j]].used /\ \A k \in Ring \ {j} : r.ring[k] # r.ring[j]
  <2>1. CASE j = i
    <3>1. r.ring[j] = s /\ s \in Used(r.mem)
      BY <2>1, <1>4, <1>5, <1>7
    <3>2. ASSUME NEW k \in Ring \ {j} PROVE r.ring[k] # s
      BY <3>1, <2>1, <1>5, <1>6, <1>7
    <3> QED BY <3>1, <3>2 DEF Used
  <2>2. CASE j # i
    <3>1. r.ring[j] = g.ring[j] /\ g.ring[j] \in Used(r.mem)
      BY <2>2, <1>4, <1>5, <1>6, <1>7
    <3>2. ASSUME NEW k \in Ring \ {j} PROVE r.ring[k] # g.ring[j]
      BY <3>1, <2>2, <1>5, <1>6, <1>7
    <3> QED BY <3>1, <3>2 DEF Used
  <2> QED BY <2>1, <2>2
<1>8. Ringed(r)
  BY <1>4, <1>5, <1>7 DEF Ringed
<1> QED BY <1>2, <1>4, <1>5, <1>8

(* The slot at this place of the ring holds this state of all that there   *)
(* is to be saved.                                                         *)
HoldsAt(g, i, state) ==
  g.mem.slots[g.ring[i]].keys = g.mem.alive /\ g.mem.saved[g.ring[i]] = state

(* What is in the slot at this place of the ring stays there.              *)
Stays(g, r, j) ==
  /\ r.ring[j] = g.ring[j]
  /\ g.ring[j] # None => /\ r.mem.slots[g.ring[j]] = g.mem.slots[g.ring[j]]
                         /\ r.mem.saved[g.ring[j]] = g.mem.saved[g.ring[j]]

(* GGPO's oldest state makes room for the new one, and the others stay.    *)
LEMMA SaveFrameProperties ==
  ASSUME NEW g, Held(g)
  PROVE  LET r == SaveFrame(g) IN
         /\ Held(r) /\ r.mem.alive = g.mem.alive /\ Kept(g.mem, r.mem)
         /\ r.ring[g.head] # None /\ r.head = (g.head + 1) % NUM_SAVE_STATES
         /\ \A j \in Ring \ {g.head} : r.ring[j] = g.ring[j]
         /\ r.mem.state = g.mem.state /\ HoldsAt(r, g.head, g.mem.state)
         /\ \A j \in Ring \ {g.head} : Stays(g, r, j)
<1> DEFINE i == g.head
           m == IF g.ring[i] = None THEN g.mem ELSE Free(g.mem, g.ring[i])
           f == [mem |-> m, ring |-> [g.ring EXCEPT ![i] = None], head |-> i]
           s == Min(Unused(m))
           r == [mem |-> Save(m, s), ring |-> [g.ring EXCEPT ![i] = s],
                 head |-> (i + 1) % NUM_SAVE_STATES]
<1>0. i \in Ring /\ g.ring \in [Ring -> Slots \cup {None}] /\ Consistent(g.mem) /\ None \notin Slots
  BY ConstantsTyped DEF Held
<1>1. /\ Consistent(m) /\ m.alive = g.mem.alive /\ Kept(g.mem, m)
      /\ Used(m) = Used(g.mem) \ {g.ring[i]}
  <2>1. CASE g.ring[i] = None
    BY <2>1, <1>0, LessIsKept DEF Used
  <2>2. CASE g.ring[i] # None
    <3>1. {g.ring[i]} \in SUBSET Slots
      BY <2>2, <1>0
    <3>2. m = FreeSlots(g.mem, {g.ring[i]})
      BY <2>2, EvaluatedIsItself DEF Free
    <3> QED BY <3>1, <3>2, <1>0, FreeProperties, FreeKept
  <2> QED BY <2>1, <2>2
<1>m. /\ m.state = g.mem.state /\ m.saved = g.mem.saved
      /\ \A t \in Slots \ {g.ring[i]} : m.slots[t] = g.mem.slots[t]
  <2>1. CASE g.ring[i] = None
    BY <2>1
  <2>2. CASE g.ring[i] # None
    <3>1. m = FreeSlots(g.mem, {g.ring[i]})
      BY <2>2, EvaluatedIsItself DEF Free
    <3> HIDE DEF m, i
    <3>2. /\ m.state = g.mem.state /\ m.saved = g.mem.saved
          /\ m.slots = [t \in Slots |-> IF t \in {g.ring[i]} THEN Empty ELSE g.mem.slots[t]]
      BY <3>1, <1>0 DEF Consistent, Memory, Fields, FreeSlots
    <3> QED BY <3>2
  <2> QED BY <2>1, <2>2
<1> HIDE DEF m
<1>2. Held(f)
  <2>0. /\ f.mem = m /\ f.ring = [g.ring EXCEPT ![i] = None] /\ f.head = i
        /\ f \in [mem : {m}, ring : [Ring -> Slots \cup {None}], head : Ring]
    BY <1>0
  <2> HIDE DEF f
  <2>1. ASSUME NEW j \in Ring, f.ring[j] # None
        PROVE  f.mem.slots[f.ring[j]].used /\ \A k \in Ring \ {j} : f.ring[k] # f.ring[j]
    <3>1. j # i /\ f.ring[j] = g.ring[j] /\ g.ring[j] \in Slots
      BY <2>0, <2>1, <1>0
    <3>2. g.ring[j] \in Used(g.mem) /\ \A k \in Ring \ {j} : g.ring[k] # g.ring[j]
      BY <3>1, <1>0 DEF Held, Used
    <3>3. g.ring[j] \in Used(m)
      BY <3>1, <3>2, <1>0, <1>1
    <3> QED BY <3>1, <3>2, <3>3, <2>0, <1>0 DEF Used
  <2>2. ASSUME NEW t \in Used(f.mem)
        PROVE  \E j \in Ring : f.ring[j] = t
    <3>1. t \in Used(g.mem) /\ t # g.ring[i]
      BY <2>0, <2>2, <1>1
    <3>2. PICK j \in Ring : g.ring[j] = t
      BY <3>1 DEF Held
    <3> QED BY <3>1, <3>2, <2>0, <1>0
  <2> QED BY <2>0, <2>1, <2>2, <1>1 DEF Held
<1>3. Unused(m) # {}
  <2>1. f.ring[i] = None /\ f.mem = m
    BY <1>0
  <2> HIDE DEF f
  <2> QED BY <2>1, <1>0, <1>2, SlotLeft
<1>4. s \in Slots \ Used(m)
  BY <1>3, UnusedSlots, LeastOfSlots DEF Unused
<1>5. SaveFrame(g) = r
  <2>1. s # None
    BY <1>0, <1>4
  <2> QED BY <2>1, <1>3 DEF SaveFrame, m
<1> HIDE DEF s
<1>6. /\ Consistent(Save(m, s)) /\ Save(m, s).alive = m.alive
      /\ Used(Save(m, s)) = Used(m) \cup {s} /\ Kept(m, Save(m, s))
  BY <1>1, <1>4, SaveProperties, SaveKept
<1>7. r.mem = Save(m, s) /\ r.ring = [g.ring EXCEPT ![i] = s] /\ r.head = (i + 1) % NUM_SAVE_STATES
  OBVIOUS
<1>d. /\ r.mem.state = m.state /\ r.mem.saved[s] = m.state /\ r.mem.slots[s].keys = m.alive
      /\ \A t \in Slots \ {s} : r.mem.slots[t] = m.slots[t] /\ r.mem.saved[t] = m.saved[t]
  BY <1>1, <1>4, <1>7, SaveDoes
<1>8. r.head \in Ring
  BY <1>0, <1>7, ConstantsTyped
<1>9. r \in [mem : {r.mem}, ring : [Ring -> Slots \cup {None}], head : Ring]
  BY <1>0, <1>4, <1>8
<1>f. f.mem = m /\ f.ring = [g.ring EXCEPT ![i] = None]
  OBVIOUS
<1> HIDE DEF r, f, i
<1>10. \A j \in Ring : r.ring[j] = IF j = i THEN s ELSE g.ring[j]
  BY <1>0, <1>7
<1>11. \A j \in Ring : f.ring[j] = IF j = i THEN None ELSE g.ring[j]
  BY <1>0, <1>f
<1>12. ASSUME NEW j \in Ring, r.ring[j] # None
       PROVE  r.mem.slots[r.ring[j]].used /\ \A k \in Ring \ {j} : r.ring[k] # r.ring[j]
  <2>1. \A k \in Ring \ {i} : r.ring[k] = f.ring[k]
    BY <1>10, <1>11
  <2>2. \A k \in Ring : f.ring[k] # s
    <3>1. ASSUME NEW k \in Ring, f.ring[k] = s PROVE FALSE
      <4>1. f.mem.slots[s].used
        BY <3>1, <1>0, <1>2, <1>4 DEF Held
      <4> QED BY <4>1, <1>f, <1>4 DEF Used
    <3> QED BY <3>1
  <2>3. r.ring[j] \in Used(r.mem)
    <3>1. CASE j = i
      BY <3>1, <1>6, <1>7, <1>10
    <3>2. CASE j # i
      <4>1. f.ring[j] # None /\ f.ring[j] \in Slots /\ r.ring[j] = f.ring[j]
        BY <3>2, <1>0, <1>10, <1>11, <1>12
      <4>2. f.ring[j] \in Used(m)
        BY <4>1, <1>2, <1>f DEF Held, Used
      <4> QED BY <4>1, <4>2, <1>6, <1>7
    <3> QED BY <3>1, <3>2
  <2>4. \A k \in Ring \ {j} : r.ring[k] # r.ring[j]
    <3>1. CASE j = i
      BY <3>1, <2>1, <2>2, <1>10
    <3>2. CASE j # i
      <4>1. \A k \in Ring \ {j} : f.ring[k] # f.ring[j]
        BY <3>2, <1>2, <1>10, <1>11, <1>12 DEF Held
      <4> QED BY <4>1, <3>2, <2>1, <2>2, <1>10
    <3> QED BY <3>1, <3>2
  <2> QED BY <2>3, <2>4 DEF Used
<1>13. ASSUME NEW t \in Used(r.mem)
       PROVE  \E j \in Ring : r.ring[j] = t
  <2>1. CASE t = s
    BY <2>1, <1>0, <1>10
  <2>2. CASE t # s
    <3>1. t \in Used(f.mem) /\ t \in Slots
      BY <2>2, <1>6, <1>7, <1>f DEF Used
    <3>2. PICK j \in Ring : f.ring[j] = t
      BY <3>1, <1>2 DEF Held
    <3> QED BY <3>1, <3>2, <1>0, <1>10, <1>11
  <2> QED BY <2>1, <2>2
<1>14. Held(r)
  BY <1>6, <1>7, <1>9, <1>12, <1>13 DEF Held
<1>15. Kept(g.mem, r.mem)
  BY <1>1, <1>6, <1>7, KeptTwice
<1>16. r.mem.state = g.mem.state /\ HoldsAt(r, i, g.mem.state)
  BY <1>0, <1>1, <1>m, <1>6, <1>7, <1>d, <1>10 DEF HoldsAt
<1>17. ASSUME NEW j \in Ring \ {i} PROVE Stays(g, r, j)
  <2>1. r.ring[j] = g.ring[j]
    BY <1>10
  <2>2. ASSUME g.ring[j] # None
        PROVE  /\ r.mem.slots[g.ring[j]] = g.mem.slots[g.ring[j]]
               /\ r.mem.saved[g.ring[j]] = g.mem.saved[g.ring[j]]
    <3>1. g.ring[j] \in Slots /\ g.ring[j] # g.ring[i] /\ g.ring[j] \in Used(g.mem)
      BY <2>2, <1>0 DEF Held, Used
    <3>2. g.ring[j] # s
      BY <3>1, <1>1, <1>4
    <3> QED BY <3>1, <3>2, <1>m, <1>d
  <2> QED BY <2>1, <2>2 DEF Stays
<1> QED BY <1>0, <1>1, <1>4, <1>5, <1>6, <1>7, <1>10, <1>14, <1>15, <1>16, <1>17 DEF i

(* A load leaves the ring and the slots alone.                             *)
LEMMA LoadFrameProperties ==
  ASSUME NEW g, Ringed(g), NEW i \in Ring, g.ring[i] # None, NEW kept
  PROVE  LET r == LoadFrame(g, i, kept) IN
         /\ Ringed(r) /\ (Held(g) => Held(r)) /\ r.mem.alive = g.mem.alive /\ Kept(g.mem, r.mem)
         /\ r.ring = g.ring /\ r.head = (i + 1) % NUM_SAVE_STATES
         /\ Fit(g.mem) /\ g.mem.slots[g.ring[i]].keys = g.mem.alive /\ ~Crosses(g.mem, g.ring[i]) =>
              /\ Agree(g.mem.alive, r.mem.state, g.mem.saved[g.ring[i]])
              /\ Others(g.mem.alive, r.mem.state, g.mem.state)
<1> DEFINE r == LoadFrame(g, i, kept)
<1>1. /\ r.mem = LoadAcross(g.mem, g.ring[i], kept) /\ r.ring = g.ring
      /\ r.head = (i + 1) % NUM_SAVE_STATES
      /\ r = [mem |-> r.mem, ring |-> r.ring, head |-> r.head]
  BY DEF LoadFrame
<1> HIDE DEF r
<1>2. g.ring[i] \in Slots
  BY DEF Ringed
<1>3. SameSlots(g.mem, r.mem) /\ Kept(g.mem, r.mem)
  <2>1. Consistent(g.mem)
    BY DEF Ringed
  <2> QED BY <2>1, <1>1, <1>2, LoadAcrossProperties
<1>4. r.head \in Ring
  BY <1>1, ConstantsTyped
<1>5. Ringed(r) /\ (Held(g) => Held(r))
  <2>1. r \in [mem : {r.mem}, ring : [Ring -> Slots \cup {None}], head : Ring]
    BY <1>1, <1>4 DEF Ringed
  <2>2. Consistent(r.mem) /\ r.mem.slots = g.mem.slots /\ Used(r.mem) = Used(g.mem)
    BY <1>3 DEF SameSlots, Used
  <2>3. Ringed(r)
    BY <2>1, <2>2, <1>1 DEF Ringed
  <2> QED BY <2>2, <2>3, <1>1 DEF Held, Ringed
<1>6. ASSUME Fit(g.mem), g.mem.slots[g.ring[i]].keys = g.mem.alive, ~Crosses(g.mem, g.ring[i])
      PROVE  /\ Agree(g.mem.alive, r.mem.state, g.mem.saved[g.ring[i]])
             /\ Others(g.mem.alive, r.mem.state, g.mem.state)
  <2>1. Consistent(g.mem) /\ g.mem.slots[g.ring[i]].used
    BY DEF Ringed
  <2>2. r.mem = Load(g.mem, g.ring[i])
    BY <1>1, <1>6 DEF LoadAcross
  <2>3. r.mem = LoadWith(g.mem, g.ring[i], TRUE)
    BY <2>2 DEF Load
  <2>4. Brought(g.mem, g.ring[i], TRUE, r.mem)
    BY <2>1, <2>3, <1>2, LoadKept
  <2> QED BY <2>1, <2>4, <1>6 DEF Brought
<1> QED BY <1>1, <1>3, <1>5, <1>6 DEF SameSlots, r

-----------------------------------------------------------------------------
(* The idempotence check.                                                  *)

(* What a slot holds of an object is what was saved.                       *)
LEMMA HoldsWhatWasSaved ==
  ASSUME NEW m, Consistent(m), NEW K, Shaped(m, K), NEW s \in Slots, NEW k \in m.slots[s].keys
  PROVE  /\ Holds(m, s, k) = ChecksumNormalized(Recorded(m.saved[s][k]))
         /\ k \in Keys /\ Fits(m.saved[s][k], K[k]) /\ K[k] \in {"system", "shadow"}
<1>1. m.slots[s].held[k] # None /\ k \in Keys
  BY DEF Shaped, Consistent, Memory, SlotTyped
<1>2. m.content[k][m.slots[s].held[k]] = Recorded(m.saved[s][k])
  BY <1>1 DEF Consistent, Faithful
<1>3. k \in Parts /\ k # Globals
  BY <1>1, SaveStatesAssumption DEF Parts
<1> QED BY <1>1, <1>2, <1>3 DEF Holds, Shaped

(* Saves that look the same compare the same.                              *)
LEMMA NoDifference ==
  ASSUME NEW m, Consistent(m), NEW K, Shaped(m, K), NEW a \in Slots, NEW b \in Slots,
         m.slots[a].keys = m.slots[b].keys, Agree(m.slots[a].keys, m.saved[a], m.saved[b])
  PROVE  CompareSaves(m, a, b) = 0
<1>1. ASSUME NEW k \in m.slots[a].keys PROVE Exact(Holds(m, a, k)) = Exact(Holds(m, b, k))
  <2>1. /\ Holds(m, a, k) = ChecksumNormalized(Recorded(m.saved[a][k]))
        /\ Fits(m.saved[a][k], K[k]) /\ K[k] \in {"system", "shadow"}
    BY HoldsWhatWasSaved
  <2>2. /\ Holds(m, b, k) = ChecksumNormalized(Recorded(m.saved[b][k]))
        /\ Fits(m.saved[b][k], K[k])
    BY HoldsWhatWasSaved
  <2>3. Seen(m.saved[a][k]) = Seen(m.saved[b][k])
    BY DEF Agree
  <2> QED BY <2>1, <2>2, <2>3, SeenTheSame
<1>2. {k \in m.slots[a].keys \cap m.slots[b].keys :
         Exact(Holds(m, a, k)) # Exact(Holds(m, b, k))} = {}
  BY <1>1
<1>3. Cardinality({}) = 0
  BY FS_EmptySet
<1> QED BY <1>2, <1>3 DEF CompareSaves

(* And battles that look the same tell the same.                           *)
LEMMA TellTheSame ==
  ASSUME NEW u, NEW v, NEW K, NEW A \in SUBSET Keys, \A k \in Keys : K[k] \in {"system", "shadow"},
         \A k \in A : Fits(u[k], K[k]) /\ Fits(v[k], K[k]), Agree(A, u, v), Others(A, u, v)
  PROVE  \A p \in Parts : u[p].own = v[p].own
<1> TAKE p \in Parts
<1>1. CASE p \in A
  <2>1. Seen(u[p]) = Seen(v[p]) /\ p \in Keys
    BY <1>1 DEF Agree
  <2> QED BY <1>1, <2>1, SeenTheSame
<1>2. CASE p = Globals
  BY <1>2 DEF Agree
<1>3. CASE p \notin A \cup {Globals}
  BY <1>3 DEF Others
<1> QED BY <1>1, <1>2, <1>3

(* What became of a memory: its objects are there, these slots in use, and *)
(* of its own each holds what it held.                                     *)
After(m, n, U) ==
  /\ Consistent(n) /\ n.alive = m.alive /\ Used(n) = U /\ Kept(m, n)
  /\ \A s \in U \cap Used(m) : n.slots[s] = m.slots[s] /\ n.saved[s] = m.saved[s]
  /\ \A s \in U \ Used(m) : n.slots[s].keys = m.alive
  /\ Fit(m) => Others(m.alive, n.state, m.state)

(* It is of the kinds it was.                                              *)
LEMMA StillFit ==
  ASSUME NEW m, NEW n, NEW U, After(m, n, U), Fit(m)
  PROVE  /\ Fit(n) /\ \E K : Shaped(m, K) /\ Shaped(n, K)
         /\ \A k \in m.alive : k \in Keys
BY DEF After, Fit, Kept, KeptBy, Consistent, Memory

(* What a save, a load and a free make of that.                            *)
LEMMA SaveAfter ==
  ASSUME NEW m, NEW n, NEW U, After(m, n, U), NEW s \in Slots \ (U \cup Used(m))
  PROVE  /\ After(m, Save(n, s), U \cup {s})
         /\ Save(n, s).state = n.state /\ Save(n, s).saved[s] = n.state
         /\ \A t \in U : Save(n, s).saved[t] = n.saved[t]
<1>1. Consistent(n) /\ n.alive = m.alive /\ Used(n) = U /\ s \in Slots \ Used(n) /\ Kept(m, n)
  BY DEF After
<1> DEFINE r == Save(n, s)
<1>2. Consistent(r) /\ r.alive = n.alive /\ Used(r) = Used(n) \cup {s} /\ Kept(n, r)
  BY <1>1, SaveProperties, SaveKept
<1>3. Kept(m, r)
  BY <1>1, <1>2, KeptTwice
<1>4. /\ r.state = n.state /\ r.saved[s] = n.state /\ r.slots[s].keys = n.alive
      /\ \A t \in Slots \ {s} : r.slots[t] = n.slots[t] /\ r.saved[t] = n.saved[t]
  BY <1>1, SaveDoes
<1> HIDE DEF r
<1>5. U \subseteq Slots \ {s}
  BY <1>1 DEF Used
<1>6. \A t \in (U \cup {s}) \cap Used(m) : r.slots[t] = m.slots[t] /\ r.saved[t] = m.saved[t]
  BY <1>4, <1>5 DEF After
<1>7. \A t \in (U \cup {s}) \ Used(m) : r.slots[t].keys = m.alive
  BY <1>1, <1>4, <1>5 DEF After
<1>8. After(m, r, U \cup {s})
  BY <1>1, <1>2, <1>3, <1>4, <1>6, <1>7 DEF After
<1> QED BY <1>4, <1>5, <1>8 DEF r

LEMMA LoadAfter ==
  ASSUME NEW m, NEW n, NEW U, After(m, n, U), NEW s \in Slots, NEW last
  PROVE  /\ After(m, LoadWith(n, s, last), U)
         /\ LoadWith(n, s, last).saved = n.saved /\ LoadWith(n, s, last).slots = n.slots
<1> DEFINE r == LoadWith(n, s, last)
<1>1. Consistent(n) /\ n.alive = m.alive /\ Used(n) = U /\ Kept(m, n)
  BY DEF After
<1>2. SameSlots(n, r)
  BY <1>1, LoadProperties
<1>3. Kept(n, r) /\ Brought(n, s, last, r) /\ r.slots = n.slots /\ r.saved = n.saved
  BY <1>1, LoadKept
<1> HIDE DEF r
<1>4. Kept(m, r)
  BY <1>1, <1>3, KeptTwice
<1>5. Fit(m) => Others(m.alive, r.state, m.state)
  BY <1>1, <1>3, StillFit DEF After, Brought, Others
<1>6. After(m, r, U)
  BY <1>1, <1>2, <1>3, <1>4, <1>5 DEF After, SameSlots, Used
<1> QED BY <1>3, <1>6 DEF r

(* The battle is what was saved.                                           *)
LEMMA LoadAgrees ==
  ASSUME NEW m, NEW n, NEW U, After(m, n, U), Fit(m), NEW s \in U, n.slots[s].keys = m.alive
  PROVE  Agree(m.alive, LoadWith(n, s, TRUE).state, n.saved[s])
<1> DEFINE r == LoadWith(n, s, TRUE)
<1>1. Consistent(n) /\ s \in Slots /\ n.slots[s].used
  BY DEF After, Used
<1>2. Brought(n, s, TRUE, r)
  BY <1>1, LoadKept
<1> HIDE DEF r
<1>3. Fit(n)
  BY StillFit
<1>4. Agree(m.alive, r.state, n.saved[s])
  BY <1>1, <1>2, <1>3 DEF Brought
<1> QED BY <1>4 DEF r

LEMMA FreeAfter ==
  ASSUME NEW m, NEW n, NEW U, After(m, n, U), NEW s \in Slots
  PROVE  After(m, Free(n, s), U \ {s}) /\ Free(n, s).state = n.state
<1> DEFINE r == Free(n, s)
<1>1. Consistent(n) /\ n.alive = m.alive /\ Used(n) = U /\ {s} \in SUBSET Slots /\ Kept(m, n)
  BY DEF After
<1>2. r = FreeSlots(n, {s})
  BY EvaluatedIsItself DEF Free
<1>3. /\ Consistent(r) /\ r.alive = n.alive
      /\ Used(r) = Used(n) \ {s} /\ Kept(n, r)
  BY <1>1, <1>2, FreeProperties, FreeKept
<1>4. /\ r.state = n.state /\ r.saved = n.saved
      /\ r.slots = [t \in Slots |-> IF t \in {s} THEN Empty ELSE n.slots[t]]
  BY <1>1, <1>2 DEF Consistent, Memory, Fields, FreeSlots
<1> HIDE DEF r
<1>5. Kept(m, r)
  BY <1>1, <1>3, KeptTwice
<1>6. \A t \in U \ {s} : t \in Slots /\ r.slots[t] = n.slots[t]
  BY <1>1, <1>4 DEF Used
<1>7. /\ \A t \in (U \ {s}) \cap Used(m) : r.slots[t] = m.slots[t] /\ r.saved[t] = m.saved[t]
      /\ \A t \in (U \ {s}) \ Used(m) : r.slots[t].keys = m.alive
      /\ Fit(m) => Others(m.alive, r.state, m.state)
  BY <1>4, <1>6 DEF After
<1>8. After(m, r, U \ {s})
  BY <1>1, <1>3, <1>5, <1>7 DEF After
<1> QED BY <1>4, <1>8 DEF r

(* A slot of those left over is in nobody's use.                           *)
LEMMA NotInUse ==
  ASSUME NEW m, NEW n, NEW U, After(m, n, U)
  PROVE  Unused(n) = Slots \ U
BY UnusedSlots DEF After

(* A round trip over a new slot brings back what there was.                *)
LEMMA RoundTripAfter ==
  ASSUME NEW m, NEW n, NEW U, After(m, n, U), NEW s \in Slots \ (U \cup Used(m)),
         NEW r, r = RoundTrip(n, s)
  PROVE  /\ After(m, r, U \cup {s}) /\ r.saved[s] = n.state
         /\ \A t \in U : r.saved[t] = n.saved[t]
         /\ Fit(m) => Agree(m.alive, r.state, n.state)
<1> DEFINE a == Save(n, s)
<1>0. r = LoadWith(a, s, TRUE) /\ s \in Slots
  BY DEF RoundTrip, Load
<1>1. /\ After(m, a, U \cup {s}) /\ a.saved[s] = n.state
      /\ \A t \in U : a.saved[t] = n.saved[t]
  BY SaveAfter
<1> HIDE DEF a
<1>2. After(m, r, U \cup {s}) /\ r.saved = a.saved
  <2>1. /\ After(m, LoadWith(a, s, TRUE), U \cup {s})
        /\ LoadWith(a, s, TRUE).saved = a.saved
    <3>1. After(m, a, U \cup {s}) /\ s \in Slots
      BY <1>0, <1>1
    <3>2. PICK last : last = TRUE
      OBVIOUS
    <3>3. After(m, LoadWith(a, s, last), U \cup {s}) /\ LoadWith(a, s, last).saved = a.saved
      BY <3>1, LoadAfter
    <3> QED BY <3>2, <3>3
  <2> QED BY <1>0, <2>1
<1>3. a.slots[s].keys = m.alive /\ s \in U \cup {s}
  BY <1>1 DEF After
<1>4. Fit(m) => Agree(m.alive, r.state, a.saved[s])
  BY <1>0, <1>1, <1>3, LoadAgrees
<1> QED BY <1>1, <1>2, <1>4

(* A pass has nothing to report.                                           *)
Clean(m, r) == Fit(m) => r.differing \in {-1, 0}

(* A baseline: a slot that has all there is to be saved.                   *)
Baseline(m, base) == base \in Used(m) /\ m.slots[base].keys = m.alive

(* Whoever loads it begins where it was taken.                             *)
LEMMA LoadBaseline ==
  ASSUME NEW m, NEW n, After(m, n, Used(m)), NEW base, Baseline(m, base)
  PROVE  /\ After(m, Load(n, base), Used(m))
         /\ Fit(m) => Agree(m.alive, Load(n, base).state, m.saved[base])
<1>1. base \in Slots /\ base \in Used(m) /\ n.slots[base] = m.slots[base] /\ n.saved[base] = m.saved[base]
  BY DEF After, Baseline, Used
<1>2. After(m, LoadWith(n, base, TRUE), Used(m))
  BY <1>1, LoadAfter
<1>3. Fit(m) => Agree(m.alive, LoadWith(n, base, TRUE).state, n.saved[base])
  BY <1>1, LoadAgrees DEF Baseline
<1> QED BY <1>1, <1>2, <1>3 DEF Load

(* A pass leaves the slots in use that it found so.                        *)
LEMMA GameplayPassKeeps ==
  ASSUME NEW m, NEW n, After(m, n, Used(m)), NEW base, Baseline(m, base)
  PROVE  /\ After(m, GameplayPass(n, base).mem, Used(m))
         /\ Clean(m, GameplayPass(n, base))
<1> DEFINE U == Used(m)
           before == Load(n, base)
           s == FirstUnused(before, {})
           after == RoundTrip(before, s)
           differing == Cardinality({p \in Parts : Snapshot(after)[p] # Snapshot(before)[p]})
<1>1. After(m, before, U)
  BY LoadBaseline
<1> HIDE DEF before
<1>2. CASE Unused(before) = {}
  <2>1. GameplayPass(n, base) = [mem |-> before, differing |-> -1]
    BY <1>2 DEF GameplayPass, before
  <2> QED BY <2>1, <1>1 DEF Clean
<1>3. CASE Unused(before) # {}
  <2>1. s \in Slots \ (U \cup Used(m))
    <3>1. Unused(before) = Slots \ U /\ Unused(before) \ {} = Unused(before)
      BY <1>1, NotInUse
    <3>2. Min(Unused(before)) \in Unused(before)
      BY <1>3, <3>1, LeastOfSlots
    <3> QED BY <3>1, <3>2 DEF FirstUnused
  <2> HIDE DEF s
  <2>2. After(m, after, U \cup {s}) /\ (Fit(m) => Agree(m.alive, after.state, before.state))
    BY <1>1, <2>1, RoundTripAfter
  <2> HIDE DEF after
  <2>4. After(m, Free(after, s), (U \cup {s}) \ {s})
    BY <2>1, <2>2, FreeAfter
  <2>5. (U \cup {s}) \ {s} = U
    BY <2>1
  <2>6. GameplayPass(n, base) = [mem |-> Free(after, s), differing |-> differing]
    BY <1>3 DEF GameplayPass, before, s, after
  <2>7. ASSUME Fit(m) PROVE differing = 0
    <3>1. PICK K : Shaped(m, K)
      BY <2>7 DEF Fit
    <3>2. Shaped(before, K) /\ Shaped(after, K)
      BY <1>1, <2>2, <2>7, <3>1 DEF After, Kept, KeptBy, Fit
    <3>3. m.alive \in SUBSET Keys
      BY <1>1 DEF After, Consistent, Memory
    <3>4. \A k \in Keys : K[k] \in {"system", "shadow"}
      BY <3>1, SaveStatesAssumption DEF Shaped, Parts
    <3>5. \A k \in m.alive : Fits(after.state[k], K[k]) /\ Fits(before.state[k], K[k])
      BY <3>2, <3>3 DEF Shaped, Parts
    <3>6. Others(m.alive, after.state, before.state)
      BY <1>1, <2>2, <2>7 DEF After, Others
    <3>7. \A p \in Parts : after.state[p].own = before.state[p].own
      BY <2>2, <2>7, <3>3, <3>4, <3>5, <3>6, TellTheSame
    <3>8. {p \in Parts : Snapshot(after)[p] # Snapshot(before)[p]} = {}
      BY <3>7 DEF Snapshot
    <3> QED BY <3>8, FS_EmptySet
  <2> HIDE DEF differing
  <2>8. GameplayPass(n, base).mem = Free(after, s) /\ GameplayPass(n, base).differing = differing
    BY <2>6
  <2> QED BY <2>4, <2>5, <2>7, <2>8 DEF Clean
<1> QED BY <1>2, <1>3

(* Of enough unused slots the first ones are apart.                        *)
LEMMA FirstSlots ==
  ASSUME NEW m, NEW a, a = FirstUnused(m, {}), NEW b, b = FirstUnused(m, {a}),
         NEW c, c = FirstUnused(m, {a, b})
  PROVE  /\ ~(Cardinality(Unused(m)) < 2) => a \in Unused(m) /\ b \in Unused(m) \ {a}
         /\ ~(Cardinality(Unused(m)) < 3) =>
              a \in Unused(m) /\ b \in Unused(m) \ {a} /\ c \in Unused(m) \ {a, b}
<1>1. Cardinality(Unused(m)) \in Nat
  <2>1. IsFiniteSet(Slots)
    BY FS_Interval, ConstantsTyped DEF Slots
  <2>2. IsFiniteSet(Unused(m))
    BY <2>1, FS_Subset DEF Unused
  <2> QED BY <2>2, FS_CardinalityType
<1>2. ~(Cardinality(Unused(m)) < 2) => a \in Unused(m)
  <2>1. IsFiniteSet({}) /\ Cardinality({}) = 0
    BY FS_EmptySet
  <2>2. ~(Cardinality(Unused(m)) <= 0) => a \in Unused(m) \ {}
    BY <2>1, OneMoreUnused
  <2> QED BY <1>1, <2>2
<1>3. ~(Cardinality(Unused(m)) < 2) => b \in Unused(m) \ {a}
  <2>1. IsFiniteSet({a}) /\ Cardinality({a}) = 1
    BY FS_Singleton
  <2>2. ~(Cardinality(Unused(m)) <= 1) => b \in Unused(m) \ {a}
    BY <2>1, OneMoreUnused
  <2> QED BY <1>1, <2>2
<1>4. ~(Cardinality(Unused(m)) < 3) => c \in Unused(m) \ {a, b}
  <2> SUFFICES ASSUME ~(Cardinality(Unused(m)) < 3) PROVE c \in Unused(m) \ {a, b}
    OBVIOUS
  <2>0. b \notin {a}
    BY <1>1, <1>3
  <2>1. IsFiniteSet({a}) /\ Cardinality({a}) = 1
    BY FS_Singleton
  <2>2. IsFiniteSet({a} \cup {b}) /\ Cardinality({a} \cup {b}) = Cardinality({a}) + 1
    BY <2>0, <2>1, FS_AddElement
  <2>3. {a} \cup {b} = {a, b}
    OBVIOUS
  <2>4. ~(Cardinality(Unused(m)) <= 2) => c \in Unused(m) \ {a, b}
    BY <2>1, <2>2, <2>3, OneMoreUnused
  <2> QED BY <1>1, <2>4
<1> QED BY <1>1, <1>2, <1>3, <1>4

LEMMA RunIdempotencePassKeeps ==
  ASSUME NEW m, NEW n, After(m, n, Used(m)), NEW base, Baseline(m, base), NEW last
  PROVE  /\ After(m, RunIdempotencePass(n, base, last).mem, Used(m))
         /\ last = TRUE => Clean(m, RunIdempotencePass(n, base, last))
<1> DEFINE U == Used(m)
           a == FirstUnused(n, {})
           b == FirstUnused(n, {a})
           begun == Load(n, base)
           saved == Save(begun, a)
           loaded == LoadWith(saved, a, last)
           trip == Save(loaded, b)
           differing == CompareSaves(trip, a, b)
<1>1. CASE Cardinality(Unused(n)) < 2
  <2>1. RunIdempotencePass(n, base, last) = [mem |-> n, differing |-> -1]
    BY <1>1 DEF RunIdempotencePass
  <2> QED BY <2>1 DEF Clean
<1>2. CASE ~(Cardinality(Unused(n)) < 2)
  <2>1. /\ a \in Slots \ (U \cup Used(m)) /\ b \in Slots \ ((U \cup {a}) \cup Used(m))
        /\ a \in Slots /\ b \in Slots /\ a # b /\ a \notin U /\ b \notin U
    <3>1. Unused(n) = Slots \ U
      BY NotInUse
    <3>2. a \in Unused(n) /\ b \in Unused(n) \ {a}
      BY <1>2, FirstSlots
    <3> HIDE DEF a, b
    <3> QED BY <3>1, <3>2
  <2> HIDE DEF a, b
  <2>2. After(m, begun, U)
    BY LoadBaseline
  <2> HIDE DEF begun
  <2>3. After(m, saved, U \cup {a}) /\ saved.saved[a] = begun.state
    BY <2>1, <2>2, SaveAfter
  <2> HIDE DEF saved
  <2>4. After(m, loaded, U \cup {a}) /\ loaded.saved = saved.saved
    BY <2>1, <2>3, LoadAfter
  <2>a. Fit(m) /\ last = TRUE => Agree(m.alive, loaded.state, saved.saved[a])
    <3> SUFFICES ASSUME Fit(m), last = TRUE
                 PROVE  Agree(m.alive, loaded.state, saved.saved[a])
      OBVIOUS
    <3>1. saved.slots[a].keys = m.alive /\ a \in U \cup {a}
      BY <2>1, <2>3 DEF After
    <3>2. loaded = LoadWith(saved, a, TRUE)
      OBVIOUS
    <3> QED BY <2>3, <3>1, <3>2, LoadAgrees
  <2> HIDE DEF loaded
  <2>6. /\ After(m, trip, (U \cup {a}) \cup {b}) /\ trip.saved[b] = loaded.state
        /\ trip.saved[a] = loaded.saved[a]
    BY <2>1, <2>4, SaveAfter
  <2> HIDE DEF trip
  <2>7. After(m, Free(trip, a), ((U \cup {a}) \cup {b}) \ {a})
    BY <2>1, <2>6, FreeAfter
  <2>8. After(m, Free2(trip, a, b), (((U \cup {a}) \cup {b}) \ {a}) \ {b})
    BY <2>1, <2>7, FreeAfter DEF Free2
  <2>9. (((U \cup {a}) \cup {b}) \ {a}) \ {b} = U
    BY <2>1
  <2>10. RunIdempotencePass(n, base, last) = [mem |-> Free2(trip, a, b), differing |-> differing]
    BY <1>2 DEF RunIdempotencePass, a, b, begun, saved, loaded, trip
  <2>11. ASSUME Fit(m), last = TRUE PROVE differing = 0
    <3>1. PICK K : Shaped(trip, K)
      BY <2>6, <2>11, StillFit
    <3>2. trip.slots[a].keys = m.alive /\ trip.slots[b].keys = m.alive /\ Consistent(trip)
      BY <2>1, <2>6 DEF After
    <3>3. Agree(m.alive, trip.saved[a], trip.saved[b])
      BY <2>4, <2>6, <2>11, <2>a DEF Agree
    <3> QED BY <2>1, <3>1, <3>2, <3>3, NoDifference
  <2> HIDE DEF differing
  <2>12. /\ RunIdempotencePass(n, base, last).mem = Free2(trip, a, b)
         /\ RunIdempotencePass(n, base, last).differing = differing
    BY <2>10
  <2> QED BY <2>8, <2>9, <2>11, <2>12 DEF Clean
<1> QED BY <1>1, <1>2

LEMMA ConvergencePassKeeps ==
  ASSUME NEW m, NEW n, After(m, n, Used(m)), NEW base, Baseline(m, base)
  PROVE  /\ After(m, ConvergencePass(n, base).mem, Used(m))
         /\ Clean(m, ConvergencePass(n, base))
<1> DEFINE U == Used(m)
           x == FirstUnused(n, {})
           y == FirstUnused(n, {x})
           z == FirstUnused(n, {x, y})
           begun == Load(n, base)
           once == RoundTrip(begun, x)
           twice == RoundTrip(once, y)
           trips == Save(twice, z)
           differing == CompareSaves(trips, x, y) + CompareSaves(trips, y, z)
<1>1. CASE Cardinality(Unused(n)) < 3
  <2>1. ConvergencePass(n, base) = [mem |-> n, differing |-> -1]
    BY <1>1 DEF ConvergencePass
  <2> QED BY <2>1 DEF Clean
<1>2. CASE ~(Cardinality(Unused(n)) < 3)
  <2>1. /\ x \in Slots \ (U \cup Used(m)) /\ y \in Slots \ ((U \cup {x}) \cup Used(m))
        /\ z \in Slots \ (((U \cup {x}) \cup {y}) \cup Used(m))
        /\ x \in Slots /\ y \in Slots /\ z \in Slots /\ x \notin U /\ y \notin U /\ z \notin U
    <3>1. Unused(n) = Slots \ U
      BY NotInUse
    <3>2. x \in Unused(n) /\ y \in Unused(n) \ {x} /\ z \in Unused(n) \ {x, y}
      BY <1>2, FirstSlots
    <3> HIDE DEF x, y, z
    <3> QED BY <3>1, <3>2
  <2> HIDE DEF x, y, z
  <2>2. After(m, begun, U)
    BY LoadBaseline
  <2> HIDE DEF begun
  <2>4. /\ After(m, once, U \cup {x}) /\ once.saved[x] = begun.state
        /\ Fit(m) => Agree(m.alive, once.state, begun.state)
    BY <2>1, <2>2, RoundTripAfter
  <2> HIDE DEF once
  <2>6. /\ After(m, twice, (U \cup {x}) \cup {y}) /\ twice.saved[y] = once.state
        /\ twice.saved[x] = once.saved[x]
        /\ Fit(m) => Agree(m.alive, twice.state, once.state)
    BY <2>1, <2>4, RoundTripAfter
  <2> HIDE DEF twice
  <2>7. /\ After(m, trips, ((U \cup {x}) \cup {y}) \cup {z}) /\ trips.saved[z] = twice.state
        /\ trips.saved[x] = twice.saved[x] /\ trips.saved[y] = twice.saved[y]
    BY <2>1, <2>6, SaveAfter
  <2> HIDE DEF trips
  <2>8. After(m, Free(trips, x), (((U \cup {x}) \cup {y}) \cup {z}) \ {x})
    BY <2>1, <2>7, FreeAfter
  <2>9. After(m, Free2(trips, x, y), ((((U \cup {x}) \cup {y}) \cup {z}) \ {x}) \ {y})
    BY <2>1, <2>8, FreeAfter DEF Free2
  <2>10. After(m, Free(Free2(trips, x, y), z), (((((U \cup {x}) \cup {y}) \cup {z}) \ {x}) \ {y}) \ {z})
    BY <2>1, <2>9, FreeAfter
  <2>11. (((((U \cup {x}) \cup {y}) \cup {z}) \ {x}) \ {y}) \ {z} = U
    BY <2>1
  <2>12. ConvergencePass(n, base) = [mem |-> Free(Free2(trips, x, y), z), differing |-> differing]
    BY <1>2 DEF ConvergencePass, x, y, z, begun, once, twice, trips
  <2>13. ASSUME Fit(m) PROVE differing = 0
    <3>1. PICK K : Shaped(trips, K)
      BY <2>7, <2>13, StillFit
    <3>2. /\ trips.slots[x].keys = m.alive /\ trips.slots[y].keys = m.alive
          /\ trips.slots[z].keys = m.alive /\ Consistent(trips)
      BY <2>1, <2>7 DEF After
    <3>3. Agree(m.alive, trips.saved[x], trips.saved[y]) /\ Agree(m.alive, trips.saved[y], trips.saved[z])
      BY <2>4, <2>6, <2>7, <2>13 DEF Agree
    <3>4. CompareSaves(trips, x, y) = 0
      BY <2>1, <3>1, <3>2, <3>3, NoDifference
    <3>5. CompareSaves(trips, y, z) = 0
      BY <2>1, <3>1, <3>2, <3>3, NoDifference
    <3> QED BY <3>4, <3>5
  <2> HIDE DEF differing
  <2>14. /\ ConvergencePass(n, base).mem = Free(Free2(trips, x, y), z)
         /\ ConvergencePass(n, base).differing = differing
    BY <2>12
  <2> QED BY <2>10, <2>11, <2>13, <2>14 DEF Clean
<1> QED BY <1>1, <1>2

(* And so does the whole check: it finds nothing, and the battle and its   *)
(* save states look as they did.                                           *)
LEMMA RunIdempotenceCheckKeeps ==
  ASSUME NEW m, Consistent(m), Unused(m) # {}
  PROVE  LET check == RunIdempotenceCheck(m) IN
         /\ After(m, check.mem, Used(m))
         /\ Fit(m) => check.differing \subseteq {-1, 0} /\ Agree(m.alive, check.mem.state, m.state)
<1> DEFINE U == Used(m)
           base == FirstUnused(m, {})
           start == Save(m, base)
           gameplay == GameplayPass(start, base)
           variant1 == RunIdempotencePass(gameplay.mem, base, TRUE)
           variant2 == RunIdempotencePass(variant1.mem, base, FALSE)
           variant3 == RunIdempotencePass(variant2.mem, base, TRUE)
           convergence == ConvergencePass(variant3.mem, base)
           final == Free(Load(convergence.mem, base), base)
           differing == {r.differing : r \in {gameplay, variant1, variant3, convergence}}
<1>1. After(m, m, U)
  BY LessIsKept DEF After, Others
<1>2. base \in Slots \ U /\ base \in Slots \ (U \cup Used(m))
  <2>1. Unused(m) = Slots \ U /\ Unused(m) \ {} = Unused(m)
    BY <1>1, NotInUse
  <2>2. Min(Unused(m)) \in Unused(m)
    BY <2>1, LeastOfSlots
  <2> QED BY <2>1, <2>2 DEF FirstUnused
<1>3. RunIdempotenceCheck(m) = [mem |-> final, differing |-> differing]
  BY DEF RunIdempotenceCheck
<1> HIDE DEF base
<1>4. After(m, start, U \cup {base}) /\ start.saved[base] = m.state /\ start.state = m.state
  BY <1>1, <1>2, SaveAfter
<1> HIDE DEF start
<1>5. Used(start) = U \cup {base} /\ Baseline(start, base) /\ Consistent(start)
  BY <1>2, <1>4 DEF After, Baseline
<1>6. After(start, start, Used(start))
  BY <1>5, LessIsKept DEF After, Others
<1>7. After(start, gameplay.mem, Used(start)) /\ Clean(start, gameplay)
  BY <1>5, <1>6, GameplayPassKeeps
<1>8. After(start, variant1.mem, Used(start)) /\ Clean(start, variant1)
  <2> HIDE DEF gameplay
  <2> QED BY <1>5, <1>7, RunIdempotencePassKeeps
<1>9. After(start, variant2.mem, Used(start))
  <2> HIDE DEF variant1
  <2> QED BY <1>5, <1>8, RunIdempotencePassKeeps
<1>10. After(start, variant3.mem, Used(start)) /\ Clean(start, variant3)
  <2> HIDE DEF variant2
  <2> QED BY <1>5, <1>9, RunIdempotencePassKeeps
<1>11. After(start, convergence.mem, Used(start)) /\ Clean(start, convergence)
  <2> HIDE DEF variant3
  <2> QED BY <1>5, <1>10, ConvergencePassKeeps
<1> HIDE DEF gameplay, variant1, variant2, variant3, convergence
<1>12. /\ After(start, Load(convergence.mem, base), Used(start))
       /\ Fit(start) => Agree(start.alive, Load(convergence.mem, base).state, start.saved[base])
  BY <1>5, <1>11, LoadBaseline
<1>13. /\ After(start, final, Used(start) \ {base})
       /\ final.state = Load(convergence.mem, base).state
  BY <1>2, <1>12, FreeAfter
<1> HIDE DEF final
<1>14. Used(start) \ {base} = U /\ U = Used(m)
  BY <1>2, <1>5
<1>15. Fit(m) => Fit(start)
  BY <1>4, StillFit
<1>16. After(m, final, Used(m))
  <2>1. Kept(m, final)
    BY <1>4, <1>13, KeptTwice DEF After
  <2>2. \A s \in Used(m) : final.slots[s] = m.slots[s] /\ final.saved[s] = m.saved[s]
    BY <1>4, <1>5, <1>13, <1>14 DEF After
  <2>3. Fit(m) => Others(m.alive, final.state, m.state)
    BY <1>4, <1>13, <1>15 DEF After, Others
  <2>4. Consistent(final) /\ final.alive = m.alive /\ Used(final) = Used(m)
    BY <1>4, <1>13, <1>14 DEF After
  <2> QED BY <2>1, <2>2, <2>3, <2>4 DEF After
<1>17. Fit(m) => differing \subseteq {-1, 0}
  <2>1. \A r \in {gameplay, variant1, variant3, convergence} : Clean(start, r)
    BY <1>7, <1>8, <1>10, <1>11
  <2> QED BY <2>1, <1>15 DEF Clean
<1>18. Fit(m) => Agree(m.alive, final.state, m.state)
  BY <1>4, <1>12, <1>13, <1>15 DEF After
<1> HIDE DEF differing
<1> QED BY <1>3, <1>16, <1>17, <1>18

-----------------------------------------------------------------------------
(* The sync test.                                                          *)

(* The next place of the ring after that of a frame is the next frame's.   *)
LEMMA NextPlace ==
  ASSUME NEW a \in Nat, NEW n \in Nat, n > 1
  PROVE  a % n \in 0 .. n - 1 /\ ((a % n) + 1) % n = (a + 1) % n
<1> DEFINE x == a \div n
           r == a % n
           y == (a + 1) \div n
           s == (a + 1) % n
<1>1. /\ a = n * x + r /\ x \in Int /\ r \in 0 .. n - 1
      /\ a + 1 = n * y + s /\ y \in Int /\ s \in 0 .. n - 1
  OBVIOUS
<1> HIDE DEF x, y, r, s
<1>2. n * y + s = n * x + r + 1
  BY <1>1
<1>3. CASE r + 1 < n
  <2>1. y = x
    <3>1. CASE y <= x - 1
      <4>1. n * y <= n * (x - 1) /\ n * (x - 1) = n * x - n
        BY <3>1, <1>1
      <4> HIDE DEF x
      <4> QED BY <4>1, <1>1, <1>2
    <3>2. CASE y >= x + 1
      <4>1. n * y >= n * (x + 1) /\ n * (x + 1) = n * x + n
        BY <3>2, <1>1
      <4> QED BY <4>1, <1>1, <1>2, <1>3
    <3> QED BY <3>1, <3>2, <1>1
  <2>2. s = r + 1
    BY <2>1, <1>1, <1>2
  <2>3. (r + 1) % n = r + 1
    BY <1>1, <1>3
  <2> QED BY <2>2, <2>3, <1>1 DEF r, s
<1>4. CASE r + 1 = n
  <2>1. y = x + 1
    <3>1. CASE y <= x
      <4>1. n * y <= n * x
        BY <3>1, <1>1
      <4> QED BY <4>1, <1>1, <1>2, <1>4
    <3>2. CASE y >= x + 2
      <4>1. n * y >= n * (x + 2) /\ n * (x + 2) = n * x + n + n
        BY <3>2, <1>1
      <4> QED BY <4>1, <1>1, <1>2, <1>4
    <3> QED BY <3>1, <3>2, <1>1
  <2>2. n * y = n * x + n
    BY <2>1, <1>1
  <2>3. s = 0
    BY <2>2, <1>1, <1>2, <1>4
  <2>4. (r + 1) % n = 0
    BY <1>1, <1>4
  <2> QED BY <2>3, <2>4, <1>1 DEF r, s
<1> QED BY <1>1, <1>3, <1>4 DEF r

LEMMA PlaceOf ==
  ASSUME NEW f \in Nat
  PROVE  /\ f % NUM_SAVE_STATES \in Ring
         /\ ((f % NUM_SAVE_STATES) + 1) % NUM_SAVE_STATES = (f + 1) % NUM_SAVE_STATES
<1>1. NUM_SAVE_STATES \in Nat /\ NUM_SAVE_STATES > 1
  BY ConstantsTyped
<1> QED BY <1>1, NextPlace, ConstantsTyped

(* A sync test: what GGPO holds, and the frames and inputs it counts.      *)
Counted(y) ==
  y \in [distance : {y.distance}, frame : Nat, verified : Nat, inputs : Seq(Parts \X Values),
         records : {y.records}, mismatches : {y.mismatches}, gameplay : {y.gameplay},
         losses : {y.losses}, crossed : {y.crossed}]

Tested(t) == t \in [g : {t.g}, sync : {t.sync}] /\ Held(t.g) /\ Counted(t.sync)

(* Every frame was saved at its place in the ring, and the next comes next.*)
InStep(t) ==
  /\ Tested(t) /\ t.g.head = (t.sync.frame + 1) % NUM_SAVE_STATES
  /\ \A j \in 0 .. t.sync.frame : t.g.ring[j % NUM_SAVE_STATES] # None

Counts(t, r) ==
  /\ r.sync.frame = t.sync.frame /\ r.sync.verified = t.sync.verified
  /\ r.sync.inputs = t.sync.inputs /\ r.sync.crossed = t.sync.crossed

(* What is recorded of a frame does not count.                             *)
LEMMA VerifyCounts ==
  ASSUME NEW y, Counted(y), NEW rec
  PROVE  LET z == SyncTestVerify(y, rec) IN
         /\ Counted(z) /\ z.frame = y.frame /\ z.verified = y.verified
         /\ z.inputs = y.inputs /\ z.crossed = y.crossed
<1> DEFINE f == y.frame
           again == f \in DOMAIN y.records
           kept == {h \in (DOMAIN y.records \cup {f}) \ (IF again THEN {f} ELSE {}) :
                      h >= f - (2 * y.distance + NUM_SAVE_STATES + 8)}
           records == [h \in kept |-> IF h = f THEN rec ELSE y.records[h]]
           mismatches == y.mismatches
                         + (IF again /\ y.records[f].checksum # rec.checksum THEN 1 ELSE 0)
           gameplay == y.gameplay
                       + (IF again /\ y.records[f].snapshot # rec.snapshot THEN 1 ELSE 0)
           losses == y.losses + (IF again /\ Telling(y.records[f]) # Telling(rec) THEN 1 ELSE 0)
<1>1. SyncTestVerify(y, rec) =
        [y EXCEPT !.records = records, !.mismatches = mismatches, !.gameplay = gameplay,
                  !.losses = losses]
  BY Zenon DEF SyncTestVerify
<1> HIDE DEF records, mismatches, gameplay, losses
<1> QED BY <1>1 DEF Counted

(* Where a frame is saved.                                                 *)
Place(f) == f % NUM_SAVE_STATES

(* What became of a test: its frame is saved at its place and verified,    *)
(* and what is at other places stays there.                                *)
Verified(t, r) ==
  /\ r.g.mem.state = t.g.mem.state /\ HoldsAt(r.g, Place(t.sync.frame), t.g.mem.state)
  /\ \A j \in Ring \ {Place(t.sync.frame)} : Stays(t.g, r.g, j)
  /\ r.sync = SyncTestVerify(t.sync, Record(r.g.mem, r.g.ring[Place(t.sync.frame)]))

(* Saving a frame at its place gets the test in step.                      *)
LEMMA SaveAndVerifyKeeps ==
  ASSUME NEW t, Tested(t), t.g.head = t.sync.frame % NUM_SAVE_STATES,
         \A j \in 0 .. t.sync.frame : j # t.sync.frame => t.g.ring[j % NUM_SAVE_STATES] # None
  PROVE  LET r == SaveAndVerify(t) IN
         /\ InStep(r) /\ Counts(t, r) /\ r.g.mem.alive = t.g.mem.alive
         /\ Kept(t.g.mem, r.g.mem) /\ Verified(t, r)
<1> DEFINE g == SaveFrame(t.g)
           rec == Record(g.mem, g.ring[t.g.head])
           r == SaveAndVerify(t)
<1>1. r = [g |-> g, sync |-> SyncTestVerify(t.sync, rec)]
  BY DEF SaveAndVerify
<1>2. /\ Held(g) /\ g.mem.alive = t.g.mem.alive /\ Kept(t.g.mem, g.mem)
      /\ g.ring[t.g.head] # None /\ g.head = (t.g.head + 1) % NUM_SAVE_STATES
      /\ \A j \in Ring \ {t.g.head} : g.ring[j] = t.g.ring[j]
      /\ g.mem.state = t.g.mem.state /\ HoldsAt(g, t.g.head, t.g.mem.state)
      /\ \A j \in Ring \ {t.g.head} : Stays(t.g, g, j)
  <2>1. Held(t.g)
    BY DEF Tested
  <2> QED BY <2>1, SaveFrameProperties
<1>r. rec = Record(g.mem, g.ring[t.g.head])
  OBVIOUS
<1> HIDE DEF g, rec, r
<1>3. r.g = g /\ r.sync = SyncTestVerify(t.sync, rec) /\ r \in [g : {r.g}, sync : {r.sync}]
  BY <1>1
<1>4. Counted(r.sync) /\ Counts(t, r)
  BY <1>3, VerifyCounts DEF Tested, Counts
<1>5. Tested(r)
  BY <1>2, <1>3, <1>4 DEF Tested
<1>6. t.sync.frame \in Nat
  BY DEF Tested, Counted
<1>7. r.g.head = (r.sync.frame + 1) % NUM_SAVE_STATES
  BY <1>2, <1>3, <1>4, <1>6, PlaceOf DEF Counts
<1>8. ASSUME NEW j \in 0 .. r.sync.frame PROVE r.g.ring[j % NUM_SAVE_STATES] # None
  <2>1. j \in 0 .. t.sync.frame /\ j % NUM_SAVE_STATES \in Ring
    BY <1>4, <1>6, PlaceOf DEF Counts
  <2>2. CASE j % NUM_SAVE_STATES = t.g.head
    BY <2>2, <1>2, <1>3
  <2>3. CASE j % NUM_SAVE_STATES # t.g.head
    BY <2>1, <2>3, <1>2, <1>3
  <2> QED BY <2>2, <2>3
<1>9. Verified(t, r)
  BY <1>2, <1>3, <1>r DEF Verified, Place
<1> QED BY <1>2, <1>3, <1>4, <1>5, <1>7, <1>8, <1>9 DEF InStep, r

(* What became of a test after a frame with this input.                    *)
Further(t, in, r) ==
  /\ r.g.mem.state = [t.g.mem.state EXCEPT ![in[1]] = in[2]]
  /\ in[1] \in t.g.mem.alive \cup {Globals} => r.g.mem.alive = t.g.mem.alive
  /\ HoldsAt(r.g, Place(t.sync.frame + 1), r.g.mem.state)
  /\ \A j \in Ring \ {Place(t.sync.frame + 1)} : Stays(t.g, r.g, j)
  /\ r.sync = SyncTestVerify([t.sync EXCEPT !.frame = @ + 1],
                             Record(r.g.mem, r.g.ring[Place(t.sync.frame + 1)]))

(* A frame further.                                                        *)
LEMMA AdvanceKeeps ==
  ASSUME NEW t, InStep(t), NEW in \in Parts \X Values
  PROVE  LET r == Advance(t, in) IN
         /\ InStep(r) /\ r.sync.frame = t.sync.frame + 1
         /\ r.sync.verified = t.sync.verified /\ r.sync.inputs = t.sync.inputs
         /\ r.sync.crossed = t.sync.crossed
         /\ KeptBy({in}, t.g.mem, r.g.mem) /\ Further(t, in, r)
<1> DEFINE m == Simulated(t.g.mem, in[1], in[2])
           u == [g |-> [t.g EXCEPT !.mem = m],
                 sync |-> [t.sync EXCEPT !.frame = @ + 1]]
<1>1. Tested(t) /\ Held(t.g) /\ Counted(t.sync) /\ t.sync.frame \in Nat
  BY DEF InStep, Tested, Counted
<1>2. /\ Consistent(m) /\ m.slots = t.g.mem.slots /\ KeptBy({in}, t.g.mem, m)
      /\ m.state = [t.g.mem.state EXCEPT ![in[1]] = in[2]] /\ m.saved = t.g.mem.saved
      /\ in[1] \in t.g.mem.alive \cup {Globals} => m.alive = t.g.mem.alive
  <2>1. in[1] \in Parts /\ Consistent(t.g.mem)
    BY <1>1 DEF Held
  <2> QED BY <2>1, SimulatedProperties, SimulatedKept
<1> HIDE DEF m
<1>3. Held(u.g) /\ u.g.ring = t.g.ring /\ u.g.head = t.g.head /\ u.g.mem = m
  <2>1. /\ u.g.mem = m /\ u.g.ring = t.g.ring /\ u.g.head = t.g.head
        /\ u.g \in [mem : {u.g.mem}, ring : [Ring -> Slots \cup {None}], head : Ring]
    BY <1>1 DEF Held
  <2> HIDE DEF u
  <2> QED BY <2>1, <1>1, <1>2 DEF Held, Used
<1>4. /\ u.sync.frame = t.sync.frame + 1 /\ u.sync.verified = t.sync.verified
      /\ u.sync.inputs = t.sync.inputs /\ u \in [g : {u.g}, sync : {u.sync}]
      /\ u.sync.crossed = t.sync.crossed /\ Counted(u.sync)
  BY <1>1 DEF Counted
<1>5. Advance(t, in) = SaveAndVerify(u) /\ u.sync = [t.sync EXCEPT !.frame = @ + 1]
  BY DEF Advance, m
<1> HIDE DEF u
<1>6. Tested(u)
  BY <1>3, <1>4 DEF Tested
<1>7. u.g.head = u.sync.frame % NUM_SAVE_STATES
  BY <1>3, <1>4 DEF InStep
<1>8. \A j \in 0 .. u.sync.frame : j # u.sync.frame => u.g.ring[j % NUM_SAVE_STATES] # None
  <2> SUFFICES ASSUME NEW j \in 0 .. u.sync.frame, j # u.sync.frame
               PROVE  u.g.ring[j % NUM_SAVE_STATES] # None
    OBVIOUS
  <2>1. j \in 0 .. t.sync.frame
    BY <1>1, <1>4
  <2> QED BY <2>1, <1>3 DEF InStep
<1>9. /\ InStep(SaveAndVerify(u)) /\ Counts(u, SaveAndVerify(u))
      /\ Kept(u.g.mem, SaveAndVerify(u).g.mem) /\ Verified(u, SaveAndVerify(u))
      /\ SaveAndVerify(u).g.mem.alive = u.g.mem.alive
  BY <1>6, <1>7, <1>8, SaveAndVerifyKeeps
<1>10. KeptBy({in}, t.g.mem, SaveAndVerify(u).g.mem)
  BY <1>2, <1>3, <1>9, KeptByAll DEF Kept
<1>11. Further(t, in, SaveAndVerify(u))
  <2> DEFINE r == SaveAndVerify(u)
  <2> HIDE DEF r
  <2>1. Verified(u, r) /\ r.g.mem.alive = u.g.mem.alive
    BY <1>9 DEF r
  <2>2. \A j \in Ring : Stays(u.g, r.g, j) => Stays(t.g, r.g, j)
    BY <1>2, <1>3 DEF Stays
  <2>3. Further(t, in, r)
    BY <2>1, <2>2, <1>2, <1>3, <1>4, <1>5 DEF Verified, Further
  <2> QED BY <2>3 DEF r
<1> QED BY <1>4, <1>5, <1>9, <1>10, <1>11 DEF Counts

(* Frames that follow one another, each with its input.                    *)
Frames(h, t, inputs, n) ==
  h[0] = t /\ \A k \in 1 .. n : h[k] = Advance(h[k - 1], inputs[k])

(* A fold over the inputs is one frame after the other: the folding        *)
(* function exists, for as many inputs as there are.                       *)
LEMMA FrameByFrame ==
  ASSUME NEW t, NEW n \in Nat, NEW inputs, DOMAIN inputs = 1 .. n
  PROVE  \E h : Frames(h, t, inputs, n) /\ FoldLeft(Advance, t, inputs) = h[n]
<1> DEFINE Rec(g, j) == g = [T \in SUBSET (1 .. j) |->
                               IF T = {} THEN t ELSE Advance(g[T \ {Max(T)}], inputs[Max(T)])]
           iter == CHOOSE g : Rec(g, n)
<1>1. FoldLeft(Advance, t, inputs) = iter[1 .. n]
  BY DEF FoldLeft, MapThenFoldSet
<1> HIDE DEF Rec
<1>2. \A j \in 0 .. n : \E g : Rec(g, j)
  <2> DEFINE B == {j \in 0 .. n : ~\E g : Rec(g, j)}
  <2> SUFFICES ASSUME B # {} PROVE FALSE
    OBVIOUS
  <2>1. PICK j \in B : \A k \in B : j <= k
    <3>1. B \in SUBSET Nat
      OBVIOUS
    <3> QED BY <3>1, LeastNatural
  <2>2. j # 0
    <3>1. Rec([T \in SUBSET (1 .. 0) |-> t], 0)
      BY DEF Rec
    <3> QED BY <3>1, <2>1
  <2>3. j \in 1 .. n /\ j - 1 \in 0 .. n /\ j - 1 \notin B
    BY <2>1, <2>2
  <2>4. PICK g0 : Rec(g0, j - 1)
    BY <2>3
  <2>5. \A T \in SUBSET (1 .. j - 1) :
          g0[T] = IF T = {} THEN t ELSE Advance(g0[T \ {Max(T)}], inputs[Max(T)])
    BY <2>4, Zenon DEF Rec
  <2> DEFINE g1 == [T \in SUBSET (1 .. j) |->
                      IF j \in T THEN Advance(g0[T \ {j}], inputs[j]) ELSE g0[T]]
  <2>6. ASSUME NEW T \in SUBSET (1 .. j)
        PROVE  g1[T] = IF T = {} THEN t ELSE Advance(g1[T \ {Max(T)}], inputs[Max(T)])
    <3>1. CASE T = {}
      <4>1. g1[T] = g0[{}] /\ {} \in SUBSET (1 .. j - 1)
        BY <3>1
      <4> QED BY <3>1, <4>1, <2>5
    <3>2. CASE j \in T
      <4>1. j \in Nat /\ T # {}
        BY <3>2, <2>3
      <4>2. Max(T) \in T /\ \A y \in T : y <= Max(T)
        BY <4>1, GreatestOfFirst
      <4>3. Max(T) \in 1 .. j /\ j <= Max(T)
        BY <4>2, <3>2
      <4>4. Max(T) = j
        BY <4>1, <4>3
      <4>5. g1[T \ {j}] = g0[T \ {j}]
        OBVIOUS
      <4> QED BY <3>2, <4>4, <4>5, <4>1
    <3>3. CASE T # {} /\ j \notin T
      <4>1. T \in SUBSET (1 .. j - 1) /\ g1[T] = g0[T]
        BY <3>3, <2>3
      <4>2. j \in Nat
        BY <2>3
      <4>3. Max(T) \in T
        BY <4>2, <3>3, GreatestOfFirst
      <4>4. g1[T \ {Max(T)}] = g0[T \ {Max(T)}]
        BY <3>3
      <4>5. g0[T] = Advance(g0[T \ {Max(T)}], inputs[Max(T)])
        BY <2>5, <4>1, <3>3
      <4> QED BY <3>3, <4>1, <4>4, <4>5
    <3> QED BY <3>1, <3>2, <3>3
  <2>7. Rec(g1, j)
    <3>1. g1 = [T \in SUBSET (1 .. j) |-> g1[T]]
      OBVIOUS
    <3> HIDE DEF g1
    <3> QED BY <3>1, <2>6 DEF Rec
  <2> QED BY <2>1, <2>7
<1>3. Rec(iter, n)
  <2>1. \E g : Rec(g, n)
    BY <1>2
  <2> QED BY <2>1
<1> HIDE DEF iter
<1>4. \A T \in SUBSET (1 .. n) :
        iter[T] = IF T = {} THEN t ELSE Advance(iter[T \ {Max(T)}], inputs[Max(T)])
  BY <1>3, Zenon DEF Rec
<1> DEFINE h == [k \in 0 .. n |-> iter[1 .. k]]
<1>5. h[0] = t
  <2>1. h[0] = iter[1 .. 0] /\ 1 .. 0 = {} /\ {} \in SUBSET (1 .. n)
    OBVIOUS
  <2> QED BY <1>4, <2>1
<1>6. ASSUME NEW k \in 1 .. n PROVE h[k] = Advance(h[k - 1], inputs[k])
  <2>1. 1 .. k \in SUBSET (1 .. n) /\ k \in 1 .. k /\ k \in Nat
    OBVIOUS
  <2>2. Max(1 .. k) \in 1 .. k /\ \A y \in 1 .. k : y <= Max(1 .. k)
    BY <2>1, GreatestOfFirst
  <2>3. Max(1 .. k) = k
    BY <2>1, <2>2
  <2>4. (1 .. k) \ {k} = 1 .. (k - 1) /\ k - 1 \in 0 .. n
    OBVIOUS
  <2>5. iter[1 .. k] = Advance(iter[(1 .. k) \ {k}], inputs[k])
    BY <1>4, <2>1, <2>3
  <2>6. h[k] = iter[1 .. k] /\ h[k - 1] = iter[1 .. (k - 1)]
    BY <2>4
  <2> QED BY <2>4, <2>5, <2>6
<1>7. FoldLeft(Advance, t, inputs) = h[n]
  BY <1>1
<1> HIDE DEF h
<1> QED BY <1>5, <1>6, <1>7 DEF Frames

(* The inputs of a sequence, and those that a test is going to replay.     *)
InputsOf(inputs) == {inputs[k] : k \in DOMAIN inputs}
Told(y) == InputsOf(y.inputs)

(* So many frames further.                                                 *)
LEMMA FramesKeep ==
  ASSUME NEW t, InStep(t), NEW inputs \in Seq(Parts \X Values)
  PROVE  LET r == FoldLeft(Advance, t, inputs) IN
         /\ InStep(r) /\ r.sync.frame = t.sync.frame + Len(inputs)
         /\ r.sync.inputs = t.sync.inputs /\ r.sync.crossed = t.sync.crossed
         /\ KeptBy(InputsOf(inputs), t.g.mem, r.g.mem)
<1> DEFINE n == Len(inputs)
<1>1. n \in Nat /\ DOMAIN inputs = 1 .. n /\ \A k \in 1 .. n : inputs[k] \in Parts \X Values
  OBVIOUS
<1> HIDE DEF n
<1>2. PICK h : Frames(h, t, inputs, n) /\ FoldLeft(Advance, t, inputs) = h[n]
  BY <1>1, FrameByFrame
<1> DEFINE Good(k) == /\ InStep(h[k]) /\ h[k].sync.frame = t.sync.frame + k
                      /\ h[k].sync.inputs = t.sync.inputs /\ h[k].sync.crossed = t.sync.crossed
                      /\ KeptBy(InputsOf(inputs), t.g.mem, h[k].g.mem)
           B == {k \in 0 .. n : ~Good(k)}
<1>0. t.sync.frame \in Nat
  BY DEF InStep, Tested, Counted
<1>3. B = {}
  <2> SUFFICES ASSUME B # {} PROVE FALSE
    OBVIOUS
  <2>1. PICK j \in B : \A k \in B : j <= k
    <3>1. B \in SUBSET Nat
      OBVIOUS
    <3> QED BY <3>1, LeastNatural
  <2>2. j # 0
    <3>0. KeptBy(InputsOf(inputs), t.g.mem, t.g.mem)
      BY DEF KeptBy
    <3>1. Good(0)
      BY <3>0, <1>0, <1>2 DEF Frames
    <3> HIDE DEF Good
    <3> QED BY <3>1, <2>1
  <2>3. j \in 1 .. n /\ Good(j - 1)
    <3> HIDE DEF Good
    <3>1. j \in 1 .. n /\ j - 1 \in 0 .. n
      BY <2>1, <2>2, <1>1
    <3>2. j - 1 \notin B
      BY <3>1, <2>1
    <3> QED BY <3>1, <3>2
  <2>4. h[j] = Advance(h[j - 1], inputs[j]) /\ inputs[j] \in Parts \X Values
    BY <2>3, <1>1, <1>2 DEF Frames
  <2>5. /\ InStep(h[j]) /\ h[j].sync.frame = h[j - 1].sync.frame + 1
        /\ h[j].sync.inputs = h[j - 1].sync.inputs /\ h[j].sync.crossed = h[j - 1].sync.crossed
        /\ KeptBy({inputs[j]}, h[j - 1].g.mem, h[j].g.mem)
    <3>1. InStep(h[j - 1])
      BY <2>3
    <3> DEFINE before == h[j - 1]
               in == inputs[j]
               next == Advance(before, in)
    <3>2. InStep(before) /\ in \in Parts \X Values /\ h[j] = next
      BY <3>1, <2>4
    <3> HIDE DEF before, in
    <3>3. /\ InStep(next) /\ next.sync.frame = before.sync.frame + 1
          /\ next.sync.inputs = before.sync.inputs
          /\ KeptBy({in}, before.g.mem, next.g.mem)
      BY <3>2, AdvanceKeeps
    <3>4. next.sync.crossed = before.sync.crossed
      BY <3>2, AdvanceKeeps, Zenon
    <3> HIDE DEF next
    <3> QED BY <3>2, <3>3, <3>4 DEF before, in
  <2>7. KeptBy(InputsOf(inputs), t.g.mem, h[j].g.mem)
    <3>1. KeptBy(InputsOf(inputs), t.g.mem, h[j - 1].g.mem)
      BY <2>3
    <3>2. {inputs[j]} \subseteq InputsOf(inputs)
      BY <2>3, <1>1 DEF InputsOf
    <3> QED BY <3>1, <3>2, <2>5, KeptByAll
  <2>6. Good(j)
    BY <2>3, <2>5, <2>7, <1>0
  <2> HIDE DEF Good
  <2> QED BY <2>1, <2>6
<1>4. n \in 0 .. n
  BY <1>1
<1>5. Good(n)
  <2> HIDE DEF Good
  <2> QED BY <1>3, <1>4
<1> QED BY <1>2, <1>5 DEF n

(* Whether a replay starts across a reset.                                 *)
Across(t) == Crosses(t.g.mem, t.g.ring[t.sync.verified % NUM_SAVE_STATES])

(* And what is left to do after it.                                        *)
Replayed(t) == [t EXCEPT !.sync.verified = t.sync.frame, !.sync.inputs = <<>>]

LEMMA ReplayStarts ==
  ASSUME NEW t, InStep(t), t.sync.verified <= t.sync.frame, NEW kept, NEW from, from = ReplayFrom(t, kept)
  PROVE  /\ InStep(from)
         /\ from.sync = [t.sync EXCEPT !.frame = t.sync.verified,
                                       !.crossed = t.sync.crossed \/ Across(t)]
         /\ from.g.mem.alive = t.g.mem.alive /\ Kept(t.g.mem, from.g.mem)
         /\ \A state : Fit(t.g.mem) /\ ~Across(t) /\ HoldsAt(t.g, Place(t.sync.verified), state) =>
              /\ Agree(t.g.mem.alive, from.g.mem.state, state)
              /\ Others(t.g.mem.alive, from.g.mem.state, t.g.mem.state)
<1> DEFINE v == t.sync.verified
           i == v % NUM_SAVE_STATES
           g == LoadFrame(t.g, i, kept)
           crossed == t.sync.crossed \/ Across(t)
<1>1. Held(t.g) /\ Counted(t.sync) /\ v \in Nat /\ t.sync.frame \in Nat
  BY DEF InStep, Tested, Counted
<1>2. from = [g |-> g, sync |-> [t.sync EXCEPT !.frame = v, !.crossed = crossed]]
  BY <1>1 DEF ReplayFrom, Across, Counted
<1>3. i \in Ring /\ t.g.ring[i] # None /\ i = Place(v)
  <2>1. i \in Ring
    BY <1>1, PlaceOf
  <2>2. v \in 0 .. t.sync.frame
    BY <1>1
  <2>3. \A j \in 0 .. t.sync.frame : t.g.ring[j % NUM_SAVE_STATES] # None
    BY DEF InStep
  <2> QED BY <2>1, <2>2, <2>3 DEF Place
<1>4. /\ Held(g) /\ g.ring = t.g.ring /\ g.head = (i + 1) % NUM_SAVE_STATES
      /\ Kept(t.g.mem, g.mem) /\ g.mem.alive = t.g.mem.alive
      /\ Fit(t.g.mem) /\ t.g.mem.slots[t.g.ring[i]].keys = t.g.mem.alive /\ ~Across(t) =>
           /\ Agree(t.g.mem.alive, g.mem.state, t.g.mem.saved[t.g.ring[i]])
           /\ Others(t.g.mem.alive, g.mem.state, t.g.mem.state)
  BY <1>1, <1>3, HeldIsRinged, LoadFrameProperties DEF Across
<1>5. (i + 1) % NUM_SAVE_STATES = (v + 1) % NUM_SAVE_STATES
  BY <1>1, PlaceOf
<1> HIDE DEF g, i, crossed
<1>6. /\ Counted(from.sync) /\ from.sync.frame = v /\ from.g = g
      /\ from \in [g : {from.g}, sync : {from.sync}]
      /\ from.sync = [t.sync EXCEPT !.frame = v, !.crossed = crossed]
  <2>1. PICK c : c = crossed
    OBVIOUS
  <2>2. /\ from.g = g /\ from.sync = [t.sync EXCEPT !.frame = v, !.crossed = c]
        /\ from \in [g : {from.g}, sync : {from.sync}]
    BY <2>1, <1>2
  <2>3. Counted(from.sync) /\ from.sync.frame = v
    BY <2>2, <1>1 DEF Counted
  <2> QED BY <2>1, <2>2, <2>3
<1>7. InStep(from)
  <2>1. \A j \in 0 .. v : from.g.ring[j % NUM_SAVE_STATES] # None
    BY <1>1, <1>4, <1>6 DEF InStep
  <2> QED BY <2>1, <1>4, <1>5, <1>6 DEF InStep, Tested
<1>8. ASSUME NEW state, Fit(t.g.mem), ~Across(t), HoldsAt(t.g, Place(v), state)
      PROVE  /\ Agree(t.g.mem.alive, from.g.mem.state, state)
             /\ Others(t.g.mem.alive, from.g.mem.state, t.g.mem.state)
  <2>1. t.g.mem.slots[t.g.ring[i]].keys = t.g.mem.alive /\ t.g.mem.saved[t.g.ring[i]] = state
    BY <1>3, <1>8 DEF HoldsAt
  <2> QED BY <2>1, <1>4, <1>6, <1>8
<1> QED BY <1>4, <1>6, <1>7, <1>8 DEF crossed

LEMMA ReplayEnds ==
  ASSUME NEW t, InStep(t), NEW r, r = Replayed(t)
  PROVE  /\ InStep(r) /\ r.g = t.g
         /\ r.sync = [t.sync EXCEPT !.verified = t.sync.frame, !.inputs = <<>>]
         /\ r.sync.frame = t.sync.frame /\ r.sync.verified = t.sync.frame /\ r.sync.inputs = <<>>
         /\ r.sync.crossed = t.sync.crossed
<1>1. Counted(t.sync) /\ t \in [g : {t.g}, sync : {t.sync}] /\ t.sync.frame \in Nat
  BY DEF InStep, Tested, Counted
<1>2. <<>> \in Seq(Parts \X Values)
  OBVIOUS
<1>3. /\ r.g = t.g /\ r.sync = [t.sync EXCEPT !.verified = t.sync.frame, !.inputs = <<>>]
      /\ r \in [g : {r.g}, sync : {r.sync}]
  BY <1>1 DEF Replayed, Counted
<1>4. /\ r.sync.frame = t.sync.frame /\ r.sync.verified = t.sync.frame /\ r.sync.inputs = <<>>
      /\ r.sync.crossed = t.sync.crossed /\ Counted(r.sync)
  BY <1>1, <1>2, <1>3 DEF Counted
<1> QED BY <1>3, <1>4 DEF InStep, Tested

(* Back, and the same frames again.                                        *)
LEMMA ReplayKeeps ==
  ASSUME NEW t, InStep(t), t.sync.verified <= t.sync.frame, NEW kept
  PROVE  LET r == Replay(t, kept) IN
         /\ InStep(r) /\ r.sync.verified <= r.sync.frame
         /\ r.sync.crossed = (t.sync.crossed \/ Across(t))
         /\ r.sync.frame = t.sync.verified + Len(t.sync.inputs) /\ r.sync.inputs = <<>>
         /\ KeptBy(Told(t.sync), t.g.mem, r.g.mem)
<1> DEFINE v == t.sync.verified
           from == ReplayFrom(t, kept)
           done == FoldLeft(Advance, from, t.sync.inputs)
           crossed == t.sync.crossed \/ Across(t)
           r == Replayed(done)
<1>1. Counted(t.sync) /\ v \in Nat /\ t.sync.inputs \in Seq(Parts \X Values)
  BY DEF InStep, Tested, Counted
<1>2. Replay(t, kept) = r
  BY DEF Replay, Replayed
<1>3. /\ InStep(from) /\ from.sync = [t.sync EXCEPT !.frame = v, !.crossed = crossed]
      /\ Kept(t.g.mem, from.g.mem)
  BY ReplayStarts
<1> HIDE DEF from, done, r, crossed
<1>4. from.sync.frame = v /\ from.sync.inputs = t.sync.inputs /\ from.sync.crossed = crossed
  BY <1>1, <1>3 DEF Counted
<1>5. /\ InStep(done) /\ done.sync.frame = v + Len(t.sync.inputs) /\ done.sync.crossed = crossed
      /\ KeptBy(InputsOf(t.sync.inputs), from.g.mem, done.g.mem)
  <2> DEFINE inputs == t.sync.inputs
  <2>1. InStep(from) /\ inputs \in Seq(Parts \X Values) /\ done = FoldLeft(Advance, from, inputs)
    BY <1>1, <1>3 DEF done
  <2> HIDE DEF inputs
  <2>2. /\ InStep(done) /\ done.sync.frame = from.sync.frame + Len(inputs)
        /\ done.sync.crossed = from.sync.crossed
        /\ KeptBy(InputsOf(inputs), from.g.mem, done.g.mem)
    BY <2>1, FramesKeep
  <2> QED BY <2>2, <1>4 DEF inputs
<1>6. /\ InStep(r) /\ r.g = done.g /\ r.sync.frame = done.sync.frame
      /\ r.sync.verified = done.sync.frame /\ r.sync.inputs = <<>> /\ r.sync.crossed = done.sync.crossed
  BY <1>5, ReplayEnds DEF r
<1>7. done.sync.frame \in Nat
  BY <1>5 DEF InStep, Tested, Counted
<1>8. KeptBy(Told(t.sync), t.g.mem, r.g.mem)
  BY <1>3, <1>5, <1>6, KeptByAll DEF Kept, Told
<1> QED BY <1>2, <1>5, <1>6, <1>7, <1>8 DEF crossed

(* An input is put down before it is simulated.                            *)
Tell(t, in) == [t EXCEPT !.sync.inputs = Append(@, in)]

(* Which is all that becomes of the test.                                  *)
PutDown(t, in, r) ==
  /\ r.g = t.g /\ r.sync.frame = t.sync.frame /\ r.sync.verified = t.sync.verified
  /\ r.sync.inputs = Append(t.sync.inputs, in) /\ t.sync.inputs \in Seq(Parts \X Values)
  /\ r.sync.records = t.sync.records /\ r.sync.distance = t.sync.distance
  /\ r.sync.losses = t.sync.losses /\ r.sync.gameplay = t.sync.gameplay
  /\ r.sync.crossed = t.sync.crossed

LEMMA TellKeeps ==
  ASSUME NEW t, InStep(t), NEW in \in Parts \X Values, NEW r, r = Tell(t, in)
  PROVE  InStep(r) /\ PutDown(t, in, r)
<1> DEFINE inputs == Append(t.sync.inputs, in)
<1>1. Counted(t.sync) /\ t \in [g : {t.g}, sync : {t.sync}]
  BY DEF InStep, Tested
<1>2. inputs \in Seq(Parts \X Values) /\ t.sync.inputs \in Seq(Parts \X Values)
  BY <1>1 DEF Counted
<1>3. /\ r.g = t.g /\ r.sync = [t.sync EXCEPT !.inputs = inputs]
      /\ r \in [g : {r.g}, sync : {r.sync}]
  BY <1>1 DEF Tell
<1> HIDE DEF inputs
<1>4. /\ Counted(r.sync) /\ r.sync.frame = t.sync.frame
      /\ r.sync.verified = t.sync.verified /\ r.sync.inputs = inputs
      /\ r.sync.records = t.sync.records /\ r.sync.distance = t.sync.distance
      /\ r.sync.losses = t.sync.losses /\ r.sync.gameplay = t.sync.gameplay
      /\ r.sync.crossed = t.sync.crossed
  BY <1>1, <1>2, <1>3 DEF Counted
<1>5. InStep(r)
  BY <1>1, <1>3, <1>4 DEF InStep, Tested
<1> QED BY <1>2, <1>3, <1>4, <1>5 DEF inputs, PutDown

(* Between two frames the test is in step, once it has begun.              *)
Testing ==
  LET t == [g |-> Battle, sync |-> sync]
  IN  /\ Held(Battle) /\ Counted(sync) /\ sync.verified <= sync.frame
      /\ sync.frame = 0 => head = 0
      /\ sync.frame > 0 => InStep(t)

(* And a frame of it, with or without a replay, leaves it so.              *)
LEMMA SyncTestFrameKeeps ==
  ASSUME Testing, NEW p \in Parts, NEW v \in Values, NEW kept, SyncTestFrame(p, v, kept)
  PROVE  /\ Testing' /\ Consistent(mem)' /\ (sync.crossed => sync'.crossed)
         /\ KeptBy(Told(sync) \cup {<<p, v>>}, mem, mem')
         /\ Told(sync') \subseteq Told(sync) \cup {<<p, v>>}
<1> DEFINE start == [g |-> Battle, sync |-> sync]
           first == IF sync.frame = 0 THEN SaveAndVerify(start) ELSE start
           told == [first EXCEPT !.sync.inputs = Append(@, <<p, v>>)]
           next == Advance(told, <<p, v>>)
           t == IF next.sync.frame - next.sync.verified = sync.distance THEN Replay(next, kept) ELSE next
<1>1. /\ Held(Battle) /\ Counted(sync) /\ sync.frame \in Nat /\ sync.verified <= sync.frame
      /\ sync.verified \in Nat
  BY DEF Testing, Counted
<1>2. Become(t.g) /\ sync' = t.sync
  BY Zenon DEF SyncTestFrame
<1> HIDE DEF t, next, told, first
<1>3. InStep(first) /\ Counts(start, first) /\ Kept(mem, first.g.mem)
  <2>0. start.g.mem = mem
    BY DEF Battle
  <2>1. CASE sync.frame = 0
    <3>1. /\ Tested(start) /\ start.g.head = head /\ start.sync = sync
      BY <1>1 DEF Tested, Battle
    <3>2. head = 0 /\ 0 % NUM_SAVE_STATES = 0
      BY <2>1, ConstantsTyped DEF Testing
    <3>3. \A j \in 0 .. start.sync.frame : j = start.sync.frame
      BY <2>1, <3>1
    <3> HIDE DEF start
    <3>4. /\ InStep(SaveAndVerify(start)) /\ Counts(start, SaveAndVerify(start))
          /\ Kept(start.g.mem, SaveAndVerify(start).g.mem)
      BY <2>1, <3>1, <3>2, <3>3, SaveAndVerifyKeeps
    <3> QED BY <2>0, <2>1, <3>4 DEF first
  <2>2. CASE sync.frame # 0
    <3>1. Kept(mem, mem)
      BY LessIsKept
    <3> QED BY <3>1, <2>0, <2>2, <1>1 DEF first, Testing, Counts
  <2> QED BY <2>1, <2>2
<1>4. /\ InStep(told) /\ told.sync.frame = sync.frame /\ told.sync.verified = sync.verified
      /\ told.sync.inputs = Append(first.sync.inputs, <<p, v>>)
      /\ told.sync.crossed = sync.crossed
      /\ first.sync.inputs \in Seq(Parts \X Values)
  <2> DEFINE in == <<p, v>>
  <2>1. told = Tell(first, in) /\ in \in Parts \X Values
    BY DEF told, Tell
  <2>2. /\ first.sync.frame = sync.frame /\ first.sync.verified = sync.verified
        /\ first.sync.crossed = sync.crossed
    BY <1>3 DEF Counts
  <2> HIDE DEF in
  <2>3. InStep(told) /\ PutDown(first, in, told)
    BY <2>1, <1>3, TellKeeps
  <2> QED BY <2>2, <2>3 DEF in, PutDown
<1>5. /\ InStep(next) /\ next.sync.frame = sync.frame + 1 /\ next.sync.verified = sync.verified
      /\ next.sync.inputs = told.sync.inputs /\ next.sync.crossed = sync.crossed
      /\ KeptBy({<<p, v>>}, told.g.mem, next.g.mem)
  <2>1. <<p, v>> \in Parts \X Values
    OBVIOUS
  <2> QED BY <2>1, <1>4, AdvanceKeeps DEF next
<1> DEFINE all == Told(sync) \cup {<<p, v>>}
<1>a. Told(next.sync) \subseteq all
  <2>1. first.sync.inputs = sync.inputs
    BY <1>3 DEF Counts
  <2>2. next.sync.inputs = Append(sync.inputs, <<p, v>>) /\ sync.inputs \in Seq(Parts \X Values)
    BY <2>1, <1>4, <1>5
  <2> QED BY <2>2 DEF Told, InputsOf
<1>b. KeptBy(all, mem, next.g.mem)
  <2>1. told.g = first.g
    BY <1>3 DEF told, InStep, Tested
  <2>2. KeptBy(all, mem, told.g.mem)
    BY <2>1, <1>3 DEF Kept, KeptBy
  <2> QED BY <2>2, <1>5, KeptByAll
<1>c. /\ KeptBy(all, mem, t.g.mem) /\ Told(t.sync) \subseteq all
      /\ sync.crossed => t.sync.crossed
  <2>1. CASE t = next
    BY <2>1, <1>5, <1>a, <1>b
  <2>2. CASE t = Replay(next, kept)
    <3>1. next.sync.verified <= next.sync.frame
      BY <1>1, <1>5
    <3>2. /\ KeptBy(Told(next.sync), next.g.mem, t.g.mem) /\ t.sync.inputs = <<>>
          /\ t.sync.crossed = (next.sync.crossed \/ Across(next))
      BY <3>1, <2>2, <1>5, ReplayKeeps
    <3>3. Told(t.sync) = {}
      BY <3>2 DEF Told, InputsOf
    <3>4. sync.crossed => t.sync.crossed
      BY <3>2, <1>5
    <3>5. KeptBy(all, mem, t.g.mem)
      BY <3>2, <1>a, <1>b, KeptByAll
    <3> QED BY <3>3, <3>4, <3>5
  <2> QED BY <2>1, <2>2 DEF t
<1> HIDE DEF all
<1>6. InStep(t) /\ t.sync.verified <= t.sync.frame /\ t.sync.frame > 0
  <2>1. next.sync.verified <= next.sync.frame
    BY <1>1, <1>5
  <2>2. Len(next.sync.inputs) > 0
    BY <1>4, <1>5
  <2>3. CASE t = next
    BY <2>1, <2>3, <1>1, <1>5
  <2>4. CASE t = Replay(next, kept)
    <3>1. /\ InStep(t) /\ t.sync.verified <= t.sync.frame
          /\ t.sync.frame = next.sync.verified + Len(next.sync.inputs)
      BY <2>1, <2>4, <1>5, ReplayKeeps
    <3>2. Len(next.sync.inputs) \in Nat
      BY <1>4, <1>5
    <3> QED BY <3>1, <3>2, <2>2, <1>1, <1>5
  <2> QED BY <2>3, <2>4 DEF t
<1>7. /\ Battle'.mem = t.g.mem /\ Battle'.ring = t.g.ring /\ Battle'.head = t.g.head
      /\ Battle' \in [mem : {t.g.mem}, ring : {t.g.ring}, head : {t.g.head}]
      /\ mem' = t.g.mem
  BY <1>2 DEF Become, Battle
<1>8. Held(t.g) /\ Counted(t.sync) /\ t.sync.frame \in Nat
  BY <1>6 DEF InStep, Tested, Counted
<1>9. Held(Battle')
  BY <1>7, <1>8 DEF Held
<1>10. InStep([g |-> Battle', sync |-> sync'])
  BY <1>2, <1>6, <1>7, <1>8, <1>9 DEF InStep, Tested
<1>11. Consistent(mem')
  BY <1>7, <1>8 DEF Held
<1>12. Testing'
  BY <1>2, <1>6, <1>8, <1>9, <1>10 DEF Testing
<1> QED BY <1>2, <1>7, <1>11, <1>12, <1>c DEF all

-----------------------------------------------------------------------------
(* The battle.                                                             *)

(* Between battles the game has no object and no slot is in use; GGPO      *)
(* holds states only in battles of its own.                                *)
Inv ==
  /\ Consistent(mem) /\ mode \in {"none", "offline", "netplay", "synctest"}
  /\ mode = "none" => mem.alive = {} /\ Used(mem) = {}
  /\ mode \in {"none", "offline"} => ring = [i \in Ring |-> None]
  /\ mode = "netplay" => Ringed(Battle)
  /\ mode = "synctest" => Testing

LEMMA InvStarts ==
  ASSUME Init
  PROVE  Inv
<1>1. PICK v \in [Parts -> Values] :
        /\ mem = [alive |-> {}, state |-> v, live |-> [k \in Keys |-> None],
                  tracked |-> {}, heap |-> [k \in Keys |-> {}],
                  content |-> [k \in Keys |-> [b \in Buffers |-> Recorded(v[k])]],
                  slots |-> [s \in Slots |-> Empty],
                  saved |-> [s \in Slots |-> v], stray |-> FALSE]
        /\ mode = "none" /\ ring = [i \in Ring |-> None]
  BY DEF Init
<1>2. /\ mem.alive = {} /\ mem.live = [k \in Keys |-> None] /\ mem.tracked = {}
      /\ mem.heap = [k \in Keys |-> {}] /\ mem.slots = [s \in Slots |-> Empty]
      /\ mem.saved = [s \in Slots |-> v] /\ ~mem.stray /\ Fields(mem)
  BY <1>1 DEF Fields
<1>3. /\ ~Empty.used /\ Empty.keys = {} /\ \A k \in Keys : Empty.held[k] = None
      /\ SlotTyped(Empty)
  BY DEF Empty, SlotTyped
<1>4. \A s \in Slots : mem.slots[s] = Empty
  BY <1>2
<1>5. Memory(mem)
  BY <1>2, <1>3, <1>4 DEF Memory
<1>6. \A k \in Keys : Owned(mem, k) /\ mem.live[k] = None
  <2> TAKE k \in Keys
  <2>1. mem.live[k] = None /\ mem.heap[k] = {}
    BY <1>2
  <2>2. \A s \in Slots : mem.slots[s].held[k] = None
    BY <1>3, <1>4
  <2> QED BY <2>1, <2>2 DEF Owned, InSlots
<1>7. \A s \in Slots : Faithful(mem, s)
  BY <1>3, <1>4 DEF Faithful
<1>8. Consistent(mem) /\ Used(mem) = {}
  BY <1>2, <1>3, <1>4, <1>5, <1>6, <1>7 DEF Consistent, Used
<1> QED BY <1>1, <1>2, <1>8 DEF Inv

(* What GGPO holds it keeps, as long as no slot of its comes out of use.   *)
LEMMA StillRinged ==
  ASSUME Ringed(Battle), Consistent(mem'), Used(mem) \subseteq Used(mem'), UNCHANGED <<ring, head>>
  PROVE  Ringed(Battle')
<1>1. /\ Battle'.mem = mem' /\ Battle'.ring = ring /\ Battle'.head = head
      /\ Battle.mem = mem /\ Battle.ring = ring /\ Battle.head = head
      /\ Battle' \in [mem : {mem'}, ring : {ring}, head : {head}]
  BY DEF Battle
<1>2. \A i \in Ring : ring[i] # None => ring[i] \in Used(mem')
  BY <1>1 DEF Ringed, Used
<1>3. \A s \in Used(mem') : mem'.slots[s].used
  BY DEF Used
<1> QED BY <1>1, <1>2, <1>3 DEF Ringed

(* In a battle the game, or a check, may do what leaves the slots in use.  *)
LEMMA SameUseKeeps ==
  ASSUME Inv, mode # "none", Consistent(mem'), Used(mem') = Used(mem),
         UNCHANGED <<mode, ring, head, sync>>
  PROVE  Inv'
<1>1. ASSUME Held(Battle) PROVE Held(Battle')
  <2>1. /\ Battle'.mem = mem' /\ Battle'.ring = ring /\ Battle'.head = head
        /\ Battle.mem = mem /\ Battle.ring = ring /\ Battle.head = head
        /\ Battle' \in [mem : {mem'}, ring : {ring}, head : {head}]
    BY DEF Battle
  <2>2. \A i \in Ring : ring[i] # None => ring[i] \in Used(mem) /\ ring[i] \in Slots
    BY <1>1, <2>1 DEF Held, Used
  <2>3. \A s \in Used(mem') : s \in Slots /\ mem'.slots[s].used
    BY DEF Used
  <2> QED BY <1>1, <2>1, <2>2, <2>3 DEF Held
<1>2. ASSUME Testing PROVE Testing'
  <2>1. Held(Battle')
    BY <1>1, <1>2 DEF Testing
  <2>2. ASSUME InStep([g |-> Battle, sync |-> sync]) PROVE InStep([g |-> Battle', sync |-> sync'])
    <3>1. Battle'.ring = Battle.ring /\ Battle'.head = Battle.head
      BY DEF Battle
    <3> QED BY <2>1, <2>2, <3>1 DEF InStep, Tested
  <2> QED BY <1>2, <2>1, <2>2 DEF Testing
<1> QED BY <1>2, StillRinged DEF Inv

(* And the overlay may take a slot, beside those of a session.             *)
LEMMA OverlayKeeps ==
  ASSUME Inv, mode \in {"offline", "netplay"}, Consistent(mem'), Used(mem) \subseteq Used(mem'),
         UNCHANGED <<mode, ring, head, sync>>
  PROVE  Inv'
BY StillRinged DEF Inv

(* A battle opens with no slot in use and nothing tracked.                 *)
LEMMA OpenBattleKeeps ==
  ASSUME Inv, NEW kind \in {"offline", "netplay", "synctest"}, OpenBattle(kind)
  PROVE  Inv'
<1> DEFINE m == IF kind = "netplay" THEN ReclaimAll(mem) ELSE mem
<1>1. /\ Consistent(mem) /\ mem.alive = {} /\ Used(mem) = {} /\ mode' = kind
      /\ ring' = [i \in Ring |-> None] /\ head' = 0
  BY DEF OpenBattle, Inv
<1>2. Consistent(m) /\ Used(m) = {} /\ m.alive = {}
  BY <1>1, ReclaimAllProperties
<1>3. PICK alive \in SUBSET Keys : mem' = [m EXCEPT !.alive = alive]
  BY DEF OpenBattle
<1> HIDE DEF m
<1>4. m.tracked \subseteq alive
  BY <1>2 DEF Consistent, Memory
<1>5. Consistent(mem') /\ Used(mem') = {}
  BY <1>2, <1>3, <1>4, AliveProperties DEF Used
<1>6. Held(Battle')
  <2>1. /\ Battle'.mem = mem' /\ Battle'.ring = ring' /\ Battle'.head = 0
        /\ Battle' \in [mem : {mem'}, ring : {ring'}, head : {head'}]
    BY <1>1 DEF Battle
  <2>2. 0 \in Ring /\ ring' \in [Ring -> Slots \cup {None}]
    BY <1>1, ConstantsTyped
  <2> QED BY <1>1, <1>5, <2>1, <2>2 DEF Held
<1>7. ASSUME kind = "synctest" PROVE Testing'
  <2>1. PICK asked \in {0, 1, NUM_SAVE_STATES} :
          sync' = [NoSyncTest EXCEPT !.distance = CheckDistance(asked)]
    BY <1>7 DEF OpenBattle
  <2>2. /\ sync'.frame = 0 /\ sync'.verified = 0 /\ sync'.inputs = <<>>
        /\ sync' \in [distance : {sync'.distance}, frame : Nat, verified : Nat,
                      inputs : {<<>>}, records : {sync'.records},
                      mismatches : {sync'.mismatches}, gameplay : {sync'.gameplay},
                      losses : {sync'.losses}, crossed : {sync'.crossed}]
    BY <2>1 DEF NoSyncTest
  <2>3. <<>> \in Seq(Parts \X Values)
    OBVIOUS
  <2>4. Counted(sync')
    BY <2>2, <2>3 DEF Counted
  <2> QED BY <1>1, <1>6, <2>2, <2>4 DEF Testing
<1>8. Ringed(Battle')
  BY <1>6 DEF Held, Ringed
<1> QED BY <1>1, <1>5, <1>7, <1>8 DEF Inv, OpenBattle

(* When a battle closes, everything that a slot holds is released before   *)
(* the slots are forgotten and the objects are taken down.                 *)
LEMMA CloseBattleKeeps ==
  ASSUME Inv, CloseBattle
  PROVE  Inv'
<1> DEFINE freed == FreeAll(mem)
           m == ReclaimAll(freed)
           n == ClearKeys(m, m.alive)
<1>1. Consistent(mem)
  BY DEF Inv
<1>2. Consistent(freed) /\ Used(freed) = {}
  <2>1. Used(mem) \ Slots = {}
    BY DEF Used
  <2> QED BY <1>1, <2>1, FreeProperties DEF FreeAll
<1>3. mem' = [n EXCEPT !.alive = {}] /\ mode' = "none" /\ ring' = [i \in Ring |-> None]
  BY DEF CloseBattle
<1> HIDE DEF freed
<1>4. Consistent(m) /\ Used(m) = {}
  BY <1>2, ReclaimAllProperties
<1> HIDE DEF m
<1>5. m.alive \in SUBSET Keys /\ m.tracked \subseteq m.alive
  BY <1>4 DEF Consistent, Memory
<1>6. Consistent(n) /\ Used(n) = {} /\ n.tracked = {}
  BY <1>4, <1>5, ClearKeysProperties DEF SameSlots, Used
<1> HIDE DEF n
<1>7. /\ Consistent([n EXCEPT !.alive = {}]) /\ [n EXCEPT !.alive = {}].slots = n.slots
      /\ [n EXCEPT !.alive = {}].alive = {}
  BY <1>6, AliveProperties
<1>8. Consistent(mem') /\ mem'.alive = {} /\ Used(mem') = {}
  BY <1>3, <1>6, <1>7 DEF Used
<1> QED BY <1>3, <1>8 DEF Inv

LEMMA NextKeeps ==
  ASSUME Inv, [Next]_vars
  PROVE  Inv'
<1>0. Consistent(mem)
  BY DEF Inv
<1>s. ASSUME NEW n, SameSlots(mem, n) PROVE Consistent(n) /\ Used(n) = Used(mem)
  BY <1>s DEF SameSlots, Used
<1>1. ASSUME NEW kind \in {"offline", "netplay", "synctest"}, OpenBattle(kind) PROVE Inv'
  BY <1>1, OpenBattleKeeps
<1>2. ASSUME NEW p \in Parts, NEW v \in Values, Update(p, v) PROVE Inv'
  <2>1. mem' = Simulated(mem, p, v) /\ mode # "none" /\ UNCHANGED <<mode, ring, head, sync>>
    BY <1>2 DEF Update
  <2> DEFINE n == Simulated(mem, p, v)
  <2>2. Consistent(n) /\ n.slots = mem.slots
    BY <1>0, SimulatedProperties
  <2>3. mem' = n
    BY <2>1
  <2> HIDE DEF n
  <2>4. Consistent(mem') /\ Used(mem') = Used(mem)
    BY <2>2, <2>3 DEF Used
  <2> QED BY <2>1, <2>4, SameUseKeeps
<1>3. ASSUME NEW k \in Keys, GameClears(k) PROVE Inv'
  <2>1. mem' = ClearKeys(mem, {k}) /\ mode # "none" /\ UNCHANGED <<mode, ring, head, sync>>
    BY <1>3 DEF GameClears
  <2>2. SameSlots(mem, mem')
    BY <2>1, <1>0, ClearKeysProperties
  <2> QED BY <2>1, <2>2, <1>s, SameUseKeeps
<1>4. ASSUME CloseBattle PROVE Inv'
  BY <1>4, CloseBattleKeeps
<1>5. ASSUME AbortMatchStart PROVE Inv'
  <2>1. mem' = FreeSlots(mem, Slots) /\ mode' = "offline" /\ ring' = [i \in Ring |-> None]
    BY <1>5 DEF AbortMatchStart, FreeAll
  <2>2. Consistent(mem')
    BY <2>1, <1>0, FreeProperties
  <2> QED BY <2>1, <2>2 DEF Inv
<1>b. ASSUME NEW g, Become(g), Ringed(g) PROVE Ringed(Battle')
  <2>1. /\ Battle'.mem = g.mem /\ Battle'.ring = g.ring /\ Battle'.head = g.head
        /\ Battle' \in [mem : {g.mem}, ring : {g.ring}, head : {g.head}]
    BY <1>b DEF Become, Battle
  <2> QED BY <1>b, <2>1 DEF Ringed
<1>6. ASSUME SaveCallback PROVE Inv'
  <2>1. mode = "netplay" /\ mode' = mode /\ Become(SaveFrame(Battle)) /\ Ringed(Battle)
    BY <1>6 DEF SaveCallback, Inv
  <2>2. Ringed(SaveFrame(Battle))
    BY <2>1, SaveFrameInRing
  <2>3. Ringed(Battle') /\ Consistent(mem')
    BY <2>1, <2>2, <1>b DEF Become, Ringed
  <2> QED BY <2>1, <2>3 DEF Inv
<1>7. ASSUME NEW i \in Ring, NEW kept, LoadCallback(i, kept) PROVE Inv'
  <2>1. /\ mode = "netplay" /\ mode' = mode /\ Become(LoadFrame(Battle, i, kept)) /\ Ringed(Battle)
        /\ Battle.ring[i] # None
    BY <1>7 DEF LoadCallback, Inv, Battle
  <2>2. Ringed(LoadFrame(Battle, i, kept))
    BY <2>1, LoadFrameProperties
  <2>3. Ringed(Battle') /\ Consistent(mem')
    BY <2>1, <2>2, <1>b DEF Become, Ringed
  <2> QED BY <2>1, <2>3 DEF Inv
<1>8. ASSUME NEW p \in Parts, NEW v \in Values, NEW kept, SyncTestFrame(p, v, kept)
      PROVE Inv'
  <2>1. mode = "synctest" /\ mode' = mode /\ Testing
    BY <1>8 DEF SyncTestFrame, Inv
  <2>2. Testing' /\ Consistent(mem)'
    BY <2>1, <1>8, SyncTestFrameKeeps
  <2> QED BY <2>1, <2>2 DEF Inv
<1>9. ASSUME ExtendedSave PROVE Inv'
  <2> DEFINE m == IF mem.slots[1].used THEN Free(mem, 1) ELSE mem
  <2>1. mem' = Save(m, 1) /\ mode \in {"offline", "netplay"} /\ UNCHANGED <<mode, ring, head, sync>>
    BY <1>9 DEF ExtendedSave
  <2>2. 1 \in Slots /\ {1} \in SUBSET Slots
    BY ConstantsTyped
  <2>3. Consistent(m) /\ 1 \notin Used(m) /\ Used(mem) \ {1} \subseteq Used(m)
    <3>1. CASE mem.slots[1].used
      <4>1. m = FreeSlots(mem, {1})
        BY <3>1, EvaluatedIsItself DEF Free
      <4> QED BY <4>1, <2>2, <1>0, FreeProperties
    <3>2. CASE ~mem.slots[1].used
      BY <3>2, <1>0 DEF Used
    <3> QED BY <3>1, <3>2
  <2> HIDE DEF m
  <2>4. Consistent(mem') /\ Used(mem) \subseteq Used(mem')
    BY <2>1, <2>2, <2>3, SaveProperties
  <2> QED BY <2>1, <2>4, OverlayKeeps
<1>10. ASSUME NEW kept, ExtendedLoad(kept) PROVE Inv'
  <2>1. /\ mem' = LoadAcross(mem, 1, kept) /\ mode # "none"
        /\ UNCHANGED <<mode, ring, head, sync>>
    BY <1>10 DEF ExtendedLoad
  <2>2. SameSlots(mem, mem')
    BY <2>1, <1>0, LoadAcrossProperties, ConstantsTyped
  <2> QED BY <2>1, <2>2, <1>s, SameUseKeeps
<1>11. ASSUME TrainingSave PROVE Inv'
  <2>1. mem' = RecordAll(mem) /\ mode = "offline" /\ UNCHANGED <<mode, ring, head, sync>>
    BY <1>11 DEF TrainingSave
  <2>2. SameSlots(mem, mem')
    BY <2>1, <1>0, RecordAllProperties
  <2> QED BY <2>1, <2>2, <1>s, SameUseKeeps
<1>12. ASSUME TrainingLoad PROVE Inv'
  <2>1. /\ mem' = RestoreAll(mem, mem.live, TRUE) /\ mode = "offline"
        /\ UNCHANGED <<mode, ring, head, sync>>
    BY <1>12 DEF TrainingLoad
  <2>2. SameSlots(mem, mem')
    BY <2>1, <1>0, TrainingLoadProperties
  <2> QED BY <2>1, <2>2, <1>s, SameUseKeeps
<1>13. ASSUME IdempotenceCheck PROVE Inv'
  <2>1. /\ mode # "none" /\ Unused(mem) # {} /\ mem' = RunIdempotenceCheck(mem).mem
        /\ UNCHANGED <<mode, ring, head, sync>>
    BY <1>13 DEF IdempotenceCheck
  <2>2. Consistent(mem') /\ Used(mem') = Used(mem)
    BY <2>1, <1>0, RunIdempotenceCheckKeeps DEF After
  <2> QED BY <2>1, <2>2, SameUseKeeps
<1>14. ASSUME UNCHANGED vars PROVE Inv'
  <2>1. UNCHANGED <<mem, mode, ring, head, sync>>
    BY <1>14 DEF vars
  <2>2. Battle' = Battle
    BY <2>1 DEF Battle
  <2> QED BY <2>1, <2>2 DEF Inv, Testing
<1> QED BY <1>1, <1>2, <1>3, <1>4, <1>5, <1>6, <1>7, <1>8, <1>9, <1>10, <1>11, <1>12, <1>13,
           <1>14 DEF Next

LEMMA InvHolds == Spec => []Inv
<1>1. Init => Inv
  BY InvStarts
<1>2. Inv /\ [Next]_vars => Inv'
  BY NextKeeps
<1> QED BY <1>1, <1>2, PTL DEF Spec

(* Every object, and what is saved of it, is of its kind, and so are the   *)
(* inputs that a sync test is going to replay.                             *)
Shape == \E K : Shaped(mem, K) /\ \A in \in Told(sync) : Apt(in, K)

LEMMA ShapeStarts ==
  ASSUME ValuesFit, Init
  PROVE  Shape
<1>1. PICK v \in [Parts -> Values] :
        /\ \A p \in Parts : v[p] \in States(p = Globals)
        /\ mem = [alive |-> {}, state |-> v, live |-> [k \in Keys |-> None],
                  tracked |-> {}, heap |-> [k \in Keys |-> {}],
                  content |-> [k \in Keys |-> [b \in Buffers |-> Recorded(v[k])]],
                  slots |-> [s \in Slots |-> Empty],
                  saved |-> [s \in Slots |-> v], stray |-> FALSE]
        /\ sync = NoSyncTest
  BY DEF Init
<1> DEFINE K == [p \in Parts |-> v[p].kind]
<1>2. ASSUME NEW p \in Parts
      PROVE  K[p] \in {"system", "shadow", "flow"} /\ (K[p] = "flow" <=> p = Globals) /\ Fits(v[p], K[p])
  <2>1. v[p] \in Values /\ (v[p].kind = "flow") = (p = Globals)
    BY <1>1 DEF States
  <2>2. Fits(v[p], v[p].kind)
    BY <2>1, ValueFits
  <2> QED BY <2>1, <2>2 DEF ValuesFit, System, Shadow
<1> HIDE DEF K
<1>3. /\ mem.state = v /\ mem.content = [k \in Keys |-> [b \in Buffers |-> Recorded(v[k])]]
      /\ mem.slots = [s \in Slots |-> Empty] /\ mem.saved = [s \in Slots |-> v]
  BY <1>1
<1>4. Empty.keys = {} /\ Fits(Empty.d, "flow")
  BY DEF Empty, Nothing, Fits
<1>5. K \in [Parts -> {"system", "shadow", "flow"}]
  BY <1>2 DEF K
<1>6. ASSUME NEW k \in Keys, NEW b \in Buffers
      PROVE  \E y : Fits(y, K[k]) /\ mem.content[k][b] = Recorded(y)
  <2>1. Fits(v[k], K[k])
    BY <1>2 DEF Parts
  <2> QED BY <2>1, <1>3
<1>7. ASSUME NEW s \in Slots
      PROVE  /\ \A p \in Parts : Fits(mem.saved[s][p], K[p])
             /\ Fits(mem.slots[s].d, "flow") /\ mem.slots[s].keys = {} /\ mem.slots[s] = Empty
  BY <1>2, <1>3, <1>4
<1>8. Shaped(mem, K)
  BY <1>2, <1>3, <1>5, <1>6, <1>7 DEF Shaped
<1>9. Told(sync) = {}
  BY <1>1 DEF Told, InputsOf, NoSyncTest
<1> QED BY <1>8, <1>9 DEF Shape

(* What leaves objects what they are, and tells a sync test nothing.       *)
LEMMA KeptShape ==
  ASSUME EnoughHeap, ValuesFit, Shape, Kept(mem, mem'), Told(sync') \subseteq Told(sync)
  PROVE  Shape'
<1>1. PICK K : Shaped(mem, K) /\ \A in \in Told(sync) : Apt(in, K)
  BY DEF Shape
<1>2. Shaped(mem', K)
  BY <1>1 DEF Kept, KeptBy
<1>3. \A in \in Told(sync') : Apt(in, K)
  BY <1>1
<1> QED BY <1>2, <1>3 DEF Shape

(* What an input of a kind makes of them.                                  *)
LEMMA InputShape ==
  ASSUME EnoughHeap, ValuesFit, Shape, NEW p \in Parts, NEW v \in Values, v.kind = mem.state[p].kind,
         KeptBy(Told(sync) \cup {<<p, v>>}, mem, mem'), Told(sync') \subseteq Told(sync) \cup {<<p, v>>}
  PROVE  Shape'
<1>1. PICK K : Shaped(mem, K) /\ \A in \in Told(sync) : Apt(in, K)
  BY DEF Shape
<1>2. Apt(<<p, v>>, K)
  BY <1>1 DEF Shaped, Fits, Apt
<1>3. \A in \in Told(sync) \cup {<<p, v>>} : Apt(in, K)
  BY <1>1, <1>2
<1>4. Shaped(mem', K)
  BY <1>1, <1>3 DEF KeptBy
<1>5. \A in \in Told(sync') : Apt(in, K)
  BY <1>3
<1> QED BY <1>4, <1>5 DEF Shape

LEMMA NextShaped ==
  ASSUME EnoughHeap, ValuesFit, Inv, Shape, [Next]_vars
  PROVE  Shape'
<1>0. Consistent(mem)
  BY DEF Inv
<1>t. Told(NoSyncTest) = {}
  BY DEF Told, InputsOf, NoSyncTest
<1>s. ASSUME UNCHANGED sync PROVE Told(sync') \subseteq Told(sync)
  BY <1>s
<1>1. ASSUME NEW kind \in {"offline", "netplay", "synctest"}, OpenBattle(kind) PROVE Shape'
  <2> DEFINE m == IF kind = "netplay" THEN ReclaimAll(mem) ELSE mem
  <2>1. Consistent(m) /\ Kept(mem, m)
    <3>1. Used(mem) = {}
      BY <1>1 DEF Inv, OpenBattle
    <3> QED BY <3>1, <1>0, ReclaimAllProperties, ReclaimAllKept, LessIsKept
  <2>2. PICK alive \in SUBSET Keys : mem' = [m EXCEPT !.alive = alive]
    BY <1>1 DEF OpenBattle
  <2> HIDE DEF m
  <2>3. Kept(mem, mem')
    BY <2>1, <2>2, AliveKept, KeptTwice
  <2>4. Told(sync') \subseteq Told(sync)
    <3>1. CASE kind = "synctest"
      <4>1. PICK asked \in {0, 1, NUM_SAVE_STATES} :
              sync' = [NoSyncTest EXCEPT !.distance = CheckDistance(asked)]
        BY <1>1, <3>1 DEF OpenBattle
      <4>2. sync'.inputs = <<>>
        BY <4>1 DEF NoSyncTest
      <4> QED BY <4>2 DEF Told, InputsOf
    <3>2. CASE kind # "synctest"
      BY <1>1, <3>2 DEF OpenBattle
    <3> QED BY <3>1, <3>2
  <2> QED BY <2>3, <2>4, KeptShape
<1>2. ASSUME NEW p \in Parts, NEW v \in Values, Update(p, v) PROVE Shape'
  <2> DEFINE in == <<p, v>>
  <2>1. mem' = Simulated(mem, p, v) /\ v.kind = mem.state[p].kind /\ sync' = sync
    BY <1>2 DEF Update
  <2>2. in \in Parts \X Values /\ in[1] = p /\ in[2] = v
    OBVIOUS
  <2> HIDE DEF in
  <2>3. KeptBy({in}, mem, mem')
    BY <2>1, <2>2, <1>0, SimulatedKept
  <2>4. KeptBy(Told(sync) \cup {in}, mem, mem')
    BY <2>3 DEF KeptBy
  <2> QED BY <2>1, <2>4, InputShape DEF in
<1>3. ASSUME NEW k \in Keys, GameClears(k) PROVE Shape'
  BY <1>3, <1>0, <1>s, ClearKeysKept, KeptShape DEF GameClears
<1>4. ASSUME CloseBattle PROVE Shape'
  <2> DEFINE freed == FreeAll(mem)
             m == ReclaimAll(freed)
             n == ClearKeys(m, m.alive)
  <2>1. Consistent(freed) /\ Used(freed) = {} /\ Kept(mem, freed)
    <3>1. Used(mem) \ Slots = {}
      BY DEF Used
    <3> QED BY <3>1, <1>0, FreeProperties, FreeKept DEF FreeAll
  <2>2. mem' = [n EXCEPT !.alive = {}] /\ sync' = NoSyncTest
    BY <1>4 DEF CloseBattle
  <2> HIDE DEF freed
  <2>3. Consistent(m) /\ Kept(mem, m)
    BY <2>1, ReclaimAllProperties, ReclaimAllKept, KeptTwice
  <2> HIDE DEF m
  <2>4. m.alive \in SUBSET Keys
    BY <2>3 DEF Consistent, Memory
  <2>5. Consistent(n) /\ Kept(mem, n)
    BY <2>3, <2>4, ClearKeysProperties, ClearKeysKept, KeptTwice DEF SameSlots
  <2> HIDE DEF n
  <2>6. Kept(mem, mem')
    BY <2>2, <2>5, AliveKept, KeptTwice
  <2> QED BY <2>2, <2>6, <1>t, KeptShape
<1>5. ASSUME AbortMatchStart PROVE Shape'
  BY <1>5, <1>0, <1>s, FreeKept, KeptShape DEF AbortMatchStart, FreeAll
<1>6. ASSUME SaveCallback PROVE Shape'
  <2>1. mem' = SaveFrame(Battle).mem /\ sync' = sync /\ Ringed(Battle)
    BY <1>6 DEF SaveCallback, Become, Inv
  <2>2. Kept(Battle.mem, SaveFrame(Battle).mem)
    BY <2>1, SaveFrameInRing
  <2>3. Kept(mem, mem')
    BY <2>1, <2>2 DEF Battle
  <2> QED BY <2>1, <2>3, <1>s, KeptShape
<1>7. ASSUME NEW i \in Ring, NEW kept, LoadCallback(i, kept) PROVE Shape'
  <2>1. mem' = LoadFrame(Battle, i, kept).mem /\ sync' = sync /\ Ringed(Battle) /\ Battle.ring[i] # None
    BY <1>7 DEF LoadCallback, Become, Inv, Battle
  <2>2. Kept(Battle.mem, LoadFrame(Battle, i, kept).mem)
    BY <2>1, LoadFrameProperties
  <2>3. Kept(mem, mem')
    BY <2>1, <2>2 DEF Battle
  <2> QED BY <2>1, <2>3, <1>s, KeptShape
<1>8. ASSUME NEW p \in Parts, NEW v \in Values, NEW kept, SyncTestFrame(p, v, kept)
      PROVE Shape'
  <2>1. Testing /\ v.kind = mem.state[p].kind
    BY <1>8 DEF SyncTestFrame, Inv
  <2> QED BY <2>1, <1>8, SyncTestFrameKeeps, InputShape
<1>9. ASSUME ExtendedSave PROVE Shape'
  <2> DEFINE m == IF mem.slots[1].used THEN Free(mem, 1) ELSE mem
  <2>1. mem' = Save(m, 1) /\ sync' = sync /\ 1 \in Slots /\ {1} \in SUBSET Slots
    BY <1>9, ConstantsTyped DEF ExtendedSave
  <2>2. Consistent(m) /\ Kept(mem, m)
    <3>1. Free(mem, 1) = FreeSlots(mem, {1})
      BY EvaluatedIsItself DEF Free
    <3> QED BY <3>1, <2>1, <1>0, FreeProperties, FreeKept, LessIsKept
  <2> HIDE DEF m
  <2>3. Kept(mem, mem')
    BY <2>1, <2>2, SaveKept, KeptTwice
  <2> QED BY <2>1, <2>3, <1>s, KeptShape
<1>10. ASSUME NEW kept, ExtendedLoad(kept) PROVE Shape'
  <2>1. mem' = LoadAcross(mem, 1, kept) /\ sync' = sync /\ 1 \in Slots
    BY <1>10, ConstantsTyped DEF ExtendedLoad
  <2>2. Kept(mem, mem')
    BY <2>1, <1>0, LoadAcrossProperties
  <2> QED BY <2>1, <2>2, <1>s, KeptShape
<1>11. ASSUME TrainingSave PROVE Shape'
  BY <1>11, <1>0, <1>s, RecordAllKept, KeptShape DEF TrainingSave
<1>12. ASSUME TrainingLoad PROVE Shape'
  <2>1. /\ mem' = RestoreAll(mem, mem.live, TRUE) /\ sync' = sync
        /\ Fields(mem) /\ mem.alive \subseteq Keys /\ mem.live \in [Keys -> Buffers \cup {None}]
    BY <1>12, <1>0 DEF TrainingLoad, Consistent, Memory
  <2>2. Kept(mem, mem')
    BY <2>1, RestoreAllKept
  <2> QED BY <2>1, <2>2, <1>s, KeptShape
<1>13. ASSUME IdempotenceCheck PROVE Shape'
  <2>1. Unused(mem) # {} /\ mem' = RunIdempotenceCheck(mem).mem /\ sync' = sync
    BY <1>13 DEF IdempotenceCheck
  <2>2. Kept(mem, mem')
    BY <2>1, <1>0, RunIdempotenceCheckKeeps DEF After
  <2> QED BY <2>1, <2>2, <1>s, KeptShape
<1>14. ASSUME UNCHANGED vars PROVE Shape'
  BY <1>14 DEF vars, Shape
<1> QED BY <1>1, <1>2, <1>3, <1>4, <1>5, <1>6, <1>7, <1>8, <1>9, <1>10, <1>11, <1>12, <1>13,
           <1>14 DEF Next

-----------------------------------------------------------------------------
(* The sync test finds nothing, unless it goes back across a reset.        *)

(* Two states of the battle that look the same.                            *)
Like(A, u, v) == Agree(A, u, v) /\ Others(A, u, v)

(* What the test records of a battle that looks like this, the cosmetic    *)
(* bytes aside.                                                            *)
RecordOf(A, u) ==
  [checksum |-> <<[k \in A |-> Exact(ChecksumNormalized(Recorded(u[k])))],
                  ChecksumNormalized(u[Globals])>>,
   snapshot |-> [p \in Parts |-> u[p].own]]

LEMMA RecordTells ==
  ASSUME NEW m, Consistent(m), NEW K, Shaped(m, K), NEW s \in Slots, m.slots[s].used,
         m.slots[s].keys = m.alive, m.saved[s] = m.state,
         NEW u, \A p \in Parts : Fits(u[p], K[p]), Like(m.alive, m.state, u)
  PROVE  Telling(Record(m, s)) = RecordOf(m.alive, u)
<1> DEFINE A == m.alive
<1>0. /\ A \in SUBSET Keys /\ Agree(A, m.state, u) /\ Others(A, m.state, u)
      /\ \A k \in Keys : k \in Parts /\ K[k] \in {"system", "shadow"}
      /\ \A p \in Parts : Fits(m.state[p], K[p])
  <2>1. \A k \in Keys : k \in Parts /\ k # Globals
    BY SaveStatesAssumption DEF Parts
  <2> QED BY <2>1 DEF Consistent, Memory, Shaped, Like
<1>1. ASSUME NEW k \in A PROVE Exact(Holds(m, s, k)) = Exact(ChecksumNormalized(Recorded(u[k])))
  <2>1. Holds(m, s, k) = ChecksumNormalized(Recorded(m.state[k]))
    BY HoldsWhatWasSaved
  <2>2. /\ Fits(m.state[k], K[k]) /\ Fits(u[k], K[k]) /\ K[k] \in {"system", "shadow"}
        /\ Seen(m.state[k]) = Seen(u[k])
    BY <1>0 DEF Agree
  <2> QED BY <2>1, <2>2, SeenTheSame
<1>2. HashGlobalData(m, s) = ChecksumNormalized(u[Globals])
  <2>1. m.slots[s].d = m.saved[s][Globals] /\ m.state[Globals] = u[Globals]
    BY <1>0 DEF Consistent, Faithful, Agree
  <2> QED BY <2>1 DEF HashGlobalData
<1>3. Snapshot(m) = [p \in Parts |-> u[p].own]
  <2>1. \A p \in Parts : m.state[p].own = u[p].own
    <3>1. \A k \in A : Fits(m.state[k], K[k]) /\ Fits(u[k], K[k])
      BY <1>0
    <3> HIDE DEF A
    <3> QED BY <3>1, <1>0, TellTheSame
  <2> QED BY <2>1 DEF Snapshot
<1> DEFINE sums == [k \in m.slots[s].keys |-> Holds(m, s, k)]
<1>4. [k \in DOMAIN sums |-> Exact(sums[k])] = [k \in A |-> Exact(ChecksumNormalized(Recorded(u[k])))]
  BY <1>1
<1>5. Record(m, s) = [checksum |-> <<sums, HashGlobalData(m, s)>>, snapshot |-> Snapshot(m)]
  BY Zenon DEF Record, ComputeChecksum
<1> HIDE DEF sums
<1>6. Telling(Record(m, s)) =
        [checksum |-> <<[k \in DOMAIN sums |-> Exact(sums[k])], HashGlobalData(m, s)>>,
         snapshot |-> Snapshot(m)]
  BY <1>5 DEF Telling
<1> QED BY <1>2, <1>3, <1>4, <1>6, Zenon DEF RecordOf

(* No difference so far.                                                   *)
Clear(y) == y.losses = 0 /\ y.gameplay = 0

(* A record that tells the same as the one before, if there is one, makes  *)
(* no difference, and is the only one that comes.                          *)
LEMMA VerifyFinds ==
  ASSUME NEW y, Counted(y), Clear(y), NEW rec, 
         y.frame \in DOMAIN y.records => Telling(y.records[y.frame]) = Telling(rec),
         NEW z, z = SyncTestVerify(y, rec)
  PROVE  /\ Clear(z) /\ z.distance = y.distance
         /\ \A h \in DOMAIN z.records :
              IF h = y.frame THEN z.records[h] = rec
              ELSE h \in DOMAIN y.records /\ z.records[h] = y.records[h]
<1> DEFINE f == y.frame
           again == f \in DOMAIN y.records
           kept == {h \in (DOMAIN y.records \cup {f}) \ (IF again THEN {f} ELSE {}) :
                      h >= f - (2 * y.distance + NUM_SAVE_STATES + 8)}
           records == [h \in kept |-> IF h = f THEN rec ELSE y.records[h]]
           mismatches == y.mismatches
                         + (IF again /\ y.records[f].checksum # rec.checksum THEN 1 ELSE 0)
           gameplay == y.gameplay
                       + (IF again /\ y.records[f].snapshot # rec.snapshot THEN 1 ELSE 0)
           losses == y.losses + (IF again /\ Telling(y.records[f]) # Telling(rec) THEN 1 ELSE 0)
<1>1. SyncTestVerify(y, rec) =
        [y EXCEPT !.records = records, !.mismatches = mismatches, !.gameplay = gameplay,
                  !.losses = losses]
  BY Zenon DEF SyncTestVerify
<1>2. losses = 0 /\ gameplay = 0
  <2>1. \A x : Telling(x).snapshot = x.snapshot
    BY DEF Telling
  <2>2. again => y.records[f].snapshot = rec.snapshot
    BY <2>1
  <2> QED BY <2>2 DEF Clear
<1>3. \A h \in DOMAIN records :
        IF h = f THEN records[h] = rec ELSE h \in DOMAIN y.records /\ records[h] = y.records[h]
  <2>1. DOMAIN records = kept /\ kept \subseteq DOMAIN y.records \cup {f}
    OBVIOUS
  <2> HIDE DEF kept
  <2> QED BY <2>1
<1> HIDE DEF records, mismatches, gameplay, losses
<1> QED BY <1>1, <1>2, <1>3 DEF Counted, Clear

(* Frames that are no further apart than a replay goes back have places of *)
(* their own.                                                              *)
LEMMA PlacesApart ==
  ASSUME NEW f \in Nat, NEW j \in 1 .. GGPO_MAX_PREDICTION_FRAMES
  PROVE  Place(f) \in Ring /\ Place(f + j) \in Ring /\ Place(f + j) # Place(f)
<1> DEFINE n == NUM_SAVE_STATES
           x == f \div n
           y == (f + j) \div n
           r == f % n
           s == (f + j) % n
<1>1. n \in Nat /\ n > 1 /\ j \in Nat /\ 0 < j /\ j < n
  BY ConstantsTyped DEF NUM_SAVE_STATES
<1>2. Place(f) = r /\ Place(f + j) = s
  BY DEF Place
<1> HIDE DEF n
<1>3. /\ f = n * x + r /\ x \in Int /\ r \in 0 .. n - 1
      /\ f + j = n * y + s /\ y \in Int /\ s \in 0 .. n - 1
  BY <1>1
<1> HIDE DEF x, y, r, s
<1>4. ASSUME r = s PROVE FALSE
  <2>1. n * y = n * x + j
    BY <1>1, <1>3, <1>4
  <2>2. CASE y <= x
    <3>1. n * y <= n * x
      BY <2>2, <1>1, <1>3
    <3> QED BY <2>1, <3>1, <1>1, <1>3
  <2>3. CASE y >= x + 1
    <3>1. n * y >= n * (x + 1) /\ n * (x + 1) = n * x + n
      BY <2>3, <1>1, <1>3
    <3> QED BY <2>1, <3>1, <1>1, <1>3
  <2> QED BY <2>2, <2>3, <1>3
<1>5. Place(f) \in Ring /\ Place(f + j) \in Ring
  BY PlaceOf DEF Place
<1> QED BY <1>2, <1>4, <1>5

(* The course of a test from the frame that it goes back to: the battle    *)
(* after so many of the inputs, whenever they are simulated.               *)
Course(E, inputs, A, K) ==
  /\ \A j \in 0 .. Len(inputs) : \A p \in Parts : Fits(E[j][p], K[p])
  /\ \A j \in 1 .. Len(inputs) :
       /\ inputs[j][1] \in A \cup {Globals}
       /\ \A p \in Parts : E[j][p] = IF p = inputs[j][1] THEN inputs[j][2] ELSE E[j - 1][p]

(* Whatever is recorded of frames past that one is of this course.         *)
Matching(y, E, A) == \A j \in Nat \ {0} : y.verified + j \in DOMAIN y.records =>
  j <= Len(y.inputs) /\ Telling(y.records[y.verified + j]) = RecordOf(A, E[j])

(* A test, the first time or again, has come this far.                     *)
Along(t, E, A, K, j) ==
  /\ InStep(t) /\ Shaped(t.g.mem, K) /\ t.g.mem.alive = A /\ Course(E, t.sync.inputs, A, K)
  /\ j \in 0 .. Len(t.sync.inputs) /\ t.sync.frame = t.sync.verified + j
  /\ Like(A, t.g.mem.state, E[j]) /\ Matching(t.sync, E, A) /\ Clear(t.sync)

(* A frame further it still is on course.                                  *)
LEMMA FrameMatches ==
  ASSUME EnoughHeap, ValuesFit, NEW t, NEW E, NEW A, NEW K, NEW j, Along(t, E, A, K, j),
         j < Len(t.sync.inputs), NEW in, in = t.sync.inputs[j + 1], NEW r, r = Advance(t, in)
  PROVE  /\ Along(r, E, A, K, j + 1) /\ r.sync.distance = t.sync.distance
         /\ r.sync.verified = t.sync.verified /\ r.sync.inputs = t.sync.inputs
         /\ HoldsAt(r.g, Place(r.sync.frame), r.g.mem.state)
         /\ \A i \in Ring \ {Place(r.sync.frame)} : Stays(t.g, r.g, i)
<1> DEFINE n == Len(t.sync.inputs)
           f == t.sync.frame + 1
           z == r.g.ring[Place(f)]
           y == [t.sync EXCEPT !.frame = @ + 1]
<1>0. /\ InStep(t) /\ Shaped(t.g.mem, K) /\ t.g.mem.alive = A /\ Course(E, t.sync.inputs, A, K)
      /\ j \in 0 .. n /\ t.sync.frame = t.sync.verified + j
      /\ Like(A, t.g.mem.state, E[j]) /\ Matching(t.sync, E, A) /\ Clear(t.sync)
  BY DEF Along
<1>1. /\ Consistent(t.g.mem) /\ Counted(t.sync) /\ t.sync.frame \in Nat /\ t.sync.verified \in Nat
      /\ t.sync.inputs \in Seq(Parts \X Values) /\ n \in Nat /\ A \subseteq Keys
  BY <1>0 DEF InStep, Tested, Held, Counted, Consistent, Memory
<1>a. /\ f = t.sync.frame + 1 /\ z = r.g.ring[Place(f)] /\ y = [t.sync EXCEPT !.frame = @ + 1]
      /\ n = Len(t.sync.inputs) /\ j < n
  OBVIOUS
<1> HIDE DEF n, f, z, y
<1>b. /\ j \in 0 .. n /\ n \in Nat /\ t.sync.verified \in Nat
      /\ f = t.sync.frame + 1 /\ t.sync.frame = t.sync.verified + j
  BY <1>0, <1>1, <1>a
<1>2. /\ j + 1 \in 1 .. n /\ in \in Parts \X Values /\ j + 1 \in Nat \ {0}
      /\ f \in Nat /\ f = t.sync.verified + (j + 1)
  <2>1. j \in Nat /\ j + 1 \in 1 .. n
    BY <1>b, <1>a
  <2>2. f \in Nat /\ f = t.sync.verified + (j + 1)
    <3>1. \A a, b \in Nat : (a + b) + 1 \in Nat /\ (a + b) + 1 = a + (b + 1)
      OBVIOUS
    <3> QED BY <3>1, <2>1, <1>b
  <2> QED BY <2>1, <2>2, <1>1, <1>a
<1>3. /\ InStep(r) /\ r.sync.frame = f /\ r.sync.verified = t.sync.verified
      /\ r.sync.inputs = t.sync.inputs /\ KeptBy({in}, t.g.mem, r.g.mem) /\ Further(t, in, r)
  BY <1>0, <1>2, <1>a, AdvanceKeeps
<1>4. /\ in[1] \in A \cup {Globals} /\ in[1] \in Parts
      /\ \A p \in Parts : E[j + 1][p] = IF p = in[1] THEN in[2] ELSE E[j][p]
      /\ \A p \in Parts : Fits(E[j + 1][p], K[p])
  <2>1. (j + 1) - 1 = j /\ j + 1 \in 0 .. n /\ in[1] \in Parts
    BY <1>b, <1>2
  <2>2. \A p \in Parts : Fits(E[j + 1][p], K[p])
    BY <2>1, <1>0, <1>a DEF Course
  <2>3. /\ in[1] \in A \cup {Globals}
        /\ \A p \in Parts : E[j + 1][p] = IF p = in[1] THEN in[2] ELSE E[(j + 1) - 1][p]
    BY <1>0, <1>2, <1>a DEF Course
  <2> QED BY <2>1, <2>2, <2>3
<1>5. Shaped(r.g.mem, K)
  <2>1. Apt(in, K)
    BY <1>4 DEF Fits, Apt
  <2> QED BY <2>1, <1>0, <1>3 DEF KeptBy
<1>6. /\ r.g.mem.alive = A /\ r.g.mem.state = [t.g.mem.state EXCEPT ![in[1]] = in[2]]
      /\ HoldsAt(r.g, Place(f), r.g.mem.state)
      /\ \A i \in Ring \ {Place(f)} : Stays(t.g, r.g, i)
      /\ r.sync = SyncTestVerify(y, Record(r.g.mem, z))
  <2>1. Further(t, in, r) /\ t.g.mem.alive = A /\ in[1] \in A \cup {Globals}
    BY <1>0, <1>3, <1>4
  <2> QED BY <2>1, <1>a, Zenon DEF Further
<1>7. Like(A, r.g.mem.state, E[j + 1])
  <2>1. \A p \in Parts : r.g.mem.state[p] = IF p = in[1] THEN in[2] ELSE t.g.mem.state[p]
    <3>1. t.g.mem.state = [p \in Parts |-> t.g.mem.state[p]]
      BY <1>0 DEF Shaped
    <3> QED BY <3>1, <1>6
  <2>2. Globals \in Parts /\ \A k \in A : k \in Parts
    BY <1>1 DEF Parts
  <2>3. Agree(A, r.g.mem.state, E[j + 1])
    BY <2>1, <2>2, <1>0, <1>4 DEF Like, Agree
  <2>4. Others(A, r.g.mem.state, E[j + 1])
    BY <2>1, <1>0, <1>4 DEF Like, Others
  <2> QED BY <2>3, <2>4 DEF Like
<1>8. Telling(Record(r.g.mem, z)) = RecordOf(A, E[j + 1])
  <2>1. /\ z \in Slots /\ r.g.mem.slots[z].used /\ Consistent(r.g.mem)
    <3>1. Held(r.g) /\ Place(f) \in Ring
      BY <1>2, <1>3, PlaceOf DEF InStep, Tested, Place
    <3>2. z # None
      <4>1. \A i \in 0 .. f : r.g.ring[Place(i)] # None
        BY <1>3 DEF InStep, Place
      <4> QED BY <4>1, <1>2, <1>a
    <3> QED BY <3>1, <3>2, <1>a, HeldSlot
  <2>2. r.g.mem.slots[z].keys = r.g.mem.alive /\ r.g.mem.saved[z] = r.g.mem.state
    BY <1>6, <1>a DEF HoldsAt
  <2> DEFINE m == r.g.mem
             u == E[j + 1]
  <2>3. /\ Consistent(m) /\ Shaped(m, K) /\ z \in Slots /\ m.slots[z].used
        /\ m.slots[z].keys = m.alive /\ m.saved[z] = m.state
        /\ (\A p \in Parts : Fits(u[p], K[p])) /\ Like(m.alive, m.state, u)
    BY <2>1, <2>2, <1>4, <1>5, <1>6, <1>7
  <2>4. m.alive = A
    BY <1>6
  <2> HIDE DEF m, u
  <2>5. Telling(Record(m, z)) = RecordOf(A, u)
    BY <2>3, <2>4, RecordTells
  <2> QED BY <2>5 DEF m, u
<1>9. /\ Clear(r.sync) /\ r.sync.distance = t.sync.distance
      /\ \A h \in DOMAIN r.sync.records :
           IF h = f THEN Telling(r.sync.records[h]) = RecordOf(A, E[j + 1])
           ELSE h \in DOMAIN t.sync.records /\ r.sync.records[h] = t.sync.records[h]
  <2>1. /\ Counted(y) /\ Clear(y) /\ y.frame = f /\ y.records = t.sync.records
        /\ y.distance = t.sync.distance
    BY <1>0, <1>1, <1>2, <1>a DEF Counted, Clear
  <2>3. f \in DOMAIN t.sync.records => Telling(t.sync.records[f]) = RecordOf(A, E[j + 1])
    BY <1>0, <1>2 DEF Matching
  <2> DEFINE rec == Record(r.g.mem, z)
             after == r.sync
  <2>4. after = SyncTestVerify(y, rec) /\ Telling(rec) = RecordOf(A, E[j + 1])
    BY <1>6, <1>8
  <2> HIDE DEF rec, y
  <2>5. y.frame \in DOMAIN y.records => Telling(y.records[y.frame]) = Telling(rec)
    BY <2>1, <2>3, <2>4
  <2> HIDE DEF after
  <2>6. /\ Clear(after) /\ after.distance = y.distance
        /\ \A h \in DOMAIN after.records :
             IF h = y.frame THEN after.records[h] = rec
             ELSE h \in DOMAIN y.records /\ after.records[h] = y.records[h]
    BY <2>1, <2>4, <2>5, VerifyFinds
  <2> QED BY <2>1, <2>4, <2>6 DEF after
<1>10. Matching(r.sync, E, A)
  <2> SUFFICES ASSUME NEW i \in Nat \ {0}, t.sync.verified + i \in DOMAIN r.sync.records
               PROVE  i <= n /\ Telling(r.sync.records[t.sync.verified + i]) = RecordOf(A, E[i])
    BY <1>3, <1>a DEF Matching
  <2>1. CASE i = j + 1
    <3> QED BY <2>1, <1>2, <1>9
  <2>2. CASE i # j + 1
    <3>1. t.sync.verified + i # f
      BY <2>2, <1>0, <1>1, <1>2
    <3> QED BY <3>1, <1>0, <1>9, <1>a DEF Matching
  <2> QED BY <2>1, <2>2
<1>11. Along(r, E, A, K, j + 1)
  <2>1. r.sync.frame = r.sync.verified + (j + 1) /\ j + 1 \in 0 .. Len(r.sync.inputs)
    BY <1>1, <1>2, <1>3, <1>a
  <2> QED BY <2>1, <1>0, <1>3, <1>5, <1>6, <1>7, <1>9, <1>10 DEF Along
<1> QED BY <1>3, <1>6, <1>9, <1>11, <1>a

(* What no input is about stays what it is.                                *)
LEMMA CourseElsewhere ==
  ASSUME NEW E, NEW inputs, Len(inputs) \in Nat, NEW A, NEW K, Course(E, inputs, A, K),
         NEW n \in 0 .. Len(inputs)
  PROVE  Others(A, E[n], E[0])
<1> DEFINE B == {j \in 0 .. Len(inputs) : ~Others(A, E[j], E[0])}
<1> SUFFICES ASSUME B # {} PROVE FALSE
  OBVIOUS
<1>1. PICK j \in B : \A k \in B : j <= k
  <2>1. B \in SUBSET Nat
    OBVIOUS
  <2> QED BY <2>1, LeastNatural
<1>2. Others(A, E[0], E[0])
  BY DEF Others
<1>3. j \in 1 .. Len(inputs) /\ j - 1 \in 0 .. Len(inputs) /\ j - 1 \notin B
  BY <1>1, <1>2
<1>4. Others(A, E[j - 1], E[0])
  BY <1>3
<1>5. Others(A, E[j], E[j - 1])
  BY <1>3 DEF Course, Others
<1>6. Others(A, E[j], E[0])
  BY <1>4, <1>5 DEF Others
<1> QED BY <1>1, <1>6

(* A course of no inputs yet.                                              *)
LEMMA CourseBegins ==
  ASSUME NEW m, NEW K, Shaped(m, K), NEW A
  PROVE  \E F : F[0] = m.state /\ Course(F, <<>>, A, K) /\ Like(A, m.state, F[0])
<1> DEFINE F == [j \in {0} |-> m.state]
<1>1. F[0] = m.state
  OBVIOUS
<1> HIDE DEF F
<1>2. Len(<<>>) = 0
  OBVIOUS
<1>3. \A p \in Parts : Fits(F[0][p], K[p])
  BY <1>1 DEF Shaped
<1>4. (\A j \in 0 .. Len(<<>>) : j = 0) /\ 1 .. Len(<<>>) = {}
  BY <1>2
<1>5. Course(F, <<>>, A, K)
  BY <1>3, <1>4 DEF Course
<1>6. Like(A, m.state, F[0])
  BY <1>1 DEF Like, Agree, Others
<1> QED BY <1>1, <1>5, <1>6

(* A replay that crosses no reset finds nothing, and a new course begins   *)
(* where it ends.                                                          *)
LEMMA ReplayMatches ==
  ASSUME EnoughHeap, ValuesFit, NEW t, NEW E, NEW A, NEW K, NEW n, n = Len(t.sync.inputs), n > 0,
         Along(t, E, A, K, n), HoldsAt(t.g, Place(t.sync.verified), E[0]), ~Across(t),
         NEW kept, NEW r, r = Replay(t, kept)
  PROVE  /\ r.sync.inputs = <<>> /\ r.sync.distance = t.sync.distance
         /\ \E F : Along(r, F, A, K, 0) /\ HoldsAt(r.g, Place(r.sync.verified), F[0])
<1> DEFINE v == t.sync.verified
           inputs == t.sync.inputs
           from == ReplayFrom(t, kept)
           done == FoldLeft(Advance, from, inputs)
<1>0. /\ InStep(t) /\ Shaped(t.g.mem, K) /\ t.g.mem.alive = A /\ Course(E, inputs, A, K)
      /\ n \in 0 .. Len(inputs) /\ t.sync.frame = v + n
      /\ Like(A, t.g.mem.state, E[n]) /\ Matching(t.sync, E, A) /\ Clear(t.sync)
  BY DEF Along
<1>1. /\ Counted(t.sync) /\ v \in Nat /\ inputs \in Seq(Parts \X Values)
      /\ n \in Nat /\ n = Len(inputs) /\ DOMAIN inputs = 1 .. n
  BY <1>0 DEF InStep, Tested, Counted
<1>2. r = Replayed(done)
  BY DEF Replay, Replayed
<1>3. /\ InStep(from) /\ from.sync = [t.sync EXCEPT !.frame = v, !.crossed = t.sync.crossed \/ Across(t)]
      /\ from.g.mem.alive = A
      /\ Kept(t.g.mem, from.g.mem)
      /\ Fit(t.g.mem) => Agree(A, from.g.mem.state, E[0]) /\ Others(A, from.g.mem.state, t.g.mem.state)
  <2>1. t.sync.verified <= t.sync.frame
    BY <1>0, <1>1
  <2> QED BY <2>1, <1>0, ReplayStarts
<1> HIDE DEF from, done
<1>4. /\ from.sync.frame = v /\ from.sync.inputs = inputs /\ from.sync.verified = v
      /\ from.sync.records = t.sync.records /\ from.sync.distance = t.sync.distance
      /\ Clear(from.sync)
  BY <1>0, <1>1, <1>3 DEF Counted, Clear
<1> HIDE DEF v, inputs
<1>5. Along(from, E, A, K, 0)
  <2>1. Shaped(from.g.mem, K)
    BY <1>0, <1>3 DEF Kept, KeptBy
  <2>2. Like(A, from.g.mem.state, E[0])
    <3>1. Fit(t.g.mem)
      BY <1>0 DEF Fit
    <3>2. Others(A, E[n], E[0])
      BY <1>0, <1>1, CourseElsewhere
    <3>3. Others(A, from.g.mem.state, E[0])
      BY <3>1, <3>2, <1>0, <1>3 DEF Like, Others
    <3> QED BY <3>1, <3>3, <1>3 DEF Like
  <2>3. Matching(from.sync, E, A)
    BY <1>0, <1>4 DEF Matching, v, inputs
  <2>4. from.sync.frame = from.sync.verified + 0 /\ 0 \in 0 .. Len(from.sync.inputs)
    BY <1>1, <1>4
  <2> QED BY <2>1, <2>2, <2>3, <2>4, <1>0, <1>3, <1>4 DEF Along
<1>6. PICK h : Frames(h, from, inputs, n) /\ done = h[n]
  BY <1>1, FrameByFrame DEF done
<1> DEFINE Good(j) == /\ Along(h[j], E, A, K, j) /\ h[j].sync.inputs = inputs
                      /\ h[j].sync.distance = t.sync.distance
                      /\ j > 0 => HoldsAt(h[j].g, Place(h[j].sync.frame), h[j].g.mem.state)
           B == {j \in 0 .. n : ~Good(j)}
<1>7. B = {}
  <2> SUFFICES ASSUME B # {} PROVE FALSE
    OBVIOUS
  <2>1. PICK j \in B : \A k \in B : j <= k
    <3>1. B \in SUBSET Nat
      OBVIOUS
    <3> QED BY <3>1, LeastNatural
  <2>2. Good(0)
    BY <1>4, <1>5, <1>6 DEF Frames
  <2>3. j \in 1 .. n /\ j - 1 \in Nat /\ (j - 1) + 1 = j /\ j - 1 < n /\ Good(j - 1)
    <3> HIDE DEF Good
    <3>1. j \in 1 .. n /\ j - 1 \in 0 .. n /\ j - 1 \notin B
      BY <2>1, <2>2, <1>1
    <3> QED BY <3>1, <1>1
  <2> DEFINE x == h[j - 1]
             y == h[j]
  <2>4. Along(x, E, A, K, j - 1) /\ x.sync.inputs = inputs /\ x.sync.distance = t.sync.distance
    BY <2>3
  <2>5. y = Advance(x, inputs[j])
    BY <2>3, <1>6 DEF Frames
  <2> HIDE DEF x, y
  <2>6. /\ Along(y, E, A, K, j) /\ y.sync.distance = x.sync.distance /\ y.sync.inputs = x.sync.inputs
        /\ HoldsAt(y.g, Place(y.sync.frame), y.g.mem.state)
    <3> DEFINE i == j - 1
    <3>1. Along(x, E, A, K, i) /\ i < Len(x.sync.inputs) /\ i + 1 = j
      BY <2>3, <2>4, <1>1
    <3> HIDE DEF i
    <3>2. y = Advance(x, inputs[j]) /\ inputs[j] = x.sync.inputs[i + 1]
      BY <3>1, <2>4, <2>5
    <3> QED BY <3>1, <3>2, FrameMatches
  <2>7. Good(j)
    BY <2>4, <2>6 DEF x, y
  <2> HIDE DEF Good
  <2> QED BY <2>1, <2>7
<1>8. Good(n)
  <2> HIDE DEF Good
  <2>1. n \in 0 .. n
    BY <1>1
  <2> QED BY <2>1, <1>7
<1>9. /\ Along(done, E, A, K, n) /\ done.sync.inputs = inputs /\ done.sync.distance = t.sync.distance
      /\ HoldsAt(done.g, Place(done.sync.frame), done.g.mem.state)
  BY <1>6, <1>8
<1> HIDE DEF Good, B
<1>10. /\ InStep(done) /\ Shaped(done.g.mem, K) /\ done.g.mem.alive = A /\ Counted(done.sync)
       /\ done.sync.frame = done.sync.verified + n
       /\ Matching(done.sync, E, A) /\ Clear(done.sync)
  BY <1>9 DEF Along, InStep, Tested
<1>11. /\ InStep(r) /\ r.g = done.g
       /\ r.sync = [done.sync EXCEPT !.verified = done.sync.frame, !.inputs = <<>>]
       /\ r.sync.frame = done.sync.frame /\ r.sync.verified = done.sync.frame /\ r.sync.inputs = <<>>
  BY <1>2, <1>10, ReplayEnds
<1>12. r.sync.records = done.sync.records /\ r.sync.distance = t.sync.distance /\ Clear(r.sync)
  BY <1>9, <1>10, <1>11 DEF Counted, Clear
<1>13. PICK F : F[0] = r.g.mem.state /\ Course(F, <<>>, A, K) /\ Like(A, r.g.mem.state, F[0])
  BY <1>10, <1>11, CourseBegins
<1>15. Matching(r.sync, F, A)
  <2> SUFFICES ASSUME NEW j \in Nat \ {0}, r.sync.verified + j \in DOMAIN r.sync.records
               PROVE  FALSE
    BY DEF Matching
  <2>1. done.sync.verified \in Nat
    BY <1>10 DEF Counted
  <2>2. r.sync.verified + j = done.sync.verified + (n + j) /\ n + j \in Nat \ {0} /\ ~(n + j <= n)
    <3>1. \A a, b, c \in Nat : (a + b) + c = a + (b + c)
      OBVIOUS
    <3>2. r.sync.verified = done.sync.verified + n
      BY <1>10, <1>11
    <3>3. j \in Nat /\ n \in Nat /\ n + j \in Nat \ {0} /\ ~(n + j <= n)
      BY <1>1
    <3> QED BY <3>1, <3>2, <3>3, <2>1
  <2> QED BY <2>2, <1>1, <1>9, <1>10, <1>12 DEF Matching
<1>16. Along(r, F, A, K, 0)
  <2>2. r.sync.frame = r.sync.verified + 0 /\ 0 \in 0 .. Len(r.sync.inputs)
    <3>1. done.sync.frame \in Nat
      BY <1>10 DEF Counted
    <3> QED BY <3>1, <1>11
  <2> QED BY <2>2, <1>10, <1>11, <1>12, <1>13, <1>15 DEF Along
<1>17. HoldsAt(r.g, Place(r.sync.verified), F[0])
  BY <1>9, <1>11, <1>13
<1> QED BY <1>11, <1>12, <1>16, <1>17

(* A course goes on with another input.                                    *)
LEMMA CourseGoesOn ==
  ASSUME NEW E, NEW inputs \in Seq(Parts \X Values), NEW A, NEW K, Course(E, inputs, A, K),
         NEW in \in Parts \X Values, in[1] \in A \cup {Globals}, Fits(in[2], K[in[1]])
  PROVE  \E F : Course(F, Append(inputs, in), A, K) /\ \A j \in 0 .. Len(inputs) : F[j] = E[j]
<1> DEFINE n == Len(inputs)
           last == [q \in Parts |-> IF q = in[1] THEN in[2] ELSE E[n][q]]
           F == [j \in 0 .. n + 1 |-> IF j = n + 1 THEN last ELSE E[j]]
           more == Append(inputs, in)
<1>1. /\ n \in Nat /\ Len(more) = n + 1 /\ more[n + 1] = in
      /\ \A j \in 1 .. n : more[j] = inputs[j]
  OBVIOUS
<1>2. /\ \A p \in Parts : last[p] = IF p = in[1] THEN in[2] ELSE E[n][p]
      /\ n = Len(inputs)
  OBVIOUS
<1> HIDE DEF n, last, more
<1>3. F[n + 1] = last /\ \A j \in 0 .. n : F[j] = E[j]
  BY <1>1
<1> HIDE DEF F
<1>4. ASSUME NEW j \in 0 .. Len(more), NEW p \in Parts PROVE Fits(F[j][p], K[p])
  <2>1. CASE j = n + 1
    <3>1. Fits(E[n][p], K[p])
      BY <1>1, <1>2 DEF Course
    <3> QED BY <2>1, <3>1, <1>2, <1>3
  <2>2. CASE j # n + 1
    <3>1. j \in 0 .. n
      BY <2>2, <1>1
    <3> QED BY <3>1, <1>2, <1>3 DEF Course
  <2> QED BY <2>1, <2>2
<1>5. ASSUME NEW j \in 1 .. Len(more)
      PROVE  /\ more[j][1] \in A \cup {Globals}
             /\ \A p \in Parts : F[j][p] = IF p = more[j][1] THEN more[j][2] ELSE F[j - 1][p]
  <2>1. CASE j = n + 1
    <3>1. j - 1 = n /\ n \in 0 .. n
      BY <2>1, <1>1
    <3> QED BY <2>1, <3>1, <1>1, <1>2, <1>3
  <2>2. CASE j # n + 1
    <3>1. j \in 1 .. n /\ j \in 0 .. n /\ j - 1 \in 0 .. n
      BY <2>2, <1>1
    <3>2. /\ inputs[j][1] \in A \cup {Globals}
          /\ \A p \in Parts : E[j][p] = IF p = inputs[j][1] THEN inputs[j][2] ELSE E[j - 1][p]
      BY <3>1, <1>2 DEF Course
    <3> QED BY <3>1, <3>2, <1>1, <1>3
  <2> QED BY <2>1, <2>2
<1>6. Course(F, more, A, K)
  BY <1>4, <1>5 DEF Course
<1> QED BY <1>2, <1>3, <1>6 DEF more

(* Between two frames the test is on its course, with the frame it goes    *)
(* back to at its place and no further away than it ever goes.             *)
UnderWay(t, E, K) ==
  /\ Along(t, E, t.g.mem.alive, K, Len(t.sync.inputs)) /\ Len(t.sync.inputs) < t.sync.distance
  /\ HoldsAt(t.g, Place(t.sync.verified), E[0])

(* Or it has not begun.                                                    *)
Fresh(y) == y.inputs = <<>> /\ y.records = <<>> /\ y.verified = 0

OnCourse(t) ==
  /\ Clear(t.sync) /\ t.sync.distance \in 1 .. GGPO_MAX_PREDICTION_FRAMES
  /\ t.sync.frame = 0 => Fresh(t.sync)
  /\ t.sync.frame # 0 => \E E, K : UnderWay(t, E, K)

(* The first frame is where it begins.                                     *)
LEMMA FirstFrame ==
  ASSUME EnoughHeap, ValuesFit, NEW t, Tested(t), OnCourse(t), t.sync.frame = 0, NEW K, Shaped(t.g.mem, K),
         NEW r, InStep(r), Counts(t, r), r.g.mem.alive = t.g.mem.alive, Kept(t.g.mem, r.g.mem), Verified(t, r)
  PROVE  r.sync.distance = t.sync.distance /\ \E E : UnderWay(r, E, K)
<1> DEFINE A == r.g.mem.alive
<1>0. /\ Counted(t.sync) /\ Clear(t.sync) /\ t.sync.distance \in 1 .. GGPO_MAX_PREDICTION_FRAMES
      /\ Fresh(t.sync)
  BY DEF OnCourse, Tested
<1>1. r.sync.frame = 0 /\ r.sync.verified = 0 /\ r.sync.inputs = <<>> /\ Len(<<>>) = 0
  BY <1>0 DEF Counts, Fresh
<1>2. Shaped(r.g.mem, K)
  BY DEF Kept, KeptBy
<1>3. PICK E : E[0] = r.g.mem.state /\ Course(E, <<>>, A, K) /\ Like(A, r.g.mem.state, E[0])
  BY <1>2, CourseBegins
<1>4. Clear(r.sync) /\ r.sync.distance = t.sync.distance /\ \A h \in DOMAIN r.sync.records : h = 0
  <2>1. PICK rec : r.sync = SyncTestVerify(t.sync, rec)
    BY DEF Verified
  <2>2. \A h : h \notin DOMAIN t.sync.records
    BY <1>0 DEF Fresh
  <2>3. /\ Clear(r.sync) /\ r.sync.distance = t.sync.distance
        /\ \A h \in DOMAIN r.sync.records :
             IF h = t.sync.frame THEN r.sync.records[h] = rec
             ELSE h \in DOMAIN t.sync.records /\ r.sync.records[h] = t.sync.records[h]
    BY <2>1, <2>2, <1>0, VerifyFinds
  <2> QED BY <2>2, <2>3
<1>5. Matching(r.sync, E, A)
  BY <1>1, <1>4 DEF Matching
<1>6. Along(r, E, A, K, 0)
  BY <1>1, <1>2, <1>3, <1>4, <1>5 DEF Along
<1>7. HoldsAt(r.g, Place(r.sync.verified), E[0])
  BY <1>1, <1>3 DEF Verified
<1>8. 0 < r.sync.distance
  BY <1>0, <1>4, ConstantsTyped
<1>9. UnderWay(r, E, K)
  BY <1>1, <1>6, <1>7, <1>8 DEF UnderWay
<1> QED BY <1>4, <1>9

(* Another frame, and a replay if it is due.                               *)
LEMMA NextFrame ==
  ASSUME EnoughHeap, ValuesFit, NEW t, NEW E, NEW K, UnderWay(t, E, K),
         NEW d \in 1 .. GGPO_MAX_PREDICTION_FRAMES, t.sync.distance = d,
         NEW in \in Parts \X Values, in[1] \in t.g.mem.alive \cup {Globals}, in[2].kind = K[in[1]],
         NEW told, told = Tell(t, in), NEW next, next = Advance(told, in), NEW kept, NEW r,
         r = IF next.sync.frame - next.sync.verified = d THEN Replay(next, kept) ELSE next, ~r.sync.crossed
  PROVE  OnCourse(r) /\ r.sync.distance = d
<1> DEFINE A == t.g.mem.alive
           n == Len(t.sync.inputs)
           v == t.sync.verified
           inputs == t.sync.inputs
<1>1. /\ InStep(t) /\ Shaped(t.g.mem, K) /\ Course(E, inputs, A, K) /\ t.sync.frame = v + n
      /\ Like(A, t.g.mem.state, E[n]) /\ Matching(t.sync, E, A) /\ Clear(t.sync)
      /\ n < d /\ HoldsAt(t.g, Place(v), E[0])
  BY DEF UnderWay, Along
<1>2. /\ Counted(t.sync) /\ t.sync.frame \in Nat /\ v \in Nat /\ inputs \in Seq(Parts \X Values)
      /\ n \in Nat /\ n + 1 \in 1 .. GGPO_MAX_PREDICTION_FRAMES /\ n + 1 <= d /\ n \in 0 .. n
  <2>1. Counted(t.sync)
    BY <1>1 DEF InStep, Tested
  <2>2. t.sync.frame \in Nat /\ v \in Nat /\ inputs \in Seq(Parts \X Values)
    BY <2>1 DEF Counted
  <2>3. n \in Nat /\ n < d
    BY <2>2, <1>1
  <2> HIDE DEF n, v, inputs
  <2>4. n + 1 \in 1 .. GGPO_MAX_PREDICTION_FRAMES /\ n + 1 <= d /\ n \in 0 .. n
    BY <2>3, ConstantsTyped
  <2> QED BY <2>1, <2>2, <2>3, <2>4
<1>3. in[1] \in Parts /\ Fits(in[2], K[in[1]])
  <2>1. in[1] \in Parts /\ in[2] \in Values
    OBVIOUS
  <2> QED BY <2>1, ValueFits
<1>4. PICK F : Course(F, Append(inputs, in), A, K) /\ \A j \in 0 .. n : F[j] = E[j]
  <2> HIDE DEF inputs, A
  <2>1. inputs \in Seq(Parts \X Values) /\ Course(E, inputs, A, K) /\ in[1] \in A \cup {Globals}
    BY <1>1, <1>2 DEF A
  <2>2. \E F : Course(F, Append(inputs, in), A, K) /\ \A j \in 0 .. Len(inputs) : F[j] = E[j]
    BY <2>1, <1>3, CourseGoesOn
  <2> QED BY <2>2 DEF inputs
<1>5. InStep(told) /\ PutDown(t, in, told)
  BY <1>1, TellKeeps
<1>6. Len(Append(inputs, in)) = n + 1 /\ Append(inputs, in)[n + 1] = in
  BY <1>2
<1> HIDE DEF v, n, inputs, A
<1>7. /\ told.g = t.g /\ told.sync.frame = v + n /\ told.sync.verified = v
      /\ Len(told.sync.inputs) = n + 1 /\ told.sync.inputs[n + 1] = in
      /\ told.sync.inputs = Append(inputs, in) /\ told.sync.records = t.sync.records
      /\ told.sync.distance = d /\ Clear(told.sync)
  BY <1>1, <1>5, <1>6 DEF PutDown, v, n, inputs, Clear
<1>8. Matching(told.sync, F, A)
  <2> SUFFICES ASSUME NEW j \in Nat \ {0}, v + j \in DOMAIN t.sync.records
               PROVE  j <= n + 1 /\ Telling(t.sync.records[v + j]) = RecordOf(A, F[j])
    BY <1>7 DEF Matching
  <2>1. j <= n /\ Telling(t.sync.records[v + j]) = RecordOf(A, E[j])
    BY <1>1 DEF Matching, v, n
  <2> QED BY <2>1, <1>2, <1>4
<1>9. Along(told, F, A, K, n)
  <2>1. n \in 0 .. Len(told.sync.inputs) /\ told.sync.frame = told.sync.verified + n
    BY <1>2, <1>7
  <2>2. F[n] = E[n]
    BY <1>2, <1>4
  <2> QED BY <2>1, <2>2, <1>1, <1>4, <1>5, <1>7, <1>8 DEF Along, A
<1>10. /\ Along(next, F, A, K, n + 1) /\ next.sync.distance = d /\ next.sync.verified = v
       /\ next.sync.inputs = told.sync.inputs
       /\ \A i \in Ring \ {Place(next.sync.frame)} : Stays(told.g, next.g, i)
  <2>1. n < Len(told.sync.inputs)
    BY <1>2, <1>7
  <2> QED BY <2>1, <1>7, <1>9, FrameMatches
<1>11. /\ next.sync.frame = v + (n + 1) /\ next.g.mem.alive = A /\ InStep(next)
       /\ Clear(next.sync) /\ Len(next.sync.inputs) = n + 1
  BY <1>7, <1>10 DEF Along
<1>12. HoldsAt(next.g, Place(v), F[0])
  <2>1. Place(v) \in Ring \ {Place(next.sync.frame)}
    BY <1>2, <1>11, PlacesApart
  <2>2. Stays(t.g, next.g, Place(v))
    BY <2>1, <1>7, <1>10
  <2>3. t.g.ring[Place(v)] # None
    <3>1. v \in 0 .. t.sync.frame
      BY <1>1, <1>2
    <3> QED BY <3>1, <1>1 DEF InStep, Place
  <2>4. F[0] = E[0]
    BY <1>2, <1>4
  <2>5. t.g.mem.alive = A
    BY DEF A
  <2> QED BY <2>2, <2>3, <2>4, <2>5, <1>1, <1>11 DEF Stays, HoldsAt
<1>13. next.sync.frame - next.sync.verified = n + 1
  BY <1>2, <1>10, <1>11
<1>14. CASE n + 1 = d
  <2>1. r = Replay(next, kept)
    BY <1>13, <1>14
  <2>9. next.sync.verified <= next.sync.frame
    BY <1>2, <1>10, <1>11
  <2>10. ~Across(next)
    BY <2>1, <2>9, <1>11, ReplayKeeps
  <2> DEFINE k == n + 1
  <2>2. k = Len(next.sync.inputs) /\ k > 0 /\ Along(next, F, A, K, k)
    BY <1>2, <1>10, <1>11
  <2>3. HoldsAt(next.g, Place(next.sync.verified), F[0])
    BY <1>10, <1>12
  <2> HIDE DEF k
  <2>4. /\ r.sync.inputs = <<>> /\ r.sync.distance = next.sync.distance
        /\ \E G : Along(r, G, A, K, 0) /\ HoldsAt(r.g, Place(r.sync.verified), G[0])
    BY <2>1, <2>2, <2>3, <2>10, ReplayMatches
  <2>5. PICK G : Along(r, G, A, K, 0) /\ HoldsAt(r.g, Place(r.sync.verified), G[0])
    BY <2>4
  <2>6. Len(<<>>) = 0 /\ 0 < d
    OBVIOUS
  <2>7. UnderWay(r, G, K) /\ Clear(r.sync)
    BY <2>4, <2>5, <2>6, <1>10 DEF UnderWay, Along
  <2>8. r.sync.frame # 0
    <3>1. Replay(next, kept).sync.frame = next.sync.verified + Len(next.sync.inputs)
      BY <2>9, <1>11, ReplayKeeps
    <3> QED BY <3>1, <2>1, <1>2, <1>10, <1>11
  <2> QED BY <2>4, <2>7, <2>8, <1>10 DEF OnCourse
<1>15. CASE n + 1 # d
  <2>1. r = next /\ n + 1 < d
    BY <1>2, <1>13, <1>15
  <2>2. UnderWay(r, F, K)
    BY <2>1, <1>10, <1>11, <1>12 DEF UnderWay
  <2>3. r.sync.frame # 0
    BY <2>1, <1>2, <1>11
  <2> QED BY <2>1, <2>2, <2>3, <1>10, <1>11 DEF OnCourse
<1> QED BY <1>14, <1>15

(* What keeps the looks of the battle and what GGPO holds of it leaves the *)
(* test on its course.                                                     *)
LEMMA CourseStays ==
  ASSUME EnoughHeap, ValuesFit, NEW t, OnCourse(t), NEW u, u.sync = t.sync,
         u.sync.frame # 0 => InStep(u), Kept(t.g.mem, u.g.mem), u.g.mem.alive = t.g.mem.alive,
         Like(t.g.mem.alive, u.g.mem.state, t.g.mem.state), \A i \in Ring : Stays(t.g, u.g, i)
  PROVE  OnCourse(u)
<1>1. CASE t.sync.frame = 0
  BY <1>1 DEF OnCourse
<1>2. CASE t.sync.frame # 0
  <2> DEFINE A == t.g.mem.alive
             n == Len(t.sync.inputs)
             v == t.sync.verified
  <2>1. PICK E, K : UnderWay(t, E, K)
    BY <1>2 DEF OnCourse
  <2>2. /\ InStep(t) /\ Shaped(t.g.mem, K) /\ Like(A, t.g.mem.state, E[n])
        /\ HoldsAt(t.g, Place(v), E[0]) /\ n \in 0 .. n /\ t.sync.frame = v + n
    BY <2>1 DEF UnderWay, Along
  <2>3. v \in Nat /\ n \in Nat
    <3>1. Counted(t.sync)
      BY <2>2 DEF InStep, Tested
    <3>2. v \in Nat /\ t.sync.inputs \in Seq(Parts \X Values)
      BY <3>1 DEF Counted
    <3> QED BY <3>2
  <2>4. Shaped(u.g.mem, K)
    BY <2>2 DEF Kept, KeptBy
  <2> HIDE DEF A
  <2>5. Like(A, u.g.mem.state, E[n])
    BY <2>2 DEF Like, Agree, Others, A
  <2>6. HoldsAt(u.g, Place(v), E[0])
    <3> HIDE DEF n, v
    <3>1. Place(v) \in Ring
      BY <2>3, PlaceOf DEF Place
    <3>2. v \in 0 .. t.sync.frame
      BY <2>2, <2>3
    <3>3. t.g.ring[Place(v)] # None
      BY <3>2, <2>2 DEF InStep, Place
    <3> QED BY <3>1, <3>3, <2>2 DEF Stays, HoldsAt
  <2>7. Along(u, E, A, K, n)
    <3>1. Along(t, E, A, K, n)
      BY <2>1 DEF UnderWay, A
    <3> QED BY <3>1, <2>4, <2>5, <1>2 DEF Along, A
  <2>8. UnderWay(u, E, K)
    BY <2>1, <2>6, <2>7 DEF UnderWay, A
  <2> QED BY <2>8, <1>2 DEF OnCourse
<1> QED BY <1>1, <1>2

(* A frame of the test as a whole.                                         *)
LEMMA SyncTestFrameMatches ==
  ASSUME EnoughHeap, ValuesFit, Testing, Shape, OnCourse([g |-> Battle, sync |-> sync]),
         NEW p \in Parts, NEW v \in Values, NEW kept, SyncTestFrame(p, v, kept), ~sync'.crossed
  PROVE  OnCourse([g |-> Battle', sync |-> sync'])
<1> DEFINE start == [g |-> Battle, sync |-> sync]
           in == <<p, v>>
           first == IF sync.frame = 0 THEN SaveAndVerify(start) ELSE start
           told == [first EXCEPT !.sync.inputs = Append(@, in)]
           next == Advance(told, in)
           t == IF next.sync.frame - next.sync.verified = sync.distance THEN Replay(next, kept) ELSE next
<1>1. /\ Held(Battle) /\ Counted(sync) /\ sync.distance \in 1 .. GGPO_MAX_PREDICTION_FRAMES
      /\ p \in mem.alive \cup {Globals} /\ v.kind = mem.state[p].kind
  BY DEF Testing, OnCourse, SyncTestFrame
<1>2. Become(t.g) /\ sync' = t.sync
  BY Zenon DEF SyncTestFrame
<1>3. /\ in \in Parts \X Values /\ in[1] = p /\ in[2] = v /\ told = Tell(first, in)
      /\ start.g = Battle /\ start.sync = sync /\ Battle.mem = mem
  BY DEF Tell, Battle
<1>4. /\ first.sync.distance = sync.distance /\ first.g.mem.alive = mem.alive
      /\ \E E, K : UnderWay(first, E, K) /\ K[p] = mem.state[p].kind
  <2>1. CASE sync.frame = 0
    <3>1. PICK K : Shaped(mem, K)
      BY DEF Shape
    <3>2. K[p] = mem.state[p].kind
      BY <3>1 DEF Shaped, Fits
    <3>3. Tested(start) /\ start.g.head = head
      BY <1>1 DEF Tested, Battle
    <3>4. head = 0 /\ 0 % NUM_SAVE_STATES = 0
      BY <2>1, ConstantsTyped DEF Testing
    <3>5. \A j \in 0 .. start.sync.frame : j = start.sync.frame
      BY <2>1, <1>3
    <3>6. first = SaveAndVerify(start)
      BY <2>1
    <3> HIDE DEF start, first
    <3>7. /\ InStep(first) /\ Counts(start, first) /\ first.g.mem.alive = start.g.mem.alive
          /\ Kept(start.g.mem, first.g.mem) /\ Verified(start, first)
      BY <2>1, <3>3, <3>4, <3>5, <3>6, <1>3, SaveAndVerifyKeeps
    <3>8. OnCourse(start) /\ start.sync.frame = 0 /\ Shaped(start.g.mem, K)
      BY <2>1, <3>1, <1>3 DEF start
    <3>9. first.sync.distance = start.sync.distance /\ \E E : UnderWay(first, E, K)
      BY <3>3, <3>7, <3>8, FirstFrame
    <3> QED BY <3>2, <3>7, <3>9, <1>3
  <2>2. CASE sync.frame # 0
    <3>1. PICK E, K : UnderWay(start, E, K)
      BY <2>2 DEF OnCourse
    <3>2. Shaped(mem, K)
      BY <3>1, <1>3 DEF UnderWay, Along
    <3>3. K[p] = mem.state[p].kind
      BY <3>2 DEF Shaped, Fits
    <3>4. first = start
      BY <2>2
    <3> HIDE DEF start, first
    <3> QED BY <3>1, <3>3, <3>4, <1>3
  <2> QED BY <2>1, <2>2
<1>5. PICK E, K : UnderWay(first, E, K) /\ K[p] = mem.state[p].kind
  BY <1>4
<1>6. /\ next = Advance(told, in) /\ ~t.sync.crossed
      /\ t = IF next.sync.frame - next.sync.verified = sync.distance THEN Replay(next, kept) ELSE next
  BY <1>2
<1> HIDE DEF in, first, told, next, t, start
<1>7. OnCourse(t)
  <2> DEFINE d == sync.distance
  <2>1. d \in 1 .. GGPO_MAX_PREDICTION_FRAMES /\ first.sync.distance = d
    BY <1>1, <1>4
  <2>2. t = IF next.sync.frame - next.sync.verified = d THEN Replay(next, kept) ELSE next
    BY <1>6
  <2>3. in[1] \in first.g.mem.alive \cup {Globals} /\ in[2].kind = K[in[1]]
    BY <1>1, <1>3, <1>4, <1>5
  <2> HIDE DEF d
  <2> QED BY <2>1, <2>2, <2>3, <1>3, <1>5, <1>6, NextFrame
<1>8. OnCourse([g |-> Battle', sync |-> sync'])
  <2> DEFINE u == [g |-> Battle', sync |-> sync']
  <2>1. u.g.mem = t.g.mem /\ u.g.ring = t.g.ring /\ u.sync = t.sync
    BY <1>2 DEF Become, Battle
  <2>2. u.sync.frame # 0 => InStep(u)
    <3>1. Testing'
      BY SyncTestFrameKeeps
    <3> QED BY <3>1 DEF Testing, Counted
  <2> HIDE DEF u
  <2>3. Kept(t.g.mem, u.g.mem)
    BY <2>1 DEF Kept, KeptBy
  <2>4. Like(t.g.mem.alive, u.g.mem.state, t.g.mem.state) /\ \A i \in Ring : Stays(t.g, u.g, i)
    BY <2>1 DEF Like, Agree, Others, Stays
  <2>5. OnCourse(u)
    BY <2>1, <2>2, <2>3, <2>4, <1>7, CourseStays
  <2> QED BY <2>5 DEF u
<1> QED BY <1>8

(* There is no difference, and a sync test is on its course, if it never   *)
(* went back across a reset.                                               *)
Matched == ~sync.crossed =>
  Clear(sync) /\ (mode = "synctest" => OnCourse([g |-> Battle, sync |-> sync]))

(* How far a test goes back is as many frames as GGPO can.                 *)
LEMMA DistanceInRange ==
  ASSUME NEW asked \in Nat
  PROVE  CheckDistance(asked) \in 1 .. GGPO_MAX_PREDICTION_FRAMES
<1> DEFINE G == GGPO_MAX_PREDICTION_FRAMES
           low == Min({asked, G})
           d == Max({1, low})
<1>1. G \in Nat /\ 1 <= G
  BY SaveStatesAssumption
<1> HIDE DEF G
<1>2. low \in {asked, G} /\ low <= G
  <2>1. \E x \in {asked, G} : \A y \in {asked, G} : x <= y
    BY <1>1
  <2> QED BY <2>1 DEF Min
<1> HIDE DEF low
<1>3. d \in {1, low} /\ 1 <= d
  <2>1. \E x \in {1, low} : \A y \in {1, low} : x >= y
    BY <1>1, <1>2
  <2> QED BY <2>1, <1>1, <1>2 DEF Max
<1>4. d \in 1 .. G
  BY <1>1, <1>2, <1>3
<1> QED BY <1>4 DEF CheckDistance, low, G

LEMMA MatchedStarts ==
  ASSUME Init
  PROVE  Matched
BY DEF Init, Matched, Clear, NoSyncTest

(* What the game or a check does between two frames of a test.             *)
LEMMA MatchedStays ==
  ASSUME EnoughHeap, ValuesFit, Inv, Inv', Matched, UNCHANGED <<mode, ring, head, sync>>,
         Kept(mem, mem'), mem'.alive = mem.alive, Like(mem.alive, mem'.state, mem.state),
         \A s \in Used(mem) : mem'.slots[s] = mem.slots[s] /\ mem'.saved[s] = mem.saved[s]
  PROVE  Matched'
<1>1. CASE mode # "synctest" \/ sync.crossed
  BY <1>1 DEF Matched
<1>2. CASE mode = "synctest" /\ ~sync.crossed
  <2> DEFINE t == [g |-> Battle, sync |-> sync]
             u == [g |-> Battle', sync |-> sync']
  <2>1. /\ t.g.mem = mem /\ t.g.ring = ring /\ t.sync = sync /\ OnCourse(t)
        /\ u.g.mem = mem' /\ u.g.ring = ring /\ u.sync = sync
    BY <1>2 DEF Battle, Matched
  <2>2. Held(t.g) /\ (u.sync.frame # 0 => InStep(u))
    <3>1. Testing /\ Testing'
      BY <1>2 DEF Inv
    <3> QED BY <3>1 DEF Testing, Counted
  <2> HIDE DEF t, u
  <2>3. ASSUME NEW i \in Ring PROVE Stays(t.g, u.g, i)
    <3>1. ASSUME t.g.ring[i] # None PROVE t.g.ring[i] \in Used(mem)
      BY <3>1, <2>1, <2>2, HeldSlot DEF Used
    <3> QED BY <3>1, <2>1 DEF Stays
  <2>4. OnCourse(u)
    BY <2>1, <2>2, <2>3, CourseStays
  <2> QED BY <2>4, <1>2 DEF Matched, OnCourse, u
<1> QED BY <1>1, <1>2

LEMMA NextMatched ==
  ASSUME EnoughHeap, ValuesFit, Inv, Shape, Matched, [Next]_vars
  PROVE  Matched'
<1>0. Consistent(mem) /\ Fit(mem) /\ Inv'
  BY NextKeeps DEF Inv, Fit, Shape
<1>1. ASSUME NEW kind \in {"offline", "netplay", "synctest"}, OpenBattle(kind) PROVE Matched'
  <2>1. CASE kind = "synctest"
    <3>1. PICK asked \in {0, 1, NUM_SAVE_STATES} :
            sync' = [NoSyncTest EXCEPT !.distance = CheckDistance(asked)]
      BY <1>1, <2>1 DEF OpenBattle
    <3>2. CheckDistance(asked) \in 1 .. GGPO_MAX_PREDICTION_FRAMES
      <4>1. asked \in Nat
        BY ConstantsTyped
      <4> QED BY <4>1, DistanceInRange
    <3>3. /\ sync'.distance = CheckDistance(asked) /\ Clear(sync') /\ sync'.frame = 0
          /\ Fresh(sync')
      BY <3>1 DEF NoSyncTest, Clear, Fresh
    <3> DEFINE t == [g |-> Battle', sync |-> sync']
    <3>4. t.sync = sync'
      OBVIOUS
    <3> HIDE DEF t
    <3>5. OnCourse(t)
      BY <3>2, <3>3, <3>4 DEF OnCourse
    <3> QED BY <3>3, <3>5 DEF Matched, t
  <2>2. CASE kind # "synctest"
    BY <1>1, <2>2 DEF OpenBattle, Matched
  <2> QED BY <2>1, <2>2
<1>2. ASSUME NEW p \in Parts, NEW v \in Values, Update(p, v) PROVE Matched'
  BY <1>2 DEF Update, Matched
<1>3. ASSUME NEW k \in Keys, GameClears(k) PROVE Matched'
  <2>1. mem' = ClearKeys(mem, {k}) /\ UNCHANGED <<mode, ring, head, sync>> /\ Fields(mem)
    BY <1>3, <1>0 DEF GameClears, Consistent, Memory
  <2>2. /\ mem'.alive = mem.alive /\ mem'.state = mem.state /\ mem'.slots = mem.slots
        /\ mem'.saved = mem.saved
    BY <2>1 DEF ClearKeys, Fields
  <2>3. Kept(mem, mem')
    BY <2>1, <1>0, ClearKeysKept
  <2>4. Like(mem.alive, mem'.state, mem.state)
    BY <2>2 DEF Like, Agree, Others
  <2> QED BY <2>1, <2>2, <2>3, <2>4, <1>0, MatchedStays
<1>4. ASSUME CloseBattle PROVE Matched'
  BY <1>4 DEF CloseBattle, Matched, Clear, NoSyncTest
<1>5. ASSUME AbortMatchStart PROVE Matched'
  BY <1>5 DEF AbortMatchStart, Matched
<1>6. ASSUME SaveCallback PROVE Matched'
  BY <1>6 DEF SaveCallback, Matched
<1>7. ASSUME NEW i \in Ring, NEW kept, LoadCallback(i, kept) PROVE Matched'
  BY <1>7 DEF LoadCallback, Matched
<1>8. ASSUME NEW p \in Parts, NEW v \in Values, NEW kept, SyncTestFrame(p, v, kept)
      PROVE Matched'
  <2>1. mode = "synctest" /\ Testing
    BY <1>8 DEF SyncTestFrame, Inv
  <2> SUFFICES ASSUME ~sync'.crossed PROVE OnCourse([g |-> Battle', sync |-> sync'])
    BY DEF Matched, OnCourse
  <2>2. ~sync.crossed
    BY <2>1, <1>8, SyncTestFrameKeeps
  <2>3. OnCourse([g |-> Battle, sync |-> sync])
    BY <2>1, <2>2 DEF Matched
  <2> QED BY <2>1, <2>3, <1>8, SyncTestFrameMatches
<1>9. ASSUME ExtendedSave \/ (\E kept \in Keepable(mem, 1) : ExtendedLoad(kept))
             \/ TrainingSave \/ TrainingLoad PROVE Matched'
  <2>1. mode \in {"offline", "netplay"} /\ mode' = mode /\ sync' = sync
    BY <1>9 DEF ExtendedSave, ExtendedLoad, TrainingSave, TrainingLoad
  <2> QED BY <2>1 DEF Matched
<1>10. ASSUME IdempotenceCheck PROVE Matched'
  <2> DEFINE check == RunIdempotenceCheck(mem)
  <2>1. Unused(mem) # {} /\ mem' = check.mem /\ UNCHANGED <<mode, ring, head, sync>>
    BY <1>10 DEF IdempotenceCheck
  <2>2. After(mem, check.mem, Used(mem)) /\ Agree(mem.alive, check.mem.state, mem.state)
    BY <2>1, <1>0, RunIdempotenceCheckKeeps
  <2> HIDE DEF check
  <2>3. Kept(mem, mem') /\ mem'.alive = mem.alive /\ Like(mem.alive, mem'.state, mem.state)
    BY <2>1, <2>2, <1>0 DEF After, Like
  <2>4. \A s \in Used(mem) : mem'.slots[s] = mem.slots[s] /\ mem'.saved[s] = mem.saved[s]
    BY <2>1, <2>2 DEF After
  <2> QED BY <2>1, <2>3, <2>4, <1>0, MatchedStays
<1>11. ASSUME UNCHANGED vars PROVE Matched'
  <2>1. UNCHANGED <<mem, mode, ring, head, sync>>
    BY <1>11 DEF vars
  <2>2. Battle' = Battle
    BY <2>1 DEF Battle
  <2> QED BY <2>1, <2>2 DEF Matched
<1> QED BY <1>1, <1>2, <1>3, <1>4, <1>5, <1>6, <1>7, <1>8, <1>9, <1>10, <1>11 DEF Next

-----------------------------------------------------------------------------
(* OneOwner: every buffer of the heap is the live key's or that of one     *)
(* save state, so that none is lost and none released twice, whatever the  *)
(* game, the rollback, the sync test and the overlay do.                   *)
THEOREM OwnersCorrect == Spec => []OneOwner
<1>1. Inv => OneOwner
  <2> SUFFICES ASSUME Inv PROVE OneOwner
    OBVIOUS
  <2>1. \A k \in Keys : Owned(mem, k)
    BY DEF Inv, Consistent
  <2> QED BY <2>1 DEF Owned, InSlots, OneOwner
<1> QED BY <1>1, InvHolds, PTL

(* WhatWasSaved: a save state stays what the battle was when it was taken, *)
(* until it is freed.                                                      *)
THEOREM SavedCorrect == Spec => []WhatWasSaved
<1>1. Inv => WhatWasSaved
  BY DEF Inv, Consistent, Faithful, WhatWasSaved
<1> QED BY <1>1, InvHolds, PTL

(* NoStrays: save states are loaded and freed only while the objects whose *)
(* keys they hold are there.                                               *)
THEOREM StraysCorrect == Spec => []NoStrays
<1>1. Inv => NoStrays
  BY DEF Inv, Consistent, NoStrays
<1> QED BY <1>1, InvHolds, PTL

(* RingHeld: each state that GGPO can go back to is in a slot of its own.  *)
THEOREM RingCorrect == Spec => []RingHeld
<1>1. Inv => RingHeld
  <2> SUFFICES ASSUME Inv PROVE RingHeld
    OBVIOUS
  <2>1. CASE mode \in {"none", "offline"}
    BY <2>1 DEF Inv, RingHeld
  <2>2. CASE mode \in {"netplay", "synctest"}
    BY <2>2 DEF Inv, Testing, Held, Ringed, Battle, RingHeld
  <2> QED BY <2>1, <2>2 DEF Inv
<1> QED BY <1>1, InvHolds, PTL

(* LoadBringsBack: where the heap has room and values are what a battle    *)
(* may be made of, a load that crosses no reset of the round brings every  *)
(* object of the slot and the flow back to what was saved, on screen as in *)
(* the simulation, with every unit's hold on its task, and leaves the      *)
(* game's own mementos alone.                                              *)
THEOREM LoadsCorrect ==
  ASSUME EnoughHeap, ValuesFit
  PROVE  Spec => []LoadBringsBack
<1>1. ASSUME Inv, Shape PROVE LoadBringsBack
  <2>1. Consistent(mem)
    BY <1>1 DEF Inv
  <2> SUFFICES ASSUME NEW s \in Slots, mem.slots[s].used, ~Crosses(mem, s)
               PROVE  /\ \A p \in mem.slots[s].keys \cup {Globals} :
                           Seen(LoadAcross(mem, s, mem.alive).state[p]) = Seen(mem.saved[s][p])
                      /\ LoadAcross(mem, s, mem.alive).live = mem.live
    BY DEF LoadBringsBack
  <2>2. PICK m : m = LoadWith(mem, s, TRUE)
    OBVIOUS
  <2>3. m.live = mem.live /\ Brought(mem, s, TRUE, m)
    <3>1. ASSUME NEW last, m = LoadWith(mem, s, last)
          PROVE  m.live = mem.live /\ Brought(mem, s, last, m)
      BY <2>1, <3>1, LoadKept
    <3> QED BY <2>2, <3>1
  <2>4. Agree(mem.slots[s].keys, m.state, mem.saved[s])
    BY <1>1, <2>1, <2>3 DEF Brought, Fit, Shape
  <2>5. LoadAcross(mem, s, mem.alive) = m
    BY <2>2 DEF LoadAcross, Load
  <2> QED BY <2>3, <2>4, <2>5 DEF Agree
<1>2. Init => Shape
  BY ShapeStarts
<1>3. Inv /\ Shape /\ [Next]_vars => Shape'
  BY NextShaped
<1> QED BY <1>1, <1>2, <1>3, InvHolds, PTL DEF Spec

(* NoFalseMismatch: under the same hypotheses a sync test, which simulates *)
(* its frames twice, finds no difference but of cosmetic bytes as long as  *)
(* it does not go back across a reset of the round, nor does the           *)
(* idempotence check, which leaves every object as it looked and every     *)
(* save state as it was.                                                   *)
THEOREM MismatchCorrect ==
  ASSUME EnoughHeap, ValuesFit
  PROVE  Spec => []NoFalseMismatch
<1>1. ASSUME Inv, Shape, Unused(mem) # {}
      PROVE  LET check == RunIdempotenceCheck(mem) IN
             /\ check.differing \subseteq {-1, 0}
             /\ Picture(check.mem) = Picture(mem) /\ check.mem.slots = mem.slots
  <2> DEFINE check == RunIdempotenceCheck(mem)
             n == check.mem
  <2>1. Consistent(mem) /\ Fit(mem)
    BY <1>1 DEF Inv, Fit, Shape
  <2>2. /\ After(mem, n, Used(mem)) /\ check.differing \subseteq {-1, 0}
        /\ Agree(mem.alive, n.state, mem.state)
    BY <2>1, <1>1, RunIdempotenceCheckKeeps
  <2> HIDE DEF check
  <2>3. Picture(n) = Picture(mem)
    <3>1. Others(mem.alive, n.state, mem.state)
      BY <2>1, <2>2 DEF After
    <3>2. \A p \in Parts : Seen(n.state[p]) = Seen(mem.state[p])
      BY <3>1, <2>2 DEF Agree, Others
    <3> QED BY <3>2 DEF Picture
  <2>4. n.slots = mem.slots
    <3>1. PICK K : Shaped(mem, K) /\ Shaped(n, K)
      BY <2>1, <2>2, StillFit
    <3>2. Used(n) = Used(mem) /\ Consistent(n)
      BY <2>2 DEF After
    <3>3. ASSUME NEW s \in Slots PROVE n.slots[s] = mem.slots[s]
      <4>1. CASE s \in Used(mem)
        BY <4>1, <2>2 DEF After
      <4>2. CASE s \notin Used(mem)
        <5>1. ~mem.slots[s].used /\ ~n.slots[s].used
          BY <4>2, <3>2 DEF Used
        <5> QED BY <5>1, <3>1 DEF Shaped
      <4> QED BY <4>1, <4>2
    <3>4. n.slots = [s \in Slots |-> n.slots[s]] /\ mem.slots = [s \in Slots |-> mem.slots[s]]
      BY <3>2, <2>1 DEF Consistent, Memory
    <3> QED BY <3>3, <3>4
  <2> QED BY <2>2, <2>3, <2>4 DEF check
<1>2. Inv /\ Shape /\ Matched => NoFalseMismatch
  BY <1>1, Zenon DEF Matched, Clear, NoFalseMismatch
<1>3. Init => Shape /\ Matched
  BY ShapeStarts, MatchedStarts
<1>4. Inv /\ Shape /\ Matched /\ [Next]_vars => Shape' /\ Matched'
  BY NextShaped, NextMatched
<1> QED BY <1>2, <1>3, <1>4, InvHolds, PTL DEF Spec
=============================================================================
