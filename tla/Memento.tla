------------------------------ MODULE Memento ------------------------------
(***************************************************************************)
(* What a memento of an object holds, and what restoring it makes of the   *)
(* object.  The game's own mementos leave things out, which the detours    *)
(* add: to the battle system's the announcements and notices on screen,    *)
(* the sprite pool and the tasks; to a fighter's shadow's the actor it is. *)
(* Nothing is simply copied: sprites move when a control is switched on or *)
(* off, tasks are made anew, and what lies on the heap lies elsewhere      *)
(* after a restore.                                                        *)
(*                                                                         *)
(* A state is a record: of the battle system, of a shadow, or of the       *)
(* battle flow, by its field kind.  Own is what the game sees to itself    *)
(* and what is copied as it is, links are the addresses among it.          *)
(***************************************************************************)
EXTENDS Integers, Sequences, FiniteSetsExt

(* How the game draws a sprite that its control has just put on screen.    *)
Staged == "staged"

-----------------------------------------------------------------------------
(* Sprites and the controls that show them.                                *)

(* The sprite pool: of every entry whether it is in use, and its action.   *)
RecordPool(pool) == [n \in {e \in DOMAIN pool : pool[e].used} |-> pool[n].action]

RestorePool(pool, rec) == [n \in DOMAIN pool |->
  [used |-> n \in DOMAIN rec, action |-> IF n \in DOMAIN rec THEN rec[n] ELSE pool[n].action]]

(* A control keeps its sprite node; the pool's entry is saved with the     *)
(* pool.                                                                   *)
RecordControl(c) == [enabled |-> c.enabled, frame |-> c.frame]

RestoreControl(c, rec) == [c EXCEPT !.enabled = rec.enabled, !.frame = rec.frame]

(* Enable and Disable, of the controls at these nodes.                     *)
Switched(pool, on, off) == [n \in DOMAIN pool |->
  IF n \in on THEN [used |-> TRUE, action |-> Staged]
  ELSE [pool[n] EXCEPT !.used = @ /\ n \notin off]]

(* A screen has a queue of what it is going to show, and its controls.     *)
RecordScreen(s) ==
  [queue |-> s.queue, controls |-> [c \in DOMAIN s.controls |-> RecordControl(s.controls[c])]]

RestoreScreen(s, rec) ==
  [queue |-> rec.queue,
   controls |-> [c \in DOMAIN s.controls |-> RestoreControl(s.controls[c], rec.controls[c])]]

(* The nodes of a screen's controls that rec has switched on, or off.      *)
NodesOf(s, rec, on) ==
  {s.controls[c].node : c \in {d \in DOMAIN s.controls : rec.controls[d].enabled = on}}

(* The nodes of the controls that are on, or off, as they should be.       *)
Unchanged(s, rec) ==
  {s.controls[c].node : c \in {d \in DOMAIN s.controls :
                                 s.controls[d].enabled = rec.controls[d].enabled}}

(* Announce switches what has changed; Notice switches everything.         *)
AnnounceRestored(pool, s, rec) ==
  Switched(pool, NodesOf(s, rec, TRUE) \ Unchanged(s, rec), NodesOf(s, rec, FALSE) \ Unchanged(s, rec))

NoticeRestored(pool, s, rec) == Switched(pool, NodesOf(s, rec, TRUE), NodesOf(s, rec, FALSE))

-----------------------------------------------------------------------------
(* Tasks.                                                                  *)

(* Of a task all but its pointers, and its functors by value.              *)
RecordTask(t) == [name |-> t.name, work |-> t.work, cancel |-> t.cancel, data |-> t.data]

RecordTasks(tasks) == [i \in DOMAIN tasks |-> RecordTask(tasks[i])]

(* Every task there is goes; new ones are made in the recorded order, and  *)
(* lie where the pool has room.                                            *)
RestoreTask(rec, at) ==
  [name |-> rec.name, work |-> rec.work, cancel |-> rec.cancel, data |-> rec.data, at |-> at]

RestoreTasks(recs) == [i \in DOMAIN recs |-> RestoreTask(recs[i], i)]

(* The battle's units find their tasks by name.                            *)
Handles(s, tasks) == [n \in {tasks[i].name : i \in DOMAIN tasks} |->
  tasks[Max({i \in DOMAIN tasks : tasks[i].name = n})].at]

-----------------------------------------------------------------------------
(* The battle system.                                                      *)

RecordSystem(s) ==
  [kind |-> "system", own |-> s.own, links |-> s.links,
   announce |-> RecordScreen(s.announce), notice |-> RecordScreen(s.notice),
   pool |-> RecordPool(s.pool), tasks |-> RecordTasks(s.tasks)]

(* The game makes what it holds on the heap anew: the two addresses there  *)
(* are change places.                                                      *)
Elsewhere(links) == [i \in DOMAIN links |-> 3 - links[i]]

(* The sprite pool is restored at once, or last of all.                    *)
RestoreSystem(s, rec, last) ==
  LET shown == NoticeRestored(AnnounceRestored(s.pool, s.announce, rec.announce),
                              s.notice, rec.notice)
      tasks == RestoreTasks(rec.tasks)
  IN  [s EXCEPT !.own = rec.own, !.links = Elsewhere(rec.links),
         !.announce = RestoreScreen(@, rec.announce), !.notice = RestoreScreen(@, rec.notice),
         !.pool = IF last THEN shown ELSE RestorePool(shown, rec.pool),
         !.tasks = tasks, !.handles = Handles(s, tasks)]

(* The HUD, which restores after the system: the cockpit stages its        *)
(* sprites anew and puts them into place without moving on, and the        *)
(* notices, which the game would drop, are left alone.                     *)
NoticesDropped(s) ==   \* broken: as the game has it
  [s EXCEPT !.pool = Switched(@, s.cockpit, {}), !.notice.queue = <<>>]

RestoreHud(s) == [s EXCEPT !.pool = Switched(@, s.cockpit, {})]

(* What is left to do after all that: the sprite pool.                     *)
RestorePending(s, rec, last) ==
  IF last THEN [s EXCEPT !.pool = RestorePool(@, rec.pool)] ELSE s

-----------------------------------------------------------------------------
(* A shadow: an actor, its own fields, and the poses that were last drawn. *)
(* Of the actor, the cosmetic bytes drift on every restore.  Which they    *)
(* are the code does not know, only that the simulation reads none of them.*)

Drifted(bytes) == 1 - bytes

(* Asked for when a key is initialized, right before the record.           *)
GetMementoSize(s) == s.actor.boxes

(* The actor is behind the shadow's own memento if there is room for it;   *)
(* the tail of the slot says which.                                        *)
RecordShadow(s, size) ==
  [kind |-> "shadow", own |-> s.own, links |-> s.links,
   tail |-> [withActor |-> GetMementoSize(s) = size, boxes |-> GetMementoSize(s)],
   actor |-> s.actor, cosmetic |-> s.cosmetic]

(* The actor comes back if the tail describes the slot, the poses never.   *)
RestoreShadow(s, rec) ==
  [s EXCEPT !.own = rec.own, !.links = Elsewhere(rec.links),
     !.actor = IF rec.tail.withActor /\ rec.tail.boxes = rec.actor.boxes THEN rec.actor ELSE @,
     !.cosmetic = Drifted(rec.cosmetic)]

-----------------------------------------------------------------------------
Recorded(s) ==
  IF s.kind = "system" THEN RecordSystem(s) ELSE RecordShadow(s, GetMementoSize(s))

Restored(s, rec, last) ==
  IF s.kind = "system"
  THEN RestorePending(RestoreHud(RestoreSystem(s, rec, last)), rec, last)
  ELSE RestoreShadow(s, rec)

(* An address is worth the place it first occurs at, in its own memento.   *)
Normalized(words) ==
  [i \in DOMAIN words |-> Min({j \in DOMAIN words : words[j] = words[i]})]

ChecksumNormalized(rec) == [rec EXCEPT !.links = Normalized(@)]

(* What a memento holds besides cosmetic bytes.                            *)
Exact(rec) == IF rec.kind = "shadow" THEN [rec EXCEPT !.cosmetic = 0] ELSE rec

(* What the simulation and the screen make of an object: neither where     *)
(* anything lies, nor unused sprites, nor what is cosmetic of a shadow.     *)
Seen(s) ==
  CASE s.kind = "system" ->
         <<s.own, Normalized(s.links), s.announce, s.notice, RecordPool(s.pool), RecordTasks(s.tasks),
           [n \in DOMAIN s.handles |-> {i \in DOMAIN s.tasks : s.tasks[i].at = s.handles[n]}]>>
    [] s.kind = "shadow" -> <<s.own, Normalized(s.links), s.actor>>
    [] OTHER -> <<s.own, Normalized(s.links)>>

-----------------------------------------------------------------------------
(* What a state is, of each kind.                                          *)

(* A screen has its fields, and so has each of its controls.               *)
Screen(s) ==
  /\ s \in [queue : {s.queue}, controls : {s.controls}]
  /\ s.controls = [c \in DOMAIN s.controls |-> s.controls[c]]
  /\ \A c \in DOMAIN s.controls :
       s.controls[c] \in [node : {s.controls[c].node}, enabled : {s.controls[c].enabled},
                          frame : {s.controls[c].frame}]

Links(x) == x.links \in [DOMAIN x.links -> Int]

(* The tasks of a name, and those that the unit of that name has.          *)
Names(x) == {x.tasks[i].name : i \in DOMAIN x.tasks}
Named(x, n) == {i \in DOMAIN x.tasks : x.tasks[i].name = n}
HasOf(x, n) == {i \in DOMAIN x.tasks : x.tasks[i].at = x.handles[n]}

(* A battle system: the task that a unit has is the last of its name.      *)
System(x) ==
  /\ x.kind = "system"
  /\ x \in [kind : {x.kind}, own : {x.own}, links : {x.links}, announce : {x.announce},
            notice : {x.notice}, pool : {x.pool}, cockpit : {x.cockpit}, tasks : {x.tasks},
            handles : {x.handles}]
  /\ Links(x) /\ Screen(x.announce) /\ Screen(x.notice)
  /\ x.tasks \in Seq({x.tasks[i] : i \in DOMAIN x.tasks})
  /\ x.handles = [n \in Names(x) |-> x.handles[n]]
  /\ \A n \in Names(x) : HasOf(x, n) = {Max(Named(x, n))}

Shadow(x) ==
  /\ x.kind = "shadow"
  /\ x \in [kind : {x.kind}, own : {x.own}, links : {x.links}, actor : {x.actor},
            cosmetic : {x.cosmetic}, poses : {x.poses}]
  /\ Links(x)

(* Two battle systems that have the same controls, at the same nodes of    *)
(* sprite pools of the same size: what the game never changes.             *)
SameNodes(s, t) ==
  /\ DOMAIN s.controls = DOMAIN t.controls
  /\ \A c \in DOMAIN s.controls : s.controls[c].node = t.controls[c].node

Alike(x, y) ==
  SameNodes(x.announce, y.announce) /\ SameNodes(x.notice, y.notice) /\ DOMAIN x.pool = DOMAIN y.pool
=============================================================================
