---------------------------- MODULE MCSaveStates ----------------------------
EXTENDS SaveStates

CONSTANTS f1, f2

Control(node, enabled, frame) == [node |-> node, enabled |-> enabled, frame |-> frame]
Sprite(used, action) == [used |-> used, action |-> action]
Task(name, at) == [name |-> name, work |-> name, cancel |-> "none", data |-> 1, at |-> at]
Tasks(tasks, s) == [s EXCEPT !.tasks = tasks,
  !.handles = [n \in {tasks[i].name : i \in DOMAIN tasks} |->
                 (CHOOSE t \in Range(tasks) : t.name = n).at]]

ABattle(own, links, queue, on, sprites, tasks) == Tasks(tasks,
  [kind |-> "system", own |-> own, links |-> links,
   announce |-> [queue |-> queue, controls |-> [fight |-> Control(1, on, IF on THEN 7 ELSE 0)]],
   notice |-> [queue |-> queue, controls |-> [combo |-> Control(2, on, 0)]],
   pool |-> sprites, cockpit |-> {3}, tasks |-> <<>>, handles |-> <<>>])

(* A battle with nothing on screen but the gauges, and one with an         *)
(* announcement, a combo and a shaking camera.                             *)
Quiet == ABattle("quiet", <<1, 1>>, <<>>, FALSE,
  <<Sprite(FALSE, "fight"), Sprite(FALSE, "combo"), Sprite(TRUE, "gauge")>>, <<Task("pause", 2)>>)
Busy == ABattle("busy", <<2, 1>>, <<"next">>, TRUE,
  <<Sprite(TRUE, "growing"), Sprite(TRUE, "sliding"), Sprite(TRUE, "flashing")>>,
  <<Task("cam shake", 3), Task("pause", 1)>>)

AShadow(own, boxes, poses) ==
  [kind |-> "shadow", own |-> own, links |-> <<1, 2>>,
   actor |-> [boxes |-> boxes, frame |-> boxes], cosmetic |-> 0, poses |-> poses]

Flow(f) == [kind |-> "flow", own |-> f, links |-> <<2, 1>>]

BattleStates == {Quiet, Busy, AShadow("idle", 0, 0), AShadow("active", 2, 1), Flow(f1), Flow(f2)}

(* What LoadsCorrect and MismatchCorrect ask of the values and the heap.   *)
ASSUME InstanceAssumption == ValuesFit /\ EnoughHeap

(* The values of the flow are not told apart.                              *)
Interchangeable == Permutations(Keys) \cup Permutations({f1, f2})

(* Nor are the buffers and what else has an address: all that matters of a *)
(* buffer is who owns it and what it holds.  Cosmetic bytes matter to no   *)
(* guard and no property, nor do the mismatches that count them.           *)
Held(k, b) == IF b = None THEN Nothing ELSE Exact(ChecksumNormalized(mem.content[k][b]))

(* Nor, once a sync test went back across a reset, what it has found.      *)
Findings == IF sync.crossed THEN <<>>
  ELSE <<sync.gameplay, sync.losses, [f \in DOMAIN sync.records |-> Telling(sync.records[f])]>>

BuffersAside == <<
  mem.alive, Picture(mem), [k \in Keys |-> mem.state[k].kind], mem.tracked, mem.stray, OneOwner,
  [k \in Keys |-> Held(k, mem.live[k])],
  [s \in Slots |-> <<mem.slots[s].used, mem.slots[s].keys,
                     [k \in Keys |-> Held(k, mem.slots[s].held[k])],
                     IF mem.slots[s].used
                     THEN <<HashGlobalData(mem, s), [p \in Parts |-> Seen(mem.saved[s][p])]>>
                     ELSE <<>>>>],
  mode, ring, head, sync.distance, sync.frame, sync.verified, sync.inputs, sync.crossed, Findings>>
=============================================================================
