---------------------------- MODULE Tick_proofs ----------------------------
(***************************************************************************)
(* Theorems about what goes on beside the battle in every tick: the pacing *)
(* of its frames and the sounds it is heard with.  Both are for every      *)
(* value of their constants.                                               *)
(***************************************************************************)
EXTENDS Pacing, Sequences, FiniteSetTheorems, WellFoundedInduction, TLAPS

(* The shift the limiter is busy with, if it is of this session.           *)
InFlight == IF limiter.generation = shift.generation THEN limiter.request ELSE 0

Places == {"out", "took", "plain", "read", "waiting", "restoring", "report"}

Types ==
  /\ pacer \in [outstanding : Int, hold : 0 .. HoldTicks]
  /\ session \in [open : BOOLEAN, paced : BOOLEAN, stalled : BOOLEAN]
  /\ shift \in [request : Int, applied : Int, generation : Nat, limiterRan : BOOLEAN]
  /\ limiter \in [at : Places, request : Int, generation : Nat, saved : Nat, shifted : Nat]
  /\ period \in Nat /\ crossed \in BOOLEAN /\ setting \in Periods
  /\ drift \in Drifts /\ load \in Loads /\ twoThreads \in BOOLEAN /\ asked \in BOOLEAN

(* The limiter is never ahead of the sessions, and outside a frame it      *)
(* holds nothing.                                                          *)
Generations ==
  /\ limiter.generation <= shift.generation
  /\ limiter.at = "out" => limiter.request = 0

(* What is asked for is a part of the debt; what was asked for and not yet *)
(* accounted is at most two steps, one of them asked for since the last    *)
(* tick; the debt stays in bounds whatever of it is accounted next.        *)
Debts ==
  /\ Abs(shift.request) <= MaxStep /\ Abs(limiter.request) <= MaxStep
  /\ \/ 0 <= shift.request /\ shift.request <= pacer.outstanding
     \/ pacer.outstanding <= shift.request /\ shift.request <= 0
  /\ Abs(shift.applied) + Abs(InFlight) <= 2 * MaxStep
  /\ shift.request # 0 => Abs(shift.applied) + Abs(InFlight) <= MaxStep
  /\ Abs(pacer.outstanding) <= 3 * MaxStep
  /\ Abs(pacer.outstanding - shift.applied) <= 3 * MaxStep
  /\ Abs(pacer.outstanding - shift.applied - InFlight) <= 3 * MaxStep

Asked == ~asked => shift.request = 0 /\ shift.applied = 0 /\ InFlight = 0

(* On one thread all that is under way is a part of the debt.              *)
Parts == ~twoThreads =>
  \/ /\ 0 <= shift.applied /\ 0 <= InFlight /\ 0 <= shift.request
     /\ shift.applied + InFlight + shift.request <= pacer.outstanding
  \/ /\ shift.applied <= 0 /\ InFlight <= 0 /\ shift.request <= 0
     /\ pacer.outstanding <= shift.applied + InFlight + shift.request

(* What the limiter has read is a period of the settings, the present one  *)
(* if no change crossed it.  In a shifted frame the period is the shifted  *)
(* one, or one set meanwhile.                                              *)
Shifted ==
  /\ crossed => twoThreads
  /\ limiter.at \in {"read", "waiting", "restoring"} => limiter.saved \in Periods
  /\ limiter.at \notin {"waiting", "restoring"} =>
       period \in Periods /\ (~crossed => period = setting)
  /\ limiter.at \in {"read", "restoring"} => (~crossed => limiter.saved = setting)
  /\ limiter.at = "waiting" =>
       /\ Abs(limiter.shifted - limiter.saved) <= MaxStep
       /\ period \in Periods \/ period = limiter.shifted
       /\ ~crossed => period = setting \/ (period = limiter.shifted /\ setting = limiter.saved)

Inv == Types /\ Generations /\ Debts /\ Asked /\ Parts /\ Shifted

-----------------------------------------------------------------------------
(* The controller's and the limiter's arithmetic.                          *)

LEMMA ConstantsAreNumbers ==
  /\ MinShift \in Nat /\ MinShift > 0 /\ MaxStep \in Nat /\ MinShift <= MaxStep
  /\ HoldTicks \in Nat /\ Margin \in Nat /\ Periods \subseteq Nat /\ Loads \subseteq Nat
  /\ Drifts \subseteq Int
BY PacingAssumption

LEMMA LessIsSmaller ==
  ASSUME NEW u \in Int, NEW v \in Int,
         \/ 0 <= u /\ u <= v
         \/ v <= u /\ u <= 0
  PROVE  Abs(u) <= Abs(v)
BY DEF Abs

(* The next shift is a part of the debt, and at most a step of it.         *)
LEMMA NextShiftIsAPart ==
  ASSUME NEW p \in [outstanding : Int, hold : 0 .. HoldTicks]
  PROVE  /\ NextShift(p) \in Int /\ Abs(NextShift(p)) <= MaxStep
         /\ \/ 0 <= NextShift(p) /\ NextShift(p) <= p.outstanding
            \/ p.outstanding <= NextShift(p) /\ NextShift(p) <= 0
BY ConstantsAreNumbers DEF NextShift, Abs, Clamp

(* A sample leaves the debt alone or within two steps.                     *)
LEMMA SampleKeepsBounds ==
  ASSUME NEW p \in [outstanding : Int, hold : 0 .. HoldTicks], NEW excess \in Int
  PROVE  /\ OnRiftSample(p, excess) \in [outstanding : Int, hold : 0 .. HoldTicks]
         /\ \/ OnRiftSample(p, excess).outstanding = p.outstanding
            \/ Abs(OnRiftSample(p, excess).outstanding) <= 2 * MaxStep
<1>1. CASE p.hold > 0
  BY <1>1, ConstantsAreNumbers DEF OnRiftSample
<1>2. CASE ~(p.hold > 0) /\ excess = 0
  BY <1>2, ConstantsAreNumbers DEF OnRiftSample
<1>3. CASE ~(p.hold > 0) /\ excess # 0
  <2>1. Clamp(p.outstanding + excess, 2 * MaxStep) \in Int
        /\ Abs(Clamp(p.outstanding + excess, 2 * MaxStep)) <= 2 * MaxStep
    BY ConstantsAreNumbers DEF Clamp, Abs
  <2> QED BY <1>3, <2>1 DEF OnRiftSample
<1> QED BY <1>1, <1>2, <1>3

(* What a frame changed is a part of what was asked for.                   *)
LEMMA AppliedIsAPart ==
  ASSUME NEW base \in Int, NEW frame \in Int, NEW request \in Int
  PROVE  /\ AppliedShift(base, frame, request) \in Int
         /\ \/ 0 <= AppliedShift(base, frame, request) /\ AppliedShift(base, frame, request) <= request
            \/ request <= AppliedShift(base, frame, request) /\ AppliedShift(base, frame, request) <= 0
BY DEF AppliedShift, Abs

(* A shifted period is no further from the period than was asked, and      *)
(* never shorter than the time that has already gone by.                   *)
LEMMA ShiftedPeriodIsNear ==
  ASSUME NEW base \in Nat, NEW elapsed \in Nat, NEW request \in Int, Abs(request) <= MaxStep
  PROVE  /\ ShiftedPeriod(base, elapsed, request) \in Nat
         /\ Abs(ShiftedPeriod(base, elapsed, request) - base) <= MaxStep
         /\ ShiftedPeriod(base, elapsed, request) < base =>
              ShiftedPeriod(base, elapsed, request) >= elapsed + Margin
BY ConstantsAreNumbers DEF ShiftedPeriod, Abs

-----------------------------------------------------------------------------
(* Every action keeps the invariant.                                       *)

LEMMA InitInv == Init => Inv
<1> SUFFICES ASSUME Init PROVE Inv
  OBVIOUS
<1>1. Types
  <2>1. /\ pacer \in [outstanding : Int, hold : 0 .. HoldTicks]
        /\ shift \in [request : Int, applied : Int, generation : Nat, limiterRan : BOOLEAN]
        /\ limiter \in [at : Places, request : Int, generation : Nat, saved : Nat, shifted : Nat]
    BY ConstantsAreNumbers DEF Init, Rested, NoShift, Outside, Places
  <2>2. session \in [open : BOOLEAN, paced : BOOLEAN, stalled : BOOLEAN] /\ asked \in BOOLEAN
    BY DEF Init
  <2>3. /\ period \in Nat /\ setting \in Periods /\ crossed \in BOOLEAN
        /\ drift \in Drifts /\ load \in Loads /\ twoThreads \in BOOLEAN
    BY PacingAssumption DEF Init
  <2> QED BY <2>1, <2>2, <2>3 DEF Types
<1>2. Generations /\ Asked /\ Parts /\ Shifted
  BY ConstantsAreNumbers DEF Init, Generations, Asked, Parts, Shifted, InFlight, Rested, NoShift, Outside
<1>3. Debts
  BY ConstantsAreNumbers DEF Init, Debts, InFlight, Rested, NoShift, Outside, Abs
<1> QED BY <1>1, <1>2, <1>3 DEF Inv

LEMMA InFlightIsNumber ==
  ASSUME Types PROVE InFlight \in Int
BY DEF Types, InFlight

(* A reset owes nothing, and whatever the limiter is busy with is of an    *)
(* earlier session.                                                        *)
LEMMA ResetKeeps ==
  ASSUME Inv, ResetPacing, UNCHANGED <<limiter, periodVars, worldVars>>,
         session' \in [open : BOOLEAN, paced : BOOLEAN, stalled : BOOLEAN]
  PROVE  Inv'
<1>1. Types'
  <2>1. pacer' \in [outstanding : Int, hold : 0 .. HoldTicks]
    BY ConstantsAreNumbers DEF ResetPacing, Rested
  <2>2. shift' \in [request : Int, applied : Int, generation : Nat, limiterRan : BOOLEAN]
    BY DEF Inv, Types, ResetPacing, CancelFrameShift
  <2>3. asked' \in BOOLEAN
    BY DEF ResetPacing
  <2> QED BY <2>1, <2>2, <2>3 DEF Inv, Types, worldVars, periodVars
<1>2. /\ shift'.request = 0 /\ shift'.applied = 0 /\ pacer'.outstanding = 0
      /\ shift'.generation = shift.generation + 1 /\ limiter' = limiter
      /\ period' = period /\ setting' = setting /\ crossed' = crossed /\ twoThreads' = twoThreads
  BY DEF ResetPacing, CancelFrameShift, Rested, worldVars, periodVars
<1>3. InFlight' = 0
  BY <1>2 DEF InFlight, Inv, Generations, Types
<1>4. Generations'
  BY <1>2 DEF Inv, Generations, Types
<1>5. Debts'
  BY <1>2, <1>3, ConstantsAreNumbers DEF Inv, Debts, Abs
<1>6. Asked' /\ Parts'
  BY <1>2, <1>3 DEF Asked, Parts
<1>7. Shifted'
  BY <1>2 DEF Inv, Shifted
<1> QED BY <1>1, <1>4, <1>5, <1>6, <1>7 DEF Inv

(* A tick pays what was applied and asks for a part of what is left.       *)
LEMMA TickKeeps ==
  ASSUME Inv, StepPacing PROVE Inv'
<1> DEFINE paid == OnShiftApplied(pacer, shift.applied)
<1>1. /\ paid \in [outstanding : Int, hold : 0 .. HoldTicks]
      /\ paid.outstanding = pacer.outstanding - shift.applied
  BY DEF Inv, Types, OnShiftApplied
<1> HIDE DEF paid
<1>2. pacer' \in IF session.stalled THEN {OnPredictionStall(paid)} ELSE {OnRiftSample(paid, drift), paid}
  BY DEF StepPacing, paid
<1>3. drift \in Int
  BY ConstantsAreNumbers DEF Inv, Types
<1>4. /\ pacer' \in [outstanding : Int, hold : 0 .. HoldTicks]
      /\ \/ pacer'.outstanding = pacer.outstanding - shift.applied
         \/ Abs(pacer'.outstanding) <= 2 * MaxStep
  <2>1. CASE session.stalled
    BY <1>2, <2>1, ConstantsAreNumbers DEF OnPredictionStall, Abs
  <2>2. CASE pacer' = OnRiftSample(paid, drift)
    BY <1>1, <1>3, <2>2, SampleKeepsBounds
  <2>3. CASE pacer' = paid
    BY <1>1, <2>3
  <2> QED BY <1>2, <2>1, <2>2, <2>3
<1>5. /\ shift'.applied = 0 /\ shift'.generation = shift.generation
      /\ shift'.limiterRan \in BOOLEAN
      /\ shift'.request = 0 \/ shift'.request = NextShift(pacer')
      /\ shift' \in [request : Int, applied : Int, generation : Nat, limiterRan : BOOLEAN]
  <2>1. shift \in [request : Int, applied : Int, generation : Nat, limiterRan : BOOLEAN]
    BY DEF Inv, Types
  <2>2. CASE shift.limiterRan
    <3> DEFINE asks == NextShift(pacer')
    <3>1. asks \in Int
      BY <1>4, NextShiftIsAPart
    <3>2. shift' = [request |-> asks, applied |-> 0, generation |-> shift.generation,
                    limiterRan |-> shift.limiterRan]
      BY <2>2 DEF StepPacing
    <3>3. asks = NextShift(pacer')
      OBVIOUS
    <3> HIDE DEF asks
    <3>4. shift' \in [request : Int, applied : Int, generation : Nat, limiterRan : BOOLEAN]
      BY <2>1, <3>1, <3>2
    <3>5. /\ shift'.applied = 0 /\ shift'.generation = shift.generation
          /\ shift'.limiterRan = shift.limiterRan /\ shift'.request = asks
      BY <2>1, <3>2
    <3> QED BY <2>1, <3>3, <3>4, <3>5
  <2>3. CASE ~shift.limiterRan
    <3>1. shift' = [request |-> 0, applied |-> 0, generation |-> shift.generation,
                    limiterRan |-> shift.limiterRan]
      BY <2>3 DEF StepPacing
    <3> QED BY <2>1, <3>1
  <2> QED BY <2>2, <2>3
<1>6. /\ shift'.request \in Int /\ Abs(shift'.request) <= MaxStep
      /\ \/ 0 <= shift'.request /\ shift'.request <= pacer'.outstanding
         \/ pacer'.outstanding <= shift'.request /\ shift'.request <= 0
  BY <1>4, <1>5, NextShiftIsAPart, ConstantsAreNumbers DEF Abs
<1>7. /\ limiter' = limiter /\ period' = period /\ setting' = setting /\ crossed' = crossed
      /\ session' = session
      /\ drift' = drift /\ load' = load /\ twoThreads' = twoThreads
      /\ asked' = (asked \/ shift'.request # 0)
  BY DEF StepPacing, worldVars, periodVars
<1>8. InFlight' = InFlight /\ InFlight \in Int /\ Abs(InFlight) <= MaxStep
  BY <1>5, <1>7, ConstantsAreNumbers DEF InFlight, Inv, Types, Debts, Abs
<1>9. Types'
  BY <1>4, <1>5, <1>7 DEF Inv, Types
<1>10. Generations' /\ Shifted'
  BY <1>5, <1>7 DEF Inv, Generations, Shifted
<1>11. Debts'
  <2>1. /\ Abs(shift'.applied) + Abs(InFlight') <= 2 * MaxStep
        /\ Abs(shift'.applied) + Abs(InFlight') <= MaxStep
    BY <1>5, <1>8, ConstantsAreNumbers DEF Abs
  <2>2. /\ Abs(pacer'.outstanding) <= 3 * MaxStep
        /\ Abs(pacer'.outstanding - shift'.applied) <= 3 * MaxStep
        /\ Abs(pacer'.outstanding - shift'.applied - InFlight') <= 3 * MaxStep
    BY <1>4, <1>5, <1>8, ConstantsAreNumbers DEF Abs, Inv, Debts, Types
  <2> QED BY <1>6, <1>7, <2>1, <2>2 DEF Inv, Debts
<1>12. Asked'
  BY <1>5, <1>7, <1>8 DEF Inv, Asked
<1>13. Parts'
  <2>1. CASE twoThreads
    BY <1>7, <2>1 DEF Parts
  <2>2. CASE ~twoThreads
    <3>1. InFlight = 0
      BY <2>2 DEF StepPacing, TickMayRun, Inv, Generations, InFlight
    <3> QED BY <1>5, <1>6, <1>8, <3>1, <1>4 DEF Parts
  <2> QED BY <2>1, <2>2
<1> QED BY <1>9, <1>10, <1>11, <1>12, <1>13 DEF Inv

(* The limiter takes the request: it is under way.                         *)
LEMMA TakeKeeps ==
  ASSUME Inv, TakeRequest PROVE Inv'
<1>1. /\ limiter.at = "out" /\ limiter.request = 0 /\ InFlight = 0
      /\ limiter'.at = "took" /\ limiter'.request = shift.request
      /\ limiter'.generation = shift.generation
      /\ limiter' \in [at : Places, request : Int, generation : Nat, saved : Nat, shifted : Nat]
  BY DEF TakeRequest, Outside, Inv, Types, Generations, InFlight, Places
<1>2. /\ shift'.request = 0 /\ shift'.applied = shift.applied
      /\ shift'.generation = shift.generation
      /\ shift' \in [request : Int, applied : Int, generation : Nat, limiterRan : BOOLEAN]
  BY DEF TakeRequest, Inv, Types
<1>3. /\ pacer' = pacer /\ session' = session /\ asked' = asked
      /\ period' = period /\ setting' = setting /\ crossed' = crossed
      /\ drift' = drift /\ load' = load /\ twoThreads' = twoThreads
  BY DEF TakeRequest, tickVars, worldVars, periodVars
<1>4. InFlight' = shift.request
  BY <1>1, <1>2 DEF InFlight
<1>5. Types'
  BY <1>1, <1>2, <1>3 DEF Inv, Types
<1>6. Generations' /\ Shifted'
  BY <1>1, <1>2, <1>3 DEF Inv, Generations, Shifted, Types
<1>7. Debts'
  <2>1. /\ pacer.outstanding \in Int /\ shift.applied \in Int /\ shift.request \in Int
    BY DEF Inv, Types
  <2>2. Abs(pacer.outstanding - shift.applied - shift.request) <= 3 * MaxStep
    BY <1>1, <2>1, ConstantsAreNumbers DEF Inv, Debts, Abs
  <2>3. Abs(shift.applied) + Abs(shift.request) <= 2 * MaxStep
    BY <1>1, <2>1, ConstantsAreNumbers DEF Inv, Debts, Abs
  <2>4. \/ 0 <= shift'.request /\ shift'.request <= pacer'.outstanding
        \/ pacer'.outstanding <= shift'.request /\ shift'.request <= 0
    BY <1>2, <1>3, <2>1
  <2>5. Abs(shift'.request) <= MaxStep
    BY <1>2, ConstantsAreNumbers DEF Abs
  <2> QED BY <1>1, <1>2, <1>3, <1>4, <2>2, <2>3, <2>4, <2>5 DEF Inv, Debts
<1>8. Asked'
  BY <1>2, <1>3, <1>4 DEF Inv, Asked
<1>9. Parts'
  BY <1>1, <1>2, <1>3, <1>4 DEF Inv, Parts, Types
<1> QED BY <1>5, <1>6, <1>7, <1>8, <1>9 DEF Inv

(* The limiter goes on with what it took, and less of it, or nothing.      *)
LEMMA LimiterKeeps ==
  ASSUME Inv, pacer' = pacer, session' = session, asked' = asked, worldVars' = worldVars,
         setting' = setting, crossed' = crossed, period' \in Nat,
         shift' \in [request : Int, applied : Int, generation : Nat, limiterRan : BOOLEAN],
         shift'.request = shift.request, shift'.applied = shift.applied,
         shift'.generation = shift.generation,
         limiter' \in [at : Places, request : Int, generation : Nat, saved : Nat, shifted : Nat],
         limiter'.generation <= shift.generation,
         limiter'.at = "out" => limiter'.request = 0,
         \/ limiter'.request = 0
         \/ /\ limiter'.generation = limiter.generation
            /\ \/ 0 <= limiter'.request /\ limiter'.request <= limiter.request
               \/ limiter.request <= limiter'.request /\ limiter'.request <= 0,
         Shifted'
  PROVE  Inv'
<1>1. /\ drift' = drift /\ load' = load /\ twoThreads' = twoThreads
  BY DEF worldVars
<1>2. /\ InFlight \in Int /\ InFlight' \in Int
      /\ \/ 0 <= InFlight' /\ InFlight' <= InFlight
         \/ InFlight <= InFlight' /\ InFlight' <= 0
  BY DEF InFlight, Inv, Types
<1>3. Abs(limiter'.request) <= MaxStep
  BY ConstantsAreNumbers DEF Inv, Types, Debts, Abs
<1>4. Types'
  BY <1>1 DEF Inv, Types
<1>5. Generations'
  BY DEF Generations
<1>6. Debts'
  <2>1. /\ pacer.outstanding \in Int /\ shift.applied \in Int /\ shift.request \in Int
    BY DEF Inv, Types
  <2>2. Abs(InFlight') <= Abs(InFlight)
    BY <1>2, LessIsSmaller
  <2>3. /\ Abs(shift.applied) + Abs(InFlight') <= 2 * MaxStep
        /\ shift.request # 0 => Abs(shift.applied) + Abs(InFlight') <= MaxStep
    <3>1. /\ Abs(shift.applied) \in Int /\ Abs(InFlight) \in Int /\ Abs(InFlight') \in Int
      BY <1>2, <2>1 DEF Abs
    <3> QED BY <2>2, <3>1, ConstantsAreNumbers DEF Inv, Debts
  <2>4. Abs(pacer.outstanding - shift.applied - InFlight') <= 3 * MaxStep
    BY <1>2, <2>1, ConstantsAreNumbers DEF Inv, Debts, Abs
  <2> QED BY <1>3, <2>3, <2>4 DEF Inv, Debts
<1>7. Asked'
  BY <1>2 DEF Inv, Asked
<1>8. Parts'
  BY <1>1, <1>2 DEF Inv, Parts, Types
<1> QED BY <1>4, <1>5, <1>6, <1>7, <1>8 DEF Inv

LEMMA ReadPeriodKeeps ==
  ASSUME Inv, ReadPeriod PROVE Inv'
<1>1. /\ pacer' = pacer /\ session' = session /\ asked' = asked /\ worldVars' = worldVars
      /\ setting' = setting /\ crossed' = crossed /\ period' = period /\ twoThreads' = twoThreads
  BY DEF ReadPeriod, tickVars, periodVars, worldVars
<1>2. /\ shift' \in [request : Int, applied : Int, generation : Nat, limiterRan : BOOLEAN]
      /\ shift'.request = shift.request /\ shift'.applied = shift.applied
      /\ shift'.generation = shift.generation
  BY DEF ReadPeriod, Inv, Types
<1>3. /\ limiter.at = "took" /\ limiter'.at \in {"plain", "read"} /\ limiter'.saved = period
      /\ limiter'.request = limiter.request /\ limiter'.generation = limiter.generation
      /\ limiter' \in [at : Places, request : Int, generation : Nat, saved : Nat, shifted : Nat]
  BY DEF ReadPeriod, Inv, Types, Places
<1>4. Shifted'
  BY <1>1, <1>3 DEF Inv, Types, Shifted
<1>5. limiter'.generation <= shift.generation /\ limiter.request \in Int
  BY <1>3 DEF Inv, Generations, Types
<1>6. \/ 0 <= limiter'.request /\ limiter'.request <= limiter.request
      \/ limiter.request <= limiter'.request /\ limiter'.request <= 0
  BY <1>3, <1>5
<1>7. period' \in Nat /\ limiter'.at # "out"
  BY <1>1, <1>3 DEF Inv, Types
<1> QED BY <1>1, <1>2, <1>3, <1>4, <1>5, <1>6, <1>7, LimiterKeeps

LEMMA WritePeriodKeeps ==
  ASSUME Inv, WritePeriod PROVE Inv'
<1>1. /\ pacer' = pacer /\ session' = session /\ asked' = asked /\ worldVars' = worldVars
      /\ setting' = setting /\ crossed' = crossed /\ shift' = shift /\ twoThreads' = twoThreads
  BY DEF WritePeriod, tickVars, worldVars
<1>2. /\ limiter.at = "read" /\ period' = ShiftedPeriod(limiter.saved, load, limiter.request)
      /\ limiter' = [limiter EXCEPT !.at = "waiting", !.shifted = period']
  BY DEF WritePeriod
<1>3. /\ limiter.saved \in Nat /\ load \in Nat /\ limiter.request \in Int
      /\ Abs(limiter.request) <= MaxStep /\ limiter.saved \in Periods
  BY <1>2, ConstantsAreNumbers DEF Inv, Types, Debts, Shifted
<1>4. period' \in Nat /\ Abs(period' - limiter.saved) <= MaxStep
  BY <1>2, <1>3, ShiftedPeriodIsNear
<1>5. /\ limiter'.at = "waiting" /\ limiter'.saved = limiter.saved /\ limiter'.shifted = period'
      /\ limiter'.request = limiter.request /\ limiter'.generation = limiter.generation
      /\ limiter' \in [at : Places, request : Int, generation : Nat, saved : Nat, shifted : Nat]
  BY <1>2, <1>3, <1>4 DEF Inv, Types, Places
<1>6. Shifted'
  BY <1>1, <1>2, <1>3, <1>4, <1>5 DEF Inv, Types, Shifted
<1>7. limiter'.generation <= shift.generation
  BY <1>5 DEF Inv, Generations
<1>8. \/ 0 <= limiter'.request /\ limiter'.request <= limiter.request
      \/ limiter.request <= limiter'.request /\ limiter'.request <= 0
  BY <1>3, <1>5
<1> QED BY <1>1, <1>4, <1>5, <1>6, <1>7, <1>8, LimiterKeeps DEF Inv, Types

LEMMA EndPlainFrameKeeps ==
  ASSUME Inv, EndPlainFrame PROVE Inv'
<1>1. /\ pacer' = pacer /\ session' = session /\ asked' = asked /\ worldVars' = worldVars
      /\ setting' = setting /\ crossed' = crossed /\ shift' = shift /\ period' = period
      /\ twoThreads' = twoThreads /\ limiter.at = "plain" /\ limiter' = Outside
  BY DEF EndPlainFrame, tickVars, periodVars, worldVars
<1>2. Shifted'
  BY <1>1 DEF Inv, Types, Shifted, Outside
<1>3. limiter' \in [at : Places, request : Int, generation : Nat, saved : Nat, shifted : Nat]
  BY <1>1 DEF Outside, Places
<1>4. limiter'.request = 0 /\ limiter'.generation <= shift.generation
  BY <1>1 DEF Outside, Inv, Types
<1> QED BY <1>1, <1>2, <1>3, <1>4, LimiterKeeps DEF Inv, Types

(* Distinct settings are further apart than a shift reaches, so a period   *)
(* that is still the shifted one was not set meanwhile.                    *)
LEMMA EndFrameKeeps ==
  ASSUME Inv, EndFrame PROVE Inv'
<1>1. /\ pacer' = pacer /\ session' = session /\ asked' = asked /\ worldVars' = worldVars
      /\ setting' = setting /\ crossed' = crossed /\ shift' = shift /\ period' = period
      /\ twoThreads' = twoThreads /\ limiter.at = "waiting"
  BY DEF EndFrame, tickVars, periodVars, worldVars
<1> DEFINE next == IF StillShifted THEN "restoring" ELSE "report"
<1>2. PICK wait \in {limiter.shifted, period} :
        limiter' = [limiter EXCEPT !.at = next,
                      !.request = AppliedShift(limiter.saved, IF load > wait THEN load ELSE wait,
                                               limiter.request)]
  BY Zenon DEF EndFrame
<1> DEFINE frame == IF load > wait THEN load ELSE wait
<1>3. /\ StillShifted => next = "restoring"
      /\ ~StillShifted => next = "report"
  OBVIOUS
<1>4. frame \in Nat
  BY ConstantsAreNumbers DEF Inv, Types
<1>5. limiter' = [limiter EXCEPT !.at = next,
                    !.request = AppliedShift(limiter.saved, frame, limiter.request)]
  BY <1>2, Zenon
<1> HIDE DEF next, frame
<1>6. /\ limiter.saved \in Nat /\ limiter.request \in Int /\ limiter.shifted \in Nat
      /\ limiter.saved \in Periods /\ setting \in Periods /\ period \in Nat
  BY <1>1 DEF Inv, Types, Shifted
<1>7. /\ limiter'.at = next
      /\ limiter'.generation = limiter.generation /\ limiter'.saved = limiter.saved
      /\ limiter'.request = AppliedShift(limiter.saved, frame, limiter.request)
      /\ limiter'.request \in Int
      /\ \/ 0 <= limiter'.request /\ limiter'.request <= limiter.request
         \/ limiter.request <= limiter'.request /\ limiter'.request <= 0
  BY <1>4, <1>5, <1>6, AppliedIsAPart DEF Inv, Types
<1>8. limiter' \in [at : Places, request : Int, generation : Nat, saved : Nat, shifted : Nat]
  BY <1>3, <1>5, <1>7 DEF Inv, Types, Places
<1>9. ASSUME ~crossed, StillShifted PROVE limiter.saved = setting
  <2>1. CASE period = limiter.shifted /\ setting = limiter.saved
    BY <2>1
  <2>2. CASE period = setting
    <3>1. Abs(setting - limiter.saved) <= MaxStep /\ setting \in Nat
      BY <1>1, <1>6, <1>9, <2>2 DEF Inv, Shifted, StillShifted
    <3>2. ~(setting < limiter.saved) /\ ~(limiter.saved < setting)
      BY <1>6, <3>1, PacingAssumption DEF Abs
    <3> QED BY <1>6, <3>1, <3>2
  <2> QED BY <1>1, <1>9, <2>1, <2>2 DEF Inv, Shifted
<1>10. ~StillShifted => period \in Periods /\ (~crossed => period = setting)
  BY <1>1 DEF Inv, Shifted, StillShifted
<1>11. Shifted'
  BY <1>1, <1>6, <1>3, <1>7, <1>9, <1>10 DEF Inv, Shifted
<1>12. limiter'.generation <= shift.generation /\ limiter'.at # "out"
  BY <1>3, <1>7 DEF Inv, Generations
<1> QED BY <1>1, <1>7, <1>8, <1>11, <1>12, LimiterKeeps DEF Inv, Types

LEMMA RestorePeriodKeeps ==
  ASSUME Inv, RestorePeriod PROVE Inv'
<1>1. /\ pacer' = pacer /\ session' = session /\ asked' = asked /\ worldVars' = worldVars
      /\ setting' = setting /\ crossed' = crossed /\ shift' = shift /\ twoThreads' = twoThreads
      /\ limiter.at = "restoring" /\ period' = limiter.saved
      /\ limiter' = [limiter EXCEPT !.at = "report"]
  BY DEF RestorePeriod, tickVars, worldVars
<1>2. /\ limiter'.at = "report" /\ limiter'.request = limiter.request
      /\ limiter'.generation = limiter.generation
      /\ limiter' \in [at : Places, request : Int, generation : Nat, saved : Nat, shifted : Nat]
  BY <1>1 DEF Inv, Types, Places
<1>3. Shifted' /\ period' \in Nat
  BY <1>1, <1>2, ConstantsAreNumbers DEF Inv, Types, Shifted
<1>4. limiter'.generation <= shift.generation /\ limiter.request \in Int
  BY <1>2 DEF Inv, Generations, Types
<1>5. \/ 0 <= limiter'.request /\ limiter'.request <= limiter.request
      \/ limiter.request <= limiter'.request /\ limiter'.request <= 0
  BY <1>2, <1>4
<1> QED BY <1>1, <1>2, <1>3, <1>4, <1>5, LimiterKeeps DEF Inv, Types

(* What was under way is now to be accounted, unless it is of an earlier   *)
(* session.                                                                *)
LEMMA ReportKeeps ==
  ASSUME Inv, Report PROVE Inv'
<1>1. /\ pacer' = pacer /\ session' = session /\ asked' = asked
      /\ drift' = drift /\ load' = load /\ twoThreads' = twoThreads
      /\ setting' = setting /\ period' = period /\ crossed' = crossed
      /\ limiter.at = "report" /\ limiter' = Outside
  BY DEF Report, tickVars, periodVars, worldVars
<1>2. /\ shift'.request = shift.request /\ shift'.generation = shift.generation
      /\ shift'.applied = shift.applied + InFlight
      /\ shift' \in [request : Int, applied : Int, generation : Nat, limiterRan : BOOLEAN]
  BY DEF Report, InFlight, Inv, Types
<1>3. InFlight' = 0 /\ InFlight \in Int
  BY <1>1, InFlightIsNumber DEF InFlight, Outside, Inv
<1>4. Types'
  BY <1>1, <1>2 DEF Inv, Types, Outside, Places
<1>5. Generations' /\ Shifted'
  BY <1>1, <1>2 DEF Inv, Generations, Shifted, Outside, Types
<1>6. Debts'
  <2>1. /\ pacer.outstanding \in Int /\ shift.applied \in Int /\ shift.request \in Int
    BY DEF Inv, Types
  <2>2. Abs(shift'.applied) + Abs(InFlight') <= Abs(shift.applied) + Abs(InFlight)
    BY <1>2, <1>3, <2>1 DEF Abs
  <2>3. /\ Abs(shift'.applied) + Abs(InFlight') <= 2 * MaxStep
        /\ shift'.request # 0 => Abs(shift'.applied) + Abs(InFlight') <= MaxStep
    <3>1. /\ Abs(shift.applied) \in Int /\ Abs(InFlight) \in Int
          /\ Abs(shift'.applied) \in Int /\ Abs(InFlight') \in Int
      BY <1>2, <1>3, <2>1 DEF Abs
    <3> QED BY <1>2, <2>2, <3>1, ConstantsAreNumbers DEF Inv, Debts
  <2>4. /\ pacer'.outstanding - shift'.applied = pacer.outstanding - shift.applied - InFlight
        /\ pacer'.outstanding - shift'.applied - InFlight' = pacer.outstanding - shift.applied - InFlight
    BY <1>1, <1>2, <1>3, <2>1
  <2>5. Abs(limiter'.request) <= MaxStep
    BY <1>1, ConstantsAreNumbers DEF Outside, Abs
  <2> QED BY <1>1, <1>2, <2>3, <2>4, <2>5 DEF Inv, Debts
<1>7. Asked' /\ Parts'
  BY <1>1, <1>2, <1>3 DEF Inv, Asked, Parts, Types
<1> QED BY <1>4, <1>5, <1>6, <1>7 DEF Inv

(* Everything but the debt and the shift may change around them.           *)
LEMMA WorldKeeps ==
  ASSUME Inv, pacer' = pacer, asked' = asked, shift' = shift, limiter' = limiter,
         twoThreads' = twoThreads, Types', Shifted'
  PROVE  Inv'
<1>1. InFlight' = InFlight
  BY DEF InFlight
<1> QED BY <1>1 DEF Inv, Generations, Debts, Asked, Parts

(* A change that falls between a read and its write counts as crossing; on *)
(* one thread none does.                                                   *)
LEMMA SetPeriodKeeps ==
  ASSUME Inv, NEW p \in Periods, SetPeriod(p) PROVE Inv'
<1>1. /\ pacer' = pacer /\ session' = session /\ asked' = asked /\ shift' = shift
      /\ limiter' = limiter /\ drift' = drift /\ load' = load /\ twoThreads' = twoThreads
      /\ setting' = p /\ period' = p /\ crossed' = (limiter.at \in {"read", "restoring"})
      /\ twoThreads \/ limiter.at = "out"
  BY DEF SetPeriod, tickVars, worldVars, TickMayRun
<1>2. Types'
  BY <1>1, ConstantsAreNumbers DEF Inv, Types
<1>3. Shifted'
  BY <1>1 DEF Inv, Shifted
<1> QED BY <1>1, <1>2, <1>3, WorldKeeps

LEMMA NextInv == Inv /\ [Next]_vars => Inv'
<1> SUFFICES ASSUME Inv, [Next]_vars PROVE Inv'
  OBVIOUS
<1>1. ASSUME NEW paced \in BOOLEAN, StartSession(paced) PROVE Inv'
  BY <1>1, ResetKeeps DEF StartSession
<1>2. CASE CloseBattle
  BY <1>2, ResetKeeps DEF CloseBattle, Inv, Types
<1>3. ASSUME NEW stalled \in BOOLEAN, Stall(stalled) PROVE Inv'
  BY <1>3, WorldKeeps DEF Stall, worldVars, periodVars, Inv, Types, Shifted
<1>4. CASE StepPacing
  BY <1>4, TickKeeps
<1>5. CASE TakeRequest
  BY <1>5, TakeKeeps
<1>6. CASE ReadPeriod
  BY <1>6, ReadPeriodKeeps
<1>7. CASE WritePeriod
  BY <1>7, WritePeriodKeeps
<1>8. CASE EndPlainFrame
  BY <1>8, EndPlainFrameKeeps
<1>9. CASE EndFrame
  BY <1>9, EndFrameKeeps
<1>10. CASE RestorePeriod
  BY <1>10, RestorePeriodKeeps
<1>11. CASE Report
  BY <1>11, ReportKeeps
<1>12. ASSUME NEW p \in Periods, SetPeriod(p) PROVE Inv'
  BY <1>12, SetPeriodKeeps
<1>13. CASE Change
  BY <1>13, WorldKeeps DEF Change, tickVars, periodVars, Inv, Types, Shifted
<1>14. CASE UNCHANGED vars
  BY <1>14, WorldKeeps DEF vars, tickVars, worldVars, periodVars, Inv, Types, Shifted
<1> QED BY <1>1, <1>2, <1>3, <1>4, <1>5, <1>6, <1>7, <1>8, <1>9, <1>10, <1>11, <1>12, <1>13,
           <1>14 DEF Next

LEMMA InvCorrect == Spec => []Inv
BY InitInv, NextInv, PTL DEF Spec

-----------------------------------------------------------------------------
(* Every reachable state is well typed: the debt never exceeds three       *)
(* steps, whatever is sampled and wherever the limiter runs (Controller).  *)
THEOREM TypeCorrect == Spec => []TypeOK
<1>1. ASSUME Inv PROVE TypeOK
  <2>1. pacer \in [outstanding : -3 * MaxStep .. 3 * MaxStep, hold : 0 .. HoldTicks]
    BY <1>1, ConstantsAreNumbers DEF Inv, Types, Debts, Abs
  <2>2. shift.request \in -MaxStep .. MaxStep /\ limiter.request \in -MaxStep .. MaxStep
    BY <1>1, ConstantsAreNumbers DEF Inv, Types, Debts, Abs
  <2>3. shift.applied \in -2 * MaxStep .. 2 * MaxStep
    BY <1>1, InFlightIsNumber, ConstantsAreNumbers DEF Inv, Types, Debts, Abs
  <2>4. shift \in [request : -MaxStep .. MaxStep, applied : -2 * MaxStep .. 2 * MaxStep,
                   generation : Nat, limiterRan : BOOLEAN]
    BY <1>1, <2>2, <2>3 DEF Inv, Types
  <2>5. limiter \in [at : {"out", "took", "plain", "read", "waiting", "restoring", "report"},
                     request : -MaxStep .. MaxStep, generation : Nat, saved : Nat, shifted : Nat]
    BY <1>1, <2>2 DEF Inv, Types, Places
  <2> QED BY <1>1, <2>1, <2>4, <2>5 DEF Inv, Types, TypeOK
<1> QED BY <1>1, InvCorrect, PTL

(* No session is charged for a shift that an earlier one asked for         *)
(* (CancelFrameShift and the generation in LimitFrame).                    *)
THEOREM OwnShiftsCorrect == Spec => []OwnShifts
<1>1. Inv => OwnShifts
  BY DEF Inv, Asked, OwnShifts
<1> QED BY <1>1, InvCorrect, PTL

(* On one thread the debt is never paid twice (StepPacing, LimitFrame).    *)
THEOREM NoOvershootCorrect == Spec => []NoOvershoot
<1>1. Inv => NoOvershoot
  BY InFlightIsNumber DEF Inv, Types, Parts, NoOvershoot
<1> QED BY <1>1, InvCorrect, PTL

(* After a shifted frame the period is that of the settings, also where    *)
(* they changed while it was waited out; lost is only a change from        *)
(* another thread between a read of the period and its write (LimitFrame). *)
THEOREM PeriodCorrect == Spec => []PeriodKept
<1>1. Inv => PeriodKept
  BY DEF Inv, Shifted, PeriodKept
<1> QED BY <1>1, InvCorrect, PTL

-----------------------------------------------------------------------------
(* Sounds under rollback.                                                  *)
CONSTANTS NumAdapters, Cues, Interrupting, Prediction, MaxFrame, MaxCalls
VARIABLES stub, real, queuedStops, saved, frame, at, until, calls, skipped

Snd == INSTANCE Sound

(* The records of the stub's players and of the real manager's.            *)
Stub == [live : BOOLEAN, cue : Cues \cup {Snd!NoCue}, frame : Nat]
Player == [live : BOOLEAN, cue : Cues \cup {Snd!NoCue}, frame : Nat, fresh : BOOLEAN]
Stop == [cue : Cues \cup {Snd!NoCue}, frame : Nat]

Players == [Snd!Adapters -> Player]
Stubs == {p \in [Snd!Adapters -> Stub] : \A i \in Snd!Adapters : p[i].live => p[i].cue \in Cues}

SoundTypes ==
  /\ stub \in Stubs /\ real \in Players /\ queuedStops \in Seq(Stop) /\ frame \in Nat
  /\ \A f \in DOMAIN saved : saved[f] \in Stubs

(* Some natural number of a set of them is the least.                      *)
LEMMA LeastNatural ==
  ASSUME NEW T \in SUBSET Nat, T # {}
  PROVE  \E x \in T : \A y \in T : x <= y
<1> DEFINE R == OpToRel(<, Nat)
<1>1. IsWellFoundedOn(R, Nat)
  BY NatLessThanWellFounded
<1>2. \A x, y \in Nat : <<y, x>> \in R <=> y < x
  BY DEF OpToRel
<1> HIDE DEF R
<1>3. PICK x \in T : \A y \in T : ~(<<y, x>> \in R)
  BY <1>1, WFMin
<1>4. ASSUME NEW y \in T PROVE x <= y
  <2>1. x \in Nat /\ y \in Nat /\ ~(<<y, x>> \in R)
    BY <1>3
  <2>2. ~(y < x)
    BY <2>1, <1>2
  <2> QED BY <2>1, <2>2
<1> QED BY <1>4

(* The least of some adapters is one of them.                              *)
LEMMA LeastIs ==
  ASSUME Snd!SoundAssumption, NEW T \in SUBSET Snd!Adapters, T # {}
  PROVE  Snd!Least(T) \in T
<1>1. T \in SUBSET Nat
  BY DEF Snd!Adapters, Snd!SoundAssumption
<1>2. \E i \in T : \A j \in T : i <= j
  BY <1>1, LeastNatural
<1> QED BY <1>2 DEF Snd!Least

(* The greatest of some of the first numbers.                              *)
LEMMA GreatestOfFirst ==
  ASSUME NEW n \in Nat, NEW T \in SUBSET (1 .. n), T # {}
  PROVE  Snd!Max(T) \in T /\ \A y \in T : y <= Snd!Max(T)
<1> DEFINE D == {n - y : y \in T}
<1>1. D \in SUBSET Nat /\ D # {}
  <2>1. \A y \in T : y \in Int /\ 1 <= y /\ y <= n
    OBVIOUS
  <2>2. \A y \in T : n - y \in Nat
    BY <2>1
  <2> QED BY <2>2
<1>2. PICK x \in D : \A y \in D : x <= y
  BY <1>1, LeastNatural
<1>3. PICK z \in T : x = n - z
  BY <1>2
<1>4. \A y \in T : z >= y
  <2> TAKE y \in T
  <2>1. n - z <= n - y
    BY <1>2, <1>3
  <2> QED BY <2>1
<1>5. Snd!Max(T) \in T /\ \A y \in T : Snd!Max(T) >= y
  BY <1>3, <1>4 DEF Snd!Max
<1>6. T \subseteq Nat
  OBVIOUS
<1> QED BY <1>5, <1>6

(* What a fold looks up: the values after any of the first elements.       *)
Steps(step, n, X) == step \in [1 .. n -> [X -> X]]
ValuesOf(g, n, X, base, step) ==
  /\ g \in [SUBSET (1 .. n) -> X]
  /\ \A T \in SUBSET (1 .. n) :
       g[T] = IF T = {} THEN base ELSE step[Snd!Max(T)][g[T \ {Snd!Max(T)}]]

LEMMA FoldedValues ==
  ASSUME NEW n \in Nat, NEW X, NEW base \in X, NEW step, Steps(step, n, X)
  PROVE  \E g : ValuesOf(g, n, X, base, step)
<1>0. step \in [1 .. n -> [X -> X]]
  BY DEF Steps
<1> DEFINE Is(g, j) == \A T \in SUBSET (1 .. j) :
                         g[T] = IF T = {} THEN base ELSE step[Snd!Max(T)][g[T \ {Snd!Max(T)}]]
           Has(j) == \E g \in [SUBSET (1 .. j) -> X] : Is(g, j)
           B == {j \in 0 .. n : ~Has(j)}
<1>1. Has(0)
  <2> DEFINE g == [T \in SUBSET (1 .. 0) |-> base]
  <2>1. g \in [SUBSET (1 .. 0) -> X] /\ Is(g, 0)
    OBVIOUS
  <2> QED BY <2>1
<1>2. ASSUME NEW j \in 1 .. n, Has(j - 1) PROVE Has(j)
  <2>1. PICK g \in [SUBSET (1 .. j - 1) -> X] : Is(g, j - 1)
    BY <1>2
  <2> DEFINE h == [T \in SUBSET (1 .. j) |-> IF j \in T THEN step[j][g[T \ {j}]] ELSE g[T]]
  <2>2. \A T \in SUBSET (1 .. j) : T \ {j} \in SUBSET (1 .. j - 1)
    OBVIOUS
  <2>3. h \in [SUBSET (1 .. j) -> X]
    BY <1>0, <2>2
  <2>4. ASSUME NEW T \in SUBSET (1 .. j)
        PROVE  h[T] = IF T = {} THEN base ELSE step[Snd!Max(T)][h[T \ {Snd!Max(T)}]]
    <3>1. CASE T = {}
      <4>1. h[T] = g[{}] /\ {} \in SUBSET (1 .. j - 1)
        BY <3>1
      <4> QED BY <3>1, <4>1, <2>1
    <3>2. CASE j \in T
      <4>0. j \in Nat /\ T # {}
        BY <3>2
      <4>1. Snd!Max(T) \in T /\ j <= Snd!Max(T) /\ Snd!Max(T) \in 1 .. j
        BY <4>0, <3>2, GreatestOfFirst
      <4>2. Snd!Max(T) = j
        BY <4>1
      <4>3. h[T \ {j}] = g[T \ {j}]
        OBVIOUS
      <4> QED BY <3>2, <4>2, <4>3
    <3>3. CASE T # {} /\ j \notin T
      <4>1. T \in SUBSET (1 .. j - 1) /\ h[T] = g[T]
        BY <3>3
      <4>2. g[T] = step[Snd!Max(T)][g[T \ {Snd!Max(T)}]]
        BY <4>1, <3>3, <2>1
      <4>3. h[T \ {Snd!Max(T)}] = g[T \ {Snd!Max(T)}]
        BY <3>3
      <4> QED BY <3>3, <4>1, <4>2, <4>3
    <3> QED BY <3>1, <3>2, <3>3
  <2> QED BY <2>3, <2>4
<1> HIDE DEF Has
<1>3. B = {}
  <2> SUFFICES ASSUME B # {} PROVE FALSE
    OBVIOUS
  <2>1. PICK j \in B : \A k \in B : j <= k
    <3>1. B \in SUBSET Nat
      OBVIOUS
    <3> HIDE DEF B
    <3> QED BY <3>1, LeastNatural
  <2>2. j # 0
    BY <2>1, <1>1
  <2>3. j \in 1 .. n /\ j - 1 \in 0 .. n /\ j - 1 \notin B
    BY <2>1, <2>2
  <2>4. Has(j - 1)
    BY <2>3
  <2> QED BY <2>1, <2>3, <2>4, <1>2
<1>4. n \in 0 .. n /\ n \notin B
  BY <1>3
<1>5. Has(n)
  BY <1>4
<1> QED BY <1>5 DEF Has, ValuesOf

(* The first k numbers, their greatest, and those before it.               *)
LEMMA FirstOnes ==
  ASSUME NEW n \in Nat, NEW k \in 1 .. n
  PROVE  /\ 1 .. k \in SUBSET (1 .. n) /\ 1 .. k # {} /\ Snd!Max(1 .. k) = k
         /\ (1 .. k) \ {k} = 1 .. k - 1
<1>1. 1 .. k \in SUBSET (1 .. n) /\ k \in 1 .. k /\ (1 .. k) \ {k} = 1 .. k - 1
  OBVIOUS
<1>2. Snd!Max(1 .. k) \in 1 .. k /\ k <= Snd!Max(1 .. k)
  BY <1>1, GreatestOfFirst
<1> QED BY <1>1, <1>2

(* Stops, claims and starts, one at a time.                                *)
Stopping(h, players, stops) ==
  /\ h[0] = players
  /\ \A k \in 1 .. Len(stops) : h[k] = Snd!StopQueued(h[k - 1], stops[k])

(* A stop leaves a record for every player.                                *)
LEMMA StopIsPlayers ==
  ASSUME Snd!SoundAssumption, NEW p \in Players, NEW stop
  PROVE  Snd!StopQueued(p, stop) \in Players
<1> DEFINE hit == {i \in Snd!Playing(p) : Snd!Stops(stop, p[i])}
<1>1. hit \in SUBSET Snd!Adapters
  BY DEF Snd!Playing
<1>2. Snd!NotHeard \in Player
  BY DEF Snd!NotHeard, Player
<1>3. Snd!StopQueued(p, stop) = IF hit = {} THEN p ELSE [p EXCEPT ![Snd!Least(hit)] = Snd!NotHeard]
  BY DEF Snd!StopQueued
<1> HIDE DEF hit
<1> QED BY <1>1, <1>2, <1>3 DEF Players

(* The fold over the queue, one stop at a time.                            *)
LEMMA StopsInTurn ==
  ASSUME Snd!SoundAssumption, NEW p \in Players, NEW q \in Seq(Stop)
  PROVE  \E h : Stopping(h, p, q) /\ Snd!FoldLeft(Snd!StopQueued, p, q) = h[Len(q)]
<1> DEFINE n == Len(q)
           Rec(g) == g = [T \in SUBSET (1 .. n) |-> IF T = {} THEN p
                            ELSE Snd!StopQueued(g[T \ {Snd!Max(T)}], q[Snd!Max(T)])]
           iter == CHOOSE g : Rec(g)
           step == [k \in 1 .. n |-> [x \in Players |-> Snd!StopQueued(x, q[k])]]
<1>1. n \in Nat /\ DOMAIN q = 1 .. n
  OBVIOUS
<1>2. Snd!FoldLeft(Snd!StopQueued, p, q) = iter[1 .. n]
  BY <1>1 DEF Snd!FoldLeft, Snd!MapThenFoldSet
<1>3. Steps(step, n, Players)
  BY StopIsPlayers DEF Steps
<1>4. \A k \in 1 .. n, x \in Players : step[k][x] = Snd!StopQueued(x, q[k])
  OBVIOUS
<1> HIDE DEF step, n
<1>5. PICK g : ValuesOf(g, n, Players, p, step)
  BY <1>1, <1>3, FoldedValues
<1>6. ASSUME NEW T \in SUBSET (1 .. n)
      PROVE  g[T] = IF T = {} THEN p ELSE Snd!StopQueued(g[T \ {Snd!Max(T)}], q[Snd!Max(T)])
  <2>1. CASE T = {}
    BY <2>1, <1>5 DEF ValuesOf
  <2>2. CASE T # {}
    <3>1. Snd!Max(T) \in 1 .. n
      BY <2>2, <1>1, GreatestOfFirst
    <3>2. g[T \ {Snd!Max(T)}] \in Players /\ g[T] = step[Snd!Max(T)][g[T \ {Snd!Max(T)}]]
      BY <2>2, <1>5 DEF ValuesOf
    <3> QED BY <2>2, <3>1, <3>2, <1>4
  <2> QED BY <2>1, <2>2
<1>7. Rec(g)
  <2>1. g = [T \in SUBSET (1 .. n) |-> g[T]]
    BY <1>5 DEF ValuesOf
  <2> QED BY <1>6, <2>1
<1>8. Rec(iter)
  BY <1>7
<1> HIDE DEF iter
<1>9. \A T \in SUBSET (1 .. n) : iter[T] =
        IF T = {} THEN p ELSE Snd!StopQueued(iter[T \ {Snd!Max(T)}], q[Snd!Max(T)])
  BY <1>8, Zenon
<1> DEFINE h == [k \in 0 .. n |-> iter[1 .. k]]
<1>10. h[0] = p /\ h[n] = iter[1 .. n]
  <2>1. 1 .. 0 = {} /\ 0 \in 0 .. n /\ n \in 0 .. n
    BY <1>1
  <2> QED BY <2>1, <1>9
<1>11. ASSUME NEW k \in 1 .. n PROVE h[k] = Snd!StopQueued(h[k - 1], q[k])
  <2>1. 1 .. k \in SUBSET (1 .. n) /\ 1 .. k # {} /\ Snd!Max(1 .. k) = k /\ (1 .. k) \ {k} = 1 .. k - 1
    BY <1>1, FirstOnes
  <2>2. iter[1 .. k] = Snd!StopQueued(iter[1 .. k - 1], q[k])
    BY <2>1, <1>9
  <2>3. k \in 0 .. n /\ k - 1 \in 0 .. n
    BY <1>1
  <2> QED BY <2>2, <2>3
<1>12. Stopping(h, p, q)
  BY <1>10, <1>11 DEF Stopping, n
<1> QED BY <1>2, <1>10, <1>12 DEF n

-----------------------------------------------------------------------------
(* Which real sound each stub sound has claimed, if any.                   *)
Claims == [Snd!Adapters -> 0 .. NumAdapters]

Claiming(h, players) ==
  /\ h[0] = [s \in Snd!Adapters |-> 0]
  /\ \A k \in 1 .. NumAdapters : h[k] = Snd!Claim(players, h[k - 1], k)

(* A claim is a real player or none.                                       *)
LEMMA ClaimIsClaims ==
  ASSUME Snd!SoundAssumption, NEW p, NEW c \in Claims, NEW s
  PROVE  Snd!Claim(p, c, s) \in Claims
<1>1. Snd!Claimable(p, c, s) \in SUBSET Snd!Adapters
  BY DEF Snd!Claimable, Snd!Playing
<1>2. Snd!Adapters \subseteq 0 .. NumAdapters
  BY DEF Snd!Adapters, Snd!SoundAssumption
<1>3. Snd!Claimable(p, c, s) # {} => Snd!Least(Snd!Claimable(p, c, s)) \in 0 .. NumAdapters
  BY <1>1, <1>2, LeastIs
<1> QED BY <1>3 DEF Snd!Claim, Claims

(* The fold of PairLiveSounds, one stub sound at a time.                   *)
LEMMA ClaimsInTurn ==
  ASSUME Snd!SoundAssumption, NEW p
  PROVE  \E h : Claiming(h, p) /\ Snd!PairLiveSounds(p) = h[NumAdapters]
<1> DEFINE n == NumAdapters
           base == [s \in Snd!Adapters |-> 0]
           seq == [s \in Snd!Adapters |-> s]
           Rec(g) == g = [T \in SUBSET (1 .. n) |-> IF T = {} THEN base
                            ELSE Snd!Claim(p, g[T \ {Snd!Max(T)}], seq[Snd!Max(T)])]
           iter == CHOOSE g : Rec(g)
           step == [k \in 1 .. n |-> [x \in Claims |-> Snd!Claim(p, x, seq[k])]]
<1>1. n \in Nat /\ Snd!Adapters = 1 .. n
  BY DEF Snd!SoundAssumption, Snd!Adapters
<1>s. DOMAIN seq = 1 .. n /\ \A k \in 1 .. n : seq[k] = k
  BY <1>1
<1> HIDE DEF seq
<1>2. Snd!PairLiveSounds(p) = iter[1 .. n]
  <2> DEFINE Op(claims, s) == Snd!Claim(p, claims, s)
  <2>1. Snd!PairLiveSounds(p) = Snd!FoldLeft(Op, base, seq)
    BY DEF Snd!PairLiveSounds, seq
  <2>2. Snd!FoldLeft(Op, base, seq) = iter[1 .. n]
    BY <1>s DEF Snd!FoldLeft, Snd!MapThenFoldSet
  <2> QED BY <2>1, <2>2
<1>3. Steps(step, n, Claims) /\ base \in Claims
  BY ClaimIsClaims, <1>1 DEF Steps, Claims
<1>4. \A k \in 1 .. n, x \in Claims : step[k][x] = Snd!Claim(p, x, seq[k])
  OBVIOUS
<1> HIDE DEF step, n, base
<1>5. PICK g : ValuesOf(g, n, Claims, base, step)
  BY <1>1, <1>3, FoldedValues
<1>6. ASSUME NEW T \in SUBSET (1 .. n)
      PROVE  g[T] = IF T = {} THEN base ELSE Snd!Claim(p, g[T \ {Snd!Max(T)}], seq[Snd!Max(T)])
  <2>1. CASE T = {}
    BY <2>1, <1>5 DEF ValuesOf
  <2>2. CASE T # {}
    <3>1. Snd!Max(T) \in 1 .. n
      BY <2>2, <1>1, GreatestOfFirst
    <3>2. g[T \ {Snd!Max(T)}] \in Claims /\ g[T] = step[Snd!Max(T)][g[T \ {Snd!Max(T)}]]
      BY <2>2, <1>5 DEF ValuesOf
    <3> QED BY <2>2, <3>1, <3>2, <1>4
  <2> QED BY <2>1, <2>2
<1>7. Rec(g)
  <2>1. g = [T \in SUBSET (1 .. n) |-> g[T]]
    BY <1>5 DEF ValuesOf
  <2> QED BY <1>6, <2>1
<1>8. Rec(iter)
  BY <1>7
<1> HIDE DEF iter
<1>9. \A T \in SUBSET (1 .. n) : iter[T] =
        IF T = {} THEN base ELSE Snd!Claim(p, iter[T \ {Snd!Max(T)}], seq[Snd!Max(T)])
  BY <1>8, Zenon
<1> DEFINE h == [k \in 0 .. n |-> iter[1 .. k]]
<1>10. h[0] = base /\ h[n] = iter[1 .. n]
  <2>1. 1 .. 0 = {} /\ 0 \in 0 .. n /\ n \in 0 .. n
    BY <1>1
  <2> QED BY <2>1, <1>9
<1>11. ASSUME NEW k \in 1 .. n PROVE h[k] = Snd!Claim(p, h[k - 1], seq[k])
  <2>1. 1 .. k \in SUBSET (1 .. n) /\ 1 .. k # {} /\ Snd!Max(1 .. k) = k /\ (1 .. k) \ {k} = 1 .. k - 1
    BY <1>1, FirstOnes
  <2>2. iter[1 .. k] = Snd!Claim(p, iter[1 .. k - 1], seq[k])
    BY <2>1, <1>9
  <2>3. k \in 0 .. n /\ k - 1 \in 0 .. n
    BY <1>1
  <2> QED BY <2>2, <2>3
<1>12. Claiming(h, p)
  BY <1>10, <1>11, <1>s DEF Claiming, n, base
<1> QED BY <1>2, <1>10, <1>12 DEF n

-----------------------------------------------------------------------------
(* What is heard once every stub sound has its own.                        *)
Starting(h, players, c, stale) ==
  /\ h[0] = players
  /\ \A k \in 1 .. NumAdapters : h[k] = Snd!Reconcile(h[k - 1], c, stale, k)

(* The players after a start on a free one, and after a lent start.        *)
Started(u, s) ==
  [u EXCEPT ![Snd!Least(Snd!Adapters \ Snd!Playing(u))] =
     [live |-> TRUE, cue |-> stub[s].cue, frame |-> stub[s].frame, fresh |-> TRUE]]
Lent(u, r, s) == [u EXCEPT ![r].frame = stub[s].frame]

(* What a start that failed leaves, a start and a lent start.              *)
LEMMA RefusedIs ==
  ASSUME NEW u \in Players
  PROVE  /\ Snd!Refused(u) \in Players
         /\ \A i \in Snd!Adapters : Snd!Refused(u)[i] \in {u[i], Snd!NotHeard}
<1> DEFINE i == Snd!Least(Snd!Oldest(u))
<1>1. Snd!NotHeard \in Player
  BY DEF Snd!NotHeard, Player
<1>2. Snd!Refused(u) = IF Snd!Playing(u) = {} THEN u ELSE [u EXCEPT ![i] = Snd!NotHeard]
  BY DEF Snd!Refused
<1> HIDE DEF i
<1> QED BY <1>1, <1>2 DEF Players

LEMMA StartedIs ==
  ASSUME Snd!SoundAssumption, stub \in Stubs, NEW s \in Snd!Adapters, NEW u \in Players
  PROVE  Started(u, s) \in Players
<1> DEFINE r == Snd!Least(Snd!Adapters \ Snd!Playing(u))
           sound == [live |-> TRUE, cue |-> stub[s].cue, frame |-> stub[s].frame, fresh |-> TRUE]
<1>1. sound \in Player
  BY DEF Stubs, Stub, Player
<1>2. Started(u, s) = [u EXCEPT ![r] = sound]
  BY DEF Started
<1> HIDE DEF r, sound
<1> QED BY <1>1, <1>2 DEF Players

LEMMA LentIs ==
  ASSUME stub \in Stubs, NEW s \in Snd!Adapters, NEW u \in Players, NEW r
  PROVE  /\ Lent(u, r, s) \in Players
         /\ \A i \in Snd!Adapters : /\ Lent(u, r, s)[i].live = u[i].live
                                   /\ Lent(u, r, s)[i].cue = u[i].cue
                                   /\ Lent(u, r, s)[i].fresh = u[i].fresh
         /\ r \in Snd!Adapters => Lent(u, r, s)[r].frame = stub[s].frame
         /\ \A i \in Snd!Adapters : i # r => Lent(u, r, s)[i] = u[i]
<1> DEFINE v == Lent(u, r, s)
           start == stub[s].frame
<1>1. start \in Nat
  BY DEF Stubs, Stub
<1>2. v = [i \in Snd!Adapters |-> IF i = r THEN [u[i] EXCEPT !.frame = start] ELSE u[i]]
  BY DEF Players, Lent
<1> HIDE DEF v, start
<1>3. \A i \in Snd!Adapters : u[i] \in Player
  BY DEF Players
<1>4. ASSUME NEW i \in Snd!Adapters
      PROVE  /\ [u[i] EXCEPT !.frame = start] \in Player
             /\ [u[i] EXCEPT !.frame = start].live = u[i].live
             /\ [u[i] EXCEPT !.frame = start].cue = u[i].cue
             /\ [u[i] EXCEPT !.frame = start].fresh = u[i].fresh
             /\ [u[i] EXCEPT !.frame = start].frame = start
  BY <1>1, <1>3 DEF Player
<1>5. v \in Players
  BY <1>2, <1>3, <1>4 DEF Players
<1>6. \A i \in Snd!Adapters : v[i].live = u[i].live /\ v[i].cue = u[i].cue /\ v[i].fresh = u[i].fresh
  BY <1>2, <1>4
<1>7. (r \in Snd!Adapters => v[r].frame = start) /\ \A i \in Snd!Adapters : i # r => v[i] = u[i]
  BY <1>2, <1>4
<1> QED BY <1>5, <1>6, <1>7 DEF v, start

(* One stub sound more, case by case.                                      *)
LEMMA ReconcileIs ==
  ASSUME NEW u, NEW c, NEW stale, NEW s
  PROVE  /\ ~stub[s].live => Snd!Reconcile(u, c, stale, s) = u
         /\ stub[s].live /\ c[s] # 0 /\ u[c[s]].live => Snd!Reconcile(u, c, stale, s) = Lent(u, c[s], s)
         /\ stub[s].live /\ c[s] # 0 /\ ~u[c[s]].live => Snd!Reconcile(u, c, stale, s) = u
         /\ stub[s].live /\ c[s] = 0 /\ stub[s].cue \in stale =>
              Snd!Reconcile(u, c, stale, s) = Snd!Refused(u)
         /\ stub[s].live /\ c[s] = 0 /\ stub[s].cue \notin stale =>
              Snd!Reconcile(u, c, stale, s) = Started(u, s)
BY DEF Snd!Reconcile, Lent, Started

(* A record for every player remains.                                      *)
LEMMA ReconcileIsPlayers ==
  ASSUME Snd!SoundAssumption, stub \in Stubs, NEW c, NEW stale, NEW u \in Players, NEW s \in Snd!Adapters
  PROVE  Snd!Reconcile(u, c, stale, s) \in Players
<1>1. Lent(u, c[s], s) \in Players
  BY LentIs
<1>2. Snd!Refused(u) \in Players
  BY RefusedIs
<1>3. Started(u, s) \in Players
  BY StartedIs
<1>4. Snd!Reconcile(u, c, stale, s) \in {u, Lent(u, c[s], s), Snd!Refused(u), Started(u, s)}
  BY ReconcileIs
<1> QED BY <1>1, <1>2, <1>3, <1>4

(* All stub sounds, in turn.                                               *)
AllReconciled(u, c, stale) ==
  Snd!FoldLeft(LAMBDA players, s : Snd!Reconcile(players, c, stale, s), u, [s \in Snd!Adapters |-> s])

(* The fold at the end of Synced, one stub sound at a time.                *)
LEMMA StartsInTurn ==
  ASSUME Snd!SoundAssumption, stub \in Stubs, NEW c, NEW stale, NEW u \in Players
  PROVE  \E h : Starting(h, u, c, stale) /\ AllReconciled(u, c, stale) = h[NumAdapters]
<1> DEFINE n == NumAdapters
           base == u
           seq == [s \in Snd!Adapters |-> s]
           Rec(g) == g = [T \in SUBSET (1 .. n) |-> IF T = {} THEN base
                            ELSE Snd!Reconcile(g[T \ {Snd!Max(T)}], c, stale, seq[Snd!Max(T)])]
           iter == CHOOSE g : Rec(g)
           step == [k \in 1 .. n |-> [x \in Players |-> Snd!Reconcile(x, c, stale, seq[k])]]
<1>1. n \in Nat /\ Snd!Adapters = 1 .. n
  BY DEF Snd!SoundAssumption, Snd!Adapters
<1>s. DOMAIN seq = 1 .. n /\ \A k \in 1 .. n : seq[k] = k
  BY <1>1
<1> HIDE DEF seq
<1>2. AllReconciled(u, c, stale) = iter[1 .. n]
  <2>1. AllReconciled(u, c, stale)
          = Snd!FoldLeft(LAMBDA players, s : Snd!Reconcile(players, c, stale, s), u, seq)
    BY DEF AllReconciled, seq
  <2>2. Snd!FoldLeft(LAMBDA players, s : Snd!Reconcile(players, c, stale, s), u, seq) = iter[1 .. n]
    BY <1>s DEF Snd!FoldLeft, Snd!MapThenFoldSet
  <2> QED BY <2>1, <2>2
<1>3. Steps(step, n, Players) /\ base \in Players
  <2>1. \A k \in 1 .. n, x \in Players : Snd!Reconcile(x, c, stale, seq[k]) \in Players
    BY <1>1, <1>s, ReconcileIsPlayers
  <2> QED BY <2>1, <1>1 DEF Steps
<1>4. \A k \in 1 .. n, x \in Players : step[k][x] = Snd!Reconcile(x, c, stale, seq[k])
  OBVIOUS
<1> HIDE DEF step, n, base
<1>5. PICK g : ValuesOf(g, n, Players, base, step)
  BY <1>1, <1>3, FoldedValues
<1>6. ASSUME NEW T \in SUBSET (1 .. n)
      PROVE  g[T] = IF T = {} THEN base ELSE Snd!Reconcile(g[T \ {Snd!Max(T)}], c, stale, seq[Snd!Max(T)])
  <2>1. CASE T = {}
    BY <2>1, <1>5 DEF ValuesOf
  <2>2. CASE T # {}
    <3>1. Snd!Max(T) \in 1 .. n
      BY <2>2, <1>1, GreatestOfFirst
    <3>2. g[T \ {Snd!Max(T)}] \in Players /\ g[T] = step[Snd!Max(T)][g[T \ {Snd!Max(T)}]]
      BY <2>2, <1>5 DEF ValuesOf
    <3> QED BY <2>2, <3>1, <3>2, <1>4
  <2> QED BY <2>1, <2>2
<1>7. Rec(g)
  <2>1. g = [T \in SUBSET (1 .. n) |-> g[T]]
    BY <1>5 DEF ValuesOf
  <2> QED BY <1>6, <2>1
<1>8. Rec(iter)
  BY <1>7
<1> HIDE DEF iter
<1>9. \A T \in SUBSET (1 .. n) : iter[T] =
        IF T = {} THEN base ELSE Snd!Reconcile(iter[T \ {Snd!Max(T)}], c, stale, seq[Snd!Max(T)])
  BY <1>8, Zenon
<1> DEFINE h == [k \in 0 .. n |-> iter[1 .. k]]
<1>10. h[0] = base /\ h[n] = iter[1 .. n]
  <2>1. 1 .. 0 = {} /\ 0 \in 0 .. n /\ n \in 0 .. n
    BY <1>1
  <2> QED BY <2>1, <1>9
<1>11. ASSUME NEW k \in 1 .. n PROVE h[k] = Snd!Reconcile(h[k - 1], c, stale, seq[k])
  <2>1. 1 .. k \in SUBSET (1 .. n) /\ 1 .. k # {} /\ Snd!Max(1 .. k) = k /\ (1 .. k) \ {k} = 1 .. k - 1
    BY <1>1, FirstOnes
  <2>2. iter[1 .. k] = Snd!Reconcile(iter[1 .. k - 1], c, stale, seq[k])
    BY <2>1, <1>9
  <2>3. k \in 0 .. n /\ k - 1 \in 0 .. n
    BY <1>1
  <2> QED BY <2>2, <2>3
<1>12. Starting(h, u, c, stale)
  BY <1>10, <1>11, <1>s DEF Starting, n, base
<1> QED BY <1>2, <1>10, <1>12 DEF n, seq

-----------------------------------------------------------------------------
(* What holds at first and after every step holds to the end.              *)
LEMMA NoFirstFailure ==
  ASSUME NEW n \in Nat, NEW B \in SUBSET (0 .. n), 0 \notin B,
         \A k \in 1 .. n : k - 1 \notin B => k \notin B
  PROVE  B = {}
<1> SUFFICES ASSUME B # {} PROVE FALSE
  OBVIOUS
<1>1. PICK j \in B : \A k \in B : j <= k
  BY LeastNatural
<1>2. j \in 1 .. n /\ j - 1 \notin B
  BY <1>1
<1> QED BY <1>1, <1>2

(* After the queued stops a player is as it was or silent, and it is as it *)
(* was if its sound was not among them.                                    *)
StoppedBy(p, r, q, k) ==
  /\ r \in Players
  /\ \A i \in Snd!Adapters :
       /\ r[i] \in {p[i], Snd!NotHeard}
       /\ (p[i].live /\ \A l \in 1 .. k : Snd!Instance(p[i]) # q[l]) => r[i] = p[i]

(* What the whole queue leaves, by the first stop to break it.             *)
LEMMA QueueStops ==
  ASSUME Snd!SoundAssumption, NEW p \in Players, NEW q \in Seq(Stop)
  PROVE  StoppedBy(p, Snd!FoldLeft(Snd!StopQueued, p, q), q, Len(q))
<1>1. PICK h : Stopping(h, p, q) /\ Snd!FoldLeft(Snd!StopQueued, p, q) = h[Len(q)]
  BY StopsInTurn
<1> DEFINE n == Len(q)
           B == {k \in 0 .. n : ~StoppedBy(p, h[k], q, k)}
<1>2. n \in Nat
  OBVIOUS
<1> HIDE DEF n
<1>3. 0 \notin B
  BY <1>1 DEF Stopping, StoppedBy
<1>4. ASSUME NEW k \in 1 .. n, k - 1 \notin B PROVE k \notin B
  <2> DEFINE u == h[k - 1]
             v == h[k]
             hit == {i \in Snd!Playing(u) : Snd!Stops(q[k], u[i])}
  <2>1. StoppedBy(p, u, q, k - 1)
    BY <1>4, <1>2
  <2>2. v = Snd!StopQueued(u, q[k])
    BY <1>1, <1>4 DEF Stopping, n
  <2>3. v = IF hit = {} THEN u ELSE [u EXCEPT ![Snd!Least(hit)] = Snd!NotHeard]
    BY <2>2 DEF Snd!StopQueued
  <2> HIDE DEF u, v
  <2>4. hit \in SUBSET Snd!Adapters /\ \A i \in hit : Snd!Instance(u[i]) = q[k]
    BY DEF Snd!Playing, Snd!Stops
  <2> HIDE DEF hit
  <2>5. v \in Players
    BY <2>1, <2>2, StopIsPlayers DEF StoppedBy
  <2>6. ASSUME NEW i \in Snd!Adapters
        PROVE  /\ v[i] \in {p[i], Snd!NotHeard}
               /\ (p[i].live /\ \A l \in 1 .. k : Snd!Instance(p[i]) # q[l]) => v[i] = p[i]
    <3>0. u \in Players /\ DOMAIN u = Snd!Adapters
      BY <2>1 DEF StoppedBy, Players
    <3>1. v[i] \in {u[i], Snd!NotHeard}
      BY <2>3, <3>0
    <3>2. u[i] \in {p[i], Snd!NotHeard}
      BY <2>1 DEF StoppedBy
    <3>3. ASSUME p[i].live, \A l \in 1 .. k : Snd!Instance(p[i]) # q[l] PROVE v[i] = p[i]
      <4>1. u[i] = p[i]
        BY <2>1, <3>3, <1>2 DEF StoppedBy
      <4>2. i \notin hit
        BY <4>1, <2>4, <3>3
      <4>3. hit # {} => Snd!Least(hit) # i
        BY <2>4, <4>2, LeastIs
      <4> QED BY <4>1, <4>3, <2>3, <3>0
    <3> QED BY <3>1, <3>2, <3>3
  <2>7. StoppedBy(p, v, q, k)
    BY <2>5, <2>6 DEF StoppedBy
  <2> QED BY <2>7 DEF v
<1> HIDE DEF B
<1>5. B = {}
  <2>1. B \in SUBSET (0 .. n)
    BY DEF B
  <2> QED BY <1>2, <1>3, <1>4, <2>1, NoFirstFailure
<1>6. StoppedBy(p, h[n], q, n)
  BY <1>2, <1>5 DEF B
<1> QED BY <1>1, <1>6 DEF n

(* Every claim is on a sound of the same request that no other has, and    *)
(* a stub sound without one has found all of them taken.                   *)
PairedUpTo(c, p, k) ==
  /\ c \in Claims
  /\ \A s \in Snd!Adapters : c[s] # 0 =>
       /\ s <= k /\ stub[s].live
       /\ c[s] \in Snd!Playing(p) /\ p[c[s]].cue = stub[s].cue
  /\ \A s, t \in Snd!Adapters : c[s] = c[t] /\ c[s] # 0 => s = t
  /\ \A s \in Snd!Adapters : s <= k /\ stub[s].live /\ c[s] = 0 =>
       \A r \in Snd!Playing(p) : p[r].cue = stub[s].cue => \E t \in Snd!Adapters : c[t] = r

(* One more stub sound has made its claim.                                 *)
LEMMA ClaimKeeps ==
  ASSUME Snd!SoundAssumption, NEW p, NEW c, NEW k \in Snd!Adapters, PairedUpTo(c, p, k - 1)
  PROVE  PairedUpTo(Snd!Claim(p, c, k), p, k)
<1> DEFINE found == Snd!Claimable(p, c, k)
           r == Snd!Least(found)
           d == Snd!Claim(p, c, k)
<1>0. Snd!Adapters \subseteq Nat \ {0}
  BY DEF Snd!SoundAssumption, Snd!Adapters
<1>1. c \in Claims /\ DOMAIN c = Snd!Adapters /\ d \in Claims
  BY ClaimIsClaims DEF PairedUpTo, Claims
<1>2. c[k] = 0
  BY <1>0 DEF PairedUpTo
<1>3. found = {x \in Snd!Playing(p) : p[x].cue = stub[k].cue /\ \A t \in Snd!Adapters : c[t] # x}
  BY DEF Snd!Claimable
<1>4. d = IF stub[k].live /\ found # {} THEN [c EXCEPT ![k] = r] ELSE c
  BY DEF Snd!Claim
<1>5. found # {} => r \in found
  BY LeastIs DEF Snd!Claimable, Snd!Playing
<1> HIDE DEF found, r, d
<1>6. \A s \in Snd!Adapters : s # k => d[s] = c[s] /\ (s <= k <=> s <= k - 1)
  BY <1>0, <1>1, <1>4
<1>7. found # {} => r \in Snd!Playing(p) /\ p[r].cue = stub[k].cue /\ \A t \in Snd!Adapters : c[t] # r
  BY <1>3, <1>5
<1>8. d[k] = IF stub[k].live /\ found # {} THEN r ELSE 0
  BY <1>1, <1>2, <1>4
<1>9. ASSUME NEW s \in Snd!Adapters, d[s] # 0
      PROVE  s <= k /\ stub[s].live /\ d[s] \in Snd!Playing(p) /\ p[d[s]].cue = stub[s].cue
  <2>1. CASE s = k
    BY <2>1, <1>9, <1>8, <1>7, <1>0
  <2>2. CASE s # k
    BY <2>2, <1>9, <1>6 DEF PairedUpTo
  <2> QED BY <2>1, <2>2
<1>10. ASSUME NEW s \in Snd!Adapters, NEW t \in Snd!Adapters, d[s] = d[t], d[s] # 0 PROVE s = t
  BY <1>10, <1>6, <1>7, <1>8 DEF PairedUpTo
<1>11. ASSUME NEW s \in Snd!Adapters, s <= k, stub[s].live, d[s] = 0,
              NEW x \in Snd!Playing(p), p[x].cue = stub[s].cue
       PROVE  \E t \in Snd!Adapters : d[t] = x
  <2>0. x \in Snd!Adapters /\ x # 0
    BY <1>0 DEF Snd!Playing
  <2>1. \E t \in Snd!Adapters : c[t] = x
    <3>1. CASE s # k
      BY <3>1, <1>11, <1>6 DEF PairedUpTo
    <3>2. CASE s = k
      <4>1. found = {}
        <5>1. found # {} => r \in Snd!Adapters
          BY <1>7 DEF Snd!Playing
        <5> QED BY <5>1, <3>2, <1>11, <1>8, <1>0
      <4> QED BY <4>1, <3>2, <1>11, <1>3
    <3> QED BY <3>1, <3>2
  <2>2. PICK t \in Snd!Adapters : c[t] = x
    BY <2>1
  <2>3. t # k
    BY <2>0, <2>2, <1>2
  <2> QED BY <2>2, <2>3, <1>6
<1>12. PairedUpTo(d, p, k)
  BY <1>1, <1>9, <1>10, <1>11 DEF PairedUpTo
<1> QED BY <1>12 DEF d

(* All of them have.                                                       *)
LEMMA SoundsPaired ==
  ASSUME Snd!SoundAssumption, NEW p
  PROVE  PairedUpTo(Snd!PairLiveSounds(p), p, NumAdapters)
<1>1. PICK h : Claiming(h, p) /\ Snd!PairLiveSounds(p) = h[NumAdapters]
  BY ClaimsInTurn
<1> DEFINE n == NumAdapters
           B == {k \in 0 .. n : ~PairedUpTo(h[k], p, k)}
<1>2. n \in Nat /\ Snd!Adapters = 1 .. n
  BY DEF Snd!SoundAssumption, Snd!Adapters
<1>3. PairedUpTo(h[0], p, 0)
  BY <1>1, <1>2 DEF Claiming, PairedUpTo, Claims
<1>4. ASSUME NEW k \in 1 .. n, k - 1 \notin B PROVE k \notin B
  <2>1. PairedUpTo(h[k - 1], p, k - 1) /\ h[k] = Snd!Claim(p, h[k - 1], k)
    BY <1>1, <1>2, <1>4 DEF Claiming
  <2> QED BY <2>1, <1>2, ClaimKeeps
<1>5. B \in SUBSET (0 .. n) /\ 0 \notin B
  BY <1>2, <1>3
<1> HIDE DEF B
<1>6. B = {}
  BY <1>2, <1>4, <1>5, NoFirstFailure
<1>7. PairedUpTo(h[n], p, n)
  BY <1>2, <1>6 DEF B
<1> QED BY <1>1, <1>7

(* Stub sounds that have a player, and the players they have: the one that *)
(* was claimed, or one that was free.                                      *)
Served(c, k) == {s \in Snd!Playing(stub) : s <= k \/ c[s] # 0}
SoundOf(c, s) ==
  [live |-> TRUE, cue |-> stub[s].cue, frame |-> stub[s].frame, fresh |-> c[s] = 0]

HeardUpTo(u, c, place, k) ==
  /\ u \in Players /\ place \in [Served(c, k) -> Snd!Adapters]
  /\ \A s, t \in Served(c, k) : place[s] = place[t] => s = t
  /\ \A i \in Snd!Adapters : u[i].live <=> \E s \in Served(c, k) : place[s] = i
  /\ \A s \in Served(c, k) : (s <= k => u[place[s]] = SoundOf(c, s)) /\ (c[s] # 0 => place[s] = c[s])
  /\ \A s \in Served(c, k) : u[place[s]].cue = stub[s].cue /\ u[place[s]].fresh = (c[s] = 0)

(* Before the first start the claimed players are heard, and no others.    *)
LEMMA ClaimedAreHeard ==
  ASSUME Snd!SoundAssumption, NEW p \in Players, NEW c, PairedUpTo(c, p, NumAdapters)
  PROVE  \E place : HeardUpTo(Snd!Unclaimed(p, c), c, place, 0)
<1> DEFINE u == Snd!Unclaimed(p, c)
           L == Served(c, 0)
           f == [s \in L |-> c[s]]
<1>0. \A s \in Snd!Adapters : s \in Nat /\ ~(s <= 0) /\ s # 0
  BY DEF Snd!SoundAssumption, Snd!Adapters
<1>1. L = {s \in Snd!Adapters : stub[s].live /\ c[s] # 0}
  BY <1>0 DEF Served, Snd!Playing
<1> HIDE DEF L
<1>2. \A s \in L : s \in Snd!Adapters /\ ~(s <= 0) /\ c[s] \in Snd!Adapters /\ p[c[s]].live
  BY <1>0, <1>1 DEF PairedUpTo, Snd!Playing
<1>3. \A s \in Snd!Adapters : c[s] # 0 => s \in L
  BY <1>1 DEF PairedUpTo
<1>4. \A i \in Snd!Adapters :
        u[i] = IF \E s \in Snd!Adapters : c[s] = i THEN [p[i] EXCEPT !.fresh = FALSE] ELSE Snd!NotHeard
  BY DEF Snd!Unclaimed
<1>5. u \in Players
  <2>1. Snd!NotHeard \in Player
    BY DEF Snd!NotHeard, Player
  <2>2. \A i \in Snd!Adapters : [p[i] EXCEPT !.fresh = FALSE] \in Player
    BY DEF Players, Player
  <2> QED BY <2>1, <2>2 DEF Snd!Unclaimed, Players
<1>6. ASSUME NEW i \in Snd!Adapters PROVE u[i].live <=> \E s \in L : f[s] = i
  <2>1. CASE \E s \in Snd!Adapters : c[s] = i
    <3>1. PICK s \in Snd!Adapters : c[s] = i
      BY <2>1
    <3>2. s \in L /\ p[i].live
      BY <3>1, <1>0, <1>2, <1>3
    <3>3. u[i] = [p[i] EXCEPT !.fresh = FALSE] /\ p[i] \in Player
      BY <2>1, <1>4 DEF Players
    <3>4. u[i].live = p[i].live
      BY <3>3 DEF Player
    <3> QED BY <3>1, <3>2, <3>4
  <2>2. CASE ~\E s \in Snd!Adapters : c[s] = i
    <3>1. u[i] = Snd!NotHeard
      BY <2>2, <1>4
    <3> QED BY <3>1, <2>2, <1>2 DEF Snd!NotHeard
  <2> QED BY <2>1, <2>2
<1>c. ASSUME NEW s \in L PROVE u[c[s]].cue = stub[s].cue /\ u[c[s]].fresh = FALSE
  <2>1. s \in Snd!Adapters /\ c[s] \in Snd!Adapters /\ c[s] # 0
    BY <1>1, <1>2
  <2>2. u[c[s]] = [p[c[s]] EXCEPT !.fresh = FALSE] /\ p[c[s]] \in Player
    BY <2>1, <1>4 DEF Players
  <2>3. p[c[s]].cue = stub[s].cue
    BY <2>1 DEF PairedUpTo
  <2> QED BY <2>2, <2>3 DEF Player
<1> HIDE DEF u
<1>7. f \in [L -> Snd!Adapters] /\ \A s \in L : ~(s <= 0) /\ f[s] = c[s] /\ c[s] # 0
  BY <1>0, <1>2, <1>1
<1>8. \A s, t \in L : f[s] = f[t] => s = t
  BY <1>1, <1>7 DEF PairedUpTo
<1> HIDE DEF f
<1>9. HeardUpTo(u, c, f, 0)
  BY <1>5, <1>6, <1>7, <1>8, <1>c DEF HeardUpTo, L
<1> QED BY <1>9 DEF u

(* As long as a stub sound waits for a player, one is free.                *)
LEMMA PlayerFree ==
  ASSUME Snd!SoundAssumption, NEW u, NEW c, NEW f, NEW k \in Nat, HeardUpTo(u, c, f, k),
         NEW s \in Snd!Adapters, s \notin Served(c, k)
  PROVE  Snd!Least(Snd!Adapters \ Snd!Playing(u)) \in Snd!Adapters \ Snd!Playing(u)
<1> DEFINE L == Served(c, k)
<1>1. IsFiniteSet(Snd!Adapters) /\ L \subseteq Snd!Adapters
  <2>1. NumAdapters \in Int /\ 1 \in Int /\ Snd!Adapters = 1 .. NumAdapters
    BY DEF Snd!SoundAssumption, Snd!Adapters
  <2>2. IsFiniteSet(Snd!Adapters)
    BY <2>1, FS_Interval
  <2> QED BY <2>2 DEF Served, Snd!Playing
<1>2. Snd!Adapters \ Snd!Playing(u) # {}
  <2> SUFFICES ASSUME Snd!Adapters \ Snd!Playing(u) = {} PROVE FALSE
    OBVIOUS
  <2>1. f \in Surjection(L, Snd!Adapters)
    <3>1. f \in [L -> Snd!Adapters] /\ \A i \in Snd!Adapters : \E t \in L : f[t] = i
      BY DEF HeardUpTo, Snd!Playing
    <3> QED BY <3>1 DEF Surjection
  <2>2. IsFiniteSet(L) /\ Cardinality(L) <= Cardinality(Snd!Adapters)
        /\ (Cardinality(L) = Cardinality(Snd!Adapters) => L = Snd!Adapters)
    BY <1>1, FS_Subset
  <2>3. Cardinality(Snd!Adapters) <= Cardinality(L)
    BY <2>1, <2>2, FS_Surjection
  <2>4. Cardinality(L) \in Nat /\ Cardinality(Snd!Adapters) \in Nat
    BY <1>1, <2>2, FS_CardinalityType
  <2>5. L = Snd!Adapters
    BY <2>2, <2>3, <2>4
  <2> QED BY <2>5
<1> QED BY <1>2, LeastIs

(* One more stub sound is heard: where it was claimed, or on a free        *)
(* player.                                                                 *)
LEMMA StartKeeps ==
  ASSUME Snd!SoundAssumption, stub \in Stubs, NEW u, NEW c \in Claims, NEW stale, NEW f,
         NEW k \in Snd!Adapters, HeardUpTo(u, c, f, k - 1),
         stub[k].live /\ c[k] = 0 => stub[k].cue \notin stale
  PROVE  \E g : HeardUpTo(Snd!Reconcile(u, c, stale, k), c, g, k)
<1> DEFINE L == Served(c, k - 1)
           M == Served(c, k)
           v == Snd!Reconcile(u, c, stale, k)
           r == IF c[k] # 0 THEN c[k] ELSE Snd!Least(Snd!Adapters \ Snd!Playing(u))
<1>0. (\A s \in Snd!Adapters : s \in Nat /\ s >= 1) /\ k - 1 \in Nat
  BY DEF Snd!SoundAssumption, Snd!Adapters
<1>u. u \in Players
  BY DEF HeardUpTo
<1>2. DOMAIN u = Snd!Adapters /\ v \in Players
  BY <1>u, ReconcileIsPlayers DEF Players
<1>3. \A s \in Snd!Adapters : s # k => (s <= k <=> s <= k - 1)
  BY <1>0
<1>k. k <= k
  BY <1>0
<1>4. M = IF stub[k].live THEN L \cup {k} ELSE L
  BY <1>k, <1>3 DEF Served, Snd!Playing
<1>5. L \subseteq Snd!Adapters /\ (k \in L <=> stub[k].live /\ c[k] # 0)
  BY <1>0 DEF Served, Snd!Playing
<1>6. /\ f \in [L -> Snd!Adapters]
      /\ \A s, t \in L : f[s] = f[t] => s = t
      /\ \A i \in Snd!Adapters : u[i].live <=> \E s \in L : f[s] = i
      /\ \A s \in L : (s <= k - 1 => u[f[s]] = SoundOf(c, s)) /\ (c[s] # 0 => f[s] = c[s])
      /\ \A s \in L : u[f[s]].cue = stub[s].cue /\ u[f[s]].fresh = (c[s] = 0)
  BY DEF HeardUpTo
<1>7. SoundOf(c, k).live /\ SoundOf(c, k).cue = stub[k].cue /\ SoundOf(c, k).fresh = (c[k] = 0)
  BY DEF SoundOf
<1>r. stub[k].live /\ c[k] = 0 => r \in Snd!Adapters \ Snd!Playing(u)
  BY <1>0, <1>5, PlayerFree
<1>l. stub[k].live /\ c[k] # 0 => f[k] = c[k] /\ c[k] \in Snd!Adapters /\ u[c[k]].live
                                  /\ u[c[k]].cue = stub[k].cue /\ u[c[k]].fresh = FALSE
  BY <1>5, <1>6
<1>1. /\ ~stub[k].live => v = u
      /\ stub[k].live /\ c[k] # 0 => v = Lent(u, c[k], k)
      /\ stub[k].live /\ c[k] = 0 => v = [u EXCEPT ![r] = SoundOf(c, k)]
  <2>1. c[k] = 0 => Started(u, k) = [u EXCEPT ![r] = SoundOf(c, k)]
    BY DEF SoundOf, Started
  <2> HIDE DEF r
  <2> QED BY <2>1, <1>l, ReconcileIs
<1> HIDE DEF L, M, v, r
<1>8. CASE ~stub[k].live
  <2>1. v = u /\ M = L /\ k \notin L
    BY <1>8, <1>1, <1>4, <1>5
  <2>2. \A s \in L : s <= k => s <= k - 1
    BY <2>1, <1>3, <1>5
  <2>3. HeardUpTo(v, c, f, k)
    BY <2>1, <2>2, <1>2, <1>6 DEF HeardUpTo, M
  <2> QED BY <2>3 DEF v
<1>9. CASE stub[k].live /\ c[k] # 0
  <2>1. M = L /\ k \in L /\ f[k] = c[k] /\ c[k] \in Snd!Adapters
    BY <1>9, <1>4, <1>5, <1>l
  <2>v. /\ \A i \in Snd!Adapters : v[i].live = u[i].live /\ v[i].cue = u[i].cue /\ v[i].fresh = u[i].fresh
        /\ v[c[k]].frame = stub[k].frame
        /\ \A i \in Snd!Adapters : i # c[k] => v[i] = u[i]
    <3>1. v = Lent(u, c[k], k)
      BY <1>9, <1>1
    <3>2. \A i \in Snd!Adapters : /\ Lent(u, c[k], k)[i].live = u[i].live
                                  /\ Lent(u, c[k], k)[i].cue = u[i].cue
                                  /\ Lent(u, c[k], k)[i].fresh = u[i].fresh
      BY <1>u, LentIs
    <3>3. Lent(u, c[k], k)[c[k]].frame = stub[k].frame
      BY <1>u, <2>1, LentIs
    <3>4. \A i \in Snd!Adapters : i # c[k] => Lent(u, c[k], k)[i] = u[i]
      BY <1>2 DEF Lent
    <3> QED BY <3>1, <3>2, <3>3, <3>4
  <2>2. v[f[k]] = SoundOf(c, k)
    <3>1. v[c[k]] \in Player
      BY <2>1, <1>2 DEF Players
    <3>2. v[c[k]].live = TRUE /\ v[c[k]].cue = stub[k].cue /\ v[c[k]].fresh = FALSE
      <4>1. v[c[k]].live \in BOOLEAN
        BY <3>1 DEF Player
      <4> QED BY <4>1, <2>1, <2>v, <1>l, <1>9
    <3> QED BY <3>1, <3>2, <2>1, <2>v, <1>9 DEF Player, SoundOf
  <2>3. \A i \in Snd!Adapters : v[i].live <=> \E s \in L : f[s] = i
    BY <2>v, <1>6
  <2>4. \A s \in L : s <= k => v[f[s]] = SoundOf(c, s)
    <3> SUFFICES ASSUME NEW s \in L, s <= k PROVE v[f[s]] = SoundOf(c, s)
      OBVIOUS
    <3>1. CASE s = k
      BY <3>1, <2>2
    <3>2. CASE s # k
      BY <3>2, <2>1, <2>v, <1>3, <1>5, <1>6
    <3> QED BY <3>1, <3>2
  <2>c. \A s \in L : v[f[s]].cue = stub[s].cue /\ v[f[s]].fresh = (c[s] = 0)
    BY <2>v, <1>6
  <2>5. HeardUpTo(v, c, f, k)
    BY <2>1, <2>3, <2>4, <2>c, <1>2, <1>6 DEF HeardUpTo, M
  <2> QED BY <2>5 DEF v
<1>10. CASE stub[k].live /\ c[k] = 0
  <2> DEFINE g == [s \in M |-> IF s = k THEN r ELSE f[s]]
  <2>0. r \in Snd!Adapters /\ ~u[r].live
    BY <1>10, <1>r DEF Snd!Playing
  <2>1. v = [u EXCEPT ![r] = SoundOf(c, k)] /\ M = L \cup {k} /\ k \notin L
    BY <1>10, <1>1, <1>4, <1>5
  <2>2. v[r] = SoundOf(c, k) /\ \A i \in Snd!Adapters : i # r => v[i] = u[i]
    BY <2>0, <2>1, <1>2
  <2>3. g[k] = r /\ \A s \in L : g[s] = f[s] /\ f[s] \in Snd!Adapters /\ f[s] # r
    BY <2>0, <2>1, <1>6
  <2>4. g \in [M -> Snd!Adapters]
    BY <2>0, <2>1, <1>6
  <2> HIDE DEF g
  <2>5. \A s, t \in M : g[s] = g[t] => s = t
    BY <2>1, <2>3, <1>6
  <2>6. \A i \in Snd!Adapters : v[i].live <=> \E s \in M : g[s] = i
    BY <2>1, <2>2, <2>3, <1>6, <1>7
  <2>7. ASSUME NEW s \in M
        PROVE  /\ (s <= k => v[g[s]] = SoundOf(c, s)) /\ (c[s] # 0 => g[s] = c[s])
               /\ v[g[s]].cue = stub[s].cue /\ v[g[s]].fresh = (c[s] = 0)
    <3>1. CASE s = k
      BY <3>1, <2>2, <2>3, <1>7, <1>10
    <3>2. CASE s # k
      <4>1. s \in L /\ g[s] = f[s] /\ v[f[s]] = u[f[s]] /\ (s <= k => s <= k - 1)
        BY <3>2, <2>1, <2>2, <2>3, <1>3, <1>5
      <4> QED BY <4>1, <1>6
    <3> QED BY <3>1, <3>2
  <2>8. HeardUpTo(v, c, g, k)
    BY <2>4, <2>5, <2>6, <2>7, <1>2 DEF HeardUpTo, M
  <2> QED BY <2>8 DEF v
<1> QED BY <1>8, <1>9, <1>10

(* A player is of a stub sound of its request, each of another, whatever   *)
(* starts have failed.                                                     *)
OwnedUpTo(u, c, own, k) ==
  /\ u \in Players /\ own \in [Snd!Playing(u) -> Snd!Playing(stub)]
  /\ \A r, q \in Snd!Playing(u) : own[r] = own[q] => r = q
  /\ \A r \in Snd!Playing(u) : u[r].cue = stub[own[r]].cue /\ (own[r] <= k \/ c[own[r]] # 0)

LEMMA ClaimedAreOwned ==
  ASSUME Snd!SoundAssumption, NEW u, NEW c, NEW f, HeardUpTo(u, c, f, 0)
  PROVE  \E own : OwnedUpTo(u, c, own, 0)
<1> DEFINE L == Served(c, 0)
           own == [r \in Snd!Playing(u) |-> CHOOSE s \in L : f[s] = r]
<1>1. /\ u \in Players /\ f \in [L -> Snd!Adapters]
      /\ \A i \in Snd!Adapters : u[i].live <=> \E s \in L : f[s] = i
      /\ \A s \in L : u[f[s]].cue = stub[s].cue
  BY DEF HeardUpTo
<1>2. \A s \in L : s \in Snd!Playing(stub) /\ (s <= 0 \/ c[s] # 0)
  BY DEF Served
<1> HIDE DEF L
<1>3. \A r \in Snd!Playing(u) : own[r] \in L /\ f[own[r]] = r
  <2> TAKE r \in Snd!Playing(u)
  <2>1. \E s \in L : f[s] = r
    BY <1>1 DEF Snd!Playing
  <2> QED BY <2>1
<1>4. own \in [Snd!Playing(u) -> Snd!Playing(stub)]
  BY <1>2, <1>3
<1> HIDE DEF own
<1>5. OwnedUpTo(u, c, own, 0)
  BY <1>1, <1>2, <1>3, <1>4 DEF OwnedUpTo
<1> QED BY <1>5

(* While a stub sound is no player's, some player has none.                *)
LEMMA PlayerSilent ==
  ASSUME Snd!SoundAssumption, NEW u, NEW own \in [Snd!Playing(u) -> Snd!Playing(stub)],
         \A r, q \in Snd!Playing(u) : own[r] = own[q] => r = q,
         NEW s \in Snd!Adapters, \A r \in Snd!Playing(u) : own[r] # s
  PROVE  Snd!Least(Snd!Adapters \ Snd!Playing(u)) \in Snd!Adapters \ Snd!Playing(u)
<1>1. IsFiniteSet(Snd!Adapters) /\ Snd!Playing(u) \subseteq Snd!Adapters /\ Snd!Playing(stub) \subseteq Snd!Adapters
  <2>1. NumAdapters \in Int /\ 1 \in Int /\ Snd!Adapters = 1 .. NumAdapters
    BY DEF Snd!SoundAssumption, Snd!Adapters
  <2>2. IsFiniteSet(Snd!Adapters)
    BY <2>1, FS_Interval
  <2> QED BY <2>2 DEF Snd!Playing
<1>2. Snd!Adapters \ Snd!Playing(u) # {}
  <2> SUFFICES ASSUME Snd!Adapters \ Snd!Playing(u) = {} PROVE FALSE
    OBVIOUS
  <2>0. Snd!Playing(u) = Snd!Adapters
    BY <1>1
  <2> DEFINE rest == Snd!Adapters \ {s}
  <2>1. own \in Injection(Snd!Adapters, rest)
    <3>1. own \in [Snd!Adapters -> rest]
      BY <1>1, <2>0
    <3> QED BY <3>1, <2>0 DEF Injection, IsInjective
  <2>2. IsFiniteSet(rest) /\ Cardinality(rest) <= Cardinality(Snd!Adapters)
        /\ (Cardinality(rest) = Cardinality(Snd!Adapters) => rest = Snd!Adapters)
    BY <1>1, FS_Subset
  <2>3. rest # Snd!Adapters
    OBVIOUS
  <2> HIDE DEF rest
  <2>4. Cardinality(Snd!Adapters) <= Cardinality(rest)
    BY <2>1, <2>2, FS_Injection
  <2>5. Cardinality(rest) \in Nat /\ Cardinality(Snd!Adapters) \in Nat
    BY <1>1, <2>2, FS_CardinalityType
  <2> QED BY <2>2, <2>3, <2>4, <2>5
<1> QED BY <1>2, LeastIs

LEMMA OwnedKeeps ==
  ASSUME Snd!SoundAssumption, stub \in Stubs, NEW u, NEW c, NEW stale, NEW own,
         NEW k \in Snd!Adapters, OwnedUpTo(u, c, own, k - 1)
  PROVE  \E g : OwnedUpTo(Snd!Reconcile(u, c, stale, k), c, g, k)
<1> DEFINE v == Snd!Reconcile(u, c, stale, k)
           r == Snd!Least(Snd!Adapters \ Snd!Playing(u))
<1>1. /\ u \in Players /\ own \in [Snd!Playing(u) -> Snd!Playing(stub)]
      /\ \A x, q \in Snd!Playing(u) : own[x] = own[q] => x = q
      /\ \A x \in Snd!Playing(u) : u[x].cue = stub[own[x]].cue /\ (own[x] <= k - 1 \/ c[own[x]] # 0)
  BY DEF OwnedUpTo
<1>2. k \in Nat /\ k >= 1 /\ \A x \in Snd!Playing(u) : own[x] \in Nat /\ x \in Snd!Adapters
  BY <1>1 DEF Snd!Playing, Snd!Adapters, Snd!SoundAssumption
<1>3. \A x \in Snd!Playing(u) : own[x] <= k \/ c[own[x]] # 0
  BY <1>1, <1>2
<1>4. v \in Players
  BY <1>1, ReconcileIsPlayers
(* Fewer players, of the same sounds.                                      *)
<1>5. ASSUME \A i \in Snd!Adapters : v[i].live => u[i].live /\ v[i].cue = u[i].cue
      PROVE  \E g : OwnedUpTo(v, c, g, k)
  <2> DEFINE g == [x \in Snd!Playing(v) |-> own[x]]
  <2>1. Snd!Playing(v) \subseteq Snd!Playing(u) /\ \A x \in Snd!Playing(v) : v[x].cue = u[x].cue
    BY <1>5 DEF Snd!Playing
  <2>2. g \in [Snd!Playing(v) -> Snd!Playing(stub)] /\ \A x \in Snd!Playing(v) : g[x] = own[x]
    BY <2>1, <1>1
  <2> HIDE DEF g, v
  <2>3. OwnedUpTo(v, c, g, k)
    BY <2>1, <2>2, <1>1, <1>3, <1>4 DEF OwnedUpTo
  <2> QED BY <2>3
<1>6. CASE ~stub[k].live
  <2>1. v = u
    BY <1>6, ReconcileIs
  <2> QED BY <2>1, <1>5
<1>7. CASE stub[k].live /\ c[k] # 0
  <2>1. v = u \/ v = Lent(u, c[k], k)
    BY <1>7, ReconcileIs
  <2>2. \A i \in Snd!Adapters : Lent(u, c[k], k)[i].live = u[i].live /\ Lent(u, c[k], k)[i].cue = u[i].cue
    BY <1>1, LentIs
  <2> HIDE DEF v
  <2>3. \A i \in Snd!Adapters : v[i].live => u[i].live /\ v[i].cue = u[i].cue
    BY <2>1, <2>2
  <2> QED BY <2>3, <1>5 DEF v
<1>8. CASE stub[k].live /\ c[k] = 0 /\ stub[k].cue \in stale
  <2>1. v = Snd!Refused(u)
    BY <1>8, ReconcileIs
  <2>2. \A i \in Snd!Adapters : v[i] \in {u[i], Snd!NotHeard}
    BY <2>1, <1>1, RefusedIs
  <2>3. \A i \in Snd!Adapters : v[i].live => u[i].live /\ v[i].cue = u[i].cue
    BY <2>2 DEF Snd!NotHeard
  <2> QED BY <2>3, <1>5
<1>9. CASE stub[k].live /\ c[k] = 0 /\ stub[k].cue \notin stale
  <2> DEFINE sound == [live |-> TRUE, cue |-> stub[k].cue, frame |-> stub[k].frame, fresh |-> TRUE]
  <2>1. v = [u EXCEPT ![r] = sound]
    <3>1. v = Started(u, k)
      BY <1>9, ReconcileIs
    <3> QED BY <3>1 DEF Started
  <2>2. \A x \in Snd!Playing(u) : own[x] # k
    BY <1>1, <1>2, <1>9
  <2>3. r \in Snd!Adapters \ Snd!Playing(u)
    BY <1>1, <2>2, PlayerSilent
  <2> HIDE DEF r
  <2>4. v[r].live /\ v[r].cue = stub[k].cue /\ \A i \in Snd!Adapters : i # r => v[i] = u[i]
    BY <2>1, <2>3, <1>1 DEF Players
  <2>5. Snd!Playing(v) = Snd!Playing(u) \cup {r} /\ k \in Snd!Playing(stub)
    BY <2>3, <2>4, <1>9 DEF Snd!Playing
  <2> DEFINE g == [x \in Snd!Playing(v) |-> IF x = r THEN k ELSE own[x]]
  <2> HIDE DEF v
  <2>6. g \in [Snd!Playing(v) -> Snd!Playing(stub)]
    BY <2>5, <1>1
  <2>7. g[r] = k /\ \A x \in Snd!Playing(u) : g[x] = own[x] /\ x # r /\ v[x] = u[x]
    BY <2>3, <2>4, <2>5 DEF Snd!Playing
  <2> HIDE DEF g
  <2>8. \A x, q \in Snd!Playing(v) : g[x] = g[q] => x = q
    BY <2>2, <2>5, <2>7, <1>1
  <2>9. \A x \in Snd!Playing(v) : v[x].cue = stub[g[x]].cue /\ (g[x] <= k \/ c[g[x]] # 0)
    BY <2>4, <2>5, <2>7, <1>1, <1>2, <1>3
  <2>10. OwnedUpTo(v, c, g, k)
    BY <2>6, <2>8, <2>9, <1>4 DEF OwnedUpTo
  <2> QED BY <2>10 DEF v
<1> QED BY <1>6, <1>7, <1>8, <1>9 DEF v

(* After SyncState no player has a sound that the stub does not play; and  *)
(* if no start has failed every live stub sound has a player of its own,   *)
(* and whatever was claimed goes on.                                       *)
LEMMA SyncMirrors ==
  ASSUME Snd!SoundAssumption, SoundTypes, NEW stale
  PROVE  /\ \E own : OwnedUpTo(Snd!Synced(stale), Snd!PairLiveSounds(Snd!Stopped), own, NumAdapters)
         /\ ~Snd!Skips(stale) =>
              \E f : HeardUpTo(Snd!Synced(stale), Snd!PairLiveSounds(Snd!Stopped), f, NumAdapters)
<1> DEFINE p == Snd!Stopped
           c == Snd!PairLiveSounds(p)
           u == Snd!Unclaimed(p, c)
           n == NumAdapters
<1>0. n \in Nat /\ Snd!Adapters = 1 .. n
  BY DEF Snd!SoundAssumption, Snd!Adapters
<1>1. p \in Players
  BY QueueStops DEF SoundTypes, StoppedBy, Snd!Stopped
<1>s. Snd!Synced(stale) = AllReconciled(u, c, stale)
  BY DEF Snd!Synced, AllReconciled
<1>k. ~Snd!Skips(stale) => \A s \in Snd!Adapters : stub[s].live /\ c[s] = 0 => stub[s].cue \notin stale
  BY DEF Snd!Skips
<1> HIDE DEF p
<1>2. PairedUpTo(c, p, n) /\ c \in Claims
  BY SoundsPaired DEF PairedUpTo
<1> HIDE DEF c
<1>3. PICK f : HeardUpTo(u, c, f, 0)
  BY <1>1, <1>2, ClaimedAreHeard
<1>4. u \in Players
  BY <1>3 DEF HeardUpTo
<1> HIDE DEF u
<1>o. PICK own : OwnedUpTo(u, c, own, 0)
  BY <1>3, ClaimedAreOwned
<1>5. PICK h : Starting(h, u, c, stale) /\ Snd!Synced(stale) = h[n]
  <2>1. \E h : Starting(h, u, c, stale) /\ AllReconciled(u, c, stale) = h[NumAdapters]
    BY <1>4, StartsInTurn DEF SoundTypes
  <2> QED BY <2>1, <1>s
<1> DEFINE A == {k \in 0 .. n : ~\E g : OwnedUpTo(h[k], c, g, k)}
           B == {k \in 0 .. n : ~\E g : HeardUpTo(h[k], c, g, k)}
<1>6. A \in SUBSET (0 .. n) /\ 0 \notin A /\ B \in SUBSET (0 .. n) /\ 0 \notin B
  BY <1>3, <1>o, <1>5 DEF Starting
<1>a. ASSUME NEW k \in 1 .. n, k - 1 \notin A PROVE k \notin A
  <2>1. PICK g : OwnedUpTo(h[k - 1], c, g, k - 1)
    BY <1>a, <1>0
  <2>2. h[k] = Snd!Reconcile(h[k - 1], c, stale, k)
    BY <1>5 DEF Starting
  <2> QED BY <2>1, <2>2, <1>0, OwnedKeeps DEF SoundTypes
<1>7. ASSUME ~Snd!Skips(stale), NEW k \in 1 .. n, k - 1 \notin B PROVE k \notin B
  <2>1. PICK g : HeardUpTo(h[k - 1], c, g, k - 1)
    BY <1>7, <1>0
  <2>2. h[k] = Snd!Reconcile(h[k - 1], c, stale, k)
    BY <1>5 DEF Starting
  <2> QED BY <2>1, <2>2, <1>0, <1>2, <1>7, <1>k, StartKeeps DEF SoundTypes
<1> HIDE DEF A, B
<1>8. A = {}
  BY <1>0, <1>6, <1>a, NoFirstFailure
<1>9. \E g : OwnedUpTo(h[n], c, g, n)
  BY <1>0, <1>8 DEF A
<1>10. ASSUME ~Snd!Skips(stale) PROVE \E g : HeardUpTo(h[n], c, g, n)
  <2>1. B = {}
    BY <1>0, <1>6, <1>7, <1>10, NoFirstFailure
  <2> QED BY <2>1, <1>0 DEF B
<1> QED BY <1>5, <1>9, <1>10 DEF c, p

-----------------------------------------------------------------------------
(* Types.                                                                  *)
LEMMA SoundsTyped ==
  ASSUME Snd!SoundAssumption
  PROVE  /\ Snd!NoCue \notin Cues
         /\ Snd!Silent \in Stubs /\ Snd!Heard \in Players
         /\ \A p \in Stubs, i \in Snd!Adapters : Snd!Instance(p[i]) \in Stop
<1>1. Snd!NoCue \notin Cues
  BY DEF Snd!SoundAssumption
<1>2. Snd!Silent \in Stubs
  BY DEF Snd!Silent, Stubs, Stub
<1>3. Snd!Heard \in Players
  BY DEF Snd!Heard, Snd!NotHeard, Players, Player
<1>4. \A p \in Stubs, i \in Snd!Adapters : Snd!Instance(p[i]) \in Stop
  BY DEF Snd!Instance, Stubs, Stub, Stop
<1> QED BY <1>1, <1>2, <1>3, <1>4

(* SyncState leaves a record for every player.                             *)
LEMMA SyncTyped ==
  ASSUME Snd!SoundAssumption, SoundTypes, NEW stale
  PROVE  Snd!Synced(stale) \in Players
<1>1. \E own : OwnedUpTo(Snd!Synced(stale), Snd!PairLiveSounds(Snd!Stopped), own, NumAdapters)
  BY SyncMirrors
<1> QED BY <1>1 DEF OwnedUpTo

(* The adapter that a sound is put on.                                     *)
LEMMA PlacesTyped ==
  ASSUME Snd!SoundAssumption, NEW p \in Stubs, NEW cue
  PROVE  Snd!Places(p, cue) \subseteq Snd!Adapters
<1>1. CASE Snd!Playing(p) # Snd!Adapters \/ cue \in Interrupting
  BY <1>1 DEF Snd!Places
<1>2. CASE Snd!Playing(p) = Snd!Adapters /\ cue \notin Interrupting
  <2>1. Snd!Adapters \in SUBSET Nat /\ 1 \in Snd!Adapters
    BY DEF Snd!Adapters, Snd!SoundAssumption
  <2>2. Snd!Oldest(p) \in SUBSET Snd!Adapters
    BY DEF Snd!Oldest, Snd!Playing
  <2> DEFINE starts == {p[i].frame : i \in Snd!Adapters}
  <2>3. starts \in SUBSET Nat /\ starts # {}
    BY <2>1 DEF Stubs, Stub
  <2>4. PICK x \in starts : \A y \in starts : x <= y
    BY <2>3, LeastNatural
  <2>5. PICK i \in Snd!Adapters : x = p[i].frame
    BY <2>4
  <2>6. i \in Snd!Oldest(p)
    BY <1>2, <2>4, <2>5 DEF Snd!Oldest
  <2>7. Snd!Least(Snd!Oldest(p)) \in Snd!Adapters
    BY <2>2, <2>6, LeastIs
  <2> QED BY <1>2, <2>7 DEF Snd!Places
<1> QED BY <1>1, <1>2

(* What a sound that was asked for leaves behind, whatever was there.      *)
LEMMA PlaySoundIs ==
  ASSUME Snd!SoundAssumption, SoundTypes, NEW cue \in Cues, Snd!PlaySound(cue)
  PROVE  \E i \in Snd!Adapters :
           /\ stub' = [stub EXCEPT ![i] = [live |-> TRUE, cue |-> cue, frame |-> frame]]
           /\ queuedStops' = IF stub[i].live THEN Append(queuedStops, Snd!Instance(stub[i])) ELSE queuedStops
           /\ cue \notin calls /\ calls' = calls \cup {cue}
           /\ UNCHANGED <<real, frame, at, until, saved>>
<1>1. Snd!Places(stub, cue) \subseteq Snd!Adapters
  BY PlacesTyped DEF SoundTypes
<1> QED BY <1>1 DEF Snd!PlaySound

(* Types are kept by every step.                                           *)
LEMMA SoundTypesKept ==
  ASSUME Snd!SoundAssumption, SoundTypes, [Snd!Next]_(Snd!vars)
  PROVE  SoundTypes'
<1>0. /\ stub \in Stubs /\ real \in Players /\ queuedStops \in Seq(Stop) /\ frame \in Nat
      /\ \A f \in DOMAIN saved : saved[f] \in Stubs
  BY DEF SoundTypes
<1>t. /\ Snd!Silent \in Stubs /\ Snd!Heard \in Players
      /\ \A p \in Stubs, i \in Snd!Adapters : Snd!Instance(p[i]) \in Stop
  BY SoundsTyped
<1>e. <<>> \in Seq(Stop)
  OBVIOUS
<1>1. ASSUME Snd!Factory PROVE SoundTypes'
  <2>1. saved' = <<Snd!Silent>> /\ \A f \in DOMAIN saved' : saved'[f] = Snd!Silent
    BY <1>1 DEF Snd!Factory
  <2> QED BY <1>1, <2>1, <1>t, <1>e DEF Snd!Factory, SoundTypes
<1>2. ASSUME Snd!destructor PROVE SoundTypes'
  BY <1>2, <1>t, <1>e DEF Snd!destructor, SoundTypes
<1>3. ASSUME NEW cue \in Cues, Snd!PlaySound(cue) PROVE SoundTypes'
  <2>1. PICK i \in Snd!Adapters :
           /\ stub' = [stub EXCEPT ![i] = [live |-> TRUE, cue |-> cue, frame |-> frame]]
           /\ queuedStops' = IF stub[i].live THEN Append(queuedStops, Snd!Instance(stub[i])) ELSE queuedStops
           /\ UNCHANGED <<real, frame, at, until, saved>>
    BY <1>3, PlaySoundIs
  <2> DEFINE sound == [live |-> TRUE, cue |-> cue, frame |-> frame]
  <2>2. sound \in Stub /\ sound.cue \in Cues
    BY <1>0 DEF Stub
  <2>3. stub' = [stub EXCEPT ![i] = sound]
    BY <2>1
  <2> HIDE DEF sound
  <2>4. stub' \in Stubs
    BY <2>2, <2>3, <1>0 DEF Stubs
  <2>5. queuedStops' \in Seq(Stop)
    <3>1. Snd!Instance(stub[i]) \in Stop
      BY <1>0, <1>t
    <3>2. Append(queuedStops, Snd!Instance(stub[i])) \in Seq(Stop)
      BY <3>1, <1>0
    <3> QED BY <2>1, <3>2, <1>0
  <2> QED BY <2>1, <2>4, <2>5, <1>0 DEF SoundTypes
<1>4. ASSUME NEW i \in Snd!Adapters, Snd!StopSound(i) PROVE SoundTypes'
  <2>1. /\ stub' = [stub EXCEPT ![i] = [stub[i] EXCEPT !.live = FALSE]]
        /\ queuedStops' = Append(queuedStops, Snd!Instance(stub[i]))
        /\ UNCHANGED <<real, frame, at, until, saved>>
    BY <1>4 DEF Snd!StopSound
  <2>2. [stub[i] EXCEPT !.live = FALSE] \in Stub /\ ~[stub[i] EXCEPT !.live = FALSE].live
    BY <1>0 DEF Stubs, Stub
  <2>3. stub' \in Stubs
    BY <2>1, <2>2, <1>0 DEF Stubs
  <2>4. queuedStops' \in Seq(Stop)
    BY <2>1, <1>0, <1>t
  <2> QED BY <2>1, <2>3, <2>4, <1>0 DEF SoundTypes
<1>5. ASSUME Snd!StopAll PROVE SoundTypes'
  <2> DEFINE all == [i \in Snd!Adapters |-> Snd!Instance(stub[i])]
  <2>1. /\ stub' = [i \in Snd!Adapters |-> [stub[i] EXCEPT !.live = FALSE]]
        /\ queuedStops' = queuedStops \o all
        /\ UNCHANGED <<real, frame, at, until, saved>>
    BY <1>5 DEF Snd!StopAll
  <2>2. \A i \in Snd!Adapters :
          [stub[i] EXCEPT !.live = FALSE] \in Stub /\ ~[stub[i] EXCEPT !.live = FALSE].live
    BY <1>0 DEF Stubs, Stub
  <2>3. stub' \in Stubs
    BY <2>1, <2>2 DEF Stubs
  <2>4. all \in Seq(Stop)
    BY <1>0, <1>t DEF Snd!Adapters, Snd!SoundAssumption
  <2> HIDE DEF all
  <2>5. queuedStops' \in Seq(Stop)
    BY <2>1, <2>4, <1>0
  <2> QED BY <2>1, <2>3, <2>5, <1>0 DEF SoundTypes
<1>6. ASSUME Snd!Advance PROVE SoundTypes'
  <2> DEFINE D == {g \in DOMAIN saved : g <= frame /\ g >= frame - Prediction} \cup {frame + 1}
  <2>1. /\ saved' = [f \in D |-> IF f = frame + 1 THEN stub ELSE saved[f]]
        /\ frame' = frame + 1 /\ UNCHANGED <<stub, real, queuedStops>>
    BY <1>6 DEF Snd!Advance
  <2>2. \A f \in D : f = frame + 1 \/ f \in DOMAIN saved
    OBVIOUS
  <2> HIDE DEF D
  <2>3. \A f \in DOMAIN saved' : saved'[f] \in Stubs
    BY <2>1, <2>2, <1>0
  <2> QED BY <2>1, <2>3, <1>0 DEF SoundTypes
<1>7. ASSUME Snd!SyncState PROVE SoundTypes'
  <2>1. queuedStops' = <<>> /\ UNCHANGED <<stub, frame, saved>>
    BY <1>7 DEF Snd!SyncState
  <2>2. PICK stale : real' = Snd!Synced(stale)
    BY <1>7, Zenon DEF Snd!SyncState
  <2>3. real' \in Players
    BY <2>2, SyncTyped
  <2> QED BY <2>1, <2>3, <1>0, <1>e DEF SoundTypes
<1>8. ASSUME NEW f \in 1 .. MaxFrame, Snd!Load(f) PROVE SoundTypes'
  <2>1. /\ f \in DOMAIN saved /\ stub' = saved[f] /\ queuedStops' = <<>> /\ frame' = f
        /\ UNCHANGED <<real, saved>>
    BY <1>8 DEF Snd!Load, Snd!QueueAfterLoad
  <2> QED BY <2>1, <1>0, <1>e DEF SoundTypes
<1>9. ASSUME UNCHANGED Snd!vars PROVE SoundTypes'
  BY <1>9 DEF Snd!vars, Snd!world, SoundTypes
<1> QED BY <1>1, <1>2, <1>3, <1>4, <1>5, <1>6, <1>7, <1>8, <1>9 DEF Snd!Next

(* And hold at the start.                                                  *)
LEMMA SoundTypesStart ==
  ASSUME Snd!SoundAssumption, Snd!Init
  PROVE  SoundTypes
BY SoundsTyped DEF Snd!Init, SoundTypes

-----------------------------------------------------------------------------
(* The size of a set, as Sound and as the theorems about sets have it.     *)
LEMMA SameCardinality ==
  ASSUME NEW T
  PROVE  Snd!Cardinality(T) = Cardinality(T)
BY DEF Snd!Cardinality, Cardinality

(* As many players have a sound as the stub's that it was given to.        *)
LEMMA CountsMatch ==
  ASSUME Snd!SoundAssumption, SoundTypes, NEW u, NEW c, NEW f, HeardUpTo(u, c, f, NumAdapters),
         NEW cue, NEW start
  PROVE  Snd!Count(u, cue, start) = Snd!Count(stub, cue, start)
<1> DEFINE S1 == {s \in Snd!Playing(stub) : stub[s].cue = cue /\ stub[s].frame = start}
           T1 == {i \in Snd!Playing(u) : u[i].cue = cue /\ u[i].frame = start}
           b == [s \in S1 |-> f[s]]
<1>0. Served(c, NumAdapters) = Snd!Playing(stub)
  BY DEF Served, Snd!Playing, Snd!Adapters, Snd!SoundAssumption
<1>1. /\ f \in [Snd!Playing(stub) -> Snd!Adapters]
      /\ \A s, t \in Snd!Playing(stub) : f[s] = f[t] => s = t
      /\ \A i \in Snd!Adapters : u[i].live <=> \E s \in Snd!Playing(stub) : f[s] = i
  BY <1>0 DEF HeardUpTo
<1>2. \A s \in Snd!Playing(stub) : u[f[s]] = SoundOf(c, s)
  BY <1>0 DEF HeardUpTo, Snd!Playing, Snd!Adapters, Snd!SoundAssumption
<1>3. \A s \in Snd!Playing(stub) :
        f[s] \in Snd!Playing(u) /\ u[f[s]].cue = stub[s].cue /\ u[f[s]].frame = stub[s].frame
  <2> TAKE s \in Snd!Playing(stub)
  <2>1. f[s] \in Snd!Adapters /\ u[f[s]] = SoundOf(c, s)
    BY <1>1, <1>2
  <2>2. SoundOf(c, s).live /\ SoundOf(c, s).cue = stub[s].cue /\ SoundOf(c, s).frame = stub[s].frame
    BY DEF SoundOf
  <2> QED BY <2>1, <2>2 DEF Snd!Playing
<1>4. \A i \in Snd!Playing(u) : \E s \in Snd!Playing(stub) : f[s] = i
  BY <1>1 DEF Snd!Playing
<1>5. b \in Bijection(S1, T1)
  <2>1. b \in [S1 -> T1]
    BY <1>3
  <2>2. \A s, t \in S1 : b[s] = b[t] => s = t
    BY <1>1
  <2>3. \A i \in T1 : \E s \in S1 : b[s] = i
    BY <1>3, <1>4
  <2> QED BY <2>1, <2>2, <2>3 DEF Bijection, Injection, Surjection, IsInjective
<1>6. IsFiniteSet(S1)
  <2>1. NumAdapters \in Int /\ 1 \in Int
    BY DEF Snd!SoundAssumption
  <2>2. IsFiniteSet(Snd!Adapters) /\ S1 \in SUBSET Snd!Adapters
    BY <2>1, FS_Interval DEF Snd!Adapters, Snd!Playing
  <2> QED BY <2>2, FS_Subset
<1> HIDE DEF S1, T1, b
<1>7. Cardinality(S1) = Cardinality(T1)
  BY <1>5, <1>6, FS_Bijection DEF ExistsBijection
<1>8. Snd!Count(u, cue, start) = Cardinality(T1)
  BY SameCardinality DEF Snd!Count, T1
<1>9. Snd!Count(stub, cue, start) = Cardinality(S1)
  BY SameCardinality DEF Snd!Count, S1
<1> QED BY <1>7, <1>8, <1>9

(* No more players have a request than the stub's.                         *)
LEMMA SoundingBounded ==
  ASSUME Snd!SoundAssumption, NEW u, NEW c, NEW own, OwnedUpTo(u, c, own, NumAdapters), NEW cue
  PROVE  Snd!Sounding(u, cue) <= Snd!Sounding(stub, cue)
<1> DEFINE S1 == {s \in Snd!Playing(stub) : stub[s].cue = cue}
           T1 == {i \in Snd!Playing(u) : u[i].cue = cue}
           g == [i \in T1 |-> own[i]]
<1>1. /\ own \in [Snd!Playing(u) -> Snd!Playing(stub)]
      /\ \A r, q \in Snd!Playing(u) : own[r] = own[q] => r = q
      /\ \A r \in Snd!Playing(u) : u[r].cue = stub[own[r]].cue
  BY DEF OwnedUpTo
<1>2. g \in Injection(T1, S1)
  <2>1. g \in [T1 -> S1]
    BY <1>1
  <2>2. \A r, q \in T1 : g[r] = g[q] => r = q
    BY <1>1
  <2> QED BY <2>1, <2>2 DEF Injection, IsInjective
<1>3. IsFiniteSet(S1)
  <2>1. NumAdapters \in Int /\ 1 \in Int
    BY DEF Snd!SoundAssumption
  <2>2. IsFiniteSet(Snd!Adapters) /\ S1 \in SUBSET Snd!Adapters
    BY <2>1, FS_Interval DEF Snd!Adapters, Snd!Playing
  <2> QED BY <2>2, FS_Subset
<1> HIDE DEF S1, T1, g
<1>4. Cardinality(T1) <= Cardinality(S1)
  BY <1>2, <1>3, FS_Injection
<1>5. Snd!Sounding(u, cue) = Cardinality(T1) /\ Snd!Sounding(stub, cue) = Cardinality(S1)
  BY SameCardinality DEF Snd!Sounding, T1, S1
<1> QED BY <1>4, <1>5

(* Mirrored: after SyncState exactly the sounds of the simulation are      *)
(* heard, each as often, for any number of players and whatever was        *)
(* rolled back, stopped or interrupted since the last one; and when the    *)
(* real manager refuses starts, nothing that the simulation does not play. *)
THEOREM MirroredCorrect ==
  ASSUME Snd!SoundAssumption
  PROVE  Snd!Spec => Snd!Mirrored
<1>1. Snd!Init => SoundTypes
  BY SoundTypesStart
<1>2. SoundTypes /\ [Snd!Next]_(Snd!vars) => SoundTypes'
  BY SoundTypesKept
<1>3. SoundTypes /\ [Snd!Next]_(Snd!vars) =>
        [Snd!SyncState =>
           IF skipped' THEN \A cue \in Cues : Snd!Sounding(real', cue) <= Snd!Sounding(stub, cue)
           ELSE \A cue \in Cues, f \in 1 .. MaxFrame :
                  Snd!Count(real', cue, f) = Snd!Count(stub, cue, f)]_(Snd!vars)
  <2> SUFFICES ASSUME SoundTypes, Snd!SyncState
               PROVE  IF skipped' THEN \A cue \in Cues : Snd!Sounding(real', cue) <= Snd!Sounding(stub, cue)
                      ELSE \A cue \in Cues, f \in 1 .. MaxFrame :
                             Snd!Count(real', cue, f) = Snd!Count(stub, cue, f)
    BY Zenon
  <2>1. PICK stale : real' = Snd!Synced(stale) /\ skipped' = Snd!Skips(stale)
    BY Zenon DEF Snd!SyncState
  <2> DEFINE c == Snd!PairLiveSounds(Snd!Stopped)
  <2>2. /\ \E own : OwnedUpTo(Snd!Synced(stale), c, own, NumAdapters)
        /\ ~Snd!Skips(stale) => \E g : HeardUpTo(Snd!Synced(stale), c, g, NumAdapters)
    BY SyncMirrors
  <2> HIDE DEF c
  <2>3. \A cue \in Cues : Snd!Sounding(real', cue) <= Snd!Sounding(stub, cue)
    BY <2>1, <2>2, SoundingBounded
  <2>4. ~skipped' => \A cue \in Cues, f \in 1 .. MaxFrame :
                       Snd!Count(real', cue, f) = Snd!Count(stub, cue, f)
    BY <2>1, <2>2, CountsMatch
  <2> QED BY <2>3, <2>4
<1> QED BY <1>1, <1>2, <1>3, PTL DEF Snd!Spec, Snd!Mirrored

-----------------------------------------------------------------------------
(* A request and its frame name one sound: no two players have one, what   *)
(* is under way was asked for before or in this frame, what a save state   *)
(* has in an earlier one, and no sound that plays is queued as a stop.     *)
Apart(p) == \A i, j \in Snd!Adapters :
  p[i].cue # Snd!NoCue /\ p[i].cue = p[j].cue /\ p[i].frame = p[j].frame => i = j
Before(p, f) == \A i \in Snd!Adapters : p[i].cue # Snd!NoCue => p[i].frame < f
AskedFor(x) == x.cue # Snd!NoCue => x.frame < frame \/ (x.frame = frame /\ x.cue \in calls)
Queued(x) == \E l \in 1 .. Len(queuedStops) : queuedStops[l] = x

Instances ==
  /\ Apart(stub) /\ \A i \in Snd!Adapters : AskedFor(stub[i])
  /\ \A i \in Snd!Adapters : stub[i].live => ~Queued(Snd!Instance(stub[i]))
  /\ \A x \in Stop : Queued(x) => AskedFor(x)
  /\ \A f \in DOMAIN saved : Apart(saved[f]) /\ Before(saved[f], f)

(* What is queued once the queue is empty, has one more or has all.        *)
LEMMA NothingQueued ==
  ASSUME queuedStops' = <<>>
  PROVE  \A x : ~Queued(x)'
BY DEF Queued

(* One stop more.                                                          *)
LEMMA QueuedNow ==
  ASSUME queuedStops \in Seq(Stop), NEW y \in Stop, queuedStops' = Append(queuedStops, y)
  PROVE  \A x : Queued(x)' => Queued(x) \/ x = y
<1>1. Len(queuedStops) \in Nat /\ Len(queuedStops') = Len(queuedStops) + 1
  OBVIOUS
<1>2. \A l \in 1 .. Len(queuedStops) : queuedStops'[l] = queuedStops[l]
  OBVIOUS
<1>3. queuedStops'[Len(queuedStops) + 1] = y
  OBVIOUS
<1>4. \A l \in 1 .. Len(queuedStops) + 1 : l \in 1 .. Len(queuedStops) \/ l = Len(queuedStops) + 1
  BY <1>1
<1> QED BY <1>1, <1>2, <1>3, <1>4 DEF Queued

(* A stop for every player more.                                           *)
LEMMA AllQueuedNow ==
  ASSUME queuedStops \in Seq(Stop), NEW all \in Seq(Stop), queuedStops' = queuedStops \o all
  PROVE  \A x : Queued(x)' => Queued(x) \/ \E l \in 1 .. Len(all) : x = all[l]
<1>1. Len(queuedStops) \in Nat /\ Len(all) \in Nat
      /\ Len(queuedStops') = Len(queuedStops) + Len(all)
  OBVIOUS
<1>2. \A l \in 1 .. Len(queuedStops) + Len(all) :
        queuedStops'[l] = IF l <= Len(queuedStops) THEN queuedStops[l] ELSE all[l - Len(queuedStops)]
  BY <1>1
<1> SUFFICES ASSUME NEW x, NEW l \in 1 .. Len(queuedStops) + Len(all), queuedStops'[l] = x
             PROVE  Queued(x) \/ \E m \in 1 .. Len(all) : x = all[m]
  BY <1>1 DEF Queued
<1>3. CASE l <= Len(queuedStops)
  <2>1. l \in 1 .. Len(queuedStops) /\ queuedStops[l] = x
    BY <1>1, <1>2, <1>3
  <2> QED BY <2>1 DEF Queued
<1>4. CASE ~(l <= Len(queuedStops))
  <2>1. l - Len(queuedStops) \in 1 .. Len(all) /\ all[l - Len(queuedStops)] = x
    BY <1>1, <1>2, <1>4
  <2> QED BY <2>1
<1> QED BY <1>3, <1>4

(* Players without a sound have none in common.                            *)
LEMMA SilentApart ==
  /\ \A i \in Snd!Adapters : Snd!Silent[i].cue = Snd!NoCue /\ ~Snd!Silent[i].live
  /\ Apart(Snd!Silent) /\ \A f : Before(Snd!Silent, f)
BY DEF Snd!Silent, Apart, Before

(* An instance is a request and its frame.                                 *)
LEMMA InstanceIs ==
  ASSUME NEW x, NEW y, Snd!Instance(x) = Snd!Instance(y)
  PROVE  x.cue = y.cue /\ x.frame = y.frame
BY DEF Snd!Instance

(* There are no sounds at the start.                                       *)
LEMMA InstancesStart ==
  ASSUME Snd!Init
  PROVE  Instances
<1>1. stub = Snd!Silent /\ queuedStops = <<>> /\ saved = <<>>
  BY DEF Snd!Init
<1>2. DOMAIN saved = {} /\ \A x : ~Queued(x)
  BY <1>1 DEF Queued
<1> QED BY <1>1, <1>2, SilentApart DEF Instances, AskedFor

(* A new sound is none that there was.                                     *)
LEMMA PlaySoundKeeps ==
  ASSUME Snd!SoundAssumption, SoundTypes, Instances, NEW cue \in Cues, Snd!PlaySound(cue)
  PROVE  Instances'
<1>1. PICK i \in Snd!Adapters :
         /\ stub' = [stub EXCEPT ![i] = [live |-> TRUE, cue |-> cue, frame |-> frame]]
         /\ queuedStops' = IF stub[i].live THEN Append(queuedStops, Snd!Instance(stub[i])) ELSE queuedStops
         /\ cue \notin calls /\ calls' = calls \cup {cue}
         /\ UNCHANGED <<real, frame, at, until, saved>>
  BY PlaySoundIs
<1>0. stub \in Stubs /\ queuedStops \in Seq(Stop) /\ frame \in Nat /\ DOMAIN stub = Snd!Adapters
  BY DEF SoundTypes, Stubs
<1>2. stub'[i].live /\ stub'[i].cue = cue /\ stub'[i].frame = frame
  BY <1>0, <1>1
<1>3. \A j \in Snd!Adapters : j # i => stub'[j] = stub[j]
  BY <1>0, <1>1
<1>4. cue # Snd!NoCue
  BY SoundsTyped
<1>5. \A j \in Snd!Adapters : AskedFor(stub[j])
  BY DEF Instances
<1>6. \A j \in Snd!Adapters : ~(stub[j].cue = cue /\ stub[j].frame = frame)
  BY <1>0, <1>1, <1>4, <1>5 DEF AskedFor
<1>7. Apart(stub')
  BY <1>2, <1>3, <1>6 DEF Apart, Instances
<1>8. \A x : AskedFor(x) => AskedFor(x)'
  BY <1>1 DEF AskedFor
<1>9. \A j \in Snd!Adapters : AskedFor(stub[j])'
  <2>1. AskedFor(stub[i])'
    BY <1>1, <1>2 DEF AskedFor
  <2>2. ASSUME NEW j \in Snd!Adapters, j # i PROVE AskedFor(stub[j])'
    BY <2>2, <1>1, <1>3, <1>5 DEF AskedFor
  <2> QED BY <2>1, <2>2
<1>10. Snd!Instance(stub[i]) \in Stop
  BY <1>0, SoundsTyped
<1>11. \A x : Queued(x)' => Queued(x) \/ (stub[i].live /\ x = Snd!Instance(stub[i]))
  <2>1. CASE stub[i].live
    BY <2>1, <1>0, <1>1, <1>10, QueuedNow
  <2>2. CASE ~stub[i].live
    BY <2>2, <1>1 DEF Queued
  <2> QED BY <2>1, <2>2
<1>12. AskedFor(Snd!Instance(stub[i]))
  BY <1>5 DEF AskedFor, Snd!Instance
<1>13. \A x \in Stop : Queued(x)' => AskedFor(x)'
  BY <1>8, <1>11, <1>12 DEF Instances
<1>14. ASSUME NEW j \in Snd!Adapters, stub'[j].live PROVE ~Queued(Snd!Instance(stub[j]))'
  <2>1. CASE j = i
    <3>1. ~Queued(Snd!Instance(stub'[i]))
      <4>1. Snd!Instance(stub'[i]) \in Stop
        BY <1>0, <1>2 DEF Snd!Instance, Stop
      <4>2. ~AskedFor(Snd!Instance(stub'[i]))
        BY <1>0, <1>1, <1>2, <1>4 DEF AskedFor, Snd!Instance
      <4> QED BY <4>1, <4>2 DEF Instances
    <3>2. Snd!Instance(stub'[i]) # Snd!Instance(stub[i])
      BY <1>2, <1>6, InstanceIs
    <3> QED BY <2>1, <3>1, <3>2, <1>11
  <2>2. CASE j # i
    <3>1. stub'[j] = stub[j] /\ stub[j].live /\ ~Queued(Snd!Instance(stub[j]))
      BY <2>2, <1>3, <1>14 DEF Instances
    <3>2. stub[i].live => Snd!Instance(stub[j]) # Snd!Instance(stub[i])
      <4>1. stub[j].cue # Snd!NoCue
        BY <3>1, <1>0, SoundsTyped DEF Stubs
      <4> QED BY <4>1, <2>2, InstanceIs DEF Instances, Apart
    <3> QED BY <3>1, <3>2, <1>11
  <2> QED BY <2>1, <2>2
<1>15. \A f \in DOMAIN saved' : Apart(saved'[f]) /\ Before(saved'[f], f)
  BY <1>1 DEF Instances
<1> QED BY <1>7, <1>9, <1>13, <1>14, <1>15 DEF Instances, Apart

(* Sounds that are only silenced, and stopped as they were, stay apart.    *)
LEMMA SilencedKeeps ==
  ASSUME Snd!SoundAssumption, SoundTypes, Instances, stub' \in [Snd!Adapters -> Stub],
         \A j \in Snd!Adapters : stub'[j].cue = stub[j].cue /\ stub'[j].frame = stub[j].frame,
         \A j \in Snd!Adapters : stub'[j].live => stub[j].live,
         \A x : Queued(x)' => Queued(x) \/ \E i \in Snd!Adapters :
                                             ~stub'[i].live /\ x = Snd!Instance(stub[i]),
         UNCHANGED <<frame, saved>>, calls \subseteq calls'
  PROVE  Instances'
<1>1. \A j \in Snd!Adapters : Snd!Instance(stub'[j]) = Snd!Instance(stub[j])
  BY DEF Snd!Instance
<1>2. \A x : AskedFor(x) => AskedFor(x)'
  BY DEF AskedFor
<1>3. \A j \in Snd!Adapters : AskedFor(stub[j])
  BY DEF Instances
<1>4. Apart(stub')
  BY DEF Instances, Apart
<1>5. \A j \in Snd!Adapters : AskedFor(stub[j])'
  BY <1>2, <1>3 DEF AskedFor
<1>6. \A x \in Stop : Queued(x)' => AskedFor(x)'
  <2> SUFFICES ASSUME NEW x \in Stop, Queued(x)' PROVE AskedFor(x)'
    OBVIOUS
  <2>1. CASE Queued(x)
    BY <2>1, <1>2 DEF Instances
  <2>2. ASSUME NEW i \in Snd!Adapters, x = Snd!Instance(stub[i]) PROVE AskedFor(x)'
    <3>1. AskedFor(x)
      BY <2>2, <1>3 DEF AskedFor, Snd!Instance
    <3> QED BY <3>1, <1>2
  <2> QED BY <2>1, <2>2
<1>7. ASSUME NEW j \in Snd!Adapters, stub'[j].live PROVE ~Queued(Snd!Instance(stub[j]))'
  <2>1. stub[j].live /\ ~Queued(Snd!Instance(stub[j]))
    BY <1>7 DEF Instances
  <2>2. stub[j].cue # Snd!NoCue
    BY <2>1, SoundsTyped DEF SoundTypes, Stubs
  <2>3. ASSUME NEW i \in Snd!Adapters, ~stub'[i].live PROVE Snd!Instance(stub[j]) # Snd!Instance(stub[i])
    BY <2>2, <2>3, <1>7, InstanceIs DEF Instances, Apart
  <2> QED BY <2>1, <2>3, <1>1
<1> QED BY <1>4, <1>5, <1>6, <1>7 DEF Instances, Apart, Before

(* Every step keeps sounds apart from each other and from the queued       *)
(* stops.                                                                  *)
LEMMA InstancesKept ==
  ASSUME Snd!SoundAssumption, SoundTypes, Instances, [Snd!Next]_(Snd!vars)
  PROVE  Instances'
<1>0. /\ stub \in Stubs /\ queuedStops \in Seq(Stop) /\ frame \in Nat
      /\ DOMAIN stub = Snd!Adapters /\ \A i \in Snd!Adapters : stub[i] \in Stub
  BY DEF SoundTypes, Stubs
<1>t. \A i \in Snd!Adapters : Snd!Instance(stub[i]) \in Stop
  BY <1>0, SoundsTyped
<1>1. ASSUME Snd!Factory PROVE Instances'
  <2>1. /\ stub' = Snd!Silent /\ queuedStops' = <<>> /\ saved' = <<Snd!Silent>>
        /\ \A f \in DOMAIN saved' : saved'[f] = Snd!Silent
    BY <1>1 DEF Snd!Factory
  <2>2. \A x : ~Queued(x)'
    BY <2>1, NothingQueued
  <2> QED BY <2>1, <2>2, SilentApart DEF Instances, AskedFor, Apart, Before
<1>2. ASSUME Snd!destructor PROVE Instances'
  <2>1. stub' = Snd!Silent /\ queuedStops' = <<>> /\ DOMAIN saved' = {}
    BY <1>2 DEF Snd!destructor
  <2>2. \A x : ~Queued(x)'
    BY <2>1, NothingQueued
  <2> QED BY <2>1, <2>2, SilentApart DEF Instances, AskedFor, Apart
<1>3. ASSUME NEW cue \in Cues, Snd!PlaySound(cue) PROVE Instances'
  BY <1>3, PlaySoundKeeps
<1>4. ASSUME NEW i \in Snd!Adapters, Snd!StopSound(i) PROVE Instances'
  <2>1. /\ stub' = [stub EXCEPT ![i] = [stub[i] EXCEPT !.live = FALSE]]
        /\ queuedStops' = Append(queuedStops, Snd!Instance(stub[i]))
        /\ calls' = calls \cup {Snd!NoCue} /\ UNCHANGED <<frame, saved>>
    BY <1>4 DEF Snd!StopSound
  <2>2. /\ [stub[i] EXCEPT !.live = FALSE] \in Stub
        /\ [stub[i] EXCEPT !.live = FALSE].live = FALSE
        /\ [stub[i] EXCEPT !.live = FALSE].cue = stub[i].cue
        /\ [stub[i] EXCEPT !.live = FALSE].frame = stub[i].frame
    BY <1>0 DEF Stub
  <2>3. stub' \in [Snd!Adapters -> Stub]
    BY <2>1, <2>2, <1>0
  <2>4. \A j \in Snd!Adapters : stub'[j].cue = stub[j].cue /\ stub'[j].frame = stub[j].frame
    BY <2>1, <2>2, <1>0
  <2>5. (\A j \in Snd!Adapters : stub'[j].live => stub[j].live) /\ ~stub'[i].live
    BY <2>1, <2>2, <1>0
  <2>6. \A x : Queued(x)' => Queued(x) \/ x = Snd!Instance(stub[i])
    BY <2>1, <1>0, <1>t, QueuedNow
  <2>7. \A x : Queued(x)' => Queued(x) \/ \E j \in Snd!Adapters :
                                            ~stub'[j].live /\ x = Snd!Instance(stub[j])
    BY <2>5, <2>6
  <2>8. calls \subseteq calls'
    BY <2>1
  <2> QED BY <2>1, <2>3, <2>4, <2>5, <2>7, <2>8, SilencedKeeps
<1>5. ASSUME Snd!StopAll PROVE Instances'
  <2> DEFINE all == [i \in Snd!Adapters |-> Snd!Instance(stub[i])]
  <2>1. /\ stub' = [i \in Snd!Adapters |-> [stub[i] EXCEPT !.live = FALSE]]
        /\ queuedStops' = queuedStops \o all
        /\ calls' = calls \cup {Snd!NoCue} /\ UNCHANGED <<frame, saved>>
    BY <1>5 DEF Snd!StopAll
  <2>2. \A i \in Snd!Adapters :
          /\ [stub[i] EXCEPT !.live = FALSE] \in Stub
          /\ [stub[i] EXCEPT !.live = FALSE].live = FALSE
          /\ [stub[i] EXCEPT !.live = FALSE].cue = stub[i].cue
          /\ [stub[i] EXCEPT !.live = FALSE].frame = stub[i].frame
    BY <1>0 DEF Stub
  <2>3. stub' \in [Snd!Adapters -> Stub]
    BY <2>1, <2>2
  <2>4. \A j \in Snd!Adapters : stub'[j].cue = stub[j].cue /\ stub'[j].frame = stub[j].frame
    BY <2>1, <2>2
  <2>5. \A j \in Snd!Adapters : ~stub'[j].live
    BY <2>1, <2>2
  <2>6. all \in Seq(Stop) /\ Snd!Adapters = 1 .. Len(all)
    BY <1>t DEF Snd!Adapters, Snd!SoundAssumption
  <2>7. \A i \in Snd!Adapters : all[i] = Snd!Instance(stub[i])
    OBVIOUS
  <2> HIDE DEF all
  <2>8. \A x : Queued(x)' => Queued(x) \/ \E l \in 1 .. Len(all) : x = all[l]
    BY <2>1, <2>6, <1>0, AllQueuedNow
  <2>9. \A x : Queued(x)' => Queued(x) \/ \E j \in Snd!Adapters :
                                            ~stub'[j].live /\ x = Snd!Instance(stub[j])
    BY <2>5, <2>6, <2>7, <2>8
  <2>10. calls \subseteq calls'
    BY <2>1
  <2> QED BY <2>1, <2>3, <2>4, <2>5, <2>9, <2>10, SilencedKeeps
<1>6. ASSUME Snd!Advance PROVE Instances'
  <2> DEFINE D == {g \in DOMAIN saved : g <= frame /\ g >= frame - Prediction} \cup {frame + 1}
  <2>1. /\ saved' = [f \in D |-> IF f = frame + 1 THEN stub ELSE saved[f]]
        /\ frame' = frame + 1 /\ UNCHANGED <<stub, real, queuedStops>>
    BY <1>6 DEF Snd!Advance
  <2>2. \A f \in D : f = frame + 1 \/ f \in DOMAIN saved
    OBVIOUS
  <2> HIDE DEF D
  <2>3. \A x : Queued(x)' <=> Queued(x)
    BY <2>1 DEF Queued
  <2>4. \A x : x.frame \in Nat /\ AskedFor(x) => AskedFor(x)' /\ (x.cue # Snd!NoCue => x.frame < frame + 1)
    BY <2>1, <1>0 DEF AskedFor
  <2>5. \A i \in Snd!Adapters : AskedFor(stub[i]) /\ stub[i].frame \in Nat
    BY <1>0 DEF Instances, Stub
  <2>6. Before(stub, frame + 1) /\ \A i \in Snd!Adapters : AskedFor(stub[i])'
    BY <2>1, <2>4, <2>5 DEF Before, AskedFor
  <2>7. \A x \in Stop : Queued(x)' => AskedFor(x)'
    BY <2>3, <2>4 DEF Stop, Instances
  <2>8. ASSUME NEW f \in DOMAIN saved' PROVE Apart(saved'[f]) /\ Before(saved'[f], f)
    <3>1. CASE f = frame + 1
      BY <3>1, <2>1, <2>6 DEF Instances
    <3>2. CASE f # frame + 1
      BY <3>2, <2>1, <2>2 DEF Instances
    <3> QED BY <3>1, <3>2
  <2>9. Apart(stub') /\ \A i \in Snd!Adapters : stub'[i].live => ~Queued(Snd!Instance(stub[i]))'
    BY <2>1, <2>3 DEF Instances
  <2> QED BY <2>6, <2>7, <2>8, <2>9 DEF Instances, Apart, Before
<1>7. ASSUME Snd!SyncState PROVE Instances'
  <2>1. queuedStops' = <<>> /\ UNCHANGED <<stub, frame, calls, saved>>
    BY <1>7 DEF Snd!SyncState
  <2>2. \A x : ~Queued(x)'
    BY <2>1, NothingQueued
  <2> QED BY <2>1, <2>2 DEF Instances, AskedFor, Apart, Before
<1>8. ASSUME NEW f \in 1 .. MaxFrame, Snd!Load(f) PROVE Instances'
  <2>1. /\ f \in DOMAIN saved /\ stub' = saved[f] /\ queuedStops' = <<>> /\ frame' = f
        /\ UNCHANGED <<real, saved>>
    BY <1>8 DEF Snd!Load, Snd!QueueAfterLoad
  <2>2. \A x : ~Queued(x)'
    BY <2>1, NothingQueued
  <2>3. Apart(saved[f]) /\ Before(saved[f], f)
    BY <2>1 DEF Instances
  <2>4. Apart(stub') /\ \A i \in Snd!Adapters : AskedFor(stub[i])'
    BY <2>1, <2>3 DEF Before, AskedFor
  <2> QED BY <2>1, <2>2, <2>4 DEF Instances, Apart, Before
<1>9. ASSUME UNCHANGED Snd!vars PROVE Instances'
  BY <1>9 DEF Snd!vars, Snd!world, Instances, AskedFor, Queued, Apart, Before
<1> QED BY <1>1, <1>2, <1>3, <1>4, <1>5, <1>6, <1>7, <1>8, <1>9 DEF Snd!Next

-----------------------------------------------------------------------------
(* The sounds that last and those that SyncState leaves alone.             *)
Lasting(cue) ==
  {i \in Snd!Playing(stub) : stub[i].cue = cue /\ Snd!Count(real, cue, stub[i].frame) > 0}
Uncut(players, cue) ==
  {i \in Snd!Playing(real) : players[i].live /\ ~players[i].fresh /\ players[i].cue = cue
                               /\ real[i].cue = cue}

(* A sound that lasts is on some real player.                              *)
LEMMA HeardSomewhere ==
  ASSUME NEW cue, NEW i \in Lasting(cue)
  PROVE  \E j \in Snd!Playing(real) : real[j].cue = cue /\ real[j].frame = stub[i].frame
<1> DEFINE H == {j \in Snd!Playing(real) : real[j].cue = cue /\ real[j].frame = stub[i].frame}
<1>1. Snd!Count(real, cue, stub[i].frame) = Cardinality(H)
  BY SameCardinality DEF Snd!Count
<1>2. Cardinality(H) > 0
  BY <1>1 DEF Lasting
<1>3. Cardinality({}) = 0
  BY FS_EmptySet
<1>4. H # {}
  BY <1>2, <1>3
<1> QED BY <1>4

(* Those that last are left alone, or others of their request for them:    *)
(* either each has its claim, or one that has none found every player of   *)
(* the request claimed.                                                    *)
LEMMA LastingGoesOn ==
  ASSUME Snd!SoundAssumption, SoundTypes, Instances, NEW cue \in Cues, NEW stale, ~Snd!Skips(stale)
  PROVE  Cardinality(Uncut(Snd!Synced(stale), cue)) >= Cardinality(Lasting(cue))
<1> DEFINE p == Snd!Stopped
           c == Snd!PairLiveSounds(p)
           u == Snd!Synced(stale)
           n == NumAdapters
           X == Lasting(cue)
           Y == Uncut(u, cue)
<1>0. n \in Nat /\ Snd!Adapters = 1 .. n
  BY DEF Snd!SoundAssumption, Snd!Adapters
<1>1. real \in Players /\ queuedStops \in Seq(Stop) /\ stub \in Stubs
  BY DEF SoundTypes
<1>2. StoppedBy(real, p, queuedStops, Len(queuedStops))
  BY <1>1, QueueStops DEF Snd!Stopped
<1>3. PairedUpTo(c, p, n)
  BY SoundsPaired
<1>4. PICK f : HeardUpTo(u, c, f, n)
  BY SyncMirrors
<1> HIDE DEF p, c, u
<1>5. \A i \in Snd!Playing(p) : i \in Snd!Playing(real) /\ p[i] = real[i]
  BY <1>2 DEF StoppedBy, Snd!Playing, Snd!NotHeard
<1>6. ASSUME NEW s \in Snd!Playing(stub), stub[s].cue = cue, c[s] # 0 PROVE c[s] \in Y
  <2>1. c[s] \in Snd!Playing(p) /\ p[c[s]].cue = cue
    BY <1>3, <1>6 DEF PairedUpTo, Snd!Playing
  <2>2. c[s] \in Snd!Playing(real) /\ real[c[s]].cue = cue
    BY <2>1, <1>5
  <2>3. s \in Served(c, n) /\ s <= n
    BY <1>0 DEF Served, Snd!Playing
  <2>4. u[c[s]] = SoundOf(c, s)
    BY <2>3, <1>4, <1>6 DEF HeardUpTo
  <2>5. SoundOf(c, s).live /\ ~SoundOf(c, s).fresh /\ SoundOf(c, s).cue = cue
    BY <1>6 DEF SoundOf
  <2> QED BY <2>2, <2>4, <2>5 DEF Uncut
<1>7. ASSUME NEW i \in X
      PROVE  \E j \in Snd!Playing(p) : p[j].cue = cue /\ p[j].frame = stub[i].frame
  <2>1. PICK j \in Snd!Playing(real) : real[j].cue = cue /\ real[j].frame = stub[i].frame
    BY HeardSomewhere
  <2>2. i \in Snd!Adapters /\ stub[i].live /\ stub[i].cue = cue
    BY DEF Lasting, Snd!Playing
  <2>3. Snd!Instance(real[j]) = Snd!Instance(stub[i])
    BY <2>1, <2>2 DEF Snd!Instance
  <2>4. ~Queued(Snd!Instance(real[j]))
    BY <2>2, <2>3 DEF Instances
  <2>5. p[j] = real[j]
    BY <2>1, <2>4, <1>2 DEF StoppedBy, Queued, Snd!Playing
  <2> QED BY <2>1, <2>5 DEF Snd!Playing
<1>8. X \subseteq Snd!Playing(stub) /\ (\A i \in X : stub[i].cue = cue) /\ X \subseteq Snd!Adapters
  BY DEF Lasting, Snd!Playing
<1>9. cue # Snd!NoCue
  BY SoundsTyped
<1>10. IsFiniteSet(Y)
  <2>1. IsFiniteSet(Snd!Adapters)
    BY <1>0, FS_Interval
  <2>2. Y \in SUBSET Snd!Adapters
    BY DEF Uncut, Snd!Playing
  <2> QED BY <2>1, <2>2, FS_Subset
<1> HIDE DEF X, Y
<1>11. \E g : g \in Injection(X, Y)
  <2>1. CASE \A s \in X : c[s] # 0
    <3> DEFINE g == [s \in X |-> c[s]]
    <3>1. g \in [X -> Y]
      BY <2>1, <1>6, <1>8
    <3>2. \A s, t \in X : g[s] = g[t] => s = t
      BY <2>1, <1>3, <1>8 DEF PairedUpTo
    <3>3. g \in Injection(X, Y)
      BY <3>1, <3>2 DEF Injection, IsInjective
    <3> QED BY <3>3
  <2>2. CASE \E s \in X : c[s] = 0
    <3>1. PICK s \in X : c[s] = 0
      BY <2>2
    <3>2. stub[s].live /\ s <= n /\ s \in Snd!Adapters
      BY <1>0, <1>8 DEF Snd!Playing
    <3>3. ASSUME NEW r \in Snd!Playing(p), p[r].cue = cue PROVE r \in Y
      <4>1. PICK t \in Snd!Adapters : c[t] = r
        BY <3>1, <3>2, <3>3, <1>3, <1>8 DEF PairedUpTo
      <4>2. r # 0
        BY <1>0 DEF Snd!Playing
      <4>3. t \in Snd!Playing(stub) /\ stub[t].cue = cue
        BY <4>1, <4>2, <3>3, <1>3 DEF PairedUpTo, Snd!Playing
      <4> QED BY <4>1, <4>2, <4>3, <1>6
    <3> DEFINE g == [i \in X |-> CHOOSE j \in Snd!Playing(p) :
                                     p[j].cue = cue /\ p[j].frame = stub[i].frame]
    <3>4. \A i \in X : g[i] \in Snd!Playing(p) /\ p[g[i]].cue = cue /\ p[g[i]].frame = stub[i].frame
      BY <1>7
    <3>5. g \in [X -> Y]
      BY <3>3, <3>4
    <3>6. \A i, k \in X : g[i] = g[k] => i = k
      <4> SUFFICES ASSUME NEW i \in X, NEW k \in X, g[i] = g[k] PROVE i = k
        OBVIOUS
      <4> HIDE DEF g
      <4>1. stub[i].frame = stub[k].frame
        BY <3>4
      <4> QED BY <4>1, <1>8, <1>9 DEF Instances, Apart
    <3>7. g \in Injection(X, Y)
      BY <3>5, <3>6 DEF Injection, IsInjective
    <3> QED BY <3>7
  <2> QED BY <2>1, <2>2
<1>12. IsFiniteSet(X) /\ Cardinality(X) <= Cardinality(Y)
  BY <1>10, <1>11, FS_Injection
<1>13. Cardinality(X) \in Nat /\ Cardinality(Y) \in Nat
  BY <1>10, <1>12, FS_CardinalityType
<1> QED BY <1>12, <1>13 DEF X, Y, u

(* PlaysOn: SyncState does not cut a sound that is heard and still plays   *)
(* in the simulation to start it again, for any number of players, however *)
(* often the frames since were rolled back and simulated otherwise, as     *)
(* long as the real manager refuses no start.                              *)
THEOREM PlaysOnCorrect ==
  ASSUME Snd!SoundAssumption
  PROVE  Snd!Spec => Snd!PlaysOn
<1>1. Snd!Init => SoundTypes /\ Instances
  BY SoundTypesStart, InstancesStart
<1>2. SoundTypes /\ Instances /\ [Snd!Next]_(Snd!vars) => (SoundTypes /\ Instances)'
  BY SoundTypesKept, InstancesKept
<1>3. SoundTypes /\ Instances /\ [Snd!Next]_(Snd!vars) =>
        [Snd!SyncState /\ ~skipped' => \A cue \in Cues :
           LET lasting == {i \in Snd!Playing(stub) : stub[i].cue = cue /\ Snd!Count(real, cue, stub[i].frame) > 0}
               uncut == {i \in Snd!Playing(real) : real'[i].live /\ ~real'[i].fresh /\ real'[i].cue = cue
                                                     /\ real[i].cue = cue}
           IN  Snd!Cardinality(uncut) >= Snd!Cardinality(lasting)]_(Snd!vars)
  <2> SUFFICES ASSUME SoundTypes, Instances, Snd!SyncState, ~skipped', NEW cue \in Cues
               PROVE  Snd!Cardinality(Uncut(real', cue)) >= Snd!Cardinality(Lasting(cue))
    BY Zenon DEF Uncut, Lasting
  <2>1. PICK stale : real' = Snd!Synced(stale) /\ skipped' = Snd!Skips(stale)
    BY Zenon DEF Snd!SyncState
  <2>2. Cardinality(Uncut(Snd!Synced(stale), cue)) >= Cardinality(Lasting(cue))
    BY <2>1, LastingGoesOn
  <2> QED BY <2>1, <2>2, SameCardinality
<1> QED BY <1>1, <1>2, <1>3, PTL DEF Snd!Spec, Snd!PlaysOn
=============================================================================
