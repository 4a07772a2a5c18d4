------------------------------- MODULE Pacing -------------------------------
(***************************************************************************)
(* Keeping the clocks of two machines level.  Once a tick the game samples *)
(* how far it runs ahead of the other machine, keeps the time it should    *)
(* lose or gain as a debt, and asks the frame limiter to lengthen or       *)
(* shorten the next frame by a part of it.  What the limiter really        *)
(* changed is paid off the debt a tick later.  The limiter may run on      *)
(* another thread than the tick; only the shift is under a lock, the frame *)
(* period is not.                                                          *)
(*                                                                         *)
(* Times are whole numbers.  The running average of the samples is left    *)
(* out: `drift` is what a sample adds to the debt.                         *)
(***************************************************************************)
EXTENDS Integers

CONSTANTS
  MaxStep,       \* most one frame may change: 3 ms in the code
  MinShift,      \* below this a frame is left alone: 1 ms
  HoldTicks,     \* samples ignored after a prediction stall: 45
  Margin,        \* kept free before the deadline of a shortened frame: 0.25 ms
  Periods,       \* frame periods the game's settings offer; 0 where it does not limit
  Loads,         \* how long the game may take before it comes to the limiter
  Drifts,        \* what a sample may add to the debt
  MaxSessions

ASSUME PacingAssumption ==
  /\ MinShift \in Nat \ {0} /\ MaxStep \in Nat /\ MinShift <= MaxStep
  /\ HoldTicks \in Nat /\ Margin \in Nat /\ MaxSessions \in Nat
  /\ Periods \subseteq Nat /\ Loads \subseteq Nat /\ Drifts \subseteq Int
  /\ \E p \in Periods : p > 0
  /\ 0 \in Drifts
  /\ \A p, q \in Periods : p < q => q - p > MaxStep

VARIABLES
  pacer,       \* the Controller: the debt outstandingMs, and holdRemaining
  session,     \* a session is open, it is paced, the last frame stalled
  shift,       \* s_shift, under its lock
  limiter,     \* where LimitFrame is, and its locals
  period,      \* the limiter's frame period
  setting,     \* what the settings last made it
  crossed,     \* that change fell between a read of the period and its write; for the properties
  drift, load, \* what the next sample adds, what the game takes of a frame
  twoThreads,  \* whether the limiter runs beside the tick
  asked        \* whether this session has asked for a shift; for the properties

tickVars == <<pacer, session, asked>>
worldVars == <<drift, load, twoThreads>>
periodVars == <<period, setting, crossed>>
vars == <<tickVars, shift, limiter, periodVars, worldVars>>

Abs(v) == IF v < 0 THEN -v ELSE v
Clamp(v, limit) == IF v > limit THEN limit ELSE IF v < -limit THEN -limit ELSE v

-----------------------------------------------------------------------------
(* Controller.                                                             *)

Rested == [outstanding |-> 0, hold |-> 0]

OnPredictionStall(p) == [outstanding |-> 0, hold |-> HoldTicks]

OnRiftSample(p, excess) ==
  IF p.hold > 0 THEN [p EXCEPT !.hold = @ - 1]
  ELSE [p EXCEPT !.outstanding = IF excess = 0 THEN @ ELSE Clamp(@ + excess, 2 * MaxStep)]

WholeStepsOnly(p) ==   \* broken: what is left of the debt stays
  IF Abs(p.outstanding) < MaxStep THEN 0 ELSE Clamp(p.outstanding, MaxStep)
NextShift(p) == IF Abs(p.outstanding) < MinShift THEN 0 ELSE Clamp(p.outstanding, MaxStep)

OnShiftApplied(p, applied) == [p EXCEPT !.outstanding = @ - applied]

(* Lengthening is free; shortening is bounded by the time still left.      *)
ShiftedPeriod(base, elapsed, request) ==
  LET slack == IF base - elapsed - Margin < 0 THEN 0 ELSE base - elapsed - Margin
  IN  IF request >= 0 THEN base + request
      ELSE base - (IF -request < slack THEN -request ELSE slack)

(* What a shifted frame really changed, from its measured length.          *)
AppliedUncut(base, frame, request) == frame - base   \* broken: lateness counts as a shift
AppliedShift(base, frame, request) ==
  LET applied == IF request >= 0 THEN frame - base ELSE base - frame
      part == IF applied < 0 THEN 0 ELSE IF applied > Abs(request) THEN Abs(request) ELSE applied
  IN  IF request >= 0 THEN part ELSE -part

-----------------------------------------------------------------------------
NoShift == [request |-> 0, applied |-> 0, generation |-> 0, limiterRan |-> FALSE]
Outside == [at |-> "out", request |-> 0, generation |-> 0, saved |-> 0, shifted |-> 0]

Init ==
  /\ pacer = Rested /\ asked = FALSE
  /\ session = [open |-> FALSE, paced |-> FALSE, stalled |-> FALSE]
  /\ shift = NoShift /\ limiter = Outside
  /\ setting \in Periods /\ period = setting /\ crossed = FALSE
  /\ drift = 0 /\ load \in Loads /\ twoThreads \in BOOLEAN

(* On one thread nothing else happens while the limiter waits.             *)
TickMayRun == twoThreads \/ limiter.at = "out"

CancelLeavingGeneration ==   \* broken: a shift under way finds nothing changed
  [shift EXCEPT !.request = 0, !.applied = 0, !.limiterRan = FALSE]
CancelFrameShift ==
  [request |-> 0, applied |-> 0, generation |-> shift.generation + 1, limiterRan |-> FALSE]

ResetPacing == pacer' = Rested /\ asked' = FALSE /\ shift' = CancelFrameShift

(* StartGGPO; StartSpectating, and a session with pacing switched off.     *)
StartSession(paced) ==
  /\ TickMayRun /\ ~session.open /\ shift.generation < 2 * MaxSessions
  /\ ResetPacing
  /\ session' = [open |-> TRUE, paced |-> paced, stalled |-> FALSE]
  /\ UNCHANGED <<limiter, periodVars, worldVars>>

CloseBattle ==
  /\ TickMayRun /\ session.open
  /\ ResetPacing
  /\ session' = [session EXCEPT !.open = FALSE, !.stalled = FALSE]
  /\ UNCHANGED <<limiter, periodVars, worldVars>>

(* BattleUpdate notes whether GGPO refused the frame's input.              *)
Stall(stalled) ==
  /\ TickMayRun /\ session.open /\ stalled # session.stalled
  /\ session' = [session EXCEPT !.stalled = stalled]
  /\ UNCHANGED <<pacer, asked, shift, limiter, periodVars, worldVars>>

(* A tick: account for the shift applied, sample, ask for the next.  GGPO  *)
(* may have no statistics for the sample.                                  *)
StepPacing ==
  /\ TickMayRun /\ session.open /\ session.paced
  /\ LET paid == OnShiftApplied(pacer, shift.applied)
     IN  pacer' \in IF session.stalled THEN {OnPredictionStall(paid)}
                                       ELSE {OnRiftSample(paid, drift), paid}
  /\ shift' = [request |-> IF shift.limiterRan THEN NextShift(pacer') ELSE 0, applied |-> 0,
               generation |-> shift.generation, limiterRan |-> shift.limiterRan]
  /\ asked' = (asked \/ shift'.request # 0)
  /\ UNCHANGED <<session, limiter, periodVars, worldVars>>

-----------------------------------------------------------------------------
(* fD3D::LimitFrame, between its locks.                                    *)

TakeRequest ==
  /\ limiter.at = "out"
  /\ limiter' = [Outside EXCEPT !.at = "took", !.request = shift.request,
                                !.generation = shift.generation]
  /\ shift' = [shift EXCEPT !.request = 0]
  /\ UNCHANGED <<tickVars, periodVars, worldVars>>

(* The period is read here and written further down; between the two the   *)
(* clock is asked.                                                         *)
ReadPeriod ==
  /\ limiter.at = "took"
  /\ shift' = [shift EXCEPT !.limiterRan = @ \/ period > 0]
  /\ limiter' = [limiter EXCEPT !.saved = period,
                  !.at = IF limiter.request = 0 \/ period = 0 THEN "plain" ELSE "read"]
  /\ UNCHANGED <<tickVars, periodVars, worldVars>>

WritePeriod ==
  /\ limiter.at = "read"
  /\ period' = ShiftedPeriod(limiter.saved, load, limiter.request)
  /\ limiter' = [limiter EXCEPT !.at = "waiting", !.shifted = period']
  /\ UNCHANGED <<tickVars, shift, setting, crossed, worldVars>>

EndPlainFrame ==
  /\ limiter.at = "plain"
  /\ limiter' = Outside
  /\ UNCHANGED <<tickVars, shift, periodVars, worldVars>>

RestoreAlways == TRUE   \* broken: a change of the settings is undone
StillShifted == period = limiter.shifted

(* The game's limiter has waited out the period, which it may have read    *)
(* before or after a change of the settings, if the game was not late.     *)
(* The period is compared here and restored in a step of its own.          *)
EndFrame ==
  /\ limiter.at = "waiting"
  /\ \E wait \in {limiter.shifted, period} :
       LET frame == IF load > wait THEN load ELSE wait
       IN  limiter' = [limiter EXCEPT !.at = IF StillShifted THEN "restoring" ELSE "report",
                         !.request = AppliedShift(limiter.saved, frame, limiter.request)]
  /\ UNCHANGED <<tickVars, shift, periodVars, worldVars>>

RestorePeriod ==
  /\ limiter.at = "restoring"
  /\ period' = limiter.saved
  /\ limiter' = [limiter EXCEPT !.at = "report"]
  /\ UNCHANGED <<tickVars, shift, setting, crossed, worldVars>>

Report ==
  /\ limiter.at = "report"
  /\ shift' = IF limiter.generation = shift.generation
              THEN [shift EXCEPT !.applied = @ + limiter.request] ELSE shift
  /\ limiter' = Outside
  /\ UNCHANGED <<tickVars, periodVars, worldVars>>

-----------------------------------------------------------------------------
(* The game's settings, the other machine, the load of a frame.            *)
SetPeriod(p) ==
  /\ TickMayRun /\ p # setting
  /\ setting' = p /\ period' = p
  /\ crossed' = (limiter.at \in {"read", "restoring"})
  /\ UNCHANGED <<tickVars, shift, limiter, worldVars>>

Change ==
  /\ TickMayRun
  /\ drift' \in Drifts /\ load' \in Loads
  /\ UNCHANGED <<tickVars, shift, limiter, periodVars, twoThreads>>

Next ==
  \/ \E paced \in BOOLEAN : StartSession(paced)
  \/ CloseBattle
  \/ \E stalled \in BOOLEAN : Stall(stalled)
  \/ StepPacing
  \/ TakeRequest \/ ReadPeriod \/ WritePeriod \/ EndPlainFrame \/ EndFrame \/ RestorePeriod \/ Report
  \/ \E p \in Periods : SetPeriod(p)
  \/ Change

Spec == Init /\ [][Next]_vars

(* A frame has a tick and a call of the limiter; on one thread they take   *)
(* turns.                                                                  *)
Fairness ==
  /\ WF_vars(TakeRequest) /\ WF_vars(ReadPeriod) /\ WF_vars(WritePeriod)
  /\ WF_vars(EndPlainFrame) /\ WF_vars(EndFrame) /\ WF_vars(RestorePeriod) /\ WF_vars(Report)
  /\ SF_vars(StepPacing)

FairSpec == Spec /\ Fairness

-----------------------------------------------------------------------------
TypeOK ==
  /\ pacer \in [outstanding : -3 * MaxStep .. 3 * MaxStep, hold : 0 .. HoldTicks]
  /\ session \in [open : BOOLEAN, paced : BOOLEAN, stalled : BOOLEAN]
  /\ shift \in [request : -MaxStep .. MaxStep, applied : -2 * MaxStep .. 2 * MaxStep,
                generation : Nat, limiterRan : BOOLEAN]
  /\ limiter \in [at : {"out", "took", "plain", "read", "waiting", "restoring", "report"},
                  request : -MaxStep .. MaxStep, generation : Nat, saved : Nat, shifted : Nat]
  /\ period \in Nat /\ setting \in Periods
  /\ drift \in Drifts /\ load \in Loads /\ twoThreads \in BOOLEAN /\ asked \in BOOLEAN
  /\ crossed \in BOOLEAN

(* A session that has asked for nothing is not charged for anything: a     *)
(* shift asked for by an earlier session never counts in a later one,      *)
(* however long the limiter takes over it (CancelFrameShift).              *)
OwnShifts == ~asked => shift.request = 0 /\ shift.applied = 0

(* The debt is never paid twice: on one thread, what the limiter applied   *)
(* has the sign of the debt and is no more than it.                        *)
NoOvershoot ==
  ~twoThreads => \/ 0 <= shift.applied /\ shift.applied <= pacer.outstanding
                 \/ pacer.outstanding <= shift.applied /\ shift.applied <= 0

(* A shift is for one frame, and a change of the settings made while it is *)
(* waited out wins over the restore: afterwards the period is that of the  *)
(* settings.  The exception is a change from another thread that falls     *)
(* between a read of the period and the write after it; that one is lost,  *)
(* until the settings change again (LimitFrame).                           *)
PeriodKept ==
  /\ ~crossed /\ limiter.at \notin {"waiting", "restoring"} => period = setting
  /\ crossed => twoThreads

(* Two machines that run level come to be left alone: the debt is paid, if *)
(* the game keeps up with its frames.                                      *)
Calm == /\ session.open /\ session.paced /\ ~session.stalled /\ ~twoThreads
        /\ drift = 0 /\ setting > load + MaxStep + Margin
DebtPaid == <>[]Calm => <>[](Abs(pacer.outstanding) < MinShift)
=============================================================================
