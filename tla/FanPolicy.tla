------------------------------ MODULE FanPolicy ------------------------------
(***************************************************************************)
(* The duty a fan policy asks for.  The same rules are written twice: in    *)
(* FanController.plan of bc250-fan-pwm-helper, which the root service runs, *)
(* and in plan_persistent_fan of bc250cc.domain.fan.persistence, which the  *)
(* per-user daemon runs.                                                    *)
(*                                                                         *)
(* Temperatures are whole degrees and duties whole percents; the register   *)
(* value round(percent * 255 / 100) is left out, because it differs for     *)
(* different percents.  Ages are counted in control cycles.                 *)
(***************************************************************************)
EXTENDS Integers, Sequences

CONSTANTS
  None,           \* "no reading", "nothing written yet", "not missing"
  Sensors,        \* the thermal inputs: gpu, cpu, vrm, board
  SensorTimeout   \* sensor_timeout_seconds, in cycles

Percents == 0..100
Degrees == -30..160    \* readings with their offsets
Sources == {"curve", "preset", "fixed", "critical", "failsafe"}
Decisions == [percent : Percents, source : Sources, temp : Degrees \cup {None}]

ASSUME NoneIsNoNumber == None \notin Int
ASSUME NoneIsNoDecision == None \notin Decisions
ASSUME TimeoutAssumption == SensorTimeout \in Nat \ {0}

Hold == None   \* the decision to leave the fan as it is

(* What validate_policy lets through (a field that its mode does not use     *)
(* still has a value here) ...                                              *)
Policy ==
  [mode : {"curve", "preset", "fixed"}, points : Seq([at : 0..120, percent : Percents]),
   percent : Percents, failsafe : 40..100, hysteresis : 0..10, deadband : 0..20,
   maxDown : 1..100, critical : [Sensors -> 50..125], offset : [Sensors -> -30..30]]
WellFormed(p) ==
  /\ p \in Policy
  /\ p.mode = "curve" => /\ Len(p.points) \in 3..8
                         /\ \A i \in 2..Len(p.points) : p.points[i - 1].at < p.points[i].at

(* ... and what read_temperatures returns: the sensors that can be read.    *)
Sensed(r) == DOMAIN r \subseteq Sensors /\ \A s \in DOMAIN r : r[s] \in 1..130

Distance(a, b) == IF a < b THEN b - a ELSE a - b

(* floor(n / d + 0.5) *)
Rounded(n, d) == (2 * n + d) \div (2 * d)

(* curve_percent, interpolate_fan_curve: a straight line between two        *)
(* neighbouring points, flat before the first and after the last.           *)
CurvePercent(points, t) ==
  LET last  == Len(points)
      above == {i \in 1..last : t < points[i].at}
  IN  IF t <= points[1].at THEN points[1].percent
      ELSE IF above = {} THEN points[last].percent
      ELSE LET i    == CHOOSE j \in above : \A k \in above : j <= k
               low  == points[i - 1]
               high == points[i]
               span == high.at - low.at
           IN  Rounded(low.percent * span + (high.percent - low.percent) * (t - low.at), span)

(* A reading is critical at or above its own threshold, without its offset. *)
Critical(p, readings) == {s \in DOMAIN readings : readings[s] >= p.critical[s]}

(* The one furthest above its threshold is the one that is reported.        *)
WorstCritical(p, readings) ==
  LET excess(s) == readings[s] - p.critical[s]
      hot       == Critical(p, readings)
  IN  CHOOSE t \in {readings[s] : s \in hot} :
        \E s \in hot : /\ readings[s] = t
                       /\ \A o \in hot : \/ excess(o) < excess(s)
                                         \/ excess(o) = excess(s) /\ readings[o] <= t

(* The curve follows the hottest reading, offsets included.                 *)
Hottest(p, readings) ==
  LET effective == {readings[s] + p.offset[s] : s \in DOMAIN readings}
  IN  CHOOSE t \in effective : \A o \in effective : o <= t

(* Bugs: no bounded step; a step that is bounded upwards too; no hysteresis; *)
(* the comparison of the step the wrong way round.                          *)
BugSmoothedNoStep(p, percent, t, previous, lastTemp) ==
  IF lastTemp # None /\ Distance(t, lastTemp) < p.hysteresis THEN previous
  ELSE IF Distance(percent, previous) <= p.deadband THEN previous ELSE percent
BugSmoothedUpToo(p, percent, t, previous, lastTemp) ==
  IF Distance(percent, previous) <= p.maxDown THEN percent
  ELSE IF percent < previous THEN previous - p.maxDown ELSE previous + p.maxDown
BugSmoothedHunts(p, percent, t, previous, lastTemp) ==
  IF Distance(percent, previous) <= p.deadband THEN previous
  ELSE IF percent < previous - p.maxDown THEN previous - p.maxDown ELSE percent
BugSmoothedFlipped(p, percent, t, previous, lastTemp) ==
  IF percent > previous - p.maxDown THEN previous - p.maxDown ELSE percent

(* Hysteresis, deadband and the bounded step down, in this order.           *)
Smoothed(p, percent, t, previous, lastTemp) ==
  LET held   == IF lastTemp # None /\ Distance(t, lastTemp) < p.hysteresis
                THEN previous ELSE percent
      calm   == IF Distance(held, previous) <= p.deadband THEN previous ELSE held
  IN  IF calm < previous - p.maxDown THEN previous - p.maxDown ELSE calm

Decision(percent, source, t) == [percent |-> percent, source |-> source, temp |-> t]

-----------------------------------------------------------------------------
(* The root service.  `m' is its memory: the percent, the source and the    *)
(* temperature of the last successful write, and since when every reading   *)
(* has been missing.                                                        *)

(* Bug: the wait for a reading starts again in every cycle.                 *)
BugHelperMissing(p, m, readings) ==
  IF Critical(p, readings) # {} THEN None
  ELSE IF p.mode # "curve" THEN m.missing
  ELSE IF DOMAIN readings # {} THEN None ELSE 0

(* FanController.plan, its effect on missing_since ...                      *)
HelperMissing(p, m, readings) ==
  IF Critical(p, readings) # {} THEN None
  ELSE IF p.mode # "curve" THEN m.missing
  ELSE IF DOMAIN readings # {} THEN None
  ELSE IF m.missing = None THEN 0 ELSE m.missing

(* ... and its decision.                                                    *)
HelperPlan(p, m, readings) ==
  IF Critical(p, readings) # {}
  THEN Decision(p.failsafe, "critical", WorstCritical(p, readings))
  ELSE IF p.mode # "curve"
  THEN Decision(p.percent, p.mode, IF DOMAIN readings = {} THEN None ELSE Hottest(p, readings))
  ELSE IF DOMAIN readings = {}
  THEN IF HelperMissing(p, m, readings) < SensorTimeout THEN Hold
       ELSE Decision(p.failsafe, "failsafe", None)
  ELSE LET t == Hottest(p, readings)
           c == CurvePercent(p.points, t)
       IN  Decision(IF m.percent # None /\ m.source = "curve"
                    THEN Smoothed(p, c, t, m.percent, m.temp) ELSE c,
                    "curve", t)

-----------------------------------------------------------------------------
(* The per-user daemon: the same policy, its own memory.                    *)

(* plan_persistent_fan: a critical reading matters to a curve only, and the *)
(* duty of a curve is smoothed against whatever was last applied to the     *)
(* channel.                                                                 *)
DaemonSmoothed(p, percent, t, m) ==
  IF m.percent = None THEN percent ELSE Smoothed(p, percent, t, m.percent, m.temp)

DaemonMissing(p, m, readings) ==
  IF p.mode # "curve" THEN m.missing
  ELSE IF Critical(p, readings) # {} \/ DOMAIN readings # {} THEN None
  ELSE IF m.missing = None THEN 0 ELSE m.missing

DaemonPlan(p, m, readings) ==
  IF p.mode # "curve"
  THEN Decision(p.percent, p.mode, IF DOMAIN readings = {} THEN None ELSE Hottest(p, readings))
  ELSE IF Critical(p, readings) # {}
  THEN Decision(p.failsafe, "critical", WorstCritical(p, readings))
  ELSE IF DOMAIN readings = {}
  THEN IF DaemonMissing(p, m, readings) < SensorTimeout \/ m.missing = None THEN Hold
       ELSE Decision(p.failsafe, "failsafe", None)
  ELSE LET t == Hottest(p, readings)
       IN  Decision(DaemonSmoothed(p, CurvePercent(p.points, t), t, m), "curve", t)
=============================================================================
