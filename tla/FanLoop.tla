------------------------------- MODULE FanLoop -------------------------------
(***************************************************************************)
(* The control loop of bc250-fan-pwm-helper with its clock and its          *)
(* arithmetic: FanController.step, every two seconds, on one channel.       *)
(*                                                                         *)
(* FanControl interleaves the loop with the other processes and abstracts   *)
(* its timers and its duty; here one cycle is one step, and what the users, *)
(* the sensors and the board do happens between two cycles.                 *)
(***************************************************************************)
EXTENDS FanPolicy

CONSTANTS
  Policies,       \* the policies a user may save
  Readings,       \* what the sensors may show
  UserDuties,     \* what a user may set by hand: duties, Firmware
  Rewrite,        \* CONTROL_MIN_REWRITE_SECONDS, in cycles
  Verify,         \* CONTROL_VERIFY_SECONDS, in cycles
  Firmware,       \* the channel is in firmware automatic mode
  Outcomes,       \* how a write may end: "ok", "refused" or "busy"
  Disturbances    \* what may happen to the channel: "drift", "unload"

ASSUME CycleAssumption ==
  /\ Rewrite \in Nat \ {0} /\ Verify \in Nat \ {0} /\ Rewrite <= Verify
  /\ Outcomes \subseteq {"ok", "refused", "busy"} /\ "ok" \in Outcomes
  /\ Disturbances \subseteq {"drift", "unload"}
ASSUME InputAssumption ==
  /\ \A p \in Policies : WellFormed(p)
  /\ \A r \in Readings : Sensed(r)
  /\ UserDuties \subseteq Percents \cup {Firmware}
  /\ None \notin Policies /\ Firmware \notin Percents

VARIABLES
  policy,     \* POLICY_FILE
  override,   \* the channel is in OVERRIDE_FILE
  readings,   \* what the readable sensors show
  driver,     \* the NCT hwmon is there
  hw,         \* the channel: Firmware or the manual duty
  followed,   \* FanController.policy
  driven,     \* FanController.channel is set
  memory,     \* what the loop remembers of its last write, and its timers
  late,       \* history: clean cycles that left the channel off the decided duty
  blind       \* history: cycles that held the duty for want of a reading

vars == <<policy, override, readings, driver, hw, followed, driven, memory,
          late, blind>>
world == <<policy, override, readings, driver>>
loop  == <<followed, driven, memory, late, blind>>

(* reset_memory(): last_verify = 0.0 is long ago.                           *)
FreshMemory == [percent |-> None, source |-> "none", temp |-> None,
                written |-> None, verified |-> Verify, missing |-> None]

TypeOK ==
  /\ policy \in Policies \cup {None} /\ followed \in Policies \cup {None}
  /\ override \in BOOLEAN /\ driver \in BOOLEAN /\ driven \in BOOLEAN
  /\ readings \in Readings
  /\ hw \in Percents \cup {Firmware}
  /\ memory \in [percent : Percents \cup {None}, source : Sources \cup {"none"},
                 temp : Degrees \cup {None}, written : 0..Rewrite \cup {None},
                 verified : 0..Verify, missing : 0..SensorTimeout \cup {None}]
  /\ late \in Nat /\ blind \in Nat

Init ==
  /\ policy \in Policies \cup {None}
  /\ override = FALSE
  /\ readings \in Readings
  /\ driver = TRUE
  /\ hw = Firmware
  /\ followed = None /\ driven = FALSE /\ memory = FreshMemory
  /\ late = 0 /\ blind = 0

-----------------------------------------------------------------------------
(* One cycle.                                                               *)

(* Two seconds later; an age that has reached its limit stays there.        *)
Grown(age, limit) == IF age = None \/ age = limit THEN age ELSE age + 1
Older == [memory EXCEPT !.written = Grown(@, Rewrite), !.verified = Grown(@, Verify),
                        !.missing = Grown(@, SensorTimeout)]

(* reload_policy(): the memory of another policy is dropped.                *)
Reloaded == policy # followed
Remembered == IF Reloaded THEN FreshMemory ELSE Older

(* The decision of this cycle.                                              *)
Wanted == HelperPlan(policy, Remembered, readings)
Emergency == Wanted.source \in {"critical", "failsafe"}
Now == [Remembered EXCEPT !.missing = HelperMissing(policy, Remembered, readings)]

Recent == Now.written # None /\ Now.written < Rewrite
MayWrite == ~Recent \/ Emergency
Overdue == Now.verified = Verify

(* What the history variables note of a cycle that left the channel at x.   *)
Note(clean, x) ==
  /\ late' = IF clean /\ x # Wanted.percent THEN late + 1 ELSE 0
  /\ blind' = 0

(* No policy: the channel goes back to the firmware if the loop drove it    *)
(* (if the lock is busy it does not, and is forgotten all the same).        *)
StepIdle(outcome) ==
  /\ policy = None
  /\ hw' = IF driven /\ driver /\ outcome = "ok" THEN Firmware ELSE hw
  /\ driven' = FALSE /\ followed' = None
  /\ memory' = Remembered
  /\ late' = 0 /\ blind' = 0
  /\ UNCHANGED world

StepWaitDriver ==
  /\ policy # None /\ ~driver
  /\ followed' = policy /\ memory' = Remembered
  /\ late' = 0 /\ blind' = IF Reloaded THEN 0 ELSE blind
  /\ UNCHANGED <<world, hw, driven>>

(* waiting-sensor *)
StepHold ==
  /\ policy # None /\ driver /\ Wanted = Hold
  /\ followed' = policy /\ memory' = Now
  /\ late' = 0 /\ blind' = IF Reloaded THEN 1 ELSE blind + 1
  /\ UNCHANGED <<world, hw, driven>>

Deciding == policy # None /\ driver /\ Wanted # Hold

(* A takeover pauses the loop ...                                           *)
StepPaused ==
  /\ Deciding /\ override /\ ~Emergency
  /\ followed' = policy /\ memory' = Now
  /\ late' = 0 /\ blind' = 0
  /\ UNCHANGED <<world, hw, driven>>

(* ... but not in an emergency, which ends it.                              *)
Active == Deciding /\ (override => Emergency)
EndTakeover == override' = FALSE /\ UNCHANGED <<policy, readings, driver>>

(* _write(): apply_pwm takes the register, or is refused, or never gets the *)
(* lock; only a success is remembered, a busy lock not even as an attempt.  *)
Write(outcome, verified) ==
  /\ followed' = policy
  /\ hw' = IF outcome = "ok" THEN Wanted.percent ELSE hw
  /\ driven' = (driven \/ outcome = "ok")
  /\ memory' = IF outcome = "ok"
               THEN [Now EXCEPT !.percent = Wanted.percent, !.source = Wanted.source,
                                !.temp = Wanted.temp, !.written = 0, !.verified = 0]
               ELSE IF outcome = "refused"
               THEN [Now EXCEPT !.written = 0, !.verified = 0]
               ELSE [Now EXCEPT !.verified = verified]
  /\ Note(outcome = "ok", hw')

(* Another duty than the last one written.                                  *)
StepWrite(outcome) ==
  /\ Active /\ Wanted.percent # Now.percent /\ MayWrite
  /\ Write(outcome, Now.verified)
  /\ EndTakeover

(* It has to wait: the last write is less than five seconds old.            *)
StepWait ==
  /\ Active /\ Wanted.percent # Now.percent /\ ~MayWrite
  /\ followed' = policy /\ memory' = Now
  /\ Note(TRUE, hw)
  /\ UNCHANGED <<hw, driven>>
  /\ EndTakeover

(* Bug: every cycle that finds the same duty counts as a verification.      *)
BugStepTrustVerifies ==
  /\ Active /\ Wanted.percent = Now.percent /\ ~Overdue
  /\ followed' = policy /\ memory' = [Now EXCEPT !.verified = 0]
  /\ Note(TRUE, hw)
  /\ UNCHANGED <<hw, driven>>
  /\ EndTakeover

(* The same duty: between two verifications nothing is read ...             *)
StepTrust ==
  /\ Active /\ Wanted.percent = Now.percent /\ ~Overdue
  /\ followed' = policy /\ memory' = Now
  /\ Note(TRUE, hw)
  /\ UNCHANGED <<hw, driven>>
  /\ EndTakeover

(* ... and every thirty seconds a channel that moved is put back.           *)
StepVerify(outcome) ==
  /\ Active /\ Wanted.percent = Now.percent /\ Overdue
  /\ IF hw = Wanted.percent
     THEN /\ followed' = policy /\ memory' = [Now EXCEPT !.verified = 0]
          /\ Note(TRUE, hw)
          /\ UNCHANGED <<hw, driven>>
     ELSE Write(outcome, 0)
  /\ EndTakeover

Cycle == \/ \E o \in Outcomes : StepIdle(o) \/ StepWrite(o) \/ StepVerify(o)
         \/ StepWaitDriver \/ StepHold \/ StepPaused \/ StepWait \/ StepTrust

-----------------------------------------------------------------------------
(* Between two cycles.                                                      *)

Sense ==
  /\ readings' \in Readings \ {readings}
  /\ UNCHANGED <<policy, override, driver, hw, loop>>

(* save_policy, POLICY-CLEAR: both end a takeover.                          *)
SavePolicy ==
  /\ policy' \in Policies \cup {None}
  /\ override' = FALSE
  /\ UNCHANGED <<readings, driver, hw, loop>>

(* A duty set by hand, or the firmware mode, recorded as a takeover.        *)
Takeover ==
  /\ driver /\ policy # None
  /\ hw' \in UserDuties
  /\ override' = TRUE
  /\ UNCHANGED <<policy, readings, driver, loop>>

(* fan-resume *)
Resume ==
  /\ override
  /\ override' = FALSE
  /\ UNCHANGED <<policy, readings, driver, hw, loop>>

Drift ==
  /\ "drift" \in Disturbances /\ driver
  /\ hw # Firmware
  /\ hw' = Firmware
  /\ UNCHANGED <<world, loop>>

(* The module is unloaded and loaded again.                                 *)
Reload ==
  /\ "unload" \in Disturbances
  /\ driver' = ~driver
  /\ hw' = Firmware
  /\ UNCHANGED <<policy, override, readings, loop>>

World == Sense \/ SavePolicy \/ Takeover \/ Resume \/ Drift \/ Reload

Next == Cycle \/ World
Spec == Init /\ [][Next]_vars
(* run_control_loop() never stops calling step().                           *)
FairSpec == Spec /\ WF_vars(Cycle)
-----------------------------------------------------------------------------
(* Properties.                                                              *)

(* step(): whatever drifts, however often a user takes the channel over and *)
(* gives it back, and however the policy and the readings change meanwhile, *)
(* clean cycles never leave a channel the loop is to drive away from the    *)
(* decided duty for as long as one verification interval.                   *)
RegulationBound == late < Verify

(* plan(): the duty is held for want of a reading no longer than the sensor *)
(* timeout of the policy, driver reloads and takeovers included.            *)
BlindBound == blind <= SensorTimeout

(* _write(), plan(): two consecutive writes of one curve never step down by *)
(* more than max_down_step_percent.                                         *)
DownGently ==
  [][(/\ followed' = followed /\ memory'.percent # memory.percent
      /\ memory.source = "curve" /\ memory'.source = "curve")
       => memory'.percent >= memory.percent - followed.maxDown]_vars

(* The duties of the curve for t and for the temperatures that the          *)
(* hysteresis does not tell from t.                                         *)
CurveAround(p, t) ==
  {CurvePercent(p.points, u) : u \in {v \in (t - p.hysteresis)..(t + p.hysteresis) :
                                      v = t \/ Distance(v, t) < p.hysteresis}}

(* plan(): the smoothing never keeps the fan further below the curve than   *)
(* the hysteresis and the deadband allow.                                   *)
CurveFloor ==
  Deciding /\ Wanted.source = "curve" =>
    \E x \in CurveAround(policy, Wanted.temp) : Wanted.percent + policy.deadband >= x

(* The curve p drives the fan.                                              *)
Driving(p) ==
  /\ policy = p /\ driver /\ ~override
  /\ DOMAIN readings # {} /\ Critical(p, readings) = {}

(* Its hottest reading stays within its hysteresis above b.                 *)
Within(p, b) == Driving(p) /\ Hottest(p, readings) \in b..(b + p.hysteresis - 1)

(* Readings that wander by less than the hysteresis do not keep the fan     *)
(* hunting: it settles at one duty.                                         *)
NoHunting ==
  \A p \in {q \in Policies : q.mode = "curve"} :
  \A b \in {Hottest(p, r) : r \in {x \in Readings : DOMAIN x # {}}} :
    <>[]Within(p, b) => <>[][hw' = hw]_vars
=============================================================================
