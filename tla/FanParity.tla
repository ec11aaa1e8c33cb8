------------------------------ MODULE FanParity ------------------------------
(***************************************************************************)
(* The two followers of a fan policy side by side: FanController of the     *)
(* root service and the per-user daemon, each on a fan of its own, fed the  *)
(* same readings, five seconds apart or more, with every write taken.       *)
(* Each remembers its last write in its own way.                            *)
(***************************************************************************)
EXTENDS FanPolicy

CONSTANTS
  Policies,   \* the policies a user may save
  Readings    \* what the sensors may show

ASSUME InputAssumption ==
  /\ \A p \in Policies : WellFormed(p)
  /\ \A r \in Readings : Sensed(r)

VARIABLES
  policy,     \* the saved policy; it does not change
  helper,     \* the memory of FanController
  daemon,     \* the FanControlMemory of the daemon
  duty        \* the duty each has put its fan at

vars == <<policy, helper, daemon, duty>>

Memory(percent, source, temp, missing) ==
  [percent |-> percent, source |-> source, temp |-> temp, missing |-> missing]
NoMemory == Memory(None, "none", None, None)

Memories ==
  [percent : Percents \cup {None}, source : Sources \cup {"none"},
   temp : Degrees \cup {None}, missing : 0..SensorTimeout \cup {None}]

TypeOK ==
  /\ policy \in Policies
  /\ helper \in Memories /\ daemon \in Memories
  /\ duty \in [{"helper", "daemon"} -> Percents \cup {None}]

Init ==
  /\ policy \in Policies
  /\ helper = NoMemory /\ daemon = NoMemory
  /\ duty = [f \in {"helper", "daemon"} |-> None]

-----------------------------------------------------------------------------
Aged(m) ==
  [m EXCEPT !.missing = IF @ = None \/ @ = SensorTimeout THEN @ ELSE @ + 1]

(* What is remembered of a decision that is written.                        *)
Written(d, missing) == Memory(d.percent, d.source, d.temp, missing)

(* FanController.step(): another value than the last one is written.        *)
HelperAfter(m, d, missing) ==
  IF d = Hold \/ (m.percent # None /\ d.percent = m.percent) THEN [m EXCEPT !.missing = missing]
  ELSE Written(d, missing)

(* Bug: every decision is remembered, written or not.                       *)
BugDaemonAfter(m, d, missing) ==
  IF d = Hold THEN [m EXCEPT !.missing = missing] ELSE Written(d, missing)

(* The daemon: another duty or another source of the duty.                  *)
DaemonAfter(m, d, missing) ==
  IF d = Hold \/ (m.percent # None /\ d.percent = m.percent /\ d.source = m.source)
  THEN [m EXCEPT !.missing = missing]
  ELSE Written(d, missing)

(* Both see the same readings.                                              *)
Cycle(r) ==
  LET h  == Aged(helper)
      d  == Aged(daemon)
      hp == HelperPlan(policy, h, r)
      dp == DaemonPlan(policy, d, r)
  IN  /\ helper' = HelperAfter(h, hp, HelperMissing(policy, h, r))
      /\ daemon' = DaemonAfter(d, dp, DaemonMissing(policy, d, r))
      /\ duty' = [helper |-> IF hp = Hold THEN duty["helper"] ELSE hp.percent,
                  daemon |-> IF dp = Hold THEN duty["daemon"] ELSE dp.percent]
      /\ UNCHANGED policy

Next == \E r \in Readings : Cycle(r)
Spec == Init /\ [][Next]_vars
-----------------------------------------------------------------------------
(* "Same curve, same smoothing: the service may not pick another duty":     *)
(* plan() and plan_persistent_fan() put their fans at the same duty.        *)
SameDuty == duty["helper"] = duty["daemon"]
=============================================================================
