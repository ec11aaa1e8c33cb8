-------------------------- MODULE FanParity_proofs --------------------------
(***************************************************************************)
(* Why the two followers agree as long as every reading can be read and     *)
(* none is critical: each writes exactly when the other does, so that their *)
(* memories never differ, and a duty they remember came from the policy.    *)
(* Whatever the readings, both remember only what a policy may ask for.     *)
(***************************************************************************)
EXTENDS FanParity, FanPolicy_proofs

(* The sensors show something, and nothing critical.                        *)
Calm == \A p \in Policies : \A r \in Readings : DOMAIN r # {} /\ Critical(p, r) = {}

Agreed ==
  /\ policy \in Policies
  /\ helper = daemon
  /\ DOMAIN helper = {"percent", "source", "temp", "missing"}
  /\ SameDuty
  /\ helper.percent # None => helper.source = policy.mode

-----------------------------------------------------------------------------
(* plan() and plan_persistent_fan(): with the same memory, whose duty came  *)
(* from this policy, the same decision and the same patience.               *)
LEMMA SamePlan ==
  ASSUME NEW p, NEW m, NEW r, DOMAIN r # {}, Critical(p, r) = {},
         m.percent # None => m.source = p.mode
  PROVE  /\ HelperPlan(p, m, r) = DaemonPlan(p, m, r)
         /\ HelperMissing(p, m, r) = DaemonMissing(p, m, r)
<1>1. CASE p.mode = "curve"
  BY <1>1 DEF HelperPlan, DaemonPlan, HelperMissing, DaemonMissing, DaemonSmoothed
<1>2. CASE p.mode # "curve"
  BY <1>2 DEF HelperPlan, DaemonPlan, HelperMissing, DaemonMissing
<1> QED BY <1>1, <1>2

(* A decision that is not a pause bears the mode of the policy as its       *)
(* source.                                                                  *)
LEMMA PlanSource ==
  ASSUME NEW p, NEW m, NEW r, DOMAIN r # {}, Critical(p, r) = {}
  PROVE  HelperPlan(p, m, r).source = p.mode
<1>1. CASE p.mode = "curve"
  BY <1>1 DEF HelperPlan, Decision
<1>2. CASE p.mode # "curve"
  BY <1>2 DEF HelperPlan, Decision
<1> QED BY <1>1, <1>2

(* Then both write, or neither, and both remember the same.                 *)
LEMMA SameAfter ==
  ASSUME NEW m, NEW d, NEW missing, NEW mode,
         DOMAIN m = {"percent", "source", "temp", "missing"},
         m.percent # None => m.source = mode,
         d.source = mode
  PROVE  LET n == HelperAfter(m, d, missing) IN
         /\ n = DaemonAfter(m, d, missing)
         /\ DOMAIN n = {"percent", "source", "temp", "missing"}
         /\ n.percent # None => n.source = mode
<1>1. CASE d = Hold \/ (m.percent # None /\ d.percent = m.percent)
  BY <1>1 DEF HelperAfter, DaemonAfter
<1>2. CASE ~(d = Hold \/ (m.percent # None /\ d.percent = m.percent))
  BY <1>2 DEF HelperAfter, DaemonAfter, Written, Memory
<1> QED BY <1>1, <1>2

-----------------------------------------------------------------------------
LEMMA AgreedFromInit == Init => Agreed
BY DEF Init, Agreed, NoMemory, Memory, SameDuty

LEMMA AgreedIsInductive ==
  ASSUME Calm, Agreed, [Next]_vars
  PROVE  Agreed'
<1>1. CASE UNCHANGED vars
  BY <1>1 DEF Agreed, SameDuty, vars
<1>2. ASSUME NEW r \in Readings, Cycle(r)
      PROVE  Agreed'
  <2> DEFINE m    == Aged(helper)
             plan == HelperPlan(policy, m, r)
             miss == HelperMissing(policy, m, r)
  <2>1. /\ DOMAIN r # {} /\ Critical(policy, r) = {}
        /\ policy' = policy /\ policy \in Policies
    BY <1>2 DEF Agreed, Calm, Cycle
  <2>2. /\ m = Aged(daemon)
        /\ DOMAIN m = {"percent", "source", "temp", "missing"}
        /\ m.percent # None => m.source = policy.mode
    BY DEF Agreed, Aged
  <2>3. /\ plan = DaemonPlan(policy, m, r)
        /\ miss = DaemonMissing(policy, m, r)
        /\ plan.source = policy.mode
    BY <2>1, <2>2, SamePlan, PlanSource
  <2>4. /\ helper' = HelperAfter(m, plan, miss)
        /\ daemon' = DaemonAfter(m, plan, miss)
        /\ duty' = [helper |-> IF plan = Hold THEN duty["helper"] ELSE plan.percent,
                    daemon |-> IF plan = Hold THEN duty["daemon"] ELSE plan.percent]
    BY <1>2, <2>2, <2>3 DEF Cycle
  <2>5. /\ helper' = daemon'
        /\ DOMAIN helper' = {"percent", "source", "temp", "missing"}
        /\ helper'.percent # None => helper'.source = policy.mode
    <3> HIDE DEF m, plan, miss
    <3> QED BY <2>2, <2>3, <2>4, SameAfter
  <2>6. SameDuty'
    <3> HIDE DEF plan
    <3> QED BY <2>4 DEF SameDuty, Agreed
  <2> QED BY <2>1, <2>5, <2>6 DEF Agreed
<1> QED BY <1>1, <1>2 DEF Next

(* "Same curve, same smoothing: the service may not pick another duty":     *)
(* plan() and plan_persistent_fan() choose the same duty in every cycle,    *)
(* whatever the policies and however many sensors, as long as the readings  *)
(* can be read and are not critical.                                        *)
THEOREM Parity ==
  ASSUME Calm
  PROVE  Spec => []SameDuty
<1>1. Init => Agreed
  BY AgreedFromInit
<1>2. Agreed /\ [Next]_vars => Agreed'
  BY AgreedIsInductive
<1>3. Agreed => SameDuty
  BY DEF Agreed
<1> QED BY <1>1, <1>2, <1>3, PTL DEF Spec

-----------------------------------------------------------------------------
(* Types.                                                                   *)

\* Either follower, its decision and its timer.
LEMMA FollowerTyped ==
  ASSUME NEW m \in Memories, NEW d \in Decisions \cup {Hold}, NEW missing \in Waits
  PROVE  HelperAfter(m, d, missing) \in Memories /\ DaemonAfter(m, d, missing) \in Memories
<1>1. [m EXCEPT !.missing = missing] \in Memories
  BY DEF Memories, Waits
<1>2. d \in Decisions => Written(d, missing) \in Memories
  BY DEF Written, Memory, Memories, Decisions, Waits
<1> QED
  BY <1>1, <1>2 DEF HelperAfter, DaemonAfter

LEMMA AgedTyped ==
  ASSUME NEW m \in Memories
  PROVE  /\ Aged(m) \in Memories
         /\ Aged(m).missing \in Waits /\ Aged(m).percent \in Percents \cup {None}
BY TimeoutAssumption, NoneIsNoNumber DEF Aged, Memories, Waits

LEMMA TypeStep ==
  TypeOK /\ [Next]_vars => TypeOK'
<1> SUFFICES ASSUME TypeOK, [Next]_vars PROVE TypeOK'
  OBVIOUS
<1>1. ASSUME NEW r \in Readings, Cycle(r) PROVE TypeOK'
  <2> DEFINE h  == Aged(helper)
             d  == Aged(daemon)
             hp == HelperPlan(policy, h, r)
             dp == DaemonPlan(policy, d, r)
  <2>1. WellFormed(policy) /\ Sensed(r)
    BY <1>1, InputAssumption DEF TypeOK
  <2>2. /\ h \in Memories /\ h.missing \in Waits /\ h.percent \in Percents \cup {None}
        /\ d \in Memories /\ d.missing \in Waits /\ d.percent \in Percents \cup {None}
    BY AgedTyped DEF TypeOK
  <2>3. /\ helper' = HelperAfter(h, hp, HelperMissing(policy, h, r))
        /\ daemon' = DaemonAfter(d, dp, DaemonMissing(policy, d, r))
        /\ duty' = [helper |-> IF hp = Hold THEN duty["helper"] ELSE hp.percent,
                    daemon |-> IF dp = Hold THEN duty["daemon"] ELSE dp.percent]
        /\ policy' = policy
    BY <1>1 DEF Cycle
  <2> HIDE DEF h, d
  <2>4. /\ hp \in Decisions \cup {Hold} /\ HelperMissing(policy, h, r) \in Waits
        /\ dp \in Decisions \cup {Hold} /\ DaemonMissing(policy, d, r) \in Waits
    BY <2>1, <2>2, HelperTyped, DaemonTyped
  <2> HIDE DEF hp, dp
  <2>5. helper' \in Memories /\ daemon' \in Memories
    BY <2>2, <2>3, <2>4, FollowerTyped
  <2>6. duty' \in [{"helper", "daemon"} -> Percents \cup {None}]
    <3>1. (hp # Hold => hp.percent \in Percents) /\ (dp # Hold => dp.percent \in Percents)
      BY <2>4 DEF Decisions
    <3> QED
      BY <2>3, <3>1 DEF TypeOK
  <2> QED
    BY <2>3, <2>5, <2>6 DEF TypeOK
<1>2. CASE UNCHANGED vars
  BY <1>2 DEF vars, TypeOK
<1> QED
  BY <1>1, <1>2 DEF Next

(* Both followers ask their fans only for percentages, and remember only     *)
(* decisions that a validated policy can lead to.                            *)
THEOREM TypesHold ==
  Spec => []TypeOK
<1>1. Init => TypeOK
  BY DEF Init, TypeOK, NoMemory, Memory, Memories
<1> QED
  BY <1>1, TypeStep, PTL DEF Spec
=============================================================================
