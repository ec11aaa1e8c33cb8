--------------------------- MODULE FanPolicy_proofs ---------------------------
(***************************************************************************)
(* What the arithmetic of a fan policy returns: a curve gives a percentage *)
(* between 0 and 100, the smoothing keeps it there and steps down by no    *)
(* more than the policy allows, and both planners decide such a duty.      *)
(***************************************************************************)
EXTENDS FanPolicy, SequenceTheorems, WellFoundedInduction, TLAPS

-------------------------------------------------------------------------------
(* The least and the greatest of some integers.                              *)

LEMMA LeastNatural ==
  ASSUME NEW S \in SUBSET Nat, S # {}
  PROVE  \E x \in S : \A y \in S : x <= y
<1> DEFINE less == {ss \in Nat \X Nat : ss[1] < ss[2]}
<1>1. IsWellFoundedOn(less, Nat)
  BY NatLessThanWellFounded, Zenon DEF OpToRel
<1> HIDE DEF less
<1>2. PICK x \in S : \A y \in S : <<y, x>> \notin less
  BY <1>1, WFMin
<1>3. ASSUME NEW y \in S PROVE x <= y
  <2>1. x \in Nat /\ y \in Nat
    OBVIOUS
  <2>2. ~(y < x)
    BY <1>2, <2>1 DEF less
  <2> QED
    BY <2>1, <2>2
<1> QED
  BY <1>3

LEMMA GreatestBelow ==
  ASSUME NEW S \in SUBSET Int, S # {}, \E b \in Int : \A x \in S : x <= b
  PROVE  \E x \in S : \A y \in S : y <= x
<1>0. PICK b \in Int : \A x \in S : x <= b
  OBVIOUS
<1> DEFINE T == {b - x : x \in S}
<1>1. T \in SUBSET Nat /\ T # {}
  <2>1. ASSUME NEW x \in S PROVE b - x \in Nat
    <3>1. x \in Int /\ x <= b
      BY <1>0
    <3> QED
      BY <3>1
  <2> QED
    BY <2>1
<1>2. PICK t \in T : \A u \in T : t <= u
  BY <1>1, LeastNatural
<1>3. PICK x \in S : t = b - x
  OBVIOUS
<1>4. ASSUME NEW y \in S PROVE y <= x
  <2>1. t <= b - y
    BY <1>2
  <2> QED
    BY <2>1, <1>3
<1> QED
  BY <1>4

-------------------------------------------------------------------------------
(* Readings.                                                                 *)

\* The hottest reading is one of the readings, with its offset.
LEMMA HottestIsDegrees ==
  ASSUME NEW p, WellFormed(p), NEW r, Sensed(r), DOMAIN r # {}
  PROVE  Hottest(p, r) \in Degrees
<1> DEFINE effective == {r[s] + p.offset[s] : s \in DOMAIN r}
<1>1. \A s \in DOMAIN r : r[s] \in 1..130 /\ p.offset[s] \in -30..30
  BY DEF WellFormed, Policy, Sensed
<1>2. \A s \in DOMAIN r : r[s] + p.offset[s] \in -29..160
  <2>1. \A a \in 1..130, b \in -30..30 : a + b \in -29..160
    OBVIOUS
  <2> QED
    BY ONLY <1>1, <2>1, ZenonT(30)
<1>3. effective \subseteq Degrees /\ effective # {}
  BY <1>2 DEF Degrees
<1> HIDE DEF effective
<1>4. effective \in SUBSET Int /\ \E b \in Int : \A x \in effective : x <= b
  <2>1. \A x \in effective : x \in Int /\ x <= 160
    BY <1>3 DEF Degrees
  <2> QED
    BY <2>1
<1>5. \E t \in effective : \A o \in effective : o <= t
  BY <1>3, <1>4, GreatestBelow
<1>6. Hottest(p, r) \in effective
  BY <1>5 DEF Hottest, effective
<1> QED
  BY <1>3, <1>6

\* Among readings with an excess each, one is first in the order of the two.
LEMMA FirstInOrder ==
  ASSUME NEW S, S # {}, NEW e \in [S -> -124..80], NEW v \in [S -> 1..130]
  PROVE  \E s \in S : \A o \in S : e[o] < e[s] \/ (e[o] = e[s] /\ v[o] <= v[s])
<1> DEFINE rank == [s \in S |-> 200 * e[s] + v[s]]
           ranks == {rank[s] : s \in S}
<1>1. \A s \in S : rank[s] \in Int /\ rank[s] <= 20000
  <2>1. \A s \in S : e[s] \in Int /\ e[s] <= 80 /\ v[s] \in Int /\ v[s] <= 130
    OBVIOUS
  <2> QED
    BY <2>1
<1>2. PICK x \in ranks : \A y \in ranks : y <= x
  <2>1. ranks \in SUBSET Int /\ ranks # {}
    BY <1>1
  <2>2. \E b \in Int : \A y \in ranks : y <= b
    BY <1>1
  <2> HIDE DEF ranks
  <2> QED
    BY <2>1, <2>2, GreatestBelow
<1>3. PICK s \in S : x = rank[s]
  OBVIOUS
<1>4. ASSUME NEW o \in S
      PROVE  e[o] < e[s] \/ (e[o] = e[s] /\ v[o] <= v[s])
  <2>1. rank[o] <= rank[s]
    BY <1>2, <1>3
  <2>2. 200 * e[o] + v[o] <= 200 * e[s] + v[s]
    BY <2>1
  <2>3. e[o] \in -124..80 /\ e[s] \in -124..80 /\ v[o] \in 1..130 /\ v[s] \in 1..130
    OBVIOUS
  <2>4. \A a, b \in -124..80, c, d \in 1..130 :
          200 * a + c <= 200 * b + d => a < b \/ (a = b /\ c <= d)
    OBVIOUS
  <2> QED
    BY ONLY <2>2, <2>3, <2>4, ZenonT(30)
<1> QED
  BY <1>4

\* The worst critical reading is one of the readings.
LEMMA WorstIsDegrees ==
  ASSUME NEW p, WellFormed(p), NEW r, Sensed(r), Critical(p, r) # {}
  PROVE  WorstCritical(p, r) \in Degrees
<1> DEFINE hot == Critical(p, r)
           e == [s \in hot |-> r[s] - p.critical[s]]
           v == [s \in hot |-> r[s]]
<1>1. ASSUME NEW s \in hot
      PROVE  s \in DOMAIN r /\ r[s] \in 1..130 /\ p.critical[s] \in 50..125
  BY DEF Critical, WellFormed, Policy, Sensed
<1>2. e \in [hot -> -124..80] /\ v \in [hot -> 1..130]
  <2> HIDE DEF hot
  <2>1. ASSUME NEW s \in hot PROVE r[s] - p.critical[s] \in -124..80
    <3>1. r[s] \in 1..130 /\ p.critical[s] \in 50..125
      BY <1>1
    <3>2. \A a \in 1..130, c \in 50..125 : a - c \in -124..80
      OBVIOUS
    <3> QED
      BY <3>1, <3>2, Zenon
  <2> QED
    BY <1>1, <2>1
<1>3. PICK s \in hot : \A o \in hot : e[o] < e[s] \/ (e[o] = e[s] /\ v[o] <= v[s])
  <2> HIDE DEF hot, e, v
  <2> QED
    BY <1>2, FirstInOrder DEF hot
<1>4. \E t \in {r[u] : u \in hot} :
        \E u \in hot : /\ r[u] = t
                       /\ \A o \in hot : \/ r[o] - p.critical[o] < r[u] - p.critical[u]
                                         \/ /\ r[o] - p.critical[o] = r[u] - p.critical[u]
                                            /\ r[o] <= t
  <2> HIDE DEF hot
  <2> QED
    BY <1>3
<1>5. WorstCritical(p, r) \in {r[u] : u \in hot}
  <2> HIDE DEF hot
  <2> QED
    BY <1>4 DEF WorstCritical, hot
<1> QED
  BY <1>1, <1>5 DEF Degrees

-------------------------------------------------------------------------------
(* The curve.                                                                *)

\* Between two points the rounded line stays between 0 and 100.
LEMMA LineBounded ==
  ASSUME NEW a \in Percents, NEW b \in Percents, NEW span \in Nat, NEW k \in Nat, k < span
  PROVE  Rounded(a * span + (b - a) * k, span) \in Percents
<1> DEFINE n == a * span + (b - a) * k
<1>1. n = a * (span - k) + b * k
  BY DEF Percents
<1>2. a * (span - k) \in Int /\ 0 <= a * (span - k) /\ a * (span - k) <= 100 * (span - k)
  BY DEF Percents
<1>3. b * k \in Int /\ 0 <= b * k /\ b * k <= 100 * k
  BY DEF Percents
<1>4. n \in Int /\ 0 <= n /\ n <= 100 * span
  BY <1>1, <1>2, <1>3
<1> HIDE DEF n
<1>5. (2 * n + span) \div (2 * span) \in 0..100
  <2> DEFINE q == (2 * n + span) \div (2 * span)
             d == 2 * span
  <2>1. d \in Nat /\ d > 0
    OBVIOUS
  <2>2. q \in Int /\ d * q <= 2 * n + span /\ 2 * n + span < d * (q + 1)
    BY <1>4, <2>1
  <2>3. q >= 0
    BY <1>4, <2>1
  <2>4. q <= 100
    <3>1. SUFFICES ASSUME q >= 101 PROVE FALSE
      BY <2>2
    <3>2. d * q >= d * 101
      BY <2>1, <2>2, <3>1
    <3> QED
      BY <1>4, <2>2, <3>2
  <2> QED
    BY <2>2, <2>3, <2>4
<1> QED
  BY <1>5 DEF Rounded, n, Percents

\* Whatever the temperature, a curve asks for a percentage.
LEMMA CurveBounded ==
  ASSUME NEW p, WellFormed(p), p.mode = "curve", NEW t \in Int
  PROVE  CurvePercent(p.points, t) \in Percents
<1> DEFINE points == p.points
           last   == Len(points)
           above  == {i \in 1..last : t < points[i].at}
<1>1. /\ points \in Seq([at : 0..120, percent : Percents]) /\ last \in 3..8
      /\ \A i \in 2..last : points[i - 1].at < points[i].at
      /\ last = Len(points)
  BY DEF WellFormed, Policy
<1> HIDE DEF points, last
<1>2. \A i \in 1..last : points[i].at \in Int /\ points[i].percent \in Percents
  <2>1. ASSUME NEW i \in 1..last PROVE points[i] \in [at : 0..120, percent : Percents]
    BY <1>1, ElementOfSeq, Zenon
  <2> QED
    BY <2>1
<1>3. CASE t <= points[1].at
  <2>1. CurvePercent(points, t) = points[1].percent
    BY <1>3 DEF CurvePercent
  <2> QED
    BY <1>1, <1>2, <2>1 DEF points
<1>4. CASE t > points[1].at /\ above = {}
  <2>1. CurvePercent(points, t) = points[last].percent
    BY <1>1, <1>2, <1>4 DEF CurvePercent, last
  <2> QED
    BY <1>1, <1>2, <2>1 DEF points
<1>5. CASE t > points[1].at /\ above # {}
  <2>1. \E j \in above : \A k \in above : j <= k
    <3>1. above \in SUBSET Nat
      BY <1>1
    <3> HIDE DEF above
    <3> QED
      BY <1>5, <3>1, LeastNatural
  <2> DEFINE i    == CHOOSE j \in above : \A k \in above : j <= k
             span == points[i].at - points[i - 1].at
             k    == t - points[i - 1].at
  <2>2. i \in above /\ \A j \in above : i <= j
    <3> HIDE DEF above
    <3> QED
      BY <2>1
  <2> HIDE DEF i
  <2>3. i \in 1..last /\ t < points[i].at
    BY <2>2
  <2>4. i \in 2..last
    <3>1. i # 1
      BY <1>1, <1>2, <1>5, <2>3
    <3> QED
      BY <1>1, <2>3, <3>1
  <2>5. i - 1 \in 1..last /\ i - 1 \notin above
    BY <1>1, <2>2, <2>4
  <2>6. points[i - 1].at <= t
    BY <1>2, <2>5
  <2>7. span \in Nat /\ k \in Nat /\ k < span
    BY <1>2, <2>3, <2>5, <2>6
  <2>8. points[i].percent \in Percents /\ points[i - 1].percent \in Percents
    BY <1>2, <2>3, <2>5
  <2>9. CurvePercent(points, t) =
          Rounded(points[i - 1].percent * span
                    + (points[i].percent - points[i - 1].percent) * k, span)
    <3>1. ~(t <= points[1].at)
      BY <1>1, <1>2, <1>5
    <3> QED
      BY <1>5, <3>1, Zenon DEF CurvePercent, last, i
  <2> HIDE DEF span, k
  <2> QED
    BY <2>7, <2>8, <2>9, LineBounded DEF points
<1> QED
  BY <1>1, <1>2, <1>3, <1>4, <1>5 DEF above

-------------------------------------------------------------------------------
(* The smoothing.                                                            *)

\* Smoothing gives a percentage no further below the last one than the step.
LEMMA SmoothedBounded ==
  ASSUME NEW p, WellFormed(p), NEW percent \in Percents, NEW previous \in Percents,
         NEW t, NEW lastTemp
  PROVE  /\ Smoothed(p, percent, t, previous, lastTemp) \in Percents
         /\ Smoothed(p, percent, t, previous, lastTemp) >= previous - p.maxDown
<1> DEFINE held == IF lastTemp # None /\ Distance(t, lastTemp) < p.hysteresis
                   THEN previous ELSE percent
           calm == IF Distance(held, previous) <= p.deadband THEN previous ELSE held
<1>1. p.maxDown \in 1..100
  BY DEF WellFormed, Policy
<1>2. calm \in Percents
  OBVIOUS
<1>3. Smoothed(p, percent, t, previous, lastTemp)
        = IF calm < previous - p.maxDown THEN previous - p.maxDown ELSE calm
  BY DEF Smoothed
<1> HIDE DEF calm
<1>4. CASE calm < previous - p.maxDown
  BY <1>1, <1>2, <1>3, <1>4 DEF Percents
<1>5. CASE ~(calm < previous - p.maxDown)
  BY <1>1, <1>2, <1>3, <1>5 DEF Percents
<1> QED
  BY <1>4, <1>5

\* A duty that the smoothing changes is above the deadband below the asked one:
\* whatever it returns, it is the last duty or not below what was asked.
LEMMA SmoothedFloor ==
  ASSUME NEW p, WellFormed(p), NEW percent \in Percents, NEW previous \in Percents,
         NEW t, NEW lastTemp
  PROVE  \/ /\ lastTemp # None /\ Distance(t, lastTemp) < p.hysteresis
            /\ Smoothed(p, percent, t, previous, lastTemp) = previous
         \/ Smoothed(p, percent, t, previous, lastTemp) + p.deadband >= percent
<1> DEFINE near == lastTemp # None /\ Distance(t, lastTemp) < p.hysteresis
           held == IF near THEN previous ELSE percent
           calm == IF Distance(held, previous) <= p.deadband THEN previous ELSE held
           s    == Smoothed(p, percent, t, previous, lastTemp)
<1>1. p.maxDown \in 1..100 /\ p.deadband \in 0..20
  BY DEF WellFormed, Policy
<1>2. s = IF calm < previous - p.maxDown THEN previous - p.maxDown ELSE calm
  BY DEF Smoothed
<1>3. CASE near
  <2>1. held = previous
    BY <1>3
  <2>2. calm = previous
    BY <2>1
  <2> HIDE DEF calm
  <2>3. s = previous
    BY <1>1, <1>2, <2>2 DEF Percents
  <2> QED
    BY <1>3, <2>3
<1>4. CASE ~near
  <2>1. held = percent
    BY <1>4
  <2>2. calm \in Percents /\ calm + p.deadband >= percent
    <3> HIDE DEF held
    <3> QED
      BY <1>1, <2>1 DEF Percents, Distance
  <2>3. s + p.deadband >= percent
    <3> HIDE DEF near, held, calm, s
    <3> QED
      BY <1>1, <1>2, <2>2 DEF Percents
  <2> QED
    BY <2>3, Zenon
<1> HIDE DEF near, held, calm, s
<1> QED
  BY <1>3, <1>4

-------------------------------------------------------------------------------
(* The two planners.                                                         *)

\* What a timer of missing readings may be.
Waits == 0..SensorTimeout \cup {None}

LEMMA DecisionTyped ==
  ASSUME NEW percent \in Percents, NEW source \in Sources, NEW t \in Degrees \cup {None}
  PROVE  Decision(percent, source, t) \in Decisions
BY DEF Decision, Decisions

\* The root service decides a percentage, and its timer stays one; it holds the
\* duty only while a curve has missed its readings for less than the timeout.
LEMMA HelperTyped ==
  ASSUME NEW p, WellFormed(p), NEW r, Sensed(r), NEW m, m.missing \in Waits,
         m.percent \in Percents \cup {None}
  PROVE  /\ HelperPlan(p, m, r) \in Decisions \cup {Hold}
         /\ HelperMissing(p, m, r) \in Waits
         /\ HelperPlan(p, m, r) = Hold => /\ Critical(p, r) = {} /\ p.mode = "curve"
                                          /\ DOMAIN r = {}
                                          /\ HelperMissing(p, m, r) < SensorTimeout
<1>1. p.failsafe \in Percents /\ p.percent \in Percents /\ p.mode \in {"curve", "preset", "fixed"}
  BY DEF WellFormed, Policy, Percents
<1>2. HelperMissing(p, m, r) \in Waits
  BY TimeoutAssumption DEF HelperMissing, Waits
<1>3. CASE Critical(p, r) # {}
  <2>1. HelperPlan(p, m, r) = Decision(p.failsafe, "critical", WorstCritical(p, r))
    BY <1>3 DEF HelperPlan
  <2>2. "critical" \in Sources /\ WorstCritical(p, r) \in Degrees
    BY <1>3, WorstIsDegrees DEF Sources
  <2> QED
    BY <1>1, <1>2, <2>1, <2>2, DecisionTyped, NoneIsNoDecision DEF Hold
<1>4. CASE Critical(p, r) = {} /\ p.mode # "curve"
  <2> DEFINE t == IF DOMAIN r = {} THEN None ELSE Hottest(p, r)
  <2>1. HelperPlan(p, m, r) = Decision(p.percent, p.mode, t)
    BY <1>4 DEF HelperPlan
  <2>2. p.mode \in Sources /\ t \in Degrees \cup {None}
    BY <1>1, <1>4, HottestIsDegrees DEF Sources
  <2> HIDE DEF t
  <2> QED
    BY <1>1, <1>2, <2>1, <2>2, DecisionTyped, NoneIsNoDecision DEF Hold
<1>5. CASE Critical(p, r) = {} /\ p.mode = "curve" /\ DOMAIN r = {}
  <2>1. Decision(p.failsafe, "failsafe", None) \in Decisions
    BY <1>1, DecisionTyped DEF Sources
  <2>2. HelperPlan(p, m, r) = IF HelperMissing(p, m, r) < SensorTimeout THEN Hold
                              ELSE Decision(p.failsafe, "failsafe", None)
    BY <1>5 DEF HelperPlan
  <2> QED
    BY <1>2, <1>5, <2>1, <2>2, NoneIsNoDecision DEF Hold
<1>6. CASE Critical(p, r) = {} /\ p.mode = "curve" /\ DOMAIN r # {}
  <2> DEFINE t == Hottest(p, r)
             c == CurvePercent(p.points, t)
             x == IF m.percent # None /\ m.source = "curve"
                  THEN Smoothed(p, c, t, m.percent, m.temp) ELSE c
  <2>1. t \in Degrees
    BY <1>6, HottestIsDegrees
  <2>2. HelperPlan(p, m, r) = Decision(x, "curve", t)
    BY <1>6 DEF HelperPlan
  <2> HIDE DEF t
  <2>3. c \in Percents
    BY <1>6, <2>1, CurveBounded DEF Degrees
  <2> HIDE DEF c
  <2>4. x \in Percents
    BY <2>3, SmoothedBounded
  <2> HIDE DEF x
  <2> QED
    BY <1>2, <2>1, <2>2, <2>4, DecisionTyped, NoneIsNoDecision DEF Sources, Hold
<1> QED
  BY <1>1, <1>2, <1>3, <1>4, <1>5, <1>6

\* While it holds the duty, the timer of the missing readings runs.
LEMMA HoldWaits ==
  ASSUME NEW p, WellFormed(p), NEW r, Sensed(r), NEW m, m.missing \in Waits,
         m.percent \in Percents \cup {None}, HelperPlan(p, m, r) = Hold
  PROVE  /\ HelperMissing(p, m, r) \in 0..(SensorTimeout - 1)
         /\ HelperMissing(p, m, r) = IF m.missing = None THEN 0 ELSE m.missing
<1>1. /\ Critical(p, r) = {} /\ p.mode = "curve" /\ DOMAIN r = {}
      /\ HelperMissing(p, m, r) < SensorTimeout
  BY HelperTyped
<1>2. HelperMissing(p, m, r) = IF m.missing = None THEN 0 ELSE m.missing
  BY <1>1 DEF HelperMissing
<1> QED
  BY <1>1, <1>2, TimeoutAssumption DEF Waits

\* A curve that goes on is smoothed against the last duty; any other decision of
\* a curve is the curve itself.
LEMMA CurveDecision ==
  ASSUME NEW p, WellFormed(p), NEW r, Sensed(r), NEW m, m.missing \in Waits,
         m.percent \in Percents \cup {None},
         HelperPlan(p, m, r) # Hold, HelperPlan(p, m, r).source = "curve"
  PROVE  LET d == HelperPlan(p, m, r)
             c == CurvePercent(p.points, d.temp)
         IN  /\ p.mode = "curve" /\ d.temp \in Degrees /\ c \in Percents
             /\ d.percent = IF m.percent # None /\ m.source = "curve"
                            THEN Smoothed(p, c, d.temp, m.percent, m.temp) ELSE c
<1>1. p.mode \in {"curve", "preset", "fixed"}
  BY DEF WellFormed, Policy
<1>2. Critical(p, r) = {} /\ p.mode = "curve" /\ DOMAIN r # {}
  BY <1>1 DEF HelperPlan, Decision
<1> DEFINE t == Hottest(p, r)
           c == CurvePercent(p.points, t)
           x == IF m.percent # None /\ m.source = "curve"
                THEN Smoothed(p, c, t, m.percent, m.temp) ELSE c
<1>3. t \in Degrees
  BY <1>2, HottestIsDegrees
<1>4. HelperPlan(p, m, r) = Decision(x, "curve", t)
  BY <1>2 DEF HelperPlan
<1>5. c \in Percents
  <2> HIDE DEF t
  <2> QED
    BY <1>2, <1>3, CurveBounded DEF Degrees
<1>6. HelperPlan(p, m, r).temp = t /\ HelperPlan(p, m, r).percent = x
  <2> HIDE DEF x, t
  <2> QED
    BY <1>4 DEF Decision
<1> HIDE DEF t
<1> QED
  BY <1>2, <1>3, <1>5, <1>6

\* So does the daemon.
LEMMA DaemonTyped ==
  ASSUME NEW p, WellFormed(p), NEW r, Sensed(r), NEW m, m.missing \in Waits,
         m.percent \in Percents \cup {None}
  PROVE  /\ DaemonPlan(p, m, r) \in Decisions \cup {Hold}
         /\ DaemonMissing(p, m, r) \in Waits
<1>1. p.failsafe \in Percents /\ p.percent \in Percents /\ p.mode \in {"curve", "preset", "fixed"}
  BY DEF WellFormed, Policy, Percents
<1>2. DaemonMissing(p, m, r) \in Waits
  BY TimeoutAssumption DEF DaemonMissing, Waits
<1>3. CASE p.mode # "curve"
  <2> DEFINE t == IF DOMAIN r = {} THEN None ELSE Hottest(p, r)
  <2>1. DaemonPlan(p, m, r) = Decision(p.percent, p.mode, t)
    BY <1>3 DEF DaemonPlan
  <2>2. p.mode \in Sources /\ t \in Degrees \cup {None}
    BY <1>1, <1>3, HottestIsDegrees DEF Sources
  <2> HIDE DEF t
  <2> QED
    BY <1>1, <1>2, <2>1, <2>2, DecisionTyped
<1>4. CASE p.mode = "curve" /\ Critical(p, r) # {}
  <2>1. DaemonPlan(p, m, r) = Decision(p.failsafe, "critical", WorstCritical(p, r))
    BY <1>4 DEF DaemonPlan
  <2>2. "critical" \in Sources /\ WorstCritical(p, r) \in Degrees
    BY <1>4, WorstIsDegrees DEF Sources
  <2> QED
    BY <1>1, <1>2, <2>1, <2>2, DecisionTyped
<1>5. CASE Critical(p, r) = {} /\ p.mode = "curve" /\ DOMAIN r = {}
  <2>1. DaemonPlan(p, m, r) \in {Hold, Decision(p.failsafe, "failsafe", None)}
    BY <1>5 DEF DaemonPlan
  <2>2. "failsafe" \in Sources
    BY DEF Sources
  <2> QED
    BY <1>1, <1>2, <2>1, <2>2, DecisionTyped
<1>6. CASE Critical(p, r) = {} /\ p.mode = "curve" /\ DOMAIN r # {}
  <2> DEFINE t == Hottest(p, r)
             c == CurvePercent(p.points, t)
             x == DaemonSmoothed(p, c, t, m)
  <2>1. t \in Degrees
    BY <1>6, HottestIsDegrees
  <2>2. DaemonPlan(p, m, r) = Decision(x, "curve", t)
    BY <1>6 DEF DaemonPlan
  <2> HIDE DEF t
  <2>3. c \in Percents
    BY <1>6, <2>1, CurveBounded DEF Degrees
  <2> HIDE DEF c
  <2>4. x \in Percents
    BY <2>3, SmoothedBounded DEF DaemonSmoothed
  <2> HIDE DEF x
  <2> QED
    BY <1>2, <2>1, <2>2, <2>4, DecisionTyped DEF Sources
<1> QED
  BY <1>1, <1>2, <1>3, <1>4, <1>5, <1>6
===============================================================================
