---------------------------- MODULE FanLoop_proofs ----------------------------
(***************************************************************************)
(* What the control loop keeps, for every set of validated policies, every *)
(* set of readings and every length of its timers.                         *)
(*                                                                         *)
(* Each theorem rests on an invariant that ties a history to a timer of    *)
(* the loop: the cycles off the decided duty to the ages of the last write *)
(* and the last verification, the blind cycles to the age of the last      *)
(* reading, the source of a duty to the duty and its temperature.          *)
(***************************************************************************)
EXTENDS FanLoop, FanPolicy_proofs

Memories ==
  [percent : Percents \cup {None}, source : Sources \cup {"none"},
   temp : Degrees \cup {None}, written : 0..Rewrite \cup {None},
   verified : 0..Verify, missing : 0..SensorTimeout \cup {None}]

-------------------------------------------------------------------------------
(* Types.                                                                    *)

LEMMA GrownTyped ==
  ASSUME NEW limit \in Nat, NEW age \in 0..limit \cup {None}
  PROVE  /\ Grown(age, limit) \in 0..limit \cup {None}
         /\ age # None => Grown(age, limit) \in 0..limit
BY NoneIsNoNumber DEF Grown

LEMMA RememberedTyped ==
  ASSUME memory \in Memories
  PROVE  Remembered \in Memories
<1>1. Rewrite \in Nat /\ Verify \in Nat /\ SensorTimeout \in Nat
  BY CycleAssumption, TimeoutAssumption
<1>2. FreshMemory \in Memories
  BY <1>1 DEF FreshMemory, Memories
<1>3. Older \in Memories
  <2>1. /\ Grown(memory.written, Rewrite) \in 0..Rewrite \cup {None}
        /\ Grown(memory.missing, SensorTimeout) \in 0..SensorTimeout \cup {None}
    BY <1>1, GrownTyped DEF Memories
  <2>2. memory.verified \in 0..Verify /\ memory.verified # None
    BY <1>1, NoneIsNoNumber DEF Memories
  <2>3. Grown(memory.verified, Verify) \in 0..Verify
    BY <1>1, <2>2, GrownTyped
  <2> QED
    BY <2>1, <2>3 DEF Older, Memories
<1> QED
  BY <1>2, <1>3 DEF Remembered

\* With a policy to follow, the decision and the memory of the cycle are typed.
LEMMA CycleTyped ==
  ASSUME TypeOK, policy # None
  PROVE  /\ Wanted \in Decisions \cup {Hold}
         /\ Now \in Memories
         /\ Remembered \in Memories
<1>1. WellFormed(policy) /\ Sensed(readings)
  BY InputAssumption DEF TypeOK
<1>2. Remembered \in Memories
  BY RememberedTyped DEF TypeOK, Memories
<1>3. Remembered.missing \in Waits /\ Remembered.percent \in Percents \cup {None}
  BY <1>2 DEF Memories, Waits
<1>4. /\ Wanted \in Decisions \cup {Hold}
      /\ HelperMissing(policy, Remembered, readings) \in Waits
  BY <1>1, <1>3, HelperTyped DEF Wanted
<1> QED
  BY <1>2, <1>4 DEF Now, Memories, Waits

LEMMA NoteTyped ==
  ASSUME late \in Nat, NEW clean, NEW x, Note(clean, x)
  PROVE  late' \in Nat /\ blind' \in Nat
BY DEF Note

LEMMA WriteTyped ==
  ASSUME TypeOK, Active, NEW outcome, NEW verified \in 0..Verify, Write(outcome, verified)
  PROVE  /\ followed' \in Policies \cup {None} /\ driven' \in BOOLEAN
         /\ hw' \in Percents \cup {Firmware} /\ memory' \in Memories
         /\ late' \in Nat /\ blind' \in Nat
<1>1. policy # None /\ Wanted # Hold
  BY DEF Active, Deciding
<1>2. Wanted \in Decisions /\ Now \in Memories
  BY <1>1, CycleTyped DEF Hold
<1>3. Wanted.percent \in Percents /\ Wanted.source \in Sources /\ Wanted.temp \in Degrees \cup {None}
  BY <1>2 DEF Decisions
<1>4. 0 \in 0..Rewrite /\ 0 \in 0..Verify
  BY CycleAssumption
<1>5. memory' \in Memories
  BY <1>2, <1>3, <1>4 DEF Write, Memories
<1> QED
  BY <1>3, <1>5, NoteTyped DEF Write, TypeOK

LEMMA InitTyped ==
  Init => TypeOK
<1> SUFFICES ASSUME Init PROVE TypeOK
  OBVIOUS
<1>1. FreshMemory \in Memories
  BY CycleAssumption, TimeoutAssumption DEF FreshMemory, Memories
<1> QED
  <2>1. late \in Nat /\ blind \in Nat
    BY DEF Init
  <2>2. memory \in Memories
    BY <1>1 DEF Init
  <2>3. policy \in Policies \cup {None} /\ followed \in Policies \cup {None}
    BY DEF Init
  <2> QED
    BY <2>1, <2>2, <2>3 DEF Init, TypeOK, Memories

\* Every step keeps the types.
LEMMA TypeStep ==
  TypeOK /\ [Next]_vars => TypeOK'
<1> SUFFICES ASSUME TypeOK, [Next]_vars PROVE TypeOK'
  OBVIOUS
<1> USE DEF Memories
<1>0. Remembered \in Memories
  BY RememberedTyped DEF TypeOK
<1>1. ASSUME NEW o \in Outcomes, StepIdle(o) PROVE TypeOK'
  BY <1>0, <1>1 DEF StepIdle, TypeOK, world
<1>2. ASSUME NEW o \in Outcomes, StepWrite(o) PROVE TypeOK'
  <2>1. Active /\ Write(o, Now.verified) /\ EndTakeover
    BY <1>2 DEF StepWrite
  <2>2. Now.verified \in 0..Verify
    BY <2>1, CycleTyped DEF Active, Deciding
  <2> QED
    BY <2>1, <2>2, WriteTyped DEF TypeOK, EndTakeover
<1>3. ASSUME NEW o \in Outcomes, StepVerify(o) PROVE TypeOK'
  <2>1. Active /\ EndTakeover /\ 0 \in 0..Verify
    BY <1>3, CycleAssumption DEF StepVerify
  <2>2. Now \in Memories
    BY <2>1, CycleTyped DEF Active, Deciding
  <2>3. CASE hw = Wanted.percent
    <3>1. memory' \in Memories
      BY <1>3, <2>1, <2>2, <2>3 DEF StepVerify
    <3> QED
      BY <1>3, <2>1, <2>3, <3>1, NoteTyped DEF StepVerify, TypeOK, EndTakeover
  <2>4. CASE hw # Wanted.percent
    BY <1>3, <2>1, <2>4, WriteTyped DEF StepVerify, TypeOK, EndTakeover
  <2> QED
    BY <2>3, <2>4
<1>4. CASE StepWaitDriver
  BY <1>0, <1>4 DEF StepWaitDriver, TypeOK, world
<1>5. CASE StepHold
  BY <1>5, CycleTyped DEF StepHold, TypeOK, world
<1>6. CASE StepPaused
  BY <1>6, CycleTyped DEF StepPaused, Deciding, TypeOK, world
<1>7. CASE StepWait
  BY <1>7, CycleTyped, NoteTyped DEF StepWait, Active, Deciding, TypeOK, EndTakeover
<1>8. CASE StepTrust
  BY <1>8, CycleTyped, NoteTyped DEF StepTrust, Active, Deciding, TypeOK, EndTakeover
<1>9. CASE World
  BY <1>9, InputAssumption
     DEF World, Sense, SavePolicy, Takeover, Resume, Drift, Reload, TypeOK, world, loop
<1>10. CASE UNCHANGED vars
  BY <1>10 DEF vars, TypeOK
<1> QED
  BY <1>1, <1>2, <1>3, <1>4, <1>5, <1>6, <1>7, <1>8, <1>9, <1>10 DEF Next, Cycle

(* The loop decides and remembers nothing but percentages, degrees and ages  *)
(* within their limits.                                                      *)
THEOREM TypesHold ==
  Spec => []TypeOK
BY InitTyped, TypeStep, PTL DEF Spec

-------------------------------------------------------------------------------
(* The verification interval.                                                *)

\* The cycles off the decided duty are no older than the last verification,
\* nor, while a write has to wait, than the last write.
LateInv ==
  /\ RegulationBound
  /\ late <= memory.verified
  /\ (memory.written # None /\ memory.written < Rewrite) => late <= memory.written

\* A write that ends well puts the channel at the duty, another is not counted.
LEMMA WriteResets ==
  ASSUME NEW outcome, NEW verified, Write(outcome, verified)
  PROVE  late' = 0 /\ blind' = 0
BY DEF Write, Note

\* Only a cycle that waits or trusts leaves the channel off the decided duty.
LEMMA LateGrows ==
  ASSUME Cycle, late' # 0
  PROVE  (StepWait \/ StepTrust) /\ late' = late + 1 /\ memory' = Now
<1>1. ASSUME NEW o \in Outcomes, StepIdle(o) PROVE FALSE
  BY <1>1 DEF StepIdle
<1>2. ASSUME NEW o \in Outcomes, StepWrite(o) PROVE FALSE
  BY <1>2, WriteResets DEF StepWrite
<1>3. ASSUME NEW o \in Outcomes, StepVerify(o) PROVE FALSE
  BY <1>3, WriteResets DEF StepVerify, Note
<1>4. CASE StepWait
  BY <1>4 DEF StepWait, Note
<1>5. CASE StepTrust
  BY <1>5 DEF StepTrust, Note
<1> QED
  BY <1>1, <1>2, <1>3, <1>4, <1>5 DEF Cycle, StepWaitDriver, StepHold, StepPaused

\* A cycle that waits or trusts has not dropped the memory.
LEMMA SamePolicy ==
  ASSUME TypeOK, StepWait \/ StepTrust
  PROVE  ~Reloaded /\ Remembered = Older
<1>1. Active /\ Wanted \in Decisions
  BY CycleTyped DEF StepWait, StepTrust, Active, Deciding, Hold
<1>2. CASE Reloaded
  <2>1. Now.percent = None /\ Now.written = None
    BY <1>2 DEF Now, Remembered, FreshMemory
  <2>2. Wanted.percent # None
    BY <1>1, NoneIsNoNumber DEF Decisions, Percents
  <2> QED
    BY <2>1, <2>2 DEF StepWait, StepTrust, MayWrite, Recent
<1> QED
  BY <1>2 DEF Remembered

LEMMA LateStep ==
  TypeOK /\ LateInv /\ [Next]_vars => LateInv'
<1> SUFFICES ASSUME TypeOK, LateInv, [Next]_vars PROVE LateInv'
  OBVIOUS
<1>0. /\ Rewrite \in Nat /\ Verify \in Nat /\ Rewrite <= Verify /\ 0 < Verify
      /\ late \in Nat /\ memory \in Memories
  BY CycleAssumption DEF TypeOK, Memories
<1>1. CASE Cycle /\ late' # 0
  <2>1. (StepWait \/ StepTrust) /\ late' = late + 1 /\ memory' = Now
    BY <1>1, LateGrows
  <2>2. Remembered = Older
    BY <2>1, SamePolicy
  <2>3. /\ memory'.verified = Grown(memory.verified, Verify)
        /\ memory'.written = Grown(memory.written, Rewrite)
    BY <1>0, <2>1, <2>2 DEF Now, Older, Memories
  <2>4. memory.verified \in 0..Verify /\ memory.written \in 0..Rewrite \cup {None}
    BY <1>0 DEF Memories
  <2>5. memory.verified # None
    BY <1>0, <2>4, NoneIsNoNumber
  <2>6. (memory'.written # None /\ memory'.written < Rewrite) => late' <= memory'.written
    BY <1>0, <2>1, <2>3, <2>4 DEF LateInv, Grown
  <2>7. CASE StepWait
    <3>1. memory'.written # None /\ memory'.written < Rewrite
      BY <2>1, <2>7 DEF StepWait, MayWrite, Recent
    <3>2. late' < Rewrite
      BY <1>0, <2>1, <2>3, <2>4, <2>6, <3>1, NoneIsNoNumber DEF Grown
    <3>3. late' <= memory'.verified
      BY <1>0, <2>1, <2>3, <2>4, <2>5, <3>2 DEF LateInv, Grown
    <3> QED
      BY <1>0, <2>1, <2>6, <3>2, <3>3 DEF LateInv, RegulationBound
  <2>8. CASE StepTrust
    <3>1. memory'.verified # Verify
      BY <2>1, <2>8 DEF StepTrust, Overdue
    <3>2. late' <= memory'.verified /\ memory'.verified < Verify
      BY <1>0, <2>1, <2>3, <2>4, <2>5, <3>1 DEF LateInv, Grown
    <3> QED
      BY <1>0, <2>1, <2>3, <2>4, <2>6, <3>2 DEF LateInv, RegulationBound, Grown
  <2> QED
    BY <2>1, <2>7, <2>8
<1>2. CASE late' = 0
  <2>1. memory' \in Memories
    BY TypeStep DEF TypeOK, Memories
  <2>2. memory'.verified \in 0..Verify /\ memory'.written \in 0..Rewrite \cup {None}
    BY <2>1 DEF Memories
  <2> QED
    BY <1>0, <1>2, <2>2 DEF LateInv, RegulationBound
<1>3. CASE World \/ UNCHANGED vars
  BY <1>3 DEF World, Sense, SavePolicy, Takeover, Resume, Drift, Reload, vars, loop,
              LateInv, RegulationBound
<1> QED
  BY <1>1, <1>2, <1>3 DEF Next

(* Whatever drifts, however often a user takes the channel over and gives it *)
(* back, however the policy and the readings change and whatever the lengths *)
(* of the intervals: clean cycles never leave a channel that step() is to    *)
(* drive away from the decided duty for a whole verification interval.       *)
THEOREM RegulationHolds ==
  Spec => []RegulationBound
<1>1. Init => LateInv
  <2>1. Init => late = 0 /\ memory.verified = Verify /\ memory.written = None
    BY DEF Init, FreshMemory
  <2> QED
    BY <2>1, CycleAssumption DEF LateInv, RegulationBound
<1>2. LateInv => RegulationBound
  BY DEF LateInv
<1> QED
  BY <1>1, <1>2, LateStep, TypesHold, PTL DEF Spec

-------------------------------------------------------------------------------
(* The wait for a reading.                                                   *)

\* The blind cycles are counted by the timer of the missing readings.
BlindInv ==
  /\ BlindBound
  /\ blind > 0 => memory.missing # None /\ blind <= memory.missing + 1

\* Only these cycles count as blind.
LEMMA BlindGrows ==
  ASSUME Cycle, blind' # 0
  PROVE  \/ StepHold
         \/ StepWaitDriver /\ ~Reloaded /\ blind' = blind
<1>1. ASSUME NEW o \in Outcomes, StepIdle(o) PROVE FALSE
  BY <1>1 DEF StepIdle
<1>2. ASSUME NEW o \in Outcomes, StepWrite(o) PROVE FALSE
  BY <1>2, WriteResets DEF StepWrite
<1>3. ASSUME NEW o \in Outcomes, StepVerify(o) PROVE FALSE
  BY <1>3, WriteResets DEF StepVerify, Note
<1>4. CASE StepWaitDriver
  BY <1>4 DEF StepWaitDriver
<1> QED
  BY <1>1, <1>2, <1>3, <1>4 DEF Cycle, StepPaused, StepWait, StepTrust, Note

LEMMA BlindStep ==
  TypeOK /\ BlindInv /\ [Next]_vars => BlindInv'
<1> SUFFICES ASSUME TypeOK, BlindInv, [Next]_vars PROVE BlindInv'
  OBVIOUS
<1>0. SensorTimeout \in Nat \ {0} /\ blind \in Nat /\ memory \in Memories
  BY TimeoutAssumption DEF TypeOK, Memories
<1>1. memory.missing \in Waits
  BY <1>0 DEF Memories, Waits
<1>2. CASE StepHold
  <2>1. WellFormed(policy) /\ Sensed(readings)
    BY <1>2, InputAssumption DEF TypeOK, StepHold
  <2>2. Remembered \in Memories /\ memory' = Now
    BY <1>2, CycleTyped DEF StepHold
  <2>3. Remembered.missing \in Waits /\ Remembered.percent \in Percents \cup {None}
    BY <2>2 DEF Memories, Waits
  <2>4. memory'.missing = HelperMissing(policy, Remembered, readings)
    BY <2>2 DEF Now, Memories
  <2>5. /\ memory'.missing \in 0..(SensorTimeout - 1)
        /\ memory'.missing = IF Remembered.missing = None THEN 0 ELSE Remembered.missing
    BY <1>2, <2>1, <2>3, <2>4, HoldWaits DEF StepHold, Wanted
  <2>6. memory'.missing # None
    BY <1>0, <2>5, NoneIsNoNumber
  <2>7. CASE Reloaded \/ blind = 0
    BY <1>0, <1>2, <2>5, <2>6, <2>7 DEF StepHold, BlindInv, BlindBound
  <2>8. CASE ~Reloaded /\ blind > 0
    <3>1. Remembered.missing = Grown(memory.missing, SensorTimeout)
      BY <1>0, <2>8 DEF Remembered, Older, Memories
    <3>2. memory.missing # None /\ memory.missing \in 0..SensorTimeout
      BY <1>1, <2>8 DEF BlindInv, Waits
    <3>3. Remembered.missing # None
      BY <1>0, <3>1, <3>2, NoneIsNoNumber DEF Grown
    <3>4. memory'.missing = memory.missing + 1
      BY <1>0, <2>5, <3>1, <3>2, <3>3 DEF Grown
    <3> QED
      BY <1>0, <1>2, <2>5, <2>6, <2>8, <3>2, <3>4 DEF StepHold, BlindInv, BlindBound
  <2> QED
    BY <1>0, <2>7, <2>8
<1>3. CASE StepWaitDriver /\ ~Reloaded /\ blind' = blind
  <2>1. memory'.missing = Grown(memory.missing, SensorTimeout)
    BY <1>0, <1>3 DEF StepWaitDriver, Remembered, Older, Memories
  <2>2. blind > 0 => memory'.missing # None /\ blind <= memory'.missing + 1
    BY <1>0, <1>1, <2>1, NoneIsNoNumber DEF BlindInv, BlindBound, Grown, Waits
  <2> QED
    BY <1>3, <2>2 DEF BlindInv, BlindBound
<1>4. CASE blind' = 0
  BY <1>0, <1>4 DEF BlindInv, BlindBound
<1>5. CASE World \/ UNCHANGED vars
  BY <1>5 DEF World, Sense, SavePolicy, Takeover, Resume, Drift, Reload, vars, loop,
              BlindInv, BlindBound
<1> QED
  BY <1>2, <1>3, <1>4, <1>5, BlindGrows DEF Next

(* Through takeovers, driver reloads and changes of the policy, plan() holds *)
(* a duty for want of a reading no longer than the sensor timeout, whatever  *)
(* its length.                                                               *)
THEOREM BlindHolds ==
  Spec => []BlindBound
<1>1. Init => BlindInv
  BY TimeoutAssumption DEF Init, BlindInv, BlindBound
<1>2. BlindInv => BlindBound
  BY DEF BlindInv
<1> QED
  BY <1>1, <1>2, BlindStep, TypesHold, PTL DEF Spec

-------------------------------------------------------------------------------
(* The steps of a curve.                                                     *)

\* What a cycle may do to the remembered write: keep it, drop it with the policy,
\* or replace it by the decision, which then is another duty than the last one or
\* than the one the channel is at.
Kept ==
  /\ memory'.percent = Remembered.percent /\ memory'.source = Remembered.source
  /\ memory'.temp = Remembered.temp
  /\ hw' = hw \/ policy = None
Replaced ==
  /\ Deciding /\ Wanted \in Decisions
  /\ memory'.percent = Wanted.percent /\ memory'.source = Wanted.source
  /\ memory'.temp = Wanted.temp /\ hw' = Wanted.percent
  /\ Wanted.percent # Remembered.percent \/ Wanted.percent # hw

LEMMA WriteKeepsOrReplaces ==
  ASSUME TypeOK, Active, NEW outcome, NEW verified, Write(outcome, verified),
         Wanted.percent # Now.percent \/ Wanted.percent # hw
  PROVE  followed' = policy /\ (Kept \/ Replaced)
<1>1. policy # None /\ Wanted # Hold
  BY DEF Active, Deciding
<1>2. Wanted \in Decisions /\ Now \in Memories /\ Remembered \in Memories
  BY <1>1, CycleTyped DEF Hold
<1>3. /\ Now.percent = Remembered.percent /\ Now.source = Remembered.source
      /\ Now.temp = Remembered.temp
  BY <1>2 DEF Now, Memories
<1>4. CASE outcome = "ok"
  BY <1>2, <1>3, <1>4 DEF Write, Replaced, Active, Memories
<1>5. CASE outcome # "ok"
  BY <1>2, <1>3, <1>5 DEF Write, Kept, Memories
<1> QED
  BY <1>4, <1>5 DEF Write

LEMMA MemoryStep ==
  ASSUME TypeOK, Cycle
  PROVE  followed' = policy /\ (Kept \/ Replaced)
<1>0. Remembered \in Memories
  BY RememberedTyped DEF TypeOK, Memories
<1>n. ASSUME memory' = Now, hw' = hw PROVE Kept
  BY <1>0, <1>n DEF Now, Kept, Memories
<1>1. ASSUME NEW o \in Outcomes, StepIdle(o) PROVE followed' = policy /\ Kept
  BY <1>1 DEF StepIdle, Kept
<1>2. ASSUME NEW o \in Outcomes, StepWrite(o)
      PROVE  followed' = policy /\ (Kept \/ Replaced)
  BY <1>2, WriteKeepsOrReplaces DEF StepWrite
<1>3. ASSUME NEW o \in Outcomes, StepVerify(o)
      PROVE  followed' = policy /\ (Kept \/ Replaced)
  <2>1. CASE hw = Wanted.percent
    <3>1. Now \in Memories
      BY <1>3, CycleTyped DEF StepVerify, Active, Deciding
    <3> QED
      BY <1>0, <1>3, <2>1, <3>1 DEF StepVerify, Now, Kept, Memories
  <2>2. CASE hw # Wanted.percent
    BY <1>3, <2>2, WriteKeepsOrReplaces DEF StepVerify
  <2> QED
    BY <2>1, <2>2
<1>4. CASE StepWaitDriver
  BY <1>4 DEF StepWaitDriver, Kept
<1>5. CASE StepHold \/ StepPaused \/ StepWait \/ StepTrust
  BY <1>5, <1>n DEF StepHold, StepPaused, StepWait, StepTrust
<1> QED
  BY <1>1, <1>2, <1>3, <1>4, <1>5 DEF Cycle

LEMMA WorldStep ==
  ASSUME World \/ UNCHANGED vars
  PROVE  memory' = memory /\ followed' = followed
BY DEF World, Sense, SavePolicy, Takeover, Resume, Drift, Reload, vars, loop

\* What the decision to follow a curve owes to the curve and to the last write.
LEMMA CurveWanted ==
  ASSUME TypeOK, Deciding, Wanted.source = "curve"
  PROVE  /\ policy \in Policies /\ WellFormed(policy) /\ policy.mode = "curve"
         /\ Wanted.temp \in Degrees /\ Wanted.percent \in Percents
         /\ CurvePercent(policy.points, Wanted.temp) \in Percents
         /\ Wanted.percent =
              IF Remembered.percent # None /\ Remembered.source = "curve"
              THEN Smoothed(policy, CurvePercent(policy.points, Wanted.temp), Wanted.temp,
                            Remembered.percent, Remembered.temp)
              ELSE CurvePercent(policy.points, Wanted.temp)
<1>1. /\ policy \in Policies /\ WellFormed(policy) /\ Sensed(readings)
      /\ policy # None /\ Wanted # Hold
  BY InputAssumption DEF TypeOK, Deciding
<1>2. Remembered \in Memories /\ Wanted \in Decisions
  BY <1>1, CycleTyped DEF Hold
<1>3. Remembered.missing \in Waits /\ Remembered.percent \in Percents \cup {None}
  BY <1>2 DEF Memories, Waits
<1> QED
  BY <1>1, <1>2, <1>3, CurveDecision DEF Wanted, Decisions

\* A curve is remembered with the duty that it gave.
SourceInv == memory.source = "curve" => memory.percent # None

LEMMA RememberedSource ==
  ASSUME TypeOK, SourceInv
  PROVE  Remembered.source = "curve" =>
           /\ followed = policy /\ Remembered.percent = memory.percent
           /\ Remembered.source = memory.source /\ Remembered.temp = memory.temp
           /\ Remembered.percent # None
BY DEF Remembered, Reloaded, Older, FreshMemory, SourceInv, TypeOK

LEMMA SourceStep ==
  TypeOK /\ SourceInv /\ [Next]_vars => SourceInv'
<1> SUFFICES ASSUME TypeOK, SourceInv, [Next]_vars PROVE SourceInv'
  OBVIOUS
<1>1. CASE Cycle
  <2>1. CASE Kept
    BY <2>1, RememberedSource DEF Kept, SourceInv
  <2>2. CASE Replaced
    BY <2>2, NoneIsNoNumber DEF Replaced, Decisions, Percents, SourceInv
  <2> QED
    BY <1>1, <2>1, <2>2, MemoryStep
<1>2. CASE World \/ UNCHANGED vars
  BY <1>2, WorldStep DEF SourceInv
<1> QED
  BY <1>1, <1>2 DEF Next

LEMMA GentleStep ==
  ASSUME TypeOK, SourceInv, [Next]_vars,
         followed' = followed, memory'.percent # memory.percent,
         memory.source = "curve", memory'.source = "curve"
  PROVE  memory'.percent >= memory.percent - followed.maxDown
<1>1. Cycle /\ (Kept \/ Replaced) /\ followed' = policy
  BY WorldStep, MemoryStep DEF Next
<1>2. ~Reloaded /\ Remembered = Older
  BY <1>1 DEF Reloaded, Remembered
<1>3. /\ Remembered.percent = memory.percent /\ Remembered.source = memory.source
      /\ Remembered.temp = memory.temp
  BY <1>2 DEF Older, TypeOK
<1>4. Replaced
  BY <1>1, <1>3 DEF Kept
<1>5. memory.percent \in Percents /\ memory.percent # None
  BY DEF SourceInv, TypeOK
<1> QED
  BY <1>1, <1>3, <1>4, <1>5, CurveWanted, SmoothedBounded DEF Replaced

(* Whatever happens between them, two consecutive writes of one curve never  *)
(* step down by more than the policy allows.                                 *)
THEOREM StepsDownGently ==
  Spec => DownGently
<1>1. Init => SourceInv
  BY DEF Init, FreshMemory, SourceInv
<1>2. TypeOK /\ SourceInv /\ [Next]_vars =>
        [(/\ followed' = followed /\ memory'.percent # memory.percent
          /\ memory.source = "curve" /\ memory'.source = "curve")
           => memory'.percent >= memory.percent - followed.maxDown]_vars
  BY GentleStep
<1> QED
  BY <1>1, <1>2, SourceStep, TypesHold, PTL DEF Spec, DownGently

-------------------------------------------------------------------------------
(* The floor of a curve.                                                     *)

\* What the curve asked for when it was last written, give or take the deadband.
CurveInv ==
  /\ followed = None => memory.percent = None
  /\ memory.percent # None => hw = memory.percent
  /\ memory.source = "curve" =>
       /\ memory.percent # None /\ memory.temp \in Degrees
       /\ memory.percent + followed.deadband >= CurvePercent(followed.points, memory.temp)

\* Nobody but the loop moves the channel.
Undisturbed == Disturbances = {} /\ UserDuties = {}

\* A smoothed duty owes its distance from the curve to the deadband, or it is the
\* last duty, at a temperature that the hysteresis does not tell from the last one.
LEMMA CurveSmoothed ==
  ASSUME TypeOK, CurveInv, Deciding, Wanted.source = "curve"
  PROVE  \/ Wanted.percent + policy.deadband >= CurvePercent(policy.points, Wanted.temp)
         \/ /\ Remembered.percent = memory.percent /\ Remembered.temp = memory.temp
            /\ memory.source = "curve" /\ followed = policy
            /\ Wanted.percent = memory.percent
            /\ Distance(Wanted.temp, memory.temp) < policy.hysteresis
<1> DEFINE c == CurvePercent(policy.points, Wanted.temp)
<1>1. /\ WellFormed(policy) /\ Wanted.percent \in Percents /\ c \in Percents
      /\ Wanted.percent =
           IF Remembered.percent # None /\ Remembered.source = "curve"
           THEN Smoothed(policy, c, Wanted.temp, Remembered.percent, Remembered.temp)
           ELSE c
  BY CurveWanted
<1>2. policy.deadband \in 0..20
  BY <1>1 DEF WellFormed, Policy
<1> HIDE DEF c
<1>3. CASE ~(Remembered.percent # None /\ Remembered.source = "curve")
  <2>1. Wanted.percent = c
    BY <1>1, <1>3
  <2>2. Wanted.percent + policy.deadband >= c
    BY <1>1, <1>2, <2>1 DEF Percents
  <2> QED
    BY <2>2 DEF c
<1>4. CASE Remembered.percent # None /\ Remembered.source = "curve"
  <2>1. SourceInv
    BY DEF CurveInv, SourceInv
  <2>2. /\ followed = policy /\ Remembered.percent = memory.percent
        /\ memory.source = "curve" /\ Remembered.temp = memory.temp
        /\ memory.percent \in Percents
    BY <1>4, <2>1, RememberedSource DEF TypeOK
  <2>3. Wanted.percent = Smoothed(policy, c, Wanted.temp, memory.percent, memory.temp)
    BY <1>1, <1>4, <2>2
  <2>4. \/ /\ memory.temp # None /\ Distance(Wanted.temp, memory.temp) < policy.hysteresis
           /\ Wanted.percent = memory.percent
        \/ Wanted.percent + policy.deadband >= c
    BY <1>1, <2>2, <2>3, SmoothedFloor
  <2> QED
    BY <2>2, <2>4 DEF c
<1> QED
  BY <1>3, <1>4

LEMMA CurveStep ==
  ASSUME Undisturbed
  PROVE  TypeOK /\ CurveInv /\ [Next]_vars => CurveInv'
<1> SUFFICES ASSUME TypeOK, CurveInv, [Next]_vars PROVE CurveInv'
  OBVIOUS
<1>1. CASE Cycle /\ Kept
  <2>1. followed' = policy
    BY <1>1, MemoryStep
  <2>2. CASE Reloaded
    BY <1>1, <2>2 DEF Kept, Remembered, FreshMemory, CurveInv
  <2>3. CASE ~Reloaded
    <3>1. /\ memory'.percent = memory.percent /\ memory'.source = memory.source
          /\ memory'.temp = memory.temp /\ followed' = followed
      BY <1>1, <2>1, <2>3 DEF Kept, Remembered, Older, Reloaded, TypeOK
    <3> QED
      BY <1>1, <2>1, <3>1 DEF Kept, CurveInv
  <2> QED
    BY <2>2, <2>3
<1>2. CASE Cycle /\ Replaced
  <2>1. followed' = policy /\ policy # None
    BY <1>2, MemoryStep DEF Replaced, Deciding
  <2>2. memory'.percent # None /\ hw' = memory'.percent
    BY <1>2, NoneIsNoNumber DEF Replaced, Decisions, Percents
  <2>3. ASSUME Wanted.source = "curve"
        PROVE  /\ Wanted.temp \in Degrees
               /\ Wanted.percent + policy.deadband >= CurvePercent(policy.points, Wanted.temp)
    <3>1. Wanted.temp \in Degrees
      BY <1>2, <2>3, CurveWanted DEF Replaced
    <3>2. CASE /\ Remembered.percent = memory.percent /\ memory.source = "curve"
               /\ Wanted.percent = memory.percent
      \* Then neither the last duty nor the channel differs: nothing is written.
      BY <1>2, <3>2 DEF Replaced, CurveInv
    <3> QED
      BY <1>2, <2>3, <3>1, <3>2, CurveSmoothed DEF Replaced
  <2> QED
    BY <1>2, <2>1, <2>2, <2>3 DEF Replaced, CurveInv
<1>3. CASE World \/ UNCHANGED vars
  <2>1. memory' = memory /\ followed' = followed
    BY <1>3, WorldStep
  <2>2. hw' = hw
    BY <1>3 DEF Undisturbed, World, Sense, SavePolicy, Takeover, Resume, Drift, Reload, vars
  <2> QED
    BY <2>1, <2>2 DEF CurveInv
<1> QED
  BY <1>1, <1>2, <1>3, MemoryStep DEF Next

LEMMA FloorFollows ==
  ASSUME TypeOK, CurveInv
  PROVE  CurveFloor
<1> SUFFICES ASSUME Deciding, Wanted.source = "curve"
             PROVE  \E x \in CurveAround(policy, Wanted.temp) :
                      Wanted.percent + policy.deadband >= x
  BY DEF CurveFloor
<1> DEFINE t == Wanted.temp
<1>1. WellFormed(policy) /\ t \in Int
  BY CurveWanted DEF Degrees
<1>2. policy.hysteresis \in 0..10
  BY <1>1 DEF WellFormed, Policy
<1> HIDE DEF t
<1>3. \A u \in Int : (u = t \/ Distance(u, t) < policy.hysteresis)
                       => CurvePercent(policy.points, u) \in CurveAround(policy, t)
  <2>1. ASSUME NEW u \in Int, u = t \/ Distance(u, t) < policy.hysteresis
        PROVE  u \in (t - policy.hysteresis)..(t + policy.hysteresis)
    BY <1>1, <1>2, <2>1 DEF Distance
  <2> QED
    BY <2>1 DEF CurveAround
<1>4. CASE Wanted.percent + policy.deadband >= CurvePercent(policy.points, t)
  BY <1>1, <1>3, <1>4 DEF t
<1>5. CASE /\ memory.source = "curve" /\ followed = policy
           /\ Wanted.percent = memory.percent
           /\ Distance(t, memory.temp) < policy.hysteresis
  <2>1. /\ memory.temp \in Int
        /\ memory.percent + policy.deadband >= CurvePercent(policy.points, memory.temp)
    BY <1>5 DEF CurveInv, Degrees
  <2>2. Distance(memory.temp, t) < policy.hysteresis
    BY <1>1, <1>5, <2>1 DEF Distance
  <2> QED
    BY <1>3, <1>5, <2>1, <2>2 DEF t
<1> QED
  BY <1>4, <1>5, CurveSmoothed DEF t

(* While nobody else moves the channel, the smoothing never keeps the fan    *)
(* further below the curve than the hysteresis and the deadband allow,       *)
(* whatever the curve, the readings and the order of writes that fail.       *)
THEOREM FloorHolds ==
  ASSUME Undisturbed
  PROVE  Spec => []CurveFloor
<1>1. Init => CurveInv
  BY DEF Init, FreshMemory, CurveInv
<1>2. TypeOK /\ CurveInv /\ [Next]_vars => CurveInv'
  BY CurveStep
<1>3. TypeOK /\ CurveInv => CurveFloor
  BY FloorFollows
<1> QED
  BY <1>1, <1>2, <1>3, TypesHold, PTL DEF Spec
===============================================================================
