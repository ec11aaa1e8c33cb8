-------------------------- MODULE FanControl_proofs --------------------------
(* Theorems about FanControl for any number of channels, duties, sessions,  *)
(* Quick Access helpers and requests, and any bounds: every state is typed, *)
(* and a boot that nobody has touched has one owner of the fan.             *)
EXTENDS FanControl, TLAPS

Kinds == {"nobody", "session", "decky", "service", "boot", "external"}

(* TypeOK is not inductive: apply_pwm records req.val, so the operation in  *)
(* hand must carry a duty, never the automatic mode, once it is under way.  *)
DutyInHand ==
  \A p \in Procs : pc[p] \in {"mode", "duty", "remember"} => req[p].val \in Duties

TypeInv == TypeOK /\ DutyInHand

LEMMA LabelFacts ==
  /\ LockedLabels \subseteq Labels
  /\ \A l \in {"idle", "off", "lock", "savePolicy", "unlinkPolicy", "dropOverride",
               "enable", "restart", "disable", "awaitStop", "stopped", "handOver",
               "unlinkPolicyX", "dropOverrideX", "loadState", "clearState", "takeBack",
               "planned", "mark", "markWrite", "resume", "resumeUnlink", "bankMode",
               "bankDuty", "note", "noteWrite", "top", "reload", "release", "plan",
               "override", "unlink", "compare", "check", "replay", "mode", "duty",
               "remember", "auto", "forget"} : l \in Labels
BY DEF Labels, SessionLabels, DeckyLabels, SvcLabels, BootLabels, LockedLabels

(* Every request that can be in hand is a Request.                          *)
LEMMA RequestsTyped ==
  /\ SessionRequests \subseteq Request /\ DeckyRequests \subseteq Request
  /\ \A op \in Ops : [NoRequest EXCEPT !.op = op] \in Request
  /\ \A op \in Ops, c \in Channels, v \in Duties \cup {Firmware} : SvcReq(op, c, v) \in Request
<1>1. SessionOps \subseteq Ops /\ {"fan", "resume"} \subseteq Ops
  BY DEF SessionOps, Ops
<1>2. SessionRequests \subseteq Request
  BY <1>1, RequestAssumption DEF Request
<1>3. DeckyRequests \subseteq Request
  BY <1>1, RequestAssumption DEF Request
<1>4. ASSUME NEW op \in Ops PROVE [NoRequest EXCEPT !.op = op] \in Request
  BY DEF NoRequest, Request
<1>5. ASSUME NEW op \in Ops, NEW c \in Channels, NEW v \in Duties \cup {Firmware}
      PROVE  SvcReq(op, c, v) \in Request
  BY DEF SvcReq, Request
<1>6. QED
  BY <1>2, <1>3, <1>4, <1>5

(* Where a process goes on after a failed operation is a label of its own.  *)
LEMMA LeaveTyped ==
  ASSUME TypeInv, NEW p \in Procs, NEW l \in Labels, Leave(p, l)
  PROVE  pc' \in [Procs -> Labels] /\ stopReq' \in BOOLEAN
BY LabelFacts DEF TypeInv, TypeOK, Leave, SvcGone
LEMMA AfterErrorTyped ==
  ASSUME NEW p \in Procs
  PROVE  AfterError(p) \in Labels
BY LabelFacts DEF AfterError

(* The verified writes, whoever makes them.                                 *)
LEMMA HardwareTyped ==
  ASSUME NEW p \in Procs, TypeInv, HardwareStep(p)
  PROVE  TypeInv'
<1> USE LabelFacts DEF TypeInv, TypeOK, Goto
<1>a. /\ p \in Procs /\ seen[p] \in SUBSET Channels
      /\ req[p].chans \in SUBSET Channels /\ req[p].val \in Duties \cup {Firmware}
      /\ req[p].pol \in Policy \cup {None}
  BY DEF Request, Procs
<1>1. CASE Acquire(p)
  <2>1. lock' \in Procs \cup {None}
    BY <1>1 DEF Acquire, WorkLabel
  <2>2. pc' \in [Procs -> Labels]
    BY <1>1 DEF Acquire, WorkLabel
  <2>3. seen' \in [Procs -> SUBSET Channels]
    BY <1>1, <1>a DEF Acquire, WorkLabel
  <2>4. DutyInHand'
    BY <1>1, <1>a DEF DutyInHand, Acquire, local, WorkLabel
  <2> QED
    BY <1>1, <2>1, <2>2, <2>3, <2>4 DEF Acquire, files, local, svc, ghost, bound, Kinds
<1>2. CASE LockTimeout(p)
  <2>1. pc' \in [Procs -> Labels]
    BY <1>2 DEF LockTimeout, Leave, SvcGone, AfterError
  <2>2. stopReq' \in BOOLEAN
    BY <1>2 DEF LockTimeout, Leave, SvcGone, AfterError
  <2>3. DutyInHand'
    BY <1>2, <1>a DEF DutyInHand, LockTimeout, local, Leave, SvcGone, AfterError
  <2> QED
    BY <1>2, <2>1, <2>2, <2>3 DEF LockTimeout, files, local, svc, ghost, bound, Kinds
<1>3. CASE ModeManual(p)
  <2>1. wasAuto' \in [Procs -> BOOLEAN]
    BY <1>3, <1>a DEF ModeManual, WriteReg, Manual, Kind
  <2>2. hw' \in [Channels -> Duties \cup {Firmware, Held}]
    BY <1>3, <1>a DEF ModeManual, WriteReg, Manual, Kind
  <2>3. by' \in [Channels -> Kinds]
    BY <1>3 DEF ModeManual, WriteReg, Manual, Kind, Kinds
  <2>4. pc' \in [Procs -> Labels]
    BY <1>3 DEF ModeManual, WriteReg, Manual, Kind
  <2>5. DutyInHand'
    BY <1>3, <1>a DEF DutyInHand, ModeManual, local, WriteReg, Manual, Kind
  <2>t. torn' \in SUBSET Channels
    BY <1>3, <1>a DEF ModeManual, WriteReg
  <2> QED
    BY <1>3, <2>t, <2>1, <2>2, <2>3, <2>4, <2>5 DEF ModeManual, files, local, svc, ghost, bound, Kinds
<1>4. CASE WriteDuty(p)
  <2>1. hw' \in [Channels -> Duties \cup {Firmware, Held}]
    BY <1>4, <1>a DEF WriteDuty, WriteReg, Kind
  <2>2. by' \in [Channels -> Kinds]
    BY <1>4 DEF WriteDuty, WriteReg, Kind, Kinds
  <2>3. pc' \in [Procs -> Labels]
    BY <1>4 DEF WriteDuty, WriteReg, Kind
  <2>4. DutyInHand'
    BY <1>4, <1>a DEF DutyInHand, WriteDuty, local, WriteReg, Kind
  <2>t. torn' \in SUBSET Channels
    BY <1>4, <1>a DEF WriteDuty, WriteReg
  <2> QED
    BY <1>4, <2>t, <2>1, <2>2, <2>3, <2>4 DEF WriteDuty, files, local, svc, ghost, bound, Kinds
<1>5. CASE Remember(p)
  <2>1. applied' \in [Channels -> Duties \cup {None}]
    BY <1>5, <1>a DEF Remember, DutyInHand, Unlock, svc
  <2>2. lock' \in Procs \cup {None}
    BY <1>5 DEF Remember, Unlock, svc
  <2>3. svcChannel' \in Channels \cup {None}
    BY <1>5, <1>a DEF Remember, DutyInHand, Unlock, svc
  <2>4. svcPolicy' \in Policy \cup {None}
    BY <1>5, <1>a DEF Remember, DutyInHand, Unlock, svc
  <2>5. svcLast' \in Duties \cup {None}
    BY <1>5, <1>a DEF Remember, DutyInHand, Unlock, svc
  <2>6. pc' \in [Procs -> Labels]
    BY <1>5 DEF Remember, Unlock, svc
  <2>7. DutyInHand'
    BY <1>5, <1>a DEF DutyInHand, Remember, local, Unlock, svc
  <2> QED
    BY <1>5, <2>1, <2>2, <2>3, <2>4, <2>5, <2>6, <2>7 DEF Remember, files, local, svc, ghost, bound, Kinds
<1>6. CASE WriteAuto(p)
  <2>1. hw' \in [Channels -> Duties \cup {Firmware, Held}]
    BY <1>6, <1>a DEF WriteAuto, WriteReg, Kind
  <2>2. by' \in [Channels -> Kinds]
    BY <1>6 DEF WriteAuto, WriteReg, Kind, Kinds
  <2>3. pc' \in [Procs -> Labels]
    BY <1>6 DEF WriteAuto, WriteReg, Kind
  <2>4. DutyInHand'
    BY <1>6, <1>a DEF DutyInHand, WriteAuto, local, WriteReg, Kind
  <2>t. torn' \in SUBSET Channels
    BY <1>6, <1>a DEF WriteAuto, WriteReg
  <2> QED
    BY <1>6, <2>t, <2>1, <2>2, <2>3, <2>4 DEF WriteAuto, files, local, svc, ghost, bound, Kinds
<1>7. CASE Forget(p)
  <2>1. applied' \in [Channels -> Duties \cup {None}]
    BY <1>7, <1>a DEF Forget, Unlock, Leave, SvcGone, AfterError
  <2>2. lock' \in Procs \cup {None}
    BY <1>7 DEF Forget, Unlock, Leave, SvcGone, AfterError
  <2>3. pc' \in [Procs -> Labels]
    BY <1>7 DEF Forget, Unlock, Leave, SvcGone, AfterError
  <2>4. stopReq' \in BOOLEAN
    BY <1>7 DEF Forget, Unlock, Leave, SvcGone, AfterError
  <2>5. DutyInHand'
    BY <1>7, <1>a DEF DutyInHand, Forget, local, Unlock, Leave, SvcGone, AfterError
  <2> QED
    BY <1>7, <2>1, <2>2, <2>3, <2>4, <2>5 DEF Forget, files, local, svc, ghost, bound, Kinds
<1>8. QED
  BY <1>1, <1>2, <1>3, <1>4, <1>5, <1>6, <1>7 DEF HardwareStep

(* The steps of a root command session. *)
LEMMA SessionTyped ==
  ASSUME NEW p \in Sessions, TypeInv, SessionStep(p)
  PROVE  TypeInv'
<1> USE LabelFacts DEF TypeInv, TypeOK, Goto
<1>a. /\ p \in Procs /\ seen[p] \in SUBSET Channels
      /\ req[p].chans \in SUBSET Channels /\ req[p].val \in Duties \cup {Firmware}
      /\ req[p].pol \in Policy \cup {None}
  BY DEF Request, Procs
<1>1. CASE HardwareStep(p)
  BY <1>1, <1>a, HardwareTyped DEF HardwareStep
<1>2. CASE DaemonSend(p)
  <2>1. pc' \in [Procs -> Labels]
    BY <1>2 DEF DaemonSend
  <2>2. DutyInHand'
    BY <1>2, <1>a DEF DutyInHand, DaemonSend, local
  <2> QED
    BY <1>2, <2>1, <2>2 DEF DaemonSend, files, local, svc, ghost, bound, Kinds
<1>3. CASE SavePolicy(p)
  <2>1. policy' \in Policy \cup {None}
    BY <1>3, <1>a DEF SavePolicy
  <2>2. pc' \in [Procs -> Labels]
    BY <1>3 DEF SavePolicy
  <2>3. DutyInHand'
    BY <1>3, <1>a DEF DutyInHand, SavePolicy, local
  <2> QED
    BY <1>3, <2>1, <2>2, <2>3 DEF SavePolicy, files, local, svc, ghost, bound, Kinds
<1>4. CASE UnlinkPolicy(p)
  <2>1. policy' \in Policy \cup {None}
    BY <1>4, <1>a DEF UnlinkPolicy
  <2>2. pc' \in [Procs -> Labels]
    BY <1>4 DEF UnlinkPolicy
  <2>3. DutyInHand'
    BY <1>4, <1>a DEF DutyInHand, UnlinkPolicy, local
  <2> QED
    BY <1>4, <2>1, <2>2, <2>3 DEF UnlinkPolicy, files, local, svc, ghost, bound, Kinds
<1>5. CASE DropOverride(p)
  <2>1. override' \in [channels : SUBSET Channels, source : {"session", "decky", "none"}]
    BY <1>5, <1>a DEF DropOverride, NoOverride, NoClaim
  <2>2. claim' \in [Channels -> {"none", "session", "decky"}]
    BY <1>5, <1>a DEF DropOverride, NoOverride, NoClaim
  <2>3. pc' \in [Procs -> Labels]
    BY <1>5 DEF DropOverride, NoOverride, NoClaim
  <2>4. DutyInHand'
    BY <1>5, <1>a DEF DutyInHand, DropOverride, local, NoOverride, NoClaim
  <2> QED
    BY <1>5, <2>1, <2>2, <2>3, <2>4, ZenonT(40) DEF DropOverride, files, local, svc, ghost, bound, Kinds
<1>6. CASE Enable(p)
  <2>1. enabled' \in BOOLEAN
    BY <1>6, <1>a DEF Enable, FreshLoop, Done, svc
  <2>2. svcChannel' \in Channels \cup {None}
    BY <1>6, <1>a DEF Enable, FreshLoop, Done, svc
  <2>3. svcPolicy' \in Policy \cup {None}
    BY <1>6, <1>a DEF Enable, FreshLoop, Done, svc
  <2>4. svcLast' \in Duties \cup {None}
    BY <1>6, <1>a DEF Enable, FreshLoop, Done, svc
  <2>5. pc' \in [Procs -> Labels]
    BY <1>6 DEF Enable, FreshLoop, Done, svc
  <2>6. DutyInHand'
    BY <1>6, <1>a DEF DutyInHand, Enable, local, FreshLoop, Done, svc
  <2> QED
    BY <1>6, <2>1, <2>2, <2>3, <2>4, <2>5, <2>6 DEF Enable, files, local, svc, ghost, bound, Kinds, FreshLoop
<1>7. CASE RequestStop(p)
  <2>1. enabled' \in BOOLEAN
    BY <1>7, <1>a DEF RequestStop
  <2>2. stopReq' \in BOOLEAN
    BY <1>7 DEF RequestStop
  <2>3. pc' \in [Procs -> Labels]
    BY <1>7 DEF RequestStop
  <2>4. DutyInHand'
    BY <1>7, <1>a DEF DutyInHand, RequestStop, local
  <2> QED
    BY <1>7, <2>1, <2>2, <2>3, <2>4 DEF RequestStop, files, local, svc, ghost, bound, Kinds
<1>8. CASE AfterStop(p)
  <2>1. svcChannel' \in Channels \cup {None}
    BY <1>8, <1>a DEF AfterStop, FreshLoop, Done, svc
  <2>2. svcPolicy' \in Policy \cup {None}
    BY <1>8, <1>a DEF AfterStop, FreshLoop, Done, svc
  <2>3. svcLast' \in Duties \cup {None}
    BY <1>8, <1>a DEF AfterStop, FreshLoop, Done, svc
  <2>4. pc' \in [Procs -> Labels]
    BY <1>8 DEF AfterStop, FreshLoop, Done, svc
  <2>5. DutyInHand'
    BY <1>8, <1>a DEF DutyInHand, AfterStop, local, FreshLoop, Done, svc
  <2> QED
    BY <1>8, <2>1, <2>2, <2>3, <2>4, <2>5 DEF AfterStop, files, local, svc, ghost, bound, Kinds, FreshLoop
<1>9. CASE HandOver(p)
  <2>1. external' \in BOOLEAN
    BY <1>9, <1>a DEF HandOver
  <2>2. by' \in [Channels -> Kinds]
    BY <1>9 DEF HandOver, Kinds
  <2>3. pc' \in [Procs -> Labels]
    BY <1>9 DEF HandOver
  <2>4. DutyInHand'
    BY <1>9, <1>a DEF DutyInHand, HandOver, local
  <2> QED
    BY <1>9, <2>1, <2>2, <2>3, <2>4 DEF HandOver, files, local, svc, ghost, bound, Kinds
<1>10. CASE LoadState(p)
  <2>1. pc' \in [Procs -> Labels]
    BY <1>10 DEF LoadState
  <2>2. DutyInHand'
    BY <1>10, <1>a DEF DutyInHand, LoadState, local
  <2> QED
    BY <1>10, <2>1, <2>2 DEF LoadState, files, local, svc, ghost, bound, Kinds
<1>11. CASE ClearState(p)
  <2>1. applied' \in [Channels -> Duties \cup {None}]
    BY <1>11, <1>a DEF ClearState, NoneApplied, Done
  <2>2. pc' \in [Procs -> Labels]
    BY <1>11 DEF ClearState, NoneApplied, Done
  <2>3. DutyInHand'
    BY <1>11, <1>a DEF DutyInHand, ClearState, local, NoneApplied, Done
  <2> QED
    BY <1>11, <2>1, <2>2, <2>3 DEF ClearState, files, local, svc, ghost, bound, Kinds
<1>12. CASE TakeBack(p)
  <2>1. external' \in BOOLEAN
    BY <1>12, <1>a DEF TakeBack, Done
  <2>2. pc' \in [Procs -> Labels]
    BY <1>12 DEF TakeBack, Done
  <2>3. DutyInHand'
    BY <1>12, <1>a DEF DutyInHand, TakeBack, local, Done
  <2> QED
    BY <1>12, <2>1, <2>2, <2>3 DEF TakeBack, files, local, svc, ghost, bound, Kinds
<1>13. CASE Mark(p)
  <2>1. seen' \in [Procs -> SUBSET Channels]
    BY <1>13, <1>a DEF Mark, Done
  <2>2. pc' \in [Procs -> Labels]
    BY <1>13 DEF Mark, Done
  <2>3. DutyInHand'
    BY <1>13, <1>a DEF DutyInHand, Mark, local, Done
  <2> QED
    BY <1>13, <2>1, <2>2, <2>3 DEF Mark, files, local, svc, ghost, bound, Kinds
<1>14. CASE MarkWrite(p)
  <2>1. override' \in [channels : SUBSET Channels, source : {"session", "decky", "none"}]
    BY <1>14, <1>a DEF MarkWrite, Done
  <2>2. claim' \in [Channels -> {"none", "session", "decky"}]
    BY <1>14, <1>a DEF MarkWrite, Done
  <2>3. pc' \in [Procs -> Labels]
    BY <1>14 DEF MarkWrite, Done
  <2>4. DutyInHand'
    BY <1>14, <1>a DEF DutyInHand, MarkWrite, local, Done
  <2> QED
    BY <1>14, <2>1, <2>2, <2>3, <2>4 DEF MarkWrite, files, local, svc, ghost, bound, Kinds
<1>15. QED
  BY <1>1, <1>2, <1>3, <1>4, <1>5, <1>6, <1>7, <1>8, <1>9, <1>10, <1>11, <1>12, <1>13, <1>14 DEF SessionStep

(* The steps of the control loop. *)
LEMMA ServiceTyped ==
  ASSUME TypeInv, SvcStep
  PROVE  TypeInv'
<1> USE LabelFacts DEF TypeInv, TypeOK, Goto
<1>a. /\ Svc \in Procs /\ seen[Svc] \in SUBSET Channels
      /\ req[Svc].chans \in SUBSET Channels /\ req[Svc].val \in Duties \cup {Firmware}
      /\ req[Svc].pol \in Policy \cup {None}
  BY DEF Request, Procs
<1>1. CASE HardwareStep(Svc)
  BY <1>1, <1>a, HardwareTyped DEF HardwareStep
<1>2. CASE SvcTop
  <2>1. svcChannel' \in Channels \cup {None}
    BY <1>2, <1>a DEF SvcTop, svc
  <2>2. svcPolicy' \in Policy \cup {None}
    BY <1>2, <1>a DEF SvcTop, svc
  <2>3. svcLast' \in Duties \cup {None}
    BY <1>2, <1>a DEF SvcTop, svc
  <2>4. pc' \in [Procs -> Labels]
    BY <1>2 DEF SvcTop, svc
  <2>5. DutyInHand'
    BY <1>2, <1>a DEF DutyInHand, SvcTop, local, svc
  <2> QED
    BY <1>2, <2>1, <2>2, <2>3, <2>4, <2>5 DEF SvcTop, files, local, svc, ghost, bound, Kinds
<1>3. CASE SvcStop
  <2>1. req' \in [Procs -> Request]
    <3>1. "exit" \in Ops
      BY DEF Ops
    <3> QED
      BY <3>1, <1>3, <1>a, RequestsTyped DEF SvcStop
  <2>2. pc' \in [Procs -> Labels]
    BY <1>3 DEF SvcStop
  <2>3. DutyInHand'
    BY <1>3 DEF DutyInHand, SvcStop
  <2> QED
    BY <1>3, <2>1, <2>2, <2>3 DEF SvcStop, files, local, svc, ghost, bound, Kinds
<1>4. CASE SvcReload
  <2>1. svcPolicy' \in Policy \cup {None} /\ svcLast' \in Duties \cup {None}
    BY <1>4 DEF SvcReload
  <2>2. req' \in [Procs -> Request]
    <3>1. "release" \in Ops
      BY DEF Ops
    <3> QED
      BY <3>1, <1>4, <1>a, RequestsTyped DEF SvcReload
  <2>3. pc' \in [Procs -> Labels]
    BY <1>4 DEF SvcReload
  <2>4. DutyInHand'
    BY <1>4 DEF DutyInHand, SvcReload
  <2> QED
    BY <1>4, <2>1, <2>2, <2>3, <2>4 DEF SvcReload, files, local, svc, ghost, bound, Kinds
<1>5. CASE SvcRelease
  <2>1. svcChannel' \in Channels \cup {None}
    BY <1>5 DEF SvcRelease
  <2>2. CASE svcChannel = None \/ external
    <3>1. Leave(Svc, AfterError(Svc)) /\ req' = req
      BY <1>5, <2>2 DEF SvcRelease
    <3>2. pc' \in [Procs -> Labels] /\ stopReq' \in BOOLEAN
      BY <3>1, <1>a, LeaveTyped, AfterErrorTyped
    <3>3. DutyInHand'
      BY <1>5, <3>1 DEF DutyInHand, SvcRelease, Leave, SvcGone, AfterError
    <3> QED
      BY <1>5, <2>1, <3>1, <3>2, <3>3 DEF SvcRelease, files, local, svc, ghost, bound, Kinds
  <2>3. CASE ~(svcChannel = None \/ external)
    <3>1. /\ req' = [req EXCEPT ![Svc] = SvcReq(req[Svc].op, svcChannel, Firmware)]
          /\ pc' = [pc EXCEPT ![Svc] = "lock"] /\ stopReq' = stopReq
      BY <1>5, <2>3 DEF SvcRelease
    <3>2. req' \in [Procs -> Request]
      <4>1. req[Svc].op \in Ops /\ svcChannel \in Channels
        BY <1>a, <2>3 DEF Request
      <4> QED
        BY <3>1, <4>1, <1>a, RequestsTyped
    <3>3. pc' \in [Procs -> Labels]
      BY <3>1
    <3>4. DutyInHand'
      BY <3>1 DEF DutyInHand
    <3> QED
      BY <1>5, <2>1, <3>1, <3>2, <3>3, <3>4 DEF SvcRelease, files, local, svc, ghost, bound, Kinds
  <2> QED
    BY <2>2, <2>3
<1>6. CASE SvcPlan
  <2>1. req' \in [Procs -> Request]
    <3>1. CASE svcPolicy = None
      BY <1>6, <3>1 DEF SvcPlan
    <3>2. CASE svcPolicy # None
      <4>1. svcPolicy.pwm \in Channels /\ svcPolicy.duty \in Duties /\ Failsafe \in Duties
        BY <3>2, DutyAssumption DEF Policy
      <4>2. {"failsafe", "write"} \subseteq Ops
        BY DEF Ops
      <4> QED
        BY <1>6, <3>2, <4>1, <4>2, RequestsTyped DEF SvcPlan
    <3> QED
      BY <3>1, <3>2
  <2>2. pc' \in [Procs -> Labels]
    BY <1>6 DEF SvcPlan
  <2>3. DutyInHand'
    BY <1>6 DEF DutyInHand, SvcPlan
  <2> QED
    BY <1>6, <2>1, <2>2, <2>3 DEF SvcPlan, files, local, svc, ghost, bound, Kinds
<1>7. CASE SvcOverride
  <2>1. pc' \in [Procs -> Labels]
    BY <1>7 DEF SvcOverride
  <2>2. DutyInHand'
    BY <1>7, <1>a DEF DutyInHand, SvcOverride, local
  <2> QED
    BY <1>7, <2>1, <2>2 DEF SvcOverride, files, local, svc, ghost, bound, Kinds
<1>8. CASE SvcUnlink
  <2>1. override' \in [channels : SUBSET Channels, source : {"session", "decky", "none"}]
    BY <1>8, <1>a DEF SvcUnlink, NoOverride, NoClaim
  <2>2. claim' \in [Channels -> {"none", "session", "decky"}]
    BY <1>8, <1>a DEF SvcUnlink, NoOverride, NoClaim
  <2>3. pc' \in [Procs -> Labels]
    BY <1>8 DEF SvcUnlink, NoOverride, NoClaim
  <2>4. DutyInHand'
    BY <1>8, <1>a DEF DutyInHand, SvcUnlink, local, NoOverride, NoClaim
  <2> QED
    BY <1>8, <2>1, <2>2, <2>3, <2>4 DEF SvcUnlink, files, local, svc, ghost, bound, Kinds
<1>9. CASE SvcWrite
  <2>1. pc' \in [Procs -> Labels]
    BY <1>9 DEF SvcWrite
  <2>2. DutyInHand'
    BY <1>9, <1>a DEF DutyInHand, SvcWrite, local
  <2> QED
    BY <1>9, <2>1, <2>2 DEF SvcWrite, files, local, svc, ghost, bound, Kinds
<1>10. CASE SvcWait
  <2>1. pc' \in [Procs -> Labels]
    BY <1>10 DEF SvcWait
  <2>2. DutyInHand'
    BY <1>10, <1>a DEF DutyInHand, SvcWait, local
  <2> QED
    BY <1>10, <2>1, <2>2 DEF SvcWait, files, local, svc, ghost, bound, Kinds
<1>11. CASE SvcVerify
  <2>1. pc' \in [Procs -> Labels]
    BY <1>11 DEF SvcVerify
  <2>2. DutyInHand'
    BY <1>11, <1>a DEF DutyInHand, SvcVerify, local
  <2> QED
    BY <1>11, <2>1, <2>2 DEF SvcVerify, files, local, svc, ghost, bound, Kinds
<1>12. QED
  BY <1>1, <1>2, <1>3, <1>4, <1>5, <1>6, <1>7, <1>8, <1>9, <1>10, <1>11 DEF SvcStep

(* The steps of a Quick Access process. *)
LEMMA DeckyTyped ==
  ASSUME NEW p \in Deckies, TypeInv, DeckyStep(p)
  PROVE  TypeInv'
<1> USE LabelFacts DEF TypeInv, TypeOK, Goto
<1>a. /\ p \in Procs /\ seen[p] \in SUBSET Channels
      /\ req[p].chans \in SUBSET Channels /\ req[p].val \in Duties \cup {Firmware}
      /\ req[p].pol \in Policy \cup {None}
  BY DEF Request, Procs
<1>1. CASE Acquire(p) \/ LockTimeout(p)
  BY <1>1, <1>a, HardwareTyped DEF HardwareStep
<1>2. CASE BankMode(p)
  <2>1. hw' \in [Channels -> Duties \cup {Firmware, Held}]
    BY <1>2, <1>a DEF BankMode, WriteReg, Manual, Kind, Unlock
  <2>2. by' \in [Channels -> Kinds]
    BY <1>2 DEF BankMode, WriteReg, Manual, Kind, Unlock, Kinds
  <2>3. seen' \in [Procs -> SUBSET Channels]
    BY <1>2, <1>a DEF BankMode, WriteReg, Manual, Kind, Unlock
  <2>4. pc' \in [Procs -> Labels]
    BY <1>2 DEF BankMode, WriteReg, Manual, Kind, Unlock
  <2>5. lock' \in Procs \cup {None}
    BY <1>2 DEF BankMode, WriteReg, Manual, Kind, Unlock
  <2>6. DutyInHand'
    BY <1>2, <1>a DEF DutyInHand, BankMode, local, WriteReg, Manual, Kind, Unlock
  <2>t. torn' \in SUBSET Channels
    BY <1>2 DEF BankMode, WriteReg
  <2> QED
    BY <1>2, <2>t, <2>1, <2>2, <2>3, <2>4, <2>5, <2>6 DEF BankMode, files, local, svc, ghost, bound, Kinds
<1>3. CASE BankDuty(p)
  <2>1. hw' \in [Channels -> Duties \cup {Firmware, Held}]
    BY <1>3, <1>a DEF BankDuty, WriteReg, Kind, Unlock
  <2>2. by' \in [Channels -> Kinds]
    BY <1>3 DEF BankDuty, WriteReg, Kind, Unlock, Kinds
  <2>3. seen' \in [Procs -> SUBSET Channels]
    BY <1>3, <1>a DEF BankDuty, WriteReg, Kind, Unlock
  <2>4. pc' \in [Procs -> Labels]
    BY <1>3 DEF BankDuty, WriteReg, Kind, Unlock
  <2>5. lock' \in Procs \cup {None}
    BY <1>3 DEF BankDuty, WriteReg, Kind, Unlock
  <2>6. DutyInHand'
    BY <1>3, <1>a DEF DutyInHand, BankDuty, local, WriteReg, Kind, Unlock
  <2>t. torn' \in SUBSET Channels
    BY <1>3 DEF BankDuty, WriteReg
  <2> QED
    BY <1>3, <2>t, <2>1, <2>2, <2>3, <2>4, <2>5, <2>6 DEF BankDuty, files, local, svc, ghost, bound, Kinds
<1>4. CASE Note(p)
  <2>1. seen' \in [Procs -> SUBSET Channels]
    BY <1>4, <1>a DEF Note, Done
  <2>2. pc' \in [Procs -> Labels]
    BY <1>4 DEF Note, Done
  <2>3. DutyInHand'
    BY <1>4, <1>a DEF DutyInHand, Note, local, Done
  <2> QED
    BY <1>4, <2>1, <2>2, <2>3 DEF Note, files, local, svc, ghost, bound, Kinds
<1>5. CASE NoteWrite(p)
  <2>1. override' \in [channels : SUBSET Channels, source : {"session", "decky", "none"}]
    BY <1>5, <1>a DEF NoteWrite, Done
  <2>2. claim' \in [Channels -> {"none", "session", "decky"}]
    BY <1>5, <1>a DEF NoteWrite, Done
  <2>3. pc' \in [Procs -> Labels]
    BY <1>5 DEF NoteWrite, Done
  <2>4. DutyInHand'
    BY <1>5, <1>a DEF DutyInHand, NoteWrite, local, Done
  <2> QED
    BY <1>5, <2>1, <2>2, <2>3, <2>4 DEF NoteWrite, files, local, svc, ghost, bound, Kinds
<1>6. CASE Resume(p)
  <2>1. pc' \in [Procs -> Labels]
    BY <1>6 DEF Resume, Unlock, Done
  <2>2. lock' \in Procs \cup {None}
    BY <1>6 DEF Resume, Unlock, Done
  <2>3. DutyInHand'
    BY <1>6, <1>a DEF DutyInHand, Resume, local, Unlock, Done
  <2> QED
    BY <1>6, <2>1, <2>2, <2>3 DEF Resume, files, local, svc, ghost, bound, Kinds
<1>7. CASE ResumeUnlink(p)
  <2>1. override' \in [channels : SUBSET Channels, source : {"session", "decky", "none"}]
    BY <1>7, <1>a DEF ResumeUnlink, NoOverride, Unlock, Done
  <2>2. claim' \in [Channels -> {"none", "session", "decky"}]
    BY <1>7, <1>a DEF ResumeUnlink, NoOverride, Unlock, Done
  <2>3. pc' \in [Procs -> Labels]
    BY <1>7 DEF ResumeUnlink, NoOverride, Unlock, Done
  <2>4. lock' \in Procs \cup {None}
    BY <1>7 DEF ResumeUnlink, NoOverride, Unlock, Done
  <2>5. DutyInHand'
    BY <1>7, <1>a DEF DutyInHand, ResumeUnlink, local, NoOverride, Unlock, Done
  <2> QED
    BY <1>7, <2>1, <2>2, <2>3, <2>4, <2>5 DEF ResumeUnlink, files, local, svc, ghost, bound, Kinds
<1>8. QED
  BY <1>1, <1>2, <1>3, <1>4, <1>5, <1>6, <1>7 DEF DeckyStep

(* The steps of the boot replay. *)
LEMMA BootTyped ==
  ASSUME TypeInv, BootStep
  PROVE  TypeInv'
<1> USE LabelFacts DEF TypeInv, TypeOK, Goto
<1>a. /\ Boot \in Procs /\ seen[Boot] \in SUBSET Channels
      /\ req[Boot].chans \in SUBSET Channels /\ req[Boot].val \in Duties \cup {Firmware}
      /\ req[Boot].pol \in Policy \cup {None}
  BY DEF Request, Procs
<1>1. CASE HardwareStep(Boot)
  BY <1>1, <1>a, HardwareTyped DEF HardwareStep
<1>2. CASE BootCheck
  <2>1. replay' \in [Channels -> Duties \cup {None}]
    BY <1>2, <1>a DEF BootCheck
  <2>2. pc' \in [Procs -> Labels]
    BY <1>2 DEF BootCheck
  <2>3. DutyInHand'
    BY <1>2, <1>a DEF DutyInHand, BootCheck, local
  <2> QED
    BY <1>2, <2>1, <2>2, <2>3 DEF BootCheck, files, local, svc, ghost, bound, Kinds
<1>3. CASE BootReplay
  <2>1. CASE replay = NoneApplied
    BY <1>3, <2>1 DEF BootReplay, DutyInHand, files, local, svc, ghost, bound
  <2>2. CASE replay # NoneApplied
    <3>1. PICK c \in Channels :
            /\ replay[c] # None
            /\ req' = [req EXCEPT ![Boot] = SvcReq("replay", c, replay[c])]
            /\ replay' = [replay EXCEPT ![c] = None]
            /\ pc' = [pc EXCEPT ![Boot] = "lock"]
      BY <1>3, <2>2 DEF BootReplay
    <3>2. req' \in [Procs -> Request]
      <4>1. "replay" \in Ops /\ replay[c] \in Duties
        BY <3>1 DEF Ops
      <4> QED
        BY <3>1, <4>1, RequestsTyped
    <3>3. replay' \in [Channels -> Duties \cup {None}]
      BY <3>1
    <3>4. pc' \in [Procs -> Labels]
      BY <3>1
    <3>5. DutyInHand'
      BY <3>1 DEF DutyInHand
    <3> QED
      BY <1>3, <3>2, <3>3, <3>4, <3>5 DEF BootReplay, files, local, svc, ghost, bound, Kinds
  <2> QED
    BY <2>1, <2>2
<1>4. QED
  BY <1>1, <1>2, <1>3 DEF BootStep

(* What the users ask for. *)
LEMMA RequestTyped ==
  ASSUME NEW p \in Procs, TypeInv, SessionStart(p) \/ DaemonPlan(p) \/ DeckyStart(p)
  PROVE  TypeInv'
<1> USE LabelFacts DEF TypeInv, TypeOK, Goto
<1>a. /\ p \in Procs /\ seen[p] \in SUBSET Channels
      /\ req[p].chans \in SUBSET Channels /\ req[p].val \in Duties \cup {Firmware}
      /\ req[p].pol \in Policy \cup {None}
  BY DEF Request, Procs
<1>1. CASE SessionStart(p)
  <2>0. PICK r \in SessionRequests :
          /\ req' = [req EXCEPT ![p] = r]
          /\ pc' = [pc EXCEPT ![p] = FirstLabel(r)]
          /\ ops < MaxOps /\ ops' = ops + 1 /\ untouched' = FALSE
    BY <1>1 DEF SessionStart
  <2>1. req' \in [Procs -> Request]
    BY <2>0, RequestsTyped
  <2>2. FirstLabel(r) \in Labels \ {"mode", "duty", "remember"}
    BY DEF FirstLabel
  <2>3. pc' \in [Procs -> Labels]
    BY <2>0, <2>2
  <2>4. ops' \in 0..MaxOps
    BY <2>0, BoundAssumption
  <2>5. DutyInHand'
    BY <2>0, <2>2 DEF DutyInHand
  <2> QED
    BY <1>1, <2>0, <2>1, <2>3, <2>4, <2>5, ZenonT(80) DEF SessionStart, files, local, svc, ghost, bound, Kinds
<1>2. CASE DaemonPlan(p)
  <2>1. req' \in [Procs -> Request]
    BY <1>2, RequestsTyped DEF DaemonPlan
  <2>2. pc' \in [Procs -> Labels]
    BY <1>2 DEF DaemonPlan
  <2>3. untouched' \in BOOLEAN
    BY <1>2, <1>a DEF DaemonPlan
  <2>4. DutyInHand'
    BY <1>2, <1>a DEF DutyInHand, DaemonPlan, local
  <2> QED
    BY <1>2, <2>1, <2>2, <2>3, <2>4 DEF DaemonPlan, files, local, svc, ghost, bound, Kinds
<1>3. CASE DeckyStart(p)
  <2>1. req' \in [Procs -> Request]
    BY <1>3, RequestsTyped DEF DeckyStart
  <2>2. pc' \in [Procs -> Labels]
    BY <1>3 DEF DeckyStart
  <2>3. ops' \in 0..MaxOps
    BY <1>3, BoundAssumption DEF DeckyStart
  <2>4. untouched' \in BOOLEAN
    BY <1>3, <1>a DEF DeckyStart
  <2>5. DutyInHand'
    BY <1>3, <1>a DEF DutyInHand, DeckyStart, local
  <2> QED
    BY <1>3, <2>1, <2>2, <2>3, <2>4, <2>5 DEF DeckyStart, files, local, svc, ghost, bound, Kinds
<1>4. QED
  BY <1>1, <1>2, <1>3 DEF Procs

(* The faults of one process. *)
LEMMA FaultTyped ==
  ASSUME NEW p \in Procs, TypeInv, Kill(p) \/ WriteErrors(p) \/ ReadBackFails(p) \/ AutoRefused(p) \/ (p \in Deckies /\ BankFails(p))
  PROVE  TypeInv'
<1> USE LabelFacts DEF TypeInv, TypeOK, Goto
<1>a. /\ p \in Procs /\ seen[p] \in SUBSET Channels
      /\ req[p].chans \in SUBSET Channels /\ req[p].val \in Duties \cup {Firmware}
      /\ req[p].pol \in Policy \cup {None}
  BY DEF Request, Procs
<1>1. CASE Kill(p)
  <2>1. faults' \in 0..MaxFaults
    BY <1>1, BoundAssumption DEF Kill, Strike
  <2>2. lock' \in Procs \cup {None}
    BY <1>1 DEF Kill
  <2>3. pc' \in [Procs -> Labels] /\ stopReq' \in BOOLEAN
    <3>1. CASE p = Svc
      BY <1>1, <3>1, LeaveTyped DEF Kill
    <3>2. CASE p # Svc
      BY <1>1, <3>2 DEF Kill
    <3> QED
      BY <3>1, <3>2
  <2>4. /\ svcChannel' \in Channels \cup {None} /\ svcPolicy' \in Policy \cup {None}
        /\ svcLast' \in Duties \cup {None}
    BY <1>1 DEF Kill, FreshLoop, svc
  <2>5. DutyInHand'
    <3>1. req' = req
      BY <1>1 DEF Kill, local
    <3>2. CASE p = Svc
      <4>1. \A q \in Procs : pc'[q] = pc[q] \/ pc'[q] \in {"top", "off", "stopped"}
        <5>1. CASE stopReq
          <6>1. pc' = SvcGone("off")
            BY <1>1, <3>2, <5>1 DEF Kill, Leave
          <6> QED
            BY <6>1 DEF SvcGone
        <5>2. CASE ~stopReq
          BY <1>1, <3>2, <5>2 DEF Kill, Leave
        <5> QED
          BY <5>1, <5>2
      <4> QED
        BY <3>1, <4>1 DEF DutyInHand
    <3>3. CASE p # Svc
      BY <1>1, <3>1, <3>3 DEF Kill, DutyInHand
    <3> QED
      BY <3>2, <3>3
  <2>t. torn' \in SUBSET Channels
    BY <1>1, <1>a DEF Kill, Tear
  <2> QED
    BY <1>1, <2>t, <2>1, <2>2, <2>3, <2>4, <2>5 DEF Kill, files, local, ghost, bound, Kinds
<1>2. CASE WriteErrors(p)
  <2>1. faults' \in 0..MaxFaults
    BY <1>2, BoundAssumption DEF WriteErrors, Strike, Unlock, Leave, SvcGone, AfterError
  <2>2. lock' \in Procs \cup {None}
    BY <1>2 DEF WriteErrors, Strike, Unlock, Leave, SvcGone, AfterError
  <2>3. pc' \in [Procs -> Labels]
    BY <1>2 DEF WriteErrors, Strike, Unlock, Leave, SvcGone, AfterError
  <2>4. stopReq' \in BOOLEAN
    BY <1>2 DEF WriteErrors, Strike, Unlock, Leave, SvcGone, AfterError
  <2>5. DutyInHand'
    BY <1>2, <1>a DEF DutyInHand, WriteErrors, local, Strike, Unlock, Leave, SvcGone, AfterError
  <2>t. torn' \in SUBSET Channels
    BY <1>2, <1>a DEF WriteErrors, Tear
  <2> QED
    BY <1>2, <2>t, <2>1, <2>2, <2>3, <2>4, <2>5 DEF WriteErrors, files, local, svc, ghost, bound, Kinds
<1>3. CASE ReadBackFails(p)
  <2>1. faults' \in 0..MaxFaults
    BY <1>3, BoundAssumption DEF ReadBackFails, Strike, Unlock, WriteReg, Kind, Leave, SvcGone, AfterError
  <2>2. hw' \in [Channels -> Duties \cup {Firmware, Held}]
    BY <1>3, <1>a DEF ReadBackFails, Strike, Unlock, WriteReg, Kind, Leave, SvcGone, AfterError
  <2>3. by' \in [Channels -> Kinds]
    BY <1>3 DEF ReadBackFails, Strike, Unlock, WriteReg, Kind, Leave, SvcGone, AfterError, Kinds
  <2>4. lock' \in Procs \cup {None}
    BY <1>3 DEF ReadBackFails, Strike, Unlock, WriteReg, Kind, Leave, SvcGone, AfterError
  <2>5. pc' \in [Procs -> Labels]
    BY <1>3 DEF ReadBackFails, Strike, Unlock, WriteReg, Kind, Leave, SvcGone, AfterError
  <2>6. stopReq' \in BOOLEAN
    BY <1>3 DEF ReadBackFails, Strike, Unlock, WriteReg, Kind, Leave, SvcGone, AfterError
  <2>7. DutyInHand'
    BY <1>3, <1>a DEF DutyInHand, ReadBackFails, local, Strike, Unlock, WriteReg, Kind, Leave, SvcGone, AfterError
  <2>t. torn' \in SUBSET Channels
    BY <1>3, <1>a DEF ReadBackFails, Tear, WriteReg
  <2> QED
    BY <1>3, <2>t, <2>1, <2>2, <2>3, <2>4, <2>5, <2>6, <2>7 DEF ReadBackFails, files, local, svc, ghost, bound, Kinds
<1>4. CASE AutoRefused(p)
  <2>1. faults' \in 0..MaxFaults
    BY <1>4, BoundAssumption DEF AutoRefused, Strike, Unlock, Leave, SvcGone, AfterError
  <2>2. lock' \in Procs \cup {None}
    BY <1>4 DEF AutoRefused, Strike, Unlock, Leave, SvcGone, AfterError
  <2>3. pc' \in [Procs -> Labels]
    BY <1>4 DEF AutoRefused, Strike, Unlock, Leave, SvcGone, AfterError
  <2>4. stopReq' \in BOOLEAN
    BY <1>4 DEF AutoRefused, Strike, Unlock, Leave, SvcGone, AfterError
  <2>5. DutyInHand'
    BY <1>4, <1>a DEF DutyInHand, AutoRefused, local, Strike, Unlock, Leave, SvcGone, AfterError
  <2> QED
    BY <1>4, <2>1, <2>2, <2>3, <2>4, <2>5 DEF AutoRefused, files, local, svc, ghost, bound, Kinds
<1>5. CASE BankFails(p)
  <2>1. faults' \in 0..MaxFaults
    BY <1>5, BoundAssumption DEF BankFails, Strike, Unlock, Done
  <2>2. hw' \in [Channels -> Duties \cup {Firmware, Held}]
    BY <1>5, <1>a DEF BankFails, Strike, Unlock, Done
  <2>3. by' \in [Channels -> Kinds]
    BY <1>5 DEF BankFails, Strike, Unlock, Done, Kinds
  <2>4. lock' \in Procs \cup {None}
    BY <1>5 DEF BankFails, Strike, Unlock, Done
  <2>5. pc' \in [Procs -> Labels]
    BY <1>5 DEF BankFails, Strike, Unlock, Done
  <2>6. DutyInHand'
    BY <1>5, <1>a DEF DutyInHand, BankFails, local, Strike, Unlock, Done
  <2>t. torn' \in SUBSET Channels
    BY <1>5, <1>a DEF BankFails
  <2> QED
    BY <1>5, <2>t, <2>1, <2>2, <2>3, <2>4, <2>5, <2>6 DEF BankFails, files, local, svc, ghost, bound, Kinds
<1>6. QED
  BY <1>1, <1>2, <1>3, <1>4, <1>5 DEF Procs

(* What the world does to all of them at once.                              *)
LEMMA WorldTyped ==
  ASSUME TypeInv, HeatChanges \/ Reboot \/ \E c \in Channels : Drift(c)
  PROVE  TypeInv'
<1> USE LabelFacts DEF TypeInv, TypeOK
<1>1. CASE HeatChanges
  BY <1>1 DEF HeatChanges, DutyInHand, files, local, svc, ghost, bound
<1>2. CASE Reboot
  <2>1. faults' \in 0..MaxFaults
    BY <1>2, BoundAssumption DEF Reboot, Strike
  <2>2. pc' \in [Procs -> Labels]
    BY <1>2 DEF Reboot, AfterBoot
  <2>3. req' \in [Procs -> Request]
    <3>1. NoRequest \in Request
      BY DEF NoRequest, Request, Ops
    <3> QED
      BY <1>2, <3>1 DEF Reboot
  <2>4. seen' \in [Procs -> SUBSET Channels] /\ wasAuto' \in [Procs -> BOOLEAN]
    BY <1>2 DEF Reboot
  <2>5. /\ hw' \in [Channels -> Duties \cup {Firmware, Held}]
        /\ by' \in [Channels -> Kinds]
    BY <1>2 DEF Reboot, Kinds
  <2>6. /\ claim' \in [Channels -> {"none", "session", "decky"}]
        /\ override' \in [channels : SUBSET Channels, source : {"session", "decky", "none"}]
    BY <1>2 DEF Reboot, NoClaim, NoOverride
  <2>7. replay' \in [Channels -> Duties \cup {None}]
    BY <1>2 DEF Reboot, NoneApplied
  <2>8. /\ svcChannel' \in Channels \cup {None} /\ svcPolicy' \in Policy \cup {None}
        /\ svcLast' \in Duties \cup {None}
    BY <1>2 DEF Reboot, FreshLoop
  <2>9. lock' \in Procs \cup {None} /\ hot' \in BOOLEAN /\ stopReq' \in BOOLEAN
        /\ untouched' \in BOOLEAN
    BY <1>2 DEF Reboot
  <2>10. DutyInHand'
    BY <1>2 DEF Reboot, DutyInHand, AfterBoot
  <2> QED
    BY <1>2, <2>1, <2>2, <2>3, <2>4, <2>5, <2>6, <2>7, <2>8, <2>9, <2>10 DEF Reboot, Kinds
<1>3. CASE \E c \in Channels : Drift(c)
  <2>1. PICK c \in Channels : Drift(c)
    BY <1>3
  <2>2. /\ hw' \in [Channels -> Duties \cup {Firmware, Held}]
        /\ by' \in [Channels -> Kinds]
    BY <2>1 DEF Drift, Kinds
  <2>3. DutyInHand'
    BY <2>1 DEF Drift, DutyInHand, local
  <2> QED
    BY <2>1, <2>2, <2>3 DEF Drift, files, local, svc, ghost, bound, Kinds
<1>4. QED
  BY <1>1, <1>2, <1>3

LEMMA InitTyped == Init => TypeInv
<1> SUFFICES ASSUME Init PROVE TypeInv
  OBVIOUS
<1>1. pc \in [Procs -> Labels] /\ DutyInHand
  BY LabelFacts DEF Init, AfterBoot, DutyInHand
<1>2. req \in [Procs -> Request]
  <2>1. NoRequest \in Request
    BY DEF NoRequest, Request, Ops
  <2> QED
    BY <2>1 DEF Init
<1>3. policy \in Policy \cup {None}
  BY RequestAssumption DEF Init
<1>4. /\ applied \in [Channels -> Duties \cup {None}]
      /\ replay \in [Channels -> Duties \cup {None}]
      /\ hw \in [Channels -> Duties \cup {Firmware, Held}]
      /\ by \in [Channels -> Kinds]
  BY DEF Init, NoneApplied, Kinds
<1>5. /\ claim \in [Channels -> {"none", "session", "decky"}]
      /\ override \in [channels : SUBSET Channels, source : {"session", "decky", "none"}]
  BY DEF Init, NoClaim, NoOverride
<1>6. seen \in [Procs -> SUBSET Channels] /\ wasAuto \in [Procs -> BOOLEAN]
  BY DEF Init
<1>7. enabled \in BOOLEAN
  BY DEF Init
<1>8. /\ external \in BOOLEAN /\ lock \in Procs \cup {None}
      /\ hot \in BOOLEAN /\ stopReq \in BOOLEAN /\ untouched \in BOOLEAN
      /\ svcChannel = None /\ svcPolicy = None /\ svcLast = None /\ torn = {}
  BY DEF Init
<1>9. ops \in 0..MaxOps /\ faults \in 0..MaxFaults
  <2>1. ops = 0 /\ faults = 0
    BY DEF Init
  <2> QED
    BY <2>1, BoundAssumption
<1> QED
  BY <1>1, <1>2, <1>3, <1>4, <1>5, <1>6, <1>7, <1>8, <1>9 DEF TypeInv, TypeOK, Kinds

LEMMA StepTyped == TypeInv /\ [Next]_vars => TypeInv'
<1> SUFFICES ASSUME TypeInv, [Next]_vars PROVE TypeInv'
  OBVIOUS
<1>1. ASSUME NEW s \in Sessions, SessionStart(s) \/ DaemonPlan(s) \/ SessionStep(s)
      PROVE  TypeInv'
  BY <1>1, RequestTyped, SessionTyped DEF Procs
<1>2. ASSUME NEW d \in Deckies, DeckyStart(d) \/ DeckyStep(d)
      PROVE  TypeInv'
  BY <1>2, RequestTyped, DeckyTyped DEF Procs
<1>3. CASE SvcStep
  BY <1>3, ServiceTyped
<1>4. CASE BootStep
  BY <1>4, BootTyped
<1>5. CASE Fault
  BY <1>5, FaultTyped, WorldTyped DEF Fault, Procs
<1>6. CASE HeatChanges
  BY <1>6, WorldTyped
<1>7. CASE UNCHANGED vars
  BY <1>7 DEF vars, TypeInv, TypeOK, DutyInHand, files, local, svc, ghost, bound
<1> QED
  BY <1>1, <1>2, <1>3, <1>4, <1>5, <1>6, <1>7 DEF Next

(* Every reachable state is well typed, and an operation that writes a duty *)
(* has a duty to write.                                                     *)
THEOREM TypeCorrect == Spec => []TypeInv
<1>1. QED
  BY InitTyped, StepTyped, PTL DEF Spec

(* The type invariant of the runs, for every value of the constants.        *)
THEOREM TypesHold == Spec => []TypeOK
<1>1. TypeInv => TypeOK
  BY DEF TypeInv
<1> QED
  BY <1>1, TypeCorrect, PTL

-----------------------------------------------------------------------------
(* One owner per boot.                                                      *)

(* The service follows a policy: the replay has nothing to do.              *)
Owned == enabled /\ policy # None
BootWork == {"lock", "mode", "duty", "remember"}

(* Without a policy an enabled control loop goes round and writes nothing.  *)
ServiceQuiet ==
  /\ pc[Svc] \in {"top", "reload", "plan", "off"} /\ (~enabled => pc[Svc] = "off")
  /\ svcPolicy = None /\ svcChannel = None

(* The replay has checked, and writes duties it read from STATE_FILE, which *)
(* nobody else writes meanwhile.                                            *)
ReplayInv ==
  /\ pc[Boot] \in {"check", "replay", "off"} \cup BootWork
  /\ pc[Boot] \in BootWork => \E c \in Channels :
       req[Boot].op = "replay" /\ req[Boot].chans = {c} /\ req[Boot].val = applied[c]
  /\ pc[Boot] \in {"replay"} \cup BootWork =>
       \A c \in Channels : replay[c] # None => replay[c] = applied[c]

(* BootHasOneOwner, and why: until somebody asks for something only the     *)
(* control loop and the replay run, and at most one of them has work.       *)
BootInv ==
  untouched =>
    /\ \A p \in Sessions \cup Deckies : pc[p] = "idle"
    /\ ~stopReq
    /\ external => /\ pc[Svc] \in {"top", "off"} /\ pc[Boot] \in {"check", "off"}
                   /\ \A c \in Channels : hw[c] = Firmware
    /\ Owned => pc[Boot] \in {"check", "off"} /\ \A c \in Channels : by[c] # "boot"
    /\ ~Owned => ServiceQuiet /\ \A c \in Channels : hw[c] \in Duties => applied[c] = hw[c]
    /\ ReplayInv

LEMMA ProcFacts ==
  /\ Svc \in Procs /\ Boot \in Procs /\ Svc # Boot
  /\ Svc \notin Sessions \cup Deckies /\ Boot \notin Sessions \cup Deckies
  /\ Sessions \subseteq Procs /\ Deckies \subseteq Procs
  /\ Kind(Svc) = "service" /\ Kind(Boot) = "boot"
  /\ None \notin Procs
  /\ Procs = (Sessions \cup Deckies) \cup {Svc, Boot}
BY ProcAssumption, NoneAssumption DEF Procs, Kind

(* A process that has nothing in hand takes no step.                        *)
LEMMA IdleRests ==
  ASSUME NEW p, pc[p] = "idle"
  PROVE  /\ ~SessionStep(p) /\ ~DeckyStep(p) /\ ~HardwareStep(p) /\ ~Kill(p)
         /\ ~WriteErrors(p) /\ ~ReadBackFails(p) /\ ~AutoRefused(p) /\ ~BankFails(p)
<1>1. ~HardwareStep(p)
  BY DEF HardwareStep, Acquire, LockTimeout, ModeManual, WriteDuty, Remember, WriteAuto, Forget
<1>2. ~SessionStep(p)
  BY <1>1 DEF SessionStep, DaemonSend, SavePolicy, UnlinkPolicy, DropOverride, Enable,
              RequestStop, AfterStop, HandOver, LoadState, ClearState, TakeBack, Mark, MarkWrite
<1>3. ~DeckyStep(p)
  BY DEF DeckyStep, Acquire, LockTimeout, BankMode, BankDuty, Note, NoteWrite, Resume,
         ResumeUnlink
<1>4. /\ ~Kill(p) /\ ~WriteErrors(p) /\ ~ReadBackFails(p) /\ ~AutoRefused(p) /\ ~BankFails(p)
  BY DEF Kill, WriteErrors, ReadBackFails, AutoRefused, BankFails
<1> QED
  BY <1>1, <1>2, <1>3, <1>4

LEMMA InitBoot == Init => BootInv
<1> SUFFICES ASSUME Init, untouched PROVE BootInv
  BY DEF BootInv
<1>1. /\ pc = AfterBoot /\ ~stopReq /\ external = FALSE /\ enabled = (policy # None)
      /\ hw = [c \in Channels |-> Firmware] /\ by = [c \in Channels |-> "nobody"]
      /\ svcChannel = None /\ svcPolicy = None
  BY DEF Init
<1>2. /\ \A p \in Sessions \cup Deckies : pc[p] = "idle"
      /\ pc[Svc] = IF enabled THEN "top" ELSE "off"
      /\ pc[Boot] = "check"
  BY <1>1, ProcFacts DEF AfterBoot
<1>3. \A c \in Channels : hw[c] = Firmware /\ by[c] # "boot"
  BY <1>1
<1>4. Firmware \notin Duties
  BY NoneAssumption
<1> QED
  BY <1>1, <1>2, <1>3, <1>4 DEF BootInv, ServiceQuiet, ReplayInv, BootWork, Owned

LEMMA RebootedBoot ==
  ASSUME Reboot
  PROVE  BootInv'
<1>1. /\ pc' = AfterBoot /\ ~stopReq' /\ external' = external /\ enabled' = enabled
      /\ policy' = policy
      /\ hw' = [c \in Channels |-> Firmware] /\ by' = [c \in Channels |-> "nobody"]
      /\ svcChannel' = None /\ svcPolicy' = None
  BY DEF Reboot, FreshLoop
<1>2. /\ \A p \in Sessions \cup Deckies : pc'[p] = "idle"
      /\ pc'[Svc] = IF enabled THEN "top" ELSE "off"
      /\ pc'[Boot] = "check"
  BY <1>1, ProcFacts DEF AfterBoot
<1>3. \A c \in Channels : hw'[c] = Firmware /\ by'[c] # "boot"
  BY <1>1
<1>4. Firmware \notin Duties
  BY NoneAssumption
<1> QED
  BY <1>1, <1>2, <1>3, <1>4 DEF BootInv, ServiceQuiet, ReplayInv, BootWork, Owned

(* A step of the control loop alone, in a boot that is the service's.       *)
LEMMA ServiceKeepsBoot ==
  ASSUME TypeInv, BootInv, untouched, ~external,
         UNCHANGED <<policy, enabled, external, replay>>,
         \A p \in Procs \ {Svc} : pc'[p] = pc[p] /\ req'[p] = req[p],
         ~stopReq', Owned,
         \A c \in Channels : by'[c] \in {by[c], "service", "nobody"}
  PROVE  BootInv'
<1>1. \A p \in Sessions \cup Deckies : pc'[p] = "idle"
  BY ProcFacts DEF BootInv
<1>2. pc'[Boot] = pc[Boot] /\ Owned'
  BY ProcFacts DEF Owned
<1> QED
  BY <1>1, <1>2 DEF BootInv, ReplayInv, BootWork

(* What the loop does with a policy concerns nobody but itself.             *)
LEMMA ServiceAlone ==
  ASSUME TypeInv, BootInv, untouched,
         SvcStep \/ Kill(Svc) \/ WriteErrors(Svc) \/ ReadBackFails(Svc) \/ AutoRefused(Svc)
  PROVE  /\ UNCHANGED <<policy, enabled, external, replay>>
         /\ \A p \in Procs \ {Svc} : pc'[p] = pc[p] /\ req'[p] = req[p]
         /\ ~stopReq'
         /\ \A c \in Channels : by'[c] \in {by[c], "service"}
<1>a. /\ pc \in [Procs -> Labels] /\ req \in [Procs -> Request]
      /\ \A v : \A c \in Channels : [by EXCEPT ![c] = v] = [d \in Channels |-> IF d = c THEN v ELSE by[d]]
  BY DEF TypeInv, TypeOK
<1>b. ~stopReq /\ \A p \in Procs \ {Svc} : pc[p] # "awaitStop"
  BY ProcFacts DEF BootInv, ReplayInv, BootWork
<1>c. ASSUME NEW l, Leave(Svc, l)
      PROVE  ~stopReq' /\ \A p \in Procs \ {Svc} : pc'[p] = pc[p]
  BY <1>a, <1>b, <1>c DEF Leave, SvcGone
<1>d. ASSUME NEW l, Goto(Svc, l)
      PROVE  \A p \in Procs \ {Svc} : pc'[p] = pc[p]
  BY <1>a, <1>d DEF Goto
<1>e. ASSUME NEW c \in Channels, NEW v, WriteReg(Svc, c, v)
      PROVE  \A d \in Channels : by'[d] \in {by[d], "service"}
  BY <1>a, <1>e, ProcFacts DEF WriteReg
<1>f. ASSUME NEW r, req' = [req EXCEPT ![Svc] = r]
      PROVE  \A p \in Procs \ {Svc} : req'[p] = req[p]
  BY <1>a, <1>f
<1>g. ASSUME pc[Svc] \in {"mode", "duty", "remember", "auto", "forget"}
      PROVE  req[Svc].chans \subseteq Channels
  BY <1>a, ProcFacts DEF Request
<1> USE DEF files, local, svc, ghost, bound
<1>1. CASE HardwareStep(Svc)
  <2>1. CASE Acquire(Svc)
    BY <1>b, <1>d, <2>1 DEF Acquire
  <2>2. CASE LockTimeout(Svc)
    BY <1>c, <2>2 DEF LockTimeout
  <2>3. CASE ModeManual(Svc)
    BY <1>b, <1>d, <1>e, <1>g, <2>3 DEF ModeManual
  <2>4. CASE WriteDuty(Svc)
    BY <1>b, <1>d, <1>e, <1>g, <2>4 DEF WriteDuty
  <2>5. CASE Remember(Svc)
    BY <1>b, <1>d, <2>5 DEF Remember
  <2>6. CASE WriteAuto(Svc)
    BY <1>b, <1>d, <1>e, <1>g, <2>6 DEF WriteAuto
  <2>7. CASE Forget(Svc)
    BY <1>c, <2>7 DEF Forget
  <2> QED
    BY <1>1, <2>1, <2>2, <2>3, <2>4, <2>5, <2>6, <2>7 DEF HardwareStep
<1>2. CASE SvcTop
  BY <1>b, <1>d, <1>2 DEF SvcTop
<1>3. CASE SvcStop
  BY <1>b, <1>3 DEF SvcStop
<1>4. CASE SvcReload
  BY <1>b, <1>d, <1>f, <1>4 DEF SvcReload
<1>5. CASE SvcRelease
  <2>1. UNCHANGED <<policy, enabled, external, replay, by>>
    BY <1>5 DEF SvcRelease
  <2>2. CASE svcChannel = None \/ external
    BY <1>c, <1>5, <2>1, <2>2 DEF SvcRelease
  <2>3. CASE ~(svcChannel = None \/ external)
    <3>1. /\ req' = [req EXCEPT ![Svc] = SvcReq(req[Svc].op, svcChannel, Firmware)]
          /\ Goto(Svc, "lock") /\ stopReq' = stopReq
      BY <1>5, <2>3 DEF SvcRelease
    <3>2. \A p \in Procs \ {Svc} : pc'[p] = pc[p]
      BY <1>d, <3>1
    <3>3. \A p \in Procs \ {Svc} : req'[p] = req[p]
      BY <1>f, <3>1
    <3> QED
      BY <1>b, <2>1, <3>1, <3>2, <3>3
  <2> QED
    BY <2>2, <2>3
<1>6. CASE SvcPlan
  BY <1>b, <1>d, <1>f, <1>6 DEF SvcPlan
<1>7. CASE SvcOverride \/ SvcWrite \/ SvcWait \/ SvcVerify
  <2>1. UNCHANGED <<policy, enabled, external, replay, req, stopReq, by>>
    BY <1>7 DEF SvcOverride, SvcWrite, SvcWait, SvcVerify
  <2>2. \E l : Goto(Svc, l)
    BY <1>7, Zenon DEF SvcOverride, SvcWrite, SvcWait, SvcVerify
  <2>3. \A p \in Procs \ {Svc} : pc'[p] = pc[p]
    BY <1>d, <2>2
  <2> QED
    BY <1>b, <2>1, <2>3
<1>8. CASE SvcUnlink
  BY <1>b, <1>d, <1>8 DEF SvcUnlink
<1>9. CASE Kill(Svc)
  BY <1>c, <1>9 DEF Kill
<1>10. CASE WriteErrors(Svc)
  BY <1>c, <1>10 DEF WriteErrors
<1>11. CASE ReadBackFails(Svc)
  BY <1>c, <1>e, <1>g, <1>11 DEF ReadBackFails
<1>12. CASE AutoRefused(Svc)
  BY <1>c, <1>12 DEF AutoRefused
<1> QED
  BY <1>1, <1>2, <1>3, <1>4, <1>5, <1>6, <1>7, <1>8, <1>9, <1>10, <1>11, <1>12 DEF SvcStep

(* Without a policy, or with the fan handed over, the loop goes round.      *)
LEMMA ServiceRound ==
  ASSUME TypeInv, BootInv, untouched, ~Owned \/ external,
         SvcStep \/ Kill(Svc) \/ WriteErrors(Svc) \/ ReadBackFails(Svc) \/ AutoRefused(Svc)
  PROVE  /\ pc[Svc] # "off" /\ UNCHANGED <<hw, by, applied>>
         /\ ~Owned => pc'[Svc] \in {"top", "reload", "plan"} /\ svcPolicy' = None
                      /\ svcChannel' = None
         /\ external => pc'[Svc] = "top"
<1>a. pc \in [Procs -> Labels] /\ Svc \in Procs
  BY ProcFacts DEF TypeInv, TypeOK
<1>b. /\ ~stopReq /\ pc[Svc] \in {"top", "reload", "plan", "off"}
      /\ external => pc[Svc] \in {"top", "off"}
      /\ ~Owned => /\ svcPolicy = None /\ svcChannel = None
                   /\ pc[Svc] # "off" => policy = None
  BY DEF BootInv, ServiceQuiet, Owned
<1> USE DEF files, local, svc, ghost, bound, Goto
<1>1. SvcTop \/ SvcReload \/ SvcPlan \/ Kill(Svc)
  <2>1. ~HardwareStep(Svc) /\ ~WriteErrors(Svc) /\ ~ReadBackFails(Svc) /\ ~AutoRefused(Svc)
    BY <1>b DEF HardwareStep, Acquire, LockTimeout, ModeManual, WriteDuty, Remember,
                WriteAuto, Forget, WriteErrors, ReadBackFails, AutoRefused
  <2>2. ~SvcStop /\ ~SvcRelease /\ ~SvcOverride /\ ~SvcUnlink /\ ~SvcWrite /\ ~SvcWait /\ ~SvcVerify
    BY <1>b DEF SvcStop, SvcRelease, SvcOverride, SvcUnlink, SvcWrite, SvcWait, SvcVerify
  <2> QED
    BY <2>1, <2>2 DEF SvcStep
<1>2. CASE SvcTop
  BY <1>a, <1>b, <1>2 DEF SvcTop
<1>3. CASE SvcReload
  BY <1>a, <1>b, <1>3 DEF SvcReload
<1>4. CASE SvcPlan
  BY <1>a, <1>b, <1>4 DEF SvcPlan
<1>5. CASE Kill(Svc)
  BY <1>a, <1>b, <1>5 DEF Kill, Leave, FreshLoop
<1> QED
  BY <1>1, <1>2, <1>3, <1>4, <1>5

LEMMA ServiceBoot ==
  ASSUME TypeInv, BootInv, untouched,
         SvcStep \/ Kill(Svc) \/ WriteErrors(Svc) \/ ReadBackFails(Svc) \/ AutoRefused(Svc)
  PROVE  BootInv'
<1>1. /\ UNCHANGED <<policy, enabled, external, replay>>
      /\ \A p \in Procs \ {Svc} : pc'[p] = pc[p] /\ req'[p] = req[p]
      /\ ~stopReq' /\ \A c \in Channels : by'[c] \in {by[c], "service"}
  BY ServiceAlone
<1>2. CASE Owned /\ ~external
  BY <1>1, <1>2, ServiceKeepsBoot
<1>3. CASE ~Owned \/ external
  <2>1. /\ pc[Svc] # "off" /\ UNCHANGED <<hw, by, applied>>
        /\ ~Owned => pc'[Svc] \in {"top", "reload", "plan"} /\ svcPolicy' = None
                     /\ svcChannel' = None
        /\ external => pc'[Svc] = "top"
    BY <1>3, ServiceRound
  <2>2. \A p \in Sessions \cup Deckies : pc'[p] = pc[p]
    BY <1>1, ProcFacts
  <2>3. pc'[Boot] = pc[Boot] /\ req'[Boot] = req[Boot] /\ Owned' = Owned
    BY <1>1, ProcFacts DEF Owned
  <2> QED
    BY <1>1, <2>1, <2>2, <2>3 DEF BootInv, ServiceQuiet, ReplayInv, BootWork
<1> QED
  BY <1>2, <1>3

(* A step of the replay: what it writes is what it read.                    *)
LEMMA ReplayStep ==
  ASSUME TypeInv, BootInv, untouched,
         BootStep \/ Kill(Boot) \/ WriteErrors(Boot) \/ ReadBackFails(Boot) \/ AutoRefused(Boot)
  PROVE  /\ UNCHANGED <<policy, enabled, external, applied, svc, stopReq>>
         /\ \A p \in Procs \ {Boot} : pc'[p] = pc[p]
         /\ ReplayInv'
         /\ pc[Boot] # "check" => ~Owned /\ ~external
         /\ pc[Boot] = "check" => /\ UNCHANGED <<hw, by>>
                                  /\ Owned \/ external => pc'[Boot] = "off"
         /\ \A c \in Channels : \/ hw'[c] \in {hw[c], Firmware, Held}
                                \/ hw'[c] = applied[c]
<1>a. /\ pc \in [Procs -> Labels] /\ req \in [Procs -> Request] /\ Boot \in Procs
      /\ hw \in [Channels -> Duties \cup {Firmware, Held}]
      /\ applied \in [Channels -> Duties \cup {None}]
      /\ replay \in [Channels -> Duties \cup {None}]
  BY ProcFacts DEF TypeInv, TypeOK
<1>b. /\ ~stopReq /\ ReplayInv
      /\ pc[Boot] \notin {"check", "off"} => ~Owned /\ ~external
  BY ProcFacts DEF BootInv
<1>c. ASSUME NEW l, Leave(Boot, l)
      PROVE  stopReq' = stopReq /\ pc' = [pc EXCEPT ![Boot] = l]
  BY <1>c, ProcFacts DEF Leave
<1>d. /\ Firmware \notin Duties /\ Firmware # None
  BY NoneAssumption
<1>e. AfterError(Boot) = "replay" /\ Boot # Svc
  BY ProcFacts DEF AfterError
<1> USE DEF files, local, svc, ghost, bound, Goto, ReplayInv, BootWork
<1>1. CASE BootCheck
  BY <1>a, <1>b, <1>1 DEF BootCheck, Owned
<1>2. CASE BootReplay
  <2>1. CASE replay = NoneApplied
    BY <1>a, <1>b, <1>2, <2>1 DEF BootReplay
  <2>2. CASE replay # NoneApplied
    <3>1. PICK c \in Channels :
            /\ replay[c] # None
            /\ req' = [req EXCEPT ![Boot] = SvcReq("replay", c, replay[c])]
            /\ replay' = [replay EXCEPT ![c] = None]
            /\ pc' = [pc EXCEPT ![Boot] = "lock"]
      BY <1>2, <2>2 DEF BootReplay
    <3>2. pc[Boot] = "replay" /\ UNCHANGED <<policy, enabled, external, applied, svc, stopReq, hw, by>>
      BY <1>2 DEF BootReplay
    <3>3. /\ req'[Boot].op = "replay" /\ req'[Boot].chans = {c} /\ req'[Boot].val = applied[c]
      BY <1>a, <1>b, <3>1, <3>2 DEF SvcReq
    <3>4. \A d \in Channels : replay'[d] # None => replay'[d] = applied[d]
      BY <1>a, <1>b, <3>1, <3>2
    <3> QED
      BY <1>a, <1>b, <3>1, <3>2, <3>3, <3>4
  <2> QED
    BY <2>1, <2>2
<1>3. CASE Kill(Boot)
  <2>1. pc' = [pc EXCEPT ![Boot] = "off"] /\ pc[Boot] # "off"
        /\ UNCHANGED <<policy, enabled, external, applied, svc, stopReq, hw, by>>
    BY <1>3, <1>e DEF Kill
  <2> QED
    BY <1>a, <1>b, <2>1
<1>4. CASE pc[Boot] \in BootWork
           /\ (HardwareStep(Boot) \/ WriteErrors(Boot) \/ ReadBackFails(Boot))
  <2>1. PICK c \in Channels :
          req[Boot].op = "replay" /\ req[Boot].chans = {c} /\ req[Boot].val = applied[c]
    BY <1>b, <1>4
  <2>2. applied[c] \in Duties /\ applied[c] # Firmware
    BY <1>a, <1>d, <2>1 DEF Request
  <2>3. ~WriteAuto(Boot) /\ ~Forget(Boot)
    BY <1>4 DEF WriteAuto, Forget
  <2>4. CASE Acquire(Boot)
    BY <1>a, <1>b, <2>1, <2>2, <2>4 DEF Acquire, WorkLabel
  <2>5. CASE LockTimeout(Boot)
    BY <1>a, <1>b, <1>c, <2>5 DEF LockTimeout
  <2>6. CASE ModeManual(Boot)
    BY <1>a, <1>b, <2>1, <2>6 DEF ModeManual, WriteReg, Manual
  <2>7. CASE WriteDuty(Boot)
    BY <1>a, <1>b, <2>1, <2>7 DEF WriteDuty, WriteReg
  <2>8. CASE Remember(Boot)
    <3>1. applied' = [applied EXCEPT ![c] = applied[c]]
      BY <2>1, <2>8 DEF Remember
    <3>2. applied' = applied
      BY <1>a, <3>1
    <3> QED
      BY <1>a, <1>b, <1>e, <2>8, <3>2 DEF Remember
  <2>9. CASE WriteErrors(Boot)
    BY <1>a, <1>b, <1>c, <1>e, <2>9 DEF WriteErrors
  <2>10. CASE ReadBackFails(Boot)
    <3>1. /\ pc' = [pc EXCEPT ![Boot] = "replay"] /\ pc[Boot] = "duty"
          /\ UNCHANGED <<policy, enabled, external, applied, svc, stopReq, replay>>
      BY <1>c, <1>e, <2>10 DEF ReadBackFails
    <3>2. \A d \in Channels : hw'[d] \in {hw[d], Firmware}
      BY <1>a, <2>1, <2>10 DEF ReadBackFails, WriteReg
    <3> QED
      BY <1>a, <1>b, <3>1, <3>2
  <2> QED
    BY <1>4, <2>3, <2>4, <2>5, <2>6, <2>7, <2>8, <2>9, <2>10 DEF HardwareStep
<1>5. \/ BootCheck \/ BootReplay \/ Kill(Boot)
      \/ pc[Boot] \in BootWork
         /\ (HardwareStep(Boot) \/ WriteErrors(Boot) \/ ReadBackFails(Boot))
  <2>1. ~AutoRefused(Boot)
    BY <1>b DEF AutoRefused
  <2>2. WriteErrors(Boot) \/ ReadBackFails(Boot) => pc[Boot] \in BootWork
    BY DEF WriteErrors, ReadBackFails
  <2>3. HardwareStep(Boot) => pc[Boot] \in BootWork
    BY <1>b DEF HardwareStep, Acquire, LockTimeout, ModeManual, WriteDuty, Remember,
                WriteAuto, Forget
  <2> QED
    BY <2>1, <2>2, <2>3 DEF BootStep
<1> QED
  BY <1>1, <1>2, <1>3, <1>4, <1>5

LEMMA ReplayBoot ==
  ASSUME TypeInv, BootInv, untouched,
         BootStep \/ Kill(Boot) \/ WriteErrors(Boot) \/ ReadBackFails(Boot) \/ AutoRefused(Boot)
  PROVE  BootInv'
<1>1. /\ UNCHANGED <<policy, enabled, external, applied, svc, stopReq>>
      /\ \A p \in Procs \ {Boot} : pc'[p] = pc[p]
      /\ ReplayInv'
      /\ pc[Boot] # "check" => ~Owned /\ ~external
      /\ pc[Boot] = "check" => /\ UNCHANGED <<hw, by>>
                               /\ Owned \/ external => pc'[Boot] = "off"
      /\ \A c \in Channels : \/ hw'[c] \in {hw[c], Firmware, Held}
                             \/ hw'[c] = applied[c]
  BY ReplayStep
<1>2. /\ \A p \in Sessions \cup Deckies : pc'[p] = pc[p]
      /\ pc'[Svc] = pc[Svc] /\ Owned' = Owned
  BY <1>1, ProcFacts DEF Owned
<1>3. Firmware \notin Duties /\ Held \notin Duties
  BY NoneAssumption
<1> QED
  BY <1>1, <1>2, <1>3 DEF BootInv, ServiceQuiet, svc

LEMMA DriftBoot ==
  ASSUME TypeInv, BootInv, untouched, NEW c \in Channels, Drift(c)
  PROVE  BootInv'
<1>1. /\ hw' = [hw EXCEPT ![c] = Firmware] /\ by' = [by EXCEPT ![c] = "nobody"]
      /\ UNCHANGED <<policy, external, applied, enabled, pc, req, svc, replay, stopReq>>
  BY DEF Drift, files, local
<1>2. \A d \in Channels : hw'[d] \in {hw[d], Firmware} /\ by'[d] \in {by[d], "nobody"}
  BY <1>1 DEF TypeInv, TypeOK
<1>3. Firmware \notin Duties /\ \A d \in Channels : hw[d] = Firmware => hw'[d] = Firmware
  BY <1>2, NoneAssumption
<1> QED
  BY <1>1, <1>2, <1>3 DEF BootInv, ServiceQuiet, ReplayInv, Owned, svc

LEMMA StepBoot ==
  ASSUME TypeInv, BootInv, [Next]_vars
  PROVE  BootInv'
<1> SUFFICES ASSUME untouched' PROVE BootInv'
  BY DEF BootInv
<1>1. CASE Reboot
  BY <1>1, RebootedBoot
<1>2. CASE ~Reboot
  <2>1. ~\E s \in Procs : SessionStart(s) \/ DaemonPlan(s) \/ DeckyStart(s)
    BY DEF SessionStart, DaemonPlan, DeckyStart
  <2>2. untouched
    <3>1. CASE \E p \in Procs : HardwareStep(p) \/ Kill(p) \/ WriteErrors(p) \/ ReadBackFails(p)
                                \/ AutoRefused(p)
      <4>0. PICK p \in Procs : \/ HardwareStep(p) \/ Kill(p) \/ WriteErrors(p)
                              \/ ReadBackFails(p) \/ AutoRefused(p)
        BY <3>1
      <4>1. CASE Acquire(p) \/ LockTimeout(p) \/ ModeManual(p) \/ WriteDuty(p)
        BY <4>1, Zenon DEF Acquire, LockTimeout, ModeManual, WriteDuty, ghost
      <4>2. CASE Remember(p) \/ WriteAuto(p) \/ Forget(p)
        BY <4>2, Zenon DEF Remember, WriteAuto, Forget, ghost
      <4>3. CASE Kill(p) \/ WriteErrors(p) \/ ReadBackFails(p) \/ AutoRefused(p)
        BY <4>3, Zenon DEF Kill, WriteErrors, ReadBackFails, AutoRefused, ghost
      <4> QED
        BY <4>0, <4>1, <4>2, <4>3, Zenon DEF HardwareStep
    <3>2. CASE \E s \in Sessions : SessionStep(s) /\ ~HardwareStep(s)
      BY <3>2 DEF SessionStep, DaemonSend, SavePolicy, UnlinkPolicy, DropOverride, Enable,
              RequestStop, AfterStop, HandOver, LoadState, ClearState, TakeBack, Mark,
              MarkWrite, ghost
    <3>3. CASE \E d \in Deckies : DeckyStep(d) \/ BankFails(d)
      BY <3>3 DEF DeckyStep, Acquire, LockTimeout, BankMode, BankDuty, Note, NoteWrite,
                  Resume, ResumeUnlink, BankFails, ghost
    <3>4. CASE SvcStep /\ ~HardwareStep(Svc)
      BY <3>4 DEF SvcStep, SvcTop, SvcStop, SvcReload, SvcRelease, SvcPlan, SvcOverride,
              SvcUnlink, SvcWrite, SvcWait, SvcVerify, ghost
    <3>5. CASE BootCheck \/ BootReplay \/ HeatChanges \/ (\E c \in Channels : Drift(c))
               \/ UNCHANGED vars
      BY <3>5 DEF BootCheck, BootReplay, HeatChanges, Drift, vars, ghost
    <3> QED
      BY <1>2, <2>1, <3>1, <3>2, <3>3, <3>4, <3>5, ProcFacts, Zenon DEF Next, Fault, BootStep
  <2>3. \A p \in Sessions \cup Deckies : pc[p] = "idle"
    BY <2>2 DEF BootInv
  <2>4. \/ SvcStep \/ BootStep \/ HeatChanges \/ UNCHANGED vars
        \/ \E c \in Channels : Drift(c)
        \/ \E p \in {Svc, Boot} : Kill(p) \/ WriteErrors(p) \/ ReadBackFails(p) \/ AutoRefused(p)
    BY <1>2, <2>1, <2>3, IdleRests, ProcFacts, Zenon DEF Next, Fault
  <2>5. CASE HeatChanges \/ UNCHANGED vars
    <3>1. UNCHANGED <<policy, external, applied, enabled, hw, pc, req, svc, replay, stopReq, by>>
      BY <2>5 DEF HeatChanges, vars, files, local, svc, ghost
    <3> QED
      BY <2>2, <3>1 DEF BootInv, ServiceQuiet, ReplayInv, Owned, svc
  <2> QED
    BY <2>2, <2>4, <2>5, ServiceBoot, ReplayBoot, DriftBoot
<1> QED
  BY <1>1, <1>2

(* restore_boot_state, step(): in a boot in which nobody asked for anything *)
(* a fan that was handed over stays with the firmware, the replay leaves    *)
(* the service's fan alone, and otherwise repeats what was recorded.        *)
THEOREM BootOwned == Spec => []BootHasOneOwner
<1>1. TypeInv /\ BootInv /\ [Next]_vars => TypeInv' /\ BootInv'
  BY StepTyped, StepBoot
<1>2. Init => TypeInv /\ BootInv
  BY InitTyped, InitBoot
<1>3. BootInv => BootHasOneOwner
  BY DEF BootInv, BootHasOneOwner, Owned
<1> QED
  BY <1>1, <1>2, <1>3, PTL DEF Spec
=============================================================================
