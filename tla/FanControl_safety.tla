-------------------------- MODULE FanControl_safety --------------------------
(* What the lock is for: mutual exclusion of the hardware operations, and   *)
(* no channel left half switched that no failure explains.  Then            *)
(* what holds across the files that the lock does not cover, each under the *)
(* assumptions the code needs for it: the replay file mirrors the helper's  *)
(* own writes, the loop leaves nothing behind that it drove, and an         *)
(* acknowledged hand-over has ended the service.                            *)
EXTENDS FanControl_proofs

(* The operations that name one channel, from the moment they are decided.  *)
Decided(p) == pc[p] \in {"lock", "planned", "override", "unlink", "compare"}
              /\ req[p].op \notin {"fan", "resume"}
OnOneChannel ==
  \A p \in Procs :
    Decided(p) \/ pc[p] \in {"mode", "duty", "remember", "auto", "forget"} =>
      \E c \in Channels : req[p].chans = {c}

(* HeldOnlyIfTorn is not inductive.  A refused duty is safe only because    *)
(* apply_pwm rolls back what it took out of automatic mode, and a bank ends *)
(* without a Held channel only because the second pass covers the first.    *)
Loose(c) == hw[c] = Held /\ c \notin torn
NoneLoose == \A c \in Channels : ~Loose(c)
HeldWork(p) ==
  /\ pc[p] = "duty" /\ ~wasAuto[p] => NoneLoose
  /\ pc[p] \in {"bankMode", "bankDuty"} => seen[p] \subseteq req[p].chans
  /\ pc[p] = "bankMode" /\ req[p].val = Firmware => NoneLoose
  /\ pc[p] = "bankDuty" => \A c \in Channels : Loose(c) => c \in seen[p]
  /\ pc[p] = "bankDuty" => req[p].val \in Duties
HeldInv == HeldOnlyIfTorn /\ OnOneChannel /\ \A p \in Procs : HeldWork(p)

(* A step that neither writes a channel nor moves a process that holds the  *)
(* lock, and that decides on one channel if it decides on an operation.     *)
Aside ==
  /\ hw' = hw /\ lock' = lock /\ torn' = torn
  /\ \A q \in Procs : pc[q] \in LockedLabels \/ pc'[q] \in LockedLabels =>
       /\ pc'[q] = pc[q] /\ req'[q] = req[q]
       /\ seen'[q] = seen[q] /\ wasAuto'[q] = wasAuto[q]
  /\ \A q \in Procs : Decided(q)' => \E c \in Channels : req'[q].chans = {c}

LEMMA LockedFacts ==
  LockedLabels = {"mode", "duty", "remember", "auto", "forget", "resume",
                  "resumeUnlink", "bankMode", "bankDuty"}
BY DEF LockedLabels

LEMMA AsideKeepsLock ==
  ASSUME TypeInv, TypeInv', LockHeld, Aside
  PROVE  LockHeld'
BY DEF TypeInv, TypeOK, LockHeld, Aside

LEMMA AsideKeepsHeld ==
  ASSUME TypeInv, TypeInv', LockHeld, HeldInv, Aside
  PROVE  HeldInv'
<1>1. HeldOnlyIfTorn'
  <2> SUFFICES ASSUME NEW c \in Channels, hw'[c] = Held, c \notin torn'
               PROVE  /\ lock' # None /\ c \in req'[lock'].chans
                      /\ pc'[lock'] \in {"duty", "bankMode", "bankDuty"}
    BY DEF HeldOnlyIfTorn, MidWrite
  <2>1. /\ lock \in Procs /\ lock # None /\ c \in req[lock].chans
        /\ pc[lock] \in {"duty", "bankMode", "bankDuty"}
    BY DEF HeldInv, HeldOnlyIfTorn, MidWrite, Aside, TypeInv, TypeOK
  <2> QED
    BY <2>1, LockedFacts DEF Aside
<1>2. OnOneChannel'
  BY LockedFacts DEF OnOneChannel, HeldInv, Aside
<1>3. ASSUME NEW p \in Procs PROVE HeldWork(p)'
  <2>1. CASE pc'[p] \in LockedLabels
    <3>1. /\ pc'[p] = pc[p] /\ req'[p] = req[p] /\ hw' = hw /\ torn' = torn
          /\ seen'[p] = seen[p] /\ wasAuto'[p] = wasAuto[p]
      BY <2>1 DEF Aside
    <3> QED
      BY <3>1 DEF HeldInv, HeldWork, NoneLoose, Loose
  <2>2. CASE pc'[p] \notin LockedLabels
    BY <2>2, LockedFacts DEF HeldWork
  <2> QED
    BY <2>1, <2>2
<1>4. QED
  BY <1>1, <1>2, <1>3 DEF HeldInv
(* One process moves outside the lock, and the others stay.                 *)
LEMMA OneMoves ==
  ASSUME NEW p \in Procs, OnOneChannel, hw' = hw, lock' = lock, torn' = torn,
         \A q \in Procs \ {p} : /\ pc'[q] = pc[q] /\ req'[q] = req[q]
                                 /\ seen'[q] = seen[q] /\ wasAuto'[q] = wasAuto[q],
         pc[p] \notin LockedLabels, pc'[p] \notin LockedLabels,
         Decided(p)' => \E c \in Channels : req'[p].chans = {c}
  PROVE  Aside
BY DEF Aside, OnOneChannel, Decided

(* Root sessions change files outside the lock.                              *)
LEMMA SessionAside ==
  ASSUME NEW s \in Procs, TypeInv, OnOneChannel,
         \/ LockTimeout(s)
         \/ SessionStart(s)
         \/ DaemonPlan(s)
         \/ DaemonSend(s)
         \/ SavePolicy(s)
         \/ UnlinkPolicy(s)
         \/ DropOverride(s)
         \/ Enable(s)
         \/ RequestStop(s)
         \/ AfterStop(s)
         \/ HandOver(s)
         \/ LoadState(s)
         \/ ClearState(s)
         \/ TakeBack(s)
         \/ Mark(s)
         \/ MarkWrite(s)
  PROVE  Aside
<1> USE LockedFacts DEF Aside, Decided, OnOneChannel, Goto, files, local, svc, ghost, bound
<1>a. /\ pc \in [Procs -> Labels] /\ req \in [Procs -> Request]
      /\ seen \in [Procs -> SUBSET Channels] /\ Svc \in Procs /\ Boot \in Procs /\ Svc # Boot
  BY ProcAssumption DEF TypeInv, TypeOK, Procs
<1>1. CASE LockTimeout(s)
  BY <1>1 DEF LockTimeout, Leave, SvcGone, AfterError
<1>2. CASE SessionStart(s)
  <2>1. PICK r \in SessionRequests :
          /\ pc[s] = "idle"
          /\ req' = [req EXCEPT ![s] = r]
          /\ pc' = [pc EXCEPT ![s] = FirstLabel(r)]
          /\ seen' = seen /\ wasAuto' = wasAuto /\ hw' = hw /\ lock' = lock /\ torn' = torn
    BY <1>2 DEF SessionStart
  <2>2. pc'[s] = FirstLabel(r) /\ req'[s] = r
    BY <2>1, <1>a
  <2>3. FirstLabel(r) \notin LockedLabels
    BY DEF FirstLabel
  <2>4. Decided(s)' => \E c \in Channels : req'[s].chans = {c}
    <3>1. FirstLabel(r) = "lock" => r.op \in {"PWM", "AUTO"}
      BY DEF FirstLabel
    <3>2. FirstLabel(r) \notin {"planned", "override", "unlink", "compare"}
      BY DEF FirstLabel
    <3> QED
      BY <2>2, <3>1, <3>2, RequestAssumption
  <2> QED
    BY <1>a, <2>1, <2>2, <2>3, <2>4, OneMoves
<1>3. CASE DaemonPlan(s)
  <2>1. \A q \in Procs \ {s} : /\ pc'[q] = pc[q] /\ req'[q] = req[q]
                                /\ seen'[q] = seen[q] /\ wasAuto'[q] = wasAuto[q]
    BY <1>3, <1>a DEF DaemonPlan
  <2>2. pc[s] \notin LockedLabels /\ pc'[s] \notin LockedLabels
    BY <1>3, <1>a DEF DaemonPlan
  <2>3. Decided(s)' => \E c \in Channels : req'[s].chans = {c}
    BY <1>3, <1>a, RequestAssumption DEF DaemonPlan
  <2>4. hw' = hw /\ lock' = lock /\ torn' = torn
    BY <1>3 DEF DaemonPlan
  <2> QED
    BY <1>a, <2>1, <2>2, <2>3, <2>4, OneMoves
<1>4. CASE DaemonSend(s)
  BY <1>4 DEF DaemonSend
<1>5. CASE SavePolicy(s)
  BY <1>5 DEF SavePolicy
<1>6. CASE UnlinkPolicy(s)
  BY <1>6 DEF UnlinkPolicy
<1>7. CASE DropOverride(s)
  <2>1. \A q \in Procs \ {s} : /\ pc'[q] = pc[q] /\ req'[q] = req[q]
                                /\ seen'[q] = seen[q] /\ wasAuto'[q] = wasAuto[q]
    BY <1>7, <1>a DEF DropOverride
  <2>2. pc[s] \notin LockedLabels /\ pc'[s] \notin LockedLabels
    BY <1>7, <1>a DEF DropOverride
  <2>3. Decided(s)' => \E c \in Channels : req'[s].chans = {c}
    BY <1>7, <1>a DEF DropOverride
  <2>4. hw' = hw /\ lock' = lock /\ torn' = torn
    BY <1>7 DEF DropOverride
  <2> QED
    BY <1>a, <2>1, <2>2, <2>3, <2>4, OneMoves
<1>8. CASE Enable(s)
  BY <1>8, <1>a DEF Enable, Done
<1>9. CASE RequestStop(s)
  BY <1>9 DEF RequestStop
<1>10. CASE AfterStop(s)
  BY <1>10, <1>a DEF AfterStop, Done
<1>11. CASE HandOver(s)
  BY <1>11 DEF HandOver
<1>12. CASE LoadState(s)
  BY <1>12 DEF LoadState
<1>13. CASE ClearState(s)
  BY <1>13 DEF ClearState, Done
<1>14. CASE TakeBack(s)
  BY <1>14 DEF TakeBack, Done
<1>15. CASE Mark(s)
  <2>1. \A q \in Procs \ {s} : /\ pc'[q] = pc[q] /\ req'[q] = req[q]
                                /\ seen'[q] = seen[q] /\ wasAuto'[q] = wasAuto[q]
    BY <1>15, <1>a DEF Mark, Done
  <2>2. pc[s] \notin LockedLabels /\ pc'[s] \notin LockedLabels
    BY <1>15, <1>a DEF Mark, Done
  <2>3. Decided(s)' => \E c \in Channels : req'[s].chans = {c}
    BY <1>15, <1>a DEF Mark, Done
  <2>4. hw' = hw /\ lock' = lock /\ torn' = torn
    BY <1>15 DEF Mark, Done
  <2> QED
    BY <1>a, <2>1, <2>2, <2>3, <2>4, OneMoves
<1>16. CASE MarkWrite(s)
  BY <1>16 DEF MarkWrite, Done
<1> QED
  BY <1>1, <1>2, <1>3, <1>4, <1>5, <1>6, <1>7, <1>8, <1>9, <1>10, <1>11, <1>12, <1>13, <1>14, <1>15, <1>16

(* The control loop decides outside the lock.                                *)
LEMMA ServiceAside ==
  ASSUME TypeInv, OnOneChannel,
         \/ SvcTop
         \/ SvcStop
         \/ SvcReload
         \/ SvcRelease
         \/ SvcPlan
         \/ SvcOverride
         \/ SvcUnlink
         \/ SvcWrite
         \/ SvcWait
         \/ SvcVerify
  PROVE  Aside
<1> USE LockedFacts DEF Aside, Decided, OnOneChannel, Goto, files, local, svc, ghost, bound
<1>a. /\ pc \in [Procs -> Labels] /\ req \in [Procs -> Request]
      /\ seen \in [Procs -> SUBSET Channels] /\ Svc \in Procs /\ Boot \in Procs /\ Svc # Boot
  BY ProcAssumption DEF TypeInv, TypeOK, Procs
<1>1. CASE SvcTop
  <2>1. \A q \in Procs \ {Svc} : /\ pc'[q] = pc[q] /\ req'[q] = req[q]
                                /\ seen'[q] = seen[q] /\ wasAuto'[q] = wasAuto[q]
    BY <1>1, <1>a DEF SvcTop
  <2>2. pc[Svc] \notin LockedLabels /\ pc'[Svc] \notin LockedLabels
    BY <1>1, <1>a DEF SvcTop
  <2>3. Decided(Svc)' => \E c \in Channels : req'[Svc].chans = {c}
    BY <1>1, <1>a DEF SvcTop
  <2>4. hw' = hw /\ lock' = lock /\ torn' = torn
    BY <1>1 DEF SvcTop
  <2> QED
    BY <1>a, <2>1, <2>2, <2>3, <2>4, OneMoves
<1>2. CASE SvcStop
  BY <1>2 DEF SvcStop
<1>3. CASE SvcReload
  <2>1. \A q \in Procs \ {Svc} : /\ pc'[q] = pc[q] /\ req'[q] = req[q]
                                /\ seen'[q] = seen[q] /\ wasAuto'[q] = wasAuto[q]
    BY <1>3, <1>a DEF SvcReload
  <2>2. pc[Svc] \notin LockedLabels /\ pc'[Svc] \notin LockedLabels
    BY <1>3, <1>a DEF SvcReload
  <2>3. Decided(Svc)' => \E c \in Channels : req'[Svc].chans = {c}
    BY <1>3, <1>a DEF SvcReload
  <2>4. hw' = hw /\ lock' = lock /\ torn' = torn
    BY <1>3 DEF SvcReload
  <2> QED
    BY <1>a, <2>1, <2>2, <2>3, <2>4, OneMoves
<1>4. CASE SvcRelease
  <2>1. CASE svcChannel = None \/ external
    <3>1. Leave(Svc, AfterError(Svc)) /\ UNCHANGED <<req, seen, wasAuto, hw, lock, torn>>
      BY <1>4, <2>1 DEF SvcRelease
    <3>2. \A q \in Procs : pc'[q] = pc[q] \/ {pc[q], pc'[q]} \subseteq
                             {"release", "plan", "off", "top", "awaitStop", "stopped"}
      <4>1. pc[Svc] = "release" /\ AfterError(Svc) \in {"plan", "off", "top"}
        BY <1>4 DEF SvcRelease, AfterError
      <4> QED
        BY <1>a, <3>1, <4>1 DEF Leave, SvcGone
    <3> QED
      BY <3>1, <3>2
  <2>2. CASE ~(svcChannel = None \/ external)
    <3>1. /\ pc[Svc] = "release" /\ pc' = [pc EXCEPT ![Svc] = "lock"]
          /\ req' = [req EXCEPT ![Svc] = SvcReq(req[Svc].op, svcChannel, Firmware)]
          /\ UNCHANGED <<seen, wasAuto, hw, lock, torn>>
      BY <1>4, <2>2 DEF SvcRelease
    <3>2. req'[Svc].chans = {svcChannel} /\ svcChannel \in Channels
      BY <1>a, <2>2, <3>1 DEF SvcReq, TypeInv, TypeOK
    <3> QED
      BY <1>a, <3>1, <3>2, OneMoves
  <2> QED
    BY <2>1, <2>2
<1>5. CASE SvcPlan
  <2>1. \A q \in Procs \ {Svc} : /\ pc'[q] = pc[q] /\ req'[q] = req[q]
                                /\ seen'[q] = seen[q] /\ wasAuto'[q] = wasAuto[q]
    BY <1>5, <1>a DEF SvcPlan, SvcReq
  <2>2. pc[Svc] \notin LockedLabels /\ pc'[Svc] \notin LockedLabels
    BY <1>5, <1>a DEF SvcPlan, SvcReq
  <2>3. Decided(Svc)' => \E c \in Channels : req'[Svc].chans = {c}
    <3>1. svcPolicy # None => svcPolicy.pwm \in Channels
      BY DEF TypeInv, TypeOK, Policy
    <3>2. CASE svcPolicy = None
      BY <1>5, <1>a, <3>2 DEF SvcPlan
    <3>3. CASE svcPolicy # None
      <4>1. req'[Svc].chans = {svcPolicy.pwm}
        BY <1>5, <1>a, <3>3 DEF SvcPlan, SvcReq
      <4> QED
        BY <3>1, <3>3, <4>1
    <3> QED
      BY <3>2, <3>3
  <2>4. hw' = hw /\ lock' = lock /\ torn' = torn
    BY <1>5 DEF SvcPlan, SvcReq
  <2> QED
    BY <1>a, <2>1, <2>2, <2>3, <2>4, OneMoves
<1>6. CASE SvcOverride
  BY <1>6 DEF SvcOverride
<1>7. CASE SvcUnlink
  BY <1>7 DEF SvcUnlink
<1>8. CASE SvcWrite
  BY <1>8 DEF SvcWrite
<1>9. CASE SvcWait
  BY <1>9 DEF SvcWait
<1>10. CASE SvcVerify
  BY <1>10 DEF SvcVerify
<1> QED
  BY <1>1, <1>2, <1>3, <1>4, <1>5, <1>6, <1>7, <1>8, <1>9, <1>10

(* So do Quick Access, the boot replay and the world.                        *)
LEMMA OthersAside ==
  ASSUME NEW d \in Procs, TypeInv, OnOneChannel,
         \/ DeckyStart(d)
         \/ Note(d)
         \/ NoteWrite(d)
         \/ BootCheck
         \/ BootReplay
         \/ HeatChanges
         \/ UNCHANGED vars
  PROVE  Aside
<1> USE LockedFacts DEF Aside, Decided, OnOneChannel, Goto, files, local, svc, ghost, bound
<1>a. /\ pc \in [Procs -> Labels] /\ req \in [Procs -> Request]
      /\ seen \in [Procs -> SUBSET Channels] /\ Svc \in Procs /\ Boot \in Procs /\ Svc # Boot
  BY ProcAssumption DEF TypeInv, TypeOK, Procs
<1>1. CASE DeckyStart(d)
  <2>1. \A q \in Procs \ {d} : /\ pc'[q] = pc[q] /\ req'[q] = req[q]
                                /\ seen'[q] = seen[q] /\ wasAuto'[q] = wasAuto[q]
    BY <1>1, <1>a DEF DeckyStart
  <2>2. pc[d] \notin LockedLabels /\ pc'[d] \notin LockedLabels
    BY <1>1, <1>a DEF DeckyStart
  <2>3. Decided(d)' => \E c \in Channels : req'[d].chans = {c}
    BY <1>1, <1>a, RequestAssumption DEF DeckyStart
  <2>4. hw' = hw /\ lock' = lock /\ torn' = torn
    BY <1>1 DEF DeckyStart
  <2> QED
    BY <1>a, <2>1, <2>2, <2>3, <2>4, OneMoves
<1>2. CASE Note(d)
  <2>1. \A q \in Procs \ {d} : /\ pc'[q] = pc[q] /\ req'[q] = req[q]
                                /\ seen'[q] = seen[q] /\ wasAuto'[q] = wasAuto[q]
    BY <1>2, <1>a DEF Note, Done
  <2>2. pc[d] \notin LockedLabels /\ pc'[d] \notin LockedLabels
    BY <1>2, <1>a DEF Note, Done
  <2>3. Decided(d)' => \E c \in Channels : req'[d].chans = {c}
    BY <1>2, <1>a DEF Note, Done
  <2>4. hw' = hw /\ lock' = lock /\ torn' = torn
    BY <1>2 DEF Note, Done
  <2> QED
    BY <1>a, <2>1, <2>2, <2>3, <2>4, OneMoves
<1>3. CASE NoteWrite(d)
  BY <1>3 DEF NoteWrite, Done
<1>4. CASE BootCheck
  <2>1. \A q \in Procs \ {Boot} : /\ pc'[q] = pc[q] /\ req'[q] = req[q]
                                /\ seen'[q] = seen[q] /\ wasAuto'[q] = wasAuto[q]
    BY <1>4, <1>a DEF BootCheck
  <2>2. pc[Boot] \notin LockedLabels /\ pc'[Boot] \notin LockedLabels
    BY <1>4, <1>a DEF BootCheck
  <2>3. Decided(Boot)' => \E c \in Channels : req'[Boot].chans = {c}
    BY <1>4, <1>a DEF BootCheck
  <2>4. hw' = hw /\ lock' = lock /\ torn' = torn
    BY <1>4 DEF BootCheck
  <2> QED
    BY <1>a, <2>1, <2>2, <2>3, <2>4, OneMoves
<1>5. CASE BootReplay
  <2>1. \A q \in Procs \ {Boot} : /\ pc'[q] = pc[q] /\ req'[q] = req[q]
                                /\ seen'[q] = seen[q] /\ wasAuto'[q] = wasAuto[q]
    BY <1>5, <1>a DEF BootReplay, SvcReq
  <2>2. pc[Boot] \notin LockedLabels /\ pc'[Boot] \notin LockedLabels
    BY <1>5, <1>a DEF BootReplay, SvcReq
  <2>3. Decided(Boot)' => \E c \in Channels : req'[Boot].chans = {c}
    BY <1>5, <1>a DEF BootReplay, SvcReq
  <2>4. hw' = hw /\ lock' = lock /\ torn' = torn
    BY <1>5 DEF BootReplay, SvcReq
  <2> QED
    BY <1>a, <2>1, <2>2, <2>3, <2>4, OneMoves
<1>6. CASE HeatChanges
  BY <1>6 DEF HeatChanges
<1>7. CASE UNCHANGED vars
  BY <1>7 DEF vars
<1> QED
  BY <1>1, <1>2, <1>3, <1>4, <1>5, <1>6, <1>7

(* Mutual exclusion, with what it needs of the requests in hand.            *)
LockInv == TypeInv /\ LockHeld /\ OnOneChannel

(* The holder of the lock (or, with a free lock, whoever takes it) moves.   *)
LEMMA HolderMoves ==
  ASSUME LockInv, TypeInv', NEW p \in Procs, lock \in {p, None},
         \A q \in Procs \ {p} :
           /\ req'[q] = req[q]
           /\ pc'[q] = pc[q] \/ {pc[q], pc'[q]} \subseteq {"awaitStop", "stopped"},
         Decided(p)' \/ pc'[p] \in {"mode", "duty", "remember", "auto", "forget"} =>
           \E c \in Channels : req'[p].chans = {c},
         \/ lock' = p /\ pc'[p] \in LockedLabels
         \/ lock' = None /\ pc'[p] \notin LockedLabels
  PROVE  LockHeld' /\ OnOneChannel'
<1>0. None \notin Procs
  BY NoneAssumption
<1>1. \A q \in Procs \ {p} : pc[q] \notin LockedLabels
  BY <1>0 DEF LockInv, LockHeld
<1>2. \A q \in Procs \ {p} : pc'[q] \notin LockedLabels
  BY <1>1, LockedFacts
<1>3. LockHeld'
  BY <1>0, <1>2 DEF LockHeld
<1>4. ASSUME NEW q \in Procs,
             Decided(q)' \/ pc'[q] \in {"mode", "duty", "remember", "auto", "forget"}
      PROVE  \E c \in Channels : req'[q].chans = {c}
  <2>1. CASE q = p
    BY <1>4, <2>1
  <2>2. CASE q # p
    BY <1>4, <2>2 DEF LockInv, OnOneChannel, Decided
  <2> QED
    BY <2>1, <2>2
<1>5. QED
  BY <1>3, <1>4 DEF OnOneChannel

(* The steps of the holder.                                                 *)
Holding(p) ==
  \/ Acquire(p) \/ ModeManual(p) \/ WriteDuty(p) \/ Remember(p)
  \/ WriteAuto(p) \/ Forget(p)
  \/ BankMode(p) \/ BankDuty(p) \/ Resume(p) \/ ResumeUnlink(p)
  \/ BankFails(p) \/ ReadBackFails(p) \/ AutoRefused(p) \/ WriteErrors(p)

LEMMA HoldingKeepsLock ==
  ASSUME LockInv, TypeInv', NEW p \in Procs, Holding(p)
  PROVE  LockHeld' /\ OnOneChannel'
<1> USE LockedFacts
<1>a. /\ pc \in [Procs -> Labels] /\ req \in [Procs -> Request] /\ None \notin Procs
  BY NoneAssumption DEF LockInv, TypeInv, TypeOK
<1>b. pc[p] \in LockedLabels => lock = p
  BY DEF LockInv, LockHeld
<1>c. /\ AfterError(p) \in {"plan", "off", "top", "replay", "idle"}
      /\ AfterError(p) \notin LockedLabels
  BY DEF AfterError
<1>d. \A l \in {"plan", "off", "top", "replay", "idle", "mark"} :
        Leave(p, l) =>
          /\ pc'[p] \notin LockedLabels /\ ~Decided(p)'
          /\ \A q \in Procs \ {p} :
               pc'[q] = pc[q] \/ {pc[q], pc'[q]} \subseteq {"awaitStop", "stopped"}
  BY <1>a DEF Leave, SvcGone, Decided
<1>e. pc[p] \in {"mode", "duty", "remember", "auto", "forget"} =>
        \E c \in Channels : req[p].chans = {c}
  BY DEF LockInv, OnOneChannel
<1>1. CASE Acquire(p)
  <2>1. /\ pc[p] = "lock" /\ lock = None /\ lock' = p /\ req' = req
        /\ pc' = [pc EXCEPT ![p] = WorkLabel(req[p])]
    BY <1>1 DEF Acquire, Goto
  <2>2. WorkLabel(req[p]) \in {"resume", "bankMode", "auto", "mode"}
    BY DEF WorkLabel
  <2>3. WorkLabel(req[p]) \in {"auto", "mode"} => req[p].op \notin {"fan", "resume"}
    BY DEF WorkLabel
  <2>4. WorkLabel(req[p]) \in {"auto", "mode"} => \E c \in Channels : req[p].chans = {c}
    BY <2>1, <2>3 DEF LockInv, OnOneChannel, Decided
  <2>5. pc'[p] = WorkLabel(req[p])
    BY <1>a, <2>1
  <2>6. \A q \in Procs \ {p} : pc'[q] = pc[q]
    BY <1>a, <2>1
  <2>7. ~Decided(p)'
    BY <2>2, <2>5 DEF Decided
  <2> QED
    BY <2>1, <2>2, <2>4, <2>5, <2>6, <2>7, HolderMoves
<1>2. CASE ModeManual(p)
  <2>1. /\ lock' = p /\ req' = req /\ pc[p] \in LockedLabels
        /\ pc'[p] \in LockedLabels /\ ~Decided(p)' /\ \A q \in Procs \ {p} : pc'[q] = pc[q]
    BY <1>a, <1>b, <1>2 DEF ModeManual, Goto, Decided, local
  <2>2. \E c \in Channels : req'[p].chans = {c}
    BY <1>e, <1>2, <2>1 DEF ModeManual
  <2> QED
    BY <1>b, <2>1, <2>2, HolderMoves
<1>3. CASE WriteDuty(p)
  <2>1. /\ lock' = p /\ req' = req /\ pc[p] \in LockedLabels
        /\ pc'[p] \in LockedLabels /\ ~Decided(p)' /\ \A q \in Procs \ {p} : pc'[q] = pc[q]
    BY <1>a, <1>b, <1>3 DEF WriteDuty, Goto, Decided, local
  <2>2. \E c \in Channels : req'[p].chans = {c}
    BY <1>e, <1>3, <2>1 DEF WriteDuty
  <2> QED
    BY <1>b, <2>1, <2>2, HolderMoves
<1>4. CASE WriteAuto(p)
  <2>1. /\ lock' = p /\ req' = req /\ pc[p] \in LockedLabels
        /\ pc'[p] \in LockedLabels /\ ~Decided(p)' /\ \A q \in Procs \ {p} : pc'[q] = pc[q]
    BY <1>a, <1>b, <1>4 DEF WriteAuto, Goto, Decided, local
  <2>2. \E c \in Channels : req'[p].chans = {c}
    BY <1>e, <1>4, <2>1 DEF WriteAuto
  <2> QED
    BY <1>b, <2>1, <2>2, HolderMoves
<1>5. CASE Remember(p)
  <2>1. /\ lock' = None /\ req' = req /\ pc[p] \in LockedLabels
        /\ pc'[p] \notin LockedLabels /\ ~Decided(p)' /\ \A q \in Procs \ {p} : pc'[q] = pc[q]
    BY <1>a, <1>5 DEF Remember, Goto, Unlock, Decided, local
  <2> QED
    BY <1>b, <2>1, HolderMoves
<1>6. CASE Forget(p)
  <2>1. /\ lock' = None /\ req' = req /\ pc[p] \in LockedLabels
        /\ Leave(p, IF p = Svc THEN AfterError(p) ELSE "mark")
    BY <1>6 DEF Forget, Unlock, local
  <2> QED
    BY <1>b, <1>c, <1>d, <2>1, HolderMoves
<1>7. CASE ReadBackFails(p)
  <2>1. /\ lock' = None /\ req' = req /\ pc[p] \in LockedLabels
        /\ Leave(p, AfterError(p))
    BY <1>7 DEF ReadBackFails, Unlock, local
  <2> QED
    BY <1>b, <1>c, <1>d, <2>1, HolderMoves
<1>8. CASE AutoRefused(p)
  <2>1. /\ lock' = None /\ req' = req /\ pc[p] \in LockedLabels
        /\ Leave(p, AfterError(p))
    BY <1>8 DEF AutoRefused, Unlock, local
  <2> QED
    BY <1>b, <1>c, <1>d, <2>1, HolderMoves
<1>9. CASE WriteErrors(p)
  <2>1. /\ lock' = None /\ req' = req /\ pc[p] \in LockedLabels
        /\ Leave(p, AfterError(p))
    BY <1>9 DEF WriteErrors, Unlock, local
  <2> QED
    BY <1>b, <1>c, <1>d, <2>1, HolderMoves
<1>10. CASE BankMode(p)
  <2>1. /\ req' = req /\ pc[p] \in LockedLabels /\ \A q \in Procs \ {p} : pc'[q] = pc[q]
        /\ pc'[p] \in {"bankMode", "bankDuty", "note"}
        /\ lock' = IF pc'[p] = "note" THEN None ELSE lock
    BY <1>a, <1>10 DEF BankMode, Goto, Unlock, local
  <2>2. ~Decided(p)'
    BY <2>1 DEF Decided
  <2> QED
    BY <1>b, <2>1, <2>2, HolderMoves
<1>11. CASE BankDuty(p)
  <2>1. /\ req' = req /\ pc[p] \in LockedLabels /\ \A q \in Procs \ {p} : pc'[q] = pc[q]
        /\ pc'[p] \in {"bankMode", "bankDuty", "note"}
        /\ lock' = IF pc'[p] = "note" THEN None ELSE lock
    BY <1>a, <1>11 DEF BankDuty, Goto, Unlock, local
  <2>2. ~Decided(p)'
    BY <2>1 DEF Decided
  <2> QED
    BY <1>b, <2>1, <2>2, HolderMoves
<1>12. CASE Resume(p)
  <2>1. /\ req' = req /\ pc[p] \in LockedLabels /\ \A q \in Procs \ {p} : pc'[q] = pc[q]
        /\ pc'[p] \in {"resumeUnlink", "idle"}
        /\ lock' = IF pc'[p] = "idle" THEN None ELSE lock
    BY <1>a, <1>12 DEF Resume, Goto, Done, Unlock, local
  <2>2. ~Decided(p)'
    BY <2>1 DEF Decided
  <2> QED
    BY <1>b, <2>1, <2>2, HolderMoves
<1>13. CASE ResumeUnlink(p)
  <2>1. /\ req' = req /\ pc[p] \in LockedLabels /\ \A q \in Procs \ {p} : pc'[q] = pc[q]
        /\ pc'[p] \in {"resumeUnlink", "idle"}
        /\ lock' = IF pc'[p] = "idle" THEN None ELSE lock
    BY <1>a, <1>13 DEF ResumeUnlink, Goto, Done, Unlock, local
  <2>2. ~Decided(p)'
    BY <2>1 DEF Decided
  <2> QED
    BY <1>b, <2>1, <2>2, HolderMoves
<1>14. CASE BankFails(p)
  <2>1. /\ req' = req /\ pc[p] \in LockedLabels /\ \A q \in Procs \ {p} : pc'[q] = pc[q]
        /\ pc'[p] \in {"resumeUnlink", "idle"}
        /\ lock' = IF pc'[p] = "idle" THEN None ELSE lock
    BY <1>a, <1>14 DEF BankFails, Goto, Done, Unlock, local
  <2>2. ~Decided(p)'
    BY <2>1 DEF Decided
  <2> QED
    BY <1>b, <2>1, <2>2, HolderMoves
<1>15. QED
  BY <1>1, <1>2, <1>3, <1>4, <1>5, <1>6, <1>7, <1>8, <1>9, <1>10, <1>11, <1>12, <1>13, <1>14 DEF Holding

(* A kill or a power cut drops the lock with its holder; a channel that     *)
(* drifts concerns nobody.                                                  *)
LEMMA KilledMoves ==
  ASSUME TypeInv, NEW p \in Procs, Kill(p)
  PROVE  /\ pc'[p] \notin LockedLabels /\ ~Decided(p)'
         /\ \A q \in Procs \ {p} :
              pc'[q] = pc[q] \/ {pc[q], pc'[q]} \subseteq {"awaitStop", "stopped"}
<1> USE LockedFacts
<1>a. /\ pc \in [Procs -> Labels] /\ Boot \in Procs /\ Svc \in Procs
  BY DEF TypeInv, TypeOK, Procs
<1>1. CASE p = Svc
  <2>1. Leave(Svc, IF stopReq THEN "off" ELSE "top")
    BY <1>1 DEF Kill
  <2> QED
    BY <1>a, <1>1, <2>1 DEF Leave, SvcGone, Decided
<1>2. CASE p # Svc
  <2>1. pc' = [pc EXCEPT ![p] = IF p = Boot THEN "off" ELSE "idle"]
    BY <1>2 DEF Kill, Goto
  <2> QED
    BY <1>a, <2>1 DEF Decided
<1> QED
  BY <1>1, <1>2

LEMMA KillKeepsLock ==
  ASSUME LockInv, TypeInv', NEW p \in Procs, Kill(p)
  PROVE  LockHeld' /\ OnOneChannel'
<1> USE LockedFacts
<1>a. /\ pc \in [Procs -> Labels] /\ None \notin Procs /\ Boot \in Procs /\ Svc \in Procs
  BY NoneAssumption DEF LockInv, TypeInv, TypeOK, Procs
<1>1. /\ req' = req /\ pc[p] \notin {"idle", "off"}
      /\ lock' = IF lock = p THEN None ELSE lock
  BY DEF Kill, local
<1>2. /\ pc'[p] \notin LockedLabels /\ ~Decided(p)'
      /\ \A q \in Procs \ {p} :
           pc'[q] = pc[q] \/ {pc[q], pc'[q]} \subseteq {"awaitStop", "stopped"}
  BY KilledMoves DEF LockInv
<1>3. LockHeld'
  <2>1. LockHeld /\ lock \in Procs \cup {None}
    BY DEF LockInv, TypeInv, TypeOK
  <2>2. ASSUME NEW q \in Procs, pc'[q] \in LockedLabels PROVE lock' = q
    BY <1>a, <1>1, <1>2, <2>1, <2>2 DEF LockHeld
  <2>3. ASSUME lock' # None PROVE pc'[lock'] \in LockedLabels
    BY <1>a, <1>1, <1>2, <2>1, <2>3 DEF LockHeld
  <2> QED
    BY <2>2, <2>3 DEF LockHeld
<1>4. ASSUME NEW q \in Procs,
             Decided(q)' \/ pc'[q] \in {"mode", "duty", "remember", "auto", "forget"}
      PROVE  \E c \in Channels : req'[q].chans = {c}
  <2>1. q # p
    BY <1>2, <1>4
  <2>2. pc'[q] = pc[q]
    BY <1>2, <1>4, <2>1 DEF Decided
  <2> QED
    BY <1>1, <1>4, <2>2 DEF LockInv, OnOneChannel, Decided
<1> QED
  BY <1>3, <1>4 DEF OnOneChannel

LEMMA BootedKeepsLock ==
  ASSUME pc' = [p \in Procs |-> IF p = Svc THEN IF enabled' THEN "top" ELSE "off"
                                ELSE IF p = Boot THEN "check" ELSE "idle"],
         lock' = None
  PROVE  LockHeld' /\ OnOneChannel'
<1>1. \A p \in Procs : pc'[p] \in {"top", "off", "check", "idle"}
  OBVIOUS
<1> QED
  BY <1>1, LockedFacts DEF LockHeld, OnOneChannel, Decided

LEMMA DriftKeepsLock ==
  ASSUME LockInv, NEW c \in Channels, Drift(c)
  PROVE  LockHeld' /\ OnOneChannel'
<1>1. pc' = pc /\ req' = req /\ lock' = lock
  BY DEF Drift, local
<1> QED
  BY <1>1 DEF LockInv, LockHeld, OnOneChannel, Decided

(* A hardware operation is a step of the holder, or a wait that ran out.    *)
LEMMA HardwareKinds ==
  ASSUME NEW p \in Procs, HardwareStep(p)
  PROVE  LockTimeout(p) \/ Holding(p)
BY DEF HardwareStep, Holding

LEMMA InitLocked == Init => LockInv
<1> SUFFICES ASSUME Init PROVE LockInv
  OBVIOUS
<1>1. TypeInv
  BY InitTyped
<1>2. \A p \in Procs : pc[p] \in {"top", "off", "check", "idle"}
  BY DEF Init, AfterBoot
<1>3. lock = None
  BY DEF Init
<1> QED
  BY <1>1, <1>2, <1>3, LockedFacts DEF LockInv, LockHeld, OnOneChannel, Decided

LEMMA AsideKeepsLockInv ==
  ASSUME LockInv, TypeInv', Aside
  PROVE  LockInv'
<1>1. LockHeld'
  BY AsideKeepsLock DEF LockInv
<1>2. OnOneChannel'
  BY LockedFacts DEF OnOneChannel, LockInv, Aside
<1> QED
  BY <1>1, <1>2 DEF LockInv

(* Every step is the holder's, a fault, or leaves what the lock guards      *)
(* aside.                                                                   *)
LEMMA StepKinds ==
  ASSUME TypeInv, OnOneChannel, [Next]_vars
  PROVE  \/ Aside
         \/ \E p \in Procs : Holding(p)
         \/ Reboot
         \/ \E p \in Procs : Kill(p)
         \/ \E c \in Channels : Drift(c)
<1>d. /\ Sessions \subseteq Procs /\ Deckies \subseteq Procs
      /\ Svc \in Procs /\ Boot \in Procs
  BY DEF Procs
<1>h. ASSUME NEW p \in Procs, HardwareStep(p) PROVE Aside \/ Holding(p)
  <2>1. LockTimeout(p) => Aside
    BY SessionAside
  <2> QED
    BY <1>h, <2>1, HardwareKinds
<1>1. CASE \E s \in Sessions : SessionStart(s) \/ DaemonPlan(s) \/ SessionStep(s)
  <2> PICK s \in Sessions : SessionStart(s) \/ DaemonPlan(s) \/ SessionStep(s)
    BY <1>1
  <2>0. s \in Procs
    BY <1>d
  <2>1. CASE HardwareStep(s)
    BY <1>h, <2>0, <2>1
  <2>2. CASE ~HardwareStep(s)
    <3>1. Aside
      BY <2>0, <2>2, SessionAside DEF SessionStep
    <3> QED
      BY <3>1
  <2> QED
    BY <2>1, <2>2
<1>2. CASE \E d \in Deckies : DeckyStart(d) \/ DeckyStep(d)
  <2> PICK d \in Deckies : DeckyStart(d) \/ DeckyStep(d)
    BY <1>2
  <2>0. d \in Procs
    BY <1>d
  <2>1. LockTimeout(d) => Aside
    BY <2>0, SessionAside
  <2>2. DeckyStart(d) \/ Note(d) \/ NoteWrite(d) => Aside
    BY <2>0, OthersAside
  <2>3. DeckyStart(d) \/ Note(d) \/ NoteWrite(d) \/ LockTimeout(d) \/ Holding(d)
    BY DEF DeckyStep, Holding
  <2> QED
    BY <2>0, <2>1, <2>2, <2>3
<1>3. CASE SvcStep
  <2>1. CASE HardwareStep(Svc)
    BY <1>d, <1>h, <2>1
  <2>2. CASE ~HardwareStep(Svc)
    <3>1. Aside
      BY <1>3, <2>2, ServiceAside DEF SvcStep
    <3> QED
      BY <3>1
  <2> QED
    BY <2>1, <2>2
<1>4. CASE BootStep
  <2>1. CASE HardwareStep(Boot)
    BY <1>d, <1>h, <2>1
  <2>2. CASE BootCheck \/ BootReplay
    <3>1. Aside
      BY <1>d, <2>2, OthersAside
    <3> QED
      BY <3>1
  <2> QED
    BY <1>4, <2>1, <2>2 DEF BootStep
<1>5. CASE HeatChanges \/ UNCHANGED vars
  <2>1. Aside
    BY <1>d, <1>5, OthersAside
  <2> QED
    BY <2>1
<1>6. CASE Fault
  <2>1. ASSUME NEW p \in Procs, Kill(p) \/ WriteErrors(p) \/ ReadBackFails(p) \/ AutoRefused(p)
        PROVE  Kill(p) \/ Holding(p)
    BY <2>1 DEF Holding
  <2>2. ASSUME NEW d \in Deckies, BankFails(d) PROVE \E p \in Procs : Holding(p)
    BY <1>d, <2>2 DEF Holding
  <2> QED
    BY <1>6, <2>1, <2>2 DEF Fault
<1> QED
  BY <1>1, <1>2, <1>3, <1>4, <1>5, <1>6 DEF Next

LEMMA StepLocked == LockInv /\ [Next]_vars => LockInv'
<1> SUFFICES ASSUME LockInv, [Next]_vars PROVE LockInv'
  OBVIOUS
<1>a. TypeInv' /\ TypeInv /\ OnOneChannel
  BY StepTyped DEF LockInv
<1>1. CASE Aside
  BY <1>1, <1>a, AsideKeepsLockInv
<1>2. CASE \E p \in Procs : Holding(p)
  BY <1>2, <1>a, HoldingKeepsLock DEF LockInv
<1>3. CASE Reboot
  <2>1. lock' = None /\ enabled' = enabled /\ pc' = AfterBoot
    BY <1>3 DEF Reboot
  <2>2. LockHeld' /\ OnOneChannel'
    BY <2>1, BootedKeepsLock DEF AfterBoot
  <2> QED
    BY <1>a, <2>2 DEF LockInv
<1>4. CASE \E p \in Procs : Kill(p)
  BY <1>4, <1>a, KillKeepsLock DEF LockInv
<1>5. CASE \E c \in Channels : Drift(c)
  BY <1>5, <1>a, DriftKeepsLock DEF LockInv
<1> QED
  BY <1>a, <1>1, <1>2, <1>3, <1>4, <1>5, StepKinds

(* fan_operation_lock: with any number of sessions, Quick Access processes  *)
(* and channels, and under every fault of the model, a process is between   *)
(* its mode write and its record only while it holds the flock, and a free  *)
(* process never keeps it.                                                  *)
THEOREM MutualExclusion == Spec => []LockHeld
<1>1. LockInv => LockHeld
  BY DEF LockInv
<1> QED
  BY <1>1, InitLocked, StepLocked, PTL DEF Spec

-----------------------------------------------------------------------------
(* No channel stands in manual mode without a duty, except through a        *)
(* failure that the code does not roll back.                                *)
LEMMA HeldIsNoDuty ==
  /\ Held \notin Duties /\ Held # Firmware /\ Firmware \notin Duties
  /\ Held \notin Duties \cup {Firmware}
BY NoneAssumption

(* Only the holder's own part of the invariant can break in its step.       *)
LEMMA HolderKeepsHeld ==
  ASSUME LockInv, LockInv', NEW p \in Procs, lock' \in {p, None},
         HeldOnlyIfTorn', HeldWork(p)'
  PROVE  HeldInv'
<1>1. \A q \in Procs \ {p} : pc'[q] \notin LockedLabels
  BY NoneAssumption DEF LockInv, LockHeld
<1>2. \A q \in Procs \ {p} : HeldWork(q)'
  BY <1>1, LockedFacts DEF HeldWork, Loose
<1> QED
  BY <1>2 DEF HeldInv, LockInv

LEMMA ClearKeepsHeld ==
  ASSUME LockInv, LockInv', NEW p \in Procs, lock' \in {p, None},
         NoneLoose', pc'[p] \notin {"bankMode", "bankDuty"}
  PROVE  HeldInv'
<1>1. HeldOnlyIfTorn'
  BY DEF HeldOnlyIfTorn, MidWrite, Loose, NoneLoose
<1>2. HeldWork(p)'
  BY DEF HeldWork, Loose
<1> QED
  BY <1>1, <1>2, HolderKeepsHeld

LEMMA HoldingKeepsHeld ==
  ASSUME LockInv, LockInv', HeldInv, NEW p \in Procs, Holding(p)
  PROVE  HeldInv'
<1> USE LockedFacts
<1>a. /\ pc \in [Procs -> Labels] /\ req \in [Procs -> Request] /\ None \notin Procs
      /\ seen \in [Procs -> SUBSET Channels] /\ wasAuto \in [Procs -> BOOLEAN]
      /\ hw \in [Channels -> Duties \cup {Firmware, Held}]
      /\ req[p].val \in Duties \cup {Firmware} /\ req[p].chans \subseteq Channels
  BY NoneAssumption DEF LockInv, TypeInv, TypeOK, Request
<1>b. pc[p] \in LockedLabels => lock = p
  BY DEF LockInv, LockHeld
<1>c. pc[p] \in {"mode", "duty", "remember", "auto", "forget"} =>
        \E c \in Channels : req[p].chans = {c}
  BY DEF LockInv, OnOneChannel
<1>d. pc[p] \in LockedLabels \ {"duty", "bankMode", "bankDuty"} => NoneLoose
  BY <1>b DEF HeldInv, HeldOnlyIfTorn, MidWrite, Loose, NoneLoose
<1>e. HeldWork(p) /\ HeldOnlyIfTorn
  BY DEF HeldInv
<1>f. lock = p => \A c \in Channels : Loose(c) => c \in req[p].chans
  BY DEF HeldInv, HeldOnlyIfTorn, MidWrite, Loose
<1>g. /\ AfterError(p) \notin LockedLabels
      /\ \A l : Leave(p, l) => pc'[p] = l
  BY <1>a DEF AfterError, Leave, SvcGone
<1>1. CASE Acquire(p)
  <2>1. /\ lock = None /\ lock' = p /\ hw' = hw /\ torn' = torn /\ req' = req
        /\ pc'[p] = WorkLabel(req[p])
        /\ seen'[p] = IF req[p].op = "fan" THEN req[p].chans ELSE seen[p]
    BY <1>1, <1>a DEF Acquire, Goto, ghost
  <2>2. NoneLoose'
    BY <2>1 DEF HeldInv, HeldOnlyIfTorn, MidWrite, Loose, NoneLoose
  <2>3. /\ WorkLabel(req[p]) \in {"resume", "bankMode", "auto", "mode"}
        /\ WorkLabel(req[p]) = "bankMode" => req[p].op = "fan"
    BY DEF WorkLabel
  <2>4. HeldOnlyIfTorn'
    BY <2>2 DEF HeldOnlyIfTorn, MidWrite, Loose, NoneLoose
  <2>5. HeldWork(p)'
    BY <2>1, <2>2, <2>3 DEF HeldWork, Loose
  <2> QED
    BY <2>1, <2>4, <2>5, HolderKeepsHeld
<1>2. CASE ModeManual(p)
  <2>1. PICK c \in Channels : req[p].chans = {c}
    BY <1>2, <1>c DEF ModeManual
  <2>2. /\ pc[p] = "mode" /\ lock' = lock /\ req' = req
        /\ wasAuto' = [wasAuto EXCEPT ![p] = (hw[c] = Firmware)]
        /\ hw' = [hw EXCEPT ![c] = Manual(c)]
        /\ torn' = (IF Manual(c) = Held THEN torn ELSE torn \ {c})
        /\ pc' = [pc EXCEPT ![p] = "duty"]
    BY <1>2, <2>1 DEF ModeManual, WriteReg, Goto
  <2>3. NoneLoose /\ lock' = p /\ pc'[p] = "duty"
    BY <1>a, <1>b, <1>d, <2>2
  <2>4. HeldOnlyIfTorn'
    <3> SUFFICES ASSUME NEW d \in Channels, Loose(d)' PROVE d \in req'[p].chans
      BY <1>a, <2>3 DEF HeldOnlyIfTorn, MidWrite, Loose
    <3>1. d = c
      BY <1>a, <2>2, <2>3 DEF NoneLoose, Loose
    <3> QED
      BY <2>1, <2>2, <3>1
  <2>5. ~wasAuto'[p] => NoneLoose'
    <3>1. wasAuto'[p] = (hw[c] = Firmware)
      BY <1>a, <2>2
    <3>2. hw[c] # Firmware => hw' = hw /\ torn' = IF hw[c] = Held THEN torn ELSE torn \ {c}
      BY <1>a, <2>2 DEF Manual
    <3> QED
      BY <2>3, <3>1, <3>2 DEF NoneLoose, Loose
  <2>6. HeldWork(p)'
    BY <2>3, <2>5 DEF HeldWork, Loose
  <2> QED
    BY <2>3, <2>4, <2>6, HolderKeepsHeld
<1>3. CASE WriteDuty(p)
  <2>1. PICK c \in Channels : req[p].chans = {c}
    BY <1>3, <1>c DEF WriteDuty
  <2>2. /\ pc[p] = "duty" /\ lock' = lock
        /\ hw' = [hw EXCEPT ![c] = req[p].val]
        /\ torn' = (IF req[p].val = Held THEN torn ELSE torn \ {c})
        /\ pc' = [pc EXCEPT ![p] = "remember"]
    BY <1>3, <2>1 DEF WriteDuty, WriteReg, Goto
  <2>3. NoneLoose'
    BY <1>a, <1>b, <1>f, <2>1, <2>2, HeldIsNoDuty DEF NoneLoose, Loose
  <2> QED
    BY <1>a, <1>b, <2>2, <2>3, ClearKeepsHeld
<1>4. CASE WriteAuto(p)
  <2>1. PICK c \in Channels : req[p].chans = {c}
    BY <1>4, <1>c DEF WriteAuto
  <2>2. /\ pc[p] = "auto" /\ lock' = lock
        /\ hw' = [hw EXCEPT ![c] = Firmware]
        /\ torn' = (IF Firmware = Held THEN torn ELSE torn \ {c})
        /\ pc' = [pc EXCEPT ![p] = "forget"]
    BY <1>4, <2>1 DEF WriteAuto, WriteReg, Goto
  <2>3. NoneLoose'
    BY <1>a, <1>d, <2>1, <2>2, HeldIsNoDuty DEF NoneLoose, Loose
  <2> QED
    BY <1>a, <1>b, <2>2, <2>3, ClearKeepsHeld
<1>5. CASE Remember(p)
  <2>1. /\ pc[p] = "remember" /\ lock' = None /\ hw' = hw /\ torn' = torn
        /\ pc'[p] \in {"top", "replay", "mark"}
    BY <1>5, <1>a DEF Remember, Goto, Unlock, ghost
  <2> QED
    BY <1>d, <2>1, ClearKeepsHeld DEF NoneLoose, Loose
<1>6. CASE Forget(p)
  <2>1. /\ pc[p] = "forget" /\ lock' = None /\ hw' = hw /\ torn' = torn
        /\ pc'[p] \notin LockedLabels
    BY <1>6, <1>g DEF Forget, Unlock, ghost
  <2> QED
    BY <1>d, <2>1, ClearKeepsHeld DEF NoneLoose, Loose
<1>7. CASE Resume(p) \/ ResumeUnlink(p)
  <2>1. /\ pc[p] \in {"resume", "resumeUnlink"} /\ lock' \in {lock, None} /\ hw' = hw /\ torn' = torn
        /\ pc'[p] \in {"resumeUnlink", "idle"}
    BY <1>7, <1>a DEF Resume, ResumeUnlink, Goto, Done, Unlock, ghost
  <2> QED
    BY <1>b, <1>d, <2>1, ClearKeepsHeld DEF NoneLoose, Loose
<1>8. CASE AutoRefused(p)
  <2>1. /\ pc[p] = "auto" /\ lock' = None /\ hw' = hw /\ torn' = torn
        /\ pc'[p] \notin LockedLabels
    BY <1>8, <1>g DEF AutoRefused, Unlock, ghost
  <2> QED
    BY <1>d, <2>1, ClearKeepsHeld DEF NoneLoose, Loose
<1>9. CASE ReadBackFails(p)
  <2>1. PICK c \in Channels :
          /\ req[p].chans = {c} /\ pc[p] = "duty" /\ lock' = None
          /\ pc'[p] \notin LockedLabels
          /\ \/ /\ hw' = [hw EXCEPT ![c] = Firmware]
                /\ torn' = (IF Firmware = Held THEN torn ELSE torn \ {c})
             \/ hw' = hw /\ torn' = torn \cup {d \in {c} : hw[d] = Held}
             \/ ~wasAuto[p] /\ hw' = hw /\ torn' = torn
    BY <1>9, <1>c, <1>g DEF ReadBackFails, Unlock, WriteReg, Tear
  <2>2. \A d \in Channels : Loose(d) => d = c
    BY <1>b, <1>f, <2>1
  <2>3. NoneLoose'
    <3>1. CASE hw' = [hw EXCEPT ![c] = Firmware] /\ torn' = torn \ {c}
      BY <1>a, <2>2, <3>1, HeldIsNoDuty DEF NoneLoose, Loose
    <3>2. CASE hw' = hw /\ torn' = torn \cup {d \in {c} : hw[d] = Held}
      BY <2>2, <3>2 DEF NoneLoose, Loose
    <3>3. CASE ~wasAuto[p] /\ hw' = hw /\ torn' = torn
      BY <1>e, <2>1, <3>3 DEF HeldWork, NoneLoose, Loose
    <3> QED
      BY <2>1, <3>1, <3>2, <3>3, HeldIsNoDuty
  <2> QED
    BY <2>1, <2>3, ClearKeepsHeld
<1>10. CASE WriteErrors(p)
  <2>1. /\ pc[p] \in {"mode", "duty"} /\ lock' = None /\ hw' = hw
        /\ pc'[p] \notin LockedLabels
        /\ torn' = torn \cup {c \in req[p].chans : hw[c] = Held}
    BY <1>10, <1>g DEF WriteErrors, Unlock, Tear
  <2>2. NoneLoose'
    BY <1>b, <1>f, <2>1 DEF NoneLoose, Loose
  <2> QED
    BY <2>1, <2>2, ClearKeepsHeld
<1>11. CASE BankMode(p)
  <2>1. PICK c \in seen[p] :
          /\ hw' = [hw EXCEPT ![c] = IF req[p].val = Firmware THEN Firmware ELSE Manual(c)]
          /\ torn' = IF (IF req[p].val = Firmware THEN Firmware ELSE Manual(c)) = Held
                     THEN torn ELSE torn \ {c}
          /\ IF seen[p] # {c}
             THEN /\ seen' = [seen EXCEPT ![p] = @ \ {c}]
                  /\ pc' = pc /\ lock' = lock
             ELSE /\ seen' = [seen EXCEPT ![p] = IF req[p].val = Firmware THEN {}
                                                 ELSE req[p].chans]
                  /\ IF req[p].val = Firmware
                     THEN lock' = None /\ pc' = [pc EXCEPT ![p] = "note"]
                     ELSE lock' = lock /\ pc' = [pc EXCEPT ![p] = "bankDuty"]
    BY <1>11 DEF BankMode, WriteReg, Unlock, Goto
  <2>2. /\ pc[p] = "bankMode" /\ req' = req /\ lock = p
    BY <1>11, <1>b DEF BankMode
  <2>3. c \in Channels /\ c \in req[p].chans /\ seen[p] \subseteq req[p].chans
    BY <1>a, <1>e, <2>1, <2>2 DEF HeldWork, Loose
  <2>4. CASE req[p].val = Firmware
    <3>1. NoneLoose'
      BY <1>a, <1>e, <2>1, <2>2, <2>3, <2>4, HeldIsNoDuty DEF HeldWork, NoneLoose, Loose
    <3>2. HeldOnlyIfTorn'
      BY <3>1 DEF HeldOnlyIfTorn, MidWrite, Loose, NoneLoose
    <3>3. CASE seen[p] # {c}
      <4>1. pc'[p] = "bankMode" /\ lock' = p /\ seen'[p] \subseteq req'[p].chans
        BY <1>a, <2>1, <2>2, <2>3, <3>3
      <4>2. HeldWork(p)'
        BY <3>1, <4>1 DEF HeldWork, Loose
      <4> QED
        BY <3>2, <4>1, <4>2, HolderKeepsHeld
    <3>4. CASE seen[p] = {c}
      <4>1. pc'[p] = "note" /\ lock' = None
        BY <1>a, <2>1, <2>4, <3>4
      <4> QED
        BY <3>1, <4>1, ClearKeepsHeld
    <3> QED
      BY <3>3, <3>4
  <2>5. CASE req[p].val # Firmware
    <3>1. \A d \in Channels : Loose(d)' => d \in req[p].chans
      BY <1>a, <1>f, <2>1, <2>2, <2>3 DEF Loose
    <3>2. lock' = p /\ pc'[p] \in {"bankMode", "bankDuty"}
      BY <1>a, <2>1, <2>2, <2>5
    <3>3. HeldOnlyIfTorn'
      BY <1>a, <2>2, <3>1, <3>2 DEF HeldOnlyIfTorn, MidWrite, Loose
    <3>4. seen'[p] \subseteq req'[p].chans /\ (pc'[p] = "bankDuty" => seen'[p] = req'[p].chans)
      BY <1>a, <2>1, <2>2, <2>3, <2>5
    <3>5. HeldWork(p)'
      BY <1>a, <2>2, <2>5, <3>1, <3>2, <3>4 DEF HeldWork, Loose
    <3> QED
      BY <3>2, <3>3, <3>5, HolderKeepsHeld
  <2> QED
    BY <2>4, <2>5
<1>12. CASE BankDuty(p)
  <2>1. PICK c \in seen[p] :
          /\ hw' = [hw EXCEPT ![c] = req[p].val]
          /\ torn' = IF req[p].val = Held THEN torn ELSE torn \ {c}
          /\ seen' = [seen EXCEPT ![p] = @ \ {c}]
          /\ IF seen[p] # {c} THEN pc' = pc /\ lock' = lock
             ELSE lock' = None /\ pc' = [pc EXCEPT ![p] = "note"]
    BY <1>12 DEF BankDuty, WriteReg, Unlock, Goto
  <2>2. /\ pc[p] = "bankDuty" /\ req' = req /\ lock = p /\ req[p].val \in Duties
        /\ seen[p] \subseteq req[p].chans
        /\ \A d \in Channels : Loose(d) => d \in seen[p]
    BY <1>12, <1>b, <1>e DEF BankDuty, HeldWork, Loose
  <2>3. \A d \in Channels : Loose(d)' => d \in seen[p] \ {c}
    BY <1>a, <2>1, <2>2, HeldIsNoDuty DEF Loose
  <2>4. CASE seen[p] # {c}
    <3>1. lock' = p /\ pc'[p] = "bankDuty" /\ seen'[p] = seen[p] \ {c}
      BY <1>a, <2>1, <2>2, <2>4
    <3>2. HeldOnlyIfTorn'
      BY <1>a, <2>2, <2>3, <3>1 DEF HeldOnlyIfTorn, MidWrite, Loose
    <3>3. HeldWork(p)'
      BY <2>2, <2>3, <3>1 DEF HeldWork, Loose
    <3> QED
      BY <3>1, <3>2, <3>3, HolderKeepsHeld
  <2>5. CASE seen[p] = {c}
    <3>1. lock' = None /\ pc'[p] = "note"
      BY <1>a, <2>1, <2>5
    <3>2. NoneLoose'
      BY <2>3, <2>5 DEF NoneLoose, Loose
    <3> QED
      BY <3>1, <3>2, ClearKeepsHeld
  <2> QED
    BY <2>4, <2>5
<1>13. CASE BankFails(p)
  <2>1. PICK back \in SUBSET req[p].chans :
          /\ hw' = [c \in Channels |-> IF c \in back THEN Firmware ELSE hw[c]]
          /\ torn' = (torn \ back) \cup {c \in req[p].chans \ back : hw[c] = Held}
    BY <1>13 DEF BankFails
  <2>2. /\ pc[p] \in {"bankMode", "bankDuty"} /\ lock' = None
        /\ pc' = [pc EXCEPT ![p] = "idle"]
    BY <1>13 DEF BankFails, Unlock, Done, Goto
  <2>3. NoneLoose'
    <3> SUFFICES ASSUME NEW c \in Channels, Loose(c)' PROVE FALSE
      BY DEF NoneLoose
    <3>1. c \notin back /\ hw[c] = Held /\ c \notin torn /\ c \notin req[p].chans
      BY <1>a, <2>1, HeldIsNoDuty DEF Loose
    <3> QED
      BY <1>b, <1>f, <2>2, <3>1 DEF Loose
  <2> QED
    BY <1>a, <2>2, <2>3, ClearKeepsHeld
<1> QED
  BY <1>1, <1>2, <1>3, <1>4, <1>5, <1>6, <1>7, <1>8, <1>9, <1>10, <1>11, <1>12, <1>13 DEF Holding

LEMMA StepHeld ==
  ASSUME LockInv, LockInv', HeldInv, [Next]_vars
  PROVE  HeldInv'
<1>a. TypeInv /\ TypeInv' /\ LockHeld /\ OnOneChannel /\ OnOneChannel'
  BY DEF LockInv
<1>1. CASE Aside
  BY <1>1, <1>a, AsideKeepsHeld
<1>2. CASE \E p \in Procs : Holding(p)
  BY <1>2, HoldingKeepsHeld
<1>3. CASE Reboot
  <2>1. /\ hw' = [c \in Channels |-> Firmware]
        /\ pc' = [p \in Procs |-> IF p = Svc THEN IF enabled THEN "top" ELSE "off"
                                  ELSE IF p = Boot THEN "check" ELSE "idle"]
    BY <1>3 DEF Reboot, AfterBoot
  <2>2. NoneLoose' /\ HeldOnlyIfTorn'
    BY <2>1, HeldIsNoDuty DEF NoneLoose, HeldOnlyIfTorn, MidWrite, Loose
  <2>3. \A p \in Procs : pc'[p] \in {"top", "off", "check", "idle"}
    BY <2>1
  <2> QED
    BY <1>a, <2>2, <2>3 DEF HeldInv, HeldWork, Loose
<1>4. CASE \E p \in Procs : Kill(p)
  <2> PICK p \in Procs : Kill(p)
    BY <1>4
  <2>1. /\ hw' = hw /\ req' = req /\ seen' = seen /\ wasAuto' = wasAuto
        /\ lock' = (IF lock = p THEN None ELSE lock)
        /\ IF lock = p THEN torn' = torn \cup {c \in req[p].chans : hw[c] = Held}
                       ELSE torn' = torn
    BY DEF Kill, Tear, local
  <2>2. /\ pc'[p] \notin LockedLabels
        /\ \A q \in Procs \ {p} :
             pc'[q] = pc[q] \/ {pc[q], pc'[q]} \subseteq {"awaitStop", "stopped"}
    BY <1>a, KilledMoves
  <2>3. CASE lock = p
    <3>1. \A c \in Channels : Loose(c) => c \in req[p].chans
      BY <2>3 DEF HeldInv, HeldOnlyIfTorn, MidWrite, Loose
    <3>2. NoneLoose'
      BY <2>1, <2>3, <3>1 DEF NoneLoose, Loose
    <3> QED
      BY <2>1, <2>2, <2>3, <3>2, LockedFacts, ClearKeepsHeld
  <2>4. CASE lock # p
    <3>1. pc[p] \notin LockedLabels
      BY <1>a, <2>4 DEF LockHeld
    <3>2. Aside
      BY <1>a, <2>1, <2>2, <2>4, <3>1, LockedFacts DEF Aside, OnOneChannel
    <3> QED
      BY <1>a, <3>2, AsideKeepsHeld
  <2> QED
    BY <2>3, <2>4
<1>5. CASE \E c \in Channels : Drift(c)
  <2> PICK c \in Channels : Drift(c)
    BY <1>5
  <2>1. /\ lock = None /\ lock' = None /\ pc' = pc /\ req' = req
        /\ hw' = [hw EXCEPT ![c] = Firmware] /\ torn' = torn \ {c}
    BY DEF Drift, local
  <2>2. \A p \in Procs : pc'[p] \notin LockedLabels
    BY <1>a, <2>1, NoneAssumption DEF LockHeld
  <2>3. NoneLoose
    BY <2>1 DEF HeldInv, HeldOnlyIfTorn, MidWrite, Loose, NoneLoose
  <2>4. NoneLoose' /\ HeldOnlyIfTorn'
    BY <1>a, <2>1, <2>3, HeldIsNoDuty DEF NoneLoose, HeldOnlyIfTorn, MidWrite, Loose, TypeInv, TypeOK
  <2> QED
    BY <1>a, <2>2, <2>4, LockedFacts DEF HeldInv, HeldWork, Loose
<1> QED
  BY <1>a, <1>1, <1>2, <1>3, <1>4, <1>5, StepKinds

LEMMA InitHeld == Init => HeldInv
<1> SUFFICES ASSUME Init PROVE HeldInv
  OBVIOUS
<1>1. NoneLoose /\ HeldOnlyIfTorn
  BY HeldIsNoDuty DEF Init, NoneLoose, HeldOnlyIfTorn, MidWrite, Loose
<1>2. \A p \in Procs : pc[p] \in {"top", "off", "check", "idle"}
  BY DEF Init, AfterBoot
<1>3. OnOneChannel
  BY InitLocked DEF LockInv
<1> QED
  BY <1>1, <1>2, <1>3 DEF HeldInv, HeldWork, Loose

(* apply_pwm, fan_channel_control, fan_system_preset: under every fault of   *)
(* the model, and with any number of processes and channels, a channel is   *)
(* in manual mode at a duty nobody asked for only in the hands of the       *)
(* process that is changing it, or since a death, a raised duty write or a  *)
(* failed roll back, and only until the next write of it arrives.  So no    *)
(* refusal and no crash elsewhere ever adds such a channel.                 *)
THEOREM NoChannelLeftHeld == Spec => []HeldOnlyIfTorn
<1>1. Init => LockInv /\ HeldInv
  BY InitLocked, InitHeld
<1>2. LockInv /\ HeldInv /\ [Next]_vars => LockInv' /\ HeldInv'
  BY StepLocked, StepHeld
<1>3. LockInv /\ HeldInv => HeldOnlyIfTorn
  BY DEF HeldInv
<1> QED
  BY <1>1, <1>2, <1>3, PTL DEF Spec

-----------------------------------------------------------------------------
(* What the next boot would replay.                                         *)

(* Nobody hands the fan to another program.                                 *)
NoHandOver == \A r \in SessionRequests : r.op # "EXTERNAL ON"
HandOverLabels == {"handOver", "unlinkPolicyX", "dropOverrideX", "loadState", "clearState"}
OwnInv == ~external /\ \A p \in Procs : pc[p] \notin HandOverLabels
                                        /\ req[p].op # "EXTERNAL ON"

LEMMA OwnMoves ==
  ASSUME TypeInv, OwnInv, NEW p \in Procs, NEW l, l \notin HandOverLabels,
         Goto(p, l) \/ Leave(p, l), req' = req, external' \in {external, FALSE}
  PROVE  OwnInv'
<1>a. pc \in [Procs -> Labels] /\ external \in BOOLEAN
  BY DEF TypeInv, TypeOK
<1>1. \A q \in Procs : pc'[q] \in {pc[q], l, "stopped"}
  <2>1. CASE pc' = [pc EXCEPT ![p] = l]
    BY <1>a, <2>1
  <2>2. CASE pc' = SvcGone(l) /\ p = Svc
    BY <2>2 DEF SvcGone
  <2> QED
    BY <2>1, <2>2 DEF Goto, Leave
<1>2. external' = FALSE
  BY <1>a DEF OwnInv
<1> QED
  BY <1>1, <1>2 DEF OwnInv, HandOverLabels

LEMMA OwnDecides ==
  ASSUME TypeInv, OwnInv, NEW p \in Procs, NEW l, l \notin HandOverLabels, NEW r,
         r.op # "EXTERNAL ON", Goto(p, l), req' = [req EXCEPT ![p] = r], external' = external
  PROVE  OwnInv'
<1>1. \A q \in Procs : pc'[q] \in {pc[q], l} /\ req'[q] \in {req[q], r}
  BY DEF Goto, TypeInv, TypeOK
<1> QED
  BY <1>1 DEF OwnInv, HandOverLabels

LEMMA InitOwn == Init => OwnInv
<1> SUFFICES ASSUME Init PROVE OwnInv
  OBVIOUS
<1>1. \A p \in Procs : pc[p] \in {"top", "off", "check", "idle"} /\ req[p] = NoRequest
  BY DEF Init, AfterBoot
<1> QED
  BY <1>1 DEF Init, OwnInv, HandOverLabels, NoRequest

LEMMA HardwareOwn ==
  ASSUME TypeInv, OwnInv, NEW p \in Procs,
         HardwareStep(p) \/ WriteErrors(p) \/ ReadBackFails(p) \/ AutoRefused(p)
  PROVE  OwnInv'
<1>a. AfterError(p) \notin HandOverLabels /\ WorkLabel(req[p]) \notin HandOverLabels
  BY DEF AfterError, WorkLabel, HandOverLabels
<1>b. \A l \in {"duty", "remember", "forget", "top", "replay", "mark", "off"} :
        l \notin HandOverLabels
  BY DEF HandOverLabels
<1> USE DEF files, local
<1>1. CASE Acquire(p)
  BY <1>a, <1>1, OwnMoves DEF Acquire
<1>2. CASE LockTimeout(p)
  BY <1>a, <1>b, <1>2, OwnMoves DEF LockTimeout
<1>3. CASE ModeManual(p)
  BY <1>b, <1>3, OwnMoves DEF ModeManual
<1>4. CASE WriteDuty(p)
  BY <1>b, <1>4, OwnMoves DEF WriteDuty
<1>5. CASE Remember(p)
  BY <1>b, <1>5, OwnMoves DEF Remember
<1>6. CASE WriteAuto(p)
  BY <1>b, <1>6, OwnMoves DEF WriteAuto
<1>7. CASE Forget(p)
  BY <1>a, <1>b, <1>7, OwnMoves DEF Forget
<1>8. CASE WriteErrors(p)
  BY <1>a, <1>8, OwnMoves DEF WriteErrors
<1>9. CASE ReadBackFails(p)
  BY <1>a, <1>9, OwnMoves DEF ReadBackFails
<1>10. CASE AutoRefused(p)
  BY <1>a, <1>10, OwnMoves DEF AutoRefused
<1> QED
  BY <1>1, <1>2, <1>3, <1>4, <1>5, <1>6, <1>7, <1>8, <1>9, <1>10 DEF HardwareStep

LEMMA SessionOwn ==
  ASSUME NoHandOver, TypeInv, OwnInv, NEW s \in Sessions,
         SessionStart(s) \/ DaemonPlan(s) \/ SessionStep(s)
  PROVE  OwnInv'
<1>a. s \in Procs /\ s # Svc /\ Svc \in Procs
  BY ProcAssumption DEF Procs
<1>b. pc[s] \notin HandOverLabels /\ req[s].op # "EXTERNAL ON"
  BY <1>a DEF OwnInv
<1>c. \A l \in {"idle", "lock", "planned", "dropOverride", "restart", "awaitStop", "stopped",
                "unlinkPolicy", "markWrite"} : l \notin HandOverLabels
  BY DEF HandOverLabels
<1> USE DEF files, local, Done
<1>1. CASE SessionStart(s)
  <2>1. PICK r \in SessionRequests :
          req' = [req EXCEPT ![s] = r] /\ Goto(s, FirstLabel(r)) /\ external' = external
    BY <1>1 DEF SessionStart
  <2>2. FirstLabel(r) \notin HandOverLabels
    BY <2>1, RequestAssumption DEF FirstLabel, HandOverLabels, NoHandOver, SessionOps
  <2> QED
    BY <1>a, <2>1, <2>2, OwnDecides DEF NoHandOver
<1>2. CASE DaemonPlan(s)
  BY <1>a, <1>c, <1>2, OwnDecides DEF DaemonPlan
<1>3. CASE HardwareStep(s)
  BY <1>a, <1>3, HardwareOwn
<1>4. CASE DaemonSend(s)
  BY <1>a, <1>c, <1>4, OwnMoves DEF DaemonSend
<1>5. CASE SavePolicy(s)
  BY <1>a, <1>c, <1>5, OwnMoves DEF SavePolicy
<1>6. CASE UnlinkPolicy(s)
  BY <1>a, <1>b, <1>c, <1>6, OwnMoves DEF UnlinkPolicy, HandOverLabels
<1>7. CASE DropOverride(s)
  BY <1>a, <1>b, <1>c, <1>7, OwnMoves DEF DropOverride, HandOverLabels
<1>8. CASE Enable(s)
  <2>1. req' = req /\ external' = external /\ \A q \in Procs : pc'[q] \in {pc[q], "idle", "restart", "top"}
    BY <1>8 DEF Enable, Goto, TypeInv, TypeOK
  <2> QED
    BY <2>1 DEF OwnInv, HandOverLabels
<1>9. CASE RequestStop(s)
  BY <1>a, <1>c, <1>9, OwnMoves DEF RequestStop
<1>10. CASE AfterStop(s)
  <2>1. req' = req /\ external' = external
        /\ \A q \in Procs : pc'[q] \in {pc[q], "idle", "unlinkPolicy", "top"}
    BY <1>10 DEF AfterStop, Goto, TypeInv, TypeOK
  <2> QED
    BY <2>1 DEF OwnInv, HandOverLabels
<1>11. CASE HandOver(s) \/ LoadState(s) \/ ClearState(s)
  BY <1>b, <1>11 DEF HandOver, LoadState, ClearState, HandOverLabels
<1>12. CASE TakeBack(s)
  BY <1>a, <1>c, <1>12, OwnMoves DEF TakeBack
<1>13. CASE Mark(s)
  BY <1>a, <1>c, <1>13, OwnMoves DEF Mark
<1>14. CASE MarkWrite(s)
  BY <1>a, <1>c, <1>14, OwnMoves DEF MarkWrite
<1> QED
  BY <1>1, <1>2, <1>3, <1>4, <1>5, <1>6, <1>7, <1>8, <1>9, <1>10, <1>11, <1>12, <1>13, <1>14
     DEF SessionStep

LEMMA ServiceOwn ==
  ASSUME TypeInv, OwnInv, SvcStep
  PROVE  OwnInv'
<1>a. Svc \in Procs /\ req \in [Procs -> Request]
  BY DEF Procs, TypeInv, TypeOK
<1>c. /\ \A l \in {"top", "reload", "release", "plan", "override", "unlink", "compare", "lock"} :
           l \notin HandOverLabels
      /\ AfterError(Svc) \notin HandOverLabels
  BY DEF HandOverLabels, AfterError
<1>d. \A op \in Ops : [NoRequest EXCEPT !.op = op].op = op
  BY DEF NoRequest
<1> USE DEF files, local
<1>1. CASE HardwareStep(Svc)
  BY <1>a, <1>1, HardwareOwn
<1>2. CASE SvcTop
  BY <1>2 DEF SvcTop, OwnInv, HandOverLabels, Goto, TypeInv, TypeOK
<1>3. CASE SvcStop
  BY <1>a, <1>c, <1>d, <1>3, OwnDecides DEF SvcStop, NoRequest
<1>4. CASE SvcReload
  <2>1. CASE Goto(Svc, "plan") /\ UNCHANGED req
    BY <1>a, <1>c, <1>4, <2>1, OwnMoves DEF SvcReload
  <2>2. CASE req' = [req EXCEPT ![Svc] = [NoRequest EXCEPT !.op = "release"]] /\ Goto(Svc, "release")
    BY <1>a, <1>c, <1>4, <2>2, OwnDecides DEF SvcReload, NoRequest
  <2> QED
    BY <1>4, <2>1, <2>2 DEF SvcReload
<1>5. CASE SvcRelease
  <2>1. CASE Leave(Svc, AfterError(Svc)) /\ UNCHANGED req
    BY <1>a, <1>c, <1>5, <2>1, OwnMoves DEF SvcRelease
  <2>2. CASE /\ req' = [req EXCEPT ![Svc] = SvcReq(req[Svc].op, svcChannel, Firmware)]
             /\ Goto(Svc, "lock")
    BY <1>a, <1>c, <1>5, <2>2, OwnDecides DEF SvcRelease, SvcReq, OwnInv
  <2> QED
    BY <1>5, <2>1, <2>2 DEF SvcRelease
<1>6. CASE SvcPlan
  <2>1. CASE Goto(Svc, "top") /\ UNCHANGED req
    BY <1>a, <1>c, <1>6, <2>1, OwnMoves DEF SvcPlan
  <2>2. CASE /\ req' = [req EXCEPT ![Svc] = SvcReq(IF hot THEN "failsafe" ELSE "write",
                        svcPolicy.pwm, IF hot THEN Failsafe ELSE svcPolicy.duty)]
             /\ Goto(Svc, "override")
    BY <1>a, <1>c, <1>6, <2>2, OwnDecides DEF SvcPlan, SvcReq
  <2> QED
    BY <1>6, <2>1, <2>2 DEF SvcPlan
<1>7. CASE SvcOverride
  BY <1>a, <1>c, <1>7, OwnMoves DEF SvcOverride
<1>8. CASE SvcUnlink
  BY <1>a, <1>c, <1>8, OwnMoves DEF SvcUnlink
<1>9. CASE SvcWrite \/ SvcWait
  BY <1>a, <1>c, <1>9, OwnMoves DEF SvcWrite, SvcWait
<1>10. CASE SvcVerify
  BY <1>a, <1>c, <1>10, OwnMoves DEF SvcVerify
<1> QED
  BY <1>1, <1>2, <1>3, <1>4, <1>5, <1>6, <1>7, <1>8, <1>9, <1>10 DEF SvcStep

LEMMA DeckyOwn ==
  ASSUME TypeInv, OwnInv, NEW d \in Deckies, DeckyStart(d) \/ DeckyStep(d)
  PROVE  OwnInv'
<1>a. d \in Procs
  BY DEF Procs
<1>c. /\ \A l \in {"idle", "lock", "note", "noteWrite", "bankDuty", "resumeUnlink"} :
           l \notin HandOverLabels
      /\ AfterError(d) \notin HandOverLabels
  BY DEF HandOverLabels, AfterError
<1> USE DEF files, local, Done
<1>1. CASE DeckyStart(d)
  <2>1. PICK r \in DeckyRequests :
          req' = [req EXCEPT ![d] = r] /\ Goto(d, "lock") /\ external' = external
    BY <1>1 DEF DeckyStart
  <2>2. r.op # "EXTERNAL ON"
    BY <2>1, RequestAssumption
  <2> QED
    BY <1>a, <1>c, <2>1, <2>2, OwnDecides
<1>2. CASE Acquire(d) \/ LockTimeout(d)
  BY <1>a, <1>2, HardwareOwn DEF HardwareStep
<1>3. CASE BankMode(d)
  <2>1. req' = req /\ external' = external /\ \A q \in Procs : pc'[q] \in {pc[q], "note", "bankDuty"}
    BY <1>3 DEF BankMode, Goto, TypeInv, TypeOK
  <2> QED
    BY <2>1 DEF OwnInv, HandOverLabels
<1>4. CASE BankDuty(d)
  <2>1. req' = req /\ external' = external /\ \A q \in Procs : pc'[q] \in {pc[q], "note"}
    BY <1>4 DEF BankDuty, Goto, TypeInv, TypeOK
  <2> QED
    BY <2>1 DEF OwnInv, HandOverLabels
<1>5. CASE Note(d)
  BY <1>a, <1>c, <1>5, OwnMoves DEF Note
<1>6. CASE NoteWrite(d)
  BY <1>a, <1>c, <1>6, OwnMoves DEF NoteWrite
<1>7. CASE Resume(d)
  BY <1>a, <1>c, <1>7, OwnMoves DEF Resume
<1>8. CASE ResumeUnlink(d)
  BY <1>a, <1>c, <1>8, OwnMoves DEF ResumeUnlink
<1> QED
  BY <1>1, <1>2, <1>3, <1>4, <1>5, <1>6, <1>7, <1>8 DEF DeckyStep

LEMMA OtherOwn ==
  ASSUME TypeInv, OwnInv,
         BootStep \/ HeatChanges \/ Fault \/ UNCHANGED vars
  PROVE  OwnInv'
<1>a. Boot \in Procs /\ Deckies \subseteq Procs
  BY DEF Procs
<1>c. \A l \in {"off", "replay", "lock", "idle", "top"} : l \notin HandOverLabels
  BY DEF HandOverLabels
<1> USE DEF files, local, Done
<1>1. CASE HardwareStep(Boot)
  BY <1>a, <1>1, HardwareOwn
<1>2. CASE BootCheck
  BY <1>a, <1>c, <1>2, OwnMoves DEF BootCheck
<1>3. CASE BootReplay
  <2>1. CASE Goto(Boot, "off") /\ req' = req
    BY <1>a, <1>c, <1>3, <2>1, OwnMoves DEF BootReplay
  <2>2. CASE \E c \in Channels : /\ req' = [req EXCEPT ![Boot] = SvcReq("replay", c, replay[c])]
                                 /\ Goto(Boot, "lock")
    BY <1>a, <1>c, <1>3, <2>2, OwnDecides DEF BootReplay, SvcReq
  <2> QED
    BY <1>3, <2>1, <2>2 DEF BootReplay
<1>4. CASE HeatChanges \/ UNCHANGED vars \/ \E c \in Channels : Drift(c)
  <2>1. UNCHANGED <<external, pc, req>>
    BY <1>4 DEF HeatChanges, vars, Drift
  <2> QED
    BY <2>1 DEF OwnInv
<1>5. CASE Reboot
  <2>1. external' = external /\ pc' = AfterBoot /\ req' = [p \in Procs |-> NoRequest]
    BY <1>5 DEF Reboot
  <2>2. \A p \in Procs : pc'[p] \in {"top", "off", "check", "idle"} /\ req'[p] = NoRequest
    BY <2>1 DEF AfterBoot
  <2> QED
    BY <2>1, <2>2 DEF OwnInv, HandOverLabels, NoRequest
<1>6. ASSUME NEW p \in Procs, Kill(p) PROVE OwnInv'
  <2>1. req' = req /\ external' = external
    BY <1>6 DEF Kill
  <2>2. \E l \in {"off", "idle", "top"} : Goto(p, l) \/ Leave(p, l)
    BY <1>6 DEF Kill
  <2> QED
    BY <1>c, <2>1, <2>2, OwnMoves
<1>7. ASSUME NEW p \in Procs, WriteErrors(p) \/ ReadBackFails(p) \/ AutoRefused(p) PROVE OwnInv'
  BY <1>7, HardwareOwn
<1>8. ASSUME NEW d \in Deckies, BankFails(d) PROVE OwnInv'
  BY <1>a, <1>c, <1>8, OwnMoves DEF BankFails
<1> QED
  BY <1>1, <1>2, <1>3, <1>4, <1>5, <1>6, <1>7, <1>8 DEF BootStep, Fault

LEMMA StepOwn ==
  ASSUME NoHandOver, TypeInv, OwnInv, [Next]_vars
  PROVE  OwnInv'
BY SessionOwn, ServiceOwn, DeckyOwn, OtherOwn DEF Next
-----------------------------------------------------------------------------
(* A channel between its write and the record of it, by the lock's holder.  *)
Unrecorded(c) ==
  lock # None /\ c \in req[lock].chans /\ pc[lock] \in {"duty", "remember", "forget"}
Recorded(value) == IF value = Firmware THEN None ELSE value
Helper == {"session", "service", "boot"}

(* ReplayMirrorsHelper at every moment, and what a holder is about to       *)
(* record is what it has written.                                           *)
MirrorInv ==
  /\ \A c \in Channels :
       by[c] \in Helper /\ hw[c] # Held /\ ~Unrecorded(c) => applied[c] = Recorded(hw[c])
  /\ \A p \in Procs : \A c \in req[p].chans :
       /\ pc[p] = "remember" => hw[c] = req[p].val
       /\ pc[p] = "forget" => hw[c] = Firmware

(* No helper dies, and no register refuses a write or fails.                *)
SoundWrites == FaultKinds \subseteq {"reboot", "drift"}

LEMMA FilesAside ==
  ASSUME OwnInv, NEW s \in Procs,
         \/ LockTimeout(s) \/ SessionStart(s) \/ DaemonPlan(s) \/ DaemonSend(s)
         \/ SavePolicy(s) \/ UnlinkPolicy(s) \/ DropOverride(s) \/ Enable(s)
         \/ RequestStop(s) \/ AfterStop(s) \/ HandOver(s) \/ LoadState(s) \/ ClearState(s)
         \/ TakeBack(s) \/ Mark(s) \/ MarkWrite(s)
         \/ DeckyStart(s) \/ Note(s) \/ NoteWrite(s)
         \/ BootCheck \/ BootReplay \/ HeatChanges \/ UNCHANGED vars
         \/ SvcTop \/ SvcStop \/ SvcReload \/ SvcRelease \/ SvcPlan \/ SvcOverride \/ SvcUnlink
         \/ SvcWrite \/ SvcWait \/ SvcVerify
  PROVE  UNCHANGED <<by, applied>>
<1>1. ~HandOver(s) /\ ~ClearState(s)
  BY DEF OwnInv, HandOverLabels, HandOver, ClearState
<1> USE DEF files, ghost
<1>2. CASE LockTimeout(s) \/ SessionStart(s) \/ DaemonPlan(s) \/ DaemonSend(s)
           \/ SavePolicy(s) \/ UnlinkPolicy(s) \/ DropOverride(s)
  BY <1>2 DEF LockTimeout, SessionStart, DaemonPlan, DaemonSend, SavePolicy, UnlinkPolicy,
              DropOverride
<1>3. CASE Enable(s) \/ RequestStop(s) \/ AfterStop(s) \/ LoadState(s)
           \/ TakeBack(s) \/ Mark(s) \/ MarkWrite(s)
  BY <1>3 DEF Enable, RequestStop, AfterStop, LoadState, TakeBack, Mark, MarkWrite
<1>4. CASE DeckyStart(s) \/ Note(s) \/ NoteWrite(s)
           \/ BootCheck \/ BootReplay \/ HeatChanges \/ UNCHANGED vars
  BY <1>4 DEF DeckyStart, Note, NoteWrite, BootCheck, BootReplay, HeatChanges, vars
<1>5. CASE SvcTop \/ SvcStop \/ SvcReload \/ SvcRelease \/ SvcPlan \/ SvcOverride \/ SvcUnlink
           \/ SvcWrite \/ SvcWait \/ SvcVerify
  BY <1>5 DEF SvcTop, SvcStop, SvcReload, SvcRelease, SvcPlan, SvcOverride, SvcUnlink,
              SvcWrite, SvcWait, SvcVerify
<1> QED
  BY <1>1, <1>2, <1>3, <1>4, <1>5

(* The steps of a holder whose writes succeed.                              *)
Working(p) ==
  \/ Acquire(p) \/ ModeManual(p) \/ WriteDuty(p) \/ Remember(p)
  \/ WriteAuto(p) \/ Forget(p) \/ Resume(p) \/ ResumeUnlink(p)

(* StepKinds, told apart by what becomes of the channels and their record.  *)
LEMMA SoundKinds ==
  ASSUME SoundWrites, TypeInv, OnOneChannel, OwnInv, [Next]_vars
  PROVE  \/ Aside /\ UNCHANGED <<by, applied>>
         \/ \E p \in Procs : Working(p)
         \/ \E d \in Deckies : BankMode(d) \/ BankDuty(d)
         \/ Reboot
         \/ \E c \in Channels : Drift(c)
<1>d. /\ Sessions \subseteq Procs /\ Deckies \subseteq Procs
      /\ Svc \in Procs /\ Boot \in Procs
  BY DEF Procs
<1>f. \A p : ~Kill(p) /\ ~WriteErrors(p) /\ ~ReadBackFails(p) /\ ~AutoRefused(p) /\ ~BankFails(p)
  BY DEF Kill, WriteErrors, ReadBackFails, AutoRefused, BankFails, Strike, SoundWrites
<1>h. ASSUME NEW p \in Procs, HardwareStep(p)
      PROVE  (Aside /\ UNCHANGED <<by, applied>>) \/ Working(p)
  <2>1. LockTimeout(p) => Aside /\ UNCHANGED <<by, applied>>
    BY SessionAside, FilesAside
  <2> QED
    BY <1>h, <2>1 DEF HardwareStep, Working
<1>1. CASE \E s \in Sessions : SessionStart(s) \/ DaemonPlan(s) \/ SessionStep(s)
  <2> PICK s \in Sessions : SessionStart(s) \/ DaemonPlan(s) \/ SessionStep(s)
    BY <1>1
  <2>0. s \in Procs
    BY <1>d
  <2>1. CASE HardwareStep(s)
    BY <1>h, <2>0, <2>1
  <2>2. CASE ~HardwareStep(s)
    <3>1. Aside /\ UNCHANGED <<by, applied>>
      BY <2>0, <2>2, SessionAside, FilesAside DEF SessionStep
    <3> QED
      BY <3>1
  <2> QED
    BY <2>1, <2>2
<1>2. CASE \E d \in Deckies : DeckyStart(d) \/ DeckyStep(d)
  <2> PICK d \in Deckies : DeckyStart(d) \/ DeckyStep(d)
    BY <1>2
  <2>0. d \in Procs
    BY <1>d
  <2>1. LockTimeout(d) \/ DeckyStart(d) \/ Note(d) \/ NoteWrite(d)
          => Aside /\ UNCHANGED <<by, applied>>
    BY <2>0, SessionAside, OthersAside, FilesAside
  <2>2. DeckyStart(d) \/ Note(d) \/ NoteWrite(d) \/ LockTimeout(d) \/ Working(d)
        \/ BankMode(d) \/ BankDuty(d)
    BY DEF DeckyStep, Working
  <2> QED
    BY <2>0, <2>1, <2>2
<1>3. CASE SvcStep
  <2>1. CASE HardwareStep(Svc)
    BY <1>d, <1>h, <2>1
  <2>2. CASE ~HardwareStep(Svc)
    <3>1. Aside /\ UNCHANGED <<by, applied>>
      BY <1>d, <1>3, <2>2, ServiceAside, FilesAside DEF SvcStep
    <3> QED
      BY <3>1
  <2> QED
    BY <2>1, <2>2
<1>4. CASE HardwareStep(Boot)
  BY <1>d, <1>h, <1>4
<1>5. CASE BootCheck \/ BootReplay \/ HeatChanges \/ UNCHANGED vars
  <2>1. Aside /\ UNCHANGED <<by, applied>>
    BY <1>d, <1>5, OthersAside, FilesAside
  <2> QED
    BY <2>1
<1>6. CASE Fault
  BY <1>f, <1>6 DEF Fault
<1> QED
  BY <1>1, <1>2, <1>3, <1>4, <1>5, <1>6, Zenon DEF Next, BootStep

LEMMA AsideKeepsMirror ==
  ASSUME TypeInv, TypeInv', LockInv, MirrorInv, Aside, UNCHANGED <<by, applied>>
  PROVE  MirrorInv'
<1>1. hw' = hw /\ lock' = lock
  BY DEF Aside
<1>2. \A p \in Procs : pc[p] \in LockedLabels \/ pc'[p] \in LockedLabels =>
        pc'[p] = pc[p] /\ req'[p] = req[p]
  BY DEF Aside
<1>3. \A c \in Channels : Unrecorded(c)' <=> Unrecorded(c)
  <2>1. lock # None => lock \in Procs /\ pc'[lock] = pc[lock] /\ req'[lock] = req[lock]
    BY <1>2 DEF LockInv, LockHeld, TypeInv, TypeOK
  <2> QED
    BY <1>1, <2>1 DEF Unrecorded
<1> QED
  BY <1>1, <1>2, <1>3, LockedFacts DEF MirrorInv, Recorded

LEMMA WorkKeepsMirror ==
  ASSUME TypeInv, TypeInv', LockInv, LockInv', MirrorInv, NEW p \in Procs, Working(p)
  PROVE  MirrorInv'
<1>a. /\ pc \in [Procs -> Labels] /\ req \in [Procs -> Request] /\ None \notin Procs
      /\ hw \in [Channels -> Duties \cup {Firmware, Held}]
      /\ applied \in [Channels -> Duties \cup {None}]
      /\ by \in [Channels -> Kinds]
  BY NoneAssumption DEF TypeInv, TypeOK, Kinds
<1>b. pc[p] \in LockedLabels => lock = p
  BY DEF LockInv, LockHeld
<1>c. \A q \in Procs \ {p} : lock' \in {p, None} => pc'[q] \notin {"remember", "forget"}
  BY <1>a, LockedFacts DEF LockInv, LockHeld
<1>d. pc[p] \in {"mode", "duty", "remember", "auto", "forget"} =>
        \E c \in Channels : req[p].chans = {c}
  BY DEF LockInv, OnOneChannel
<1>e. Firmware \notin Duties
  BY NoneAssumption
<1> DEFINE Right(c) == by[c] \in Helper /\ hw[c] # Held => applied[c] = Recorded(hw[c])
<1> USE DEF files, ghost, local, Unlock, Goto
<1>1. CASE Acquire(p)
  <2>1. /\ lock = None /\ lock' = p /\ UNCHANGED <<hw, by, applied, req>>
        /\ pc' = [pc EXCEPT ![p] = WorkLabel(req[p])]
    BY <1>1 DEF Acquire
  <2>2. pc'[p] \notin {"duty", "remember", "forget"}
    <3>1. WorkLabel(req[p]) \notin {"duty", "remember", "forget"}
      BY DEF WorkLabel
    <3> QED
      BY <1>a, <2>1, <3>1
  <2>3. \A c \in Channels : Right(c) /\ ~Unrecorded(c)'
    BY <2>1, <2>2 DEF MirrorInv, Unrecorded
  <2> QED
    BY <1>c, <2>1, <2>2, <2>3 DEF MirrorInv, Recorded
<1>2. CASE ModeManual(p) \/ WriteAuto(p) \/ WriteDuty(p)
  <2>1. PICK c \in Channels : req[p].chans = {c}
    BY <1>2, <1>d DEF ModeManual, WriteAuto, WriteDuty
  <2>2. lock = p /\ lock' = p /\ UNCHANGED <<applied, req>>
    BY <1>2, <1>b, LockedFacts DEF ModeManual, WriteAuto, WriteDuty
  <2>3. \A d \in Channels \ {c} : hw'[d] = hw[d] /\ by'[d] = by[d]
    BY <1>2, <1>a, <2>1 DEF ModeManual, WriteAuto, WriteDuty, WriteReg
  <2>4. \A d \in Channels \ {c} : Right(d)
    BY <1>a, <2>1, <2>2 DEF MirrorInv, Unrecorded
  <2>5. /\ pc'[p] \in {"duty", "remember", "forget"}
        /\ pc'[p] = "remember" => hw'[c] = req[p].val
        /\ pc'[p] = "forget" => hw'[c] = Firmware
    BY <1>2, <1>a, <2>1 DEF ModeManual, WriteAuto, WriteDuty, WriteReg
  <2>6. Unrecorded(c)'
    BY <1>a, <2>1, <2>2, <2>5 DEF Unrecorded
  <2> QED
    BY <1>c, <2>1, <2>2, <2>3, <2>4, <2>5, <2>6 DEF MirrorInv, Recorded
<1>3. CASE Remember(p) \/ Forget(p)
  <2>1. PICK c \in Channels : req[p].chans = {c}
    BY <1>3, <1>d DEF Remember, Forget
  <2>2. lock = p /\ lock' = None /\ UNCHANGED <<hw, by, req>>
    BY <1>3, <1>b, LockedFacts DEF Remember, Forget
  <2>3. applied' = [applied EXCEPT ![c] = IF pc[p] = "remember" THEN req[p].val ELSE None]
    BY <1>3, <2>1 DEF Remember, Forget
  <2>4. applied'[c] = Recorded(hw[c])
    <3>1. CASE Remember(p)
      BY <1>a, <1>e, <2>1, <2>3, <3>1 DEF Remember, MirrorInv, Recorded, TypeInv, DutyInHand
    <3>2. CASE Forget(p)
      BY <1>a, <2>1, <2>3, <3>2 DEF Forget, MirrorInv, Recorded
    <3> QED
      BY <1>3, <3>1, <3>2
  <2>5. \A d \in Channels \ {c} : Right(d) /\ applied'[d] = applied[d]
    BY <1>a, <2>1, <2>2, <2>3 DEF MirrorInv, Unrecorded
  <2>6. pc'[p] \notin {"remember", "forget"}
    BY <1>a, <2>2, LockedFacts DEF LockInv, LockHeld
  <2> QED
    BY <1>c, <2>2, <2>4, <2>5, <2>6 DEF MirrorInv, Recorded
<1>4. CASE Resume(p) \/ ResumeUnlink(p)
  <2>1. /\ lock = p /\ lock' \in {p, None} /\ UNCHANGED <<hw, by, applied, req>>
        /\ pc[p] \in {"resume", "resumeUnlink"}
    BY <1>4, <1>b, LockedFacts DEF Resume, ResumeUnlink
  <2>2. pc'[p] \notin {"duty", "remember", "forget"}
    BY <1>4, <1>a DEF Resume, ResumeUnlink, Done
  <2>3. \A c \in Channels : Right(c) /\ ~Unrecorded(c)'
    BY <1>a, <2>1, <2>2 DEF MirrorInv, Unrecorded
  <2> QED
    BY <1>c, <2>1, <2>2, <2>3 DEF MirrorInv, Recorded
<1> QED
  BY <1>1, <1>2, <1>3, <1>4 DEF Working

LEMMA BankKeepsMirror ==
  ASSUME TypeInv, TypeInv', LockInv, LockInv', MirrorInv, NEW d \in Deckies,
         BankMode(d) \/ BankDuty(d)
  PROVE  MirrorInv'
<1>a. /\ pc \in [Procs -> Labels] /\ None \notin Procs /\ d \in Procs
      /\ hw \in [Channels -> Duties \cup {Firmware, Held}] /\ by \in [Channels -> Kinds]
      /\ seen \in [Procs -> SUBSET Channels]
  BY NoneAssumption DEF TypeInv, TypeOK, Kinds, Procs
<1>b. Kind(d) = "decky"
  BY ProcAssumption DEF Kind
<1>1. lock = d /\ lock' \in {d, None} /\ UNCHANGED <<applied, req>>
  BY <1>a, LockedFacts DEF BankMode, BankDuty, LockInv, LockHeld, files, Unlock
<1>2. pc[d] \in {"bankMode", "bankDuty"} /\ pc'[d] \in {"bankMode", "bankDuty", "note"}
  BY <1>a DEF BankMode, BankDuty, Goto
<1>3. \A c \in Channels : (hw'[c] = hw[c] /\ by'[c] = by[c]) \/ by'[c] = "decky"
  <2>1. PICK b \in seen[d] : \E v : WriteReg(d, b, v)
    BY DEF BankMode, BankDuty
  <2>2. b \in Channels
    BY <1>a, <2>1
  <2> QED
    BY <1>a, <1>b, <2>1, <2>2 DEF WriteReg
<1>4. \A q \in Procs : pc'[q] \notin {"remember", "forget"}
  BY <1>a, <1>1, <1>2, LockedFacts DEF LockInv, LockHeld
<1>5. \A c \in Channels : ~Unrecorded(c)
  BY <1>1, <1>2 DEF Unrecorded
<1> QED
  BY <1>1, <1>3, <1>4, <1>5 DEF MirrorInv, Recorded, Helper

LEMMA DriftKeepsMirror ==
  ASSUME TypeInv, LockInv, MirrorInv, NEW c \in Channels, Drift(c)
  PROVE  MirrorInv'
<1>1. /\ hw' = [hw EXCEPT ![c] = Firmware] /\ by' = [by EXCEPT ![c] = "nobody"]
      /\ UNCHANGED <<applied, pc, req, lock>> /\ lock = None
  BY DEF Drift, files, local
<1>2. \A d \in Channels : (hw'[d] = hw[d] /\ by'[d] = by[d]) \/ by'[d] = "nobody"
  BY <1>1 DEF TypeInv, TypeOK
<1>3. \A q \in Procs : pc[q] \notin {"remember", "forget"}
  BY <1>1, LockedFacts, NoneAssumption DEF LockInv, LockHeld
<1> QED
  BY <1>1, <1>2, <1>3 DEF MirrorInv, Recorded, Helper, Unrecorded

LEMMA StepMirror ==
  ASSUME SoundWrites, LockInv, LockInv', OwnInv, MirrorInv, [Next]_vars
  PROVE  MirrorInv'
<1>a. TypeInv /\ TypeInv' /\ OnOneChannel
  BY DEF LockInv
<1>1. CASE Reboot
  <2>1. by' = [c \in Channels |-> "nobody"] /\ pc' = AfterBoot
    BY <1>1 DEF Reboot
  <2>2. \A p \in Procs : pc'[p] \notin {"remember", "forget"}
    BY <2>1 DEF AfterBoot
  <2> QED
    BY <2>1, <2>2 DEF MirrorInv, Helper
<1> QED
  BY <1>a, <1>1, SoundKinds, AsideKeepsMirror, WorkKeepsMirror, BankKeepsMirror, DriftKeepsMirror

LEMMA InitMirror == Init => MirrorInv
<1> SUFFICES ASSUME Init PROVE MirrorInv
  OBVIOUS
<1>1. \A p \in Procs : pc[p] \notin {"remember", "forget"}
  BY DEF Init, AfterBoot
<1> QED
  BY <1>1 DEF Init, MirrorInv, Helper

(* _remember_applied, _forget_applied: without deaths, failing writes and   *)
(* hand-overs STATE_FILE agrees with what the fan helper last did to a      *)
(* channel whenever the lock is free, whatever Quick Access, the firmware   *)
(* and reboots do in between.                                               *)
THEOREM ReplayMirrors ==
  ASSUME SoundWrites, NoHandOver
  PROVE  Spec => []ReplayMirrorsHelper
<1> DEFINE Inv == LockInv /\ OwnInv /\ MirrorInv
<1>1. Init => Inv
  BY InitLocked, InitOwn, InitMirror
<1>2. Inv /\ [Next]_vars => Inv'
  BY StepLocked, StepOwn, StepMirror DEF LockInv
<1>3. Inv => ReplayMirrorsHelper
  BY DEF ReplayMirrorsHelper, MirrorInv, Unrecorded, Helper, Recorded
<1> HIDE DEF Inv
<1> QED
  BY <1>1, <1>2, <1>3, PTL DEF Spec

-----------------------------------------------------------------------------
(* What the control loop leaves behind.                                     *)

(* The loop is about to write, or to release, the one channel it has in     *)
(* hand.                                                                    *)
Writing ==
  \/ pc[Svc] \in {"override", "unlink", "compare", "mode", "duty", "remember"}
  \/ pc[Svc] = "lock" /\ req[Svc].val # Firmware
Releasing ==
  \/ pc[Svc] \in {"auto", "forget"}
  \/ pc[Svc] = "lock" /\ req[Svc].val = Firmware
Driven(c) == by[c] = "service" /\ hw[c] # Firmware

(* A channel the loop drives is the one it follows, the one it is writing   *)
(* or the one it is releasing; it follows the policy's, and writes no other *)
(* before it has released that.                                             *)
DrivenInv ==
  /\ Writing => /\ req[Svc].op \in {"write", "failsafe"} /\ req[Svc].val # Firmware
                /\ svcPolicy # None /\ req[Svc].chans = {svcPolicy.pwm}
  /\ Releasing => req[Svc].op \in {"release", "exit"} /\ svcChannel = None
  /\ pc[Svc] = "release" => req[Svc].op \in {"release", "exit"}
  /\ pc[Svc] = "off" => svcChannel = None
  /\ svcChannel # None /\ pc[Svc] # "release" =>
       svcPolicy # None /\ svcPolicy.pwm = svcChannel
  /\ \A c \in Channels : Driven(c) =>
       \/ svcChannel = c
       \/ Releasing /\ pc[Svc] # "forget" /\ c \in req[Svc].chans
       \/ pc[Svc] \in {"duty", "remember"} /\ c \in req[Svc].chans

(* Steps that leave the loop where it is.                                   *)
Elsewhere ==
  /\ UNCHANGED svc /\ pc'[Svc] = pc[Svc] /\ req'[Svc] = req[Svc]
  /\ \A c \in Channels : \/ hw'[c] = hw[c] /\ by'[c] = by[c]
                         \/ by'[c] # "service"
Started ==
  /\ pc[Svc] = "off" /\ pc'[Svc] = "top" /\ svcChannel' = None /\ UNCHANGED <<hw, by>>

LEMMA HardwareElsewhere ==
  ASSUME TypeInv, NEW s \in Procs \ {Svc}, HardwareStep(s)
  PROVE  Elsewhere
<1>a. /\ pc \in [Procs -> Labels] /\ req \in [Procs -> Request] /\ Svc \in Procs
      /\ hw \in [Channels -> Duties \cup {Firmware, Held}] /\ by \in [Channels -> Kinds]
      /\ s \in Procs /\ s # Svc
  BY ProcFacts DEF TypeInv, TypeOK, Kinds
<1>b. Kind(s) # "service"
  BY <1>a DEF Kind
<1>c. ASSUME NEW l, Goto(s, l) \/ Leave(s, l) PROVE pc'[Svc] = pc[Svc]
  BY <1>a, <1>c DEF Goto, Leave
<1>d. ASSUME NEW c, NEW v, WriteReg(s, c, v)
      PROVE  \A d \in Channels : \/ hw'[d] = hw[d] /\ by'[d] = by[d]
                                 \/ by'[d] # "service"
  BY <1>a, <1>b, <1>d DEF WriteReg
<1> USE DEF files, local, ghost, svc
<1>1. CASE Acquire(s)
  BY <1>c, <1>1 DEF Acquire, Elsewhere
<1>2. CASE LockTimeout(s)
  BY <1>c, <1>2 DEF LockTimeout, Elsewhere
<1>3. CASE ModeManual(s)
  BY <1>c, <1>d, <1>3 DEF ModeManual, Elsewhere
<1>4. CASE WriteDuty(s)
  BY <1>c, <1>d, <1>4 DEF WriteDuty, Elsewhere
<1>5. CASE Remember(s)
  BY <1>a, <1>c, <1>5 DEF Remember, Elsewhere
<1>6. CASE WriteAuto(s)
  BY <1>c, <1>d, <1>6 DEF WriteAuto, Elsewhere
<1>7. CASE Forget(s)
  BY <1>c, <1>7 DEF Forget, Elsewhere
<1> QED
  BY <1>1, <1>2, <1>3, <1>4, <1>5, <1>6, <1>7 DEF HardwareStep

LEMMA SessionElsewhere ==
  ASSUME TypeInv, NEW s \in Procs \ {Svc},
         \/ HardwareStep(s) \/ SessionStart(s) \/ DaemonPlan(s) \/ DaemonSend(s)
         \/ SavePolicy(s) \/ UnlinkPolicy(s) \/ DropOverride(s) \/ Enable(s)
         \/ RequestStop(s) \/ AfterStop(s) \/ HandOver(s) \/ LoadState(s) \/ ClearState(s)
         \/ TakeBack(s) \/ Mark(s) \/ MarkWrite(s)
  PROVE  Elsewhere \/ Started
<1>a. /\ pc \in [Procs -> Labels] /\ req \in [Procs -> Request] /\ Svc \in Procs
      /\ hw \in [Channels -> Duties \cup {Firmware, Held}] /\ by \in [Channels -> Kinds]
      /\ s \in Procs /\ s # Svc
  BY ProcFacts DEF TypeInv, TypeOK, Kinds
<1>c. ASSUME NEW l, Goto(s, l) \/ Leave(s, l) PROVE pc'[Svc] = pc[Svc]
  BY <1>a, <1>c DEF Goto, Leave
<1> USE DEF files, local, ghost, svc
<1>1. CASE HardwareStep(s)
  BY <1>1, HardwareElsewhere
<1>2. CASE SessionStart(s) \/ DaemonPlan(s)
  BY <1>a, <1>2 DEF SessionStart, DaemonPlan, Goto, Elsewhere
<1>3. CASE DaemonSend(s) \/ SavePolicy(s) \/ UnlinkPolicy(s) \/ DropOverride(s)
  <2>1. UNCHANGED <<svc, req, hw, by>> /\ \E l : Goto(s, l)
    BY <1>3, Zenon DEF DaemonSend, SavePolicy, UnlinkPolicy, DropOverride
  <2> QED
    BY <1>c, <2>1 DEF Elsewhere
<1>4. CASE RequestStop(s) \/ LoadState(s) \/ ClearState(s) \/ TakeBack(s) \/ MarkWrite(s)
  <2>1. UNCHANGED <<svc, req, hw, by>> /\ \E l : Goto(s, l)
    BY <1>4, Zenon DEF RequestStop, LoadState, ClearState, TakeBack, MarkWrite, Done
  <2> QED
    BY <1>c, <2>1 DEF Elsewhere
<1>5. CASE Enable(s)
  <2>1. UNCHANGED <<req, hw, by>>
    BY <1>5 DEF Enable
  <2>2. CASE \E l : Goto(s, l) /\ UNCHANGED svc
    BY <1>c, <2>1, <2>2 DEF Elsewhere
  <2>3. CASE pc[Svc] = "off" /\ FreshLoop /\ pc' = [pc EXCEPT ![s] = "restart", ![Svc] = "top"]
    BY <1>a, <2>1, <2>3 DEF Started, FreshLoop
  <2> QED
    BY <1>5, <2>2, <2>3 DEF Enable, Done
<1>6. CASE AfterStop(s)
  <2>1. UNCHANGED <<req, hw, by>>
    BY <1>6 DEF AfterStop
  <2>2. CASE \E l : Goto(s, l) /\ UNCHANGED svc
    BY <1>c, <2>1, <2>2 DEF Elsewhere
  <2>3. CASE pc[Svc] = "off" /\ FreshLoop /\ pc' = [pc EXCEPT ![s] = "idle", ![Svc] = "top"]
    BY <1>a, <2>1, <2>3 DEF Started, FreshLoop
  <2> QED
    BY <1>6, <2>2, <2>3 DEF AfterStop, Done
<1>7. CASE HandOver(s)
  BY <1>a, <1>c, <1>7 DEF HandOver, Elsewhere
<1>8. CASE Mark(s)
  <2>1. UNCHANGED <<svc, req, hw, by>> /\ \E l : Goto(s, l)
    BY <1>8, Zenon DEF Mark, Done
  <2> QED
    BY <1>c, <2>1 DEF Elsewhere
<1> QED
  BY <1>1, <1>2, <1>3, <1>4, <1>5, <1>6, <1>7, <1>8

LEMMA OthersElsewhere ==
  ASSUME TypeInv,
         \/ \E d \in Deckies : DeckyStart(d) \/ DeckyStep(d)
         \/ BootStep \/ HeatChanges \/ UNCHANGED vars
         \/ \E c \in Channels : Drift(c)
  PROVE  Elsewhere
<1>a. /\ pc \in [Procs -> Labels] /\ req \in [Procs -> Request] /\ Svc \in Procs
      /\ hw \in [Channels -> Duties \cup {Firmware, Held}] /\ by \in [Channels -> Kinds]
      /\ \A d \in Deckies : d \in Procs /\ d # Svc /\ Kind(d) = "decky"
      /\ Boot \in Procs /\ Boot # Svc
  BY ProcAssumption DEF TypeInv, TypeOK, Kinds, Procs, Kind
<1>c. ASSUME NEW p \in Procs \ {Svc}, NEW l, Goto(p, l) \/ Leave(p, l) PROVE pc'[Svc] = pc[Svc]
  BY <1>a, <1>c DEF Goto, Leave
<1>d. ASSUME NEW p \in Deckies, NEW c, NEW v, WriteReg(p, c, v)
      PROVE  \A d \in Channels : \/ hw'[d] = hw[d] /\ by'[d] = by[d]
                                 \/ by'[d] # "service"
  BY <1>a, <1>d DEF WriteReg
<1> USE DEF files, local, ghost, svc
<1>1. ASSUME NEW d \in Deckies, DeckyStart(d) \/ DeckyStep(d) PROVE Elsewhere
  <2>1. CASE DeckyStart(d)
    BY <1>a, <2>1 DEF DeckyStart, Goto, Elsewhere
  <2>2. CASE Acquire(d) \/ LockTimeout(d)
    BY <1>a, <1>c, <2>2 DEF Acquire, LockTimeout, Elsewhere
  <2>3. CASE BankMode(d) \/ BankDuty(d)
    <3>1. UNCHANGED <<svc, req>> /\ \E c, v : WriteReg(d, c, v)
      BY <2>3 DEF BankMode, BankDuty
    <3>2. pc' = pc \/ \E l : Goto(d, l)
      BY <2>3, Zenon DEF BankMode, BankDuty
    <3> QED
      BY <1>a, <1>c, <1>d, <3>1, <3>2 DEF Elsewhere
  <2>4. CASE Note(d) \/ NoteWrite(d) \/ Resume(d) \/ ResumeUnlink(d)
    <3>1. UNCHANGED <<svc, req, hw, by>> /\ \E l : Goto(d, l)
      BY <2>4, Zenon DEF Note, NoteWrite, Resume, ResumeUnlink, Done
    <3> QED
      BY <1>a, <1>c, <3>1 DEF Elsewhere
  <2> QED
    BY <1>1, <2>1, <2>2, <2>3, <2>4 DEF DeckyStep
<1>2. CASE HardwareStep(Boot)
  BY <1>a, <1>2, HardwareElsewhere
<1>3. CASE BootCheck \/ BootReplay
  <2>1. UNCHANGED <<svc, hw, by>> /\ \E l : Goto(Boot, l)
    BY <1>3, Zenon DEF BootCheck, BootReplay
  <2>2. req'[Svc] = req[Svc]
    BY <1>a, <1>3 DEF BootCheck, BootReplay
  <2> QED
    BY <1>a, <1>c, <2>1, <2>2 DEF Elsewhere
<1>4. CASE HeatChanges \/ UNCHANGED vars
  BY <1>4 DEF HeatChanges, vars, Elsewhere
<1>5. ASSUME NEW c \in Channels, Drift(c) PROVE Elsewhere
  BY <1>a, <1>5 DEF Drift, Elsewhere
<1> QED
  BY <1>1, <1>2, <1>3, <1>4, <1>5 DEF BootStep

LEMMA ElsewhereKeepsDriven ==
  ASSUME DrivenInv, Elsewhere \/ Started
  PROVE  DrivenInv'
<1>1. CASE Elsewhere
  BY <1>1 DEF DrivenInv, Elsewhere, Writing, Releasing, Driven, svc
<1>2. CASE Started
  BY <1>2 DEF DrivenInv, Started, Writing, Releasing, Driven
<1> QED
  BY <1>1, <1>2

LEMMA HardwareKeepsDriven ==
  ASSUME ~LockTimeouts, TypeInv, OnOneChannel, DrivenInv, HardwareStep(Svc)
  PROVE  DrivenInv'
<1>a. /\ pc \in [Procs -> Labels] /\ Svc \in Procs /\ Kind(Svc) = "service"
      /\ hw \in [Channels -> Duties \cup {Firmware, Held}] /\ by \in [Channels -> Kinds]
  BY ProcFacts DEF TypeInv, TypeOK, Kinds
<1>b. Held # Firmware /\ None \notin Channels
  BY NoneAssumption
<1>c. pc[Svc] \in {"mode", "duty", "remember", "auto", "forget"} =>
        \E c \in Channels : req[Svc].chans = {c}
  BY <1>a DEF OnOneChannel
<1>d. ASSUME NEW c \in Channels, NEW v, WriteReg(Svc, c, v)
      PROVE  /\ \A d \in Channels \ {c} : hw'[d] = hw[d] /\ by'[d] = by[d]
             /\ hw'[c] = v
  BY <1>a, <1>d DEF WriteReg
<1> USE DEF files, local, ghost, svc, Goto
<1>1. CASE Acquire(Svc)
  <2>1. /\ pc[Svc] = "lock" /\ UNCHANGED <<hw, by, req, svc>>
        /\ pc' = [pc EXCEPT ![Svc] = WorkLabel(req[Svc])]
    BY <1>1 DEF Acquire
  <2>2. req[Svc].op \notin {"fan", "resume"}
    BY <2>1 DEF DrivenInv, Writing, Releasing
  <2>3. pc'[Svc] = IF req[Svc].val = Firmware THEN "auto" ELSE "mode"
    BY <1>a, <2>1, <2>2 DEF WorkLabel
  <2> QED
    BY <2>1, <2>3 DEF DrivenInv, Writing, Releasing, Driven
<1>2. CASE LockTimeout(Svc)
  BY <1>2 DEF LockTimeout
<1>3. CASE ModeManual(Svc) \/ WriteDuty(Svc) \/ WriteAuto(Svc)
  <2>1. PICK c \in Channels : req[Svc].chans = {c}
    BY <1>3, <1>c DEF ModeManual, WriteDuty, WriteAuto
  <2>2. UNCHANGED <<req, svc>>
    BY <1>3 DEF ModeManual, WriteDuty, WriteAuto
  <2>3. \A d \in Channels \ {c} : hw'[d] = hw[d] /\ by'[d] = by[d]
    BY <1>3, <1>d, <2>1 DEF ModeManual, WriteDuty, WriteAuto
  <2>4. /\ pc[Svc] \in {"mode", "duty"} => pc'[Svc] \in {"duty", "remember"}
        /\ pc[Svc] = "auto" => pc'[Svc] = "forget" /\ hw'[c] = Firmware
        /\ pc[Svc] \in {"mode", "duty", "auto"}
    BY <1>3, <1>a, <1>d, <2>1 DEF ModeManual, WriteDuty, WriteAuto
  <2> QED
    BY <2>1, <2>2, <2>3, <2>4 DEF DrivenInv, Writing, Releasing, Driven
<1>4. CASE Remember(Svc)
  <2>1. PICK c \in Channels : req[Svc].chans = {c}
    BY <1>4, <1>c DEF Remember
  <2>2. /\ pc[Svc] = "remember" /\ svcChannel' = c /\ svcPolicy' = svcPolicy
        /\ UNCHANGED <<hw, by, req>> /\ pc' = [pc EXCEPT ![Svc] = "top"]
    BY <1>4, <2>1 DEF Remember
  <2>3. svcPolicy # None /\ svcPolicy.pwm = c
    BY <2>1, <2>2 DEF DrivenInv, Writing
  <2>4. \A d \in Channels : Driven(d) => d = c
    BY <1>b, <2>1, <2>2, <2>3 DEF DrivenInv, Releasing
  <2>5. pc'[Svc] = "top"
    BY <1>a, <2>2
  <2> QED
    BY <2>2, <2>3, <2>4, <2>5 DEF DrivenInv, Writing, Releasing, Driven
<1>5. CASE Forget(Svc)
  <2>1. /\ pc[Svc] = "forget" /\ UNCHANGED <<hw, by, req, svc>>
        /\ Leave(Svc, AfterError(Svc))
    BY <1>5 DEF Forget
  <2>2. pc'[Svc] = AfterError(Svc)
    BY <1>a, <2>1 DEF Leave, SvcGone
  <2>3. req[Svc].op \in {"release", "exit"} /\ svcChannel = None
    BY <2>1 DEF DrivenInv, Releasing
  <2> QED
    BY <1>b, <2>1, <2>2, <2>3 DEF DrivenInv, Writing, Releasing, Driven, AfterError
<1>6. CASE WriteAuto(Svc)
  BY <1>3, <1>6
<1> QED
  BY <1>1, <1>2, <1>3, <1>4, <1>5 DEF HardwareStep

LEMMA ServiceKeepsDriven ==
  ASSUME TypeInv, OwnInv, DrivenInv,
         \/ SvcTop \/ SvcStop \/ SvcReload \/ SvcRelease \/ SvcPlan \/ SvcOverride
         \/ SvcUnlink \/ SvcWrite \/ SvcWait \/ SvcVerify
  PROVE  DrivenInv'
<1>a. /\ pc \in [Procs -> Labels] /\ Svc \in Procs /\ req \in [Procs -> Request]
      /\ svcChannel \in Channels \cup {None} /\ svcPolicy \in Policy \cup {None}
      /\ ~external /\ None \notin Channels /\ Firmware \notin Duties /\ Failsafe \in Duties
      /\ policy \in Policy \cup {None}
  BY ProcFacts, NoneAssumption, DutyAssumption DEF TypeInv, TypeOK, OwnInv
<1>b. \A l : Goto(Svc, l) => pc'[Svc] = l
  BY <1>a DEF Goto
<1>c. \A r : req' = [req EXCEPT ![Svc] = r] => req'[Svc] = r
  BY <1>a
<1>d. UNCHANGED <<hw, by>>
  BY DEF SvcTop, SvcStop, SvcReload, SvcRelease, SvcPlan, SvcOverride, SvcUnlink, SvcWrite,
         SvcWait, SvcVerify, ghost
<1>e. \A op, c, v : SvcReq(op, c, v).op = op /\ SvcReq(op, c, v).chans = {c}
                    /\ SvcReq(op, c, v).val = v
  BY DEF SvcReq
<1>f. \A op : [NoRequest EXCEPT !.op = op].op = op
  BY DEF NoRequest
<1> USE DEF files, local, ghost, svc
<1>1. CASE SvcTop
  BY <1>a, <1>b, <1>d, <1>1 DEF SvcTop, DrivenInv, Writing, Releasing, Driven
<1>2. CASE SvcStop
  <2>1. pc[Svc] = "top" /\ pc'[Svc] = "release" /\ req'[Svc].op = "exit" /\ UNCHANGED svc
    BY <1>b, <1>c, <1>f, <1>2 DEF SvcStop
  <2> QED
    BY <1>d, <2>1 DEF DrivenInv, Writing, Releasing, Driven
<1>3. CASE SvcReload
  <2>1. pc[Svc] = "reload" /\ svcPolicy' = policy /\ svcChannel' = svcChannel
    BY <1>3 DEF SvcReload
  <2>2. CASE /\ policy # svcPolicy /\ svcChannel # None
             /\ policy # None => policy.pwm # svcChannel
    <3>1. pc'[Svc] = "release" /\ req'[Svc].op = "release"
      BY <1>b, <1>c, <1>f, <1>3, <2>2 DEF SvcReload
    <3> QED
      BY <1>d, <2>1, <3>1 DEF DrivenInv, Writing, Releasing, Driven
  <2>3. CASE ~(/\ policy # svcPolicy /\ svcChannel # None
               /\ policy # None => policy.pwm # svcChannel)
    <3>1. pc'[Svc] = "plan" /\ req' = req
      BY <1>b, <1>3, <2>3 DEF SvcReload
    <3> QED
      BY <1>d, <2>1, <2>3, <3>1 DEF DrivenInv, Writing, Releasing, Driven
  <2> QED
    BY <2>2, <2>3
<1>4. CASE SvcRelease
  <2>1. /\ pc[Svc] = "release" /\ svcChannel' = None /\ UNCHANGED svcPolicy
        /\ req[Svc].op \in {"release", "exit"}
    BY <1>4 DEF SvcRelease, DrivenInv
  <2>2. \A c \in Channels : Driven(c) => svcChannel = c
    BY <2>1 DEF DrivenInv, Releasing
  <2>3. CASE svcChannel = None
    <3>1. Leave(Svc, AfterError(Svc)) /\ req' = req
      BY <1>4, <2>3 DEF SvcRelease
    <3>2. pc'[Svc] = AfterError(Svc)
      BY <1>a, <3>1 DEF Leave, SvcGone
    <3>3. pc'[Svc] \in {"plan", "off"}
      BY <2>1, <3>2 DEF AfterError
    <3>4. \A c \in Channels : ~Driven(c)
      BY <1>a, <2>2, <2>3
    <3> QED
      BY <1>d, <2>1, <3>1, <3>3, <3>4 DEF DrivenInv, Writing, Releasing, Driven
  <2>4. CASE svcChannel # None
    <3>1. /\ pc'[Svc] = "lock"
          /\ req'[Svc] = SvcReq(req[Svc].op, svcChannel, Firmware)
      BY <1>a, <1>b, <1>c, <1>4, <2>4 DEF SvcRelease
    <3> QED
      BY <1>d, <1>e, <2>1, <2>2, <3>1 DEF DrivenInv, Writing, Releasing, Driven
  <2> QED
    BY <2>3, <2>4
<1>5. CASE SvcPlan
  <2>1. pc[Svc] = "plan" /\ UNCHANGED svc
    BY <1>5 DEF SvcPlan
  <2>2. CASE svcPolicy = None
    BY <1>b, <1>d, <1>5, <2>1, <2>2 DEF SvcPlan, DrivenInv, Writing, Releasing, Driven
  <2>3. CASE svcPolicy # None
    <3>1. /\ pc'[Svc] = "override"
          /\ req'[Svc] = SvcReq(IF hot THEN "failsafe" ELSE "write",
                                svcPolicy.pwm, IF hot THEN Failsafe ELSE svcPolicy.duty)
      BY <1>b, <1>c, <1>5, <2>3 DEF SvcPlan
    <3>2. /\ req'[Svc].op \in {"write", "failsafe"} /\ req'[Svc].chans = {svcPolicy.pwm}
          /\ req'[Svc].val \in Duties
      BY <1>a, <1>e, <2>3, <3>1 DEF Policy
    <3>3. req'[Svc].val # Firmware
      BY <1>a, <3>2
    <3>4. \A c \in Channels : Driven(c) => svcChannel = c
      BY <2>1 DEF DrivenInv, Releasing
    <3> HIDE DEF svc
    <3>5. svcChannel' = svcChannel /\ svcPolicy' = svcPolicy
      BY <2>1 DEF svc
    <3> QED
      BY <1>d, <2>1, <2>3, <3>1, <3>2, <3>3, <3>4, <3>5
         DEF DrivenInv, Writing, Releasing, Driven
  <2> QED
    BY <2>2, <2>3
<1>6. CASE SvcOverride \/ SvcUnlink \/ SvcWrite \/ SvcWait \/ SvcVerify
  <2>1. UNCHANGED <<svc, req>> /\ pc[Svc] \in {"override", "unlink", "compare"}
    BY <1>6 DEF SvcOverride, SvcUnlink, SvcWrite, SvcWait, SvcVerify
  <2>2. pc'[Svc] \in {"top", "unlink", "compare", "lock"}
    <3>1. \E l \in {"top", "unlink", "compare", "lock"} : Goto(Svc, l)
      BY <1>6 DEF SvcOverride, SvcUnlink, SvcWrite, SvcWait, SvcVerify
    <3> QED
      BY <1>b, <3>1
  <2> QED
    BY <1>d, <2>1, <2>2 DEF DrivenInv, Writing, Releasing, Driven
<1> QED
  BY <1>1, <1>2, <1>3, <1>4, <1>5, <1>6

LEMMA StepDriven ==
  ASSUME SoundWrites, ~LockTimeouts, LockInv, OwnInv, DrivenInv, [Next]_vars
  PROVE  DrivenInv'
<1>a. TypeInv /\ OnOneChannel /\ Sessions \subseteq Procs \ {Svc}
  BY ProcFacts DEF LockInv
<1>f. \A p : ~Kill(p) /\ ~WriteErrors(p) /\ ~ReadBackFails(p) /\ ~AutoRefused(p) /\ ~BankFails(p)
  BY DEF Kill, WriteErrors, ReadBackFails, AutoRefused, BankFails, Strike, SoundWrites
<1>1. CASE \E s \in Sessions : SessionStart(s) \/ DaemonPlan(s) \/ SessionStep(s)
  <2> PICK s \in Sessions : SessionStart(s) \/ DaemonPlan(s) \/ SessionStep(s)
    BY <1>1
  <2>1. Elsewhere \/ Started
    BY <1>a, SessionElsewhere DEF SessionStep
  <2> QED
    BY <2>1, ElsewhereKeepsDriven
<1>2. CASE SvcStep
  BY <1>a, <1>2, HardwareKeepsDriven, ServiceKeepsDriven DEF SvcStep
<1>3. CASE Reboot
  <2>1. /\ pc' = AfterBoot /\ by' = [c \in Channels |-> "nobody"]
        /\ svcChannel' = None /\ svcPolicy' = None
    BY <1>3 DEF Reboot, FreshLoop
  <2>2. pc'[Svc] \in {"top", "off"}
    BY <2>1, ProcFacts DEF AfterBoot
  <2> QED
    BY <2>1, <2>2 DEF DrivenInv, Writing, Releasing, Driven
<1>4. CASE \/ \E d \in Deckies : DeckyStart(d) \/ DeckyStep(d)
           \/ BootStep \/ HeatChanges \/ UNCHANGED vars
           \/ \E c \in Channels : Drift(c)
  BY <1>4, <1>a, OthersElsewhere, ElsewhereKeepsDriven
<1> QED
  BY <1>f, <1>1, <1>2, <1>3, <1>4, Zenon DEF Next, Fault

LEMMA InitDriven == Init => DrivenInv
<1> SUFFICES ASSUME Init PROVE DrivenInv
  OBVIOUS
<1>1. pc[Svc] \in {"top", "off"} /\ svcChannel = None
  BY ProcFacts DEF Init, AfterBoot
<1>2. \A c \in Channels : by[c] = "nobody"
  BY DEF Init
<1> QED
  BY <1>1, <1>2 DEF DrivenInv, Writing, Releasing, Driven

(* FanController.release: without deaths, failing writes, hand-overs and a  *)
(* lock that stays busy for 3 s, a control loop that has ended or follows   *)
(* no channel has left none in manual mode, through any changes of policy,  *)
(* restarts, takeovers and reboots.                                         *)
THEOREM NothingDrivenHolds ==
  ASSUME SoundWrites, NoHandOver, ~LockTimeouts
  PROVE  Spec => []NothingLeftDriven
<1> DEFINE Inv == LockInv /\ OwnInv /\ DrivenInv
<1>1. Init => Inv
  BY InitLocked, InitOwn, InitDriven
<1>2. Inv /\ [Next]_vars => Inv'
  BY StepLocked, StepOwn, StepDriven DEF LockInv
<1>3. Inv => NothingLeftDriven
  BY NoneAssumption DEF NothingLeftDriven, DrivenInv, Driven, Releasing
<1> HIDE DEF Inv
<1> QED
  BY <1>1, <1>2, <1>3, PTL DEF Spec

-----------------------------------------------------------------------------
(* What an acknowledged hand-over means.                                    *)

Commanders == Sessions \ Daemons
(* Two of them would do: one saves a policy, past its look at the marker,   *)
(* while the other hands over.                                              *)
OneCommander == \A s, t \in Commanders : s = t
(* A command that is cut short is not acknowledged, and not undone either.  *)
Unbroken == FaultKinds \cap {"kill", "reboot"} = {}

DaemonLabels == {"idle", "planned", "lock", "mark", "markWrite"} \cup LockedLabels
HandOverSteps == {"savePolicy", "enable", "restart", "disable", "awaitStop", "stopped",
                  "unlinkPolicy", "unlinkPolicyX", "handOver"}

(* How far c is with taking the fan from the service, once the marker is    *)
(* there.                                                                   *)
HandingOver(c) ==
  /\ pc[c] \notin {"savePolicy", "enable", "restart"}
  /\ pc[c] \in {"awaitStop", "stopped"} => req[c].op # "ENABLE"
  /\ pc[c] = "disable" \/ ~enabled
  /\ pc[c] \in {"disable", "awaitStop", "stopped", "unlinkPolicy", "unlinkPolicyX"}
     \/ policy = None

HandInv ==
  /\ \A d \in Daemons : pc[d] \in DaemonLabels
  /\ enabled \/ pc[Svc] = "off" \/ \E c \in Commanders : pc[c] = "awaitStop"
  /\ \A c \in Commanders :
       /\ pc[c] \in {"enable", "restart"} => req[c].op = "ENABLE"
       /\ pc[c] \in {"disable", "handOver"} => req[c].op # "ENABLE"
       /\ pc[c] \in {"restart", "awaitStop", "stopped"} /\ req[c].op = "ENABLE" => enabled
  /\ external => \E c \in Commanders : HandingOver(c)

(* The files stay, and a commander moves, if it does, where nothing depends *)
(* on it, or to "stopped" because the loop has ended.                       *)
LEMMA OutsideHand ==
  ASSUME HandInv, UNCHANGED <<policy, enabled, external>>,
         pc[Svc] = "off" => pc'[Svc] = "off",
         \A d \in Daemons : pc'[d] \in DaemonLabels,
         \A c \in Commanders :
           /\ req'[c] = req[c]
           /\ \/ pc'[c] = pc[c]
              \/ pc[c] = "awaitStop" /\ pc'[c] = "stopped" /\ pc'[Svc] = "off"
              \/ pc[c] \notin HandOverSteps /\ pc'[c] \notin HandOverSteps
  PROVE  HandInv'
<1>1. ASSUME NEW c \in Commanders, HandingOver(c) PROVE HandingOver(c)'
  BY <1>1 DEF HandingOver, HandOverSteps
<1>2. enabled' \/ pc'[Svc] = "off" \/ \E c \in Commanders : pc'[c] = "awaitStop"
  BY DEF HandInv, HandOverSteps
<1>3. \A c \in Commanders :
       /\ pc'[c] \in {"enable", "restart"} => req'[c].op = "ENABLE"
       /\ pc'[c] \in {"disable", "handOver"} => req'[c].op # "ENABLE"
       /\ pc'[c] \in {"restart", "awaitStop", "stopped"} /\ req'[c].op = "ENABLE" => enabled'
  BY DEF HandInv, HandOverSteps
<1> QED
  BY <1>1, <1>2, <1>3 DEF HandInv

LEMMA CommanderFacts ==
  /\ Commanders \subseteq Procs /\ Daemons \subseteq Procs /\ Sessions = Commanders \cup Daemons
  /\ Svc \notin Sessions /\ Boot \notin Sessions /\ Sessions \cap Deckies = {}
  /\ Commanders \cap Daemons = {}
BY ProcAssumption DEF Procs, Commanders

(* A process moves and touches none of the files.                           *)
LEMMA MoverHand ==
  ASSUME TypeInv, HandInv, UNCHANGED <<policy, enabled, external>>,
         NEW p \in Procs, NEW l, Goto(p, l) \/ Leave(p, l),
         \A q \in Sessions : req'[q] = req[q],
         p \in Commanders => pc[p] \notin HandOverSteps /\ l \notin HandOverSteps,
         p \in Daemons => l \in DaemonLabels,
         p = Svc => pc[p] # "off"
  PROVE  HandInv'
<1>a. pc \in [Procs -> Labels] /\ Svc \in Procs
  BY ProcFacts DEF TypeInv, TypeOK
<1>b. "awaitStop" \notin DaemonLabels
  BY DEF DaemonLabels, LockedLabels
<1>1. pc'[p] = l
  BY <1>a DEF Goto, Leave, SvcGone
<1>2. \A q \in Procs \ {p} :
        \/ pc'[q] = pc[q]
        \/ pc[q] = "awaitStop" /\ pc'[q] = "stopped" /\ p = Svc /\ l = "off"
  BY <1>a DEF Goto, Leave, SvcGone
<1>3. \A d \in Daemons : pc'[d] \in DaemonLabels
  BY <1>b, <1>1, <1>2, CommanderFacts DEF HandInv
<1>4. pc[Svc] = "off" => pc'[Svc] = "off"
  BY <1>a, <1>1, <1>2
<1>5. \A c \in Commanders :
           /\ req'[c] = req[c]
           /\ \/ pc'[c] = pc[c]
              \/ pc[c] = "awaitStop" /\ pc'[c] = "stopped" /\ pc'[Svc] = "off"
              \/ pc[c] \notin HandOverSteps /\ pc'[c] \notin HandOverSteps
  BY <1>1, <1>2, CommanderFacts
<1> QED
  BY <1>3, <1>4, <1>5, OutsideHand

LEMMA HardwareHand ==
  ASSUME TypeInv, HandInv, NEW p \in Procs,
         HardwareStep(p) \/ WriteErrors(p) \/ ReadBackFails(p) \/ AutoRefused(p)
  PROVE  HandInv'
<1>a. /\ AfterError(p) \notin HandOverSteps /\ WorkLabel(req[p]) \notin HandOverSteps
      /\ \A l \in {"duty", "remember", "forget", "top", "replay", "mark", "off", "idle"} :
           l \notin HandOverSteps
  BY DEF AfterError, WorkLabel, HandOverSteps
<1>b. p \in Daemons => AfterError(p) = "idle"
  BY CommanderFacts, ProcAssumption DEF AfterError
<1>c. /\ WorkLabel(req[p]) \in DaemonLabels
      /\ {"duty", "remember", "forget", "mark", "idle"} \subseteq DaemonLabels
  BY DEF WorkLabel, DaemonLabels, LockedLabels
<1>d. p \in Daemons => p # Svc /\ p # Boot
  BY ProcAssumption, CommanderFacts
<1>e. pc[p] \in {"lock", "mode", "duty", "remember", "auto", "forget"}
      => pc[p] \notin HandOverSteps /\ pc[p] # "off"
  BY DEF HandOverSteps
<1> USE DEF files, local
<1>1. CASE Acquire(p)
  BY <1>a, <1>c, <1>e, <1>1, MoverHand DEF Acquire
<1>2. CASE LockTimeout(p)
  BY <1>a, <1>b, <1>c, <1>d, <1>e, <1>2, MoverHand DEF LockTimeout
<1>3. CASE ModeManual(p)
  BY <1>a, <1>c, <1>e, <1>3, MoverHand DEF ModeManual
<1>4. CASE WriteDuty(p)
  BY <1>a, <1>c, <1>e, <1>4, MoverHand DEF WriteDuty
<1>5. CASE Remember(p)
  BY <1>a, <1>c, <1>d, <1>e, <1>5, MoverHand DEF Remember
<1>6. CASE WriteAuto(p)
  BY <1>a, <1>c, <1>e, <1>6, MoverHand DEF WriteAuto
<1>7. CASE Forget(p)
  BY <1>a, <1>b, <1>c, <1>d, <1>e, <1>7, MoverHand DEF Forget
<1>8. CASE WriteErrors(p)
  BY <1>a, <1>b, <1>c, <1>e, <1>8, MoverHand DEF WriteErrors
<1>9. CASE ReadBackFails(p)
  BY <1>a, <1>b, <1>c, <1>e, <1>9, MoverHand DEF ReadBackFails
<1>10. CASE AutoRefused(p)
  BY <1>a, <1>b, <1>c, <1>e, <1>10, MoverHand DEF AutoRefused
<1> QED
  BY <1>1, <1>2, <1>3, <1>4, <1>5, <1>6, <1>7, <1>8, <1>9, <1>10 DEF HardwareStep

(* The per-user daemon only plans, sends and writes.                        *)
LEMMA DaemonHand ==
  ASSUME TypeInv, HandInv, NEW s \in Daemons,
         SessionStart(s) \/ DaemonPlan(s) \/ SessionStep(s)
  PROVE  HandInv'
<1>a. s \in Procs /\ s \notin Commanders /\ s # Svc /\ pc \in [Procs -> Labels]
      /\ req \in [Procs -> Request] /\ Sessions \subseteq Procs
  BY CommanderFacts, ProcFacts DEF TypeInv, TypeOK
<1>b. pc[s] \in {"idle", "planned", "lock", "mark", "markWrite"} \cup LockedLabels
  BY DEF HandInv, DaemonLabels
<1>c. {"idle", "planned", "lock", "markWrite"} \subseteq DaemonLabels
  BY DEF DaemonLabels
<1> USE DEF files, local, Done
<1>1. CASE DaemonPlan(s)
  <2>1. /\ UNCHANGED <<policy, enabled, external>> /\ \A q \in Procs \ {s} : req'[q] = req[q]
        /\ pc' = [pc EXCEPT ![s] = "planned"]
    BY <1>a, <1>1 DEF DaemonPlan, Goto
  <2>2. pc'[s] = "planned" /\ \A q \in Procs \ {s} : pc'[q] = pc[q]
    BY <1>a, <2>1
  <2>3. \A d \in Daemons : pc'[d] \in DaemonLabels
    BY <1>c, <2>2, CommanderFacts DEF HandInv
  <2>4. pc'[Svc] = pc[Svc] /\ \A c \in Commanders : pc'[c] = pc[c] /\ req'[c] = req[c]
    BY <1>a, <2>1, <2>2, CommanderFacts, ProcFacts
  <2> QED
    BY <2>1, <2>3, <2>4, OutsideHand
<1>2. CASE HardwareStep(s)
  BY <1>a, <1>2, HardwareHand
<1>3. CASE DaemonSend(s)
  BY <1>a, <1>c, <1>3, MoverHand DEF DaemonSend
<1>4. CASE Mark(s)
  BY <1>a, <1>c, <1>4, MoverHand DEF Mark
<1>5. CASE MarkWrite(s)
  BY <1>a, <1>c, <1>5, MoverHand DEF MarkWrite
<1>6. ~SessionStart(s) /\ ~SavePolicy(s) /\ ~UnlinkPolicy(s) /\ ~DropOverride(s)
      /\ ~Enable(s) /\ ~RequestStop(s) /\ ~AfterStop(s)
      /\ ~HandOver(s) /\ ~LoadState(s) /\ ~ClearState(s) /\ ~TakeBack(s)
  BY <1>b, LockedFacts DEF SessionStart, SavePolicy, UnlinkPolicy, DropOverride, Enable,
     RequestStop, AfterStop, HandOver, LoadState, ClearState, TakeBack
<1> QED
  BY <1>1, <1>2, <1>3, <1>4, <1>5, <1>6 DEF SessionStep

LEMMA CommanderHand ==
  ASSUME OneCommander, TypeInv, HandInv, NEW s \in Commanders,
         SessionStart(s) \/ DaemonPlan(s) \/ SessionStep(s)
  PROVE  HandInv'
<1>a. /\ s \in Procs /\ s \notin Daemons /\ s # Svc /\ Svc \in Procs /\ Daemons \subseteq Procs
      /\ pc \in [Procs -> Labels] /\ req \in [Procs -> Request]
      /\ enabled \in BOOLEAN /\ external \in BOOLEAN
  BY CommanderFacts, ProcFacts DEF TypeInv, TypeOK
<1>b. Commanders = {s}
  BY DEF OneCommander
<1>c. \A l \in {"idle", "lock", "dropOverride", "dropOverrideX", "loadState", "clearState",
                "takeBack", "planned", "mark", "markWrite"} : l \notin HandOverSteps
  BY DEF HandOverSteps
<1>d. external => HandingOver(s)
  BY <1>b DEF HandInv
<1>e. ASSUME NEW l, pc' = [pc EXCEPT ![s] = l]
      PROVE  /\ pc'[s] = l /\ pc'[Svc] = pc[Svc]
             /\ \A d \in Daemons : pc'[d] \in DaemonLabels
  BY <1>a, <1>e DEF HandInv
<1> USE DEF files, local, Done
<1>1. CASE SessionStart(s)
  <2>1. PICK r \in SessionRequests :
          /\ pc[s] = "idle" /\ req' = [req EXCEPT ![s] = r] /\ pc' = [pc EXCEPT ![s] = FirstLabel(r)]
          /\ external => r.op \in {"EXTERNAL ON", "EXTERNAL OFF", "POLICY-CLEAR", "DISABLE"}
          /\ UNCHANGED <<policy, enabled, external>>
    BY <1>1 DEF SessionStart, Goto
  <2>2. /\ req'[s] = r /\ pc'[s] = FirstLabel(r) /\ pc'[Svc] = pc[Svc]
        /\ \A d \in Daemons : pc'[d] \in DaemonLabels
    BY <1>a, <1>e, <2>1
  <2>3. /\ FirstLabel(r) \in {"lock", "savePolicy", "unlinkPolicy", "enable", "disable",
                              "handOver", "takeBack"}
        /\ FirstLabel(r) = "enable" => r.op = "ENABLE"
        /\ FirstLabel(r) = "disable" => r.op = "DISABLE"
        /\ FirstLabel(r) = "handOver" => r.op = "EXTERNAL ON"
        /\ FirstLabel(r) = "savePolicy" => r.op = "POLICY"
    BY DEF FirstLabel
  <2>4. enabled \/ pc[Svc] = "off"
    BY <1>b, <2>1 DEF HandInv
  <2>5. external => HandingOver(s)'
    BY <1>d, <2>1, <2>2, <2>3 DEF HandingOver
  <2> QED
    BY <1>b, <2>1, <2>2, <2>3, <2>4, <2>5 DEF HandInv
<1>2. CASE HardwareStep(s)
  BY <1>a, <1>2, HardwareHand
<1>3. CASE DaemonPlan(s)
  BY <1>3, <1>a DEF DaemonPlan
<1>4. CASE DaemonSend(s) \/ LoadState(s) \/ ClearState(s) \/ Mark(s) \/ MarkWrite(s)
  <2>1. /\ UNCHANGED <<policy, enabled, external, req>>
        /\ pc[s] \in {"planned", "loadState", "clearState", "mark", "markWrite"}
    BY <1>4 DEF DaemonSend, LoadState, ClearState, Mark, MarkWrite
  <2>2. \E l \in {"idle", "lock", "clearState", "markWrite"} : Goto(s, l)
    BY <1>4 DEF DaemonSend, LoadState, ClearState, Mark, MarkWrite
  <2> QED
    BY <1>a, <1>c, <2>1, <2>2, MoverHand
<1>5. CASE SavePolicy(s)
  <2>1. /\ pc[s] = "savePolicy" /\ UNCHANGED <<enabled, external, req>>
        /\ pc' = [pc EXCEPT ![s] = "dropOverride"]
    BY <1>5 DEF SavePolicy, Goto
  <2>2. ~external
    BY <1>d, <2>1 DEF HandingOver
  <2> QED
    BY <1>a, <1>b, <1>e, <2>1, <2>2 DEF HandInv
<1>6. CASE UnlinkPolicy(s)
  <2>1. /\ pc[s] \in {"unlinkPolicy", "unlinkPolicyX"} /\ UNCHANGED <<enabled, external, req>>
        /\ policy' = None
        /\ \E l \in {"dropOverride", "dropOverrideX"} : pc' = [pc EXCEPT ![s] = l]
    BY <1>6 DEF UnlinkPolicy, Goto
  <2>2. pc'[s] \in {"dropOverride", "dropOverrideX"} /\ pc'[Svc] = pc[Svc]
        /\ \A d \in Daemons : pc'[d] \in DaemonLabels
    BY <1>e, <2>1
  <2>3. external => HandingOver(s)'
    BY <1>d, <2>1, <2>2 DEF HandingOver
  <2> QED
    BY <1>a, <1>b, <2>1, <2>2, <2>3 DEF HandInv
<1>7. CASE DropOverride(s)
  <2>1. /\ pc[s] \in {"dropOverride", "dropOverrideX"} /\ UNCHANGED <<policy, enabled, external, req>>
        /\ \E l \in {"loadState", "unlinkPolicyX", "idle"} : pc' = [pc EXCEPT ![s] = l]
    BY <1>7 DEF DropOverride, Goto
  <2>2. pc'[s] \in {"loadState", "unlinkPolicyX", "idle"} /\ pc'[Svc] = pc[Svc]
        /\ \A d \in Daemons : pc'[d] \in DaemonLabels
    BY <1>e, <2>1
  <2>3. external => HandingOver(s)'
    BY <1>d, <2>1, <2>2 DEF HandingOver
  <2> QED
    BY <1>a, <1>b, <2>1, <2>2, <2>3 DEF HandInv
<1>8. CASE Enable(s)
  <2>1. pc[s] = "enable" /\ UNCHANGED <<policy, external, req>> /\ req[s].op = "ENABLE"
    BY <1>b, <1>8 DEF Enable, HandInv
  <2>2. ~external
    BY <1>d, <2>1 DEF HandingOver
  <2>3. CASE policy = None
    <3>1. enabled' = enabled /\ pc' = [pc EXCEPT ![s] = "idle"]
      BY <1>8, <2>3 DEF Enable, Goto
    <3> QED
      BY <1>a, <1>b, <1>e, <2>1, <2>2, <3>1 DEF HandInv
  <2>4. CASE policy # None
    <3>1. enabled' = TRUE
      BY <1>8, <2>4 DEF Enable
    <3>2. \/ pc' = [pc EXCEPT ![s] = "restart", ![Svc] = "top"]
          \/ pc' = [pc EXCEPT ![s] = "restart"]
      BY <1>8, <2>4 DEF Enable, Goto
    <3>3. pc'[s] = "restart" /\ \A d \in Daemons : pc'[d] = pc[d]
      BY <1>a, <3>2, CommanderFacts
    <3> QED
      BY <1>b, <2>1, <2>2, <3>1, <3>3 DEF HandInv
  <2> QED
    BY <2>3, <2>4
<1>9. CASE RequestStop(s)
  <2>1. /\ pc[s] \in {"restart", "disable"} /\ UNCHANGED <<policy, external, req>>
        /\ enabled' = (enabled /\ pc[s] = "restart")
        /\ pc' = [pc EXCEPT ![s] = IF pc[Svc] # "off" THEN "awaitStop" ELSE "stopped"]
    BY <1>9 DEF RequestStop, Goto
  <2>2. /\ pc'[s] = IF pc[Svc] # "off" THEN "awaitStop" ELSE "stopped"
        /\ pc'[Svc] = pc[Svc]
        /\ \A d \in Daemons : pc'[d] \in DaemonLabels
    BY <1>e, <2>1
  <2>3. CASE pc[s] = "restart"
    <3>1. ~external /\ enabled /\ enabled'
      BY <1>b, <1>d, <2>1, <2>3 DEF HandingOver, HandInv
    <3> QED
      BY <1>b, <2>1, <2>2, <3>1 DEF HandInv
  <2>4. CASE pc[s] = "disable"
    <3>1. enabled' = FALSE /\ req[s].op # "ENABLE"
      BY <1>b, <2>1, <2>4 DEF HandInv
    <3> QED
      BY <1>b, <1>d, <2>1, <2>2, <2>4, <3>1 DEF HandInv, HandingOver
  <2> QED
    BY <2>1, <2>3, <2>4
<1>10. CASE AfterStop(s)
  <2>1. pc[s] = "stopped" /\ UNCHANGED <<policy, enabled, external, req>>
    BY <1>10 DEF AfterStop
  <2>2. CASE req[s].op = "ENABLE"
    <3>1. ~external /\ enabled
      BY <1>b, <1>d, <2>1, <2>2 DEF HandingOver, HandInv
    <3>2. \/ pc' = [pc EXCEPT ![s] = "idle", ![Svc] = "top"]
          \/ pc' = [pc EXCEPT ![s] = "idle"]
      BY <1>10, <2>2 DEF AfterStop, Goto
    <3>3. pc'[s] = "idle" /\ \A d \in Daemons : pc'[d] = pc[d]
      BY <1>a, <3>2, CommanderFacts
    <3> QED
      BY <1>b, <2>1, <3>1, <3>3 DEF HandInv
  <2>3. CASE req[s].op # "ENABLE"
    <3>1. pc' = [pc EXCEPT ![s] = "unlinkPolicy"]
      BY <1>10, <2>3 DEF AfterStop, Goto
    <3>2. enabled \/ pc[Svc] = "off"
      BY <1>b, <2>1 DEF HandInv
    <3>3. /\ pc'[s] = "unlinkPolicy" /\ pc'[Svc] = pc[Svc]
          /\ \A d \in Daemons : pc'[d] \in DaemonLabels
      BY <1>e, <3>1
    <3>4. external' => HandingOver(s)'
      BY <1>d, <2>1, <3>3 DEF HandingOver
    <3> QED
      BY <1>b, <2>1, <3>2, <3>3, <3>4 DEF HandInv
  <2> QED
    BY <2>2, <2>3
<1>11. CASE HandOver(s)
  <2>1. /\ pc[s] = "handOver" /\ UNCHANGED <<policy, enabled, req>> /\ external' = TRUE
        /\ pc' = [pc EXCEPT ![s] = IF enabled THEN "disable" ELSE "unlinkPolicyX"]
    BY <1>11 DEF HandOver, Goto
  <2>2. req[s].op # "ENABLE" /\ (enabled \/ pc[Svc] = "off")
    BY <1>b, <2>1 DEF HandInv
  <2>3. /\ pc'[s] = IF enabled THEN "disable" ELSE "unlinkPolicyX"
        /\ pc'[Svc] = pc[Svc] /\ \A d \in Daemons : pc'[d] \in DaemonLabels
    BY <1>e, <2>1
  <2>4. HandingOver(s)'
    BY <2>1, <2>2, <2>3 DEF HandingOver
  <2> QED
    BY <1>b, <2>1, <2>2, <2>3, <2>4 DEF HandInv
<1>12. CASE TakeBack(s)
  <2>1. /\ pc[s] = "takeBack" /\ UNCHANGED <<policy, enabled, req>> /\ external' = FALSE
        /\ pc' = [pc EXCEPT ![s] = "idle"]
    BY <1>12 DEF TakeBack, Goto
  <2>2. pc'[s] = "idle" /\ \A d \in Daemons : pc'[d] \in DaemonLabels
    BY <1>e, <2>1
  <2>3. enabled' \/ pc'[Svc] = "off"
    BY <1>b, <1>e, <2>1 DEF HandInv
  <2> QED
    BY <1>b, <2>1, <2>2, <2>3 DEF HandInv
<1> QED
  BY <1>1, <1>2, <1>3, <1>4, <1>5, <1>6, <1>7, <1>8, <1>9, <1>10, <1>11, <1>12 DEF SessionStep

LEMMA ServiceHand ==
  ASSUME TypeInv, HandInv, SvcStep
  PROVE  HandInv'
<1>a. Svc \in Procs /\ Svc \notin Sessions /\ Sessions \subseteq Procs /\ req \in [Procs -> Request]
  BY CommanderFacts, ProcFacts, Zenon DEF TypeInv, TypeOK, Procs
<1>b. Svc \notin Commanders /\ Svc \notin Daemons
  BY CommanderFacts
<1>c. ASSUME NEW r, req' = [req EXCEPT ![Svc] = r] \/ req' = req
      PROVE  \A q \in Sessions : req'[q] = req[q]
  BY <1>a, <1>c
<1> USE DEF files, local
<1>1. CASE HardwareStep(Svc)
  BY <1>a, <1>1, HardwareHand
<1>2. CASE SvcTop /\ pc' = pc
  <2>1. UNCHANGED <<policy, enabled, external, req, pc>>
    BY <1>2 DEF SvcTop
  <2> QED
    BY <2>1, OutsideHand DEF HandInv
<1>3. CASE SvcTop /\ pc' # pc
  BY <1>a, <1>b, <1>3, MoverHand DEF SvcTop
<1>4. CASE SvcStop \/ SvcReload \/ SvcRelease \/ SvcPlan
  <2>1. UNCHANGED <<policy, enabled, external>> /\ pc[Svc] # "off"
    BY <1>4 DEF SvcStop, SvcReload, SvcRelease, SvcPlan
  <2>2. \E r : req' = [req EXCEPT ![Svc] = r] \/ req' = req
    BY <1>4, Zenon DEF SvcStop, SvcReload, SvcRelease, SvcPlan
  <2>3. \E l : Goto(Svc, l) \/ Leave(Svc, l)
    BY <1>4, Zenon DEF SvcStop, SvcReload, SvcRelease, SvcPlan
  <2> QED
    BY <1>a, <1>b, <1>c, <2>1, <2>2, <2>3, MoverHand
<1>5. CASE SvcOverride \/ SvcUnlink \/ SvcWrite \/ SvcWait \/ SvcVerify
  <2>1. UNCHANGED <<policy, enabled, external, req>> /\ pc[Svc] # "off"
    BY <1>5 DEF SvcOverride, SvcUnlink, SvcWrite, SvcWait, SvcVerify
  <2>2. \E l : Goto(Svc, l)
    BY <1>5, Zenon DEF SvcOverride, SvcUnlink, SvcWrite, SvcWait, SvcVerify
  <2> QED
    BY <1>a, <1>b, <2>1, <2>2, MoverHand
<1> QED
  BY <1>1, <1>2, <1>3, <1>4, <1>5 DEF SvcStep

LEMMA OthersHand ==
  ASSUME Unbroken, TypeInv, HandInv,
         \/ \E d \in Deckies : DeckyStart(d) \/ DeckyStep(d)
         \/ BootStep \/ HeatChanges \/ Fault \/ UNCHANGED vars
  PROVE  HandInv'
<1>a. /\ Boot \in Procs /\ Boot # Svc /\ Boot \notin Commanders /\ Boot \notin Daemons
      /\ \A d \in Deckies : d \in Procs /\ d # Svc /\ d \notin Commanders /\ d \notin Daemons
      /\ Sessions \subseteq Procs /\ req \in [Procs -> Request]
      /\ Boot \notin Sessions /\ \A d \in Deckies : d \notin Sessions
  BY ProcAssumption DEF Procs, Commanders, TypeInv, TypeOK
<1> USE DEF files, local
<1>1. ASSUME NEW d \in Deckies, DeckyStart(d) \/ DeckyStep(d) PROVE HandInv'
  <2>1. CASE DeckyStart(d)
    <3>1. /\ UNCHANGED <<policy, enabled, external>> /\ Goto(d, "lock")
          /\ \E r : req' = [req EXCEPT ![d] = r]
      BY <2>1 DEF DeckyStart
    <3>2. \A q \in Sessions : req'[q] = req[q]
      BY <1>a, <3>1
    <3> QED
      BY <1>a, <3>1, <3>2, MoverHand
  <2>2. CASE Acquire(d) \/ LockTimeout(d)
    BY <1>a, <2>2, HardwareHand DEF HardwareStep
  <2>3. CASE BankMode(d) \/ BankDuty(d) \/ Note(d) \/ NoteWrite(d) \/ Resume(d) \/ ResumeUnlink(d)
    <3>1. UNCHANGED <<policy, enabled, external, req>>
      BY <2>3 DEF BankMode, BankDuty, Note, NoteWrite, Resume, ResumeUnlink
    <3>2. pc' = pc \/ \E l : Goto(d, l)
      BY <2>3, Zenon DEF BankMode, BankDuty, Note, NoteWrite, Resume, ResumeUnlink, Done
    <3>3. pc' = pc => HandInv'
      BY <3>1, OutsideHand DEF HandInv
    <3> QED
      BY <1>a, <3>1, <3>2, <3>3, MoverHand
  <2> QED
    BY <1>1, <2>1, <2>2, <2>3 DEF DeckyStep
<1>2. CASE HardwareStep(Boot)
  BY <1>a, <1>2, HardwareHand
<1>3. CASE BootCheck \/ BootReplay
  <2>1. UNCHANGED <<policy, enabled, external>> /\ \E l : Goto(Boot, l)
    BY <1>3, Zenon DEF BootCheck, BootReplay
  <2>2. \A q \in Sessions : req'[q] = req[q]
    BY <1>a, <1>3 DEF BootCheck, BootReplay
  <2> QED
    BY <1>a, <2>1, <2>2, MoverHand
<1>4. CASE HeatChanges \/ UNCHANGED vars \/ \E c \in Channels : Drift(c)
  <2>1. UNCHANGED <<policy, enabled, external, req, pc>>
    BY <1>4 DEF HeatChanges, vars, Drift
  <2> QED
    BY <2>1, OutsideHand DEF HandInv
<1>5. ASSUME NEW p \in Procs, WriteErrors(p) \/ ReadBackFails(p) \/ AutoRefused(p) PROVE HandInv'
  BY <1>5, HardwareHand
<1>6. ASSUME NEW d \in Deckies, BankFails(d) PROVE HandInv'
  BY <1>a, <1>6, MoverHand DEF BankFails, Done
<1>7. ~Reboot /\ \A p : ~Kill(p)
  BY DEF Reboot, Kill, Strike, Unbroken
<1> QED
  BY <1>1, <1>2, <1>3, <1>4, <1>5, <1>6, <1>7 DEF BootStep, Fault

LEMMA InitHand == Init => HandInv
<1> SUFFICES ASSUME Init PROVE HandInv
  OBVIOUS
<1>1. \A s \in Sessions : pc[s] = "idle"
  BY CommanderFacts, ProcFacts DEF Init, AfterBoot
<1>2. enabled \/ pc[Svc] = "off"
  BY ProcFacts DEF Init, AfterBoot
<1>3. ~external
  BY DEF Init
<1> QED
  BY <1>1, <1>2, <1>3, CommanderFacts DEF HandInv, DaemonLabels

(* external_command(True): with one program that sends commands, its daemon *)
(* and Quick Access beside it, an acknowledged hand-over leaves neither a   *)
(* policy nor an enabled or running control loop, through any refused       *)
(* writes, timeouts and drifts on the way.                                  *)
THEOREM HandOverEnds ==
  ASSUME OneCommander, Unbroken
  PROVE  Spec => []HandOverEndsService
<1> DEFINE Inv == TypeInv /\ HandInv
<1>1. Init => Inv
  BY InitTyped, InitHand
<1>2. Inv /\ [Next]_vars => Inv'
  <2> SUFFICES ASSUME TypeInv, HandInv, [Next]_vars PROVE HandInv'
    BY StepTyped
  <2>1. ASSUME NEW s \in Sessions, SessionStart(s) \/ DaemonPlan(s) \/ SessionStep(s)
        PROVE  HandInv'
    BY <2>1, DaemonHand, CommanderHand, CommanderFacts
  <2> QED
    BY <2>1, ServiceHand, OthersHand DEF Next
<1>3. Inv => HandOverEndsService
  BY CommanderFacts DEF HandOverEndsService, HandedOver, HandInv, HandingOver
<1> HIDE DEF Inv
<1> QED
  BY <1>1, <1>2, <1>3, PTL DEF Spec
=============================================================================
