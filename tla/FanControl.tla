----------------------------- MODULE FanControl -----------------------------
(***************************************************************************)
(* Who drives the fan.  Several root processes write the same NCT hwmon    *)
(* channels and agree through files only:                                  *)
(*                                                                         *)
(*   - root command sessions of bc250-fan-pwm-helper, one per desktop, TUI *)
(*     or per-user daemon process that started it through pkexec;          *)
(*   - the control loop of the same helper, run by the system service;     *)
(*   - the boot replay of the same helper (--restore-boot);                *)
(*   - one-shot fan actions of bc250-quick-access-helper (Decky).          *)
(*                                                                         *)
(* The policy, the hand-over marker and the duties replayed at boot are    *)
(* files of /var/lib; the override is a file of /run and is lost on a      *)
(* reboot.  The flock FAN_OPERATION_LOCK is held around the hardware       *)
(* writes, not around the checks before them or the override after them.   *)
(*                                                                         *)
(* One action is one step that another process can observe: a file read    *)
(* or replaced, the lock taken, one register written.  Timers are          *)
(* abstracted to choices here (FanLoop keeps the clock): a recent write    *)
(* may or may not hold the loop back, a verification may or may not be due.*)
(***************************************************************************)
EXTENDS Naturals, FiniteSets

CONSTANTS
  Channels,       \* the pwmN channels of the NCT chip
  Duties,         \* the duties a request or a policy may ask for
  Failsafe,       \* the failsafe duty of every policy
  Sessions,       \* root command sessions
  Daemons,        \* the sessions a per-user daemon owns
  Deckies,        \* Quick Access helper processes
  Svc, Boot,      \* the control loop and the boot replay
  None,           \* "no policy", "no channel", "no duty", "lock is free"
  Firmware,       \* a channel in firmware automatic mode (pwmN_enable = 2)
  Held,           \* manual mode with a duty nobody asked for
  InitPolicies,   \* the policies the machine may boot with, None included
  SessionRequests, DeckyRequests,   \* what the users may ask for
  LockTimeouts,   \* may an operation outlast the 3 s wait of another one?
  MaxOps,         \* bound on the requests of one behaviour
  FaultKinds,     \* which faults may strike: "kill", "reboot", "refuse", "error";
                  \* "stuck": the roll back of a refused write fails too;
                  \* and, any number of times, "drift"
  MaxFaults       \* bound on the number of the first four

Procs == Sessions \cup Deckies \cup {Svc, Boot}
Policy == [pwm : Channels, duty : Duties]
Ops == {"PWM", "AUTO", "POLICY", "POLICY-CLEAR", "ENABLE", "DISABLE",
        "EXTERNAL ON", "EXTERNAL OFF", "fan", "resume", "write", "release",
        "exit", "failsafe", "replay", "none"}
Request == [op : Ops, chans : SUBSET Channels, val : Duties \cup {Firmware},
            pol : Policy \cup {None}]
NoRequest == [op |-> "none", chans |-> {}, val |-> Firmware, pol |-> None]
SessionOps == {"PWM", "AUTO", "POLICY", "POLICY-CLEAR", "ENABLE", "DISABLE",
               "EXTERNAL ON", "EXTERNAL OFF"}

ASSUME DutyAssumption == Failsafe \in Duties
ASSUME ProcAssumption ==
  /\ Daemons \subseteq Sessions
  /\ Sessions \cap Deckies = {}
  /\ Svc # Boot
  /\ {Svc, Boot} \cap (Sessions \cup Deckies) = {}
ASSUME NoneAssumption ==
  /\ None \notin Procs \cup Channels \cup Duties \cup Policy
  /\ Firmware \notin Duties \cup {Held, None}
  /\ Held \notin Duties \cup {None}
ASSUME RequestAssumption ==
  /\ InitPolicies \subseteq Policy \cup {None}
  /\ SessionRequests \subseteq [op : SessionOps, chans : SUBSET Channels,
                                val : Duties \cup {Firmware}, pol : Policy \cup {None}]
  /\ \A r \in SessionRequests :
       /\ r.op \in {"PWM", "AUTO"} => \E c \in Channels : r.chans = {c}
       /\ r.op = "PWM" <=> r.val # Firmware
  /\ DeckyRequests \subseteq [op : {"fan", "resume"}, chans : SUBSET Channels,
                              val : Duties \cup {Firmware}, pol : {None}]
  /\ \A r \in DeckyRequests : r.op = "fan" => r.chans # {}
ASSUME BoundAssumption ==
  /\ LockTimeouts \in BOOLEAN /\ MaxOps \in Nat /\ MaxFaults \in Nat
  /\ FaultKinds \subseteq {"kill", "reboot", "refuse", "error", "stuck", "drift"}

VARIABLES
  policy,     \* POLICY_FILE
  override,   \* OVERRIDE_FILE: the channels taken over, and by whom last
  external,   \* EXTERNAL_FILE: the fan belongs to another program
  applied,    \* STATE_FILE: the last verified duty of each channel
  enabled,    \* the service is enabled
  hw,         \* the channels: Firmware, Held or the manual duty
  lock,       \* the holder of FAN_OPERATION_LOCK
  hot,        \* a reading is at or above its critical temperature
  pc,         \* where each process is
  req,        \* the operation it has in hand
  seen,       \* what it last read: override or replay channels, left to write
  wasAuto,    \* was the channel automatic when this write began?
  svcChannel, \* FanController.channel
  svcPolicy,  \* FanController.policy
  svcLast,    \* FanController.last_raw
  replay,     \* the duties the boot replay has still to write
  stopReq,    \* SIGTERM was sent to the control loop
  by,         \* history: the kind of process that last wrote the channel
  claim,      \* history: the acknowledged takeover of each channel
  untouched,  \* history: nobody has asked for anything since this boot
  torn,       \* history: the channels a failure left half switched
  ops, faults

files == <<policy, override, external, applied, enabled>>
local == <<req, seen, wasAuto>>
svc   == <<svcChannel, svcPolicy, svcLast>>
ghost == <<by, claim, untouched, torn>>
bound == <<ops, faults>>
vars  == <<files, hw, lock, hot, pc, local, svc, replay, stopReq, ghost, bound>>

NoOverride == [channels |-> {}, source |-> "none"]
NoClaim == [c \in Channels |-> "none"]

SessionLabels == {"savePolicy", "unlinkPolicy", "dropOverride", "enable",
                  "restart", "disable", "awaitStop", "stopped", "handOver",
                  "unlinkPolicyX", "dropOverrideX", "loadState", "clearState",
                  "takeBack", "planned", "mark", "markWrite"}
DeckyLabels == {"resume", "resumeUnlink", "bankMode", "bankDuty", "note", "noteWrite"}
SvcLabels == {"top", "reload", "release", "plan", "override", "unlink", "compare"}
BootLabels == {"check", "replay"}
(* Labels inside `with fan_operation_lock()'. *)
LockedLabels == {"mode", "duty", "remember", "auto", "forget", "resume",
                 "resumeUnlink", "bankMode", "bankDuty"}
Labels == SessionLabels \cup DeckyLabels \cup SvcLabels \cup BootLabels
          \cup LockedLabels \cup {"idle", "off", "lock"}

Kind(p) == IF p \in Sessions THEN "session"
           ELSE IF p \in Deckies THEN "decky"
           ELSE IF p = Svc THEN "service" ELSE "boot"

TypeOK ==
  /\ policy \in Policy \cup {None}
  /\ override \in [channels : SUBSET Channels, source : {"session", "decky", "none"}]
  /\ external \in BOOLEAN
  /\ applied \in [Channels -> Duties \cup {None}]
  /\ enabled \in BOOLEAN
  /\ hw \in [Channels -> Duties \cup {Firmware, Held}]
  /\ lock \in Procs \cup {None}
  /\ hot \in BOOLEAN
  /\ pc \in [Procs -> Labels]
  /\ req \in [Procs -> Request]
  /\ seen \in [Procs -> SUBSET Channels]
  /\ wasAuto \in [Procs -> BOOLEAN]
  /\ svcChannel \in Channels \cup {None}
  /\ svcPolicy \in Policy \cup {None}
  /\ svcLast \in Duties \cup {None}
  /\ replay \in [Channels -> Duties \cup {None}]
  /\ stopReq \in BOOLEAN
  /\ by \in [Channels -> {"nobody", "session", "decky", "service", "boot", "external"}]
  /\ claim \in [Channels -> {"none", "session", "decky"}]
  /\ untouched \in BOOLEAN
  /\ torn \in SUBSET Channels
  /\ ops \in 0..MaxOps
  /\ faults \in 0..MaxFaults

-----------------------------------------------------------------------------
NoneApplied == [c \in Channels |-> None]
Goto(p, label) == pc' = [pc EXCEPT ![p] = label]
Done(p) == Goto(p, "idle")
Manual(c) == IF hw[c] = Firmware THEN Held ELSE hw[c]
WriteReg(p, c, value) ==
  /\ hw' = [hw EXCEPT ![c] = value]
  /\ by' = [by EXCEPT ![c] = Kind(p)]
  /\ torn' = IF value = Held THEN torn ELSE torn \ {c}

(* The operation of a process ends here and its channels stay as they are.  *)
Tear(p) == torn' = torn \cup {c \in req[p].chans : hw[c] = Held}
Unlock == lock' = None
Strike(kind) == /\ kind \in FaultKinds /\ faults < MaxFaults
                /\ faults' = faults + 1

(* systemd starts the service if it is enabled, and the replay unit.        *)
AfterBoot == [p \in Procs |-> IF p = Svc THEN IF enabled THEN "top" ELSE "off"
                              ELSE IF p = Boot THEN "check" ELSE "idle"]

(* A machine that has just booted: the chip is in firmware mode and /run is *)
(* empty.                                                                   *)
Init ==
  /\ policy \in InitPolicies
  /\ enabled = (policy # None)
  /\ override = NoOverride
  /\ external = FALSE
  /\ applied = NoneApplied
  /\ hw = [c \in Channels |-> Firmware]
  /\ lock = None
  /\ hot = FALSE
  /\ pc = AfterBoot
  /\ req = [p \in Procs |-> NoRequest]
  /\ seen = [p \in Procs |-> {}]
  /\ wasAuto = [p \in Procs |-> FALSE]
  /\ svcChannel = None /\ svcPolicy = None /\ svcLast = None
  /\ replay = NoneApplied
  /\ stopReq = FALSE
  /\ by = [c \in Channels |-> "nobody"]
  /\ claim = NoClaim /\ untouched = TRUE /\ torn = {}
  /\ ops = 0 /\ faults = 0

-----------------------------------------------------------------------------
(* The lock, and the two verified writes every process of the fan helper    *)
(* makes under it: apply_pwm and restore_automatic.                         *)

(* What an operation does under the lock.                                   *)
WorkLabel(r) == IF r.op = "resume" THEN "resume"
                ELSE IF r.op = "fan" THEN "bankMode"
                ELSE IF r.val = Firmware THEN "auto" ELSE "mode"

(* Bug: flock(LOCK_SH), which several processes may hold.                   *)
BugAcquireShared(p) ==
  /\ pc[p] = "lock"
  /\ lock' = p
  /\ Goto(p, WorkLabel(req[p]))
  /\ seen' = [seen EXCEPT ![p] = IF req[p].op = "fan" THEN req[p].chans ELSE @]
  /\ UNCHANGED <<files, hw, hot, req, wasAuto, svc, replay, stopReq, ghost, bound>>

(* fan_operation_lock / operation_lock: flock(LOCK_EX), polled.             *)
Acquire(p) ==
  /\ pc[p] = "lock" /\ lock = None
  /\ lock' = p
  /\ Goto(p, WorkLabel(req[p]))
  /\ seen' = [seen EXCEPT ![p] = IF req[p].op = "fan" THEN req[p].chans ELSE @]
  /\ UNCHANGED <<files, hw, hot, req, wasAuto, svc, replay, stopReq, ghost, bound>>

(* Where a process goes on when its hardware operation did not succeed.     *)
AfterError(p) == IF p = Svc THEN IF req[p].op = "release" THEN "plan"
                                 ELSE IF req[p].op = "exit" THEN "off" ELSE "top"
                 ELSE IF p = Boot THEN "replay" ELSE "idle"

(* systemd reports the stop job of a control loop that has ended.           *)
SvcGone(label) == [p \in Procs |-> IF p = Svc THEN label
                                   ELSE IF pc[p] = "awaitStop" THEN "stopped" ELSE pc[p]]
Leave(p, label) ==
  /\ pc' = IF p = Svc /\ label = "off" THEN SvcGone("off") ELSE [pc EXCEPT ![p] = label]
  /\ stopReq' = IF p = Svc /\ label = "off" THEN FALSE ELSE stopReq

(* The lock stays busy for 3 s: RuntimeError.  release() suppresses it, the *)
(* control loop and a session report it, the boot replay dies of it.        *)
LockTimeout(p) ==
  /\ LockTimeouts
  /\ pc[p] = "lock" /\ lock # None
  /\ Leave(p, IF p = Boot THEN "off" ELSE AfterError(p))
  /\ UNCHANGED <<files, hw, lock, hot, local, svc, replay, ghost, bound>>

(* apply_pwm: note the mode and ask for manual mode ...                     *)
ModeManual(p) == \E c \in req[p].chans :
  /\ pc[p] = "mode"
  /\ wasAuto' = [wasAuto EXCEPT ![p] = (hw[c] = Firmware)]
  /\ WriteReg(p, c, Manual(c))
  /\ Goto(p, "duty")
  /\ UNCHANGED <<files, lock, hot, req, seen, svc, replay, stopReq, claim, untouched, bound>>

(* ... write the duty and read it back ...                                  *)
WriteDuty(p) == \E c \in req[p].chans :
  /\ pc[p] = "duty"
  /\ WriteReg(p, c, req[p].val)
  /\ Goto(p, "remember")
  /\ UNCHANGED <<files, lock, hot, local, svc, replay, stopReq, claim, untouched, bound>>

(* ... _remember_applied, and the caller's own memory of the write.         *)
Remember(p) == \E c \in req[p].chans :
  /\ pc[p] = "remember"
  /\ applied' = [applied EXCEPT ![c] = req[p].val]
  /\ Unlock
  /\ IF p = Svc
     THEN /\ svcChannel' = c /\ svcLast' = req[p].val
          /\ UNCHANGED svcPolicy
     ELSE UNCHANGED svc
  /\ Goto(p, IF p = Svc THEN "top" ELSE IF p = Boot THEN "replay" ELSE "mark")
  /\ UNCHANGED <<policy, override, external, enabled, hw, hot, local, replay, stopReq,
                 ghost, bound>>

(* Bug: the failed write is reported and the channel stays as it is.        *)
BugNoRollback(p) ==
  /\ pc[p] = "duty"
  /\ Strike("refuse")
  /\ Unlock
  /\ Leave(p, AfterError(p))
  /\ UNCHANGED <<files, hw, hot, local, svc, replay, ghost, ops>>

(* A register does not read back: apply_pwm returns the channel to automatic *)
(* if it was automatic before (restore_previous_automatic_mode).  That write *)
(* may raise, or not read back either; then it is only reported.            *)
ReadBackFails(p) == \E c \in req[p].chans :
  /\ pc[p] = "duty"
  /\ Strike("refuse")
  /\ \/ wasAuto[p] /\ WriteReg(p, c, Firmware)
     \/ wasAuto[p] /\ "stuck" \in FaultKinds /\ Tear(p) /\ UNCHANGED <<hw, by>>
     \/ ~wasAuto[p] /\ UNCHANGED <<hw, by, torn>>
  /\ Unlock
  /\ Leave(p, AfterError(p))
  /\ UNCHANGED <<files, hot, local, svc, replay, claim, untouched, ops>>

(* A write raises OSError: apply_pwm returns the error and nothing else.    *)
WriteErrors(p) ==
  /\ pc[p] \in {"mode", "duty"}
  /\ Strike("error")
  /\ Tear(p)
  /\ Unlock
  /\ Leave(p, AfterError(p))
  /\ UNCHANGED <<files, hw, hot, local, svc, replay, by, claim, untouched, ops>>

(* restore_automatic: pwmN_enable = 2 ...                                   *)
WriteAuto(p) == \E c \in req[p].chans :
  /\ pc[p] = "auto"
  /\ WriteReg(p, c, Firmware)
  /\ Goto(p, "forget")
  /\ UNCHANGED <<files, lock, hot, local, svc, replay, stopReq, claim, untouched, bound>>

(* The mode does not read back 2: restore_automatic returns the error.      *)
AutoRefused(p) ==
  /\ pc[p] = "auto"
  /\ Strike("refuse")
  /\ Unlock
  /\ Leave(p, AfterError(p))
  /\ UNCHANGED <<files, hw, hot, local, svc, replay, ghost, ops>>

(* Bugs: restore_automatic does not forget, or records the mode as a duty.  *)
BugForgetAs(p, value) == \E c \in req[p].chans :
  /\ pc[p] = "forget"
  /\ applied' = [applied EXCEPT ![c] = value]
  /\ Unlock
  /\ Leave(p, IF p = Svc THEN AfterError(p) ELSE "mark")
  /\ UNCHANGED <<policy, override, external, enabled, hw, hot, local, svc, replay,
                 ghost, bound>>
BugForgetNothing(p) == \E c \in Channels : c \in req[p].chans /\ BugForgetAs(p, applied[c])
BugForgetAsMode(p) == BugForgetAs(p, Firmware)

(* ... and _forget_applied.                                                 *)
Forget(p) == \E c \in req[p].chans :
  /\ pc[p] = "forget"
  /\ applied' = [applied EXCEPT ![c] = None]
  /\ Unlock
  /\ Leave(p, IF p = Svc THEN AfterError(p) ELSE "mark")
  /\ UNCHANGED <<policy, override, external, enabled, hw, hot, local, svc, replay,
                 ghost, bound>>

HardwareStep(p) ==
  \/ Acquire(p) \/ LockTimeout(p)
  \/ ModeManual(p) \/ WriteDuty(p) \/ Remember(p)
  \/ WriteAuto(p) \/ Forget(p)

-----------------------------------------------------------------------------
(* Root command sessions of bc250-fan-pwm-helper.                           *)

FirstLabel(r) == IF r.op \in {"PWM", "AUTO"} THEN "lock"
                 ELSE IF r.op = "POLICY" THEN "savePolicy"
                 ELSE IF r.op = "POLICY-CLEAR" THEN "unlinkPolicy"
                 ELSE IF r.op = "ENABLE" THEN "enable"
                 ELSE IF r.op = "DISABLE" THEN "disable"
                 ELSE IF r.op = "EXTERNAL ON" THEN "handOver" ELSE "takeBack"

(* session(): a line arrives; fan_external() is read before anything else.  *)
SessionStart(s) == \E r \in SessionRequests :
  /\ s \notin Daemons
  /\ pc[s] = "idle" /\ ops < MaxOps
  /\ external => r.op \in {"EXTERNAL ON", "EXTERNAL OFF", "POLICY-CLEAR", "DISABLE"}
  /\ req' = [req EXCEPT ![s] = r]
  /\ Goto(s, FirstLabel(r))
  /\ ops' = ops + 1 /\ untouched' = FALSE
  /\ UNCHANGED <<files, hw, lock, hot, seen, wasAuto, svc, replay, stopReq, by, claim, torn,
                 faults>>

(* Bug: the daemon plans whether or not the system service owns the fan.    *)
BugDaemonPlans(s) == \E r \in SessionRequests :
  /\ s \in Daemons /\ r.op = "PWM"
  /\ pc[s] = "idle"
  /\ ~external
  /\ req' = [req EXCEPT ![s] = r]
  /\ Goto(s, "planned")
  /\ untouched' = FALSE
  /\ UNCHANGED <<files, hw, lock, hot, seen, wasAuto, svc, replay, stopReq, by, claim, torn,
                 bound>>

(* aplicar_ventilador_persistente_si_corresponde: the per-user daemon reads *)
(* the same files, decides, and only then sends a PWM line of its own.      *)
DaemonPlan(s) == \E r \in SessionRequests :
  /\ s \in Daemons /\ r.op = "PWM"
  /\ pc[s] = "idle"
  /\ ~external /\ ~(enabled /\ policy # None)
  /\ req' = [req EXCEPT ![s] = r]
  /\ Goto(s, "planned")
  /\ untouched' = FALSE
  /\ UNCHANGED <<files, hw, lock, hot, seen, wasAuto, svc, replay, stopReq, by, claim, torn,
                 bound>>

DaemonSend(s) ==
  /\ pc[s] = "planned"
  /\ Goto(s, IF external THEN "idle" ELSE "lock")
  /\ UNCHANGED <<files, hw, lock, hot, local, svc, replay, stopReq, ghost, bound>>

(* save_policy: the policy is replaced, then the override is removed.       *)
SavePolicy(s) ==
  /\ pc[s] = "savePolicy"
  /\ policy' = req[s].pol
  /\ Goto(s, "dropOverride")
  /\ UNCHANGED <<override, external, applied, enabled, hw, lock, hot, local, svc, replay,
                 stopReq, ghost, bound>>

UnlinkPolicy(s) ==
  /\ pc[s] \in {"unlinkPolicy", "unlinkPolicyX"}
  /\ policy' = None
  /\ Goto(s, IF pc[s] = "unlinkPolicy" THEN "dropOverride" ELSE "dropOverrideX")
  /\ UNCHANGED <<override, external, applied, enabled, hw, lock, hot, local, svc, replay,
                 stopReq, ghost, bound>>

DropOverride(s) ==
  /\ pc[s] \in {"dropOverride", "dropOverrideX"}
  /\ override' = NoOverride
  /\ claim' = NoClaim
  /\ Goto(s, IF pc[s] = "dropOverrideX" THEN "loadState"
             ELSE IF req[s].op = "EXTERNAL ON" THEN "unlinkPolicyX" ELSE "idle")
  /\ UNCHANGED <<policy, external, applied, enabled, hw, lock, hot, local, svc, replay,
                 stopReq, by, untouched, torn, bound>>

(* systemctl start: a new control loop with a fresh memory.                 *)
FreshLoop == /\ svcChannel' = None /\ svcPolicy' = None /\ svcLast' = None

(* enable_control_service: enable --now, then restart.                      *)
Enable(s) ==
  /\ pc[s] = "enable"
  /\ IF policy = None
     THEN /\ Done(s) /\ UNCHANGED <<enabled, svc>>
     ELSE /\ enabled' = TRUE
          /\ IF pc[Svc] = "off"
             THEN /\ FreshLoop
                  /\ pc' = [pc EXCEPT ![s] = "restart", ![Svc] = "top"]
             ELSE /\ Goto(s, "restart") /\ UNCHANGED svc
  /\ UNCHANGED <<policy, override, external, applied, hw, lock, hot, local, replay, stopReq,
                 ghost, bound>>

(* systemctl restart, systemctl disable --now: the stop job is queued and   *)
(* the command waits for the control loop to end.                           *)
RequestStop(s) ==
  /\ pc[s] \in {"restart", "disable"}
  /\ enabled' = (enabled /\ pc[s] = "restart")
  /\ stopReq' = (pc[Svc] # "off")
  /\ Goto(s, IF pc[Svc] # "off" THEN "awaitStop" ELSE "stopped")
  /\ UNCHANGED <<policy, override, external, applied, hw, lock, hot, local, svc, replay,
                 ghost, bound>>

AfterStop(s) ==
  /\ pc[s] = "stopped"
  /\ IF req[s].op = "ENABLE"
     THEN IF pc[Svc] = "off"
          THEN /\ FreshLoop
               /\ pc' = [pc EXCEPT ![s] = "idle", ![Svc] = "top"]
          ELSE Done(s) /\ UNCHANGED svc
     ELSE Goto(s, "unlinkPolicy") /\ UNCHANGED svc
  /\ UNCHANGED <<files, hw, lock, hot, local, replay, stopReq, ghost, bound>>

(* Bug: the hand-over forgets the policy and leaves the service enabled.    *)
BugHandOverKeepsService(s) ==
  /\ pc[s] = "handOver"
  /\ external' = TRUE
  /\ by' = [c \in Channels |-> "external"]
  /\ Goto(s, "unlinkPolicyX")
  /\ UNCHANGED <<policy, override, applied, enabled, hw, lock, hot, local, svc, replay,
                 stopReq, claim, untouched, torn, bound>>

(* external_command(on): the marker first, the rest after it.               *)
HandOver(s) ==
  /\ pc[s] = "handOver"
  /\ external' = TRUE
  /\ by' = [c \in Channels |-> "external"]
  /\ Goto(s, IF enabled THEN "disable" ELSE "unlinkPolicyX")
  /\ UNCHANGED <<policy, override, applied, enabled, hw, lock, hot, local, svc, replay,
                 stopReq, claim, untouched, torn, bound>>

LoadState(s) ==
  /\ pc[s] = "loadState"
  /\ Goto(s, IF applied = NoneApplied THEN "idle" ELSE "clearState")
  /\ UNCHANGED <<files, hw, lock, hot, local, svc, replay, stopReq, ghost, bound>>

ClearState(s) ==
  /\ pc[s] = "clearState"
  /\ applied' = NoneApplied
  /\ Done(s)
  /\ UNCHANGED <<policy, override, external, enabled, hw, lock, hot, local, svc, replay,
                 stopReq, ghost, bound>>

TakeBack(s) ==
  /\ pc[s] = "takeBack"
  /\ external' = FALSE
  /\ Done(s)
  /\ UNCHANGED <<policy, override, applied, enabled, hw, lock, hot, local, svc, replay,
                 stopReq, ghost, bound>>

(* mark_override: only the channel of a policy the enabled service follows. *)
Mark(s) == \E c \in req[s].chans :
  /\ pc[s] = "mark"
  /\ IF policy # None /\ policy.pwm = c /\ enabled
     THEN /\ seen' = [seen EXCEPT ![s] = override.channels \cup {c}]
          /\ Goto(s, "markWrite")
     ELSE Done(s) /\ UNCHANGED seen
  /\ UNCHANGED <<files, hw, lock, hot, req, wasAuto, svc, replay, stopReq, ghost, bound>>

MarkWrite(s) ==
  /\ pc[s] = "markWrite"
  /\ override' = [channels |-> seen[s], source |-> "session"]
  /\ claim' = IF s \in Daemons THEN claim
              ELSE [c \in Channels |-> IF c \in req[s].chans THEN "session" ELSE claim[c]]
  /\ Done(s)
  /\ UNCHANGED <<policy, external, applied, enabled, hw, lock, hot, local, svc, replay,
                 stopReq, by, untouched, torn, bound>>

SessionStep(s) ==
  \/ HardwareStep(s)
  \/ DaemonSend(s) \/ SavePolicy(s) \/ UnlinkPolicy(s) \/ DropOverride(s)
  \/ Enable(s) \/ RequestStop(s) \/ AfterStop(s)
  \/ HandOver(s) \/ LoadState(s) \/ ClearState(s) \/ TakeBack(s)
  \/ Mark(s) \/ MarkWrite(s)

-----------------------------------------------------------------------------
(* The control loop: FanController.step, run every two seconds.             *)

SvcReq(op, c, v) == [op |-> op, chans |-> {c}, val |-> v, pol |-> None]

(* Bug: the loop does not look for the hand-over marker.                    *)
BugSvcTopIgnoresMarker ==
  /\ pc[Svc] = "top" /\ ~stopReq
  /\ Goto(Svc, "reload") /\ UNCHANGED svc
  /\ UNCHANGED <<files, hw, lock, hot, local, replay, stopReq, ghost, bound>>

(* step(): the hand-over marker is read first.                              *)
SvcTop ==
  /\ pc[Svc] = "top" /\ ~stopReq
  /\ IF external THEN svcChannel' = None /\ UNCHANGED <<pc, svcPolicy, svcLast>>
                 ELSE Goto(Svc, "reload") /\ UNCHANGED svc
  /\ UNCHANGED <<files, hw, lock, hot, local, replay, stopReq, ghost, bound>>

(* Bug: the stop flag is looked at only while a channel is driven.          *)
BugSvcStopWhileDriving ==
  /\ pc[Svc] = "top" /\ stopReq /\ svcChannel # None
  /\ req' = [req EXCEPT ![Svc] = [NoRequest EXCEPT !.op = "exit"]]
  /\ Goto(Svc, "release")
  /\ UNCHANGED <<files, hw, lock, hot, seen, wasAuto, svc, replay, stopReq, ghost, bound>>

(* SIGTERM: the loop ends after its step, through release().                *)
SvcStop ==
  /\ pc[Svc] = "top" /\ stopReq
  /\ req' = [req EXCEPT ![Svc] = [NoRequest EXCEPT !.op = "exit"]]
  /\ Goto(Svc, "release")
  /\ UNCHANGED <<files, hw, lock, hot, seen, wasAuto, svc, replay, stopReq, ghost, bound>>

(* Bugs: a policy for another channel does not release the driven one; a    *)
(* policy for the same channel is not read again.                           *)
BugSvcReloadKeepsChannel ==
  /\ pc[Svc] = "reload"
  /\ svcPolicy' = policy
  /\ svcLast' = IF policy = svcPolicy THEN svcLast ELSE None
  /\ IF policy # svcPolicy /\ svcChannel # None /\ policy = None
     THEN /\ req' = [req EXCEPT ![Svc] = [NoRequest EXCEPT !.op = "release"]]
          /\ Goto(Svc, "release")
     ELSE Goto(Svc, "plan") /\ UNCHANGED req
  /\ UNCHANGED <<files, hw, lock, hot, seen, wasAuto, svcChannel, replay, stopReq, ghost, bound>>
BugSvcReloadStale ==
  /\ pc[Svc] = "reload"
  /\ svcPolicy' = IF svcPolicy = None \/ policy = None THEN policy ELSE svcPolicy
  /\ Goto(Svc, "plan")
  /\ UNCHANGED <<files, hw, lock, hot, local, svcChannel, svcLast, replay, stopReq, ghost, bound>>

(* reload_policy(): a policy that leaves the driven channel releases it.    *)
SvcReload ==
  /\ pc[Svc] = "reload"
  /\ svcPolicy' = policy
  /\ svcLast' = IF policy = svcPolicy THEN svcLast ELSE None
  /\ IF /\ policy # svcPolicy /\ svcChannel # None
        /\ policy # None => policy.pwm # svcChannel
     THEN /\ req' = [req EXCEPT ![Svc] = [NoRequest EXCEPT !.op = "release"]]
          /\ Goto(Svc, "release")
     ELSE Goto(Svc, "plan") /\ UNCHANGED req
  /\ UNCHANGED <<files, hw, lock, hot, seen, wasAuto, svcChannel, replay, stopReq, ghost, bound>>

(* release(): nothing to do, or the channel is another program's now, or    *)
(* the channel goes back to firmware automatic mode.                        *)
SvcRelease ==
  /\ pc[Svc] = "release"
  /\ svcChannel' = None
  /\ IF svcChannel = None \/ external
     THEN Leave(Svc, AfterError(Svc)) /\ UNCHANGED req
     ELSE /\ req' = [req EXCEPT ![Svc] = SvcReq(req[Svc].op, svcChannel, Firmware)]
          /\ Goto(Svc, "lock") /\ UNCHANGED stopReq
  /\ UNCHANGED <<files, hw, lock, hot, seen, wasAuto, svcPolicy, svcLast, replay, ghost, bound>>

(* plan(): the failsafe duty while a reading is critical, else the policy's. *)
SvcPlan ==
  /\ pc[Svc] = "plan"
  /\ IF svcPolicy = None
     THEN Goto(Svc, "top") /\ UNCHANGED req
     ELSE /\ req' = [req EXCEPT ![Svc] = SvcReq(IF hot THEN "failsafe" ELSE "write",
                        svcPolicy.pwm, IF hot THEN Failsafe ELSE svcPolicy.duty)]
          /\ Goto(Svc, "override")
  /\ UNCHANGED <<files, hw, lock, hot, seen, wasAuto, svc, replay, stopReq, ghost, bound>>

Emergency == req[Svc].op = "failsafe"

(* Bugs: a takeover pauses the loop in an emergency too, or never.          *)
BugSvcOverrideAlways ==
  /\ pc[Svc] = "override"
  /\ Goto(Svc, IF req[Svc].chans \subseteq override.channels THEN "top" ELSE "compare")
  /\ UNCHANGED <<files, hw, lock, hot, local, svc, replay, stopReq, ghost, bound>>
BugSvcOverrideIgnored ==
  /\ pc[Svc] = "override"
  /\ Goto(Svc, "compare")
  /\ UNCHANGED <<files, hw, lock, hot, local, svc, replay, stopReq, ghost, bound>>

(* override_channels(): a takeover pauses the loop unless it is an emergency. *)
SvcOverride ==
  /\ pc[Svc] = "override"
  /\ Goto(Svc, IF req[Svc].chans \subseteq override.channels
               THEN IF Emergency THEN "unlink" ELSE "top"
               ELSE "compare")
  /\ UNCHANGED <<files, hw, lock, hot, local, svc, replay, stopReq, ghost, bound>>

(* Safety outranks whoever took the fan over.                               *)
SvcUnlink ==
  /\ pc[Svc] = "unlink"
  /\ override' = NoOverride
  /\ claim' = NoClaim
  /\ Goto(Svc, "compare")
  /\ UNCHANGED <<policy, external, applied, enabled, hw, lock, hot, local, svc, replay,
                 stopReq, by, untouched, torn, bound>>

(* A new duty is written; one that follows another write (or a failed one)  *)
(* within five seconds waits, unless it is an emergency.                    *)
SvcWrite ==
  /\ pc[Svc] = "compare" /\ req[Svc].val # svcLast
  /\ Goto(Svc, "lock")
  /\ UNCHANGED <<files, hw, lock, hot, local, svc, replay, stopReq, ghost, bound>>

SvcWait ==
  /\ pc[Svc] = "compare"
  /\ req[Svc].val # svcLast => ~Emergency
  /\ Goto(Svc, "top")
  /\ UNCHANGED <<files, hw, lock, hot, local, svc, replay, stopReq, ghost, bound>>

(* The same duty: every 30 s the registers are read, without the lock, and  *)
(* a channel that moved is written again.                                   *)
SvcVerify == \E c \in req[Svc].chans :
  /\ pc[Svc] = "compare" /\ req[Svc].val = svcLast
  /\ Goto(Svc, IF hw[c] = svcLast THEN "top" ELSE "lock")
  /\ UNCHANGED <<files, hw, lock, hot, local, svc, replay, stopReq, ghost, bound>>

SvcStep ==
  \/ HardwareStep(Svc)
  \/ SvcTop \/ SvcStop \/ SvcReload \/ SvcRelease \/ SvcPlan
  \/ SvcOverride \/ SvcUnlink \/ SvcWrite \/ SvcWait \/ SvcVerify

-----------------------------------------------------------------------------
(* Quick Access (Decky): one process per action.                            *)

(* main(): the marker is read before the lock is taken; fan-resume does not *)
(* read it.                                                                 *)
DeckyStart(d) == \E r \in DeckyRequests :
  /\ pc[d] = "idle" /\ ops < MaxOps
  /\ external => r.op = "resume"
  /\ req' = [req EXCEPT ![d] = r]
  /\ Goto(d, "lock")
  /\ ops' = ops + 1 /\ untouched' = FALSE
  /\ UNCHANGED <<files, hw, lock, hot, seen, wasAuto, svc, replay, stopReq, by, claim, torn,
                 faults>>

(* fan_channel_control, fan_system_preset: the modes of the whole bank,     *)
(* channel by channel ...                                                   *)
BankMode(d) == \E c \in seen[d] :
  /\ pc[d] = "bankMode"
  /\ WriteReg(d, c, IF req[d].val = Firmware THEN Firmware ELSE Manual(c))
  /\ IF seen[d] # {c}
     THEN /\ seen' = [seen EXCEPT ![d] = @ \ {c}]
          /\ UNCHANGED <<pc, lock>>
     ELSE /\ seen' = [seen EXCEPT ![d] = IF req[d].val = Firmware THEN {} ELSE req[d].chans]
          /\ IF req[d].val = Firmware
             THEN Unlock /\ Goto(d, "note")
             ELSE Goto(d, "bankDuty") /\ UNCHANGED lock
  /\ UNCHANGED <<files, hot, req, wasAuto, svc, replay, stopReq, claim, untouched, bound>>

(* ... then its duties.                                                     *)
BankDuty(d) == \E c \in seen[d] :
  /\ pc[d] = "bankDuty"
  /\ WriteReg(d, c, req[d].val)
  /\ seen' = [seen EXCEPT ![d] = @ \ {c}]
  /\ IF seen[d] # {c} THEN UNCHANGED <<pc, lock>> ELSE Unlock /\ Goto(d, "note")
  /\ UNCHANGED <<files, hot, req, wasAuto, svc, replay, stopReq, claim, untouched, bound>>

(* Bug: the fall back covers only the channel that refused.                 *)
BugBankFailsOne(d) == \E c \in req[d].chans :
  /\ pc[d] \in {"bankMode", "bankDuty"}
  /\ Strike("refuse")
  /\ IF req[d].val = Firmware THEN UNCHANGED <<hw, by, torn>> ELSE WriteReg(d, c, Firmware)
  /\ Unlock
  /\ Done(d)
  /\ UNCHANGED <<files, hot, local, svc, replay, stopReq, claim, untouched, ops>>

(* A refused register, or a write that raises: after a manual transition    *)
(* the whole bank is asked back to automatic; the action fails.  A channel  *)
(* whose fall back raises, or goes unnoticed, stays as it is.               *)
BankFails(d) ==
  /\ pc[d] \in {"bankMode", "bankDuty"}
  /\ Strike("refuse")
  /\ \E back \in SUBSET req[d].chans :
       /\ req[d].val = Firmware => back = {}
       /\ req[d].val # Firmware /\ "stuck" \notin FaultKinds => back = req[d].chans
       /\ hw' = [c \in Channels |-> IF c \in back THEN Firmware ELSE hw[c]]
       /\ by' = [c \in Channels |-> IF c \in back THEN "decky" ELSE by[c]]
       /\ torn' = (torn \ back) \cup {c \in req[d].chans \ back : hw[c] = Held}
  /\ Unlock
  /\ Done(d)
  /\ UNCHANGED <<files, hot, local, svc, replay, stopReq, claim, untouched, ops>>

(* note_fan_takeover, after the lock is released: read the override ...     *)
Note(d) ==
  /\ pc[d] = "note"
  /\ IF policy = None
     THEN Done(d) /\ UNCHANGED seen
     ELSE /\ seen' = [seen EXCEPT ![d] = override.channels \cup req[d].chans]
          /\ Goto(d, "noteWrite")
  /\ UNCHANGED <<files, hw, lock, hot, req, wasAuto, svc, replay, stopReq, ghost, bound>>

(* ... and write it back, as Decky's.                                       *)
NoteWrite(d) ==
  /\ pc[d] = "noteWrite"
  /\ override' = [channels |-> seen[d], source |-> "decky"]
  /\ claim' = [c \in Channels |-> IF c \in req[d].chans THEN "decky" ELSE claim[c]]
  /\ Done(d)
  /\ UNCHANGED <<policy, external, applied, enabled, hw, lock, hot, local, svc, replay,
                 stopReq, by, untouched, torn, bound>>

(* fan_resume: only an override whose source is Decky is removed.           *)
Resume(d) ==
  /\ pc[d] = "resume"
  /\ IF override.source = "decky"
     THEN Goto(d, "resumeUnlink") /\ UNCHANGED lock
     ELSE Unlock /\ Done(d)
  /\ UNCHANGED <<files, hw, hot, local, svc, replay, stopReq, ghost, bound>>

ResumeUnlink(d) ==
  /\ pc[d] = "resumeUnlink"
  /\ override' = NoOverride
  /\ claim' = [c \in Channels |-> IF claim[c] = "decky" THEN "none" ELSE claim[c]]
  /\ Unlock /\ Done(d)
  /\ UNCHANGED <<policy, external, applied, enabled, hw, hot, local, svc, replay, stopReq,
                 by, untouched, torn, bound>>

DeckyStep(d) ==
  \/ Acquire(d) \/ LockTimeout(d)
  \/ BankMode(d) \/ BankDuty(d) \/ Note(d) \/ NoteWrite(d)
  \/ Resume(d) \/ ResumeUnlink(d)

-----------------------------------------------------------------------------
(* The boot replay (restore_boot_state), 20 s after boot.                   *)

(* Bug: the replay does not ask who owns the fan.                           *)
BugBootChecksNothing ==
  /\ pc[Boot] = "check"
  /\ Goto(Boot, "replay") /\ replay' = applied
  /\ UNCHANGED <<files, hw, lock, hot, local, svc, stopReq, ghost, bound>>

BootCheck ==
  /\ pc[Boot] = "check"
  /\ IF external \/ (enabled /\ policy # None)
     THEN Goto(Boot, "off") /\ UNCHANGED replay
     ELSE Goto(Boot, "replay") /\ replay' = applied
  /\ UNCHANGED <<files, hw, lock, hot, local, svc, stopReq, ghost, bound>>

BootReplay ==
  /\ pc[Boot] = "replay"
  /\ IF replay = NoneApplied
     THEN Goto(Boot, "off") /\ UNCHANGED <<req, replay>>
     ELSE \E c \in Channels :
            /\ replay[c] # None
            /\ req' = [req EXCEPT ![Boot] = SvcReq("replay", c, replay[c])]
            /\ replay' = [replay EXCEPT ![c] = None]
            /\ Goto(Boot, "lock")
  /\ UNCHANGED <<files, hw, lock, hot, seen, wasAuto, svc, stopReq, ghost, bound>>

BootStep == HardwareStep(Boot) \/ BootCheck \/ BootReplay

-----------------------------------------------------------------------------
(* The world around them.                                                   *)

(* The temperature crosses a critical threshold, either way (only a policy  *)
(* has anyone read it).                                                     *)
HeatChanges ==
  /\ hot' = ~hot
  /\ policy # None \/ svcPolicy # None
  /\ UNCHANGED <<files, hw, lock, pc, local, svc, replay, stopReq, ghost, bound>>

(* "Something outside BC250 Control Center (a driver reload, a firmware      *)
(* reset) moved the fan", between two operations of ours.                   *)
Drift(c) ==
  /\ "drift" \in FaultKinds
  /\ lock = None
  /\ hw' = [hw EXCEPT ![c] = Firmware]
  /\ by' = [by EXCEPT ![c] = "nobody"]
  /\ torn' = torn \ {c}
  /\ UNCHANGED <<files, lock, hot, pc, local, svc, replay, stopReq, claim, untouched, bound>>

(* A helper is killed (its pkexec parent ends it, or SIGKILL): the kernel   *)
(* drops its flock; systemd restarts the control loop (Restart=on-failure). *)
Kill(p) ==
  /\ Strike("kill")
  /\ pc[p] \notin {"idle", "off"}
  /\ lock' = IF lock = p THEN None ELSE lock
  /\ IF lock = p THEN Tear(p) ELSE UNCHANGED torn
  /\ IF p = Svc
     THEN /\ Leave(Svc, IF stopReq THEN "off" ELSE "top")
          /\ FreshLoop
     ELSE /\ Goto(p, IF p = Boot THEN "off" ELSE "idle")
          /\ UNCHANGED <<svc, stopReq>>
  /\ UNCHANGED <<files, hw, hot, local, replay, by, claim, untouched, ops>>

(* Power off and boot again: /run and every process are gone, the chip is   *)
(* back in firmware mode, the files of /var/lib are as they were.           *)
Reboot ==
  /\ Strike("reboot")
  /\ override' = NoOverride /\ claim' = NoClaim /\ untouched' = TRUE /\ torn' = {}
  /\ hw' = [c \in Channels |-> Firmware]
  /\ by' = [c \in Channels |-> "nobody"]
  /\ lock' = None /\ hot' = FALSE /\ stopReq' = FALSE
  /\ pc' = AfterBoot
  /\ req' = [p \in Procs |-> NoRequest]
  /\ seen' = [p \in Procs |-> {}]
  /\ wasAuto' = [p \in Procs |-> FALSE]
  /\ replay' = NoneApplied
  /\ FreshLoop
  /\ UNCHANGED <<policy, external, applied, enabled, ops>>

Fault == \/ Reboot
         \/ \E p \in Procs : \/ Kill(p) \/ WriteErrors(p)
                             \/ ReadBackFails(p) \/ AutoRefused(p)
         \/ \E d \in Deckies : BankFails(d)
         \/ \E c \in Channels : Drift(c)

Next ==
  \/ \E s \in Sessions : SessionStart(s) \/ DaemonPlan(s) \/ SessionStep(s)
  \/ \E d \in Deckies : DeckyStart(d) \/ DeckyStep(d)
  \/ SvcStep
  \/ BootStep
  \/ HeatChanges
  \/ Fault

Spec == Init /\ [][Next]_vars

(* The loop and the helpers are sequential programs with bounded waits: a   *)
(* process that can take its next step takes it.  The rewrite and verify    *)
(* timers always run out in the end, and the flock is polled every 25 ms.   *)
Fairness ==
  /\ WF_vars(SvcStep) /\ SF_vars(SvcWrite) /\ SF_vars(SvcVerify) /\ SF_vars(Acquire(Svc))
  /\ \A s \in Sessions : WF_vars(SessionStep(s))
  /\ \A d \in Deckies : WF_vars(DeckyStep(d))
  /\ WF_vars(BootStep)
FairSpec == Spec /\ Fairness
-----------------------------------------------------------------------------
(* Properties.                                                              *)

(* fan_operation_lock: whoever is between a mode write and the record of    *)
(* what it wrote holds the lock, and nobody keeps it afterwards.            *)
LockHeld ==
  /\ \A p \in Procs : pc[p] \in LockedLabels => lock = p
  /\ lock # None => pc[lock] \in LockedLabels

MidWrite(c) == /\ lock # None /\ c \in req[lock].chans
               /\ pc[lock] \in {"duty", "bankMode", "bankDuty"}

(* apply_pwm, fan_system_preset: a channel stands in manual mode at a duty   *)
(* nobody asked for only while the process that is changing it holds the    *)
(* lock, or because a helper died on that channel, its duty write raised or *)
(* the roll back of a refused write failed as well, and then only until the *)
(* next write that arrives.  A refusal alone never leaves it so: neither of *)
(* one register, nor of one in a bank whose others were switched before.    *)
HeldOnlyIfTorn == \A c \in Channels : hw[c] = Held /\ c \notin torn => MidWrite(c)

(* _remember_applied and _forget_applied follow each verified write: what   *)
(* the next boot would replay for a channel is what the fan helper itself   *)
(* last put there, and nothing once it handed the channel to the firmware.  *)
ReplayMirrorsHelper ==
  \A c \in Channels :
    lock = None /\ by[c] \in {"session", "service", "boot"} /\ hw[c] # Held =>
      applied[c] = (IF hw[c] = Firmware THEN None ELSE hw[c])

(* release(): a control loop that has ended, or that follows no channel any *)
(* more, has left none behind in manual mode at a duty nobody regulates.    *)
NothingLeftDriven ==
  pc[Svc] = "off" \/ (pc[Svc] = "top" /\ svcChannel = None) =>
    \A c \in Channels : by[c] = "service" => hw[c] = Firmware

HandedOver == external /\ \A s \in Sessions : pc[s] = "idle"

(* external_command(True): once the hand-over is acknowledged the control   *)
(* loop has ended and nothing would start it again.                         *)
HandOverEndsService ==
  HandedOver => policy = None /\ ~enabled /\ pc[Svc] = "off"

(* restore_boot_state, step(): after a boot in which nobody asked for       *)
(* anything yet, a fan that was handed over -- even if the machine went     *)
(* down in the middle of EXTERNAL ON -- is not touched; a boot that belongs *)
(* to the service sees no replay; and a replay repeats a recorded duty.     *)
BootHasOneOwner ==
  untouched => \A c \in Channels :
    /\ external => hw[c] = Firmware
    /\ enabled /\ policy # None => by[c] # "boot"
    /\ lock = None /\ by[c] = "boot" /\ hw[c] \in Duties => applied[c] = hw[c]

(* A process that had already passed its check may still finish one write   *)
(* after the marker appears; after that the channels stay as they are.      *)
ExternalSettles == <>[]external => <>[][hw' = hw]_vars

SvcDuty(c) == pc[Svc] = "duty" /\ pc'[Svc] = "remember" /\ c \in req[Svc].chans

(* The control loop does not fight a takeover: as long as one stands and    *)
(* nothing is critical, the loop writes that channel at most a finite       *)
(* number of times (the write it had already decided on).                   *)
TakeoverSettles ==
  \A c \in Channels :
    <>[](claim[c] # "none" /\ ~hot) => <>[][~SvcDuty(c)]_vars

(* aplicar_ventilador_persistente_si_corresponde: with the system service   *)
(* following a policy the per-user daemon leaves the fan to it; only the    *)
(* write it had already planned may still come.                             *)
DaemonYields ==
  <>[](enabled /\ policy # None) =>
    <>[][\A s \in Daemons : ~(pc[s] = "duty" /\ pc'[s] = "remember")]_vars

Running(p) == pc[Svc] # "off" /\ ~stopReq /\ policy = p /\ ~external
Following(p) == Running(p) /\ ~hot /\ p.pwm \notin override.channels

(* step(): the saved policy is what the fan ends up at, whatever it was     *)
(* doing before, unless the situation changes first.                        *)
PolicyReached ==
  \A p \in Policy : Following(p) ~> (hw[p.pwm] = p.duty \/ ~Following(p))

(* "Safety outranks whoever took the fan over": with a critical reading     *)
(* the channel gets the failsafe duty even if a user had taken it over.     *)
EmergencyReached ==
  \A p \in Policy :
    (Running(p) /\ hot) ~> (hw[p.pwm] = Failsafe \/ ~(Running(p) /\ hot))

(* Every command is answered: DISABLE and ENABLE wait for the control loop, *)
(* which may itself be waiting for the lock, and nobody waits forever.      *)
CommandsEnd ==
  /\ \A s \in Sessions : pc[s] # "idle" ~> pc[s] = "idle"
  /\ \A d \in Deckies : pc[d] # "idle" ~> pc[d] = "idle"
=============================================================================
