------------------------------ MODULE MCFanLoop ------------------------------
(* Small instances of FanLoop: a steep curve, a preset, and readings on     *)
(* both sides of the hysteresis, the deadband and the critical threshold.   *)
EXTENDS FanLoop

CONSTANTS cpu, vrm

MCSensors == {cpu, vrm}

Pt(t, s) == [at |-> t, percent |-> s]
Settings(mode, points, percent, failsafe, hysteresis) ==
  [mode |-> mode, points |-> points, percent |-> percent, failsafe |-> failsafe,
   hysteresis |-> hysteresis, deadband |-> 2, maxDown |-> 10,
   critical |-> [s \in MCSensors |-> IF s = cpu THEN 95 ELSE 105],
   offset |-> [s \in MCSensors |-> IF s = cpu THEN 0 ELSE -5]]

Steep == Settings("curve", <<Pt(50, 60), Pt(54, 72), Pt(60, 100)>>, 0, 100, 2)
Gentle == Settings("curve", <<Pt(50, 60), Pt(54, 64), Pt(60, 80)>>, 0, 90, 1)
Fixed70 == Settings("fixed", <<>>, 70, 100, 1)

Cpu(t) == [s \in {cpu} |-> t]
Both(t, v) == [s \in MCSensors |-> IF s = cpu THEN t ELSE v]
Blind == [s \in {} |-> 0]

SteepAndFixed == {Steep, Fixed70}
Curves == {Steep, Gentle}
Four == {Blind, Cpu(51), Cpu(60), Cpu(96)}
Rising == {Cpu(50), Cpu(51), Cpu(52), Cpu(54), Cpu(60), Both(50, 58)}
TwoDuties == {30, 100}
AnyHand == TwoDuties \cup {Firmware}
NoDuties == {}
=============================================================================
