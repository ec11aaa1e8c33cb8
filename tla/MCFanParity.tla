----------------------------- MODULE MCFanParity -----------------------------
(* Small instances of FanParity: two curves and a preset, with readings     *)
(* inside and outside their hysteresis, deadband and bounded step.          *)
EXTENDS FanParity

CONSTANTS cpu, vrm

MCSensors == {cpu, vrm}
Pt(t, s) == [at |-> t, percent |-> s]
Settings(mode, points, hysteresis, maxDown) ==
  [mode |-> mode, points |-> points, percent |-> 70, failsafe |-> 100,
   hysteresis |-> hysteresis, deadband |-> 2, maxDown |-> maxDown,
   critical |-> [s \in MCSensors |-> IF s = cpu THEN 95 ELSE 105],
   offset |-> [s \in MCSensors |-> IF s = cpu THEN 0 ELSE -5]]

Steep == Settings("curve", <<Pt(50, 60), Pt(54, 72), Pt(60, 100)>>, 2, 10)
Gentle == Settings("curve", <<Pt(46, 50), Pt(54, 58), Pt(60, 70)>>, 1, 5)
Preset == Settings("preset", <<>>, 1, 10)

ThreePolicies == {Steep, Gentle, Preset}
Cpu(t) == [s \in {cpu} |-> t]
Both(t, v) == [s \in MCSensors |-> IF s = cpu THEN t ELSE v]

Readable == {Cpu(t) : t \in 48..61} \cup {Both(50, 58), Both(56, 58), Both(45, 70)}
=============================================================================
