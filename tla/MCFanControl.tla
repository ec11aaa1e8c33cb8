---------------------------- MODULE MCFanControl ----------------------------
(* Small instances of FanControl: two channels, two duties, the requests    *)
(* that matter to the question of each run.                                 *)
EXTENDS FanControl

CONSTANTS c2, c3, lo, hi

MCChannels == {c2, c3}
OneChannel == {c2}
MCDuties == {lo, hi}

P2 == [pwm |-> c2, duty |-> lo]
P2hi == [pwm |-> c2, duty |-> hi]
P3 == [pwm |-> c3, duty |-> lo]

Cmd(op, chans, val, pol) == [op |-> op, chans |-> chans, val |-> val, pol |-> pol]
Plain(op) == Cmd(op, {}, Firmware, None)
Pwm(c, v) == Cmd("PWM", {c}, v, None)
Auto(c) == Cmd("AUTO", {c}, Firmware, None)
Save(p) == Cmd("POLICY", {}, Firmware, p)
Fan(chans, v) == Cmd("fan", chans, v, None)
ResumeCmd == Cmd("resume", {}, Firmware, None)

PolicyFromBoot == {P2}
EitherBoot == {None, P2}
NoRequests == {}

Lifecycle == {Save(P2), Save(P3), Plain("POLICY-CLEAR"), Plain("ENABLE"), Plain("DISABLE"),
              Pwm(c2, hi), Auto(c2)}
HandOvers == {Plain("EXTERNAL ON"), Plain("EXTERNAL OFF"), Save(P2), Pwm(c2, hi)}
Regulated == {Save(P2hi), Plain("ENABLE"), Plain("EXTERNAL ON")}
Sharing == {Pwm(c2, hi), Save(P2), Plain("ENABLE"), Plain("EXTERNAL ON")}

Bank == {Fan({c2, c3}, lo), Fan({c3}, Firmware), ResumeCmd}
WholeBank == {Fan({c2, c3}, lo)}
OneFanLow == {Fan({c2}, lo)}
=============================================================================
