----------------------------- MODULE SpecFactory -----------------------------
(***************************************************************************)
(* The payloads and assertions of lib/helpers.py, as operators, and the    *)
(* rules by which the tests of spec128/ expect a payload to be accepted or *)
(* rejected.                                                               *)
(*                                                                         *)
(* Of a payload there remains what a rule looks at.  Torques are in        *)
(* thousandths, so that every number is an integer.                        *)
(***************************************************************************)
EXTENDS Integers, Sequences, FiniteSets

CONSTANTS
  MaxSteps,  \* MAX_STEPS_PER_SPEC
  MaxPoints  \* MAX_POINT_COUNT

ASSUME LimitsAssumption == MaxSteps \in Nat \ {0} /\ MaxPoints \in Nat \ {0}

Least(a, b)    == IF a < b THEN a ELSE b
Greatest(a, b) == IF a < b THEN b ELSE a

Quantities == {"torque", "vel", "degree", "time"}

Window(min, target, max) == [min |-> min, target |-> target, max |-> max]

-----------------------------------------------------------------------------
(* ScrewSpecFactory.                                                       *)

BaseDetail ==
  [prog_start_valid_step |-> 0, vel_limit_torque_percent |-> 80,
   gyrometer_start_angle |-> 0, gyrometer_stop_angle |-> 0, confirm_cnt |-> 1,
   window |-> [torque |-> Window(250, 325, 400), vel |-> Window(100, 180, 300),
               degree |-> Window(90, 180, 360), time |-> Window(1000, 3000, 5000)]]

BaseStep ==
  [ok_if |-> <<2, 4, 0, 0>>,
   ref |-> [torque |-> 325, vel |-> 180, degree |-> 180, time |-> 3000]]

Payload(detail, prog_cnt, steps) ==
  [detail |-> detail, prog_cnt |-> prog_cnt, steps |-> steps]

Default == Payload(BaseDetail, 1, <<BaseStep>>)

(* Faults a change of the code could introduce, here and below: nothing    *)
(* uses them. *)
ClampNoFloor(n, limit) == Least(n, limit)
Clamp(n, limit) == Greatest(1, Least(n, limit))

WithSteps(step_count) ==
  LET n == Clamp(step_count, MaxSteps)
  IN Payload(BaseDetail, n, [i \in 1 .. n |-> BaseStep])

ComplexStep(i) ==
  [ok_if |-> <<2, 4, 8, 16>>,
   ref |-> [torque |-> 1800 + i * 20, vel |-> 700 + i * 10,
            degree |-> 650 + i * 5, time |-> 1700 + i * 20]]

ComplexDetail ==
  [prog_start_valid_step |-> 1, vel_limit_torque_percent |-> 90,
   gyrometer_start_angle |-> 10, gyrometer_stop_angle |-> 45, confirm_cnt |-> 3,
   window |-> [torque |-> Window(1700, 2000, 2500), vel |-> Window(650, 800, 1000),
               degree |-> Window(640, 720, 820), time |-> Window(1600, 2000, 2500)]]

ComplexFull ==
  Payload(ComplexDetail, MaxSteps, [i \in 1 .. MaxSteps |-> ComplexStep(i - 1)])

(* round(x, 2) *)
Round2(x) == 10 * ((x + 5) \div 10)

(* The limits of a window that random draws: a lower limit and a width,    *)
(* each rounded if it is a torque.                                         *)
Rounded(q, x) == IF q = "torque" THEN Round2(x) ELSE x

LimitsNoSum(q, w) == [min |-> Rounded(q, w.low), max |-> Rounded(q, w.width)]
Limits(q, w) ==
  LET min == Rounded(q, w.low)
  IN [min |-> min, max |-> Rounded(q, min + w.width)]

(* Its third draw falls between them. *)
RandomWindow(q, w) ==
  LET l == Limits(q, w) IN Window(l.min, Rounded(q, l.min + w.offset), l.max)

(* random, by its draws d. *)
RandomSpec(d) ==
  Payload([BaseDetail EXCEPT
             !.confirm_cnt = d.confirm, !.vel_limit_torque_percent = d.percent,
             !.gyrometer_start_angle = d.start_angle, !.gyrometer_stop_angle = d.stop_angle,
             !.window = [q \in Quantities |-> RandomWindow(q, d.window[q])]],
          Len(d.steps), d.steps)

WindowOrdered(w) == w.min <= w.target /\ w.target <= w.max

-----------------------------------------------------------------------------
(* What the tests expect of the backend, rule by rule.                     *)

Flags == 0 .. 15 \* velocity, torque, angle, time: 1, 2, 4, 8

Conditioned(step) == \E k \in 1 .. 4 : step.ok_if[k] # 0

RuleHolds(p) ==
  LET d == p.detail IN
  [step_count |-> Len(p.steps) = p.prog_cnt,
   step_limit |-> Len(p.steps) <= MaxSteps,
   window     |-> \A i \in DOMAIN p.steps, q \in Quantities :
                    p.steps[i].ref[q] <= d.window[q].max,
   exempt     |-> d.prog_start_valid_step < p.prog_cnt,
   percent    |-> d.vel_limit_torque_percent <= 100,
   gyrometer  |-> {d.gyrometer_start_angle, d.gyrometer_stop_angle} \subseteq 0 .. 90,
   confirm    |-> d.confirm_cnt > 0,
   flag       |-> \A i \in DOMAIN p.steps, k \in 1 .. 4 : p.steps[i].ok_if[k] \in Flags,
   condition  |-> \A i \in DOMAIN p.steps :
                    i > d.prog_start_valid_step => Conditioned(p.steps[i])]

Broken(p) == {r \in DOMAIN RuleHolds(p) : ~RuleHolds(p)[r]}

NoCondition == [BaseStep EXCEPT !.ok_if = <<0, 0, 0, 0>>]

(* The tests that expect a rejection: the payload each sends and the rule  *)
(* its name is about.                                                      *)
ComplexFullTest == [rule |-> "flag", payload |-> ComplexFull]

NegativeTests ==
  {[rule |-> "window",
    payload |-> [Default EXCEPT !.detail.window.torque = Window(200, 250, 300),
                                !.steps[1].ref.torque = 310]],
   [rule |-> "window",
    payload |-> [Default EXCEPT !.detail.window.time = Window(100, 200, 250),
                                !.steps[1].ref.time = 260]],
   [rule |-> "exempt",
    payload |-> [WithSteps(2) EXCEPT !.detail.prog_start_valid_step = 2]],
   [rule |-> "percent",
    payload |-> [Default EXCEPT !.detail.vel_limit_torque_percent = 101]],
   [rule |-> "gyrometer",
    payload |-> [Default EXCEPT !.detail.gyrometer_start_angle = 91]],
   [rule |-> "gyrometer",
    payload |-> [Default EXCEPT !.detail.gyrometer_stop_angle = 91]],
   [rule |-> "confirm", payload |-> [Default EXCEPT !.detail.confirm_cnt = 0]],
   ComplexFullTest,
   [rule |-> "condition", payload |-> [Default EXCEPT !.steps = <<NoCondition>>]],
   [rule |-> "condition",
    payload |-> [WithSteps(2) EXCEPT !.steps = <<BaseStep, NoCondition>>]],
   [rule |-> "step_count", payload |-> [Default EXCEPT !.steps = <<>>]],
   [rule |-> "step_count", payload |-> [WithSteps(2) EXCEPT !.steps = <<BaseStep>>]],
   [rule |-> "step_count", payload |-> [Default EXCEPT !.steps = <<BaseStep, BaseStep>>]]}
    \cup {[rule |-> "flag", payload |-> [Default EXCEPT !.steps[1].ok_if[1] = bad]] :
            bad \in {16, 32, 64, 128, 255}}

(* Those that expect success, beside the payloads of default and with_steps. *)
PositiveTests ==
  {[WithSteps(2) EXCEPT !.detail.prog_start_valid_step = 1,
                        !.steps[1] = NoCondition]}
    \cup {[Default EXCEPT !.steps[1].ok_if = f] : f \in {<<2, 0, 0, 0>>, <<1, 2, 4, 8>>}}
    \cup {[Default EXCEPT !.steps[1].ok_if[1] = combo] :
            combo \in {3, 5, 6, 9, 10, 12, 7, 11, 13, 14, 15}}

-----------------------------------------------------------------------------
(* ModuleFactory.                                                          *)

Point(i, spec) == [point_id |-> i - 1, screw_spec |-> spec]

Module(points) == [position_points |-> points, point_count |-> Len(points)]

TakeAll(specs) == specs
Take(specs) == SubSeq(specs, 1, Least(Len(specs), MaxPoints))

Manual(screw_specs) ==
  LET specs == Take(screw_specs)
  IN Module([i \in 1 .. Len(specs) |-> Point(i, specs[i])])

ModuleFits(m) ==
  /\ m.point_count = Len(m.position_points) /\ m.point_count <= MaxPoints
  /\ \A i, j \in DOMAIN m.position_points :
       m.position_points[i].point_id = m.position_points[j].point_id => i = j

TorqueArm(points) == Module([i \in 1 .. Clamp(points, MaxPoints) |-> Point(i, 0)])

-----------------------------------------------------------------------------
(* Assertions.                                                             *)

(* zip stops at the end of the shorter snapshot. *)
ZipEqual(before, after) ==
  \A i \in 1 .. Least(Len(before), Len(after)) : before[i] = after[i]

SnapshotEqual(before, after) ==
  Len(before) = Len(after) /\ ZipEqual(before, after)
=============================================================================
