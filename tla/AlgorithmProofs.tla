--------------------------- MODULE AlgorithmProofs ---------------------------
(***************************************************************************)
(* Theorems about the operators of SpecFactory, Measurements and IdLists,  *)
(* for every input and not only for those TLC enumerates, and about        *)
(* MCAlgorithms for every value of its bounds.                             *)
(*                                                                         *)
(* A loop of the code is a recursive function here.  Induction is used in  *)
(* the form of a set of numbers that contains 0 and, with each number, the *)
(* next; that the function a loop is defined by exists is proved once      *)
(* (LoopRuns), and each loop is an instance of it.                         *)
(***************************************************************************)
EXTENDS MCAlgorithms, SequenceTheorems, FiniteSetTheorems, WellFoundedInduction, TLAPS

(* Induction and loops.                                                    *)

(* Induction, over a set of numbers. *)
LEMMA Induction ==
  ASSUME NEW S, 0 \in S, \A n \in Nat : n \in S => n + 1 \in S
  PROVE  Nat \subseteq S
<1>. DEFINE R == {ss \in Nat \X Nat : ss[1] < ss[2]}
            B == Nat \ S
<1>1. IsWellFoundedOn(R, Nat)
  BY NatLessThanWellFounded DEF OpToRel
<1>2. SUFFICES ASSUME B # {} PROVE FALSE
  OBVIOUS
<1>3. PICK x \in B : \A y \in B : ~ (<<y, x>> \in R)
  <2>. HIDE DEF R
  <2>1. B \subseteq Nat
    OBVIOUS
  <2>. HIDE DEF B
  <2>. QED  BY <1>1, <1>2, <2>1, WFMin, Zenon
<1>4. x \in Nat /\ x # 0 /\ x \notin S
  OBVIOUS
<1>5. x - 1 \in Nat /\ (x - 1) + 1 = x
  BY <1>4
<1>6. x - 1 \notin S
  BY <1>4, <1>5
<1>7. <<x - 1, x>> \in R
  BY <1>4, <1>5
<1>. QED  BY <1>3, <1>5, <1>6, <1>7

(* The states of a loop of n rounds: it begins with c, and G gives each    *)
(* state from the number of the round and the state before it.             *)
IsRun(f, S, c, n, G) ==
  f \in [0 .. n -> S] /\ f[0] = c /\ \A k \in 1 .. n : f[k] = G[<<k, f[k - 1]>>]

(* A loop whose step is a function of the number of the round and of the   *)
(* state has a run, of any number of rounds.                               *)
LEMMA LoopRuns ==
  ASSUME NEW S, NEW c \in S, NEW n \in Nat, NEW G \in [Nat \X S -> S]
  PROVE  \E f : IsRun(f, S, c, n, G)
<1>. DEFINE Run(m, f) == f[0] = c /\ \A k \in 1 .. m : f[k] = G[<<k, f[k - 1]>>]
            N == {m \in Nat : \E f \in [0 .. m -> S] : Run(m, f)}
<1>1. 0 \in N
  <2>1. [k \in 0 .. 0 |-> c] \in [0 .. 0 -> S] /\ Run(0, [k \in 0 .. 0 |-> c])
    OBVIOUS
  <2>. QED  BY <2>1
<1>2. ASSUME NEW m \in Nat, m \in N
      PROVE  m + 1 \in N
  <2>1. PICK f \in [0 .. m -> S] : Run(m, f)
    BY <1>2
  <2>. DEFINE v == G[<<m + 1, f[m]>>]
              g == [k \in 0 .. m + 1 |-> IF k = m + 1 THEN v ELSE f[k]]
  <2>2. f[m] \in S /\ m + 1 \in Nat
    OBVIOUS
  <2>3. v \in S
    BY <2>2
  <2>. HIDE DEF v
  <2>4. g \in [0 .. m + 1 -> S]
    BY <2>3
  <2>5. \A k \in 0 .. m : g[k] = f[k]
    OBVIOUS
  <2>6. g[m + 1] = v
    OBVIOUS
  <2>7. ASSUME NEW k \in 1 .. m + 1
        PROVE  g[k] = G[<<k, g[k - 1]>>]
    <3>1. CASE k = m + 1
      <4>1. g[k - 1] = f[m]
        BY <3>1, <2>5
      <4>. HIDE DEF g
      <4>. QED  BY <2>6, <3>1, <4>1 DEF v
    <3>2. CASE k \in 1 .. m
      <4>1. g[k] = f[k] /\ g[k - 1] = f[k - 1]
        BY <3>2, <2>5
      <4>. HIDE DEF g
      <4>. QED  BY <2>1, <3>2, <4>1
    <3>. QED  BY <3>1, <3>2
  <2>8. g[0] = c
    BY <2>1, <2>5
  <2>9. Run(m + 1, g)
    BY <2>7, <2>8
  <2>. QED  BY <2>2, <2>4, <2>9
<1>. HIDE DEF N
<1>3. Nat \subseteq N
  BY <1>1, <1>2, Induction
<1>. QED  BY <1>3 DEF N, IsRun

-----------------------------------------------------------------------------
(* The rules of payloads, and the tests that break them.                   *)

(* The names of the rules of RuleHolds.                                    *)
RuleNames == {"step_count", "step_limit", "window", "exempt", "percent", "gyrometer",
              "confirm", "flag", "condition"}

(* The rules a payload of steps that are alike, but for the first, obeys.  *)
LEMMA BrokenRules ==
  ASSUME NEW p, NEW R \in SUBSET RuleNames,
         Len(p.steps) = p.prog_cnt <=> "step_count" \notin R,
         Len(p.steps) <= MaxSteps <=> "step_limit" \notin R,
         (\A i \in DOMAIN p.steps, q \in Quantities :
            p.steps[i].ref[q] <= p.detail.window[q].max) <=> "window" \notin R,
         p.detail.prog_start_valid_step < p.prog_cnt <=> "exempt" \notin R,
         p.detail.vel_limit_torque_percent <= 100 <=> "percent" \notin R,
         ({p.detail.gyrometer_start_angle, p.detail.gyrometer_stop_angle} \subseteq 0 .. 90)
           <=> "gyrometer" \notin R,
         p.detail.confirm_cnt > 0 <=> "confirm" \notin R,
         (\A i \in DOMAIN p.steps, k \in 1 .. 4 : p.steps[i].ok_if[k] \in Flags)
           <=> "flag" \notin R,
         (\A i \in DOMAIN p.steps : i > p.detail.prog_start_valid_step
                                      => Conditioned(p.steps[i])) <=> "condition" \notin R
  PROVE  Broken(p) = R
<1>. DEFINE H == RuleHolds(p)
<1>1. DOMAIN H = RuleNames
  BY DEF RuleHolds, RuleNames
<1>2. /\ H.step_count <=> "step_count" \notin R
      /\ H.step_limit <=> "step_limit" \notin R
      /\ H.window <=> "window" \notin R
      /\ H.exempt <=> "exempt" \notin R
      /\ H.percent <=> "percent" \notin R
      /\ H.gyrometer <=> "gyrometer" \notin R
      /\ H.confirm <=> "confirm" \notin R
      /\ H.flag <=> "flag" \notin R
      /\ H.condition <=> "condition" \notin R
  <2>1. H.step_count <=> "step_count" \notin R
    BY Zenon DEF RuleHolds
  <2>2. H.step_limit <=> "step_limit" \notin R
    BY Zenon DEF RuleHolds
  <2>3. H.window <=> "window" \notin R
    BY Zenon DEF RuleHolds
  <2>4. H.exempt <=> "exempt" \notin R
    BY Zenon DEF RuleHolds
  <2>5. H.percent <=> "percent" \notin R
    BY Zenon DEF RuleHolds
  <2>6. H.gyrometer <=> "gyrometer" \notin R
    BY Zenon DEF RuleHolds
  <2>7. H.confirm <=> "confirm" \notin R
    BY Zenon DEF RuleHolds
  <2>8. H.flag <=> "flag" \notin R
    BY Zenon DEF RuleHolds
  <2>9. H.condition <=> "condition" \notin R
    BY Zenon DEF RuleHolds
  <2>. QED  BY <2>1, <2>2, <2>3, <2>4, <2>5, <2>6, <2>7, <2>8, <2>9
<1>. HIDE DEF H
<1>3. \A r \in RuleNames : H[r] <=> r \notin R
  BY <1>2 DEF RuleNames
<1>4. Broken(p) = {r \in RuleNames : ~H[r]}
  BY <1>1 DEF Broken, H
<1>. QED  BY <1>3, <1>4

(* A payload of one step. *)
LEMMA OneStepRules ==
  ASSUME NEW p, NEW d, NEW s, p.detail = d, p.prog_cnt = 1, p.steps = <<s>>,
         NEW R \in SUBSET (RuleNames \ {"step_count", "step_limit"}),
         (\A q \in Quantities : s.ref[q] <= d.window[q].max) <=> "window" \notin R,
         d.prog_start_valid_step = 0 /\ "exempt" \notin R,
         d.vel_limit_torque_percent <= 100 <=> "percent" \notin R,
         ({d.gyrometer_start_angle, d.gyrometer_stop_angle} \subseteq 0 .. 90)
           <=> "gyrometer" \notin R,
         d.confirm_cnt > 0 <=> "confirm" \notin R,
         (\A k \in 1 .. 4 : s.ok_if[k] \in Flags) <=> "flag" \notin R,
         Conditioned(s) <=> "condition" \notin R
  PROVE  Broken(p) = R
<1>1. p.detail = d /\ p.prog_cnt = 1 /\ p.steps = <<s>>
  OBVIOUS
<1>2. Len(p.steps) = 1 /\ DOMAIN p.steps = {1} /\ p.steps[1] = s
  BY <1>1
<1>3. Len(p.steps) = p.prog_cnt /\ Len(p.steps) <= MaxSteps
  BY <1>1, <1>2, LimitsAssumption
<1>4. (\A i \in DOMAIN p.steps, q \in Quantities :
         p.steps[i].ref[q] <= p.detail.window[q].max) <=> "window" \notin R
  BY <1>1, <1>2
<1>5. /\ p.detail.prog_start_valid_step < p.prog_cnt <=> "exempt" \notin R
      /\ p.detail.vel_limit_torque_percent <= 100 <=> "percent" \notin R
      /\ p.detail.confirm_cnt > 0 <=> "confirm" \notin R
  BY <1>1
<1>6. ({p.detail.gyrometer_start_angle, p.detail.gyrometer_stop_angle} \subseteq 0 .. 90)
           <=> "gyrometer" \notin R
  BY <1>1
<1>7. (\A i \in DOMAIN p.steps, k \in 1 .. 4 : p.steps[i].ok_if[k] \in Flags)
           <=> "flag" \notin R
  BY <1>1, <1>2
<1>8. (\A i \in DOMAIN p.steps : i > p.detail.prog_start_valid_step
                                      => Conditioned(p.steps[i])) <=> "condition" \notin R
  BY <1>1, <1>2
<1>9. R \in SUBSET RuleNames /\ "step_count" \notin R /\ "step_limit" \notin R
  OBVIOUS
<1>10. Broken(p) = R
  BY <1>3, <1>4, <1>5, <1>6, <1>7, <1>8, <1>9, BrokenRules
<1>. QED  BY <1>10

(* What Default is made of, and that it breaks no rule.                    *)
LEMMA BaseFacts ==
  /\ \A q \in Quantities : BaseStep.ref[q] <= BaseDetail.window[q].max
  /\ BaseDetail.prog_start_valid_step = 0
  /\ BaseDetail.vel_limit_torque_percent <= 100
  /\ {BaseDetail.gyrometer_start_angle, BaseDetail.gyrometer_stop_angle} \subseteq 0 .. 90
  /\ BaseDetail.confirm_cnt > 0
  /\ \A k \in 1 .. 4 : BaseStep.ok_if[k] \in Flags
  /\ Conditioned(BaseStep)
  BY DEF BaseStep, BaseDetail, Quantities, Window, Flags, Conditioned

(* A payload of one step that breaks one rule. *)
LEMMA OneRule ==
  ASSUME NEW p, NEW d, NEW s, p.detail = d, p.prog_cnt = 1, p.steps = <<s>>,
         NEW r \in RuleNames \ {"step_count", "step_limit", "exempt"},
         (\A q \in Quantities : s.ref[q] <= d.window[q].max) <=> r # "window",
         d.prog_start_valid_step = 0,
         d.vel_limit_torque_percent <= 100 <=> r # "percent",
         ({d.gyrometer_start_angle, d.gyrometer_stop_angle} \subseteq 0 .. 90)
           <=> r # "gyrometer",
         d.confirm_cnt > 0 <=> r # "confirm",
         (\A k \in 1 .. 4 : s.ok_if[k] \in Flags) <=> r # "flag",
         Conditioned(s) <=> r # "condition"
  PROVE  Broken(p) = {r}
<1>. DEFINE R == {r}
<1>1. /\ R \in SUBSET (RuleNames \ {"step_count", "step_limit"})
      /\ \A x : x \notin R <=> r # x
      /\ "exempt" \notin R
  OBVIOUS
<1>. HIDE DEF R
<1>2. Broken(p) = R
  BY <1>1, OneStepRules
<1>. QED  BY <1>2 DEF R

(* The tests of one step that break a rule by the numbers of their detail. *)
LEMMA DetailTests ==
  /\ Broken([Default EXCEPT !.detail.vel_limit_torque_percent = 101]) = {"percent"}
  /\ Broken([Default EXCEPT !.detail.gyrometer_start_angle = 91]) = {"gyrometer"}
  /\ Broken([Default EXCEPT !.detail.gyrometer_stop_angle = 91]) = {"gyrometer"}
  /\ Broken([Default EXCEPT !.detail.confirm_cnt = 0]) = {"confirm"}
<1>. /\ {"percent", "gyrometer", "confirm"}
          \subseteq RuleNames \ {"step_count", "step_limit", "exempt"}
  BY DEF RuleNames
<1>1. Broken([Default EXCEPT !.detail.vel_limit_torque_percent = 101]) = {"percent"}
  <2>. DEFINE d == [BaseDetail EXCEPT !.vel_limit_torque_percent = 101]
              p == [Default EXCEPT !.detail.vel_limit_torque_percent = 101]
  <2>1. p.detail = d /\ p.prog_cnt = 1 /\ p.steps = <<BaseStep>>
    BY DEF Default, Payload
  <2>2. /\ d.prog_start_valid_step = 0 /\ d.vel_limit_torque_percent = 101
        /\ d.gyrometer_start_angle = BaseDetail.gyrometer_start_angle
        /\ d.gyrometer_stop_angle = BaseDetail.gyrometer_stop_angle
        /\ d.confirm_cnt > 0 /\ d.window = BaseDetail.window
    BY DEF BaseDetail
  <2>. HIDE DEF d, p
  <2>3. Broken(p) = {"percent"}
    BY <2>1, <2>2, BaseFacts, OneRule
  <2>. QED  BY <2>3 DEF p
<1>2. Broken([Default EXCEPT !.detail.gyrometer_start_angle = 91]) = {"gyrometer"}
  <2>. DEFINE d == [BaseDetail EXCEPT !.gyrometer_start_angle = 91]
              p == [Default EXCEPT !.detail.gyrometer_start_angle = 91]
  <2>1. p.detail = d /\ p.prog_cnt = 1 /\ p.steps = <<BaseStep>>
    BY DEF Default, Payload
  <2>2. /\ d.prog_start_valid_step = 0 /\ d.vel_limit_torque_percent <= 100
        /\ d.gyrometer_start_angle = 91
        /\ d.confirm_cnt > 0 /\ d.window = BaseDetail.window
    BY DEF BaseDetail
  <2>3. ~({d.gyrometer_start_angle, d.gyrometer_stop_angle} \subseteq 0 .. 90)
    BY <2>2
  <2>. HIDE DEF d, p
  <2>4. Broken(p) = {"gyrometer"}
    BY <2>1, <2>2, <2>3, BaseFacts, OneRule
  <2>. QED  BY <2>4 DEF p
<1>3. Broken([Default EXCEPT !.detail.gyrometer_stop_angle = 91]) = {"gyrometer"}
  <2>. DEFINE d == [BaseDetail EXCEPT !.gyrometer_stop_angle = 91]
              p == [Default EXCEPT !.detail.gyrometer_stop_angle = 91]
  <2>1. p.detail = d /\ p.prog_cnt = 1 /\ p.steps = <<BaseStep>>
    BY DEF Default, Payload
  <2>2. /\ d.prog_start_valid_step = 0 /\ d.vel_limit_torque_percent <= 100
        /\ d.gyrometer_stop_angle = 91
        /\ d.confirm_cnt > 0 /\ d.window = BaseDetail.window
    BY DEF BaseDetail
  <2>3. ~({d.gyrometer_start_angle, d.gyrometer_stop_angle} \subseteq 0 .. 90)
    BY <2>2
  <2>. HIDE DEF d, p
  <2>4. Broken(p) = {"gyrometer"}
    BY <2>1, <2>2, <2>3, BaseFacts, OneRule
  <2>. QED  BY <2>4 DEF p
<1>4. Broken([Default EXCEPT !.detail.confirm_cnt = 0]) = {"confirm"}
  <2>. DEFINE d == [BaseDetail EXCEPT !.confirm_cnt = 0]
              p == [Default EXCEPT !.detail.confirm_cnt = 0]
  <2>1. p.detail = d /\ p.prog_cnt = 1 /\ p.steps = <<BaseStep>>
    BY DEF Default, Payload
  <2>2. /\ d.prog_start_valid_step = 0 /\ d.vel_limit_torque_percent <= 100
        /\ d.gyrometer_start_angle = BaseDetail.gyrometer_start_angle
        /\ d.gyrometer_stop_angle = BaseDetail.gyrometer_stop_angle
        /\ d.confirm_cnt = 0 /\ d.window = BaseDetail.window
    BY DEF BaseDetail
  <2>. HIDE DEF d, p
  <2>3. Broken(p) = {"confirm"}
    BY <2>1, <2>2, BaseFacts, OneRule
  <2>. QED  BY <2>3 DEF p
<1>. QED  BY <1>1, <1>2, <1>3, <1>4

(* The tests of one step that break the rule of the window, each with its  *)
(* quantity.                                                               *)
LEMMA WindowTests ==
  /\ Broken([Default EXCEPT !.detail.window.torque = Window(200, 250, 300),
                            !.steps[1].ref.torque = 310]) = {"window"}
  /\ Broken([Default EXCEPT !.detail.window.time = Window(100, 200, 250),
                            !.steps[1].ref.time = 260]) = {"window"}
<1>1. Broken([Default EXCEPT !.detail.window.torque = Window(200, 250, 300),
                             !.steps[1].ref.torque = 310]) = {"window"}
  <2>. DEFINE d == [BaseDetail EXCEPT !.window.torque = Window(200, 250, 300)]
              s == [BaseStep EXCEPT !.ref.torque = 310]
              p == [Default EXCEPT !.detail.window.torque = Window(200, 250, 300),
                                   !.steps[1].ref.torque = 310]
  <2>1. p.detail = d /\ p.prog_cnt = 1 /\ p.steps = <<s>>
    BY DEF Default, Payload
  <2>2. /\ d.prog_start_valid_step = 0 /\ d.vel_limit_torque_percent <= 100
        /\ d.gyrometer_start_angle = BaseDetail.gyrometer_start_angle
        /\ d.gyrometer_stop_angle = BaseDetail.gyrometer_stop_angle
        /\ d.confirm_cnt > 0
    BY DEF BaseDetail
  <2>3. d.window["torque"].max = 300 /\ s.ref["torque"] = 310 /\ s.ok_if = BaseStep.ok_if
    BY DEF BaseDetail, BaseStep, Window
  <2>4. ~\A q \in Quantities : s.ref[q] <= d.window[q].max
    <3>1. "torque" \in Quantities /\ ~(310 <= 300)
      BY DEF Quantities
    <3>. HIDE DEF d, s
    <3>. QED  BY <2>3, <3>1
  <2>. HIDE DEF d, s, p
  <2>5. Conditioned(s)
    BY <2>3, BaseFacts DEF Conditioned
  <2>6. "window" \in RuleNames \ {"step_count", "step_limit", "exempt"}
    BY DEF RuleNames
  <2>7. Broken(p) = {"window"}
    BY <2>1, <2>2, <2>3, <2>4, <2>5, <2>6, BaseFacts, OneRule
  <2>. QED  BY <2>7 DEF p
<1>2. Broken([Default EXCEPT !.detail.window.time = Window(100, 200, 250),
                             !.steps[1].ref.time = 260]) = {"window"}
  <2>. DEFINE d == [BaseDetail EXCEPT !.window.time = Window(100, 200, 250)]
              s == [BaseStep EXCEPT !.ref.time = 260]
              p == [Default EXCEPT !.detail.window.time = Window(100, 200, 250),
                                   !.steps[1].ref.time = 260]
  <2>1. p.detail = d /\ p.prog_cnt = 1 /\ p.steps = <<s>>
    BY DEF Default, Payload
  <2>2. /\ d.prog_start_valid_step = 0 /\ d.vel_limit_torque_percent <= 100
        /\ d.gyrometer_start_angle = BaseDetail.gyrometer_start_angle
        /\ d.gyrometer_stop_angle = BaseDetail.gyrometer_stop_angle
        /\ d.confirm_cnt > 0
    BY DEF BaseDetail
  <2>3. d.window["time"].max = 250 /\ s.ref["time"] = 260 /\ s.ok_if = BaseStep.ok_if
    BY DEF BaseDetail, BaseStep, Window
  <2>4. ~\A q \in Quantities : s.ref[q] <= d.window[q].max
    <3>1. "time" \in Quantities /\ ~(260 <= 250)
      BY DEF Quantities
    <3>. HIDE DEF d, s
    <3>. QED  BY <2>3, <3>1
  <2>. HIDE DEF d, s, p
  <2>5. Conditioned(s)
    BY <2>3, BaseFacts DEF Conditioned
  <2>6. "window" \in RuleNames \ {"step_count", "step_limit", "exempt"}
    BY DEF RuleNames
  <2>7. Broken(p) = {"window"}
    BY <2>1, <2>2, <2>3, <2>4, <2>5, <2>6, BaseFacts, OneRule
  <2>. QED  BY <2>7 DEF p
<1>. QED  BY <1>1, <1>2

(* Payloads of one step that differ from Default in the flags of the step. *)
LEMMA FlagRules ==
  ASSUME NEW p, NEW s, p.detail = BaseDetail, p.prog_cnt = 1, p.steps = <<s>>,
         s.ref = BaseStep.ref
  PROVE  /\ (\A k \in 1 .. 4 : s.ok_if[k] \in Flags) /\ Conditioned(s) => Broken(p) = {}
         /\ (~\A k \in 1 .. 4 : s.ok_if[k] \in Flags) /\ Conditioned(s) => Broken(p) = {"flag"}
         /\ (\A k \in 1 .. 4 : s.ok_if[k] \in Flags) /\ ~Conditioned(s)
              => Broken(p) = {"condition"}
<1>1. {} \in SUBSET (RuleNames \ {"step_count", "step_limit"})
      /\ {"flag", "condition"} \subseteq RuleNames \ {"step_count", "step_limit", "exempt"}
  BY DEF RuleNames
<1>2. ASSUME \A k \in 1 .. 4 : s.ok_if[k] \in Flags, Conditioned(s)
      PROVE  Broken(p) = {}
  <2>. DEFINE R == {}
  <2>1. R \in SUBSET (RuleNames \ {"step_count", "step_limit"}) /\ \A r : r \notin R
    BY <1>1
  <2>. HIDE DEF R
  <2>2. Broken(p) = R
    BY <1>2, <2>1, BaseFacts, OneStepRules, SMTT(30)
  <2>. QED  BY <2>2 DEF R
<1>3. ASSUME ~\A k \in 1 .. 4 : s.ok_if[k] \in Flags, Conditioned(s)
      PROVE  Broken(p) = {"flag"}
  BY <1>1, <1>3, BaseFacts, OneRule
<1>4. ASSUME \A k \in 1 .. 4 : s.ok_if[k] \in Flags, ~Conditioned(s)
      PROVE  Broken(p) = {"condition"}
  BY <1>1, <1>4, BaseFacts, OneRule
<1>. QED  BY <1>2, <1>3, <1>4

(* The flags that name no condition, and those that combine some: the      *)
(* tests send one of either.                                               *)
BadFlags == {16, 32, 64, 128, 255}
GoodFlags == {3, 5, 6, 9, 10, 12, 7, 11, 13, 14, 15}

(* The tests of one step that differ from Default in the flags: the bad    *)
(* ones break the rule of flags, the combined ones none.                   *)
LEMMA FlagTests ==
  /\ \A bad \in BadFlags : Broken([Default EXCEPT !.steps[1].ok_if[1] = bad]) = {"flag"}
  /\ Broken([Default EXCEPT !.steps = <<NoCondition>>]) = {"condition"}
  /\ \A f \in {<<2, 0, 0, 0>>, <<1, 2, 4, 8>>} :
       Broken([Default EXCEPT !.steps[1].ok_if = f]) = {}
  /\ \A combo \in GoodFlags : Broken([Default EXCEPT !.steps[1].ok_if[1] = combo]) = {}
  /\ Broken(Default) = {}
<1>1. ASSUME NEW x \in Nat
      PROVE  LET p == [Default EXCEPT !.steps[1].ok_if[1] = x]
             IN /\ x \in Flags => Broken(p) = {}
                /\ x \notin Flags => Broken(p) = {"flag"}
  <2>. DEFINE p == [Default EXCEPT !.steps[1].ok_if[1] = x]
              s == [BaseStep EXCEPT !.ok_if[1] = x]
  <2>1. p.detail = BaseDetail /\ p.prog_cnt = 1 /\ p.steps = <<s>>
    BY DEF Default, Payload
  <2>2. /\ s.ref = BaseStep.ref
        /\ s.ok_if[1] = x /\ s.ok_if[2] = 4 /\ s.ok_if[3] = 0 /\ s.ok_if[4] = 0
    BY DEF BaseStep
  <2>. HIDE DEF p, s
  <2>3. Conditioned(s)
    BY <2>2 DEF Conditioned
  <2>4. (\A k \in 1 .. 4 : s.ok_if[k] \in Flags) <=> x \in Flags
    <3>1. \A k : k \in 1 .. 4 <=> k \in {1, 2, 3, 4}
      OBVIOUS
    <3>2. 0 \in Flags /\ 4 \in Flags
      BY DEF Flags
    <3>. QED  BY <2>2, <3>1, <3>2
  <2>5. (x \in Flags => Broken(p) = {}) /\ (x \notin Flags => Broken(p) = {"flag"})
    BY <2>1, <2>2, <2>3, <2>4, FlagRules
  <2>. QED  BY <2>5 DEF p
<1>2. \A x \in BadFlags : x \in Nat /\ x \notin Flags
  BY DEF BadFlags, Flags
<1>3. \A x \in GoodFlags : x \in Nat /\ x \in Flags
  BY DEF GoodFlags, Flags
<1>4. Broken([Default EXCEPT !.steps = <<NoCondition>>]) = {"condition"}
  <2>. DEFINE p == [Default EXCEPT !.steps = <<NoCondition>>]
  <2>1. p.detail = BaseDetail /\ p.prog_cnt = 1 /\ p.steps = <<NoCondition>>
    BY DEF Default, Payload
  <2>2. NoCondition.ref = BaseStep.ref /\ NoCondition.ok_if = <<0, 0, 0, 0>>
    BY DEF NoCondition, BaseStep
  <2>3. ~Conditioned(NoCondition) /\ \A k \in 1 .. 4 : NoCondition.ok_if[k] \in Flags
    BY <2>2 DEF Conditioned, Flags
  <2>. HIDE DEF p
  <2>4. Broken(p) = {"condition"}
    BY <2>1, <2>2, <2>3, FlagRules
  <2>. QED  BY <2>4 DEF p
<1>5. ASSUME NEW f \in {<<2, 0, 0, 0>>, <<1, 2, 4, 8>>}
      PROVE  Broken([Default EXCEPT !.steps[1].ok_if = f]) = {}
  <2>. DEFINE p == [Default EXCEPT !.steps[1].ok_if = f]
              s == [BaseStep EXCEPT !.ok_if = f]
  <2>1. p.detail = BaseDetail /\ p.prog_cnt = 1 /\ p.steps = <<s>>
    BY DEF Default, Payload
  <2>2. s.ref = BaseStep.ref /\ s.ok_if = f
    BY DEF BaseStep
  <2>3. Conditioned(s) /\ \A k \in 1 .. 4 : s.ok_if[k] \in Flags
    <3>. HIDE DEF s
    <3>. QED  BY <2>2 DEF Conditioned, Flags
  <2>. HIDE DEF p, s
  <2>4. Broken(p) = {}
    BY <2>1, <2>2, <2>3, FlagRules
  <2>. QED  BY <2>4 DEF p
<1>6. Broken(Default) = {}
  <2>1. Default.detail = BaseDetail /\ Default.prog_cnt = 1 /\ Default.steps = <<BaseStep>>
    BY DEF Default, Payload
  <2>. QED  BY <2>1, BaseFacts, FlagRules
<1>. QED  BY <1>1, <1>2, <1>3, <1>4, <1>5, <1>6

(* Payloads of several steps that differ from those of with_steps in the   *)
(* number of steps, in which of them is exempt, and in steps without a     *)
(* condition.                                                              *)
Alike(p) ==
  /\ p.steps \in Seq({BaseStep, NoCondition}) /\ Len(p.steps) <= MaxSteps
  /\ p.detail.window = BaseDetail.window
  /\ p.detail.vel_limit_torque_percent = BaseDetail.vel_limit_torque_percent
  /\ p.detail.gyrometer_start_angle = BaseDetail.gyrometer_start_angle
  /\ p.detail.gyrometer_stop_angle = BaseDetail.gyrometer_stop_angle
  /\ p.detail.confirm_cnt = BaseDetail.confirm_cnt

Breaks(p, R) ==
  /\ R \in SUBSET {"step_count", "exempt", "condition"}
  /\ Len(p.steps) = p.prog_cnt <=> "step_count" \notin R
  /\ p.detail.prog_start_valid_step < p.prog_cnt <=> "exempt" \notin R
  /\ (\A i \in DOMAIN p.steps : i > p.detail.prog_start_valid_step
                                 => p.steps[i] = BaseStep) <=> "condition" \notin R

(* They break the rules these three facts are about, and no other.         *)
LEMMA StepRules ==
  ASSUME NEW p, NEW R, Alike(p), Breaks(p, R)
  PROVE  Broken(p) = R
<1>. USE DEF Alike, Breaks
<1>1. R \in SUBSET RuleNames /\ \A r \in {"step_limit", "window", "percent", "gyrometer",
                                          "confirm", "flag"} : r \notin R
  BY DEF RuleNames
<1>2. NoCondition.ref = BaseStep.ref /\ NoCondition.ok_if = <<0, 0, 0, 0>>
  BY DEF NoCondition, BaseStep
<1>3. ~Conditioned(NoCondition) /\ \A k \in 1 .. 4 : NoCondition.ok_if[k] \in Flags
  BY <1>2 DEF Conditioned, Flags
<1>4. ASSUME NEW i \in DOMAIN p.steps
      PROVE  /\ \A q \in Quantities : p.steps[i].ref[q] <= p.detail.window[q].max
             /\ \A k \in 1 .. 4 : p.steps[i].ok_if[k] \in Flags
             /\ Conditioned(p.steps[i]) <=> p.steps[i] = BaseStep
  <2>1. p.steps[i] = BaseStep \/ p.steps[i] = NoCondition
    OBVIOUS
  <2>. QED  BY <1>2, <1>3, <2>1, BaseFacts
<1>5. (\A i \in DOMAIN p.steps : i > p.detail.prog_start_valid_step
                                   => Conditioned(p.steps[i])) <=> "condition" \notin R
  BY <1>4
<1>6. \A i \in DOMAIN p.steps, q \in Quantities :
        p.steps[i].ref[q] <= p.detail.window[q].max
  BY <1>4
<1>7. \A i \in DOMAIN p.steps, k \in 1 .. 4 : p.steps[i].ok_if[k] \in Flags
  BY <1>4
<1>8. /\ p.detail.vel_limit_torque_percent <= 100
      /\ {p.detail.gyrometer_start_angle, p.detail.gyrometer_stop_angle} \subseteq 0 .. 90
      /\ p.detail.confirm_cnt > 0
  BY BaseFacts
<1>. QED  BY <1>1, <1>5, <1>6, <1>7, <1>8, BrokenRules

(* The tests whose payloads have another number of steps than one, or than *)
(* they say; of the limit of steps they need that it is at least two.      *)
LEMMA StepTests ==
  ASSUME MaxSteps >= 2
  PROVE  /\ Broken([Default EXCEPT !.steps = <<>>]) = {"step_count"}
         /\ Broken([Default EXCEPT !.steps = <<BaseStep, BaseStep>>]) = {"step_count"}
         /\ Broken([WithSteps(2) EXCEPT !.steps = <<BaseStep>>]) = {"step_count"}
         /\ Broken([WithSteps(2) EXCEPT !.detail.prog_start_valid_step = 2]) = {"exempt"}
         /\ Broken([WithSteps(2) EXCEPT !.steps = <<BaseStep, NoCondition>>]) = {"condition"}
         /\ Broken([WithSteps(2) EXCEPT !.detail.prog_start_valid_step = 1,
                                        !.steps[1] = NoCondition]) = {}
<1>1. /\ Default.detail = BaseDetail /\ Default.prog_cnt = 1
      /\ WithSteps(2) = [detail |-> BaseDetail, prog_cnt |-> 2, steps |-> [i \in 1 .. 2 |-> BaseStep]]
  BY LimitsAssumption DEF Default, Payload, WithSteps, Clamp, Greatest, Least
<1>2. BaseDetail.prog_start_valid_step = 0 /\ NoCondition # BaseStep
  <2>1. NoCondition.ok_if = <<0, 0, 0, 0>> /\ BaseStep.ok_if = <<2, 4, 0, 0>>
    BY DEF NoCondition, BaseStep
  <2>2. <<0, 0, 0, 0>>[1] # <<2, 4, 0, 0>>[1]
    OBVIOUS
  <2>. QED  BY <2>1, <2>2, BaseFacts
<1>. DEFINE Plain == {BaseStep, NoCondition}
<1>3. Broken([Default EXCEPT !.steps = <<>>]) = {"step_count"}
  <2>. DEFINE p == [Default EXCEPT !.steps = <<>>]
              R == {"step_count"}
  <2>1. p.detail = BaseDetail /\ p.prog_cnt = 1 /\ p.steps = <<>>
    BY DEF Default, Payload
  <2>. HIDE DEF p
  <2>2. p.steps \in Seq(Plain) /\ Len(p.steps) = 0 /\ DOMAIN p.steps = {}
    BY <2>1
  <2>3. R \in SUBSET {"step_count", "exempt", "condition"} /\ "step_count" \in R
        /\ "exempt" \notin R /\ "condition" \notin R
    OBVIOUS
  <2>. HIDE DEF R
  <2>4. Alike(p)
    BY <1>2, <2>1, <2>2, <2>3, LimitsAssumption DEF Alike
  <2>5. Breaks(p, R)
    BY <1>2, <2>1, <2>2, <2>3 DEF Breaks
  <2>6. Broken(p) = R
    BY <2>4, <2>5, StepRules
  <2>. QED  BY <2>6 DEF p, R
<1>4. Broken([Default EXCEPT !.steps = <<BaseStep, BaseStep>>]) = {"step_count"}
  <2>. DEFINE p == [Default EXCEPT !.steps = <<BaseStep, BaseStep>>]
              R == {"step_count"}
  <2>1. p.detail = BaseDetail /\ p.prog_cnt = 1 /\ p.steps = <<BaseStep, BaseStep>>
    BY DEF Default, Payload
  <2>. HIDE DEF p
  <2>2. p.steps \in Seq(Plain) /\ Len(p.steps) = 2 /\ \A i \in DOMAIN p.steps : p.steps[i] = BaseStep
    BY <2>1
  <2>3. R \in SUBSET {"step_count", "exempt", "condition"} /\ "step_count" \in R
        /\ "exempt" \notin R /\ "condition" \notin R
    OBVIOUS
  <2>. HIDE DEF R
  <2>4. Alike(p)
    BY <1>2, <2>1, <2>2, <2>3, LimitsAssumption DEF Alike
  <2>5. Breaks(p, R)
    BY <1>2, <2>1, <2>2, <2>3 DEF Breaks
  <2>6. Broken(p) = R
    BY <2>4, <2>5, StepRules
  <2>. QED  BY <2>6 DEF p, R
<1>5. Broken([WithSteps(2) EXCEPT !.steps = <<BaseStep>>]) = {"step_count"}
  <2>. DEFINE p == [WithSteps(2) EXCEPT !.steps = <<BaseStep>>]
              R == {"step_count"}
  <2>1. p.detail = BaseDetail /\ p.prog_cnt = 2 /\ p.steps = <<BaseStep>>
    BY <1>1
  <2>. HIDE DEF p
  <2>2. p.steps \in Seq(Plain) /\ Len(p.steps) = 1 /\ \A i \in DOMAIN p.steps : p.steps[i] = BaseStep
    BY <2>1
  <2>3. R \in SUBSET {"step_count", "exempt", "condition"} /\ "step_count" \in R
        /\ "exempt" \notin R /\ "condition" \notin R
    OBVIOUS
  <2>. HIDE DEF R
  <2>4. Alike(p)
    BY <1>2, <2>1, <2>2, <2>3, LimitsAssumption DEF Alike
  <2>5. Breaks(p, R)
    BY <1>2, <2>1, <2>2, <2>3 DEF Breaks
  <2>6. Broken(p) = R
    BY <2>4, <2>5, StepRules
  <2>. QED  BY <2>6 DEF p, R
<1>6. Broken([WithSteps(2) EXCEPT !.detail.prog_start_valid_step = 2]) = {"exempt"}
  <2>. DEFINE p == [WithSteps(2) EXCEPT !.detail.prog_start_valid_step = 2]
              R == {"exempt"}
  <2>1. /\ p.detail = [BaseDetail EXCEPT !.prog_start_valid_step = 2] /\ p.prog_cnt = 2
        /\ p.steps = [i \in 1 .. 2 |-> BaseStep]
    BY <1>1
  <2>. HIDE DEF p
  <2>2. p.steps \in Seq(Plain) /\ Len(p.steps) = 2 /\ \A i \in DOMAIN p.steps : p.steps[i] = BaseStep
    BY <2>1
  <2>3. R \in SUBSET {"step_count", "exempt", "condition"} /\ "step_count" \notin R
        /\ "exempt" \in R /\ "condition" \notin R
    OBVIOUS
  <2>4. /\ p.detail.prog_start_valid_step = 2 /\ p.detail.window = BaseDetail.window
        /\ p.detail.vel_limit_torque_percent = BaseDetail.vel_limit_torque_percent
        /\ p.detail.gyrometer_start_angle = BaseDetail.gyrometer_start_angle
        /\ p.detail.gyrometer_stop_angle = BaseDetail.gyrometer_stop_angle
        /\ p.detail.confirm_cnt = BaseDetail.confirm_cnt
    BY <2>1 DEF BaseDetail
  <2>. HIDE DEF R
  <2>5. Alike(p)
    BY <2>1, <2>2, <2>3, <2>4, LimitsAssumption DEF Alike
  <2>6. Breaks(p, R)
    BY <2>1, <2>2, <2>3, <2>4 DEF Breaks
  <2>7. Broken(p) = R
    BY <2>5, <2>6, StepRules
  <2>. QED  BY <2>7 DEF p, R
<1>7. Broken([WithSteps(2) EXCEPT !.steps = <<BaseStep, NoCondition>>]) = {"condition"}
  <2>. DEFINE p == [WithSteps(2) EXCEPT !.steps = <<BaseStep, NoCondition>>]
              R == {"condition"}
  <2>1. p.detail = BaseDetail /\ p.prog_cnt = 2 /\ p.steps = <<BaseStep, NoCondition>>
    BY <1>1
  <2>. HIDE DEF p
  <2>2. p.steps \in Seq(Plain) /\ Len(p.steps) = 2 /\ 2 \in DOMAIN p.steps
        /\ p.steps[2] # BaseStep
    BY <1>2, <2>1
  <2>3. R \in SUBSET {"step_count", "exempt", "condition"} /\ "step_count" \notin R
        /\ "exempt" \notin R /\ "condition" \in R
    OBVIOUS
  <2>. HIDE DEF R
  <2>4. Alike(p)
    BY <1>2, <2>1, <2>2, <2>3, LimitsAssumption DEF Alike
  <2>5. Breaks(p, R)
    BY <1>2, <2>1, <2>2, <2>3 DEF Breaks
  <2>6. Broken(p) = R
    BY <2>4, <2>5, StepRules
  <2>. QED  BY <2>6 DEF p, R
<1>8. Broken([WithSteps(2) EXCEPT !.detail.prog_start_valid_step = 1,
                                 !.steps[1] = NoCondition]) = {}
  <2>. DEFINE p == [WithSteps(2) EXCEPT !.detail.prog_start_valid_step = 1,
                                       !.steps[1] = NoCondition]
              R == {}
  <2>1. /\ p.detail = [BaseDetail EXCEPT !.prog_start_valid_step = 1] /\ p.prog_cnt = 2
        /\ p.steps = [[i \in 1 .. 2 |-> BaseStep] EXCEPT ![1] = NoCondition]
    BY <1>1
  <2>. HIDE DEF p
  <2>2. p.steps \in Seq(Plain) /\ Len(p.steps) = 2 /\ DOMAIN p.steps = 1 .. 2
        /\ p.steps[2] = BaseStep
    BY <2>1
  <2>3. R \in SUBSET {"step_count", "exempt", "condition"} /\ "step_count" \notin R
        /\ "exempt" \notin R /\ "condition" \notin R
    OBVIOUS
  <2>4. /\ p.detail.prog_start_valid_step = 1 /\ p.detail.window = BaseDetail.window
        /\ p.detail.vel_limit_torque_percent = BaseDetail.vel_limit_torque_percent
        /\ p.detail.gyrometer_start_angle = BaseDetail.gyrometer_start_angle
        /\ p.detail.gyrometer_stop_angle = BaseDetail.gyrometer_stop_angle
        /\ p.detail.confirm_cnt = BaseDetail.confirm_cnt
    BY <2>1 DEF BaseDetail
  <2>5. \A i \in DOMAIN p.steps : i > 1 => p.steps[i] = BaseStep
    BY <2>2
  <2>. HIDE DEF R
  <2>6. Alike(p)
    BY <2>1, <2>2, <2>3, <2>4, <2>5, LimitsAssumption DEF Alike
  <2>7. Breaks(p, R)
    BY <2>1, <2>2, <2>3, <2>4, <2>5 DEF Breaks
  <2>8. Broken(p) = R
    BY <2>6, <2>7, StepRules
  <2>. QED  BY <2>8 DEF p, R
<1>. QED  BY <1>3, <1>4, <1>5, <1>6, <1>7, <1>8

(* The test that sends the full complex payload: its last flag is not one, *)
(* and no reference of its steps leaves its window, as long as there are   *)
(* at most 31 of them.                                                     *)
LEMMA ComplexTest ==
  ASSUME MaxSteps \in 2 .. 31
  PROVE  Broken(ComplexFull) = {"flag"}
<1>. DEFINE p == ComplexFull
            R == {"flag"}
<1>0. MaxSteps \in Nat /\ 2 <= MaxSteps /\ MaxSteps <= 31
  OBVIOUS
<1>1. /\ p.detail = ComplexDetail /\ p.prog_cnt = MaxSteps
      /\ p.steps = [i \in 1 .. MaxSteps |-> ComplexStep(i - 1)]
  BY DEF ComplexFull, Payload
<1>. HIDE DEF p
<1>2. Len(p.steps) = MaxSteps /\ DOMAIN p.steps = 1 .. MaxSteps
  <2>1. DOMAIN p.steps = 1 .. MaxSteps
    BY <1>1
  <2>. QED  BY <1>0, <1>1, <2>1
<1>3. /\ ComplexDetail.prog_start_valid_step = 1
      /\ ComplexDetail.vel_limit_torque_percent <= 100
      /\ {ComplexDetail.gyrometer_start_angle, ComplexDetail.gyrometer_stop_angle}
            \subseteq 0 .. 90
      /\ ComplexDetail.confirm_cnt > 0
      /\ ComplexDetail.window["torque"].max = 2500 /\ ComplexDetail.window["vel"].max = 1000
      /\ ComplexDetail.window["degree"].max = 820 /\ ComplexDetail.window["time"].max = 2500
  BY DEF ComplexDetail, Window
<1>4. ASSUME NEW i \in DOMAIN p.steps
      PROVE  /\ \A q \in Quantities : p.steps[i].ref[q] <= p.detail.window[q].max
             /\ p.steps[i].ok_if[4] \notin Flags
             /\ Conditioned(p.steps[i])
  <2>0. i \in 1 .. MaxSteps
    BY <1>2
  <2>1. p.steps[i] = ComplexStep(i - 1) /\ i - 1 \in 0 .. 30
    <3>1. i - 1 \in 0 .. 30
      BY <1>0, <2>0
    <3>. QED  BY <1>1, <2>0, <3>1
  <2>. DEFINE s == ComplexStep(i - 1)
  <2>2. /\ s.ref["torque"] = 1800 + (i - 1) * 20 /\ s.ref["vel"] = 700 + (i - 1) * 10
        /\ s.ref["degree"] = 650 + (i - 1) * 5 /\ s.ref["time"] = 1700 + (i - 1) * 20
        /\ s.ok_if[1] = 2 /\ s.ok_if[4] = 16
    BY DEF ComplexStep
  <2>. HIDE DEF s
  <2>3. ASSUME NEW q \in Quantities PROVE s.ref[q] <= ComplexDetail.window[q].max
    <3>1. s.ref["torque"] <= 2500 /\ s.ref["vel"] <= 1000
          /\ s.ref["degree"] <= 820 /\ s.ref["time"] <= 2500
      BY <2>1, <2>2
    <3>. QED  BY <1>3, <3>1 DEF Quantities
  <2>4. s.ok_if[4] \notin Flags /\ Conditioned(s)
    BY <2>2 DEF Flags, Conditioned
  <2>. QED  BY <1>1, <2>1, <2>3, <2>4 DEF s
<1>5. 1 \in DOMAIN p.steps
  BY <1>0, <1>2
<1>6. R \in SUBSET RuleNames /\ \A r : r \notin R <=> r # "flag"
  BY DEF RuleNames
<1>. HIDE DEF R
<1>7. ~\A i \in DOMAIN p.steps, k \in 1 .. 4 : p.steps[i].ok_if[k] \in Flags
  BY <1>4, <1>5
<1>8. /\ p.detail.prog_start_valid_step < p.prog_cnt
      /\ p.detail.vel_limit_torque_percent <= 100
      /\ {p.detail.gyrometer_start_angle, p.detail.gyrometer_stop_angle} \subseteq 0 .. 90
      /\ p.detail.confirm_cnt > 0
      /\ Len(p.steps) = p.prog_cnt /\ Len(p.steps) <= MaxSteps
  BY <1>1, <1>2, <1>3
<1>9. \A i \in DOMAIN p.steps, q \in Quantities : p.steps[i].ref[q] <= p.detail.window[q].max
  BY <1>4
<1>10. \A i \in DOMAIN p.steps : i > p.detail.prog_start_valid_step => Conditioned(p.steps[i])
  BY <1>4
<1>11. /\ (\A i \in DOMAIN p.steps, k \in 1 .. 4 : p.steps[i].ok_if[k] \in Flags)
             <=> "flag" \notin R
       /\ \A r \in {"step_count", "step_limit", "window", "exempt", "percent", "gyrometer",
                     "confirm", "condition"} : r \notin R
  BY <1>6, <1>7
<1>12. Broken(p) = R
  BY <1>6, <1>8, <1>9, <1>10, <1>11, BrokenRules
<1>. QED  BY <1>12 DEF p, R

-----------------------------------------------------------------------------
(* The factories and the comparison of snapshots.                          *)

(* A clamped count lies between 1 and its limit. *)
LEMMA ClampInRange ==
  ASSUME NEW n \in Int, NEW limit \in Nat \ {0}
  PROVE  Clamp(n, limit) \in 1 .. limit
  BY DEF Clamp, Greatest, Least

(* with_steps sends a legal payload of 1 to MAX_STEPS_PER_SPEC steps for   *)
(* every count it is asked for: no test can reach the limit through it.    *)
THEOREM WithStepsIsLegal ==
  ASSUME NEW n \in Int
  PROVE  /\ WithSteps(n).prog_cnt \in 1 .. MaxSteps
         /\ Broken(WithSteps(n)) = {}
<1>. DEFINE p == WithSteps(n)
<1>1. PICK c \in 1 .. MaxSteps :
        p = [detail |-> BaseDetail, prog_cnt |-> c, steps |-> [i \in 1 .. c |-> BaseStep]]
  BY ClampInRange, LimitsAssumption DEF WithSteps, Payload
<1>2. p.prog_cnt = c /\ p.detail = BaseDetail /\ p.steps = [i \in 1 .. c |-> BaseStep]
  BY <1>1
<1>3. Len(p.steps) = c /\ \A i \in DOMAIN p.steps : p.steps[i] = BaseStep
  BY <1>1, <1>2, LimitsAssumption
<1>4. \A r \in DOMAIN RuleHolds(p) : RuleHolds(p)[r]
  <2>1. \A q \in Quantities : BaseStep.ref[q] <= BaseDetail.window[q].max
    BY DEF BaseStep, BaseDetail, Quantities, Window
  <2>2. \A k \in 1 .. 4 : BaseStep.ok_if[k] \in Flags
    BY DEF BaseStep, Flags
  <2>3. Conditioned(BaseStep)
    BY DEF BaseStep, Conditioned
  <2>4. /\ BaseDetail.prog_start_valid_step = 0
        /\ BaseDetail.vel_limit_torque_percent = 80
        /\ BaseDetail.gyrometer_start_angle = 0 /\ BaseDetail.gyrometer_stop_angle = 0
        /\ BaseDetail.confirm_cnt = 1
    BY DEF BaseDetail
  <2>. HIDE DEF p
  <2>5. c \in Nat /\ 1 <= c /\ c <= MaxSteps
    BY LimitsAssumption
  <2>6. \A i \in DOMAIN p.steps, q \in Quantities :
          p.steps[i].ref[q] <= p.detail.window[q].max
    BY <1>2, <1>3, <2>1
  <2>7. {BaseDetail.gyrometer_start_angle, BaseDetail.gyrometer_stop_angle}
          \subseteq 0 .. 90
    BY <2>4
  <2>8. \A i \in DOMAIN p.steps, k \in 1 .. 4 : p.steps[i].ok_if[k] \in Flags
    BY <1>3, <2>2
  <2>9. \A i \in DOMAIN p.steps :
          i > p.detail.prog_start_valid_step => Conditioned(p.steps[i])
    BY <1>3, <2>3
  <2>10. RuleHolds(p).step_count /\ RuleHolds(p).step_limit
    BY <1>2, <1>3, <2>5 DEF RuleHolds
  <2>11. RuleHolds(p).window /\ RuleHolds(p).flag /\ RuleHolds(p).condition
    BY <2>6, <2>8, <2>9 DEF RuleHolds
  <2>12. RuleHolds(p).exempt /\ RuleHolds(p).percent /\ RuleHolds(p).confirm
    <3>1. /\ p.detail.prog_start_valid_step < p.prog_cnt
          /\ p.detail.vel_limit_torque_percent <= 100
          /\ p.detail.confirm_cnt > 0
      BY <1>2, <2>4, <2>5
    <3>. QED  BY <3>1 DEF RuleHolds
  <2>13. RuleHolds(p).gyrometer
    <3>1. RuleHolds(p).gyrometer
            = ({p.detail.gyrometer_start_angle, p.detail.gyrometer_stop_angle}
                 \subseteq 0 .. 90)
      BY DEF RuleHolds
    <3>. QED  BY <1>2, <2>7, <3>1
  <2>14. DOMAIN RuleHolds(p) = {"step_count", "step_limit", "window", "exempt", "percent",
                                "gyrometer", "confirm", "flag", "condition"}
    BY DEF RuleHolds
  <2>. QED  BY <2>10, <2>11, <2>12, <2>13, <2>14
<1>. QED  BY <1>1, <1>2, <1>4 DEF Broken

(* Rounding keeps the order, and leaves what is rounded as it is. *)
LEMMA RoundedInOrder ==
  ASSUME NEW q \in Quantities, NEW x \in Int, NEW y \in Int, x <= y
  PROVE  /\ Rounded(q, x) \in Int
         /\ Rounded(q, x) <= Rounded(q, y)
         /\ Rounded(q, Rounded(q, x)) = Rounded(q, x)
  BY DEF Rounded, Round2

(* The windows of random are ordered whatever it draws: the two roundings  *)
(* of a torque neither cross the limits nor push the target out of them.   *)
THEOREM RandomWindowIsOrdered ==
  ASSUME NEW q \in Quantities,
         NEW w \in [low : Int, width : Nat, offset : Nat],
         w.offset <= Limits(q, w).max - Limits(q, w).min
  PROVE  WindowOrdered(RandomWindow(q, w))
<1>. DEFINE l == Limits(q, w)
            target == Rounded(q, l.min + w.offset)
<1>1. l.min = Rounded(q, w.low) /\ l.max = Rounded(q, l.min + w.width)
  BY DEF Limits
<1>2. l.min \in Int /\ l.max \in Int
  BY <1>1, RoundedInOrder
<1>3. l.min <= l.min + w.offset /\ l.min + w.offset <= l.max
  BY <1>2
<1>4. Rounded(q, l.min) = l.min /\ Rounded(q, l.max) = l.max
  BY <1>1, <1>2, RoundedInOrder
<1>5. l.min <= target /\ target <= l.max
  BY <1>2, <1>3, <1>4, RoundedInOrder
<1>. QED  BY <1>5 DEF RandomWindow, WindowOrdered, Window

(* A sequence of points, each with its place as its id, makes a module. *)
LEMMA PointsFit ==
  ASSUME NEW n \in 0 .. MaxPoints, NEW points,
         Len(points) = n, DOMAIN points = 1 .. n,
         \A i \in 1 .. n : points[i].point_id = i - 1
  PROVE  ModuleFits(Module(points))
<1>1. Module(points).position_points = points /\ Module(points).point_count = n
  BY DEF Module
<1>. QED  BY <1>1, LimitsAssumption DEF ModuleFits

(* A module made of any list of specifications, and a torque-arm module of *)
(* any number of points, keep MAX_POINT_COUNT, count their points right    *)
(* and give each an id of its own.                                         *)
THEOREM EveryModuleFits ==
  ASSUME NEW S, NEW specs \in Seq(S), NEW n \in Int
  PROVE  ModuleFits(Manual(specs)) /\ ModuleFits(TorqueArm(n))
<1>1. Len(Take(specs)) \in 0 .. MaxPoints
  BY LimitsAssumption DEF Take, Least
<1>2. Clamp(n, MaxPoints) \in 0 .. MaxPoints
  BY ClampInRange, LimitsAssumption
<1>3. ModuleFits(Manual(specs))
  <2>. DEFINE taken  == Take(specs)
              points == [i \in 1 .. Len(taken) |-> Point(i, taken[i])]
  <2>1. Len(points) = Len(taken) /\ DOMAIN points = 1 .. Len(taken)
    BY <1>1
  <2>2. \A i \in 1 .. Len(taken) : points[i].point_id = i - 1
    BY DEF Point
  <2>3. ModuleFits(Module(points))
    <3>. HIDE DEF points, taken
    <3>. QED  BY <1>1, <2>1, <2>2, PointsFit DEF taken
  <2>. QED  BY <2>3 DEF Manual
<1>4. ModuleFits(TorqueArm(n))
  <2>. DEFINE c == Clamp(n, MaxPoints)
              points == [i \in 1 .. c |-> Point(i, 0)]
  <2>1. Len(points) = c /\ DOMAIN points = 1 .. c
    BY <1>2
  <2>2. \A i \in 1 .. c : points[i].point_id = i - 1
    BY DEF Point
  <2>3. ModuleFits(Module(points))
    <3>. HIDE DEF points, c
    <3>. QED  BY <1>2, <2>1, <2>2, PointsFit DEF c
  <2>. QED  BY <2>3 DEF TorqueArm
<1>. QED  BY <1>3, <1>4

(* assert_snapshot_equal tells any two snapshots apart: zip alone would    *)
(* not, but the lengths are compared before it cuts the longer one off.    *)
THEOREM SnapshotsAreCompared ==
  ASSUME NEW S, NEW before \in Seq(S), NEW after \in Seq(S)
  PROVE  SnapshotEqual(before, after) <=> before = after
<1>1. ASSUME SnapshotEqual(before, after)
      PROVE  before = after
  <2>1. Len(before) = Len(after) /\ \A i \in 1 .. Len(before) : before[i] = after[i]
    BY <1>1 DEF SnapshotEqual, ZipEqual, Least
  <2>. QED  BY <2>1, SeqEqual
<1>2. SnapshotEqual(before, before)
  BY DEF SnapshotEqual, ZipEqual, Least
<1>. QED  BY <1>1, <1>2

(* What random can draw.                                                   *)
Drawn(d) ==
  /\ Len(d.steps) \in 1 .. MaxSteps /\ d.confirm \in Nat \ {0} /\ d.percent \in 0 .. 100
  /\ d.start_angle \in 0 .. 30 /\ d.stop_angle \in 0 .. 90
  /\ \A q \in Quantities :
       /\ d.window[q] \in [low : Int, width : Nat, offset : Nat]
       /\ d.window[q].offset <= Limits(q, d.window[q]).max - Limits(q, d.window[q]).min

(* What random draws breaks no rule but those of the references, flags and *)
(* conditions, which it draws without regard to the windows, and its       *)
(* windows are ordered: for everything it can draw.                        *)
THEOREM RandomIsOrdered ==
  ASSUME NEW d, Drawn(d)
  PROVE  /\ \A q \in Quantities : WindowOrdered(RandomSpec(d).detail.window[q])
         /\ Broken(RandomSpec(d)) \subseteq {"window", "flag", "condition"}
<1>. DEFINE p == RandomSpec(d)
<1>1. /\ p.prog_cnt = Len(d.steps) /\ p.steps = d.steps
      /\ p.detail.prog_start_valid_step = 0
      /\ p.detail.vel_limit_torque_percent = d.percent
      /\ p.detail.gyrometer_start_angle = d.start_angle
      /\ p.detail.gyrometer_stop_angle = d.stop_angle
      /\ p.detail.confirm_cnt = d.confirm
      /\ p.detail.window = [q \in Quantities |-> RandomWindow(q, d.window[q])]
  BY DEF RandomSpec, Payload, BaseDetail
<1>. HIDE DEF p
<1>2. /\ Len(d.steps) \in Nat /\ 1 <= Len(d.steps) /\ Len(d.steps) <= MaxSteps
      /\ d.confirm > 0 /\ d.percent <= 100
      /\ d.start_angle \in 0 .. 90 /\ d.stop_angle \in 0 .. 90
  <2>1. /\ Len(d.steps) \in 1 .. MaxSteps /\ d.confirm \in Nat \ {0} /\ d.percent \in 0 .. 100
        /\ d.start_angle \in 0 .. 30 /\ d.stop_angle \in 0 .. 90
    BY DEF Drawn
  <2>. DEFINE c == Len(d.steps)
  <2>2. c \in 1 .. MaxSteps
    BY <2>1
  <2>. HIDE DEF c
  <2>3. c \in Nat /\ 1 <= c /\ c <= MaxSteps
    BY <2>2, LimitsAssumption
  <2>4. d.confirm > 0 /\ d.percent <= 100
    <3>1. (\A i \in Nat \ {0} : i > 0) /\ \A i \in 0 .. 100 : i <= 100
      OBVIOUS
    <3>. QED  BY <2>1, <3>1, Zenon
  <2>5. d.start_angle \in 0 .. 90 /\ d.stop_angle \in 0 .. 90
    BY <2>1
  <2>. QED  BY <2>3, <2>4, <2>5, Zenon DEF c
<1>3. \A q \in Quantities : WindowOrdered(p.detail.window[q])
  <2>. SUFFICES ASSUME NEW q \in Quantities PROVE WindowOrdered(p.detail.window[q])
    OBVIOUS
  <2>1. WindowOrdered(RandomWindow(q, d.window[q]))
    BY RandomWindowIsOrdered DEF Drawn
  <2>. QED  BY <1>1, <2>1
<1>4. Len(p.steps) = p.prog_cnt
  BY <1>1
<1>5. RuleHolds(p).step_count /\ RuleHolds(p).step_limit
  BY <1>1, <1>2, <1>4 DEF RuleHolds
<1>6. RuleHolds(p).exempt /\ RuleHolds(p).percent /\ RuleHolds(p).confirm
  <2>1. /\ p.detail.prog_start_valid_step < p.prog_cnt
        /\ p.detail.vel_limit_torque_percent <= 100 /\ p.detail.confirm_cnt > 0
    BY <1>1, <1>2
  <2>. QED  BY <2>1 DEF RuleHolds
<1>7. RuleHolds(p).gyrometer
  <2>1. {p.detail.gyrometer_start_angle, p.detail.gyrometer_stop_angle} \subseteq 0 .. 90
    BY <1>1, <1>2
  <2>. QED  BY <2>1 DEF RuleHolds
<1>8. DOMAIN RuleHolds(p) = RuleNames
  BY DEF RuleHolds, RuleNames
<1>9. Broken(p) \subseteq {"window", "flag", "condition"}
  <2>. DEFINE H == RuleHolds(p)
  <2>1. \A r \in Broken(p) : r \in RuleNames /\ ~H[r]
    BY <1>8 DEF Broken
  <2>2. /\ H["step_count"] /\ H["step_limit"] /\ H["exempt"] /\ H["percent"]
        /\ H["confirm"] /\ H["gyrometer"]
    BY <1>5, <1>6, <1>7
  <2>. HIDE DEF H
  <2>. QED  BY <2>1, <2>2 DEF RuleNames
<1>. QED  BY <1>3, <1>9 DEF p

-----------------------------------------------------------------------------
(* The performance tracker.                                                *)

(* Records of the names in N.                                              *)
Records(N) == [name : N, elapsed_ms : Nat, passed : BOOLEAN]

(* Record j of b is the last one of this name.                             *)
LastOf(b, name, j) == b[j].name = name /\ \A l \in j + 1 .. Len(b) : b[l].name # name

(* The baseline of a name is what its last record says, and there is one   *)
(* if there is a record of it.                                             *)
LEMMA BaselineIsLast ==
  ASSUME NEW N, NEW b \in Seq(Records(N)), NEW name, Named(b, name) # {}
  PROVE  \E j \in DOMAIN b :
           /\ LastOf(b, name, j) /\ Baseline(b, name) = b[j].elapsed_ms
           /\ \A i \in DOMAIN b : LastOf(b, name, i) => i = j
<1>. DEFINE n == Len(b)
            S == Named(b, name)
            last == CHOOSE i \in S : \A j \in S : j <= i
<1>1. n \in Nat /\ DOMAIN b = 1 .. n /\ S \subseteq 1 .. n
  BY DEF Named
<1>. HIDE DEF n, S
<1>2. \E i \in S : \A j \in S : j <= i
  <2>. DEFINE A == {d \in Nat : (\E i \in S : i + d >= n) => \E i \in S : \A j \in S : j <= i}
  <2>1. 0 \in A
    BY <1>1
  <2>2. ASSUME NEW d \in Nat, d \in A PROVE d + 1 \in A
    <3>. SUFFICES ASSUME NEW i \in S, i + (d + 1) >= n
                  PROVE  \E k \in S : \A j \in S : j <= k
      OBVIOUS
    <3>1. CASE \E k \in S : k + d >= n
      BY <2>2, <3>1
    <3>2. CASE ~\E k \in S : k + d >= n
      <4>1. \A j \in S : j <= i
        BY <1>1, <3>2
      <4>. QED  BY <4>1
    <3>. QED  BY <3>1, <3>2
  <2>3. Nat \subseteq A
    <3>. HIDE DEF A
    <3>. QED  BY <2>1, <2>2, Induction
  <2>4. PICK i \in S : TRUE
    BY DEF S
  <2>5. i + n >= n /\ n \in A
    <3>. HIDE DEF A
    <3>. QED  BY <1>1, <2>3
  <2>. QED  BY <2>5
<1>3. last \in S /\ \A j \in S : j <= last
  <2>. HIDE DEF S
  <2>. QED  BY <1>2
<1>4. Baseline(b, name) = b[last].elapsed_ms
  BY DEF Baseline, S
<1>. HIDE DEF last
<1>5. \A i \in 1 .. n : i \in S <=> b[i].name = name
  BY <1>1 DEF S, Named
<1>6. LastOf(b, name, last)
  <2>1. \A l \in last + 1 .. n : l \in 1 .. n /\ ~(l <= last)
    BY <1>1, <1>3
  <2>. QED  BY <1>1, <1>3, <1>5, <2>1 DEF LastOf, n
<1>7. ASSUME NEW i \in DOMAIN b, LastOf(b, name, i) PROVE i = last
  <2>1. i \in S /\ i \in 1 .. n /\ i <= last /\ last \in 1 .. n
    BY <1>1, <1>3, <1>5, <1>7 DEF LastOf
  <2>2. last \notin i + 1 .. n
    BY <1>1, <1>3, <1>5, <1>7 DEF LastOf, n
  <2>. QED  BY <1>1, <2>1, <2>2
<1>. QED  BY <1>1, <1>3, <1>4, <1>6, <1>7

(* What the loop of compare_with_baseline keeps.                           *)
CompareState == [told : SUBSET Nat, raised : BOOLEAN]
CompareInit == [told |-> {}, raised |-> FALSE]

(* v is what the loop has after each record. *)
Compares(r, b, v) ==
  /\ v \in [0 .. Len(r) -> CompareState] /\ v[0] = CompareInit
  /\ \A k \in 1 .. Len(r) : v[k] = CompareOne(v[k - 1], k, r[k], b)
  /\ Compare(r, b) = v[Len(r)]

(* A round leads from one such state to another.                           *)
LEMMA CompareType ==
  ASSUME NEW s \in CompareState, NEW k \in Nat, NEW rec, NEW b
  PROVE  CompareOne(s, k, rec, b) \in CompareState
<1>1. s.told \cup {k} \in SUBSET Nat /\ s.told \in SUBSET Nat
  BY DEF CompareState
<1>2. /\ [told |-> s.told, raised |-> TRUE] \in CompareState
      /\ [told |-> s.told \cup {k}, raised |-> FALSE] \in CompareState
  BY <1>1 DEF CompareState
<1>. QED  BY <1>2 DEF CompareOne

(* The rounds of the loop exist, one for each record.                      *)
LEMMA CompareLoop ==
  ASSUME NEW N, NEW r \in Seq(Records(N)), NEW b
  PROVE  \E v : Compares(r, b, v)
<1>. DEFINE n == Len(r)
            G == [p \in Nat \X CompareState |-> CompareOne(p[2], p[1], r[p[1]], b)]
            Body(f, k) == IF k = 0 THEN CompareInit ELSE CompareOne(f[k - 1], k, r[k], b)
            Loop(f) == f = [k \in 0 .. n |-> Body(f, k)]
<1>1. n \in Nat
  OBVIOUS
<1>2. CompareInit \in CompareState
  BY DEF CompareInit, CompareState
<1>3. Compare(r, b) = (CHOOSE f : Loop(f))[n]
  BY Zenon DEF Compare, CompareInit
<1>. HIDE DEF n
<1>4. G \in [Nat \X CompareState -> CompareState]
  <2>. SUFFICES ASSUME NEW p \in Nat \X CompareState
                PROVE  CompareOne(p[2], p[1], r[p[1]], b) \in CompareState
    BY Zenon
  <2>. QED  BY CompareType
<1>5. PICK f : IsRun(f, CompareState, CompareInit, n, G)
  <2>. HIDE DEF G
  <2>. QED  BY <1>1, <1>2, <1>4, LoopRuns, Zenon
<1>6. f \in [0 .. n -> CompareState] /\ f[0] = CompareInit
  BY <1>5 DEF IsRun
<1>7. ASSUME NEW k \in 1 .. n
      PROVE  f[k] = CompareOne(f[k - 1], k, r[k], b)
  <2>1. f[k] = G[<<k, f[k - 1]>>]
    BY <1>5 DEF IsRun
  <2>2. <<k, f[k - 1]>> \in Nat \X CompareState
    <3>. HIDE DEF G
    <3>. QED  BY <1>1, <1>6
  <2>. QED  BY <2>1, <2>2
<1>8. Loop(f)
  <2>1. ASSUME NEW k \in 0 .. n PROVE f[k] = Body(f, k)
    <3>1. k # 0 => k \in 1 .. n
      BY <1>1
    <3>. QED  BY <1>6, <1>7, <3>1
  <2>2. f = [k \in 0 .. n |-> f[k]]
    BY <1>6
  <2>. HIDE DEF Body
  <2>. QED  BY <2>1, <2>2
<1>. DEFINE v == CHOOSE h : Loop(h)
<1>9. Loop(v)
  <2>. HIDE DEF Loop
  <2>. QED  BY <1>8, Zenon
<1>10. Compare(r, b) = v[n]
  BY <1>3
<1>. HIDE DEF v
<1>11. v = [k \in 0 .. n |-> v[k]] /\ \A k \in 0 .. n : v[k] = Body(v, k)
  <2>. HIDE DEF Body
  <2>. QED  BY <1>9
<1>12. \A k \in 0 .. n : v[k] = f[k]
  <2>. DEFINE A == {k \in Nat : k <= n => v[k] = f[k]}
  <2>1. 0 \in A
    <3>1. 0 \in 0 .. n
      BY <1>1
    <3>2. v[0] = Body(v, 0)
      <4>. HIDE DEF Body
      <4>. QED  BY <1>11, <3>1
    <3>. QED  BY <1>6, <3>2
  <2>2. ASSUME NEW k \in Nat, k \in A PROVE k + 1 \in A
    <3>. SUFFICES ASSUME k + 1 <= n PROVE v[k + 1] = f[k + 1]
      OBVIOUS
    <3>1. k + 1 \in 1 .. n /\ k + 1 \in 0 .. n /\ (k + 1) - 1 = k /\ k + 1 # 0 /\ k <= n
      BY <1>1
    <3>2. v[k + 1] = Body(v, k + 1)
      <4>. HIDE DEF Body
      <4>. QED  BY <1>11, <3>1
    <3>3. v[k] = f[k]
      BY <2>2, <3>1
    <3>4. f[k + 1] = CompareOne(f[k], k + 1, r[k + 1], b)
      BY <1>7, <3>1
    <3>. QED  BY <3>1, <3>2, <3>3, <3>4
  <2>3. Nat \subseteq A
    <3>. HIDE DEF A
    <3>. QED  BY <2>1, <2>2, Induction
  <2>. QED  BY <1>1, <2>3
<1>13. v = f
  BY <1>6, <1>11, <1>12
<1>. QED  BY <1>6, <1>7, <1>10, <1>13 DEF Compares, n

(* Record i of r took more than one and a half times as long as the last   *)
(* of its name in b; it took some time, and that one none.                 *)
Beyond(r, b, i) ==
  \E j \in DOMAIN b :
    LastOf(b, r[i].name, j) /\ 2 * r[i].elapsed_ms > 3 * b[j].elapsed_ms
FailsOn(r, b, i) ==
  \E j \in DOMAIN b :
    LastOf(b, r[i].name, j) /\ b[j].elapsed_ms = 0 /\ r[i].elapsed_ms > 0

(* A round tells of its record, or fails on it, or leaves all as it is.    *)
LEMMA CompareStep ==
  ASSUME NEW N, NEW r \in Seq(Records(N)), NEW b \in Seq(Records(N)),
         NEW k \in 1 .. Len(r), NEW s \in CompareState
  PROVE  /\ (s.raised \/ ~Beyond(r, b, k)) => CompareOne(s, k, r[k], b) = s
         /\ (~s.raised /\ FailsOn(r, b, k)) => CompareOne(s, k, r[k], b).raised
         /\ (~s.raised /\ Beyond(r, b, k) /\ ~FailsOn(r, b, k)) =>
              CompareOne(s, k, r[k], b) = [told |-> s.told \cup {k}, raised |-> FALSE]
         /\ FailsOn(r, b, k) => Beyond(r, b, k)
<1>. DEFINE name == r[k].name
            ms == r[k].elapsed_ms
<1>1. ms \in Nat /\ \A j \in DOMAIN b : b[j].elapsed_ms \in Nat
  <2>1. \A rec \in Records(N) : rec.elapsed_ms \in Nat
    BY DEF Records
  <2>2. r[k] \in Records(N) /\ \A j \in DOMAIN b : b[j] \in Records(N)
    OBVIOUS
  <2>. QED  BY <2>1, <2>2
<1>2. CASE Named(b, name) = {}
  <2>1. \A j \in DOMAIN b : ~LastOf(b, name, j)
    BY <1>2 DEF Named, LastOf
  <2>2. ~Beyond(r, b, k) /\ ~FailsOn(r, b, k)
    BY <2>1 DEF Beyond, FailsOn
  <2>. QED  BY <1>2, <2>2 DEF CompareOne
<1>3. CASE Named(b, name) # {}
  <2>. HIDE DEF name
  <2>1. PICK j \in DOMAIN b :
          /\ LastOf(b, name, j) /\ Baseline(b, name) = b[j].elapsed_ms
          /\ \A i \in DOMAIN b : LastOf(b, name, i) => i = j
    BY <1>3, BaselineIsLast
  <2>. DEFINE base == b[j].elapsed_ms
  <2>2. base \in Nat
    BY <1>1
  <2>3. Beyond(r, b, k) <=> 2 * ms > 3 * base
    BY <2>1 DEF Beyond, name
  <2>4. FailsOn(r, b, k) <=> base = 0 /\ ms > 0
    BY <2>1 DEF FailsOn, name
  <2>5. CompareOne(s, k, r[k], b) =
          IF s.raised \/ ~(2 * ms > 3 * base) THEN s
          ELSE IF base = 0 THEN [told |-> s.told, raised |-> TRUE]
          ELSE [told |-> s.told \cup {k}, raised |-> FALSE]
    <3>1. Slower(ms, base) <=> 2 * ms > 3 * base
      BY DEF Slower
    <3>2. Named(b, r[k].name) # {} /\ Baseline(b, r[k].name) = base
      BY <1>3, <2>1 DEF name
    <3>. HIDE DEF base
    <3>. QED  BY <3>1, <3>2, Zenon DEF CompareOne, ms
  <2>. HIDE DEF base, ms
  <2>6. /\ base = 0 /\ ms > 0 => 2 * ms > 3 * base
        /\ base = 0 /\ 2 * ms > 3 * base => ms > 0
    BY <1>1, <2>2
  <2>. QED  BY <2>3, <2>4, <2>5, <2>6
<1>. QED  BY <1>2, <1>3

(* compare_with_baseline tells of all that got slower, by more than half   *)
(* of the last measurement of the name, and fails on a baseline of zero    *)
(* only.                                                                   *)
THEOREM ComparisonTells ==
  ASSUME NEW N, NEW r \in Seq(Records(N)), NEW b \in Seq(Records(N))
  PROVE  /\ Compare(r, b).raised <=> \E i \in DOMAIN r : FailsOn(r, b, i)
         /\ ~Compare(r, b).raised => Compare(r, b).told = {i \in DOMAIN r : Beyond(r, b, i)}
<1>. DEFINE n == Len(r)
            Right(s, k) == /\ s.raised <=> \E i \in 1 .. k : FailsOn(r, b, i)
                           /\ ~s.raised => s.told = {i \in 1 .. k : Beyond(r, b, i)}
<1>1. n \in Nat /\ DOMAIN r = 1 .. n
  OBVIOUS
<1>2. PICK v : Compares(r, b, v)
  BY CompareLoop
<1>3. /\ v \in [0 .. n -> CompareState] /\ v[0] = CompareInit
      /\ \A k \in 1 .. n : v[k] = CompareOne(v[k - 1], k, r[k], b)
      /\ Compare(r, b) = v[n]
  BY <1>2 DEF Compares
<1>. HIDE DEF n
<1>. DEFINE A == {k \in Nat : k <= n => Right(v[k], k)}
<1>4. 0 \in A
  <2>1. CompareInit.told = {} /\ CompareInit.raised = FALSE
    BY DEF CompareInit
  <2>2. 1 .. 0 = {}
    OBVIOUS
  <2>. QED  BY <1>3, <2>1, <2>2
<1>5. ASSUME NEW k \in Nat, k \in A PROVE k + 1 \in A
  <2>. SUFFICES ASSUME k + 1 <= n PROVE Right(v[k + 1], k + 1)
    OBVIOUS
  <2>1. k + 1 \in 1 .. n /\ k \in 0 .. n /\ k <= n /\ (k + 1) - 1 = k
    BY <1>1
  <2>2. Right(v[k], k) /\ v[k] \in CompareState
        /\ v[k + 1] = CompareOne(v[k], k + 1, r[k + 1], b)
    BY <1>3, <1>5, <2>1
  <2>3. \A i : i \in 1 .. k + 1 <=> (i \in 1 .. k \/ i = k + 1)
    OBVIOUS
  <2>. DEFINE s == v[k]
  <2>. HIDE DEF s, A
  <2>4. /\ (s.raised \/ ~Beyond(r, b, k + 1)) => v[k + 1] = s
        /\ (~s.raised /\ FailsOn(r, b, k + 1)) => v[k + 1].raised
        /\ (~s.raised /\ Beyond(r, b, k + 1) /\ ~FailsOn(r, b, k + 1)) =>
             v[k + 1] = [told |-> s.told \cup {k + 1}, raised |-> FALSE]
        /\ FailsOn(r, b, k + 1) => Beyond(r, b, k + 1)
    BY <2>1, <2>2, CompareStep DEF n, s
  <2>5. Right(s, k) /\ s.raised \in BOOLEAN
    BY <2>2 DEF s, CompareState
  <2>6. CASE s.raised
    BY <2>3, <2>4, <2>5, <2>6
  <2>7. CASE ~s.raised /\ ~Beyond(r, b, k + 1)
    BY <2>3, <2>4, <2>5, <2>7
  <2>8. CASE ~s.raised /\ FailsOn(r, b, k + 1)
    BY <2>3, <2>4, <2>8
  <2>9. CASE ~s.raised /\ Beyond(r, b, k + 1) /\ ~FailsOn(r, b, k + 1)
    <3>1. v[k + 1].told = s.told \cup {k + 1} /\ v[k + 1].raised = FALSE
      BY <2>4, <2>9
    <3>2. {i \in 1 .. k + 1 : Beyond(r, b, i)} = {i \in 1 .. k : Beyond(r, b, i)} \cup {k + 1}
      BY <2>3, <2>9
    <3>3. ~\E i \in 1 .. k + 1 : FailsOn(r, b, i)
      BY <2>3, <2>5, <2>9
    <3>. QED  BY <2>5, <2>9, <3>1, <3>2, <3>3
  <2>. QED  BY <2>6, <2>7, <2>8, <2>9
<1>6. n \in A
  <2>. HIDE DEF A
  <2>. QED  BY <1>1, <1>4, <1>5, Induction
<1>7. Right(Compare(r, b), n)
  BY <1>1, <1>3, <1>6
<1>. QED  BY <1>1, <1>7

-----------------------------------------------------------------------------
(* Lists of ids.                                                           *)

(* v is what has been read of a text after each of its digits.             *)
Reads(text, v) ==
  /\ v \in [0 .. Len(text) -> Nat] /\ v[0] = 0
  /\ \A k \in 1 .. Len(text) : v[k] = 10 * v[k - 1] + text[k]
  /\ Number(text) = v[Len(text)]

(* The digits of a text are read one by one. *)
LEMMA NumberLoop ==
  ASSUME NEW text \in Seq(Nat)
  PROVE  \E v : Reads(text, v)
<1>. DEFINE n == Len(text)
            G == [p \in Nat \X Nat |->
                    10 * p[2] + (IF p[1] \in 1 .. n THEN text[p[1]] ELSE 0)]
            Loop(f) == f = [k \in 0 .. n |->
                              IF k = 0 THEN 0 ELSE 10 * f[k - 1] + text[k]]
<1>1. n \in Nat /\ \A k \in 1 .. n : text[k] \in Nat
  OBVIOUS
<1>. HIDE DEF n
<1>2. G \in [Nat \X Nat -> Nat]
  BY <1>1
<1>3. PICK f : IsRun(f, Nat, 0, n, G)
  <2>. HIDE DEF G
  <2>1. 0 \in Nat
    OBVIOUS
  <2>. QED  BY <1>1, <1>2, <2>1, LoopRuns, Zenon
<1>. f \in [0 .. n -> Nat] /\ f[0] = 0
  BY <1>3 DEF IsRun
<1>4. ASSUME NEW k \in 1 .. n PROVE f[k] = 10 * f[k - 1] + text[k]
  <2>1. k \in Nat /\ f[k - 1] \in Nat
    BY <1>1
  <2>2. G[<<k, f[k - 1]>>] = 10 * f[k - 1] + text[k]
    BY <2>1
  <2>. QED  BY <1>3, <2>2 DEF IsRun
<1>5. Loop(f)
  <2>. DEFINE g == [k \in 0 .. n |-> IF k = 0 THEN 0 ELSE 10 * f[k - 1] + text[k]]
  <2>1. \A k \in 0 .. n : g[k] = f[k]
    BY <1>1, <1>3, <1>4
  <2>. QED  BY <2>1
<1>. DEFINE v == CHOOSE g : Loop(g)
<1>6. Loop(v)
  BY <1>5
<1>7. Number(text) = v[n]
  BY DEF Number, n
<1>. HIDE DEF v
<1>8. \A k \in 0 .. n : v[k] = IF k = 0 THEN 0 ELSE 10 * v[k - 1] + text[k]
  BY <1>6
<1>9. DOMAIN v = 0 .. n
  BY <1>6
<1>10. v[0] = 0 /\ \A k \in 1 .. n : v[k] = 10 * v[k - 1] + text[k]
  BY <1>1, <1>8
<1>11. v = f
  <2>. DEFINE A == {k \in Nat : k <= n => v[k] = f[k]}
  <2>1. 0 \in A
    BY <1>3, <1>10
  <2>2. \A k \in Nat : k \in A => k + 1 \in A
    <3>. SUFFICES ASSUME NEW k \in Nat, k \in A, k + 1 <= n PROVE v[k + 1] = f[k + 1]
      OBVIOUS
    <3>1. k + 1 \in 1 .. n /\ (k + 1) - 1 = k /\ v[k] = f[k]
      BY <1>1
    <3>. QED  BY <1>4, <1>10, <3>1
  <2>3. Nat \subseteq A
    <3>. HIDE DEF A
    <3>. QED  BY <2>1, <2>2, Induction
  <2>4. \A k \in 0 .. n : v[k] = f[k]
    BY <2>3, <1>1
  <2>5. v = [k \in 0 .. n |-> v[k]]
    BY <1>6
  <2>. QED  BY <2>4, <2>5
<1>. QED  BY <1>7, <1>10, <1>11 DEF n, Reads

(* The widths of fields the protocol has, and what a field of one holds    *)
(* less than.                                                              *)
Widths == {2, 3, 4}
Capacity(w) == IF w = 2 THEN 100 ELSE IF w = 3 THEN 1000 ELSE 10000

(* A number without its last digit, and that digit. *)
LEMMA LastDigit ==
  ASSUME NEW n \in Nat
  PROVE  /\ n \div 10 \in Nat /\ n = 10 * (n \div 10) + (n % 10) /\ n % 10 \in 0 .. 9
         /\ n \div 1 = n
         /\ n \div 100 = (n \div 10) \div 10 /\ n \div 1000 = (n \div 100) \div 10
         /\ n < 10 => n % 10 = n
  OBVIOUS

(* A field holds a number of the digits it has. *)
LEMMA NumberOfDigits ==
  ASSUME NEW text \in Seq(0 .. 9), NEW w \in Widths, Len(text) = w, NEW n \in Nat, n < Capacity(w),
         \A k \in 1 .. w : text[k] = Digit(n, w, k)
  PROVE  Number(text) = n
<1>1. text \in Seq(Nat)
  OBVIOUS
<1>2. PICK v : Reads(text, v)
  BY <1>1, NumberLoop, Zenon
<1>. DEFINE Step(k) == v[k] = 10 * v[k - 1] + text[k]
<1>3. v[0] = 0 /\ Step(1) /\ Step(2) /\ Number(text) = v[w]
  BY <1>2 DEF Widths, Reads
<1>4. CASE w = 2
  <2>1. text[1] = (n \div 10) % 10 /\ text[2] = (n \div 1) % 10
    BY <1>4 DEF Digit, PowersOfTen
  <2>. QED  BY <1>3, <1>4, <2>1 DEF Capacity
<1>5. CASE w = 3
  <2>1. /\ text[1] = (n \div 100) % 10 /\ text[2] = (n \div 10) % 10
        /\ text[3] = (n \div 1) % 10
    BY <1>5 DEF Digit, PowersOfTen
  <2>2. Step(3)
    BY <1>2, <1>5 DEF Reads
  <2>3. n \div 100 < 10
    BY <1>5 DEF Capacity
  <2>4. /\ n = 10 * (n \div 10) + text[3]
        /\ n \div 10 = 10 * (n \div 100) + text[2]
        /\ n \div 100 = text[1]
    BY <2>1, <2>3, LastDigit
  <2>. QED  BY <1>3, <1>5, <2>2, <2>4
<1>6. CASE w = 4
  <2>1. /\ text[1] = (n \div 1000) % 10 /\ text[2] = (n \div 100) % 10
        /\ text[3] = (n \div 10) % 10 /\ text[4] = (n \div 1) % 10
    BY <1>6 DEF Digit, PowersOfTen
  <2>2. Step(3) /\ Step(4)
    BY <1>2, <1>6 DEF Reads
  <2>3. n \div 1000 < 10
    BY <1>6 DEF Capacity
  <2>4. /\ n = 10 * (n \div 10) + text[4]
        /\ n \div 10 = 10 * (n \div 100) + text[3]
        /\ n \div 100 = 10 * (n \div 1000) + text[2]
        /\ n \div 1000 = text[1]
    BY <2>1, <2>3, LastDigit
  <2>. QED  BY <1>3, <1>6, <2>2, <2>4
<1>. QED  BY <1>4, <1>5, <1>6 DEF Widths

(* Where the digits of a field are. *)
LEMMA Position ==
  ASSUME NEW w \in Widths, NEW k \in Nat \ {0}, NEW j \in 1 .. w
  PROVE  LET i == (k - 1) * w + j
         IN /\ i \in Nat \ {0} /\ i <= k * w
            /\ (i - 1) \div w = k - 1 /\ ((i - 1) % w) + 1 = j
<1>1. CASE w = 2
  BY <1>1
<1>2. CASE w = 3
  BY <1>2
<1>3. CASE w = 4
  BY <1>3
<1>. QED  BY <1>1, <1>2, <1>3 DEF Widths

(* Fields and their ends are in the order of their numbers. *)
LEMMA FieldOrder ==
  ASSUME NEW w \in Widths, NEW k \in Nat, NEW m \in Nat
  PROVE  /\ k * w \in Nat /\ (k <= m => k * w <= m * w)
         /\ k * w <= m <=> k <= m \div w
         /\ m \div w \in Nat /\ (k + 1) * w - k * w = w
<1>1. CASE w = 2
  BY <1>1
<1>2. CASE w = 3
  BY <1>2
<1>3. CASE w = 4
  BY <1>3
<1>. QED  BY <1>1, <1>2, <1>3 DEF Widths

(* Each digit is one.                                                      *)
LEMMA DigitRange ==
  ASSUME NEW w \in Widths, NEW n \in Nat, NEW k \in 1 .. w
  PROVE  Digit(n, w, k) \in 0 .. 9
<1>1. w - k + 1 \in 1 .. 4
  BY DEF Widths
<1>2. PowersOfTen[w - k + 1] \in Nat \ {0}
  BY <1>1 DEF PowersOfTen
<1>3. n \div PowersOfTen[w - k + 1] \in Nat
  <2>. DEFINE d == PowersOfTen[w - k + 1]
  <2>. HIDE DEF d
  <2>1. ASSUME d \in Nat \ {0} PROVE n \div d \in Nat
    BY <2>1
  <2>. QED  BY <1>2, <2>1 DEF d
<1>. QED  BY <1>3 DEF Digit

(* What a field of an encoded list says. *)
FieldOf(ids, k) == IF k = 1 THEN Len(ids) ELSE ids[k - 1]

(* A list that can be written with fields of w digits. *)
Writable(ids, w) ==
  /\ ids \in Seq(Nat) /\ Len(ids) < Capacity(w)
  /\ \A i \in 1 .. Len(ids) : ids[i] < Capacity(w)

(* Where in an encoded list the digits of a field are.                     *)
LEMMA EncodeFields ==
  ASSUME NEW w \in Widths, NEW ids, Writable(ids, w), NEW k \in 1 .. Len(ids) + 1, NEW j \in 1 .. w
  PROVE  /\ (k - 1) * w + j \in 1 .. (Len(ids) + 1) * w
         /\ Encode(ids, w)[(k - 1) * w + j] = Digit(FieldOf(ids, k), w, j)
<1>. DEFINE i == (k - 1) * w + j
            E == Encode(ids, w)
<1>1. Len(ids) \in Nat /\ k \in Nat \ {0} /\ k <= Len(ids) + 1
  BY DEF Writable
<1>2. /\ i \in Nat \ {0} /\ i <= k * w
      /\ (i - 1) \div w = k - 1 /\ ((i - 1) % w) + 1 = j
  BY <1>1, Position
<1>3. k * w <= (Len(ids) + 1) * w /\ (Len(ids) + 1) * w \in Nat /\ k * w \in Nat
  BY <1>1, FieldOrder
<1>4. i \in 1 .. (Len(ids) + 1) * w
  <2>. HIDE DEF i
  <2>. QED  BY <1>2, <1>3
<1>5. E[i] = Digit(IF k - 1 = 0 THEN Len(ids) ELSE ids[k - 1], w, j)
  <2>. HIDE DEF i
  <2>. QED  BY <1>2, <1>4 DEF Encode
<1>6. (IF k - 1 = 0 THEN Len(ids) ELSE ids[k - 1]) = FieldOf(ids, k)
  BY <1>1 DEF FieldOf
<1>. QED  BY <1>4, <1>5, <1>6

(* An encoded list is made of digits, as many as its fields have.          *)
LEMMA EncodeType ==
  ASSUME NEW w \in Widths, NEW ids, Writable(ids, w)
  PROVE  /\ (Len(ids) + 1) * w \in Nat
         /\ Encode(ids, w) \in Seq(0 .. 9) /\ Len(Encode(ids, w)) = (Len(ids) + 1) * w
<1>. DEFINE L == (Len(ids) + 1) * w
            At(i) == LET field == (i - 1) \div w
                     IN Digit(IF field = 0 THEN Len(ids) ELSE ids[field], w,
                              ((i - 1) % w) + 1)
<1>1. Len(ids) \in Nat /\ Len(ids) + 1 \in Nat /\ w \in Nat
  BY DEF Writable, Widths
<1>2. L \in Nat
  BY <1>1, FieldOrder
<1>3. ASSUME NEW i \in 1 .. L PROVE At(i) \in 0 .. 9
  <2>1. (i - 1) \div w \in 0 .. Len(ids) /\ ((i - 1) % w) + 1 \in 1 .. w
    <3>1. CASE w = 2  BY <1>1, <3>1
    <3>2. CASE w = 3  BY <1>1, <3>2
    <3>3. CASE w = 4  BY <1>1, <3>3
    <3>. QED  BY <3>1, <3>2, <3>3 DEF Widths
  <2>. DEFINE field == (i - 1) \div w
              n == IF field = 0 THEN Len(ids) ELSE ids[field]
  <2>2. n \in Nat
    BY <1>1, <2>1 DEF Writable
  <2>. HIDE DEF n
  <2>3. Digit(n, w, ((i - 1) % w) + 1) \in 0 .. 9
    BY <2>1, <2>2, DigitRange
  <2>. QED  BY <2>3 DEF n
<1>4. Encode(ids, w) = [i \in 1 .. L |-> At(i)]
  BY DEF Encode
<1>. HIDE DEF At, L
<1>5. Encode(ids, w) \in Seq(0 .. 9) /\ Len(Encode(ids, w)) = L
  BY <1>2, <1>3, <1>4
<1>. QED  BY <1>2, <1>5 DEF L

(* A field that is whole is read for what it says. *)
LEMMA FieldNumber ==
  ASSUME NEW w \in Widths, NEW ids, Writable(ids, w),
         NEW cut \in 0 .. (Len(ids) + 1) * w, NEW k \in 1 .. Len(ids) + 1, k * w <= cut
  PROVE  Number(Field(SubSeq(Encode(ids, w), 1, cut), w, k)) = FieldOf(ids, k)
<1>. DEFINE E == Encode(ids, w)
            L == (Len(ids) + 1) * w
            text == SubSeq(E, 1, cut)
            f == Field(text, w, k)
<1>1. Len(ids) \in Nat /\ k \in Nat \ {0} /\ w \in Nat
  BY DEF Writable, Widths
<1>2. L \in Nat /\ k * w \in Nat /\ (k - 1) * w \in Nat /\ k * w - (k - 1) * w = w
  <2>1. k - 1 \in Nat /\ (k - 1) + 1 = k
    BY <1>1
  <2>. QED  BY <1>1, <2>1, FieldOrder
<1>. HIDE DEF L
<1>3. cut \in Nat /\ cut <= L
  BY <1>2 DEF L
<1>4. \A i \in 1 .. cut : text[i] = E[i]
  <2>. HIDE DEF E
  <2>. QED  BY <1>3
<1>. DEFINE a == (k - 1) * w
            b == k * w
<1>5. a \in Nat /\ b \in Nat /\ b - a = w /\ b <= cut
  BY <1>2
<1>6. f = SubSeq(text, a + 1, b)
  BY DEF Field
<1>. HIDE DEF a, b, text, E, f
<1>7. Len(f) = w /\ DOMAIN f = 1 .. w /\ \A j \in 1 .. w : f[j] = text[a + j]
  BY <1>1, <1>3, <1>5, <1>6
<1>8. \A j \in 1 .. w : f[j] = Digit(FieldOf(ids, k), w, j)
  <2>. SUFFICES ASSUME NEW j \in 1 .. w PROVE f[j] = Digit(FieldOf(ids, k), w, j)
    OBVIOUS
  <2>1. E[a + j] = Digit(FieldOf(ids, k), w, j)
    BY EncodeFields DEF E, a
  <2>2. a + j \in 1 .. cut
    BY <1>1, <1>3, <1>5
  <2>. QED  BY <1>4, <1>7, <2>1, <2>2
<1>9. FieldOf(ids, k) \in Nat /\ FieldOf(ids, k) < Capacity(w)
  BY <1>1 DEF FieldOf, Writable
<1>10. f \in Seq(0 .. 9)
  <2>1. E \in Seq(0 .. 9) /\ Len(E) = L
    BY EncodeType DEF E, L
  <2>2. text \in Seq(0 .. 9)
    BY <1>2, <1>3, <2>1 DEF text
  <2>3. Len(text) = cut
    BY <1>2, <1>3, <2>1 DEF text
  <2>. QED  BY <1>3, <1>5, <1>6, <2>2, <2>3
<1>11. Number(f) = FieldOf(ids, k)
  BY <1>7, <1>8, <1>9, <1>10, NumberOfDigits
<1>. QED  BY <1>11 DEF f, text, E

(* The parsers read the beginning of a list that was cut off, and all of a *)
(* whole one: for every list that can be written with fields of the width, *)
(* and wherever it is cut.                                                 *)
THEOREM ListIsRead ==
  ASSUME NEW w \in Widths, NEW ids, Writable(ids, w), NEW cut \in 0 .. (Len(ids) + 1) * w
  PROVE  LET parsed == ParseIds(SubSeq(Encode(ids, w), 1, cut), w)
         IN /\ Len(parsed) <= Len(ids) /\ \A i \in DOMAIN parsed : parsed[i] = ids[i]
            /\ cut = (Len(ids) + 1) * w => parsed = ids
<1>. DEFINE L == (Len(ids) + 1) * w
            text == SubSeq(Encode(ids, w), 1, cut)
            count == Number(Field(text, w, 1))
            parsed == ParseIds(text, w)
<1>1. Len(ids) \in Nat /\ w \in Nat /\ w > 0
  BY DEF Writable, Widths
<1>2. L \in Nat /\ L >= w
  <2>1. 1 <= Len(ids) + 1 /\ Len(ids) + 1 \in Nat
    BY <1>1
  <2>2. 1 * w <= L /\ L \in Nat
    BY <2>1, FieldOrder
  <2>. QED  BY <1>1, <2>2
<1>3. cut \in Nat /\ cut <= L
  <2>. HIDE DEF L
  <2>1. cut \in 0 .. L
    BY DEF L
  <2>. QED  BY <1>2, <2>1
<1>4. Len(text) = cut
  <2>1. DOMAIN Encode(ids, w) = 1 .. L
    BY DEF Encode
  <2>. DEFINE E == Encode(ids, w)
  <2>. HIDE DEF E, L
  <2>. QED  BY <1>2, <1>3, <2>1 DEF E
<1>5. CASE cut < w
  <2>1. parsed = <<>>
    <3>. HIDE DEF text
    <3>. QED  BY <1>4, <1>5 DEF ParseIds
  <2>2. cut # L
    BY <1>1, <1>2, <1>3, <1>5
  <2>. HIDE DEF parsed
  <2>. QED  BY <1>1, <2>1, <2>2 DEF parsed, text, L
<1>6. CASE cut >= w
  <2>1. count = Len(ids)
    <3>1. 1 \in 1 .. Len(ids) + 1 /\ 1 * w <= cut
      BY <1>1, <1>6
    <3>2. FieldOf(ids, 1) = Len(ids)
      BY DEF FieldOf
    <3>. QED  BY <3>1, <3>2, FieldNumber
  <2>. DEFINE Last(n) == /\ \A k \in 1 .. n : Fits(text, w, k + 1)
                         /\ n < count => ~Fits(text, w, n + 2)
              n == CHOOSE n \in 0 .. count : Last(n)
  <2>2. parsed = [k \in 1 .. n |-> Number(Field(text, w, k + 1))]
    <3>1. ~(Len(text) < w)
      BY <1>1, <1>3, <1>4, <1>6
    <3>. HIDE DEF text
    <3>. QED  BY <3>1, Zenon DEF ParseIds
  <2>3. \A k \in Nat : Fits(text, w, k) <=> k * w <= cut
    <3>. HIDE DEF text
    <3>. QED  BY <1>4 DEF Fits
  <2>. HIDE DEF text, count
  <2>4. \E m \in 0 .. count : Last(m)
    <3>. DEFINE m == Least(count, (cut \div w) - 1)
    <3>1. cut \div w \in Nat /\ cut \div w >= 1
      <4>1. 1 * w <= cut
        BY <1>1, <1>6
      <4>. QED  BY <1>3, <4>1, FieldOrder
    <3>2. m \in 0 .. count /\ m <= (cut \div w) - 1 /\ (m < count => m = (cut \div w) - 1)
      BY <1>1, <2>1, <3>1 DEF Least
    <3>. HIDE DEF m
    <3>3. \A k \in 1 .. m : Fits(text, w, k + 1)
      <4>. SUFFICES ASSUME NEW k \in 1 .. m PROVE Fits(text, w, k + 1)
        OBVIOUS
      <4>1. k + 1 \in Nat /\ k + 1 <= cut \div w
        BY <1>1, <2>1, <3>1, <3>2
      <4>2. (k + 1) * w <= cut
        BY <1>3, <4>1, FieldOrder
      <4>. QED  BY <2>3, <4>1, <4>2
    <3>4. m < count => ~Fits(text, w, m + 2)
      <4>. SUFFICES ASSUME m < count PROVE ~Fits(text, w, m + 2)
        OBVIOUS
      <4>1. m + 2 \in Nat /\ ~(m + 2 <= cut \div w)
        BY <1>1, <2>1, <3>1, <3>2
      <4>2. ~((m + 2) * w <= cut)
        BY <1>3, <4>1, FieldOrder
      <4>. QED  BY <2>3, <4>1, <4>2
    <3>. QED  BY <3>2, <3>3, <3>4
  <2>5. n \in 0 .. count /\ Last(n)
    BY <2>4
  <2>. HIDE DEF n
  <2>6. n \in Nat /\ n <= Len(ids)
    BY <1>1, <2>1, <2>5
  <2>7. \A k \in 1 .. n : parsed[k] = ids[k]
    <3>. SUFFICES ASSUME NEW k \in 1 .. n PROVE parsed[k] = ids[k]
      OBVIOUS
    <3>1. k + 1 \in 1 .. Len(ids) + 1 /\ k + 1 \in Nat /\ (k + 1) - 1 = k /\ k + 1 # 1
      BY <1>1, <2>6
    <3>2. (k + 1) * w <= cut
      BY <2>3, <2>5, <3>1
    <3>3. Number(Field(text, w, k + 1)) = FieldOf(ids, k + 1)
      BY <3>1, <3>2, FieldNumber DEF text
    <3>4. FieldOf(ids, k + 1) = ids[k]
      BY <3>1 DEF FieldOf
    <3>. HIDE DEF parsed
    <3>. QED  BY <2>2, <3>3, <3>4
  <2>8. DOMAIN parsed = 1 .. n /\ Len(parsed) = n
    <3>. HIDE DEF parsed
    <3>. QED  BY <2>2, <2>6
  <2>9. ASSUME cut = L PROVE parsed = ids
    <3>1. n = Len(ids)
      <4>. SUFFICES ASSUME n < count PROVE FALSE
        BY <2>1, <2>6, <1>1
      <4>1. n + 2 \in Nat /\ n + 2 <= Len(ids) + 1 /\ Len(ids) + 1 \in Nat
        BY <1>1, <2>1, <2>6
      <4>2. (n + 2) * w <= cut
        BY <2>9, <4>1, FieldOrder
      <4>. QED  BY <2>3, <2>5, <4>1, <4>2
    <3>2. ids = [k \in 1 .. n |-> ids[k]]
      BY <3>1 DEF Writable
    <3>3. parsed = [k \in 1 .. n |-> parsed[k]]
      <4>. HIDE DEF parsed
      <4>. QED  BY <2>2
    <3>. HIDE DEF parsed
    <3>. QED  BY <2>7, <3>2, <3>3
  <2>. HIDE DEF parsed
  <2>. QED  BY <2>6, <2>7, <2>8, <2>9 DEF parsed, text
<1>. QED  BY <1>1, <1>3, <1>5, <1>6

-----------------------------------------------------------------------------
(* The packets of a curve.                                                 *)

(* What the loop of analyze keeps, and one round of it.                    *)
ScanState == [runs : Seq(Nat), run : Nat, gaps : Seq(Int)]
ScanInit == [runs |-> <<>>, run |-> 1, gaps |-> <<>>]
ScanStep(s, dt, is_down) ==
  IF SamePacket(dt, is_down) THEN [s EXCEPT !.run = @ + 1] ELSE NewPacket(s, dt)

(* f is what the loop has after each point of t. *)
Scans(t, down, f) ==
  /\ f \in [1 .. Len(t) -> ScanState] /\ f[1] = ScanInit
  /\ \A k \in 2 .. Len(t) : f[k] = ScanStep(f[k - 1], t[k] - t[k - 1], k \in down)
  /\ Scan(t, down) = f[Len(t)]

(* A round leads from one such state to another.                           *)
LEMMA ScanStepType ==
  ASSUME NEW s \in ScanState, NEW dt \in Int, NEW is_down
  PROVE  ScanStep(s, dt, is_down) \in ScanState
<1>1. [s EXCEPT !.run = @ + 1] \in ScanState
  <2>. DEFINE r == s.run + 1
  <2>1. r \in Nat
    BY DEF ScanState
  <2>. HIDE DEF r
  <2>2. [s EXCEPT !.run = r] \in ScanState
    BY <2>1, Zenon DEF ScanState
  <2>. QED  BY <2>2 DEF r
<1>2. NewPacket(s, dt) \in ScanState
  BY DEF ScanState, NewPacket
<1>. QED  BY <1>1, <1>2 DEF ScanStep

(* The rounds of the loop exist, one for each point.                       *)
LEMMA ScanLoop ==
  ASSUME NEW t \in Seq(Int), t # <<>>, NEW down
  PROVE  \E f : Scans(t, down, f)
<1>. DEFINE n == Len(t)
            D(k) == IF k \in 2 .. n THEN t[k] - t[k - 1] ELSE 0
            G == [p \in Nat \X ScanState |->
                    IF p[1] = 1 THEN ScanInit ELSE ScanStep(p[2], D(p[1]), p[1] \in down)]
            Body(f, k) == IF k = 1 THEN ScanInit
                          ELSE LET s  == f[k - 1]
                                   dt == t[k] - t[k - 1]
                               IN IF SamePacket(dt, k \in down) THEN [s EXCEPT !.run = @ + 1]
                                  ELSE NewPacket(s, dt)
            Loop(f) == f = [k \in 1 .. n |-> Body(f, k)]
<1>1. n \in Nat /\ n >= 1 /\ \A k \in 1 .. n : t[k] \in Int
  OBVIOUS
<1>2. ScanInit \in ScanState
  BY DEF ScanInit, ScanState
<1>3. \A k : D(k) \in Int
  <2>. HIDE DEF n
  <2>. QED  BY <1>1
<1>4. Scan(t, down) = (CHOOSE f : Loop(f))[n]
  BY Zenon DEF Scan, ScanInit
<1>. HIDE DEF n
<1>5. G \in [Nat \X ScanState -> ScanState]
  <2>. HIDE DEF D
  <2>. SUFFICES ASSUME NEW p \in Nat \X ScanState
                PROVE  (IF p[1] = 1 THEN ScanInit ELSE ScanStep(p[2], D(p[1]), p[1] \in down)) \in ScanState
    BY Zenon
  <2>. QED  BY <1>2, <1>3, ScanStepType
<1>6. PICK f : IsRun(f, ScanState, ScanInit, n, G)
  <2>. HIDE DEF G
  <2>. QED  BY <1>1, <1>2, <1>5, LoopRuns, Zenon
<1>. DEFINE g == [k \in 1 .. n |-> f[k]]
<1>7. ASSUME NEW k \in 1 .. n
      PROVE  /\ f[k] \in ScanState /\ f[k - 1] \in ScanState
             /\ k = 1 => f[k] = ScanInit
             /\ k # 1 => f[k] = ScanStep(f[k - 1], t[k] - t[k - 1], k \in down)
  <2>1. f[k] = G[<<k, f[k - 1]>>] /\ f \in [0 .. n -> ScanState]
    BY <1>6 DEF IsRun
  <2>2. k \in Nat /\ f[k - 1] \in ScanState /\ f[k] \in ScanState
    <3>. HIDE DEF G
    <3>. QED  BY <1>1, <2>1
  <2>3. <<k, f[k - 1]>> \in Nat \X ScanState
    BY <2>2
  <2>4. f[k] = IF k = 1 THEN ScanInit ELSE ScanStep(f[k - 1], D(k), k \in down)
    <3>. HIDE DEF D
    <3>. QED  BY <2>1, <2>3
  <2>5. k # 1 => D(k) = t[k] - t[k - 1]
    BY <1>1
  <2>. HIDE DEF D, G
  <2>. QED  BY <2>2, <2>4, <2>5
<1>8. Loop(g)
  <2>1. ASSUME NEW k \in 1 .. n PROVE g[k] = Body(g, k)
    <3>1. CASE k = 1
      <4>1. g[k] = f[k]
        OBVIOUS
      <4>. HIDE DEF g
      <4>. QED  BY <1>7, <3>1, <4>1
    <3>2. CASE k # 1
      <4>1. k - 1 \in 1 .. n
        BY <1>1, <3>2
      <4>2. g[k] = f[k] /\ g[k - 1] = f[k - 1]
        BY <4>1
      <4>. HIDE DEF g
      <4>3. g[k] = ScanStep(g[k - 1], t[k] - t[k - 1], k \in down)
        BY <1>7, <3>2, <4>2
      <4>. QED  BY <3>2, <4>3, Zenon DEF ScanStep
    <3>. QED  BY <3>1, <3>2
  <2>. HIDE DEF Body
  <2>2. \A k \in 1 .. n : g[k] = Body(g, k)
    BY <2>1
  <2>3. g = [k \in 1 .. n |-> g[k]]
    OBVIOUS
  <2>. HIDE DEF g
  <2>. QED  BY <2>2, <2>3
<1>. DEFINE v == CHOOSE h : Loop(h)
<1>9. Loop(v)
  <2>. HIDE DEF Loop
  <2>. QED  BY <1>8, Zenon
<1>10. Scan(t, down) = v[n]
  BY <1>4
<1>. HIDE DEF v
<1>11. \A k \in 1 .. n : v[k] = Body(v, k)
  <2>. HIDE DEF Body
  <2>. QED  BY <1>9
<1>12. v = [k \in 1 .. n |-> v[k]]
  <2>. HIDE DEF Body
  <2>. QED  BY <1>9
<1>13. \A k \in 1 .. n : v[k] = f[k]
  <2>. DEFINE A == {k \in Nat : k + 1 <= n => v[k + 1] = f[k + 1]}
  <2>1. 0 \in A
    <3>1. 1 \in 1 .. n
      BY <1>1
    <3>2. v[1] = Body(v, 1)
      <4>. HIDE DEF Body
      <4>. QED  BY <1>11, <3>1
    <3>3. v[1] = ScanInit
      BY <3>2
    <3>4. f[1] = ScanInit
      <4>. HIDE DEF Body
      <4>. QED  BY <1>7, <3>1
    <3>. QED  BY <3>3, <3>4
  <2>2. \A k \in Nat : k \in A => k + 1 \in A
    <3>. SUFFICES ASSUME NEW k \in Nat, k \in A, k + 2 <= n PROVE v[k + 2] = f[k + 2]
      BY Z3
    <3>1. k + 2 \in 1 .. n /\ (k + 2) - 1 = k + 1 /\ k + 2 # 1 /\ v[k + 1] = f[k + 1]
      BY <1>1
    <3>2. f[k + 2] = ScanStep(f[k + 1], t[k + 2] - t[k + 1], k + 2 \in down)
      BY <1>7, <3>1
    <3>3. v[k + 2] = ScanStep(v[k + 1], t[k + 2] - t[k + 1], k + 2 \in down)
      <4>1. v[k + 2] = Body(v, k + 2)
        <5>. HIDE DEF Body
        <5>. QED  BY <1>11, <3>1
      <4>. QED  BY <3>1, <4>1 DEF ScanStep
    <3>. QED  BY <3>1, <3>2, <3>3
  <2>3. Nat \subseteq A
    <3>. HIDE DEF A
    <3>. QED  BY <2>1, <2>2, Induction
  <2>. SUFFICES ASSUME NEW k \in 1 .. n PROVE v[k] = f[k]
    OBVIOUS
  <2>4. k - 1 \in Nat /\ (k - 1) + 1 = k /\ k <= n
    BY <1>1
  <2>5. k - 1 \in A
    <3>. HIDE DEF A
    <3>. QED  BY <2>3, <2>4
  <2>. QED  BY <2>4, <2>5
<1>14. Scans(t, down, v)
  <2>1. v \in [1 .. n -> ScanState]
    BY <1>7, <1>12, <1>13
  <2>2. v[1] = ScanInit
    BY <1>1, <1>7, <1>13
  <2>3. ASSUME NEW k \in 2 .. n PROVE v[k] = ScanStep(v[k - 1], t[k] - t[k - 1], k \in down)
    <3>1. k \in 1 .. n /\ k - 1 \in 1 .. n /\ k # 1
      BY <1>1
    <3>. QED  BY <1>7, <1>13, <3>1
  <2>. QED  BY <1>10, <2>1, <2>2, <2>3 DEF Scans, n
<1>. QED  BY <1>14

(* Where a packet begins among the first k points. *)
Starts(t, down, k) ==
  {1} \cup {i \in 2 .. k : ~SamePacket(t[i] - t[i - 1], i \in down)}

(* The places where the m packets of the first k points begin. *)
Firsts(t, down, k, m, first) ==
  /\ first \in [1 .. m -> 1 .. k] /\ {first[i] : i \in 1 .. m} = Starts(t, down, k)
  /\ \A i \in 1 .. m - 1 : first[i] < first[i + 1]

(* What the loop has after k points agrees with them. *)
Pieces(t, down, k, s, first) ==
  LET m == Len(s.runs) + 1 IN
  /\ Firsts(t, down, k, m, first)
  /\ Len(s.gaps) = m - 1 /\ s.run = (k + 1) - first[m]
  /\ \A i \in 1 .. m - 1 : /\ s.runs[i] = first[i + 1] - first[i]
                           /\ s.gaps[i] = t[first[i + 1]] - t[first[i + 1] - 1]

(* A point without a gap before it belongs to the packet that is not       *)
(* complete; one with a gap begins the next.                               *)
LEMMA PiecesGrow ==
  ASSUME NEW t \in Seq(Int), NEW down, NEW k \in Nat \ {0}, k + 1 <= Len(t), NEW s \in ScanState,
         NEW first, Pieces(t, down, k, s, first)
  PROVE  \E g : Pieces(t, down, k + 1, ScanStep(s, t[k + 1] - t[k], k + 1 \in down), g)
<1>. DEFINE m == Len(s.runs) + 1
            dt == t[k + 1] - t[k]
            same == SamePacket(dt, k + 1 \in down)
            s1 == ScanStep(s, dt, k + 1 \in down)
<1>1. /\ m \in Nat /\ m >= 1 /\ dt \in Int /\ s.run \in Nat
      /\ s.runs \in Seq(Nat) /\ s.gaps \in Seq(Int)
      /\ t[k + 1] \in Int /\ t[k] \in Int
  BY DEF ScanState
<1>2. /\ Firsts(t, down, k, m, first)
      /\ Len(s.runs) = m - 1 /\ Len(s.gaps) = m - 1 /\ s.run = (k + 1) - first[m]
      /\ \A i \in 1 .. m - 1 : /\ s.runs[i] = first[i + 1] - first[i]
                               /\ s.gaps[i] = t[first[i + 1]] - t[first[i + 1] - 1]
  BY <1>1 DEF Pieces
<1>. HIDE DEF m
<1>3. /\ first \in [1 .. m -> 1 .. k] /\ {first[i] : i \in 1 .. m} = Starts(t, down, k)
      /\ \A i \in 1 .. m - 1 : first[i] < first[i + 1]
  BY <1>2 DEF Firsts
<1>4. Starts(t, down, k + 1) = IF same THEN Starts(t, down, k) ELSE Starts(t, down, k) \cup {k + 1}
  <2>1. \A i : i \in 2 .. k + 1 <=> (i \in 2 .. k \/ (i = k + 1))
    OBVIOUS
  <2>2. (k + 1) - 1 = k
    OBVIOUS
  <2>. QED  BY <2>1, <2>2 DEF Starts
<1>. HIDE DEF same
<1>5. CASE same
  <2>1. s1 = [s EXCEPT !.run = @ + 1]
    BY <1>5 DEF ScanStep, same
  <2>2. s1.runs = s.runs /\ s1.gaps = s.gaps /\ s1.run = s.run + 1
    BY <2>1 DEF ScanState
  <2>. HIDE DEF s1, dt
  <2>3. Firsts(t, down, k + 1, m, first)
    <3>1. first \in [1 .. m -> 1 .. k + 1]
      BY <1>3
    <3>. QED  BY <1>3, <1>4, <1>5, <3>1 DEF Firsts
  <2>4. Len(s1.runs) + 1 = m
    BY <2>2 DEF m
  <2>5. s1.run = ((k + 1) + 1) - first[m]
    <3>1. first[m] \in 1 .. k
      BY <1>1, <1>3
    <3>. QED  BY <1>2, <2>2, <3>1
  <2>6. Pieces(t, down, k + 1, s1, first)
    BY <1>2, <2>2, <2>3, <2>4, <2>5 DEF Pieces
  <2>. QED  BY <2>6 DEF s1, dt
<1>6. CASE ~same
  <2>. DEFINE g == [i \in 1 .. m + 1 |-> IF i = m + 1 THEN k + 1 ELSE first[i]]
  <2>1. s1 = NewPacket(s, dt)
    BY <1>6 DEF ScanStep, same
  <2>2. s1.runs = Append(s.runs, s.run) /\ s1.gaps = Append(s.gaps, dt) /\ s1.run = 1
    BY <2>1 DEF NewPacket
  <2>. HIDE DEF s1
  <2>3. /\ g \in [1 .. m + 1 -> 1 .. k + 1] /\ g[m + 1] = k + 1
        /\ \A i \in 1 .. m : g[i] = first[i]
    <3>1. m \in Nat /\ first \in [1 .. m -> 1 .. k]
      BY <1>1, <1>3
    <3>2. \A i \in 1 .. m + 1 : i # m + 1 => i \in 1 .. m
      BY <3>1
    <3>3. \A i \in 1 .. m : i \in 1 .. m + 1 /\ i # m + 1
      BY <3>1
    <3>4. m + 1 \in 1 .. m + 1 /\ k + 1 \in 1 .. k + 1 /\ 1 .. k \subseteq 1 .. k + 1
      BY <1>1
    <3>. QED  BY <3>1, <3>2, <3>3, <3>4
  <2>. HIDE DEF g
  <2>4. {g[i] : i \in 1 .. m + 1} = Starts(t, down, k + 1)
    <3>1. {g[i] : i \in 1 .. m + 1} = {first[i] : i \in 1 .. m} \cup {k + 1}
      <4>1. \A i : i \in 1 .. m + 1 <=> i \in 1 .. m \/ i = m + 1
        BY <1>1
      <4>. QED  BY <2>3, <4>1
    <3>. QED  BY <1>3, <1>4, <1>6, <3>1
  <2>5. \A i \in 1 .. m : g[i] < g[i + 1]
    <3>. SUFFICES ASSUME NEW i \in 1 .. m PROVE g[i] < g[i + 1]
      OBVIOUS
    <3>1. CASE i = m
      BY <1>1, <1>3, <2>3, <3>1
    <3>2. CASE i \in 1 .. m - 1
      <4>1. i + 1 \in 1 .. m
        BY <1>1, <3>2
      <4>. QED  BY <1>3, <2>3, <3>2, <4>1
    <3>. QED  BY <1>1, <3>1, <3>2
  <2>6. Firsts(t, down, k + 1, m + 1, g)
    <3>1. (m + 1) - 1 = m
      BY <1>1
    <3>. QED  BY <2>3, <2>4, <2>5, <3>1 DEF Firsts
  <2>7. Len(s1.runs) = m /\ Len(s1.gaps) = m
    BY <1>1, <1>2, <2>2
  <2>8. s1.run = ((k + 1) + 1) - g[m + 1]
    BY <2>2, <2>3
  <2>9. ASSUME NEW i \in 1 .. m
        PROVE  /\ s1.runs[i] = g[i + 1] - g[i]
               /\ s1.gaps[i] = t[g[i + 1]] - t[g[i + 1] - 1]
    <3>1. CASE i = m
      <4>1. s1.runs[i] = s.run /\ s1.gaps[i] = dt
        BY <1>1, <1>2, <2>2, <3>1
      <4>2. g[i + 1] = k + 1 /\ g[i] = first[m] /\ (k + 1) - 1 = k
        BY <1>1, <2>3, <3>1
      <4>3. s.run = (k + 1) - first[m]
        BY <1>2
      <4>4. s1.runs[i] = g[i + 1] - g[i]
        BY <4>1, <4>2, <4>3
      <4>5. s1.gaps[i] = t[g[i + 1]] - t[g[i + 1] - 1]
        BY <4>1, <4>2
      <4>. QED  BY <4>4, <4>5
    <3>2. CASE i \in 1 .. m - 1
      <4>0. i \in 1 .. Len(s.runs) /\ i \in 1 .. Len(s.gaps)
        BY <1>2, <3>2
      <4>1. s1.runs[i] = s.runs[i] /\ s1.gaps[i] = s.gaps[i]
        BY <1>1, <2>2, <4>0, AppendProperties
      <4>2. i + 1 \in 1 .. m /\ i \in 1 .. m
        BY <1>1, <3>2
      <4>. QED  BY <1>2, <2>3, <3>2, <4>1, <4>2
    <3>. QED  BY <1>1, <3>1, <3>2
  <2>10. Pieces(t, down, k + 1, s1, g)
    <3>1. Len(s1.runs) + 1 = m + 1 /\ (m + 1) - 1 = m
      BY <1>1, <2>7
    <3>. QED  BY <2>6, <2>7, <2>8, <2>9, <3>1 DEF Pieces
  <2>. QED  BY <2>10 DEF s1, dt
<1>. QED  BY <1>5, <1>6

(* The packets of t are its pieces without a gap, in their order, and the  *)
(* gaps lie between them.                                                  *)
CutAtGaps(t, down) ==
  LET starts == Starts(t, down, Len(t)) \cup {Len(t) + 1}
      n      == Len(Packets(t, down))
  IN /\ Len(Gaps(t, down)) = n - 1
     /\ \E first \in [1 .. n + 1 -> starts] :
          /\ {first[i] : i \in 1 .. n + 1} = starts
          /\ \A i \in 1 .. n : /\ first[i] < first[i + 1]
                              /\ Packets(t, down)[i] = first[i + 1] - first[i]
          /\ \A i \in 1 .. n - 1 : Gaps(t, down)[i] = t[first[i + 1]] - t[first[i + 1] - 1]

(* analyze cuts a curve at its gaps and nowhere else, for every sequence   *)
(* of times, in whatever order they are, and wherever a difference of      *)
(* exactly 3 ms came out below 3.                                          *)
THEOREM CurveIsCut ==
  ASSUME NEW t \in Seq(Int), t # <<>>, NEW down
  PROVE  CutAtGaps(t, down)
<1>. DEFINE n == Len(t)
<1>1. n \in Nat /\ n >= 1
  OBVIOUS
<1>2. PICK f : Scans(t, down, f)
  BY ScanLoop
<1>3. /\ f \in [1 .. n -> ScanState] /\ f[1] = ScanInit
      /\ \A k \in 2 .. n : f[k] = ScanStep(f[k - 1], t[k] - t[k - 1], k \in down)
      /\ Scan(t, down) = f[n]
  BY <1>2 DEF Scans
<1>4. \E first : Pieces(t, down, n, f[n], first)
  <2>. DEFINE A == {k \in Nat : k + 1 <= n => \E first : Pieces(t, down, k + 1, f[k + 1], first)}
  <2>1. 0 \in A
    <3>. DEFINE first == [i \in 1 .. 1 |-> 1]
    <3>1. ScanInit.runs = <<>> /\ ScanInit.gaps = <<>> /\ ScanInit.run = 1
      BY DEF ScanInit
    <3>2. Starts(t, down, 1) = {1}
      BY DEF Starts
    <3>3. Firsts(t, down, 1, 1, first)
      BY <3>2 DEF Firsts
    <3>4. Pieces(t, down, 1, ScanInit, first)
      BY <3>1, <3>3 DEF Pieces
    <3>. QED  BY <1>3, <3>4
  <2>2. ASSUME NEW k \in Nat, k \in A PROVE k + 1 \in A
    <3>. SUFFICES ASSUME (k + 1) + 1 <= n
                  PROVE  \E g : Pieces(t, down, (k + 1) + 1, f[(k + 1) + 1], g)
      OBVIOUS
    <3>1. k + 1 \in 1 .. n /\ k + 1 \in Nat \ {0} /\ (k + 1) + 1 \in 2 .. n
          /\ ((k + 1) + 1) - 1 = k + 1
      BY <1>1
    <3>2. PICK first : Pieces(t, down, k + 1, f[k + 1], first)
      BY <2>2, <3>1
    <3>3. f[k + 1] \in ScanState
      BY <1>3, <3>1
    <3>4. f[(k + 1) + 1] = ScanStep(f[k + 1], t[(k + 1) + 1] - t[k + 1], (k + 1) + 1 \in down)
      BY <1>3, <3>1
    <3>. HIDE DEF A
    <3>. QED  BY <3>1, <3>2, <3>3, <3>4, PiecesGrow
  <2>3. Nat \subseteq A
    <3>. HIDE DEF A
    <3>. QED  BY <2>1, <2>2, Induction
  <2>4. n - 1 \in A /\ (n - 1) + 1 = n
    <3>. HIDE DEF A, n
    <3>. QED  BY <1>1, <2>3
  <2>. QED  BY <2>4
<1>5. PICK first : Pieces(t, down, n, f[n], first)
  BY <1>4
<1>. DEFINE s == f[n]
            m == Len(s.runs) + 1
            starts == Starts(t, down, n) \cup {n + 1}
            g == [i \in 1 .. m + 1 |-> IF i = m + 1 THEN n + 1 ELSE first[i]]
<1>6. s \in ScanState
  <2>. HIDE DEF n
  <2>. QED  BY <1>1, <1>3
<1>. HIDE DEF s
<1>7. m \in Nat /\ m >= 1 /\ s.runs \in Seq(Nat) /\ s.run \in Nat /\ Len(s.runs) = m - 1
  BY <1>6 DEF ScanState
<1>8. /\ Firsts(t, down, n, m, first)
      /\ Len(s.gaps) = m - 1 /\ s.run = (n + 1) - first[m]
      /\ \A i \in 1 .. m - 1 : /\ s.runs[i] = first[i + 1] - first[i]
                               /\ s.gaps[i] = t[first[i + 1]] - t[first[i + 1] - 1]
  BY <1>5 DEF Pieces, s
<1>9. Packets(t, down) = Append(s.runs, s.run) /\ Gaps(t, down) = s.gaps
  BY <1>3 DEF Packets, Gaps, s
<1>. HIDE DEF m, n
<1>10. /\ first \in [1 .. m -> 1 .. n] /\ {first[i] : i \in 1 .. m} = Starts(t, down, n)
       /\ \A i \in 1 .. m - 1 : first[i] < first[i + 1]
  BY <1>8 DEF Firsts
<1>11. /\ g[m + 1] = n + 1 /\ \A i \in 1 .. m : g[i] = first[i]
       /\ g = [i \in 1 .. m + 1 |-> g[i]]
  BY <1>7
<1>. HIDE DEF g
<1>12. {g[i] : i \in 1 .. m + 1} = starts /\ g \in [1 .. m + 1 -> starts]
  <2>1. \A i : i \in 1 .. m + 1 <=> i \in 1 .. m \/ i = m + 1
    BY <1>7
  <2>2. {g[i] : i \in 1 .. m + 1} = starts
    BY <1>10, <1>11, <2>1
  <2>3. \A i \in 1 .. m + 1 : g[i] \in starts
    BY <2>2
  <2>. HIDE DEF starts
  <2>. QED  BY <1>11, <2>2, <2>3
<1>13. Len(Packets(t, down)) = m /\ Len(Gaps(t, down)) = m - 1
  BY <1>7, <1>8, <1>9
<1>14. ASSUME NEW i \in 1 .. m
       PROVE  g[i] < g[i + 1] /\ Packets(t, down)[i] = g[i + 1] - g[i]
  <2>1. CASE i = m
    <3>0. Packets(t, down)[i] = s.run
      BY <1>7, <1>9, <2>1, AppendProperties
    <3>1. Packets(t, down)[i] = s.run /\ g[i] = first[m] /\ g[i + 1] = n + 1 /\ first[m] \in 1 .. n
      BY <1>7, <1>10, <1>11, <2>1, <3>0
    <3>. QED  BY <1>1, <1>8, <3>1 DEF n
  <2>2. CASE i \in 1 .. m - 1
    <3>0. i + 1 \in 1 .. m
      BY <1>7, <2>2
    <3>1. g[i] = first[i] /\ g[i + 1] = first[i + 1]
      BY <1>11, <3>0
    <3>2. Packets(t, down)[i] = s.runs[i]
      BY <1>7, <1>9, <2>2
    <3>. QED  BY <1>8, <1>10, <2>2, <3>0, <3>1, <3>2
  <2>. QED  BY <1>7, <2>1, <2>2
<1>15. ASSUME NEW i \in 1 .. m - 1
       PROVE  Gaps(t, down)[i] = t[g[i + 1]] - t[g[i + 1] - 1]
  <2>1. i + 1 \in 1 .. m
    BY <1>7
  <2>. QED  BY <1>8, <1>9, <1>11, <2>1
<1>. HIDE DEF starts
<1>16. \E h \in [1 .. m + 1 -> starts] :
          /\ {h[i] : i \in 1 .. m + 1} = starts
          /\ \A i \in 1 .. m : h[i] < h[i + 1] /\ Packets(t, down)[i] = h[i + 1] - h[i]
          /\ \A i \in 1 .. m - 1 : Gaps(t, down)[i] = t[h[i + 1]] - t[h[i + 1] - 1]
  BY <1>12, <1>14, <1>15
<1>. QED  BY <1>13, <1>16, Zenon DEF CutAtGaps, starts, n

-----------------------------------------------------------------------------
(* The points of incremental frames.                                       *)

(* The indices of a frame rise. *)
RisingIdx == {idx \in Seq(Nat) : \A i, j \in 1 .. Len(idx) : i < j => idx[i] < idx[j]}

FrameSet ==
  [kind : {"indexed", "plain"}, idx : RisingIdx] \cup {[kind |-> "other", idx |-> <<>>]}

(* What the loop of run_ws keeps.                                          *)
CountState == [frames : Nat, pts : Nat, jumps : Nat, last_idx : Int, raised : BOOLEAN]
CountInit == [frames |-> 0, pts |-> 0, jumps |-> 0, last_idx |-> None, raised |-> FALSE]

(* v is what the loop has after each frame. *)
Counts(fs, v) ==
  /\ v \in [0 .. Len(fs) -> CountState] /\ v[0] = CountInit
  /\ \A k \in 1 .. Len(fs) : v[k] = Count(v[k - 1], fs[k])
  /\ Statistics(fs) = v[Len(fs)]

(* The types of a frame: no incremental one has no points.                 *)
LEMMA FrameFacts ==
  ASSUME NEW f \in FrameSet
  PROVE  /\ f.kind \in {"indexed", "plain", "other"} /\ f.idx \in RisingIdx
         /\ f.idx \in Seq(Nat) /\ Len(f.idx) \in Nat
         /\ f.kind = "other" => f.idx = <<>>
<1>1. <<>> \in RisingIdx
  BY DEF RisingIdx
<1>2. f.kind \in {"indexed", "plain", "other"} /\ f.idx \in RisingIdx
      /\ (f.kind = "other" => f.idx = <<>>)
  <2>1. CASE f \in [kind : {"indexed", "plain"}, idx : RisingIdx]
    BY <2>1
  <2>2. CASE f = [kind |-> "other", idx |-> <<>>]
    <3>1. f.kind = "other" /\ f.idx = <<>>
      BY <2>2
    <3>. QED  BY <1>1, <3>1
  <2>3. \/ f \in [kind : {"indexed", "plain"}, idx : RisingIdx]
        \/ f = [kind |-> "other", idx |-> <<>>]
    BY DEF FrameSet
  <2>. QED  BY <2>1, <2>2, <2>3, Zenon
<1>3. f.idx \in Seq(Nat)
  <2>1. RisingIdx \subseteq Seq(Nat)
    BY DEF RisingIdx
  <2>. QED  BY <1>2, <2>1
<1>4. Len(f.idx) \in Nat
  BY <1>3
<1>. QED  BY <1>2, <1>3, <1>4

(* A round leads from one such state to another.                           *)
LEMMA CountType ==
  ASSUME NEW s \in CountState, NEW f \in FrameSet
  PROVE  Count(s, f) \in CountState
<1>1. f.idx \in Seq(Nat) /\ f.kind \in {"indexed", "plain", "other"} /\ Len(f.idx) \in Nat
  BY FrameFacts
<1>2. CASE s.raised \/ f.kind = "other"
  BY <1>2 DEF Count
<1>3. CASE ~(s.raised \/ f.kind = "other") /\ FrameRaises(f)
  <2>1. Count(s, f) = [s EXCEPT !.frames = @ + 1, !.raised = TRUE]
    BY <1>3 DEF Count
  <2>2. Count(s, f) = [frames |-> s.frames + 1, pts |-> s.pts, jumps |-> s.jumps,
                       last_idx |-> s.last_idx, raised |-> TRUE]
    BY <2>1 DEF CountState
  <2>. HIDE DEF Count
  <2>. QED  BY <2>2 DEF CountState
<1>4. CASE ~(s.raised \/ f.kind = "other") /\ ~FrameRaises(f)
  <2>. DEFINE j == IF f.kind = "indexed" /\ GoesBack(f.idx[1], s.last_idx)
                     THEN s.jumps + 1 ELSE s.jumps
              l == IF f.kind = "indexed" THEN f.idx[Len(f.idx)] ELSE s.last_idx
  <2>1. Count(s, f) = [frames |-> s.frames + 1, pts |-> s.pts + Len(f.idx), jumps |-> j,
                       last_idx |-> l, raised |-> FALSE]
    BY <1>4 DEF Count
  <2>2. j \in Nat
    BY DEF CountState
  <2>3. l \in Int
    <3>1. f.kind = "indexed" => Len(f.idx) \in 1 .. Len(f.idx)
      BY <1>1, <1>4 DEF FrameRaises
    <3>. QED  BY <1>1, <3>1 DEF CountState
  <2>. HIDE DEF j, l
  <2>. QED  BY <1>1, <2>1, <2>2, <2>3 DEF CountState
<1>. QED  BY <1>2, <1>3, <1>4

(* The rounds of the loop exist, one for each frame.                       *)
LEMMA CountLoop ==
  ASSUME NEW fs \in Seq(FrameSet)
  PROVE  \E v : Counts(fs, v)
<1>. DEFINE n == Len(fs)
            F(k) == IF k \in 1 .. n THEN fs[k] ELSE [kind |-> "other", idx |-> <<>>]
            G == [p \in Nat \X CountState |-> Count(p[2], F(p[1]))]
            Body(f, k) == IF k = 0 THEN CountInit ELSE Count(f[k - 1], fs[k])
            Loop(f) == f = [k \in 0 .. n |-> Body(f, k)]
<1>1. n \in Nat /\ \A k \in 1 .. n : fs[k] \in FrameSet
  OBVIOUS
<1>2. CountInit \in CountState
  BY DEF CountInit, CountState, None
<1>3. Statistics(fs) = (CHOOSE f : Loop(f))[n]
  BY Zenon DEF Statistics, CountInit
<1>. HIDE DEF n
<1>4. G \in [Nat \X CountState -> CountState]
  <2>1. \A k : F(k) \in FrameSet
    BY <1>1 DEF FrameSet
  <2>. HIDE DEF F
  <2>. SUFFICES ASSUME NEW p \in Nat \X CountState PROVE Count(p[2], F(p[1])) \in CountState
    BY Zenon
  <2>. QED  BY <2>1, CountType
<1>5. PICK f : IsRun(f, CountState, CountInit, n, G)
  <2>. HIDE DEF G
  <2>. QED  BY <1>1, <1>2, <1>4, LoopRuns, Zenon
<1>6. f \in [0 .. n -> CountState] /\ f[0] = CountInit
  BY <1>5 DEF IsRun
<1>7. ASSUME NEW k \in 1 .. n
      PROVE  f[k] = Count(f[k - 1], fs[k])
  <2>1. f[k] = G[<<k, f[k - 1]>>]
    BY <1>5 DEF IsRun
  <2>2. <<k, f[k - 1]>> \in Nat \X CountState
    <3>. HIDE DEF G
    <3>. QED  BY <1>1, <1>6
  <2>3. f[k] = Count(f[k - 1], F(k))
    <3>. HIDE DEF F
    <3>. QED  BY <2>1, <2>2
  <2>4. F(k) = fs[k]
    OBVIOUS
  <2>. HIDE DEF F, G
  <2>. QED  BY <2>3, <2>4
<1>8. Loop(f)
  <2>1. ASSUME NEW k \in 0 .. n PROVE f[k] = Body(f, k)
    <3>1. k # 0 => k \in 1 .. n
      BY <1>1
    <3>. QED  BY <1>6, <1>7, <3>1
  <2>2. f = [k \in 0 .. n |-> f[k]]
    BY <1>6
  <2>. HIDE DEF Body
  <2>. QED  BY <2>1, <2>2
<1>. DEFINE v == CHOOSE h : Loop(h)
<1>9. Loop(v)
  <2>. HIDE DEF Loop
  <2>. QED  BY <1>8, Zenon
<1>10. Statistics(fs) = v[n]
  BY <1>3
<1>. HIDE DEF v
<1>11. v = [k \in 0 .. n |-> v[k]] /\ \A k \in 0 .. n : v[k] = Body(v, k)
  <2>. HIDE DEF Body
  <2>. QED  BY <1>9
<1>12. \A k \in 0 .. n : v[k] = f[k]
  <2>. DEFINE A == {k \in Nat : k <= n => v[k] = f[k]}
  <2>1. 0 \in A
    <3>1. 0 \in 0 .. n
      BY <1>1
    <3>2. v[0] = Body(v, 0)
      <4>. HIDE DEF Body
      <4>. QED  BY <1>11, <3>1
    <3>. QED  BY <1>6, <3>2
  <2>2. ASSUME NEW k \in Nat, k \in A PROVE k + 1 \in A
    <3>. SUFFICES ASSUME k + 1 <= n PROVE v[k + 1] = f[k + 1]
      OBVIOUS
    <3>1. k + 1 \in 1 .. n /\ k + 1 \in 0 .. n /\ (k + 1) - 1 = k /\ k + 1 # 0 /\ k <= n
      BY <1>1
    <3>2. v[k + 1] = Body(v, k + 1)
      <4>. HIDE DEF Body
      <4>. QED  BY <1>11, <3>1
    <3>3. v[k] = f[k]
      BY <2>2, <3>1
    <3>4. f[k + 1] = Count(f[k], fs[k + 1])
      BY <1>7, <3>1
    <3>. QED  BY <3>1, <3>2, <3>3, <3>4
  <2>3. Nat \subseteq A
    <3>. HIDE DEF A
    <3>. QED  BY <2>1, <2>2, Induction
  <2>. QED  BY <1>1, <2>3
<1>13. v = f
  BY <1>6, <1>11, <1>12
<1>. QED  BY <1>6, <1>7, <1>10, <1>13 DEF Counts, n

(* The indices of one frame, and of the first k of a sequence.             *)
Indexes(f) == {f.idx[j] : j \in DOMAIN f.idx}
IndexesOf(fs, k) == UNION {Indexes(fs[i]) : i \in 1 .. k}

(* A frame has as many indices as points, and its last is the largest.     *)
LEMMA RisingFacts ==
  ASSUME NEW idx \in RisingIdx
  PROVE  LET I == {idx[j] : j \in DOMAIN idx}
         IN /\ IsFiniteSet(I) /\ Cardinality(I) = Len(idx) /\ I \subseteq Nat
            /\ \A x \in I : idx[1] <= x /\ x <= idx[Len(idx)]
<1>. DEFINE I == {idx[j] : j \in DOMAIN idx}
            n == Len(idx)
<1>1. /\ n \in Nat /\ DOMAIN idx = 1 .. n /\ idx \in [1 .. n -> Nat]
      /\ \A i, j \in 1 .. n : i < j => idx[i] < idx[j]
  BY DEF RisingIdx
<1>. HIDE DEF n
<1>2. \A i \in 1 .. n : idx[i] \in Nat /\ i \in Int
  BY <1>1
<1>3. ASSUME NEW i \in 1 .. n, NEW j \in 1 .. n, idx[i] = idx[j] PROVE i = j
  <2>1. ~(i < j) /\ ~(j < i)
    BY <1>1, <1>2, <1>3
  <2>. QED  BY <1>2, <2>1
<1>4. IsFiniteSet(1 .. n) /\ Cardinality(1 .. n) = n
  <2>1. 1 \in Int /\ n \in Int
    BY <1>1
  <2>2. IsFiniteSet(1 .. n) /\ Cardinality(1 .. n) = IF 1 > n THEN 0 ELSE n - 1 + 1
    BY <2>1, FS_Interval
  <2>. QED  BY <1>1, <2>2
<1>5. ExistsBijection(1 .. n, I)
  <2>1. idx \in [1 .. n -> I]
    BY <1>1
  <2>2. \A x \in I : \E i \in 1 .. n : idx[i] = x
    BY <1>1
  <2>3. IsInjective(idx)
    BY <1>1, <1>3 DEF IsInjective
  <2>4. idx \in Bijection(1 .. n, I)
    BY <2>1, <2>2, <2>3 DEF Bijection, Injection, Surjection
  <2>. QED  BY <2>4 DEF ExistsBijection
<1>6. IsFiniteSet(I) /\ Cardinality(I) = n
  <2>. HIDE DEF I
  <2>. QED  BY <1>4, <1>5, FS_Bijection
<1>7. ASSUME NEW j \in 1 .. n PROVE idx[1] <= idx[j] /\ idx[j] <= idx[n]
  <2>1. 1 \in 1 .. n /\ n \in 1 .. n /\ 1 <= j /\ j <= n
    BY <1>1
  <2>2. j = 1 \/ idx[1] < idx[j]
    BY <1>1, <2>1
  <2>3. j = n \/ idx[j] < idx[n]
    BY <1>1, <2>1
  <2>. QED  BY <1>2, <2>1, <2>2, <2>3
<1>8. I \subseteq Nat
  BY <1>1
<1>9. \A x \in I : idx[1] <= x /\ x <= idx[n]
  BY <1>1, <1>7
<1>. QED  BY <1>6, <1>8, <1>9 DEF n

(* Every point that was counted has an index of its own, and none is above *)
(* the last.                                                               *)
Exact(s, I) ==
  ~s.raised /\ s.jumps = 0 =>
    /\ IsFiniteSet(I) /\ Cardinality(I) = s.pts
    /\ I \subseteq Nat /\ \A x \in I : x <= s.last_idx

(* A frame that is counted keeps it.                                       *)
LEMMA ExactStep ==
  ASSUME NEW s \in CountState, NEW f \in FrameSet, f.kind # "plain",
         NEW I, Exact(s, I)
  PROVE  Exact(Count(s, f), I \cup Indexes(f))
<1>. DEFINE s1 == Count(s, f)
<1>1. f.idx \in RisingIdx /\ f.idx \in Seq(Nat) /\ Len(f.idx) \in Nat
  BY FrameFacts
<1>2. CASE f.kind = "other"
  <2>1. Indexes(f) = {}
    BY <1>2, FrameFacts DEF Indexes
  <2>2. s1 = s /\ I \cup Indexes(f) = I
    BY <1>2, <2>1 DEF Count
  <2>. QED  BY <2>2
<1>3. CASE f.kind = "indexed" /\ (s.raised \/ FrameRaises(f))
  <2>1. s1.raised
    BY <1>3 DEF Count, CountState
  <2>. QED  BY <2>1 DEF Exact
<1>4. CASE f.kind = "indexed" /\ ~s.raised /\ ~FrameRaises(f)
  <2>. DEFINE first == f.idx[1]
              last == f.idx[Len(f.idx)]
  <2>1. Len(f.idx) >= 1 /\ first \in Nat /\ last \in Nat
    BY <1>1, <1>4 DEF FrameRaises
  <2>2. s1 = [frames |-> s.frames + 1, pts |-> s.pts + Len(f.idx),
              jumps |-> IF GoesBack(first, s.last_idx) THEN s.jumps + 1 ELSE s.jumps,
              last_idx |-> last, raised |-> FALSE]
    BY <1>4, Zenon DEF Count
  <2>3. /\ s1.pts = s.pts + Len(f.idx) /\ s1.last_idx = last
        /\ s1.jumps = IF GoesBack(first, s.last_idx) THEN s.jumps + 1 ELSE s.jumps
    BY <2>2
  <2>. HIDE DEF s1, first, last
  <2>. SUFFICES ASSUME s1.jumps = 0
                PROVE  LET J == I \cup Indexes(f)
                       IN /\ IsFiniteSet(J) /\ Cardinality(J) = s1.pts
                          /\ J \subseteq Nat /\ \A x \in J : x <= s1.last_idx
    BY DEF Exact, s1
  <2>4. s.jumps = 0 /\ ~GoesBack(first, s.last_idx)
    BY <2>3 DEF CountState
  <2>5. /\ IsFiniteSet(I) /\ Cardinality(I) = s.pts
        /\ I \subseteq Nat /\ \A x \in I : x <= s.last_idx
    BY <1>4, <2>4 DEF Exact
  <2>6. /\ IsFiniteSet(Indexes(f)) /\ Cardinality(Indexes(f)) = Len(f.idx)
        /\ Indexes(f) \subseteq Nat /\ \A x \in Indexes(f) : first <= x /\ x <= last
    BY <1>1, RisingFacts DEF Indexes, first, last
  <2>7. \A x \in I : x < first
    BY <2>1, <2>4, <2>5 DEF GoesBack, None, CountState
  <2>8. I \cap Indexes(f) = {}
    <3>. SUFFICES ASSUME NEW x \in I, x \in Indexes(f) PROVE FALSE
      OBVIOUS
    <3>1. x \in Nat /\ x < first /\ first <= x
      BY <2>5, <2>6, <2>7
    <3>. QED  BY <2>1, <3>1
  <2>9. /\ IsFiniteSet(I \cup Indexes(f))
        /\ Cardinality(I \cup Indexes(f)) = Cardinality(I) + Cardinality(Indexes(f)) - Cardinality({})
    <3>. DEFINE J == Indexes(f)
    <3>1. IsFiniteSet(I) /\ IsFiniteSet(J) /\ I \cap J = {}
      BY <2>5, <2>6, <2>8
    <3>. HIDE DEF J
    <3>2. /\ IsFiniteSet(I \cup J)
          /\ Cardinality(I \cup J) = Cardinality(I) + Cardinality(J) - Cardinality(I \cap J)
      BY <3>1, FS_Union, Zenon
    <3>. QED  BY <3>1, <3>2 DEF J
  <2>10. Cardinality(I \cup Indexes(f)) = s1.pts
    BY <1>1, <2>3, <2>5, <2>6, <2>9, FS_EmptySet DEF CountState
  <2>11. \A x \in I \cup Indexes(f) : x \in Nat /\ x <= last
    <3>1. ASSUME NEW x \in I PROVE x \in Nat /\ x <= last
      <4>1. x \in Nat /\ x < first
        BY <2>5, <2>7
      <4>2. first <= last
        <5>1. first \in Indexes(f)
          BY <1>1, <2>1 DEF Indexes, first
        <5>. QED  BY <2>6, <5>1
      <4>. QED  BY <2>1, <4>1, <4>2
    <3>. QED  BY <2>6, <3>1
  <2>. QED  BY <2>3, <2>9, <2>10, <2>11
<1>. QED  BY <1>2, <1>3, <1>4, FrameFacts

(* If no frame went back and none raised, no point was counted twice and   *)
(* none was missed, in every sequence of frames each of which has rising   *)
(* indices.                                                                *)
THEOREM NoPointTwice ==
  ASSUME NEW fs \in Seq(FrameSet), \A i \in DOMAIN fs : fs[i].kind # "plain",
         Statistics(fs).jumps = 0, ~Statistics(fs).raised
  PROVE  Statistics(fs).pts = Cardinality(IndexesOf(fs, Len(fs)))
<1>. DEFINE n == Len(fs)
<1>1. n \in Nat /\ \A k \in 1 .. n : fs[k] \in FrameSet /\ fs[k].kind # "plain"
  OBVIOUS
<1>2. PICK v : Counts(fs, v)
  BY CountLoop
<1>3. /\ v \in [0 .. n -> CountState] /\ v[0] = CountInit
      /\ \A k \in 1 .. n : v[k] = Count(v[k - 1], fs[k])
      /\ Statistics(fs) = v[n]
  BY <1>2 DEF Counts
<1>. HIDE DEF n
<1>. DEFINE A == {k \in Nat : k <= n => Exact(v[k], IndexesOf(fs, k))}
<1>4. 0 \in A
  <2>1. IndexesOf(fs, 0) = {}
    BY DEF IndexesOf
  <2>2. Exact(CountInit, {})
    BY FS_EmptySet DEF Exact, CountInit
  <2>. QED  BY <1>3, <2>1, <2>2
<1>5. ASSUME NEW k \in Nat, k \in A PROVE k + 1 \in A
  <2>. SUFFICES ASSUME k + 1 <= n PROVE Exact(v[k + 1], IndexesOf(fs, k + 1))
    OBVIOUS
  <2>1. k + 1 \in 1 .. n /\ k \in 0 .. n /\ k <= n /\ (k + 1) - 1 = k
    BY <1>1
  <2>2. v[k] \in CountState /\ v[k + 1] = Count(v[k], fs[k + 1]) /\ Exact(v[k], IndexesOf(fs, k))
    BY <1>3, <1>5, <2>1
  <2>3. IndexesOf(fs, k + 1) = IndexesOf(fs, k) \cup Indexes(fs[k + 1])
    <3>1. \A i : i \in 1 .. k + 1 <=> (i \in 1 .. k \/ i = k + 1)
      OBVIOUS
    <3>. QED  BY <3>1 DEF IndexesOf
  <2>. HIDE DEF A
  <2>. QED  BY <1>1, <2>1, <2>2, <2>3, ExactStep
<1>6. Nat \subseteq A
  <2>. HIDE DEF A
  <2>. QED  BY <1>4, <1>5, Induction
<1>7. Exact(v[n], IndexesOf(fs, n))
  BY <1>1, <1>6
<1>. QED  BY <1>3, <1>7 DEF Exact, n

-----------------------------------------------------------------------------
(* The behaviors of MCAlgorithms: an input is picked once.                 *)

(* A sequence that a bound allows is one, and no longer than the bound.    *)
LEMMA UptoFacts ==
  ASSUME NEW S, NEW s \in Upto(S)
  PROVE  s \in Seq(S) /\ Len(s) \in 0 .. MaxLen /\ DOMAIN s = 1 .. Len(s)
<1>1. PICK n \in 0 .. MaxLen : s \in [1 .. n -> S]
  BY DEF Upto, UptoLen
<1>2. n \in Nat
  BY BoundsAssumption
<1>. QED  BY <1>1, <1>2

(* Every step picks an input of one kind, or nothing. *)
LEMMA Kinds ==
  ASSUME [Next]_input
  PROVE  \/ UNCHANGED input
         \/ PickPayload /\ input'.kind = "payload"
         \/ PickRandom  /\ input'.kind = "random"
         \/ PickModule  /\ input'.kind = "module"
         \/ PickRecords /\ input'.kind = "records"
         \/ PickCurve   /\ input'.kind = "curve"
         \/ PickFrames  /\ input'.kind = "frames"
         \/ PickList    /\ input'.kind = "list"
<1>1. PickPayload => input'.kind = "payload"
  BY DEF PickPayload
<1>2. PickRandom => input'.kind = "random"
  <2>. SUFFICES ASSUME PickRandom PROVE input'.kind = "random"
    OBVIOUS
  <2>1. \E payload : input' = [kind |-> "random", payload |-> payload]
    BY DEF PickRandom
  <2>. QED  BY <2>1
<1>3. PickModule => input'.kind = "module"
  BY DEF PickModule
<1>4. PickRecords => input'.kind = "records"
  BY DEF PickRecords
<1>5. PickCurve => input'.kind = "curve"
  BY DEF PickCurve
<1>6. PickFrames => input'.kind = "frames"
  BY DEF PickFrames
<1>7. PickList => input'.kind = "list"
  BY DEF PickList
<1>. QED  BY <1>1, <1>2, <1>3, <1>4, <1>5, <1>6, <1>7 DEF Next, Done

(* TestsAreSharp, if there may be at least 2 and at most 31 steps (the     *)
(* code's MAX_STEPS_PER_SPEC is 8).                                        *)
THEOREM NegativeTestsAreSharp ==
  ASSUME MaxSteps \in 2 .. 31
  PROVE  Spec => []TestsAreSharp
<1>1. Init => TestsAreSharp
  BY DEF Init, NoInput, TestsAreSharp
<1>2. TestsAreSharp /\ [Next]_input => TestsAreSharp'
  <2>. SUFFICES ASSUME TestsAreSharp, [Next]_input, input'.kind = "payload"
                PROVE  Broken(input'.payload) = input'.rules
    BY DEF TestsAreSharp
  <2>1. CASE UNCHANGED input
    BY <2>1 DEF TestsAreSharp
  <2>2. CASE PickPayload
    <3>1. ASSUME NEW p, NEW R, input' = [kind |-> "payload", payload |-> p, rules |-> R],
                 Broken(p) = R
          PROVE  Broken(input'.payload) = input'.rules
      BY <3>1
    <3>2. MaxSteps >= 2
      OBVIOUS
    <3>3. \A t \in NegativeTests : Broken(t.payload) = {t.rule}
      <4>. DEFINE Sharp(t) == Broken(t.payload) = {t.rule}
      <4>1. ASSUME NEW r, NEW p, Broken(p) = {r}
            PROVE  Sharp([rule |-> r, payload |-> p])
        BY <4>1
      <4>. HIDE DEF Sharp
      <4>2. /\ Sharp([rule |-> "percent",
                       payload |-> [Default EXCEPT !.detail.vel_limit_torque_percent = 101]])
            /\ Sharp([rule |-> "gyrometer",
                       payload |-> [Default EXCEPT !.detail.gyrometer_start_angle = 91]])
            /\ Sharp([rule |-> "gyrometer",
                       payload |-> [Default EXCEPT !.detail.gyrometer_stop_angle = 91]])
            /\ Sharp([rule |-> "confirm", payload |-> [Default EXCEPT !.detail.confirm_cnt = 0]])
        BY <4>1, DetailTests
      <4>3. /\ Sharp([rule |-> "window",
                       payload |-> [Default EXCEPT !.detail.window.torque = Window(200, 250, 300),
                                                   !.steps[1].ref.torque = 310]])
            /\ Sharp([rule |-> "window",
                       payload |-> [Default EXCEPT !.detail.window.time = Window(100, 200, 250),
                                                   !.steps[1].ref.time = 260]])
        BY <4>1, WindowTests
      <4>4. /\ Sharp([rule |-> "condition", payload |-> [Default EXCEPT !.steps = <<NoCondition>>]])
            /\ \A bad \in BadFlags :
                 Sharp([rule |-> "flag", payload |-> [Default EXCEPT !.steps[1].ok_if[1] = bad]])
        BY <4>1, FlagTests
      <4>5. /\ Sharp([rule |-> "step_count", payload |-> [Default EXCEPT !.steps = <<>>]])
            /\ Sharp([rule |-> "step_count",
                       payload |-> [Default EXCEPT !.steps = <<BaseStep, BaseStep>>]])
            /\ Sharp([rule |-> "step_count",
                       payload |-> [WithSteps(2) EXCEPT !.steps = <<BaseStep>>]])
            /\ Sharp([rule |-> "exempt",
                       payload |-> [WithSteps(2) EXCEPT !.detail.prog_start_valid_step = 2]])
            /\ Sharp([rule |-> "condition",
                       payload |-> [WithSteps(2) EXCEPT !.steps = <<BaseStep, NoCondition>>]])
        BY <3>2, <4>1, StepTests
      <4>6. Sharp([rule |-> "flag", payload |-> ComplexFull])
        BY <4>1, ComplexTest
      <4>7. \A t \in NegativeTests : Sharp(t)
        <5>. DEFINE FlagOnes == {[rule |-> "flag",
                                  payload |-> [Default EXCEPT !.steps[1].ok_if[1] = bad]] :
                                   bad \in BadFlags}
                    DetailOnes == {
                      [rule |-> "percent",
                       payload |-> [Default EXCEPT !.detail.vel_limit_torque_percent = 101]],
                      [rule |-> "gyrometer",
                       payload |-> [Default EXCEPT !.detail.gyrometer_start_angle = 91]],
                      [rule |-> "gyrometer",
                       payload |-> [Default EXCEPT !.detail.gyrometer_stop_angle = 91]],
                      [rule |-> "confirm", payload |-> [Default EXCEPT !.detail.confirm_cnt = 0]]}
                    WindowOnes == {
                      [rule |-> "window",
                       payload |-> [Default EXCEPT !.detail.window.torque = Window(200, 250, 300),
                                                   !.steps[1].ref.torque = 310]],
                      [rule |-> "window",
                       payload |-> [Default EXCEPT !.detail.window.time = Window(100, 200, 250),
                                                   !.steps[1].ref.time = 260]]}
                    StepOnes == {
                      [rule |-> "step_count", payload |-> [Default EXCEPT !.steps = <<>>]],
                      [rule |-> "step_count",
                       payload |-> [Default EXCEPT !.steps = <<BaseStep, BaseStep>>]],
                      [rule |-> "step_count",
                       payload |-> [WithSteps(2) EXCEPT !.steps = <<BaseStep>>]],
                      [rule |-> "exempt",
                       payload |-> [WithSteps(2) EXCEPT !.detail.prog_start_valid_step = 2]],
                      [rule |-> "condition",
                       payload |-> [WithSteps(2) EXCEPT !.steps = <<BaseStep, NoCondition>>]]}
                    OtherOnes == {
                      [rule |-> "condition", payload |-> [Default EXCEPT !.steps = <<NoCondition>>]],
                      [rule |-> "flag", payload |-> ComplexFull]}
        <5>1. \A t \in FlagOnes : Sharp(t)
          BY <4>4, Zenon
        <5>2. \A t \in DetailOnes : Sharp(t)
          BY <4>2, Zenon
        <5>3. \A t \in WindowOnes : Sharp(t)
          BY <4>3
        <5>4. \A t \in StepOnes : Sharp(t)
          BY <4>5, Zenon
        <5>5. \A t \in OtherOnes : Sharp(t)
          BY <4>4, <4>6, Zenon
        <5>6. NegativeTests
                \subseteq FlagOnes \cup DetailOnes \cup WindowOnes \cup StepOnes \cup OtherOnes
          BY Zenon DEF NegativeTests, ComplexFullTest, BadFlags
        <5>. HIDE DEF FlagOnes, DetailOnes, WindowOnes, StepOnes, OtherOnes
        <5>. QED  BY <5>1, <5>2, <5>3, <5>4, <5>5, <5>6
      <4>. QED  BY <4>7 DEF Sharp
    <3>4. \A p \in PositiveTests \cup {Default} : Broken(p) = {}
      BY <3>2, FlagTests, StepTests DEF PositiveTests, GoodFlags
    <3>5. \A n \in -1 .. MaxSteps + 1 : Broken(WithSteps(n)) = {}
      BY WithStepsIsLegal, LimitsAssumption
    <3>6. PICK c \in {<<t.payload, {t.rule}>> : t \in NegativeTests}
                       \cup {<<p, {}>> : p \in PositiveTests \cup {Default}}
                       \cup {<<WithSteps(n), {}>> : n \in -1 .. MaxSteps + 1} :
            input' = [kind |-> "payload", payload |-> c[1], rules |-> c[2]]
      BY <2>2 DEF PickPayload
    <3>7. Broken(c[1]) = c[2]
      BY <3>3, <3>4, <3>5
    <3>. QED  BY <3>1, <3>6, <3>7
  <2>. QED  BY <2>1, <2>2, Kinds
<1>. QED  BY <1>1, <1>2, PTL DEF Spec

(* RandomIsSafe, for every limit of steps. *)
THEOREM RandomIsAlwaysSafe == Spec => []RandomIsSafe
<1>1. Init => RandomIsSafe
  BY DEF Init, NoInput, RandomIsSafe
<1>2. RandomIsSafe /\ [Next]_input => RandomIsSafe'
  <2>. SUFFICES ASSUME RandomIsSafe, [Next]_input, input'.kind = "random"
                PROVE  /\ \A q \in Quantities : WindowOrdered(input'.payload.detail.window[q])
                       /\ Broken(input'.payload) \subseteq {"window", "flag", "condition"}
    BY DEF RandomIsSafe
  <2>1. CASE UNCHANGED input
    BY <2>1 DEF RandomIsSafe
  <2>2. CASE PickRandom
    <3>1. PICK t \in TorqueDraws, o \in OtherDraws, n \in {1, MaxSteps},
               first \in StepDraws, others \in StepDraws, start \in {0, 30}, stop \in {0, 90} :
            input' = [kind |-> "random",
                      payload |-> RandomSpec(
                        [confirm |-> 1, percent |-> 100, start_angle |-> start,
                         stop_angle |-> stop,
                         window |-> [q \in Quantities |-> IF q = "torque" THEN t ELSE o],
                         steps |-> [i \in 1 .. n |-> IF i = 1 THEN first ELSE others]])]
      BY <2>2 DEF PickRandom
    <3>. DEFINE w == [q \in Quantities |-> IF q = "torque" THEN t ELSE o]
                steps == [i \in 1 .. n |-> IF i = 1 THEN first ELSE others]
                d == [confirm |-> 1, percent |-> 100, start_angle |-> start,
                      stop_angle |-> stop, window |-> w, steps |-> steps]
    <3>2. input'.payload = RandomSpec(d)
      BY <3>1
    <3>3. \A q \in Quantities :
            /\ w[q] \in [low : Int, width : Nat, offset : Nat]
            /\ w[q].offset <= Limits(q, w[q]).max - Limits(q, w[q]).min
      <4>1. t \in [low : Int, width : Nat, offset : Nat]
            /\ t.offset <= Limits("torque", t).max - Limits("torque", t).min
        BY DEF TorqueDraws
      <4>2. ASSUME NEW q \in Quantities, q # "torque"
            PROVE  /\ o \in [low : Int, width : Nat, offset : Nat]
                   /\ o.offset <= Limits(q, o).max - Limits(q, o).min
        <5>1. o.low = 200 /\ o.width = 500 /\ o.offset \in {0, 500}
              /\ o \in [low : Int, width : Nat, offset : Nat]
          BY DEF OtherDraws
        <5>2. Limits(q, o).min = 200 /\ Limits(q, o).max = 700
          BY <4>2, <5>1 DEF Limits, Rounded
        <5>. QED  BY <5>1, <5>2
      <4>. QED  BY <4>1, <4>2
    <3>4. Drawn(d)
      <4>1. Len(steps) \in 1 .. MaxSteps
        BY LimitsAssumption
      <4>2. /\ d.confirm = 1 /\ d.percent = 100 /\ d.window = w /\ d.steps = steps
            /\ d.start_angle = start /\ d.stop_angle = stop
        OBVIOUS
      <4>. HIDE DEF d, w, steps
      <4>. QED  BY <3>3, <4>1, <4>2 DEF Drawn
    <3>. HIDE DEF d
    <3>. QED  BY <3>2, <3>4, RandomIsOrdered
  <2>. QED  BY <2>1, <2>2, Kinds
<1>. QED  BY <1>1, <1>2, PTL DEF Spec

(* ModulesFit, for every limit of points. *)
THEOREM ModulesAlwaysFit == Spec => []ModulesFit
<1>1. Init => ModulesFit
  BY DEF Init, NoInput, ModulesFit
<1>2. ModulesFit /\ [Next]_input => ModulesFit'
  <2>. SUFFICES ASSUME ModulesFit, [Next]_input, input'.kind = "module"
                PROVE  \A m \in {Manual([i \in 1 .. input'.n |-> i]), TorqueArm(input'.n)} :
                         ModuleFits(m)
    BY DEF ModulesFit
  <2>1. CASE UNCHANGED input
    BY <2>1 DEF ModulesFit
  <2>2. CASE PickModule
    <3>1. input'.n \in Nat
      BY <2>2, LimitsAssumption DEF PickModule
    <3>. DEFINE n == input'.n
    <3>. HIDE DEF n
    <3>2. n \in Int /\ [i \in 1 .. n |-> i] \in Seq(Nat)
      BY <3>1 DEF n
    <3>3. ModuleFits(Manual([i \in 1 .. n |-> i])) /\ ModuleFits(TorqueArm(n))
      BY <3>2, EveryModuleFits
    <3>. QED  BY <3>3 DEF n
  <2>. QED  BY <2>1, <2>2, Kinds
<1>. QED  BY <1>1, <1>2, PTL DEF Spec

(* DegradationsAreTold, for runs of any length and times. *)
THEOREM DegradationsAreAlwaysTold == Spec => []DegradationsAreTold
<1>1. Init => DegradationsAreTold
  BY DEF Init, NoInput, DegradationsAreTold
<1>. DEFINE Told(r, b) ==
  LET c == Compare(r, b)
      Last(i, j) == /\ b[j].name = r[i].name
                    /\ \A l \in j + 1 .. Len(b) : b[l].name # r[i].name
  IN /\ c.raised <=> \E i \in DOMAIN r, j \in DOMAIN b :
                        Last(i, j) /\ b[j].elapsed_ms = 0 /\ r[i].elapsed_ms > 0
     /\ ~c.raised => c.told = {i \in DOMAIN r : \E j \in DOMAIN b :
                                Last(i, j) /\ 2 * r[i].elapsed_ms > 3 * b[j].elapsed_ms}
<1>2. ASSUME NEW r \in Seq(Records(Names)), NEW b \in Seq(Records(Names)) PROVE Told(r, b)
  <2>1. /\ Compare(r, b).raised <=> \E i \in DOMAIN r : FailsOn(r, b, i)
        /\ ~Compare(r, b).raised => Compare(r, b).told = {i \in DOMAIN r : Beyond(r, b, i)}
    BY ComparisonTells
  <2>. QED  BY <2>1, Zenon DEF FailsOn, Beyond, LastOf
<1>3. DegradationsAreTold <=> (input.kind = "records" => Told(input.records, input.baseline))
  BY DEF DegradationsAreTold
<1>4. DegradationsAreTold' <=> (input'.kind = "records" => Told(input'.records, input'.baseline))
  BY DEF DegradationsAreTold
<1>. HIDE DEF Told
<1>5. DegradationsAreTold /\ [Next]_input => DegradationsAreTold'
  <2>. SUFFICES ASSUME DegradationsAreTold, [Next]_input, input'.kind = "records"
                PROVE  Told(input'.records, input'.baseline)
    BY <1>4
  <2>1. CASE UNCHANGED input
    BY <1>3, <2>1
  <2>2. CASE PickRecords
    <3>1. PICK r \in UptoLen(MaxRecords, Results), b \in UptoLen(MaxRecords, Results) :
            input' = [kind |-> "records", records |-> r, baseline |-> b]
      BY <2>2 DEF PickRecords
    <3>2. Results \subseteq Records(Names)
      <4>1. ASSUME NEW n \in Names, NEW ms \in Nat
            PROVE  Record(n, ms, 1) \in Records(Names)
        BY DEF Record, Records
      <4>2. 0 .. MaxTime \subseteq Nat
        OBVIOUS
      <4>. QED  BY <4>1, <4>2 DEF Results
    <3>3. UptoLen(MaxRecords, Results) \subseteq Seq(Records(Names))
      <4>1. ASSUME NEW n \in 0 .. MaxRecords, NEW s \in [1 .. n -> Results]
            PROVE  s \in Seq(Records(Names))
        <5>1. n \in Nat
          BY BoundsAssumption
        <5>. QED  BY <3>2, <5>1
      <4>. QED  BY <4>1 DEF UptoLen
    <3>4. input'.records = r /\ input'.baseline = b
      BY <3>1
    <3>. QED  BY <1>2, <3>3, <3>4
  <2>. QED  BY <2>1, <2>2, Kinds
<1>. QED  BY <1>1, <1>5, PTL DEF Spec

(* PacketsArePieces, for curves of any length. *)
THEOREM PacketsAreAlwaysPieces == Spec => []PacketsArePieces
<1>1. Init => PacketsArePieces
  BY DEF Init, NoInput, PacketsArePieces
<1>. DEFINE Cut(t, down) ==
  LET packets == Packets(t, down)
      gaps == Gaps(t, down)
      n == Len(packets)
      Apart(k) == t[k] - t[k - 1]
  IN /\ Len(gaps) = n - 1
     /\ \E even \in SUBSET {k \in 2 .. Len(t) : Apart(k) = PacketGap} :
          LET starts == {1, Len(t) + 1} \cup {k \in 2 .. Len(t) : Apart(k) > PacketGap} \cup even
          IN \E first \in [1 .. n + 1 -> starts] :
               /\ {first[i] : i \in 1 .. n + 1} = starts
               /\ \A i \in 1 .. n : /\ first[i] < first[i + 1]
                                   /\ packets[i] = first[i + 1] - first[i]
               /\ \A i \in 1 .. n - 1 : gaps[i] = Apart(first[i + 1])
<1>2. ASSUME NEW t \in Seq(Int), t # <<>>, NEW down PROVE Cut(t, down)
  <2>1. CutAtGaps(t, down)
    BY <1>2, CurveIsCut
  <2>. DEFINE even == {k \in 2 .. Len(t) : t[k] - t[k - 1] = PacketGap /\ k \notin down}
  <2>2. {1, Len(t) + 1} \cup {k \in 2 .. Len(t) : t[k] - t[k - 1] > PacketGap} \cup even
          = Starts(t, down, Len(t)) \cup {Len(t) + 1}
    <3>1. ASSUME NEW k \in 2 .. Len(t)
          PROVE  ~SamePacket(t[k] - t[k - 1], k \in down)
                   <=> (t[k] - t[k - 1] > PacketGap \/ k \in even)
      <4>1. t[k] - t[k - 1] \in Int
        OBVIOUS
      <4>. QED  BY <4>1, GapAssumption DEF SamePacket
    <3>. HIDE DEF even
    <3>2. even \subseteq 2 .. Len(t)
      BY DEF even
    <3>. QED  BY <3>1, <3>2 DEF Starts
  <2>3. even \in SUBSET {k \in 2 .. Len(t) : t[k] - t[k - 1] = PacketGap}
    OBVIOUS
  <2>. HIDE DEF even
  <2>. DEFINE starts == Starts(t, down, Len(t)) \cup {Len(t) + 1}
              n == Len(Packets(t, down))
              CutBy(S) == \E first \in [1 .. n + 1 -> S] :
                /\ {first[i] : i \in 1 .. n + 1} = S
                /\ \A i \in 1 .. n : /\ first[i] < first[i + 1]
                                    /\ Packets(t, down)[i] = first[i + 1] - first[i]
                /\ \A i \in 1 .. n - 1 :
                     Gaps(t, down)[i] = t[first[i + 1]] - t[first[i + 1] - 1]
  <2>4. Len(Gaps(t, down)) = n - 1 /\ CutBy(starts)
    BY <2>1, Zenon DEF CutAtGaps
  <2>5. CutBy({1, Len(t) + 1} \cup {k \in 2 .. Len(t) : t[k] - t[k - 1] > PacketGap} \cup even)
    <3>. HIDE DEF CutBy
    <3>. QED  BY <2>2, <2>4, Zenon
  <2>. QED  BY <2>3, <2>4, <2>5, Zenon
<1>3. PacketsArePieces <=> (input.kind = "curve" => Cut(input.t, input.down))
  BY DEF PacketsArePieces
<1>4. PacketsArePieces' <=> (input'.kind = "curve" => Cut(input'.t, input'.down))
  BY DEF PacketsArePieces
<1>. HIDE DEF Cut
<1>5. PacketsArePieces /\ [Next]_input => PacketsArePieces'
  <2>. SUFFICES ASSUME PacketsArePieces, [Next]_input, input'.kind = "curve"
                PROVE  Cut(input'.t, input'.down)
    BY <1>4
  <2>1. CASE UNCHANGED input
    BY <1>3, <2>1
  <2>2. CASE PickCurve
    <3>1. PICK s \in Upto(0 .. 2 * PacketGap) :
            /\ Len(s) >= 2
            /\ \E down : input' = [kind |-> "curve", t |-> s, down |-> down]
      BY <2>2 DEF PickCurve
    <3>2. s \in Seq(0 .. 2 * PacketGap)
      BY UptoFacts
    <3>3. 0 .. 2 * PacketGap \subseteq Int
      OBVIOUS
    <3>4. s \in Seq(Int)
      BY <3>2, <3>3, SeqMonotonic
    <3>5. s # <<>> /\ input'.t = s
      BY <3>1
    <3>. QED  BY <1>2, <3>4, <3>5
  <2>. QED  BY <2>1, <2>2, Kinds
<1>. QED  BY <1>1, <1>5, PTL DEF Spec

(* The frames of the model are frames. *)
LEMMA FramesAreFrames ==
  /\ Frames \subseteq FrameSet
  /\ \A f \in Frames : DOMAIN f.idx \subseteq 1 .. 2
<1>1. ASSUME NEW idx \in Indices
      PROVE  idx \in RisingIdx /\ DOMAIN idx \subseteq 1 .. 2
  <2>1. MaxTime \in Nat
    BY BoundsAssumption
  <2>2. CASE idx = <<>>
    BY <2>2 DEF RisingIdx
  <2>3. CASE idx \in {<<i>> : i \in 0 .. MaxTime}
    <3>1. PICK i \in 0 .. MaxTime : idx = <<i>>
      BY <2>3
    <3>. QED  BY <2>1, <3>1 DEF RisingIdx
  <2>4. CASE idx \in {<<i, i + 1>> : i \in 0 .. MaxTime - 1}
    <3>1. PICK i \in 0 .. MaxTime - 1 : idx = <<i, i + 1>>
      BY <2>4
    <3>2. i \in Nat /\ i + 1 \in Nat /\ i < i + 1
      BY <2>1
    <3>3. idx \in Seq(Nat) /\ Len(idx) = 2 /\ idx[1] = i /\ idx[2] = i + 1
      BY <3>1, <3>2
    <3>4. \A a, b \in 1 .. 2 : a < b => a = 1 /\ b = 2
      OBVIOUS
    <3>5. \A a, b \in 1 .. Len(idx) : a < b => idx[a] < idx[b]
      BY <3>2, <3>3, <3>4
    <3>6. idx \in RisingIdx
      BY <3>3, <3>5, Zenon DEF RisingIdx
    <3>7. DOMAIN idx = 1 .. 2
      BY <3>3
    <3>. QED  BY <3>6, <3>7
  <2>. QED  BY <2>2, <2>3, <2>4, Zenon DEF Indices
<1>2. Indices \subseteq RisingIdx
  BY <1>1
<1>3. Frames \subseteq FrameSet
  BY <1>2 DEF Frames, FrameSet
<1>4. <<>> \in Indices
  BY DEF Indices
<1>5. \A f \in Frames : f.idx \in Indices
  BY <1>4 DEF Frames
<1>. QED  BY <1>1, <1>3, <1>5

(* NoJumpMeansNoRepeat, for any number of frames and every bound of their  *)
(* indices.                                                                *)
THEOREM PointsAreNeverRepeated == Spec => []NoJumpMeansNoRepeat
<1>1. Init => NoJumpMeansNoRepeat
  BY DEF Init, NoInput, NoJumpMeansNoRepeat
<1>. DEFINE Points(fs) == {p \in (DOMAIN fs) \X (1 .. 2) : p[2] \in DOMAIN fs[p[1]].idx}
            Once(fs) ==
              (Statistics(fs).jumps = 0 /\ ~Statistics(fs).raised
                 /\ \A i \in DOMAIN fs : fs[i].kind # "plain")
              => Statistics(fs).pts = Cardinality({fs[p[1]].idx[p[2]] : p \in Points(fs)})
<1>2. ASSUME NEW fs \in Seq(Frames) PROVE Once(fs)
  <2>1. fs \in Seq(FrameSet)
    BY FramesAreFrames, SeqMonotonic
  <2>2. /\ DOMAIN fs = 1 .. Len(fs)
        /\ \A i \in 1 .. Len(fs) : DOMAIN fs[i].idx \subseteq 1 .. 2
    <3>1. DOMAIN fs = 1 .. Len(fs) /\ \A i \in 1 .. Len(fs) : fs[i] \in Frames
      OBVIOUS
    <3>. QED  BY <3>1, FramesAreFrames
  <2>. DEFINE X == {fs[p[1]].idx[p[2]] : p \in Points(fs)}
              Y == IndexesOf(fs, Len(fs))
  <2>3. ASSUME NEW x \in X PROVE x \in Y
    <3>1. PICK p \in Points(fs) : x = fs[p[1]].idx[p[2]]
      OBVIOUS
    <3>2. p[1] \in 1 .. Len(fs) /\ p[2] \in DOMAIN fs[p[1]].idx
      BY <2>2
    <3>3. x \in Indexes(fs[p[1]])
      BY <3>1, <3>2 DEF Indexes
    <3>. QED  BY <3>2, <3>3 DEF IndexesOf
  <2>4. ASSUME NEW x \in Y PROVE x \in X
    <3>1. PICK i \in 1 .. Len(fs) : x \in Indexes(fs[i])
      BY DEF IndexesOf
    <3>2. PICK j \in DOMAIN fs[i].idx : x = fs[i].idx[j]
      BY <3>1 DEF Indexes
    <3>3. j \in 1 .. 2
      BY <2>2
    <3>4. <<i, j>> \in Points(fs)
      BY <2>2, <3>3
    <3>. QED  BY <3>2, <3>4
  <2>5. X = Y
    <3>. HIDE DEF X, Y
    <3>. QED  BY <2>3, <2>4
  <2>. QED  BY <2>1, <2>5, NoPointTwice
<1>3. NoJumpMeansNoRepeat <=> (input.kind = "frames" => Once(input.frames))
  BY DEF NoJumpMeansNoRepeat
<1>4. NoJumpMeansNoRepeat' <=> (input'.kind = "frames" => Once(input'.frames))
  BY DEF NoJumpMeansNoRepeat
<1>. HIDE DEF Once
<1>5. NoJumpMeansNoRepeat /\ [Next]_input => NoJumpMeansNoRepeat'
  <2>. SUFFICES ASSUME NoJumpMeansNoRepeat, [Next]_input, input'.kind = "frames"
                PROVE  Once(input'.frames)
    BY <1>4
  <2>1. CASE UNCHANGED input
    BY <1>3, <2>1
  <2>2. CASE PickFrames
    <3>1. PICK s \in Upto(Frames) : input' = [kind |-> "frames", frames |-> s]
      BY <2>2 DEF PickFrames
    <3>2. s \in Seq(Frames)
      BY UptoFacts
    <3>3. input'.frames = s
      BY <3>1
    <3>. QED  BY <1>2, <3>2, <3>3
  <2>. QED  BY <2>1, <2>2, Kinds
<1>. QED  BY <1>1, <1>5, PTL DEF Spec

(* ListsParse, for every set of ids of at most two digits and lists of at  *)
(* most 99 of them: what two digits can count and name.                    *)
THEOREM ListsAlwaysParse ==
  ASSUME MaxLen \in 0 .. 99
  PROVE  Spec => []ListsParse
<1>1. Init => ListsParse
  BY DEF Init, NoInput, ListsParse
<1>. DEFINE Parsed(width, text) ==
              IF width = 3 THEN _parse_pset_ids(text)
              ELSE _parse_job_ids(text, IF width = 2 THEN 1 ELSE 2)
            IsBeginning(ids, width, text, parsed) ==
              /\ Len(parsed) <= Len(ids)
              /\ \A i \in DOMAIN parsed : parsed[i] = ids[i]
              /\ Len(text) = (Len(ids) + 1) * width => parsed = ids
<1>2. ASSUME NEW ids \in Upto(Ids), NEW w \in Widths, NEW cut \in 0 .. Len(Encode(ids, w))
      PROVE  LET text == SubSeq(Encode(ids, w), 1, cut)
             IN IsBeginning(ids, w, text, Parsed(w, text))
  <2>1. ids \in Seq(Ids) /\ Len(ids) \in 0 .. MaxLen
    BY UptoFacts
  <2>2. Writable(ids, w)
    <3>1. 100 <= Capacity(w) /\ Capacity(w) \in Nat
      BY DEF Capacity, Widths
    <3>2. Len(ids) \in Nat /\ Len(ids) < Capacity(w)
      BY <2>1, <3>1
    <3>3. \A n \in Ids : n \in Nat /\ n < Capacity(w)
      BY <3>1, BoundsAssumption
    <3>4. Ids \subseteq Nat
      BY <3>3
    <3>5. ids \in Seq(Nat)
      BY <2>1, <3>4, SeqMonotonic
    <3>6. \A i \in 1 .. Len(ids) : ids[i] \in Ids
      BY <2>1
    <3>. QED  BY <3>2, <3>3, <3>5, <3>6 DEF Writable
  <2>3. /\ (Len(ids) + 1) * w \in Nat
        /\ Encode(ids, w) \in Seq(0 .. 9) /\ Len(Encode(ids, w)) = (Len(ids) + 1) * w
    BY <2>2, EncodeType
  <2>. DEFINE L == (Len(ids) + 1) * w
              E == Encode(ids, w)
              text == SubSeq(E, 1, cut)
  <2>4. cut \in 0 .. L
    BY <2>3
  <2>5. Len(text) = cut
    <3>. HIDE DEF L, E
    <3>1. L \in Nat /\ E \in Seq(0 .. 9) /\ Len(E) = L
      BY <2>3 DEF L, E
    <3>. QED  BY <2>4, <3>1
  <2>6. Parsed(w, text) = ParseIds(text, w)
    <3>. HIDE DEF text
    <3>. QED  BY DEF _parse_pset_ids, _parse_job_ids, Widths
  <2>7. /\ Len(ParseIds(text, w)) <= Len(ids)
        /\ \A i \in DOMAIN ParseIds(text, w) : ParseIds(text, w)[i] = ids[i]
        /\ cut = L => ParseIds(text, w) = ids
    BY <2>2, <2>4, ListIsRead
  <2>. HIDE DEF text, L, Parsed
  <2>8. IsBeginning(ids, w, text, Parsed(w, text))
    BY <2>5, <2>6, <2>7 DEF L
  <2>. QED  BY <2>8 DEF text
<1>. HIDE DEF Parsed
<1>3. ListsParse <=>
        (input.kind = "list" =>
           IsBeginning(input.ids, input.width, input.text, Parsed(input.width, input.text)))
  BY DEF ListsParse, Parsed
<1>4. ListsParse' <=>
        (input'.kind = "list" =>
           IsBeginning(input'.ids, input'.width, input'.text,
                       Parsed(input'.width, input'.text)))
  BY DEF ListsParse, Parsed
<1>. HIDE DEF IsBeginning
<1>5. ListsParse /\ [Next]_input => ListsParse'
  <2>. SUFFICES ASSUME ListsParse, [Next]_input, input'.kind = "list"
                PROVE  IsBeginning(input'.ids, input'.width, input'.text,
                                   Parsed(input'.width, input'.text))
    BY <1>4
  <2>1. CASE UNCHANGED input
    BY <1>3, <2>1
  <2>2. CASE PickList
    <3>1. PICK ids \in Upto(Ids), w \in {2, 3, 4} :
            \E cut \in 0 .. Len(Encode(ids, w)) :
              input' = [kind |-> "list", ids |-> ids, width |-> w,
                        text |-> SubSeq(Encode(ids, w), 1, cut)]
      BY <2>2 DEF PickList
    <3>2. PICK cut \in 0 .. Len(Encode(ids, w)) :
            input' = [kind |-> "list", ids |-> ids, width |-> w,
                      text |-> SubSeq(Encode(ids, w), 1, cut)]
      BY <3>1
    <3>. DEFINE text == SubSeq(Encode(ids, w), 1, cut)
    <3>3. w \in Widths
      BY DEF Widths
    <3>4. IsBeginning(ids, w, text, Parsed(w, text))
      BY <1>2, <3>3
    <3>5. input'.ids = ids /\ input'.width = w /\ input'.text = text
      BY <3>2
    <3>. HIDE DEF text
    <3>. QED  BY <3>4, <3>5
  <2>. QED  BY <2>1, <2>2, Kinds
<1>. QED  BY <1>1, <1>5, PTL DEF Spec
=============================================================================
