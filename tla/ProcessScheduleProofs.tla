-------------------------- MODULE ProcessScheduleProofs --------------------------
(* Proofs about the radiation schedule and the area-mean target across         *)
(* restarts, for every plan, every width of the step counter and every number *)
(* of restarts.                                                            *)
EXTENDS ForcingTargets, TLAPS

(* A quotient and the multiples of the divisor around its dividend.          *)
LEMMA WindowBrackets ==
  ASSUME NEW i \in Nat \ {0}, NEW t \in Nat
  PROVE  /\ t \div i \in Nat
         /\ (t \div i) * i <= t /\ t < (t \div i + 1) * i
<1>1. /\ t \div i \in Nat /\ t % i \in Nat
      /\ t = i * (t \div i) + (t % i) /\ t % i < i
  BY Z3
<1> DEFINE q == t \div i
           m == t % i
<1>2. /\ q \in Nat /\ m \in Nat /\ t = i * q + m /\ m < i
  BY <1>1
<1> HIDE DEF q, m
<1>3. i * q = q * i /\ (q + 1) * i = q * i + i /\ q * i \in Nat
  BY <1>2, Z3
<1>4. q * i <= t /\ t < (q + 1) * i
  BY <1>2, <1>3
<1> QED
  BY <1>2, <1>4 DEF q

(* The step whose heating an uninterrupted run holds once `s' steps are done.  *)
Held(n, s) == IF s = 0 THEN -1 ELSE ((s - 1) \div n) * n

(* The strengthening: the heating is the one of the last multiple of the        *)
(* interval if the present run has passed it, at step 0 too; and a restart can   *)
(* only go to a step of the run.                                            *)
HeatingInv ==
  /\ plan \in Plans
  /\ step \in Nat /\ begun \in Nat /\ begun <= step
  /\ heating = IF Held(plan.rad, step) >= begun THEN Held(plan.rad, step) ELSE -1
  /\ \A r \in records : r.step \in Nat

(* What is held was computed before.                                         *)
LEMMA HeldIsEarlier ==
  ASSUME NEW n \in Nat \ {0}, NEW s \in Nat
  PROVE  Held(n, s) \in Int /\ Held(n, s) < s
<1>1. CASE s = 0
  BY <1>1 DEF Held
<1>2. CASE s # 0
  <2> DEFINE t == s - 1
             m == (t \div n) * n
  <2>1. t \in Nat
    BY <1>2
  <2>2. t \div n \in Nat /\ m <= t
    BY <2>1, WindowBrackets
  <2>3. m \in Int
    <3> DEFINE q == t \div n
    <3>1. q \in Nat
      BY <2>2
    <3> HIDE DEF q
    <3>2. q * n \in Int
      BY <3>1, Z3
    <3> QED
      BY <3>2 DEF q
  <2>4. Held(n, s) = m
    BY <1>2 DEF Held
  <2>5. m < s
    <3> HIDE DEF m
    <3> QED
      BY <1>2, <2>2, <2>3
  <2> QED
    BY <2>3, <2>4, <2>5
<1> QED
  BY <1>1, <1>2

(* A step that is a multiple of n computes; any other keeps the last multiple. *)
LEMMA LastMultiple ==
  ASSUME NEW n \in Nat \ {0}, NEW s \in Nat
  PROVE  /\ s % n = 0 => (s \div n) * n = s
         /\ s % n # 0 => s > 0 /\ (s - 1) \div n = s \div n
<1>1. /\ s \div n \in Nat /\ s % n \in Nat
      /\ s = n * (s \div n) + (s % n) /\ s % n < n
  BY Z3
<1> DEFINE q == s \div n
           m == s % n
<1>2. ASSUME m = 0 PROVE q * n = s
  <2> HIDE DEF q, m
  <2>1. s = n * q + m /\ q \in Nat
    BY <1>1 DEF q, m
  <2> QED
    BY <1>2, <2>1, Z3
<1>3. ASSUME m # 0 PROVE s > 0 /\ (s - 1) \div n = q
  <2>1. s - 1 = n * q + (m - 1) /\ m - 1 \in 0..n - 1 /\ q \in Nat /\ s - 1 \in Nat
    BY <1>1, <1>3
  <2>2. ASSUME NEW a \in Nat, NEW b \in 0..n - 1, NEW c \in Nat, c = n * a + b
        PROVE  c \div n = a
    BY <2>2, Z3
  <2> HIDE DEF q, m
  <2> QED
    BY <2>1, <2>2
<1> QED
  BY <1>2, <1>3

(* What a step of the schedule leaves in the heating field.                  *)
LEMMA HeldAfterStep ==
  ASSUME NEW n \in Nat \ {0}, NEW s \in Nat
  PROVE  (IF IsProcessStep(s, n) THEN s ELSE Held(n, s)) = Held(n, s + 1)
<1>1. Held(n, s + 1) = (s \div n) * n
  BY DEF Held
<1>2. CASE s % n = 0
  BY <1>1, <1>2, LastMultiple DEF IsProcessStep
<1>3. CASE s % n # 0
  <2>1. n # 1
    BY <1>3, Z3
  <2>2. ~IsProcessStep(s, n)
    BY <1>3, <2>1 DEF IsProcessStep
  <2>3. s # 0 /\ (s - 1) \div n = s \div n
    <3>1. s > 0 /\ (s - 1) \div n = s \div n
      BY <1>3, LastMultiple
    <3> QED
      BY <3>1
  <2>4. Held(n, s) = (s \div n) * n
    BY <2>3 DEF Held
  <2> QED
    BY <1>1, <2>2, <2>4
<1> QED
  BY <1>2, <1>3

(* A step that computes is not before the start of its run; a step that does    *)
(* not compute keeps what the run has; a restart has nothing yet.            *)
LEMMA HeatingInvPreserved == HeatingInv /\ [Next]_vars => HeatingInv'
<1> SUFFICES ASSUME HeatingInv, [Next]_vars PROVE HeatingInv'
  OBVIOUS
<1>0. plan.rad \in Nat \ {0} /\ plan.every \in Nat \ {0}
  BY ScheduleAssumption DEF HeatingInv
<1>1. CASE RunStep
  <2> DEFINE h == Held(plan.rad, step)
             k == Held(plan.rad, step + 1)
  <2>1. plan' = plan /\ step' = step + 1 /\ step \in Nat /\ begun' = begun /\ begun <= step
    BY <1>1 DEF RunStep, HeatingInv
  <2>2. (IF IsProcessStep(step, plan.rad) THEN step ELSE h) = k
    BY <1>0, <2>1, HeldAfterStep
  <2>3. heating' = IF k >= begun THEN k ELSE -1
    <3>1. heating = IF h >= begun THEN h ELSE -1
      BY DEF HeatingInv
    <3>2. heating' = IF IsProcessStep(step, plan.rad) THEN step ELSE heating
      BY <1>1 DEF RunStep
    <3> HIDE DEF h, k
    <3> QED
      BY <2>1, <2>2, <3>1, <3>2
  <2>4. ASSUME NEW r \in records' PROVE r.step \in Nat
    <3>1. r \in records \/ r = Snapshot(step', flux')
      BY <1>1, <2>4 DEF RunStep
    <3> QED
      BY <2>1, <3>1 DEF HeatingInv, Snapshot
  <2> QED
    BY <2>1, <2>3, <2>4 DEF HeatingInv
<1>2. CASE Restart
  <2>1. /\ plan' = plan /\ records' = records /\ heating' = -1
        /\ step' \in Nat /\ begun' = step'
    BY <1>2 DEF Restart, HeatingInv
  <2>2. Held(plan.rad, step') \in Int /\ Held(plan.rad, step') < begun'
    BY <1>0, <2>1, HeldIsEarlier
  <2>3. ~(Held(plan.rad, step') >= begun')
    BY <2>1, <2>2
  <2> QED
    BY <2>1, <2>3 DEF HeatingInv
<1>3. CASE Finished \/ UNCHANGED vars
  BY <1>3 DEF Finished, vars, HeatingInv
<1> QED
  BY <1>1, <1>2, <1>3 DEF Next

(* For every radiation interval and every restart, a step reads the heating of  *)
(* the last multiple of the interval if the present run has passed it, and none  *)
(* otherwise.                                                               *)
THEOREM HeatingIsNeverStale == Spec => []HeatingNeverStale
<1>1. Init => HeatingInv
  <2> SUFFICES ASSUME Init PROVE HeatingInv
    OBVIOUS
  <2>1. plan.rad \in Nat \ {0}
    BY ScheduleAssumption DEF Init
  <2>2. Held(plan.rad, 0) = -1
    BY DEF Held
  <2> QED
    BY <2>2 DEF Init, HeatingInv, Snapshot
<1>2. HeatingInv => HeatingNeverStale
  BY DEF HeatingInv, Held, HeatingNeverStale, LastRadiation
<1> QED
  BY <1>1, <1>2, HeatingInvPreserved, PTL DEF Spec

(* The step counter never passes the last step, whatever record a run is        *)
(* restarted from, and a held field was computed at a step of the run.        *)
THEOREM StepsInRange == Spec => []TypeOK
<1>1. Init => TypeOK
  BY ScheduleAssumption DEF Init, TypeOK, Snapshot
<1>2. TypeOK /\ [Next]_vars => TypeOK'
  <2> SUFFICES ASSUME TypeOK, [Next]_vars PROVE TypeOK'
    OBVIOUS
  <2>0. plan.last \in Nat /\ MaxRestarts \in Nat
    BY ScheduleAssumption DEF TypeOK
  <2>1. CASE RunStep
    <3>1. /\ plan' = plan /\ restarts' = restarts /\ begun' = begun
          /\ step \in 0..plan.last /\ step' \in 0..plan.last
      BY <2>0, <2>1 DEF RunStep, TypeOK
    <3>2. heating' \in -1..plan.last /\ flux' \in -1..plan.last
      BY <2>0, <2>1, <3>1 DEF RunStep, TypeOK
    <3>3. Snapshot(step', flux') \in [step : 0..plan.last, flux : -1..plan.last]
      BY <3>1, <3>2 DEF Snapshot
    <3>4. records' = records \/ records' = records \cup {Snapshot(step', flux')}
      BY <2>1 DEF RunStep
    <3> QED
      BY <3>1, <3>2, <3>3, <3>4 DEF TypeOK
  <2>2. CASE Restart
    <3>1. PICK r \in records : step' = r.step /\ flux' = r.flux /\ begun' = r.step
      BY <2>2 DEF Restart
    <3>2. r.step \in 0..plan.last /\ r.flux \in -1..plan.last
      BY DEF TypeOK
    <3>4. heating' \in -1..plan.last
      BY <2>0, <2>2 DEF Restart
    <3>3. plan' = plan /\ records' = records /\ restarts' \in 0..MaxRestarts
      BY <2>0, <2>2 DEF Restart, TypeOK
    <3> QED
      BY <3>1, <3>2, <3>3, <3>4 DEF TypeOK
  <2>3. CASE Finished \/ UNCHANGED vars
    BY <2>3 DEF Finished, vars, TypeOK
  <2> QED
    BY <2>1, <2>2, <2>3 DEF Next
<1> QED
  BY <1>1, <1>2, PTL DEF Spec

---------------------------------------------------------------------------------
(* The step whose surface fluxes are held once `s' steps are done under the     *)
(* schedule of v1.0.0.                                                     *)
HeldFlux(n, s) ==
  IF s = 0 THEN -1
  ELSE IF s = 1 THEN (IF (SizeMod - 1) % n = 0 THEN 0 ELSE -1)
  ELSE ((s - 2) \div n) * n + 1

FluxInv ==
  /\ plan \in Plans
  /\ step \in 0..plan.last /\ flux = HeldFlux(plan.sfc, step)
  /\ \A r \in records : r.step \in 0..plan.last /\ r.flux = HeldFlux(plan.sfc, r.step)

(* With an interval of one step every step computes.                         *)
LEMMA EveryStep ==
  ASSUME NEW s \in Nat
  PROVE  s % 1 = 0 /\ (s \div 1) * 1 = s
<1>1. s % 1 \in Nat /\ s % 1 < 1 /\ s \div 1 \in Nat /\ s = 1 * (s \div 1) + (s % 1)
  BY Z3
<1> QED
  BY <1>1

(* The subtraction wraps at step 0 only.                                     *)
LEMMA Unwrapped ==
  ASSUME NEW m \in Nat \ {0}, NEW s \in 0..m - 1
  PROVE  /\ s = 0 => (s - 1) % m = m - 1
         /\ s > 0 => (s - 1) % m = s - 1
<1>1. ASSUME s = 0 PROVE (s - 1) % m = m - 1
  BY <1>1, Z3
<1>2. ASSUME s > 0 PROVE (s - 1) % m = s - 1
  <2>1. s - 1 \in Nat /\ s - 1 < m
    BY <1>2
  <2>2. ASSUME NEW a \in Nat, a < m PROVE a % m = a
    BY <2>2, Z3
  <2> QED
    BY <2>1, <2>2
<1> QED
  BY <1>1, <1>2

LEMMA FluxAfterStep ==
  ASSUME NEW n \in Nat \ {0}, NEW s \in 0..SizeMod - 1
  PROVE  (IF IsLegacySurfaceComputeStep(s, n) THEN s ELSE HeldFlux(n, s)) = HeldFlux(n, s + 1)
<1>0. SizeMod \in Nat \ {0} /\ s \in Nat
  BY ScheduleAssumption
<1>1. CASE s = 0
  <2>1. IsLegacySurfaceComputeStep(s, n) <=> (SizeMod - 1) % n = 0
    <3>1. (s - 1) % SizeMod = SizeMod - 1
      BY <1>0, <1>1, Unwrapped
    <3>2. CASE n = 1
      <4>1. (SizeMod - 1) % n = 0
        BY <1>0, <3>2, EveryStep
      <4> QED
        BY <3>2, <4>1 DEF IsLegacySurfaceComputeStep
    <3>3. CASE n # 1
      <4>1. ~(n <= 1)
        BY <3>3
      <4> QED
        BY <3>1, <4>1 DEF IsLegacySurfaceComputeStep
    <3> QED
      BY <3>2, <3>3
  <2>2. HeldFlux(n, s) = -1 /\ HeldFlux(n, s + 1) = IF (SizeMod - 1) % n = 0 THEN 0 ELSE -1
    BY <1>1 DEF HeldFlux
  <2> QED
    BY <1>1, <2>1, <2>2
<1>2. CASE s > 0
  <2>1. (s - 1) % SizeMod = s - 1 /\ s - 1 \in Nat
    BY <1>0, <1>2, Unwrapped
  <2>2. HeldFlux(n, s + 1) = ((s - 1) \div n) * n + 1
    <3>1. s + 1 # 0 /\ s + 1 # 1 /\ (s + 1) - 2 = s - 1
      BY <1>0, <1>2
    <3> QED
      BY <3>1 DEF HeldFlux
  <2>3. IsLegacySurfaceComputeStep(s, n) <=> (s - 1) % n = 0
    <3>1. CASE n = 1
      BY <2>1, <3>1, EveryStep DEF IsLegacySurfaceComputeStep
    <3>2. CASE n # 1
      <4>1. ~(n <= 1)
        BY <3>2
      <4> QED
        BY <2>1, <4>1 DEF IsLegacySurfaceComputeStep
    <3> QED
      BY <3>1, <3>2
  <2>4. CASE (s - 1) % n = 0
    BY <2>1, <2>2, <2>3, <2>4, <1>0, LastMultiple
  <2>5. CASE (s - 1) % n # 0
    <3>1. (s - 1) > 0 /\ ((s - 1) - 1) \div n = (s - 1) \div n
      BY <2>1, <2>5, LastMultiple
    <3>2. s # 0 /\ s # 1 /\ (s - 1) - 1 = s - 2
      BY <1>0, <3>1
    <3>3. HeldFlux(n, s) = ((s - 1) \div n) * n + 1
      BY <3>1, <3>2 DEF HeldFlux
    <3> QED
      BY <2>2, <2>3, <2>5, <3>3
  <2> QED
    BY <2>4, <2>5
<1> QED
  BY <1>0, <1>1, <1>2

LEMMA FluxInvPreserved == FluxInv /\ [Next]_vars => FluxInv'
<1> SUFFICES ASSUME FluxInv, [Next]_vars PROVE FluxInv'
  OBVIOUS
<1>0. plan.sfc \in Nat \ {0} /\ plan.last \in 0..SizeMod - 1 /\ SizeMod \in Nat
  BY ScheduleAssumption DEF FluxInv
<1>1. CASE RunStep
  <2>1. plan' = plan /\ step' = step + 1 /\ step' \in 0..plan.last /\ step \in 0..SizeMod - 1
    BY <1>0, <1>1 DEF RunStep, FluxInv
  <2>2. flux' = HeldFlux(plan.sfc, step')
    BY <1>0, <1>1, <2>1, FluxAfterStep DEF RunStep, FluxInv
  <2>3. ASSUME NEW r \in records' PROVE r.step \in 0..plan.last /\ r.flux = HeldFlux(plan.sfc, r.step)
    <3>1. r \in records \/ r = Snapshot(step', flux')
      BY <1>1, <2>3 DEF RunStep
    <3>2. /\ Snapshot(step', flux').step = step'
          /\ Snapshot(step', flux').flux = flux'
      BY DEF Snapshot
    <3> QED
      BY <2>1, <2>2, <3>1, <3>2 DEF FluxInv
  <2> QED
    BY <2>1, <2>2, <2>3 DEF FluxInv
<1>2. CASE Restart
  BY <1>2 DEF Restart, FluxInv
<1>3. CASE Finished \/ UNCHANGED vars
  BY <1>3 DEF Finished, vars, FluxInv
<1> QED
  BY <1>1, <1>2, <1>3 DEF Next

(* However often a run is restarted, the surface fluxes a step reads are those *)
(* of the uninterrupted run under the schedule of v1.0.0, whose first step       *)
(* computes only if the interval divides the largest value of the counter.       *)
THEOREM FluxSurvivesRestarts == Spec => []FluxAsUninterrupted
<1>1. Init => FluxInv
  <2> SUFFICES ASSUME Init PROVE FluxInv
    OBVIOUS
  <2>1. SizeMod \in Nat \ {0} /\ plan.last \in 0..SizeMod - 1
    BY ScheduleAssumption DEF Init
  <2>2. 0 \in 0..plan.last
    BY <2>1
  <2> QED
    BY <2>2 DEF Init, FluxInv, HeldFlux, Snapshot
<1>2. FluxInv => FluxAsUninterrupted
  <2> SUFFICES ASSUME FluxInv, step > 0 PROVE FluxAsUninterrupted
    BY DEF FluxAsUninterrupted
  <2>1. plan.sfc \in Nat \ {0} /\ step \in Nat /\ flux = HeldFlux(plan.sfc, step)
    BY ScheduleAssumption DEF FluxInv
  <2>2. CASE step > 1 /\ plan.sfc = 1
    <3>1. step # 0 /\ step # 1 /\ step - 2 \in Nat
      BY <2>1, <2>2
    <3>2. ((step - 2) \div 1) * 1 = step - 2
      BY <3>1, EveryStep
    <3>3. flux = step - 1
      BY <2>1, <2>2, <3>1, <3>2 DEF HeldFlux
    <3> QED
      BY <2>2, <3>3 DEF FluxAsUninterrupted
  <2>3. CASE ~(step > 1 /\ plan.sfc = 1)
    BY <2>1, <2>3 DEF FluxAsUninterrupted, HeldFlux
  <2> QED
    BY <2>2, <2>3
<1> QED
  BY <1>1, <1>2, FluxInvPreserved, PTL DEF Spec

---------------------------------------------------------------------------------
(* Weights and windows: within its window, a time is the interpolation of the  *)
(* window's ends.                                                          *)
LEMMA LinearInWindow ==
  ASSUME NEW i \in Nat \ {0}, NEW n \in Nat, NEW t \in Nat, n * i <= t, t <= (n + 1) * i
  PROVE  (i - (t - n * i)) * n + (t - n * i) * (n + 1) = t
<1> DEFINE w == t - n * i
<1>1. w \in Int /\ w = t - n * i
  OBVIOUS
<1>2. (i - w) * n + w * (n + 1) = n * i + w
  <2> HIDE DEF w
  <2>1. (i - w) * n = i * n - w * n /\ w * (n + 1) = w * n + w
    BY <1>1, Z3
  <2>2. i * n = n * i /\ i * n \in Int /\ w * n \in Int
    BY <1>1, Z3
  <2> HIDE DEF w
  <2> QED
    BY <1>1, <2>1, <2>2
<1> QED
  BY <1>1, <1>2

(* An area-mean target that holds the files of its window, a window that has    *)
(* begun.                                                                  *)
Bracketing(a, t) ==
  /\ a.n \in Nat /\ a.u1 = a.n /\ a.u2 = a.n + 1
  /\ a.n * plan.interval <= t

(* One call of update_forcing_target, at a time of the present window or of any *)
(* later one.                                                              *)
LEMMA TargetUpdated ==
  ASSUME NEW a, NEW t \in Nat, plan.interval \in Nat \ {0}, Bracketing(a, t)
  PROVE  /\ Bracketing(UpdateForcingTarget(a, t), t)
         /\ UpdateForcingTarget(a, t).target = t
<1> DEFINE i == plan.interval
           m == a.n
           n == IF t >= (m + 1) * i THEN t \div i ELSE m
<1>1. i \in Nat \ {0} /\ m \in Nat /\ m * i <= t
  BY DEF Bracketing
<1>2. /\ n \in Nat /\ n * i <= t /\ t < (n + 1) * i
  <2>1. CASE t >= (m + 1) * i
    BY <1>1, <2>1, WindowBrackets
  <2>2. CASE ~(t >= (m + 1) * i)
    <3> HIDE DEF i, m
    <3>1. (m + 1) * i \in Nat
      BY <1>1, Z3
    <3> QED
      BY <1>1, <2>2, <3>1
  <2> QED
    BY <2>1, <2>2
<1> DEFINE u1 == IF n = m THEN a.u1 ELSE IF n = m + 1 THEN a.u2 ELSE n
           u2 == IF n = m THEN a.u2 ELSE n + 1
<1>3. u1 = n /\ u2 = n + 1
  <2>1. a.u1 = m /\ a.u2 = m + 1
    BY DEF Bracketing
  <2> HIDE DEF n, m
  <2> QED
    BY <2>1, <1>1, <1>2
<1>4. UpdateForcingTarget(a, t) =
        [n |-> n, u1 |-> u1, u2 |-> u2, target |-> Interpolated(u1, u2, Clipped(t - n * i))]
  BY DEF UpdateForcingTarget, Window
<1>5. Clipped(t - n * i) = t - n * i
  <2> HIDE DEF n
  <2> SUFFICES ASSUME NEW x \in Nat, x = n * i, NEW y \in Nat, y = (n + 1) * i, y = x + i
               PROVE  Clipped(t - x) = t - x
    <3>1. n * i \in Nat /\ (n + 1) * i \in Nat /\ (n + 1) * i = n * i + i
      <4> HIDE DEF i
      <4> QED
        BY <1>1, <1>2, Z3
    <3> HIDE DEF i
    <3> QED
      BY <3>1
  <2> QED
    BY <1>1, <1>2 DEF Clipped
<1>6. Interpolated(u1, u2, Clipped(t - n * i)) = t
  <2>1. (i - (t - n * i)) * n + (t - n * i) * (n + 1) = t
    <3> HIDE DEF n, i
    <3>1. t <= (n + 1) * i
      <4>1. (n + 1) * i \in Nat
        BY <1>1, <1>2, Z3
      <4> QED
        BY <1>2, <4>1
    <3> QED
      BY <1>1, <1>2, <3>1, LinearInWindow
  <2> QED
    BY <2>1, <1>3, <1>5, Zenon DEF Interpolated
<1> HIDE DEF n, u1, u2
<1> QED
  BY <1>2, <1>3, <1>4, <1>6 DEF Bracketing

(* The strengthening: the window held began before the time it was last used   *)
(* for, and that is not after the present step.                              *)
ForcingInv ==
  /\ plan \in Plans /\ step \in Nat
  /\ \A r \in records : r.step \in Nat
  /\ at \in Nat /\ at <= step * plan.dt
  /\ Bracketing(areamn, at) /\ areamn.target = at

LEMMA TimeIsNat ==
  ASSUME NEW s \in Nat, NEW d \in Nat
  PROVE  s * d \in Nat /\ (s + 1) * d \in Nat /\ s * d <= (s + 1) * d
BY Z3

LEMMA AreaMeanStarts ==
  ASSUME NEW t \in Nat, plan.interval \in Nat \ {0}
  PROVE  Bracketing(AreaMeanInitialize(t), t) /\ AreaMeanInitialize(t).target = t
<1> DEFINE a == [n |-> Window(t), u1 |-> Window(t), u2 |-> Window(t) + 1, target |-> 0]
<1>1. Window(t) \in Nat /\ Window(t) * plan.interval <= t
  BY WindowBrackets DEF Window
<1>2. Bracketing(a, t)
  BY <1>1 DEF Bracketing
<1> QED
  BY <1>2, TargetUpdated DEF AreaMeanInitialize

LEMMA ForcingInvPreserved == ForcingInv /\ [ForcedNext]_<<vars, forcingVars>> => ForcingInv'
<1> SUFFICES ASSUME ForcingInv, [ForcedNext]_<<vars, forcingVars>> PROVE ForcingInv'
  OBVIOUS
<1>0. plan.interval \in Nat \ {0} /\ plan.dt \in Nat
  BY ForcingAssumption DEF ForcingInv
<1>1. CASE ForcedRunStep
  <2>1. plan' = plan /\ step' = step + 1 /\ step \in Nat
    BY <1>1 DEF ForcedRunStep, RunStep, ForcingInv
  <2>2. \A r \in records' : r.step \in Nat
    BY <1>1, <2>1 DEF ForcedRunStep, RunStep, Snapshot, ForcingInv
  <2>3. at' = step * plan.dt /\ at' \in Nat /\ at' <= step' * plan'.dt
    BY <1>0, <1>1, <2>1, TimeIsNat DEF ForcedRunStep, Time
  <2>4. Bracketing(areamn, at')
    <3>1. at <= at' /\ areamn.n * plan.interval <= at /\ at \in Nat /\ areamn.n \in Nat
      BY <2>3 DEF ForcingInv, Bracketing
    <3>2. areamn.n * plan.interval \in Nat
      BY <1>0, <3>1, TimeIsNat
    <3>3. areamn.n * plan.interval <= at'
      BY <2>3, <3>1, <3>2
    <3> QED
      BY <3>3 DEF ForcingInv, Bracketing
  <2>5. areamn' = UpdateForcingTarget(areamn, at')
    BY <1>1 DEF ForcedRunStep
  <2>6. Bracketing(areamn', at') /\ areamn'.target = at'
    BY <1>0, <2>3, <2>4, <2>5, TargetUpdated
  <2> QED
    BY <2>1, <2>2, <2>3, <2>6 DEF ForcingInv, Bracketing
<1>2. CASE ForcedRestart
  <2>1. plan' = plan /\ records' = records /\ step' \in Nat
    BY <1>2 DEF ForcedRestart, Restart, ForcingInv
  <2>2. at' = step' * plan.dt /\ at' \in Nat
    BY <1>0, <1>2, <2>1, TimeIsNat DEF ForcedRestart, Time
  <2>3. areamn' = AreaMeanInitialize(at')
    BY <1>2 DEF ForcedRestart
  <2>4. Bracketing(areamn', at') /\ areamn'.target = at'
    BY <1>0, <2>2, <2>3, AreaMeanStarts
  <2> QED
    BY <2>1, <2>2, <2>4 DEF ForcingInv, Bracketing
<1>3. CASE ForcedFinished \/ UNCHANGED <<vars, forcingVars>>
  BY <1>3 DEF ForcedFinished, Finished, vars, forcingVars, ForcingInv, Bracketing
<1> QED
  BY <1>1, <1>2, <1>3 DEF ForcedNext

(* For every time step, update interval and record a run is restarted from,    *)
(* the area-mean target is the interpolation of the forcing to the present     *)
(* time.                                                                   *)
THEOREM AreaMeanTarget == ForcedSpec => []AreaMeanFollowsTime
<1>1. ForcingInit => ForcingInv
  <2> SUFFICES ASSUME ForcingInit PROVE ForcingInv
    OBVIOUS
  <2>1. plan \in Plans /\ step = 0 /\ at = 0 /\ areamn = AreaMeanInitialize(0)
    BY DEF ForcingInit, Init
  <2>2. plan.interval \in Nat \ {0} /\ plan.dt \in Nat
    BY <2>1, ForcingAssumption
  <2>3. \A r \in records : r.step \in Nat
    BY DEF ForcingInit, Init, Snapshot
  <2>4. Bracketing(areamn, 0) /\ areamn.target = 0
    BY <2>1, <2>2, AreaMeanStarts
  <2>5. 0 <= step * plan.dt
    BY <2>1, <2>2, TimeIsNat
  <2> QED
    BY <2>1, <2>3, <2>4, <2>5 DEF ForcingInv
<1>2. ForcingInv => AreaMeanFollowsTime
  BY DEF ForcingInv, AreaMeanFollowsTime
<1> QED
  BY <1>1, <1>2, ForcingInvPreserved, PTL DEF ForcedSpec

---------------------------------------------------------------------------------
(* What LateralBoundaryNudging keeps: T1 in intervals, the two names, the file   *)
(* in each field, and the fields to interpolate once they have been looked up.  *)
Names == {<<1, 2>>, <<2, 1>>}
Lateral == [n : Nat, t1 : {1, 2}, t2 : {1, 2}, file : [{1, 2} -> Int],
            held : Names \cup {<<>>}, target : Int]

LEMMA NamesNotEmpty == \A h \in Names : h # <<>>
<1>1. <<1, 2>> # <<>> /\ <<2, 1>> # <<>>
  OBVIOUS
<1> QED
  BY <1>1, Zenon DEF Names

(* The field named T1 holds the file of window n, the field named T2 the next.   *)
HoldsFiles(l, n) ==
  /\ l \in Lateral /\ l.n = n /\ l.t1 # l.t2
  /\ l.file[l.t1] = n /\ l.file[l.t2] = n + 1

(* The strengthening: until a restart, both fields hold the files of the window  *)
(* of the last update, the process reads both of them, in one order or the other, *)
(* and the next update is at most one step later.                             *)
HoldsWindow(l, t) ==
  /\ l.n \in Nat /\ l.n * plan.interval <= t /\ t < (l.n + 1) * plan.interval
  /\ HoldsFiles(l, l.n) /\ l.held # <<>>

LateralInv ==
  /\ plan \in Plans /\ step \in Nat /\ restarts \in Nat /\ at \in Nat
  /\ \A r \in records : r.step \in Nat
  /\ restarts = 0 /\ plan.dt <= plan.interval =>
       /\ at <= step * plan.dt /\ step * plan.dt <= at + plan.dt
       /\ HoldsWindow(lateral, at)

LEMMA InterpolatedIsInt ==
  ASSUME NEW lo \in Int, NEW hi \in Int, NEW w \in Int, plan.interval \in Nat
  PROVE  Interpolated(lo, hi, Clipped(w)) \in Int
<1> DEFINE c == Clipped(w)
           i == plan.interval
<1>1. c \in Int /\ i \in Int
  BY DEF Clipped
<1> HIDE DEF c
<1>2. (i - c) * lo \in Int /\ c * hi \in Int
  <2> HIDE DEF i
  <2> QED
    BY <1>1
<1> QED
  BY <1>1, <1>2 DEF Interpolated, c

(* Swapping the names and loading the file after the next one moves the window.  *)
LEMMA WindowMoved ==
  ASSUME NEW l, NEW n \in Nat, HoldsFiles(l, n)
  PROVE  HoldsFiles(LoadForcingData([SwapNames(l) EXCEPT !.n = n + 1], n + 2), n + 1)
<1> DEFINE half == [l EXCEPT !.t1 = l.t2]
           swapped == [half EXCEPT !.t2 = l.t1]
           m == [swapped EXCEPT !.n = n + 1]
           k == [m EXCEPT !.file[m.t2] = n + 2]
<1>1. l \in Lateral /\ l.t1 # l.t2 /\ l.file[l.t2] = n + 1
  BY DEF HoldsFiles
<1>2. /\ m \in Lateral /\ m.n = n + 1 /\ m.t1 = l.t2 /\ m.t2 = l.t1 /\ m.file = l.file
  <2>1. half \in Lateral /\ half.t1 = l.t2 /\ half.file = l.file
    BY <1>1 DEF Lateral
  <2> HIDE DEF half
  <2>2. /\ swapped \in Lateral /\ swapped.t1 = l.t2 /\ swapped.t2 = l.t1
        /\ swapped.file = l.file
    BY <1>1, <2>1 DEF Lateral
  <2> HIDE DEF swapped
  <2> QED
    BY <2>2 DEF Lateral
<1> HIDE DEF m
<1>3. /\ k \in Lateral /\ k.n = n + 1 /\ k.t1 = m.t1 /\ k.t2 = m.t2
      /\ k.file = [m.file EXCEPT ![m.t2] = n + 2]
  BY <1>2 DEF Lateral
<1>4. k.file[k.t2] = n + 2 /\ k.file[k.t1] = n + 1
  BY <1>1, <1>2, <1>3 DEF Lateral
<1>5. HoldsFiles(k, n + 1)
  BY <1>1, <1>2, <1>3, <1>4 DEF HoldsFiles
<1> QED
  BY <1>5 DEF LoadForcingData, SwapNames, m, swapped, half

(* One call of update_large_scale_forcing, less than two windows ahead.         *)
LEMMA LateralUpdated ==
  ASSUME NEW l, NEW n \in Nat, NEW t \in Nat, plan.interval \in Nat \ {0}, HoldsFiles(l, n),
         n * plan.interval <= t, t < (n + 2) * plan.interval
  PROVE  HoldsWindow(UpdateLargeScaleForcing(l, t), t)
<1> DEFINE i == plan.interval
           moved == LoadForcingData([SwapNames(l) EXCEPT !.n = l.n + 1], l.n + 2)
           later == t >= (n + 1) * i
           next == IF later THEN moved ELSE l
           k == IF later THEN n + 1 ELSE n
           held == IF l.held = <<>> THEN <<next.t1, next.t2>> ELSE l.held
           value == Interpolated(next.file[held[1]], next.file[held[2]], Clipped(t - next.n * i))
<1>1. i \in Nat \ {0} /\ l.n = n /\ l \in Lateral
  BY DEF HoldsFiles
<1>2. k \in Nat /\ k * i <= t /\ t < (k + 1) * i
  <2>0. n * i <= t /\ t < (n + 2) * i
    OBVIOUS
  <2>1. n * i \in Nat /\ (n + 1) * i \in Nat /\ (n + 2) * i \in Nat /\ (n + 1) + 1 = n + 2
    BY <1>1, Z3
  <2>2. CASE later
    <3>1. k = n + 1 /\ k + 1 = n + 2
      BY <2>2
    <3> HIDE DEF i, k
    <3> QED
      BY <2>0, <2>1, <2>2, <3>1
  <2>3. CASE ~later
    <3>1. k = n
      BY <2>3
    <3> HIDE DEF i, k
    <3> QED
      BY <2>0, <2>1, <2>3, <3>1
  <2> QED
    BY <2>2, <2>3
<1>3. HoldsFiles(next, k)
  <2>1. HoldsFiles(moved, n + 1)
    BY <1>1, WindowMoved
  <2> QED
    BY <2>1
<1> HIDE DEF moved, k
<1>4. next \in Lateral /\ next.n = k
  BY <1>3 DEF HoldsFiles
<1> HIDE DEF next
<1>5. held \in Names
  <2>1. <<next.t1, next.t2>> \in Names
    BY <1>3 DEF HoldsFiles, Lateral, Names
  <2> QED
    BY <1>1, <2>1 DEF Lateral
<1> HIDE DEF held
<1>6. value \in Int
  <2>1. held[1] \in {1, 2} /\ held[2] \in {1, 2}
    BY <1>5 DEF Names
  <2>2. next.file[held[1]] \in Int /\ next.file[held[2]] \in Int
    BY <1>4, <2>1 DEF Lateral
  <2>3. k * i \in Int
    BY <1>1, <1>2, Z3
  <2>4. t - next.n * i \in Int
    BY <1>4, <2>3
  <2> HIDE DEF i
  <2> QED
    BY <1>1, <2>2, <2>4, InterpolatedIsInt DEF i
<1> DEFINE after == [next EXCEPT !.held = held, !.target = value]
<1>7. UpdateLargeScaleForcing(l, t) = after
  BY <1>1 DEF UpdateLargeScaleForcing, next, held, moved
<1> HIDE DEF value
<1>8. /\ after \in Lateral /\ after.n = next.n /\ after.t1 = next.t1 /\ after.t2 = next.t2
      /\ after.file = next.file /\ after.held = held
  BY <1>4, <1>5, <1>6 DEF Lateral
<1> HIDE DEF after
<1>9. HoldsFiles(after, k) /\ after.n = k
  BY <1>3, <1>8 DEF HoldsFiles
<1>10. after.held # <<>>
  <2>1. held # <<>>
    BY <1>5, NamesNotEmpty, Zenon
  <2> QED
    BY <1>8, <2>1
<1> QED
  BY <1>2, <1>7, <1>9, <1>10 DEF HoldsWindow

(* A run that starts at time 0 loads files 0 and 1.                           *)
LEMMA LateralStarts ==
  ASSUME plan.interval \in Nat \ {0}
  PROVE  HoldsWindow(LateralInitialize(0), 0)
<1> DEFINE zero == [n |-> 0, t1 |-> 1, t2 |-> 2, file |-> <<-1, -1>>, held |-> <<>>, target |-> 0]
           first == LoadForcingData(zero, 0)
           l == LoadForcingData(SwapNames(first), 1)
<1>1. first = [n |-> 0, t1 |-> 1, t2 |-> 2, file |-> [<<-1, -1>> EXCEPT ![2] = 0],
               held |-> <<>>, target |-> 0]
  BY DEF LoadForcingData
<1>2. SwapNames(first) = [n |-> 0, t1 |-> 2, t2 |-> 1, file |-> [<<-1, -1>> EXCEPT ![2] = 0],
                          held |-> <<>>, target |-> 0]
  <2> DEFINE half == [first EXCEPT !.t1 = first.t2]
  <2> HIDE DEF first
  <2>1. /\ first.t1 = 1
        /\ half = [n |-> 0, t1 |-> 2, t2 |-> 2, file |-> [<<-1, -1>> EXCEPT ![2] = 0],
                   held |-> <<>>, target |-> 0]
    BY <1>1
  <2> HIDE DEF half
  <2>2. [half EXCEPT !.t2 = first.t1] =
          [n |-> 0, t1 |-> 2, t2 |-> 1, file |-> [<<-1, -1>> EXCEPT ![2] = 0],
           held |-> <<>>, target |-> 0]
    BY <2>1
  <2> QED
    BY <2>2 DEF SwapNames, half
<1> DEFINE f == [[<<-1, -1>> EXCEPT ![2] = 0] EXCEPT ![1] = 1]
<1>3. l = [n |-> 0, t1 |-> 2, t2 |-> 1, file |-> f, held |-> <<>>, target |-> 0]
  BY <1>2 DEF LoadForcingData
<1>4. f \in [{1, 2} -> Int] /\ f[2] = 0 /\ f[1] = 1
  OBVIOUS
<1> HIDE DEF f
<1>5. HoldsFiles(l, 0)
  BY <1>3, <1>4 DEF HoldsFiles, Lateral
<1>6. 0 * plan.interval <= 0 /\ 0 < (0 + 2) * plan.interval
  OBVIOUS
<1> HIDE DEF l
<1>7. HoldsWindow(UpdateLargeScaleForcing(l, 0), 0)
  BY <1>5, <1>6, LateralUpdated
<1> QED
  BY <1>7 DEF LateralInitialize, l

LEMMA LateralInvPreserved == LateralInv /\ [ForcedNext]_<<vars, forcingVars>> => LateralInv'
<1> SUFFICES ASSUME LateralInv, [ForcedNext]_<<vars, forcingVars>> PROVE LateralInv'
  OBVIOUS
<1>0. plan.interval \in Nat \ {0} /\ plan.dt \in Nat
  BY ForcingAssumption DEF LateralInv
<1>1. CASE ForcedRunStep
  <2>1. plan' = plan /\ step' = step + 1 /\ step \in Nat /\ restarts' = restarts
    BY <1>1 DEF ForcedRunStep, RunStep, LateralInv
  <2>2. \A r \in records' : r.step \in Nat
    BY <1>1, <2>1 DEF ForcedRunStep, RunStep, Snapshot, LateralInv
  <2>3. at' = step * plan.dt /\ at' \in Nat
    BY <1>0, <1>1, <2>1, TimeIsNat DEF ForcedRunStep, Time
  <2>4. ASSUME restarts = 0, plan.dt <= plan.interval
        PROVE  /\ at' <= step' * plan.dt /\ step' * plan.dt <= at' + plan.dt
               /\ HoldsWindow(lateral', at')
    <3> DEFINE d == plan.dt
               i == plan.interval
               n == lateral.n
    <3>1. /\ at \in Nat /\ at <= at' /\ at' <= at + d /\ d <= i
          /\ n \in Nat /\ n * i <= at /\ at < (n + 1) * i /\ HoldsFiles(lateral, n)
      BY <2>3, <2>4 DEF LateralInv, HoldsWindow
    <3>2. (step + 1) * d = step * d + d
      <4> HIDE DEF d
      <4> QED
        BY <1>0, <2>1, Z3 DEF d
    <3>3. /\ n * i \in Nat /\ (n + 1) * i \in Nat
          /\ (n + 2) * i \in Nat /\ (n + 2) * i = (n + 1) * i + i
      <4>1. n \in Nat /\ i \in Nat
        BY <1>0, <3>1
      <4> HIDE DEF n, i
      <4> QED
        BY <4>1, Z3
    <3>4. n * i <= at' /\ at' < (n + 2) * i
      <4>1. at' \in Nat /\ d \in Nat /\ i \in Nat
        BY <1>0, <2>3
      <4> HIDE DEF n, d, i
      <4> QED
        BY <3>1, <3>3, <4>1
    <3>5. lateral' = UpdateLargeScaleForcing(lateral, at')
      BY <1>1 DEF ForcedRunStep
    <3>6. HoldsWindow(UpdateLargeScaleForcing(lateral, at'), at')
      BY <1>0, <2>3, <3>1, <3>4, LateralUpdated
    <3>7. at' <= (step + 1) * d /\ (step + 1) * d <= at' + d
      <4>1. at' \in Nat /\ d \in Nat /\ at' = step * d
        BY <1>0, <2>3
      <4> HIDE DEF d
      <4> QED
        BY <3>2, <4>1
    <3> QED
      BY <2>1, <3>5, <3>6, <3>7
  <2>5. HoldsWindow(lateral', at') => HoldsWindow(lateral, at)'
    BY <2>1 DEF HoldsWindow, HoldsFiles
  <2> QED
    BY <2>1, <2>2, <2>3, <2>4, <2>5 DEF LateralInv
<1>2. CASE ForcedRestart
  <2>1. plan' = plan /\ records' = records /\ step' \in Nat /\ restarts' = restarts + 1
    BY <1>2 DEF ForcedRestart, Restart, LateralInv
  <2>2. at' \in Nat
    BY <1>0, <1>2, <2>1, TimeIsNat DEF ForcedRestart, Time
  <2>3. restarts' \in Nat /\ restarts' # 0
    BY <2>1 DEF LateralInv
  <2> QED
    BY <2>1, <2>2, <2>3 DEF LateralInv
<1>3. CASE ForcedFinished \/ UNCHANGED <<vars, forcingVars>>
  BY <1>3 DEF ForcedFinished, Finished, vars, forcingVars, LateralInv, HoldsWindow, HoldsFiles
<1> QED
  BY <1>1, <1>2, <1>3 DEF ForcedNext

(* The window a time lies in is the one the window's bounds say.               *)
LEMMA WindowIs ==
  ASSUME NEW n \in Nat, NEW t \in Nat, plan.interval \in Nat \ {0},
         n * plan.interval <= t, t < (n + 1) * plan.interval
  PROVE  Window(t) = n
<1> DEFINE i == plan.interval
<1>1. n * i <= t /\ t < (n + 1) * i /\ i \in Nat \ {0}
  OBVIOUS
<1>2. n * i \in Nat /\ n * i = i * n /\ (n + 1) * i = n * i + i
  <2> HIDE DEF i
  <2> QED
    BY <1>1, Z3
<1>3. ASSUME NEW a \in Nat, NEW b \in 0..i - 1, NEW c \in Nat, c = i * a + b
      PROVE  c \div i = a
  <2> HIDE DEF i
  <2> QED
    BY <1>1, <1>3, Z3
<1> DEFINE x == n * i
           b == t - x
<1>4. b \in 0..i - 1 /\ t = i * n + b
  <2>1. x \in Nat /\ x <= t /\ t < x + i /\ i * n = x
    BY <1>1, <1>2
  <2> HIDE DEF x, i
  <2> QED
    BY <1>1, <2>1
<1> HIDE DEF b
<1> QED
  BY <1>3, <1>4 DEF Window

(* For every time step not longer than the update interval, until a restart the *)
(* lateral target lies between the files around the present time: names, swaps  *)
(* and loads never leave the process reading a file of another window.          *)
THEOREM LateralReadsItsFiles == ForcedSpec => []LateralBetweenItsFiles
<1>1. ForcingInit => LateralInv
  <2> SUFFICES ASSUME ForcingInit PROVE LateralInv
    OBVIOUS
  <2>1. plan \in Plans /\ step = 0 /\ at = 0 /\ restarts = 0 /\ lateral = LateralInitialize(0)
    BY DEF ForcingInit, Init
  <2>2. plan.interval \in Nat \ {0} /\ plan.dt \in Nat
    BY <2>1, ForcingAssumption
  <2>3. \A r \in records : r.step \in Nat
    BY DEF ForcingInit, Init, Snapshot
  <2>4. HoldsWindow(lateral, 0)
    BY <2>1, <2>2, LateralStarts
  <2>5. step * plan.dt = 0
    BY <2>1, <2>2
  <2> QED
    BY <2>1, <2>2, <2>3, <2>4, <2>5 DEF LateralInv
<1>2. LateralInv => LateralBetweenItsFiles
  <2> SUFFICES ASSUME LateralInv, restarts = 0, plan.dt <= plan.interval
               PROVE  {lateral.file[lateral.held[i]] : i \in {1, 2}} = {Window(at), Window(at) + 1}
    BY DEF LateralBetweenItsFiles
  <2> DEFINE f == lateral.file
             h == lateral.held
             n == lateral.n
  <2>1. /\ plan.interval \in Nat \ {0} /\ at \in Nat /\ HoldsFiles(lateral, n) /\ h # <<>>
        /\ n \in Nat /\ n * plan.interval <= at /\ at < (n + 1) * plan.interval
    BY ForcingAssumption DEF LateralInv, HoldsWindow
  <2>2. Window(at) = n
    BY <2>1, WindowIs
  <2>3. h \in Names
    BY <2>1 DEF HoldsFiles, Lateral
  <2>4. \/ h[1] = lateral.t1 /\ h[2] = lateral.t2
        \/ h[1] = lateral.t2 /\ h[2] = lateral.t1
    BY <2>1, <2>3 DEF HoldsFiles, Lateral, Names
  <2>5. \/ f[h[1]] = n /\ f[h[2]] = n + 1
        \/ f[h[2]] = n /\ f[h[1]] = n + 1
    BY <2>1, <2>4 DEF HoldsFiles
  <2>6. {f[h[i]] : i \in {1, 2}} = {f[h[1]], f[h[2]]}
    OBVIOUS
  <2> HIDE DEF f, h, n
  <2>7. {f[h[i]] : i \in {1, 2}} = {n, n + 1}
    BY <2>5, <2>6
  <2> QED
    BY <2>2, <2>7 DEF f, h
<1> QED
  BY <1>1, <1>2, LateralInvPreserved, PTL DEF ForcedSpec
=================================================================================
