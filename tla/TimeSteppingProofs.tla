--------------------------- MODULE TimeSteppingProofs ---------------------------
(* Proofs about the time integration, for every set of variables, every        *)
(* configuration, every number of steps and of restarts.                    *)
EXTENDS TimeStepping, TLAPS

Middle == {"p3", "calculate_vorticity", "update_vorticity"}
End == {"top_wind", "wind"}
Start == {"calculate_thermo", "update_thermo"}

(* How far each group of fields is in each phase; only a step that may still    *)
(* be taken is under way.                                                   *)
InStep ==
  /\ phase \in Start => at = AtStep(step)
  /\ phase \in Middle => at = Stamp(step + 1, step, step)
  /\ phase \in End => at = Stamp(step + 1, step + 1, step)
  /\ phase \in Middle \cup End \cup {"update_thermo"} => step < MaxStep
  /\ since <= step

(* The tendencies that a step finds in the other slot.                       *)
ThermoBefore == IF step = since THEN AtStep(step) ELSE AtStep(step - 1)
VorticityBefore == IF step = since THEN AtStep(step) ELSE Stamp(step, step - 1, step - 1)

(* The slots of the scalars: those of the step before until they are used, and  *)
(* that of this step from its computation on; the same for the vorticity.      *)
ThermoSlots ==
  \A q \in Thermo : AB2(q) =>
    /\ phase \in Start /\ step > 0 => hist[q][PreviousSlot(step)] = ThermoBefore
    /\ phase \in {"update_thermo"} \cup Middle \cup End => hist[q][NowSlot(step)] = AtStep(step)

VorticitySlots ==
  \A q \in Vorticity : AB2(q) =>
    /\ phase \in Start \cup Middle /\ step > 0 => hist[q][PreviousSlot(step)] = VorticityBefore
    /\ phase \in {"update_vorticity"} \cup End =>
         hist[q][NowSlot(step)] = Stamp(step + 1, step, step)

TopWindSlots ==
  plan.top =>
    /\ phase \in Start \cup Middle \cup {"top_wind"} /\ step > since =>
         hist["uvtopmn"][PreviousSlot(step)] = Stamp(step, step, step - 1)
    /\ phase = "wind" => hist["uvtopmn"][NowSlot(step)] = Stamp(step + 1, step + 1, step)

(* The strengthening of AdamsBashforthHistory.                               *)
HistoryInv == TypeOK /\ InStep /\ ThermoSlots /\ VorticitySlots /\ TopWindSlots

(* The two slots of a step are the two slots, and the slot of a step is the     *)
(* other slot of the next one.                                              *)
LEMMA SlotsAlternate ==
  ASSUME NEW s \in Nat
  PROVE  /\ NowSlot(s) \in 0..1 /\ PreviousSlot(s) \in 0..1
         /\ NowSlot(s) # PreviousSlot(s)
         /\ PreviousSlot(s + 1) = NowSlot(s)
  BY Z3 DEF NowSlot, PreviousSlot

(* Stamps of counts are stamps.                                             *)
LEMMA StampType ==
  ASSUME NEW t \in Counts, NEW v \in Counts, NEW w \in Counts
  PROVE  Stamp(t, v, w) \in Stamps
  BY DEF Stamp, Stamps

(* The slots g are h with the tendency a of step s for the AB2 variables of a    *)
(* group.                                                                   *)
HasTendencies(g, h, group, s, a) ==
  /\ g \in [Slotted -> [0..1 -> Stamps]]
  /\ \A q \in group : AB2(q) => g[q][NowSlot(s)] = a
  /\ \A q \in group : g[q][PreviousSlot(s)] = h[q][PreviousSlot(s)]
  /\ \A q \in Slotted \ group : g[q] = h[q]

(* What the tendencies of a group leave in the slots.                        *)
LEMMA TendencySlots ==
  ASSUME NEW h \in [Slotted -> [0..1 -> Stamps]], NEW group \in SUBSET Fields,
         NEW s \in Nat, NEW a \in Stamps
  PROVE  HasTendencies(WithTendencies(h, group, s, a), h, group, s, a)
<1>1. \A q \in Slotted :
        WithTendencies(h, group, s, a)[q] =
          IF q \in group /\ AB2(q) THEN [h[q] EXCEPT ![NowSlot(s)] = a] ELSE h[q]
  BY DEF WithTendencies
<1>2. WithTendencies(h, group, s, a) \in [Slotted -> [0..1 -> Stamps]]
  BY SlotsAlternate DEF WithTendencies
<1>3. group \subseteq Slotted
  BY DEF Slotted
<1> DEFINE g == WithTendencies(h, group, s, a)
<1> HIDE DEF g
<1>4. ASSUME NEW q \in group
      PROVE  /\ AB2(q) => g[q][NowSlot(s)] = a
             /\ g[q][PreviousSlot(s)] = h[q][PreviousSlot(s)]
  <2>1. h[q] \in [0..1 -> Stamps] /\ q \in Slotted
    BY <1>3
  <2>2. g[q] = IF AB2(q) THEN [h[q] EXCEPT ![NowSlot(s)] = a] ELSE h[q]
    BY <1>1, <2>1 DEF g
  <2>3. CASE AB2(q)
    BY <2>1, <2>2, <2>3, SlotsAlternate
  <2>4. CASE ~AB2(q)
    BY <2>2, <2>4
  <2> QED
    BY <2>3, <2>4
<1>5. \A q \in Slotted \ group : g[q] = h[q]
  BY <1>1 DEF g
<1> QED
  BY <1>2, <1>4, <1>5 DEF g, HasTendencies

(* What a restart leaves in the slots: the same tendency in both.             *)
LEMMA RestartSlots ==
  ASSUME NEW s \in Nat, NEW a \in Stamps, Zero \in Stamps
  PROVE  LET h == Duplicated(WithTendencies(NoHistory, Fields, s, a), s)
         IN  /\ h \in [Slotted -> [0..1 -> Stamps]]
             /\ \A q \in Fields : AB2(q) => h[q][NowSlot(s)] = a /\ h[q][PreviousSlot(s)] = a
<1> DEFINE g == WithTendencies(NoHistory, Fields, s, a)
           h == Duplicated(g, s)
<1>1. NoHistory \in [Slotted -> [0..1 -> Stamps]]
  BY DEF NoHistory
<1>2. /\ g \in [Slotted -> [0..1 -> Stamps]]
      /\ \A q \in Fields : AB2(q) => g[q][NowSlot(s)] = a
  <2>1. HasTendencies(g, NoHistory, Fields, s, a)
    BY <1>1, TendencySlots
  <2> HIDE DEF g
  <2> QED
    BY <2>1 DEF HasTendencies
<1>3. Fields \subseteq Slotted
  BY DEF Slotted
<1> HIDE DEF g
<1>4. h \in [Slotted -> [0..1 -> Stamps]]
  BY <1>2, SlotsAlternate DEF Duplicated
<1>5. \A q \in Fields : AB2(q) => h[q] = [g[q] EXCEPT ![PreviousSlot(s)] = g[q][NowSlot(s)]]
  BY <1>3 DEF Duplicated
<1>6. ASSUME NEW q \in Fields, AB2(q)
      PROVE  h[q][NowSlot(s)] = a /\ h[q][PreviousSlot(s)] = a
  <2>1. g[q] \in [0..1 -> Stamps] /\ g[q][NowSlot(s)] = a
    BY <1>2, <1>3, <1>6
  <2> QED
    BY <1>5, <1>6, <2>1, SlotsAlternate
<1> QED
  BY <1>4, <1>6 DEF g

(* The run starts with no tendency and uses none from before.                *)
LEMMA HistoryInit == Init => HistoryInv
<1> SUFFICES ASSUME Init PROVE HistoryInv
  OBVIOUS
<1>1. 0 \in Counts /\ -1 \in Counts /\ MaxStep \in Nat
  BY TimeSteppingAssumption DEF Counts
<1>2. Zero \in Stamps /\ AtStep(0) \in Stamps
  BY <1>1, StampType DEF Zero, AtStep
<1>3. TypeOK
  BY <1>1, <1>2 DEF TypeOK, Init, NoHistory, Phases
<1>4. InStep /\ ThermoSlots /\ VorticitySlots /\ TopWindSlots
  BY DEF Init, InStep, ThermoSlots, VorticitySlots, TopWindSlots, Start, Middle, End
<1> QED
  BY <1>3, <1>4 DEF HistoryInv

(* Every step of the program, and every restart, preserves the slots.         *)
LEMMA HistoryNext == HistoryInv /\ [Next]_vars => HistoryInv'
<1> SUFFICES ASSUME HistoryInv, [Next]_vars PROVE HistoryInv'
  OBVIOUS
<1> USE TimeSteppingAssumption DEF HistoryInv
<1>0. /\ step \in Nat /\ MaxStep \in Nat /\ step \in Counts
      /\ Thermo \subseteq Slotted /\ Vorticity \subseteq Slotted
      /\ Thermo \in SUBSET Fields /\ Vorticity \in SUBSET Fields
      /\ \A q \in Thermo : q \notin Vorticity /\ q # "uvtopmn"
      /\ \A q \in Vorticity : q # "uvtopmn"
      /\ "uvtopmn" \in Slotted \ Thermo /\ "uvtopmn" \in Slotted \ Vorticity
  BY DEF TypeOK, Slotted, Fields, Vorticity, Counts
<1>1. CASE CalculateThermo
  <2> USE <1>1 DEF CalculateThermo
  <2>1. at = AtStep(step) /\ at \in Stamps /\ hist \in [Slotted -> [0..1 -> Stamps]]
    BY DEF InStep, Start, TypeOK
  <2>2. /\ hist' \in [Slotted -> [0..1 -> Stamps]]
        /\ \A q \in Thermo : AB2(q) => hist'[q][NowSlot(step)] = at
        /\ \A q \in Thermo : hist'[q][PreviousSlot(step)] = hist[q][PreviousSlot(step)]
        /\ \A q \in Slotted \ Thermo : hist'[q] = hist[q]
    <3>1. HasTendencies(WithTendencies(hist, Thermo, step, at), hist, Thermo, step, at)
      BY <1>0, <2>1, TendencySlots
    <3>2. HasTendencies(hist', hist, Thermo, step, at)
      BY <3>1
    <3> QED
      BY <3>2 DEF HasTendencies
  <2>3. TypeOK'
    BY <2>2 DEF TypeOK, Phases
  <2>4. InStep'
    BY <1>0 DEF InStep, Start, Middle, End
  <2>5. ThermoSlots'
    BY <1>0, <2>1, <2>2 DEF ThermoSlots, ThermoBefore, AB2, Start, Middle, End
  <2>6. VorticitySlots'
    BY <1>0, <2>2 DEF VorticitySlots, VorticityBefore, AB2, Start, Middle, End
  <2>7. TopWindSlots'
    BY <1>0, <2>2 DEF TopWindSlots, Start, Middle, End
  <2> QED
    BY <2>3, <2>4, <2>5, <2>6, <2>7
<1>2. CASE UpdateThermo
  <2> USE <1>2 DEF UpdateThermo
  <2>1. /\ at = AtStep(step) /\ at \in Stamps
        /\ step < MaxStep /\ step + 1 \in Counts
    BY <1>0 DEF InStep, Start, TypeOK, Counts
  <2>2. at' = Stamp(step + 1, step, step) /\ at' \in Stamps
    BY <1>0, <2>1, StampType DEF AtStep, Stamp
  <2>3. prev' \in [Thermo -> Counts]
    BY <2>1 DEF KeptPrevious, TypeOK, Stamps
  <2>4. TypeOK'
    BY <2>2, <2>3 DEF TypeOK, Phases
  <2>5. InStep'
    BY <1>0, <2>1, <2>2 DEF InStep, Start, Middle, End
  <2>6. ThermoSlots' /\ VorticitySlots'
    BY DEF ThermoSlots, VorticitySlots, ThermoBefore, VorticityBefore, AB2, Start, Middle, End
  <2>7. TopWindSlots'
    BY DEF TopWindSlots, Start, Middle, End
  <2> QED
    BY <2>4, <2>5, <2>6, <2>7
<1>3. CASE RunP3
  BY <1>3 DEF RunP3, TypeOK, Phases, InStep, ThermoSlots, VorticitySlots, TopWindSlots, ThermoBefore,
              VorticityBefore, AB2, Start, Middle, End
<1>4. CASE CalculateVorticity
  <2> USE <1>4 DEF CalculateVorticity
  <2>1. /\ at = Stamp(step + 1, step, step) /\ at \in Stamps
        /\ hist \in [Slotted -> [0..1 -> Stamps]]
    BY DEF InStep, Middle, TypeOK
  <2>2. /\ hist' \in [Slotted -> [0..1 -> Stamps]]
        /\ \A q \in Vorticity : AB2(q) => hist'[q][NowSlot(step)] = at
        /\ \A q \in Vorticity : hist'[q][PreviousSlot(step)] = hist[q][PreviousSlot(step)]
        /\ \A q \in Slotted \ Vorticity : hist'[q] = hist[q]
    <3>1. HasTendencies(WithTendencies(hist, Vorticity, step, at), hist, Vorticity, step, at)
      BY <1>0, <2>1, TendencySlots
    <3>2. HasTendencies(hist', hist, Vorticity, step, at)
      BY <3>1
    <3> QED
      BY <3>2 DEF HasTendencies
  <2>3. TypeOK'
    BY <2>2 DEF TypeOK, Phases
  <2>4. InStep'
    BY DEF InStep, Start, Middle, End
  <2>5. ThermoSlots'
    BY <1>0, <2>2 DEF ThermoSlots, ThermoBefore, AB2, Start, Middle, End
  <2>6. VorticitySlots'
    BY <1>0, <2>1, <2>2 DEF VorticitySlots, VorticityBefore, AB2, Start, Middle, End
  <2>7. TopWindSlots'
    BY <1>0, <2>2 DEF TopWindSlots, Slotted, Start, Middle, End
  <2> QED
    BY <2>3, <2>4, <2>5, <2>6, <2>7
<1>5. CASE UpdateVorticity
  <2> USE <1>5 DEF UpdateVorticity
  <2>1. at = Stamp(step + 1, step, step) /\ step + 1 \in Counts
    BY <1>0 DEF InStep, Middle, TypeOK, Counts
  <2>2. at' = Stamp(step + 1, step + 1, step) /\ at' \in Stamps
    BY <1>0, <2>1, StampType DEF Stamp
  <2>3. TypeOK'
    BY <2>2 DEF TypeOK, Phases
  <2>4. InStep'
    BY <2>2 DEF InStep, Start, Middle, End
  <2>5. ThermoSlots' /\ VorticitySlots'
    BY DEF ThermoSlots, VorticitySlots, ThermoBefore, VorticityBefore, AB2, Start, Middle, End
  <2>6. TopWindSlots'
    BY DEF TopWindSlots, Start, Middle, End
  <2> QED
    BY <2>3, <2>4, <2>5, <2>6
<1>6. CASE TopWind
  <2> USE <1>6 DEF TopWind
  <2>1. at \in Stamps /\ hist \in [Slotted -> [0..1 -> Stamps]] /\ "uvtopmn" \in Slotted
    BY DEF TypeOK, Slotted
  <2>2. /\ hist' \in [Slotted -> [0..1 -> Stamps]]
        /\ \A q \in Slotted : q # "uvtopmn" => hist'[q] = hist[q]
    BY <1>0, <2>1, SlotsAlternate
  <2>3. TypeOK'
    BY <2>2 DEF TypeOK, Phases
  <2>4. InStep'
    BY DEF InStep, Start, Middle, End
  <2>5. ThermoSlots' /\ VorticitySlots'
    BY <1>0, <2>2 DEF ThermoSlots, VorticitySlots, ThermoBefore, VorticityBefore, AB2, Start,
                      Middle, End
  <2>6. plan.top => hist'["uvtopmn"][NowSlot(step)] = Stamp(step + 1, step + 1, step)
    <3>1. at = Stamp(step + 1, step + 1, step)
      BY DEF InStep, End
    <3> QED
      BY <1>0, <2>1, <3>1, SlotsAlternate
  <2>7. TopWindSlots'
    BY <2>6 DEF TopWindSlots, Start, Middle
  <2> QED
    BY <2>3, <2>4, <2>5, <2>7
<1>7. CASE SolveWind
  <2> USE <1>7 DEF SolveWind
  <2>1. /\ at = Stamp(step + 1, step + 1, step) /\ step < MaxStep /\ since <= step
        /\ step + 1 \in Counts /\ since \in Nat
    BY <1>0 DEF InStep, End, TypeOK, Counts
  <2>2. at' = AtStep(step') /\ at' \in Stamps /\ step' \in 0..MaxStep
    BY <1>0, <2>1, StampType DEF AtStep, Stamp
  <2>3. records' \subseteq 0..MaxStep
    BY <2>2 DEF TypeOK
  <2>4. TypeOK'
    BY <2>2, <2>3 DEF TypeOK, Phases
  <2>5. InStep'
    BY <1>0, <2>1, <2>2 DEF InStep, Start, Middle, End
  <2>6. PreviousSlot(step') = NowSlot(step) /\ step' # since' /\ step' - 1 = step
    BY <1>0, <2>1, SlotsAlternate
  <2>7. ThermoSlots'
    BY <2>6 DEF ThermoSlots, ThermoBefore, AB2, Start, Middle, End
  <2>8. VorticitySlots'
    BY <2>6 DEF VorticitySlots, VorticityBefore, AB2, Start, Middle, End
  <2>9. TopWindSlots'
    <3>1. step' = step + 1 /\ step \in Nat
      BY <1>0
    <3> QED
      BY <2>6, <3>1 DEF TopWindSlots, Start, Middle
  <2> QED
    BY <2>4, <2>5, <2>7, <2>8, <2>9
<1>8. CASE Stop
  BY <1>8 DEF Stop, TypeOK, Phases, InStep, ThermoSlots, VorticitySlots, TopWindSlots, Start, Middle, End
<1>9. ASSUME NEW s \in 0..MaxStep, Restart(s) PROVE HistoryInv'
  <2> USE <1>9 DEF Restart, RecoveredStep
  <2>1. s \in Nat /\ s \in Counts /\ Zero \in Stamps /\ AtStep(s) \in Stamps
    BY StampType DEF Counts, AtStep, Zero
  <2>2. /\ hist' \in [Slotted -> [0..1 -> Stamps]]
        /\ \A q \in Fields : AB2(q) => /\ hist'[q][NowSlot(s)] = AtStep(s)
                                       /\ hist'[q][PreviousSlot(s)] = AtStep(s)
    BY <2>1, RestartSlots, ZenonT(40)
  <2>3. TypeOK'
    BY <2>1, <2>2 DEF TypeOK, Phases
  <2>4. InStep'
    BY <2>1 DEF InStep, Start, Middle, End
  <2>5. ThermoSlots' /\ VorticitySlots'
    BY <1>0, <2>1, <2>2 DEF ThermoSlots, VorticitySlots, ThermoBefore, VorticityBefore, AB2,
                            Start, Middle, End
  <2>6. TopWindSlots'
    BY <2>1 DEF TopWindSlots
  <2> QED
    BY <2>3, <2>4, <2>5, <2>6
<1>10. CASE UNCHANGED vars
  BY <1>10 DEF vars, TypeOK, InStep, ThermoSlots, VorticitySlots, TopWindSlots, ThermoBefore,
               VorticityBefore, AB2
<1> QED
  BY <1>1, <1>2, <1>3, <1>4, <1>5, <1>6, <1>7, <1>8, <1>9, <1>10 DEF Next

(* Type correctness of the time integration.                                 *)
THEOREM TypeCorrect == Spec => []TypeOK
<1>1. HistoryInv => TypeOK
  BY DEF HistoryInv
<1> QED
  BY <1>1, HistoryInit, HistoryNext, PTL DEF Spec

(* Every advance by Adams-Bashforth finds the tendencies of this step and of the *)
(* step before, or, right after a restart, twice that of the restored state     *)
(* (TimeIntegrator::step_single_stage, DynamicalCore::initialize_restart_history). *)
THEOREM HistoryIsOfLastTwoSteps == Spec => []AdamsBashforthHistory
<1>1. HistoryInv => AdamsBashforthHistory
  BY DEF HistoryInv, AdamsBashforthHistory, ThermoSlots, VorticitySlots, TopWindSlots, ThermoBefore,
         VorticityBefore, Start, Middle, End
<1> QED
  BY <1>1, HistoryInit, HistoryNext, PTL DEF Spec

(* What the previous state of a variable must be while P3 may read it.         *)
PreviousKept == phase = "p3" => \A q \in P3Reads : prev[q] = step

(* With th and qv by a scheme that keeps the previous state, P3 reads the values *)
(* from before this step, on a fresh start and after any restart.             *)
THEOREM P3Previous ==
  ASSUME \A p \in Plans : \A q \in P3Reads : p.scheme[q] # "ForwardEuler"
  PROVE  Spec => []P3ReadsPreviousState
<1>1. Init => PreviousKept
  BY DEF Init, PreviousKept
<1>2. ASSUME HistoryInv, PreviousKept, [Next]_vars PROVE PreviousKept'
  <2>1. CASE UpdateThermo
    <3>1. at = AtStep(step) /\ plan \in Plans /\ P3Reads \subseteq Thermo
      BY <1>2, <2>1, TimeSteppingAssumption DEF UpdateThermo, HistoryInv, InStep, Start, TypeOK
    <3> QED
      BY <2>1, <3>1 DEF UpdateThermo, PreviousKept, KeptPrevious, AtStep, Stamp
  <2>2. CASE ~UpdateThermo
    BY <1>2, <2>2 DEF PreviousKept, Next, vars, CalculateThermo, RunP3, CalculateVorticity,
                      UpdateVorticity, TopWind, SolveWind, Stop, Restart
  <2> QED
    BY <2>1, <2>2
<1>3. HistoryInv /\ PreviousKept => P3ReadsPreviousState
  BY DEF HistoryInv, InStep, Middle, PreviousKept, P3ReadsPreviousState, Stamp
<1> QED
  BY <1>1, <1>2, <1>3, HistoryInit, HistoryNext, PTL DEF Spec
=================================================================================
