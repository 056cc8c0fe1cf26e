------------------------- MODULE RevisionEvaluation -------------------------
(***************************************************************************)
(* evaluate_revision: the fourteen checks over the physics of an input and *)
(* an optional solver sweep, and the tier the document claims.             *)
(*                                                                         *)
(* A sweep is a record with label (the geometry hash it carries, or Null)  *)
(* and points (its polar, empty when it has no lift and drag).             *)
(***************************************************************************)
EXTENDS Physics

NoSweep == [label |-> Null, points |-> <<>>]
Hash(in) == in.geo.version
Verdict(cond) == IF cond THEN "pass" ELSE "fail"
InBand(v, lo, hi) == lo <= v /\ v <= hi

\* --- checks --------------------------------------------------------------
StaticMarginCheck(margin) ==
  IF margin.value = Null \/ margin.status \in {"unknown", "estimated"} THEN "unknown"
  ELSE Verdict(InBand(margin.value, 5, 20))
StallCheck(in, weighed, stall) ==
  LET v == FirstPresent(<<in.mission.cruise, in.geo.mission.cruise>>)
  IN IF ~weighed \/ stall = Null \/ v = Null THEN "unknown"
     ELSE Verdict(stall # 0 /\ 100 * v * v >= 169 * stall)
SparCheck(weighed, spar) ==
  IF ~weighed \/ spar.value = Null THEN "unknown" ELSE Verdict(spar.value >= 15)
TailCheck(tail, volume, lo, hi) ==
  CASE tail.layout = "vtail" -> IF tail.canted THEN "not_applicable" ELSE "unknown"
    [] tail.layout = "conventional" /\ volume # Null -> Verdict(InBand(volume, lo, hi))
    [] OTHER -> "unknown"
CurrentCheck(i, limit) == IF ~AllKnown({i, limit}) THEN "unknown" ELSE Verdict(i <= limit)
PayloadCheck(in) == Verdict(in.required \subseteq DOMAIN in.parts)
ClearanceCheck(in) ==
  IF in.geo.clearance \in {Null, Absent} /\ ~in.geo.intersections THEN "unknown"
  ELSE Verdict(in.geo.clearance = "pass")

RunChecks(in, weighed, tail, prop) ==
  [ static_margin |-> StaticMarginCheck(StaticMargin(in)),
    stall |-> StallCheck(in, weighed, Stall(in)),
    climb |-> "unknown",
    spar |-> SparCheck(weighed, SparSafety(in)),
    tail_volume_h |-> TailCheck(tail, tail.h, 35, 70),
    tail_volume_v |-> TailCheck(tail, tail.v, 2, 6),
    servos |-> "unknown",
    motor_current |-> CurrentCheck(prop.current, prop.motor),
    esc_current |-> CurrentCheck(prop.current, prop.esc),
    battery_current |-> CurrentCheck(prop.current, prop.battery),
    wiring_chains |-> IF in.geo.chains THEN "pass" ELSE "unknown",
    payload |-> PayloadCheck(in),
    clearance |-> ClearanceCheck(in),
    vtail_or_tail_layout |-> IF tail.layout = Null THEN "unknown" ELSE "pass" ]

\* --- the document --------------------------------------------------------
\* A sweep counts only under the hash of the geometry evaluated, and with a lift and a drag.
SolverNumbers(in, sweep) ==
  IF sweep.label = Null \/ sweep.label # Hash(in) THEN [lift |-> Null, drag |-> Null]
  ELSE SolverLiftDrag(sweep.points, TrimLift(in))
SolverUsed(solver) == AllKnown({solver.lift, solver.drag})
Document(in, tier, energy, prop) ==
  [ tier |-> tier, checks |-> RunChecks(in, SumMass(in).value # Null, TailVolumes(in), prop),
    usable |-> energy, performance |-> Performance(in, energy, prop.power) ]
EvaluateWith(in, solver) ==
  IF SolverUsed(solver) THEN Document(in, "vspaero", UsableEnergy(in), Propulsion(in, Drag(in, solver)))
  ELSE Document(in, "analytic", UsableEnergy(in),
                Propulsion(in, Drag(in, [lift |-> Null, drag |-> Null])))
Evaluate(in, sweep) == EvaluateWith(in, SolverNumbers(in, sweep))
Decided(status) == status \in {"pass", "fail"}
=============================================================================
