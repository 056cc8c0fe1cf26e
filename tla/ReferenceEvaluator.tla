------------------------- MODULE ReferenceEvaluator -------------------------
(***************************************************************************)
(* The analytic evaluator the workbench is built with: it turns a design   *)
(* and a mission into one status per registered check and a few metrics.   *)
(* The formulas keep their shape (what rises with what) in integers.       *)
(***************************************************************************)
EXTENDS Airframe

\* checks: the status by check id; metrics: a value or Unknown by metric id.
PassIf(cond) == IF cond THEN "pass" ELSE "fail"

\* The mass properties w are worked out once and handed to the checks.
MassBudget(w, m) == IF Known(w) THEN PassIf(w.total <= m.maxMass) ELSE "unknown"

\* The station is -moment / total, aft positive; compared without the division.
InEnvelope(w, m) == m.cgLo * w.total <= -w.moment /\ -w.moment <= m.cgHi * w.total
CgEnvelope(w, m) == IF Known(w) THEN PassIf(InEnvelope(w, m)) ELSE "unknown"

StaticMargin(w, m) ==
  IF ~Known(Neutral) \/ ~Known(Mac) \/ ~Known(w) THEN "unknown"
  ELSE LET margin == 100 * (Neutral * w.total + w.moment)
           unit   == Mac * w.total
       IN PassIf(m.marginLo * unit <= margin /\ margin <= m.marginHi * unit)

\* Lift is known once weight, area and span are; it feeds drag, power and stall.
Powered(d, w) ==
  /\ Known(w) /\ Known(d.area) /\ Known(d.span)
  /\ Polar /\ Powertrain
  /\ Known(d.pack.capacity) /\ Known(d.pack.volt) /\ Known(d.pack.limit)

\* D V / eta + P_avionics: parasite drag with the area, induced drag with the span loading.
Power(d, w) ==
  Parasite * d.area + (Induced * (w.total * w.total)) \div (4 * d.span * d.span)
  + Avionics
Usable(d, m) == d.pack.capacity * (100 - m.reserve)
Reach(d, w, m) == IF Powered(d, w) THEN (60 * Usable(d, m)) \div Power(d, w) ELSE Unknown
Objective(d, m) == Reach(d, MassProperties(d), m)

EnergyReserve(d, w, m) ==
  IF Powered(d, w)
  THEN PassIf(Usable(d, m) * RangeUnit >= Power(d, w) * m.route * 1000) ELSE "unknown"
CurrentLimit(d) == IF d.pack.limit < EscLimit THEN d.pack.limit ELSE EscLimit
BatteryCurrent(d, w) ==
  IF Powered(d, w) THEN PassIf(Power(d, w) <= CurrentLimit(d) * d.pack.volt) ELSE "unknown"

\* Reported unknown by the aerodynamics when lift is unknown, by the propulsion otherwise.
StallMargin(d, w, m) ==
  IF Powered(d, w) THEN PassIf(w.total <= m.wingLoading * d.area) ELSE "unknown"

SparStress(d, w, m) ==
  IF WithRole("spar") = {} \/ ~Known(d.span) \/ ~Known(w) \/ ~Known(Allowable)
  THEN "unknown"
  ELSE PassIf(w.total * d.span * m.load * d.tube.outer
              <= Allowable * SecondMoment(d.tube.outer, d.tube.inner))

\* A clash is a failure before an unchecked part makes the screen unknown.
Clearance(d) ==
  IF Clashes(d) THEN "fail"
  ELSE IF \E p \in Parts : ~Known(d.size[p]) THEN "unknown" ELSE "pass"

\* Applicability is not a verdict on the design: a rule in scope and one out of scope both pass.
RegistrationRule(w, m) ==
  IF m.operation = "part_107_commercial" THEN "applies"
  ELSE IF ~Known(w) THEN "unknown"
  ELSE IF w.total > Registrable THEN "applies" ELSE "does_not_apply"
RemoteIdRule(w, m) ==
  CASE m.friaa = "inside" -> "does_not_apply"
    [] m.friaa = "unstated" -> "unknown"
    [] OTHER -> RegistrationRule(w, m)
Regulatory(rule) == IF rule = "unknown" THEN "unknown" ELSE "pass"

TailVolume(d) ==
  IF ~Known(TailArea) \/ ~Known(d.area) \/ ~Known(Mac) THEN "unknown"
  ELSE LET volume == TailArea * TailArm * 100  unit == d.area * Mac
       IN PassIf(30 * unit <= volume /\ volume <= 90 * unit)

Checks(d, w, m) ==
  [ mass_budget |-> MassBudget(w, m), cg_envelope |-> CgEnvelope(w, m),
    static_margin |-> StaticMargin(w, m), energy_reserve |-> EnergyReserve(d, w, m),
    battery_current |-> BatteryCurrent(d, w), stall_margin |-> StallMargin(d, w, m),
    spar_stress |-> SparStress(d, w, m), clearance |-> Clearance(d),
    registration_applicability |-> Regulatory(RegistrationRule(w, m)),
    remote_id_applicability |-> Regulatory(RemoteIdRule(w, m)),
    tail_volume |-> TailVolume(d) ]
Evaluate(d, m) == Checks(d, MassProperties(d), m)

CheckIds ==
  {"mass_budget", "cg_envelope", "static_margin", "energy_reserve", "battery_current",
   "stall_margin", "spar_stress", "clearance", "registration_applicability",
   "remote_id_applicability", "tail_volume"}
ASSUME EvaluationAssumption == Unknown \notin [CheckIds -> {"pass", "fail", "unknown"}]

\* The registry: hard invariants and modelled constraints block, the rest inform.
BlockingIds == {"mass_budget", "cg_envelope", "static_margin", "energy_reserve", "spar_stress",
                "stall_margin", "battery_current", "clearance"}
\* Mutant: only a failed check blocks.
BlockingFailures(eval) == {c \in BlockingIds : eval[c] = "fail"}
Blocking(eval) == {c \in BlockingIds : eval[c] \in {"fail", "unknown"}}
RequiredUnknown(eval) == {c \in BlockingIds : eval[c] = "unknown"}
VerifiedFeasible(eval) == Blocking(eval) = {}
=============================================================================
