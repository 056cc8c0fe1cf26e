------------------------------ MODULE Physics ------------------------------
(***************************************************************************)
(* The analytic physics of the evaluator: mass, energy, tail, drag, spar   *)
(* and propulsion of an input, each a claim with a value and a status.     *)
(*                                                                         *)
(* An input is a record of                                                 *)
(*   parts     by id: type, mass and x, and the fields of its type         *)
(*   geo       reference, coefficients, tail, neutral point, chains,       *)
(*             clearance, and the mission and environment it carries       *)
(*   mission   the mission argument                                        *)
(* A field is an integer, Null, or Absent when the document lacks the key. *)
(* Units are chosen so that the formulas stay in small integers: grams,    *)
(* decimetres, millinewtons, drag coefficients in 1/100000.                *)
(***************************************************************************)
EXTENDS Integers, Sequences, FiniteSets, FiniteSetsExt

CONSTANTS Null, Absent

ASSUME MissingAssumption == Null # Absent

AsFloat(v) == IF v = Absent THEN Null ELSE v
\* The first key that is there answers, even with null: it hides the later ones.
FirstPresent(keys) ==
  LET there == {i \in DOMAIN keys : keys[i] # Absent}
  IN IF there = {} THEN Null ELSE keys[Min(there)]
AllKnown(values) == Null \notin values

Claim(v, status) == [value |-> v, status |-> IF v = Null THEN "unknown" ELSE status]
UnknownClaim == Claim(Null, "unknown")

OfType(in, types) == {p \in DOMAIN in.parts : in.parts[p].type \in types}
TheOnly(in, type, field) ==
  LET S == OfType(in, {type})
  IN IF S = {} THEN Null ELSE AsFloat(in.parts[CHOOSE p \in S : TRUE][field])
MissionFloat(in, key) ==
  FirstPresent(<<in.mission[key], in.geo.mission[key], in.geo.environment[key]>>)
Coeff(in, name) == FirstPresent(<<in.geo.aero[name], in.geo.assumed[name]>>)

\* --- mass and balance ----------------------------------------------------
Mass(in, p) == AsFloat(in.parts[p].mass)
\* Mutant: parts without a mass are left out of the sum.
SumKnownMass(in) ==
  Claim(SumFunction([p \in {q \in DOMAIN in.parts : Mass(in, q) # Null} |-> Mass(in, p)]), "known")
SumMass(in) ==
  IF AllKnown({Mass(in, p) : p \in DOMAIN in.parts})
  THEN Claim(SumFunction([p \in DOMAIN in.parts |-> Mass(in, p)]), "known") ELSE UnknownClaim

\* The moment; the centre of gravity is the moment over the mass.
CenterOfGravity(in) ==
  LET xs == {AsFloat(in.parts[p].x) : p \in DOMAIN in.parts}
      masses == {Mass(in, p) : p \in DOMAIN in.parts}
  IN IF SumMass(in).value \in {Null, 0} \/ ~AllKnown(xs \cup masses) THEN UnknownClaim
     ELSE Claim(SumFunction([p \in DOMAIN in.parts |-> Mass(in, p) * in.parts[p].x]), "known")

\* In per cent of the chord, aft limit first; only a known neutral point gives a known margin.
StaticMargin(in) ==
  LET np == AsFloat(in.geo.np)
      status == IF in.geo.npStatus = "known" THEN "known"
                ELSE IF in.geo.npStatus \in {"assumed", "estimated"} THEN "estimated" ELSE "unknown"
      Margin(cg, mass) ==
        IF AllKnown({np, cg, mass}) /\ in.geo.c \notin {Null, 0}
        THEN Claim((100 * (cg - np * mass)) \div (in.geo.c * mass), status) ELSE UnknownClaim
  IN Margin(CenterOfGravity(in).value, SumMass(in).value)

\* --- energy --------------------------------------------------------------
\* A pack states its energy in its specs; where that is missing or null, the part is asked.
Energy(b) == IF AsFloat(b.energy) # Null THEN b.energy ELSE AsFloat(b.partEnergy)
\* More energy per mass than its chemistry stores: kept, but the claim is conflicted.
ChemistryLimit(chem) == IF chem \in {"liion", "nmc", "nca"} THEN 270 ELSE 200
Implausible(b) ==
  /\ Energy(b) # Null /\ AsFloat(b.mass) # Null /\ b.mass > 0
  /\ 1000 * Energy(b) > ChemistryLimit(b.chem) * b.mass
Packs(in) == {p \in OfType(in, {"battery"}) : Energy(in.parts[p]) # Null}
\* Mutant: the last pack decides on its own.
LastPackDecides(in) ==
  LET total == MapThenSumSet(LAMBDA p : Energy(in.parts[p]), Packs(in))
      last  == CHOOSE p \in Packs(in) : \A q \in Packs(in) : in.parts[p].index >= in.parts[q].index
  IN IF Packs(in) = {} THEN UnknownClaim
     ELSE Claim(total, IF Implausible(in.parts[last]) THEN "conflicted" ELSE "known")
\* A pack without an energy is left out of the sum, which stays known.
BatteryEnergy(in) ==
  IF Packs(in) = {} THEN UnknownClaim
  ELSE Claim(MapThenSumSet(LAMBDA p : Energy(in.parts[p]), Packs(in)),
             IF \E p \in Packs(in) : Implausible(in.parts[p]) THEN "conflicted" ELSE "known")
UsableEnergy(in) ==
  LET Above(energy, reserve) ==
        IF ~AllKnown({energy.value, reserve}) THEN UnknownClaim
        ELSE Claim((energy.value * (100 - reserve)) \div 100, energy.status)
  IN Above(BatteryEnergy(in), MissionFloat(in, "reserve"))

\* --- tail ----------------------------------------------------------------
\* Horizontal and vertical volume in per cent; a V-tail projects its two panels.
Cosine == [d \in {0, 40, 90} |-> IF d = 0 THEN 100 ELSE IF d = 40 THEN 77 ELSE 0]
Sine == [d \in {0, 40, 90} |-> Cosine[IF d = 40 THEN 40 ELSE 90 - d]]
TailVolumes(in) ==
  LET layout == in.geo.layout
      vtail  == layout = "vtail"
      cant   == AsFloat(in.geo.cant)
      areas  == IF vtail THEN <<AsFloat(in.geo.panel), AsFloat(in.geo.panel)>>
                ELSE <<AsFloat(in.geo.sh), AsFloat(in.geo.sv)>>
      arm    == AsFloat(in.geo.arm)
      known  == /\ AllKnown({areas[1], areas[2], arm, in.geo.S, in.geo.b, in.geo.c})
                /\ vtail => cant # Null
      h      == IF vtail THEN (2 * areas[1] * Cosine[cant]) \div 100 ELSE areas[1]
      v      == IF vtail THEN (2 * areas[2] * Sine[cant]) \div 100 ELSE areas[2]
  IN [ layout |-> IF layout \in {Null, Absent} THEN Null ELSE IF vtail THEN "vtail" ELSE "conventional",
       canted |-> cant # Null,
       h |-> IF layout \notin {Null, Absent} /\ known THEN (100 * h * arm) \div (in.geo.S * in.geo.c) ELSE Null,
       v |-> IF layout \notin {Null, Absent} /\ known THEN (100 * v * arm) \div (in.geo.S * in.geo.b) ELSE Null ]

\* --- lift and drag -------------------------------------------------------
Weight(in) ==
  LET Times(m, g) == IF AllKnown({m, g}) THEN m * g ELSE Null
  IN Times(SumMass(in).value, MissionFloat(in, "g"))
Pressure(in) ==
  LET Dynamic(rho, v) == IF AllKnown({rho, v}) THEN (rho * v * v) \div 20 ELSE Null
  IN Dynamic(MissionFloat(in, "rho"), MissionFloat(in, "cruise"))
TrimLift(in) ==
  LET Carrying(w, q) ==
        IF AllKnown({w, q, in.geo.S}) /\ q * in.geo.S # 0 THEN (100 * w) \div (q * in.geo.S) ELSE Null
  IN Carrying(Weight(in), Pressure(in))

\* A sweep's points are [alpha, lift, drag], ascending in lift. Between them the drag is
\* interpolated at the trim lift; without one the point nearest to zero incidence stands. The
\* worker writes its coefficients as lists, so a sweep without points has no scalar pair either.
InterpolateAt(points, lift) ==
  LET above == {i \in DOMAIN points : points[i].lift >= lift}
  IN IF above = {} THEN points[Len(points)].drag
     ELSE LET i == Min(above)
          IN IF i = 1 THEN points[1].drag
             ELSE points[i - 1].drag + ((points[i].drag - points[i - 1].drag) * (lift - points[i - 1].lift))
                                        \div (points[i].lift - points[i - 1].lift)
SolverLiftDrag(points, trim) ==
  IF points = <<>> THEN [lift |-> Null, drag |-> Null]
  ELSE IF trim # Null THEN [lift |-> trim, drag |-> InterpolateAt(points, trim)]
  ELSE LET Off(a) == IF a < 0 THEN -a ELSE a
           i == CHOOSE k \in DOMAIN points : \A j \in DOMAIN points :
                  Off(points[k].alpha) < Off(points[j].alpha)
                  \/ (Off(points[k].alpha) = Off(points[j].alpha) /\ k <= j)
       IN [lift |-> points[i].lift, drag |-> points[i].drag]

\* Parasite drag is declared, induced drag is the solver's or k CL^2, never both.
Drag(in, solver) ==
  LET parasite == <<Coeff(in, "profile"), Coeff(in, "fuselage"), Coeff(in, "interference")>>
      K(e) == IF AllKnown({e, in.geo.S, in.geo.b})
              THEN (10000000 * in.geo.S) \div (314 * e * in.geo.b * in.geo.b) ELSE Null
      Square(k, lift) == IF AllKnown({k, lift}) THEN (k * lift * lift) \div 10000 ELSE Null
      Force(p, induced, q) ==
        IF AllKnown({p[i] : i \in 1..3} \cup {induced, q, in.geo.S})
        THEN ((p[1] + p[2] + p[3] + induced) * q * in.geo.S) \div 10000 ELSE Null
      lift == IF solver.lift # Null THEN solver.lift ELSE TrimLift(in)
  IN Force(parasite, IF solver.drag # Null THEN solver.drag ELSE Square(K(Coeff(in, "e")), lift), Pressure(in))

\* The stall speed, squared.
Stall(in) ==
  LET Speed(w, rho, clmax) ==
        IF AllKnown({w, rho, clmax, in.geo.S}) /\ rho > 0 /\ clmax > 0 /\ in.geo.S > 0
        THEN (200 * w) \div (rho * in.geo.S * clmax) ELSE Null
  IN Speed(Weight(in), MissionFloat(in, "rho"), Coeff(in, "clmax"))

\* --- spar ----------------------------------------------------------------
\* The bending moment is shared by stiffness; a spar without a modulus counts with one.
SparSafety(in) ==
  LET spars == OfType(in, {"spar"})
      Inertia(p) == in.parts[p].outer ^ 4 - in.parts[p].inner ^ 4
      Modulus(p) == IF AsFloat(in.parts[p].modulus) = Null THEN 1 ELSE in.parts[p].modulus
      Sound(p) == /\ AllKnown({AsFloat(in.parts[p].outer), AsFloat(in.parts[p].inner), AsFloat(in.parts[p].allow)})
                  /\ Inertia(p) > 0
      Stiffness == SumFunction([p \in spars |-> Modulus(p) * Inertia(p)])
      Stress(w, ei) == Max({(w * in.geo.b * Modulus(p) * in.parts[p].outer) \div ei : p \in spars})
      Safety(stress) ==
        IF stress <= 0 THEN UnknownClaim
        ELSE Claim((10 * Min({in.parts[p].allow : p \in spars})) \div stress, "known")
      Under(w) ==
        IF ~AllKnown({w, in.geo.b}) \/ spars = {} \/ \E p \in spars : ~Sound(p) THEN UnknownClaim
        ELSE Safety(Stress(w, Stiffness))
  IN Under(Weight(in))

\* --- propulsion ----------------------------------------------------------
\* Thrust equals drag: the current rises with the drag, the motor speed with its root. The limit
\* of the first pack asks for its energy in the specs alone.
Root(n) == CHOOSE r \in 0..400 : r * r <= n /\ n < (r + 1) * (r + 1)
LimitOf(in, type) == TheOnly(in, type, "imax")
Propulsion(in, drag) ==
  LET kv == TheOnly(in, "motor", "kv")  rm == TheOnly(in, "motor", "rm")  i0 == TheOnly(in, "motor", "i0")
      ct == TheOnly(in, "prop", "ct")   cp == TheOnly(in, "prop", "cp")
      pack == {p \in OfType(in, {"battery"}) : in.parts[p].index = 1}
      Spec(field) == IF pack = {} THEN Null ELSE AsFloat(in.parts[CHOOSE p \in pack : TRUE][field])
      ir == IF Spec("ir") = Null THEN 0 ELSE Spec("ir")
      limit == IF AllKnown({Spec("crate"), Spec("energy"), Spec("volt")})
               THEN (Spec("crate") * Spec("energy")) \div Spec("volt") ELSE Null
      needed == {kv, rm, i0, ct, cp, Spec("volt"), drag, MissionFloat(in, "cruise"), MissionFloat(in, "rho")}
      solved == AllKnown(needed) /\ ct > 0 /\ drag > 0 /\ kv > 0
      i == i0 + (cp * drag) \div (100 * ct)
  IN [ current |-> IF solved THEN i ELSE Null,
       power   |-> IF solved THEN ((60 * Root(drag)) \div kv + i * (rm + ir)) * i ELSE Null,
       motor |-> LimitOf(in, "motor"), esc |-> LimitOf(in, "esc"), battery |-> limit ]

\* Minutes and kilometres. The range is called known whatever the energy is worth.
Performance(in, energy, power) ==
  LET v == MissionFloat(in, "cruise")
      solved == AllKnown({power, energy.value}) /\ power # 0
  IN [ endurance |-> IF solved THEN Claim((60 * energy.value) \div power,
                                          IF energy.status = "conflicted" THEN "conflicted" ELSE "known")
                     ELSE UnknownClaim,
       range |-> IF solved /\ v \notin {Null, 0} THEN Claim((36 * energy.value * v) \div (10 * power), "known")
                 ELSE UnknownClaim ]
=============================================================================
