------------------------- MODULE SolverSweepProofs -------------------------
(***************************************************************************)
(* The OpenVSP worker beside the evaluator, for any geometries, inputs,    *)
(* facts, interpreters and polars and any number of edits and calls.       *)
(***************************************************************************)
EXTENDS SolverSweep, TLAPS

ProcessFields == {"cmd", "label", "of", "quiet", "state", "out"}
PayloadFields == {"label", "of", "points", "missed", "quiet"}

\* A payload with points was solved for a geometry, and if nobody wrote the file
\* meanwhile that is the geometry it is labelled with.
PayloadBound(r) ==
    /\ DOMAIN r = PayloadFields
    /\ r.quiet \in BOOLEAN
    /\ r.points # << >> => r.of # Null
    /\ r.quiet /\ r.of # Null => r.of = r.label

\* A process that nobody disturbed was started with the hash of the geometry that
\* it has read, or that it is about to read.
ProcessBound(p) ==
    /\ DOMAIN p = ProcessFields
    /\ p.quiet \in BOOLEAN
    /\ p.quiet => p.label = IF p.of = Null THEN geometry ELSE p.of
    /\ p.out = Null \/ PayloadBound(p.out)

SweepInv ==
    /\ geometry \in Geometries /\ facts \subseteq Facts
    /\ own = Null \/ ProcessBound(own)
    /\ \A p \in orphans : ProcessBound(p)
    /\ file \in {Null, Torn} \/ PayloadBound(file)
    /\ PayloadBound(sweep)

LEMMA FailureBound == ASSUME NEW label PROVE PayloadBound(Failure(label))
  BY DEF PayloadBound, PayloadFields, Failure

\* What a process leaves is bound as the process is.
LEMMA ResultBound ==
    ASSUME NEW p, ProcessBound(p), ~(p.of = Null), NEW r \in Results(p)
    PROVE  PayloadBound(r)
<1>1. PICK points, missed : r = [label |-> p.label, of |-> p.of, points |-> points,
                                 missed |-> missed, quiet |-> p.quiet]
  BY DEF Results
<1>2. DOMAIN r = PayloadFields /\ r.quiet = p.quiet /\ r.of = p.of /\ r.label = p.label
  BY <1>1 DEF PayloadFields
<1> QED
  BY <1>2 DEF PayloadBound, ProcessBound

\* One step of a process, the caller's or one it gave up.
LEMMA StepBound ==
    ASSUME SweepAssumption, SweepInv, NEW p, ProcessBound(p), NEW s \in Steps(p)
    PROVE  /\ ProcessBound(s[1])
           /\ s[2] \in {Null, Torn} \/ PayloadBound(s[2])
<1>1. CASE Unread(p)
  <2>1. s[1] = [p EXCEPT !.of = geometry] /\ s[2] = file
    BY <1>1 DEF Steps
  <2>2. geometry # Null
    BY DEF SweepAssumption, SweepInv
  <2> QED
    BY <1>1, <2>1, <2>2 DEF ProcessBound, ProcessFields, Unread, SweepInv
<1>2. CASE ~Unread(p) /\ p.state = "running"
  <2>1. \/ s[1] = [p EXCEPT !.state = "writing"] /\ s[2] = Torn
        \/ s[1] = [p EXCEPT !.state = "done"] /\ s[2] = file
    BY <1>2 DEF Steps
  <2> QED
    BY <2>1 DEF ProcessBound, ProcessFields, SweepInv
<1>3. CASE ~Unread(p) /\ p.state # "running" /\ p.state = "writing"
  <2>1. PICK r \in Results(p) : s = <<[p EXCEPT !.state = "done", !.out = r], r>>
    BY <1>3 DEF Steps
  <2>2. PayloadBound(r)
    BY <1>3, ResultBound DEF Unread
  <2>3. s[1] = [p EXCEPT !.state = "done", !.out = r] /\ s[2] = r
    BY <2>1
  <2> QED
    BY <2>2, <2>3 DEF ProcessBound, ProcessFields
<1> QED
  BY <1>1, <1>2, <1>3 DEF Steps

\* An edit of the geometry disturbs who has not read it yet.
LEMMA DisturbBound ==
    ASSUME NEW p, ProcessBound(p)
    PROVE  ProcessBound(Disturb(p))'
<1>1. CASE Unread(p)
  <2>1. Disturb(p) = [p EXCEPT !.quiet = FALSE]
    BY <1>1 DEF Disturb
  <2> QED
    BY <2>1 DEF ProcessBound, ProcessFields, PayloadBound
<1>2. CASE ~Unread(p)
  <2>1. Disturb(p) = p /\ p.of # Null
    BY <1>2 DEF Disturb, Unread
  <2> QED
    BY <2>1 DEF ProcessBound, ProcessFields, PayloadBound
<1> QED
  BY <1>1, <1>2

\* What another process or the caller does to the rest leaves a process as bound.
LEMMA StillBound ==
    ASSUME NEW p, ProcessBound(p), geometry' = geometry
    PROVE  ProcessBound(p)'
  BY DEF ProcessBound, PayloadBound

\* The caller goes on to the next interpreter or reports every failure.
LEMMA NextCommandBound ==
    ASSUME PayloadBound(sweep), NextCommand
    PROVE  PayloadBound(sweep')
  BY FailureBound DEF NextCommand

LEMMA SweepInit == SweepAssumption /\ Init => SweepInv
<1> SUFFICES ASSUME SweepAssumption, Init PROVE SweepInv
  OBVIOUS
<1> QED
  BY FailureBound DEF Init, SweepInv

LEMMA SweepNext == SweepAssumption /\ SweepInv /\ [Next]_vars => SweepInv'
<1> SUFFICES ASSUME SweepAssumption, SweepInv, [Next]_vars PROVE SweepInv'
  OBVIOUS
<1> USE DEF SweepInv
<1>1. CASE Establish
  BY <1>1, StillBound DEF Establish, PayloadBound
<1>2. CASE EditGeometry
  <2>1. own' = (IF own = Null THEN Null ELSE Disturb(own))
        /\ orphans' = {Disturb(p) : p \in orphans}
        /\ geometry' \in Geometries /\ UNCHANGED <<facts, file, sweep>>
    BY <1>2 DEF EditGeometry
  <2>2. own' = Null \/ ProcessBound(own)'
    <3>1. CASE own = Null
      BY <2>1, <3>1
    <3>2. CASE own # Null
      <4>1. PICK mine : mine = own
        OBVIOUS
      <4>2. ProcessBound(Disturb(mine))'
        BY <3>2, <4>1, DisturbBound
      <4> QED
        BY <2>1, <4>1, <4>2 DEF ProcessBound, PayloadBound
    <3> QED
      BY <3>1, <3>2
  <2>3. ASSUME NEW q \in orphans' PROVE ProcessBound(q)'
    <3>1. PICK p \in orphans : q = Disturb(p)
      BY <2>1, <2>3
    <3> QED
      BY <3>1, DisturbBound
  <2> QED
    BY <2>1, <2>2, <2>3 DEF PayloadBound
<1>3. CASE Request
  BY <1>3, StillBound, FailureBound DEF Request, PayloadBound
<1>4. CASE Launch
  <2>1. file' = Null /\ UNCHANGED <<geometry, facts, orphans>>
    BY <1>4 DEF Launch
  <2>2. CASE own' = Start(call.cmd, call.hash) /\ sweep' = sweep
    <3>1. ProcessBound(own)'
      BY <2>1, <2>2 DEF Start, ProcessBound, ProcessFields
    <3> QED
      BY <2>1, <2>2, <3>1, StillBound DEF PayloadBound
  <2>3. CASE own' = Null /\ NextCommand
    BY <2>1, <2>3, NextCommandBound, StillBound DEF PayloadBound
  <2> QED
    BY <1>4, <2>2, <2>3 DEF Launch
<1>5. CASE OwnStep
  <2>1. PICK s \in Steps(own) : own' = s[1] /\ file' = s[2]
    BY <1>5 DEF OwnStep
  <2>2. own # Null /\ UNCHANGED <<geometry, facts, orphans, sweep>>
    BY <1>5 DEF OwnStep
  <2>3. ProcessBound(s[1]) /\ (s[2] \in {Null, Torn} \/ PayloadBound(s[2]))
    BY <2>1, <2>2, StepBound
  <2> QED
    BY <2>1, <2>2, <2>3, StillBound DEF PayloadBound, ProcessBound
<1>6. CASE OrphanStep
  <2>1. PICK p \in orphans : \E s \in Steps(p) :
           /\ orphans' = (orphans \ {p}) \cup (IF s[1].state = "done" THEN {} ELSE {s[1]})
           /\ file' = s[2]
    BY <1>6 DEF OrphanStep
  <2>2. PICK s \in Steps(p) :
           /\ orphans' = (orphans \ {p}) \cup (IF s[1].state = "done" THEN {} ELSE {s[1]})
           /\ file' = s[2]
    BY <2>1
  <2>3. UNCHANGED <<geometry, facts, own, sweep>>
    BY <1>6 DEF OrphanStep
  <2>4. ProcessBound(s[1]) /\ (s[2] \in {Null, Torn} \/ PayloadBound(s[2]))
    BY <2>2, <2>3, StepBound
  <2>5. \A q \in orphans' : ProcessBound(q)
    BY <2>2, <2>4
  <2> QED
    BY <2>2, <2>3, <2>4, <2>5, StillBound DEF PayloadBound
<1>7. CASE Timeout
  <2>1. own' = Null /\ orphans' \subseteq orphans \cup {own} /\ own # Null
        /\ NextCommand /\ UNCHANGED <<geometry, facts, file>>
    BY <1>7 DEF Timeout, Running
  <2> QED
    BY <2>1, NextCommandBound, StillBound DEF PayloadBound
<1>8. CASE Collect
  <2>1. own' = Null /\ own # Null /\ UNCHANGED <<geometry, facts, orphans, file>>
    BY <1>8 DEF Collect
  <2>2. Payload = Null \/ PayloadBound(Payload)
    BY <2>1 DEF Payload, ProcessBound
  <2>3. PayloadBound(sweep')
    <3>1. CASE NextCommand
      BY <3>1, NextCommandBound
    <3>2. CASE Payload # Null /\ sweep' = [Payload EXCEPT !.label = Label(Payload)]
      BY <2>2, <3>2 DEF PayloadBound, PayloadFields, Label
    <3> QED
      BY <1>8, <3>1, <3>2 DEF Collect
  <2> QED
    BY <2>1, <2>3, StillBound DEF PayloadBound
<1>9. CASE UNCHANGED vars
  BY <1>9, StillBound DEF vars, PayloadBound
<1> QED
  BY <1>1, <1>2, <1>3, <1>4, <1>5, <1>6, <1>7, <1>8, <1>9 DEF Next

\* The processes, the result file and the payload a caller was given are always bound
\* to the geometry they are labelled with (generate_and_sweep, _vsp_run.run).
THEOREM SweepInvariant == Spec => []SweepInv
<1>1. SweepAssumption
  BY SweepAssumption
<1> QED
  BY <1>1, SweepInit, SweepNext, PTL DEF Spec

-----------------------------------------------------------------------------
(* What the evaluator makes of a sweep.                                    *)

\* It counts only under the hash of the geometry evaluated and with points.
LEMMA SolverBound ==
    ASSUME NEW in, NEW s, SolverUsed(SolverNumbers(in, s))
    PROVE  s.label = Hash(in) /\ s.points # << >>
  BY DEF SolverUsed, SolverNumbers, AllKnown, SolverLiftDrag

\* A sweep that raises the document to the solver tier is of the geometry evaluated, unless
\* somebody wrote the file while an interpreter was starting (evaluate_revision): not even
\* the result that a process given up by an earlier call writes late is taken for another's.
THEOREM QuietSweepBound == Spec => []QuietSweepIsBound
<1>1. SweepAssumption
  BY SweepAssumption
<1>2. SweepInv => QuietSweepIsBound
  <2> SUFFICES ASSUME SweepInv, sweep.quiet, SolverUsed(SolverNumbers(In, sweep))
               PROVE  sweep.of = geometry
    BY DEF QuietSweepIsBound
  <2>1. sweep.label = Hash(In) /\ sweep.points # << >>
    BY SolverBound
  <2>2. Hash(In) = geometry
    BY <1>1 DEF SweepAssumption, SweepInv, In
  <2> QED
    BY <2>1, <2>2 DEF SweepInv, PayloadBound
<1> QED
  BY <1>2, SweepInvariant, PTL

\* A claim that is in conflict, or unknown because there is nothing to claim.
Doubtful(claim) ==
    /\ claim.status \in {"conflicted", "unknown"}
    /\ claim.status = "unknown" => claim.value = Null

LEMMA ConflictedClaim == ASSUME NEW v PROVE Doubtful(Claim(v, "conflicted"))
  BY DEF Claim, Doubtful

LEMMA UnknownDoubtful == Doubtful(UnknownClaim)
  BY DEF Claim, Doubtful, UnknownClaim

\* The doubt passes from one pack to the energy of all of them and to what is usable of it.
LEMMA EnergyDoubtful ==
    ASSUME NEW in, NEW p \in Packs(in), Implausible(in.parts[p])
    PROVE  Doubtful(UsableEnergy(in))
<1> DEFINE energy == BatteryEnergy(in)
           reserve == MissionFloat(in, "reserve")
<1>1. energy = Claim(MapThenSumSet(LAMBDA q : Energy(in.parts[q]), Packs(in)), "conflicted")
  BY DEF BatteryEnergy
<1>2. Doubtful(energy)
  BY <1>1, ConflictedClaim
<1>3. \/ UsableEnergy(in) = UnknownClaim
      \/ /\ energy.value # Null
         /\ UsableEnergy(in) = Claim((energy.value * (100 - reserve)) \div 100, energy.status)
  BY DEF UsableEnergy, AllKnown
<1> HIDE DEF energy, reserve
<1> QED
  BY <1>2, <1>3, ConflictedClaim, UnknownDoubtful DEF Doubtful

\* And from there to the endurance.
LEMMA EnduranceDoubtful ==
    ASSUME NEW in, NEW energy, NEW power, Doubtful(energy)
    PROVE  Doubtful(Performance(in, energy, power).endurance)
<1>1. \/ Performance(in, energy, power).endurance = UnknownClaim
      \/ /\ energy.value # Null
         /\ Performance(in, energy, power).endurance
              = Claim((60 * energy.value) \div power,
                      IF energy.status = "conflicted" THEN "conflicted" ELSE "known")
  BY DEF Performance, AllKnown
<1> QED
  BY <1>1, ConflictedClaim, UnknownDoubtful DEF Doubtful

LEMMA DocumentTainted ==
    ASSUME NEW in, NEW sent, NEW p \in Packs(in), Implausible(in.parts[p])
    PROVE  Tainted(Evaluate(in, sent))
<1>1. PICK tier, prop : Evaluate(in, sent) = Document(in, tier, UsableEnergy(in), prop)
  BY DEF Evaluate, EvaluateWith
<1>2. PICK doc : doc = Evaluate(in, sent)
  OBVIOUS
<1>3. PICK energy : energy = UsableEnergy(in)
  OBVIOUS
<1>4. doc.usable = energy /\ doc.performance = Performance(in, energy, prop.power)
  BY <1>1, <1>2, <1>3 DEF Document
<1>5. Doubtful(energy)
  BY <1>3, EnergyDoubtful
<1>6. Doubtful(Performance(in, energy, prop.power).endurance)
  BY <1>5, EnduranceDoubtful
<1>7. Tainted(doc)
  BY <1>4, <1>5, <1>6 DEF Tainted, Doubtful
<1> QED
  BY <1>2, <1>7

\* Whatever the inputs, an energy that no pack of its mass can hold taints the usable energy
\* and the endurance of the document (battery_energy_claims, performance).
THEOREM QuarantineSound == Spec => []QuarantineTaints
<1>1. SweepInv => QuarantineTaints
  <2> SUFFICES ASSUME SweepInv, NEW p \in Packs(In), Implausible(In.parts[p])
               PROVE  Tainted(Analytic[geometry][facts])
    BY DEF QuarantineTaints
  <2>1. Analytic[geometry][facts] = Evaluate(In, NoSweep)
    BY DEF Analytic, SweepInv, In
  <2> QED
    BY <2>1, DocumentTainted
<1> QED
  BY <1>1, SweepInvariant, PTL

-----------------------------------------------------------------------------
(* Filling in nulls: what was computed from known values stays.            *)

\* Known values stay, unknown ones may be computed.
More(was, is) == was = Null \/ is = was

LEMMA FilledIsMore ==
    ASSUME NEW v, NEW w, Filled(v, w)
    PROVE  More(v, w) /\ More(AsFloat(v), AsFloat(w))
  BY DEF Filled, More, AsFloat

\* The first key that is there, of three.
LEMMA FirstIs ==
    ASSUME NEW x, NEW y, NEW z
    PROVE  FirstPresent(<<x, y, z>>)
             = IF x # Absent THEN x ELSE IF y # Absent THEN y ELSE IF z # Absent THEN z ELSE Null
<1> DEFINE keys == <<x, y, z>>
           there == {i \in DOMAIN keys : keys[i] # Absent}
<1>1. DOMAIN keys = 1..3 /\ keys[1] = x /\ keys[2] = y /\ keys[3] = z
  OBVIOUS
<1>2. FirstPresent(keys) = IF there = {} THEN Null ELSE keys[Min(there)]
  BY DEF FirstPresent
<1>3. there \subseteq {1, 2, 3} /\ (1 \in there <=> x # Absent)
      /\ (2 \in there <=> y # Absent) /\ (3 \in there <=> z # Absent)
  BY <1>1
<1> HIDE DEF there, keys
<1>4. \A m \in there : (\A n \in there : m <= n) => Min(there) = m
  <2> SUFFICES ASSUME NEW m \in there, \A n \in there : m <= n PROVE Min(there) = m
    OBVIOUS
  <2>1. PICK v : v = Min(there)
    OBVIOUS
  <2>2. v \in there /\ \A n \in there : v <= n
    BY <2>1 DEF Min
  <2>3. v <= m /\ m <= v /\ {v, m} \subseteq Int
    BY <1>3, <2>2
  <2> QED
    BY <2>1, <2>3
<1>5. CASE x # Absent
  BY <1>1, <1>2, <1>3, <1>4, <1>5 DEF keys
<1>6. CASE x = Absent /\ y # Absent
  BY <1>1, <1>2, <1>3, <1>4, <1>6 DEF keys
<1>7. CASE x = Absent /\ y = Absent /\ z # Absent
  BY <1>1, <1>2, <1>3, <1>4, <1>7 DEF keys
<1>8. CASE x = Absent /\ y = Absent /\ z = Absent
  <2>1. there = {}
    BY <1>3, <1>8
  <2> QED
    BY <1>2, <1>8, <2>1 DEF keys
<1> QED
  BY <1>5, <1>6, <1>7, <1>8

LEMMA PairIs ==
    ASSUME NEW x, NEW y
    PROVE  FirstPresent(<<x, y>>) = IF x # Absent THEN x ELSE IF y # Absent THEN y ELSE Null
<1> DEFINE keys == <<x, y>>
           there == {i \in DOMAIN keys : keys[i] # Absent}
<1>1. DOMAIN keys = 1..2 /\ keys[1] = x /\ keys[2] = y
  OBVIOUS
<1>2. FirstPresent(keys) = IF there = {} THEN Null ELSE keys[Min(there)]
  BY DEF FirstPresent
<1>3. there \subseteq {1, 2} /\ (1 \in there <=> x # Absent) /\ (2 \in there <=> y # Absent)
  BY <1>1
<1> HIDE DEF there, keys
<1>4. \A m \in there : (\A n \in there : m <= n) => Min(there) = m
  <2> SUFFICES ASSUME NEW m \in there, \A n \in there : m <= n PROVE Min(there) = m
    OBVIOUS
  <2>1. PICK v : v = Min(there)
    OBVIOUS
  <2>2. v \in there /\ \A n \in there : v <= n
    BY <2>1 DEF Min
  <2>3. v <= m /\ m <= v /\ {v, m} \subseteq Int
    BY <1>3, <2>2
  <2> QED
    BY <2>1, <2>3
<1>5. CASE x # Absent
  BY <1>1, <1>2, <1>3, <1>4, <1>5 DEF keys
<1>6. CASE x = Absent /\ y # Absent
  BY <1>1, <1>2, <1>3, <1>4, <1>6 DEF keys
<1>7. CASE x = Absent /\ y = Absent
  <2>1. there = {}
    BY <1>3, <1>7
  <2> QED
    BY <1>2, <1>7, <2>1 DEF keys
<1> QED
  BY <1>5, <1>6, <1>7

\* The missing keys stay missing, so the same key answers, null or filled in.
LEMMA MissionMore ==
    ASSUME NEW a, NEW b, FillsIn(a, b), NEW key \in {"rho", "cruise", "g"}
    PROVE  More(MissionFloat(a, key), MissionFloat(b, key))
<1>1. /\ Filled(a.mission[key], b.mission[key])
      /\ Filled(a.geo.mission[key], b.geo.mission[key])
      /\ Filled(a.geo.environment[key], b.geo.environment[key])
  BY DEF FillsIn, GeoFilled
<1> QED
  BY <1>1, FirstIs, MissingAssumption DEF MissionFloat, Filled, More

LEMMA CruiseMore ==
    ASSUME NEW a, NEW b, FillsIn(a, b)
    PROVE  More(FirstPresent(<<a.mission.cruise, a.geo.mission.cruise>>),
                FirstPresent(<<b.mission.cruise, b.geo.mission.cruise>>))
<1>1. /\ Filled(a.mission.cruise, b.mission.cruise)
      /\ Filled(a.geo.mission.cruise, b.geo.mission.cruise)
  BY DEF FillsIn, GeoFilled
<1> QED
  BY <1>1, PairIs, MissingAssumption DEF Filled, More

LEMMA CoeffMore ==
    ASSUME NEW a, NEW b, FillsIn(a, b),
           NEW name \in {"profile", "fuselage", "interference", "e", "clmax"}
    PROVE  More(Coeff(a, name), Coeff(b, name))
<1>1. /\ Filled(a.geo.aero[name], b.geo.aero[name])
      /\ Filled(a.geo.assumed[name], b.geo.assumed[name])
  BY DEF FillsIn, GeoFilled
<1> QED
  BY <1>1, PairIs, MissingAssumption DEF Coeff, Filled, More

LEMMA GeoMore ==
    ASSUME NEW a, NEW b, FillsIn(a, b),
           NEW f \in {"S", "b", "c", "layout", "cant", "panel", "sh", "sv", "arm", "np"}
    PROVE  More(a.geo[f], b.geo[f]) /\ More(AsFloat(a.geo[f]), AsFloat(b.geo[f]))
<1>1. Filled(a.geo[f], b.geo[f])
  BY DEF FillsIn, GeoFilled
<1> QED
  BY <1>1, FilledIsMore

\* Parts keep their types, so the same ones are looked at.
LEMMA SameTypes ==
    ASSUME NEW a, NEW b, FillsIn(a, b), NEW types
    PROVE  OfType(b, types) = OfType(a, types) /\ OfType(a, types) \subseteq DOMAIN a.parts
  BY DEF FillsIn, PartFilled, OfType

LEMMA PartMore ==
    ASSUME NEW a, NEW b, FillsIn(a, b), NEW p \in DOMAIN a.parts,
           NEW f \in PartFields(a.parts[p].type)
    PROVE  /\ More(a.parts[p][f], b.parts[p][f])
           /\ More(AsFloat(a.parts[p][f]), AsFloat(b.parts[p][f]))
<1>1. Filled(a.parts[p][f], b.parts[p][f])
  BY DEF FillsIn, PartFilled
<1> QED
  BY <1>1, FilledIsMore

LEMMA OnlyMore ==
    ASSUME NEW a, NEW b, FillsIn(a, b), NEW type, NEW f \in PartFields(type)
    PROVE  More(TheOnly(a, type, f), TheOnly(b, type, f))
<1> DEFINE S == OfType(a, {type})
<1>1. OfType(b, {type}) = S /\ S \subseteq DOMAIN a.parts
  BY SameTypes
<1>4. \A p \in S : a.parts[p].type = type
  BY DEF OfType
<1> HIDE DEF S
<1>2. CASE S = {}
  BY <1>1, <1>2 DEF TheOnly, More, S
<1>3. CASE S # {}
  <2>1. PICK p \in S : p = CHOOSE q \in S : TRUE
    BY <1>3
  <2>2. TheOnly(a, type, f) = AsFloat(a.parts[p][f]) /\ TheOnly(b, type, f) = AsFloat(b.parts[p][f])
    BY <1>1, <1>3, <2>1 DEF TheOnly, S
  <2> QED
    BY <1>1, <1>4, <2>2, PartMore
<1> QED
  BY <1>2, <1>3

-----------------------------------------------------------------------------
(* Mass and balance.                                                       *)

LEMMA MassMore ==
    ASSUME NEW a, NEW b, FillsIn(a, b), NEW p \in DOMAIN a.parts
    PROVE  More(Mass(a, p), Mass(b, p))
  BY PartMore DEF Mass, PartFields

\* A sum that is known is of masses that are all known, and they stay.
LEMMA WeighedStays ==
    ASSUME NEW a, NEW b, FillsIn(a, b), SumMass(a).value # Null
    PROVE  /\ SumMass(b) = SumMass(a)
           /\ \A p \in DOMAIN a.parts : Mass(b, p) = Mass(a, p)
<1>1. AllKnown({Mass(a, p) : p \in DOMAIN a.parts})
  BY DEF SumMass, UnknownClaim, Claim
<1>2. \A p \in DOMAIN a.parts : Mass(b, p) = Mass(a, p) /\ Mass(a, p) # Null
  BY <1>1, MassMore DEF AllKnown, More
<1>3. DOMAIN b.parts = DOMAIN a.parts
  BY DEF FillsIn
<1>4. {Mass(b, p) : p \in DOMAIN b.parts} = {Mass(a, p) : p \in DOMAIN a.parts}
  BY <1>2, <1>3
<1>5. [p \in DOMAIN b.parts |-> Mass(b, p)] = [p \in DOMAIN a.parts |-> Mass(a, p)]
  BY <1>2, <1>3
<1>6. SumMass(b) = SumMass(a)
  BY <1>4, <1>5 DEF SumMass
<1> QED
  BY <1>2, <1>6

LEMMA CentreMore ==
    ASSUME NEW a, NEW b, FillsIn(a, b)
    PROVE  More(CenterOfGravity(a).value, CenterOfGravity(b).value)
<1> SUFFICES ASSUME CenterOfGravity(a).value # Null PROVE CenterOfGravity(b) = CenterOfGravity(a)
  BY DEF More
<1>1. /\ SumMass(a).value \notin {Null, 0}
      /\ AllKnown({AsFloat(a.parts[p].x) : p \in DOMAIN a.parts}
                  \cup {Mass(a, p) : p \in DOMAIN a.parts})
  BY DEF CenterOfGravity, UnknownClaim, Claim
<1>2. SumMass(b) = SumMass(a) /\ \A p \in DOMAIN a.parts : Mass(b, p) = Mass(a, p)
  BY <1>1, WeighedStays
<1>3. DOMAIN b.parts = DOMAIN a.parts
  BY DEF FillsIn
<1>4. \A p \in DOMAIN a.parts : /\ AsFloat(b.parts[p].x) = AsFloat(a.parts[p].x)
                                /\ b.parts[p].x = a.parts[p].x
  <2> SUFFICES ASSUME NEW p \in DOMAIN a.parts
               PROVE  /\ AsFloat(b.parts[p].x) = AsFloat(a.parts[p].x)
                      /\ b.parts[p].x = a.parts[p].x
    OBVIOUS
  <2>1. AsFloat(a.parts[p].x) # Null
    BY <1>1 DEF AllKnown
  <2>2. "x" \in PartFields(a.parts[p].type)
    BY DEF PartFields
  <2>3. More(a.parts[p].x, b.parts[p].x)
    BY <2>2, PartMore
  <2> QED
    BY <2>1, <2>3 DEF More, AsFloat
<1>5. /\ {AsFloat(b.parts[p].x) : p \in DOMAIN b.parts} = {AsFloat(a.parts[p].x) : p \in DOMAIN a.parts}
      /\ {Mass(b, p) : p \in DOMAIN b.parts} = {Mass(a, p) : p \in DOMAIN a.parts}
  BY <1>2, <1>3, <1>4
<1>6. [p \in DOMAIN b.parts |-> Mass(b, p) * b.parts[p].x] = [p \in DOMAIN a.parts |-> Mass(a, p) * a.parts[p].x]
  BY <1>2, <1>3, <1>4
<1> QED
  BY <1>2, <1>5, <1>6 DEF CenterOfGravity

LEMMA MarginStays ==
    ASSUME NEW a, NEW b, FillsIn(a, b), Decided(StaticMarginCheck(StaticMargin(a)))
    PROVE  StaticMarginCheck(StaticMargin(b)) = StaticMarginCheck(StaticMargin(a))
<1>1. StaticMargin(a).value # Null
  BY DEF StaticMarginCheck, Decided
<1>2. /\ AsFloat(a.geo.np) # Null /\ CenterOfGravity(a).value # Null /\ SumMass(a).value # Null
      /\ a.geo.c # Null
  BY <1>1 DEF StaticMargin, AllKnown, UnknownClaim, Claim
<1>3. /\ AsFloat(b.geo.np) = AsFloat(a.geo.np) /\ b.geo.c = a.geo.c
      /\ CenterOfGravity(b).value = CenterOfGravity(a).value /\ SumMass(b).value = SumMass(a).value
  BY <1>2, GeoMore, CentreMore, WeighedStays DEF More
<1>4. b.geo.npStatus = a.geo.npStatus
  BY DEF FillsIn, GeoFilled
<1>5. StaticMargin(b) = StaticMargin(a)
  BY <1>3, <1>4 DEF StaticMargin
<1> QED
  BY <1>5

-----------------------------------------------------------------------------
(* Lift, drag and the spar.                                                *)

LEMMA WeightMore ==
    ASSUME NEW a, NEW b, FillsIn(a, b)
    PROVE  More(Weight(a), Weight(b))
<1> SUFFICES ASSUME Weight(a) # Null PROVE Weight(b) = Weight(a)
  BY DEF More
<1>1. SumMass(a).value # Null /\ MissionFloat(a, "g") # Null
  BY DEF Weight, AllKnown
<1>2. SumMass(b) = SumMass(a) /\ MissionFloat(b, "g") = MissionFloat(a, "g")
  BY <1>1, WeighedStays, MissionMore DEF More
<1> QED
  BY <1>2 DEF Weight

LEMMA PressureMore ==
    ASSUME NEW a, NEW b, FillsIn(a, b)
    PROVE  More(Pressure(a), Pressure(b))
<1> SUFFICES ASSUME Pressure(a) # Null PROVE Pressure(b) = Pressure(a)
  BY DEF More
<1>1. MissionFloat(a, "rho") # Null /\ MissionFloat(a, "cruise") # Null
  BY DEF Pressure, AllKnown
<1>2. MissionFloat(b, "rho") = MissionFloat(a, "rho") /\ MissionFloat(b, "cruise") = MissionFloat(a, "cruise")
  BY <1>1, MissionMore DEF More
<1> QED
  BY <1>2 DEF Pressure

LEMMA TrimMore ==
    ASSUME NEW a, NEW b, FillsIn(a, b)
    PROVE  More(TrimLift(a), TrimLift(b))
<1> SUFFICES ASSUME TrimLift(a) # Null PROVE TrimLift(b) = TrimLift(a)
  BY DEF More
<1>1. Weight(a) # Null /\ Pressure(a) # Null /\ a.geo.S # Null
  BY DEF TrimLift, AllKnown
<1>2. Weight(b) = Weight(a) /\ Pressure(b) = Pressure(a) /\ b.geo.S = a.geo.S
  BY <1>1, WeightMore, PressureMore, GeoMore DEF More
<1> QED
  BY <1>2 DEF TrimLift

LEMMA StallMore ==
    ASSUME NEW a, NEW b, FillsIn(a, b)
    PROVE  More(Stall(a), Stall(b))
<1> SUFFICES ASSUME Stall(a) # Null PROVE Stall(b) = Stall(a)
  BY DEF More
<1>1. /\ Weight(a) # Null /\ MissionFloat(a, "rho") # Null /\ Coeff(a, "clmax") # Null
      /\ a.geo.S # Null
  BY DEF Stall, AllKnown
<1>2. /\ Weight(b) = Weight(a) /\ MissionFloat(b, "rho") = MissionFloat(a, "rho")
      /\ Coeff(b, "clmax") = Coeff(a, "clmax") /\ b.geo.S = a.geo.S
  BY <1>1, WeightMore, MissionMore, CoeffMore, GeoMore DEF More
<1> QED
  BY <1>2 DEF Stall

\* Without a sweep: nothing is known of a drag whose parts are not all known.
Unswept == [lift |-> Null, drag |-> Null]
InducedFactor(in) ==
  LET e == Coeff(in, "e")
  IN IF AllKnown({e, in.geo.S, in.geo.b})
     THEN (10000000 * in.geo.S) \div (314 * e * in.geo.b * in.geo.b) ELSE Null
InducedDrag(in) ==
  IF AllKnown({InducedFactor(in), TrimLift(in)})
  THEN (InducedFactor(in) * TrimLift(in) * TrimLift(in)) \div 10000 ELSE Null

Parasite(in) == <<Coeff(in, "profile"), Coeff(in, "fuselage"), Coeff(in, "interference")>>
DragForce(p, induced, q, S) ==
  IF AllKnown({p[i] : i \in 1..3} \cup {induced, q, S})
  THEN ((p[1] + p[2] + p[3] + induced) * q * S) \div 10000 ELSE Null

LEMMA UnsweptDrag ==
    ASSUME NEW in
    PROVE  Drag(in, Unswept) = DragForce(Parasite(in), InducedDrag(in), Pressure(in), in.geo.S)
<1>1. Unswept.lift = Null /\ Unswept.drag = Null
  BY DEF Unswept
<1> QED
  BY <1>1 DEF Drag, InducedDrag, InducedFactor, DragForce, Parasite

LEMMA InducedMore ==
    ASSUME NEW a, NEW b, FillsIn(a, b)
    PROVE  More(InducedDrag(a), InducedDrag(b))
<1> SUFFICES ASSUME InducedDrag(a) # Null PROVE InducedDrag(b) = InducedDrag(a)
  BY DEF More
<1>1. InducedFactor(a) # Null /\ TrimLift(a) # Null
  BY DEF InducedDrag, AllKnown
<1>2. Coeff(a, "e") # Null /\ a.geo.S # Null /\ a.geo.b # Null
  BY <1>1 DEF InducedFactor, AllKnown
<1>3. Coeff(b, "e") = Coeff(a, "e") /\ b.geo.S = a.geo.S /\ b.geo.b = a.geo.b
  BY <1>2, CoeffMore, GeoMore DEF More
<1>4. InducedFactor(b) = InducedFactor(a) /\ TrimLift(b) = TrimLift(a)
  BY <1>1, <1>3, TrimMore DEF InducedFactor, More
<1> QED
  BY <1>4 DEF InducedDrag

LEMMA DragMore ==
    ASSUME NEW a, NEW b, FillsIn(a, b)
    PROVE  More(Drag(a, Unswept), Drag(b, Unswept))
<1> SUFFICES ASSUME Drag(a, Unswept) # Null PROVE Drag(b, Unswept) = Drag(a, Unswept)
  BY DEF More
<1>1. DragForce(Parasite(a), InducedDrag(a), Pressure(a), a.geo.S) # Null
  BY UnsweptDrag
<1>2. /\ Coeff(a, "profile") # Null /\ Coeff(a, "fuselage") # Null /\ Coeff(a, "interference") # Null
      /\ InducedDrag(a) # Null /\ Pressure(a) # Null /\ a.geo.S # Null
  <2>1. AllKnown({Parasite(a)[i] : i \in 1..3} \cup {InducedDrag(a), Pressure(a), a.geo.S})
    BY <1>1 DEF DragForce
  <2>2. Parasite(a)[1] # Null /\ Parasite(a)[2] # Null /\ Parasite(a)[3] # Null
    BY <2>1 DEF AllKnown
  <2> QED
    BY <2>1, <2>2 DEF AllKnown, Parasite
<1>3. /\ Parasite(b) = Parasite(a) /\ InducedDrag(b) = InducedDrag(a)
      /\ Pressure(b) = Pressure(a) /\ b.geo.S = a.geo.S
  BY <1>2, CoeffMore, InducedMore, PressureMore, GeoMore DEF More, Parasite
<1> QED
  BY <1>3, UnsweptDrag

\* The stress of a spar set whose tubes are known is of the same tubes later, and a modulus
\* counts as it did.
SparInertia(in, p) == in.parts[p].outer ^ 4 - in.parts[p].inner ^ 4
SparModulus(in, p) == IF AsFloat(in.parts[p].modulus) = Null THEN 1 ELSE in.parts[p].modulus
SparSound(in, p) ==
  /\ AllKnown({AsFloat(in.parts[p].outer), AsFloat(in.parts[p].inner), AsFloat(in.parts[p].allow)})
  /\ SparInertia(in, p) > 0

LEMMA SparStays ==
    ASSUME NEW a, NEW b, FillsIn(a, b), SparSafety(a).value # Null
    PROVE  SparSafety(b) = SparSafety(a)
<1> DEFINE S == OfType(a, {"spar"})
<1>1. OfType(b, {"spar"}) = S /\ S \subseteq DOMAIN a.parts
  BY SameTypes
<1>2. \A p \in S : a.parts[p].type = "spar"
  BY DEF OfType
<1>3. Weight(a) # Null /\ a.geo.b # Null /\ \A p \in S : SparSound(a, p)
  BY DEF SparSafety, UnknownClaim, Claim, AllKnown, SparSound, SparInertia
<1>4. Weight(b) = Weight(a) /\ b.geo.b = a.geo.b
  BY <1>3, WeightMore, GeoMore DEF More
<1>5. ASSUME NEW p \in S
      PROVE  /\ b.parts[p].outer = a.parts[p].outer /\ b.parts[p].inner = a.parts[p].inner
             /\ b.parts[p].allow = a.parts[p].allow /\ b.parts[p].modulus = a.parts[p].modulus
  <2>1. p \in DOMAIN a.parts /\ a.parts[p].type = "spar"
    BY <1>1, <1>2
  <2>2. b.parts[p].modulus = a.parts[p].modulus
    BY <2>1 DEF FillsIn, PartFilled
  <2>3. {"outer", "inner", "allow"} \subseteq PartFields(a.parts[p].type)
    BY <2>1 DEF PartFields
  <2>4. /\ More(a.parts[p].outer, b.parts[p].outer) /\ More(a.parts[p].inner, b.parts[p].inner)
        /\ More(a.parts[p].allow, b.parts[p].allow)
    BY <2>1, <2>3, PartMore
  <2>5. a.parts[p].outer # Null /\ a.parts[p].inner # Null /\ a.parts[p].allow # Null
    BY <1>3 DEF SparSound, AllKnown, AsFloat
  <2> QED
    BY <2>2, <2>4, <2>5 DEF More
<1>6. \A p \in S : /\ SparSound(b, p) <=> SparSound(a, p)
                   /\ SparModulus(b, p) = SparModulus(a, p) /\ SparInertia(b, p) = SparInertia(a, p)
  BY <1>5 DEF SparSound, SparModulus, SparInertia
<1>7. [p \in S |-> SparModulus(b, p) * SparInertia(b, p)] = [p \in S |-> SparModulus(a, p) * SparInertia(a, p)]
  BY <1>6
<1> HIDE DEF S
<1> DEFINE Stress(in, ei) ==
      {(Weight(in) * in.geo.b * SparModulus(in, p) * in.parts[p].outer) \div ei : p \in S}
<1>8. \A ei : Stress(b, ei) = Stress(a, ei)
  BY <1>4, <1>5, <1>6
<1>9. {b.parts[p].allow : p \in S} = {a.parts[p].allow : p \in S}
  BY <1>5
<1> DEFINE Safety(in, stress) ==
      IF stress <= 0 THEN UnknownClaim
      ELSE Claim((10 * Min({in.parts[p].allow : p \in S})) \div stress, "known")
    Outcome(in) ==
      IF ~AllKnown({Weight(in), in.geo.b}) \/ S = {} \/ \E p \in S : ~SparSound(in, p) THEN UnknownClaim
      ELSE Safety(in, Max(Stress(in, SumFunction([p \in S |-> SparModulus(in, p) * SparInertia(in, p)]))))
<1>10. SparSafety(a) = Outcome(a)
  BY DEF SparSafety, SparSound, SparModulus, SparInertia, S
<1>11. SparSafety(b) = Outcome(b)
  BY <1>1 DEF SparSafety, SparSound, SparModulus, SparInertia
<1> HIDE DEF Stress
<1>12. Outcome(b) = Outcome(a)
  BY <1>4, <1>6, <1>7, <1>8, <1>9
<1> QED
  BY <1>10, <1>11, <1>12

-----------------------------------------------------------------------------
(* Tail and propulsion.                                                    *)

\* The volumes of a tail whose areas and arm are known.
LEMMA TailStays ==
    ASSUME NEW a, NEW b, FillsIn(a, b), TailVolumes(a).layout = "conventional",
           TailVolumes(a).h # Null \/ TailVolumes(a).v # Null
    PROVE  /\ TailVolumes(b).h = TailVolumes(a).h /\ TailVolumes(b).v = TailVolumes(a).v
           /\ TailVolumes(b).layout = "conventional"
<1> DEFINE Areas(in) == <<AsFloat(in.geo.sh), AsFloat(in.geo.sv)>>
           Known(in) == AllKnown({Areas(in)[1], Areas(in)[2], AsFloat(in.geo.arm),
                                  in.geo.S, in.geo.b, in.geo.c})
           H(in) == IF Known(in) THEN (100 * Areas(in)[1] * AsFloat(in.geo.arm)) \div (in.geo.S * in.geo.c)
                    ELSE Null
           V(in) == IF Known(in) THEN (100 * Areas(in)[2] * AsFloat(in.geo.arm)) \div (in.geo.S * in.geo.b)
                    ELSE Null
<1>1. a.geo.layout \notin {Null, Absent, "vtail"}
  BY DEF TailVolumes
<1>2. b.geo.layout = a.geo.layout
  BY <1>1, GeoMore DEF More
<1>3. ASSUME NEW in, in.geo.layout \notin {Null, Absent, "vtail"}
      PROVE  TailVolumes(in).h = H(in) /\ TailVolumes(in).v = V(in)
  BY <1>3 DEF TailVolumes
<1>4. Known(a)
  BY <1>1, <1>3
<1>5. /\ AsFloat(a.geo.sh) # Null /\ AsFloat(a.geo.sv) # Null /\ AsFloat(a.geo.arm) # Null
      /\ a.geo.S # Null /\ a.geo.b # Null /\ a.geo.c # Null
  BY <1>4 DEF AllKnown
<1>6. /\ Areas(b) = Areas(a) /\ AsFloat(b.geo.arm) = AsFloat(a.geo.arm)
      /\ b.geo.S = a.geo.S /\ b.geo.b = a.geo.b /\ b.geo.c = a.geo.c
  BY <1>5, GeoMore DEF More
<1>7. H(b) = H(a) /\ V(b) = V(a)
  BY <1>6
<1>8. TailVolumes(b).layout = "conventional"
  BY <1>1, <1>2 DEF TailVolumes
<1> QED
  BY <1>1, <1>2, <1>3, <1>7, <1>8

LEMMA TailCheckStays ==
    ASSUME NEW a, NEW b, FillsIn(a, b), NEW f \in {"h", "v"}, NEW lo, NEW hi,
           Decided(TailCheck(TailVolumes(a), TailVolumes(a)[f], lo, hi))
    PROVE  TailCheck(TailVolumes(b), TailVolumes(b)[f], lo, hi)
             = TailCheck(TailVolumes(a), TailVolumes(a)[f], lo, hi)
<1>1. PICK tail, volume : tail = TailVolumes(a) /\ volume = tail[f]
  OBVIOUS
<1>2. TailCheck(tail, volume, lo, hi)
        = CASE tail.layout = "vtail" -> IF tail.canted THEN "not_applicable" ELSE "unknown"
            [] tail.layout = "conventional" /\ volume # Null -> Verdict(InBand(volume, lo, hi))
            [] OTHER -> "unknown"
  BY DEF TailCheck
<1>3. tail.layout # "vtail"
  BY <1>1, <1>2 DEF Decided
<1>4. tail.layout = "conventional" /\ volume # Null
  BY <1>1, <1>2, <1>3 DEF Decided
<1>5. TailVolumes(a).layout = "conventional" /\ (TailVolumes(a).h # Null \/ TailVolumes(a).v # Null)
  BY <1>1, <1>4
<1>6. /\ TailVolumes(b).h = TailVolumes(a).h /\ TailVolumes(b).v = TailVolumes(a).v
      /\ TailVolumes(b).layout = "conventional"
  BY <1>5, TailStays
<1>7. PICK later : later = TailVolumes(b)
  OBVIOUS
<1>8. later.layout = "conventional" /\ later[f] = volume
  BY <1>1, <1>6, <1>7
<1>9. TailCheck(later, volume, lo, hi) = Verdict(InBand(volume, lo, hi))
  BY <1>4, <1>8 DEF TailCheck
<1>10. TailCheck(tail, volume, lo, hi) = Verdict(InBand(volume, lo, hi))
  BY <1>2, <1>4
<1> QED
  BY <1>1, <1>7, <1>8, <1>9, <1>10

LEMMA LimitMore ==
    ASSUME NEW a, NEW b, FillsIn(a, b), NEW type \in {"motor", "esc"}
    PROVE  More(LimitOf(a, type), LimitOf(b, type))
<1>1. "imax" \in PartFields(type)
  BY DEF PartFields
<1> QED
  BY <1>1, OnlyMore DEF LimitOf

\* The pack that is discharged, and the limit its rating gives.
First(in) == {p \in OfType(in, {"battery"}) : in.parts[p].index = 1}
Rating(in, field) ==
  IF First(in) = {} THEN Null ELSE AsFloat(in.parts[CHOOSE p \in First(in) : TRUE][field])

LEMMA RatingMore ==
    ASSUME NEW a, NEW b, FillsIn(a, b), NEW f \in {"crate", "energy", "volt"}
    PROVE  More(Rating(a, f), Rating(b, f))
<1>1. OfType(b, {"battery"}) = OfType(a, {"battery"}) /\ OfType(a, {"battery"}) \subseteq DOMAIN a.parts
  BY SameTypes
<1>2. \A p \in OfType(a, {"battery"}) : a.parts[p].type = "battery"
  BY DEF OfType
<1>3. \A p \in OfType(a, {"battery"}) : b.parts[p].index = a.parts[p].index
  BY <1>1, <1>2 DEF FillsIn, PartFilled
<1>4. First(b) = First(a)
  BY <1>1, <1>3 DEF First
<1>5. CASE First(a) = {}
  BY <1>5 DEF Rating, More
<1>6. CASE First(a) # {}
  <2>1. PICK p \in First(a) : p = CHOOSE q \in First(a) : TRUE
    BY <1>6
  <2>2. Rating(a, f) = AsFloat(a.parts[p][f]) /\ Rating(b, f) = AsFloat(b.parts[p][f])
    BY <1>4, <1>6, <2>1 DEF Rating
  <2>3. p \in DOMAIN a.parts /\ a.parts[p].type = "battery"
    BY <1>1, <1>2 DEF First
  <2>4. f \in PartFields(a.parts[p].type)
    BY <2>3 DEF PartFields
  <2> QED
    BY <2>2, <2>3, <2>4, PartMore
<1> QED
  BY <1>5, <1>6

\* What current and limits are made of.
PropulsionLimit(in) ==
  IF AllKnown({Rating(in, "crate"), Rating(in, "energy"), Rating(in, "volt")})
  THEN (Rating(in, "crate") * Rating(in, "energy")) \div Rating(in, "volt") ELSE Null
Solved(in, drag) ==
  /\ AllKnown({TheOnly(in, "motor", "kv"), TheOnly(in, "motor", "rm"), TheOnly(in, "motor", "i0"),
               TheOnly(in, "prop", "ct"), TheOnly(in, "prop", "cp"), Rating(in, "volt"), drag,
               MissionFloat(in, "cruise"), MissionFloat(in, "rho")})
  /\ TheOnly(in, "prop", "ct") > 0 /\ drag > 0 /\ TheOnly(in, "motor", "kv") > 0

LEMMA PropulsionIs ==
    ASSUME NEW in, NEW drag
    PROVE  /\ Propulsion(in, drag).motor = LimitOf(in, "motor")
           /\ Propulsion(in, drag).esc = LimitOf(in, "esc")
           /\ Propulsion(in, drag).battery = PropulsionLimit(in)
           /\ Propulsion(in, drag).current
                = IF Solved(in, drag)
                  THEN TheOnly(in, "motor", "i0") + (TheOnly(in, "prop", "cp") * drag)
                                                      \div (100 * TheOnly(in, "prop", "ct"))
                  ELSE Null
  BY DEF Propulsion, PropulsionLimit, Solved, Rating, First

LEMMA CurrentMore ==
    ASSUME NEW a, NEW b, FillsIn(a, b), NEW d, NEW e, More(d, e)
    PROVE  More(Propulsion(a, d).current, Propulsion(b, e).current)
<1> SUFFICES ASSUME Propulsion(a, d).current # Null
             PROVE  Propulsion(b, e).current = Propulsion(a, d).current
  BY DEF More
<1>1. Solved(a, d)
  BY PropulsionIs
<1>2. /\ TheOnly(a, "motor", "kv") # Null /\ TheOnly(a, "motor", "rm") # Null
      /\ TheOnly(a, "motor", "i0") # Null /\ TheOnly(a, "prop", "ct") # Null
      /\ TheOnly(a, "prop", "cp") # Null /\ Rating(a, "volt") # Null /\ d # Null
      /\ MissionFloat(a, "cruise") # Null /\ MissionFloat(a, "rho") # Null
  BY <1>1 DEF Solved, AllKnown
<1>3. {"kv", "rm", "i0"} \subseteq PartFields("motor") /\ {"ct", "cp"} \subseteq PartFields("prop")
  BY DEF PartFields
<1>4. /\ TheOnly(b, "motor", "kv") = TheOnly(a, "motor", "kv")
      /\ TheOnly(b, "motor", "rm") = TheOnly(a, "motor", "rm")
      /\ TheOnly(b, "motor", "i0") = TheOnly(a, "motor", "i0")
      /\ TheOnly(b, "prop", "ct") = TheOnly(a, "prop", "ct")
      /\ TheOnly(b, "prop", "cp") = TheOnly(a, "prop", "cp")
  BY <1>2, <1>3, OnlyMore DEF More
<1>5. /\ Rating(b, "volt") = Rating(a, "volt") /\ e = d
      /\ MissionFloat(b, "cruise") = MissionFloat(a, "cruise")
      /\ MissionFloat(b, "rho") = MissionFloat(a, "rho")
  BY <1>2, RatingMore, MissionMore DEF More
<1>6. Solved(b, e) <=> Solved(a, d)
  BY <1>4, <1>5 DEF Solved
<1> QED
  BY <1>4, <1>5, <1>6, PropulsionIs

LEMMA BatteryLimitMore ==
    ASSUME NEW a, NEW b, FillsIn(a, b)
    PROVE  More(PropulsionLimit(a), PropulsionLimit(b))
<1> SUFFICES ASSUME PropulsionLimit(a) # Null PROVE PropulsionLimit(b) = PropulsionLimit(a)
  BY DEF More
<1>1. Rating(a, "crate") # Null /\ Rating(a, "energy") # Null /\ Rating(a, "volt") # Null
  BY DEF PropulsionLimit, AllKnown
<1>2. /\ Rating(b, "crate") = Rating(a, "crate") /\ Rating(b, "energy") = Rating(a, "energy")
      /\ Rating(b, "volt") = Rating(a, "volt")
  BY <1>1, RatingMore DEF More
<1> QED
  BY <1>2 DEF PropulsionLimit

-----------------------------------------------------------------------------
(* The checks.                                                             *)

LEMMA SparCheckStays ==
    ASSUME NEW a, NEW b, FillsIn(a, b),
           Decided(SparCheck(SumMass(a).value # Null, SparSafety(a)))
    PROVE  SparCheck(SumMass(b).value # Null, SparSafety(b))
             = SparCheck(SumMass(a).value # Null, SparSafety(a))
<1>1. SumMass(a).value # Null /\ SparSafety(a).value # Null
  BY DEF SparCheck, Decided
<1>2. SumMass(b) = SumMass(a) /\ SparSafety(b) = SparSafety(a)
  BY <1>1, WeighedStays, SparStays
<1> QED
  BY <1>2

LEMMA StallCheckStays ==
    ASSUME NEW a, NEW b, FillsIn(a, b),
           Decided(StallCheck(a, SumMass(a).value # Null, Stall(a)))
    PROVE  StallCheck(b, SumMass(b).value # Null, Stall(b))
             = StallCheck(a, SumMass(a).value # Null, Stall(a))
<1>1. /\ SumMass(a).value # Null /\ Stall(a) # Null
      /\ FirstPresent(<<a.mission.cruise, a.geo.mission.cruise>>) # Null
  BY DEF StallCheck, Decided
<1>2. /\ SumMass(b) = SumMass(a) /\ Stall(b) = Stall(a)
      /\ FirstPresent(<<b.mission.cruise, b.geo.mission.cruise>>)
           = FirstPresent(<<a.mission.cruise, a.geo.mission.cruise>>)
  BY <1>1, WeighedStays, StallMore, CruiseMore DEF More
<1> QED
  BY <1>2 DEF StallCheck

LEMMA CurrentCheckStays ==
    ASSUME NEW i, NEW j, NEW l, NEW k, More(i, j), More(l, k), Decided(CurrentCheck(i, l))
    PROVE  CurrentCheck(j, k) = CurrentCheck(i, l)
<1>1. i # Null /\ l # Null
  BY DEF CurrentCheck, AllKnown, Decided
<1> QED
  BY <1>1 DEF More

LEMMA PlainChecksStay ==
    ASSUME NEW a, NEW b, FillsIn(a, b)
    PROVE  /\ b.geo.chains = a.geo.chains
           /\ PayloadCheck(b) = PayloadCheck(a)
           /\ ClearanceCheck(b) = ClearanceCheck(a)
<1>1. b.geo.chains = a.geo.chains
  BY DEF FillsIn, GeoFilled
<1>2. b.geo.clearance = a.geo.clearance /\ b.geo.intersections = a.geo.intersections
  BY DEF FillsIn, GeoFilled
<1>3. b.required = a.required /\ DOMAIN b.parts = DOMAIN a.parts
  BY DEF FillsIn
<1> QED
  BY <1>1, <1>2, <1>3 DEF PayloadCheck, ClearanceCheck

LEMMA LayoutCheckStays ==
    ASSUME NEW a, NEW b, FillsIn(a, b), TailVolumes(a).layout # Null
    PROVE  TailVolumes(b).layout # Null
<1>1. a.geo.layout \notin {Null, Absent}
  BY DEF TailVolumes
<1>2. b.geo.layout = a.geo.layout
  BY <1>1, GeoMore DEF More
<1> QED
  BY <1>1, <1>2 DEF TailVolumes

\* The checks of an input that no sweep informs.
Checks(in) ==
  RunChecks(in, SumMass(in).value # Null, TailVolumes(in), Propulsion(in, Drag(in, Unswept)))

LEMMA UnsweptChecks ==
    ASSUME NEW in
    PROVE  Evaluate(in, NoSweep).checks = Checks(in)
<1>1. SolverNumbers(in, NoSweep) = Unswept
  BY DEF SolverNumbers, NoSweep, Unswept
<1>2. ~SolverUsed(Unswept)
  BY DEF SolverUsed, Unswept, AllKnown
<1>3. Evaluate(in, NoSweep)
        = Document(in, "analytic", UsableEnergy(in), Propulsion(in, Drag(in, Unswept)))
  BY <1>1, <1>2 DEF Evaluate, EvaluateWith, Unswept
<1> QED
  BY <1>3 DEF Document, Checks

CheckNames ==
  {"static_margin", "stall", "climb", "spar", "tail_volume_h", "tail_volume_v", "servos",
   "motor_current", "esc_current", "battery_current", "wiring_chains", "payload", "clearance",
   "vtail_or_tail_layout"}

\* A check that the analytic evaluation decided is decided the same when nulls are filled in.
LEMMA ChecksStay ==
    ASSUME NEW a, NEW b, FillsIn(a, b)
    PROVE  DecidedIn(Checks(a)) \subseteq DecidedIn(Checks(b))
<1>1. DOMAIN Checks(a) = CheckNames /\ DOMAIN Checks(b) = CheckNames
  BY DEF Checks, RunChecks, CheckNames
<1>2. \A in : /\ Checks(in).static_margin = StaticMarginCheck(StaticMargin(in))
              /\ Checks(in).stall = StallCheck(in, SumMass(in).value # Null, Stall(in))
              /\ Checks(in).climb = "unknown" /\ Checks(in).servos = "unknown"
              /\ Checks(in).spar = SparCheck(SumMass(in).value # Null, SparSafety(in))
  BY DEF Checks, RunChecks
<1>3. \A in : /\ Checks(in).tail_volume_h = TailCheck(TailVolumes(in), TailVolumes(in).h, 35, 70)
              /\ Checks(in).tail_volume_v = TailCheck(TailVolumes(in), TailVolumes(in).v, 2, 6)
              /\ Checks(in).vtail_or_tail_layout
                   = IF TailVolumes(in).layout = Null THEN "unknown" ELSE "pass"
  BY DEF Checks, RunChecks
<1>4. ASSUME NEW in, NEW current, current = Propulsion(in, Drag(in, Unswept)).current
      PROVE  /\ Checks(in).motor_current = CurrentCheck(current, LimitOf(in, "motor"))
             /\ Checks(in).esc_current = CurrentCheck(current, LimitOf(in, "esc"))
             /\ Checks(in).battery_current = CurrentCheck(current, PropulsionLimit(in))
  BY <1>4, PropulsionIs DEF Checks, RunChecks
<1>5. \A in : /\ Checks(in).wiring_chains = IF in.geo.chains THEN "pass" ELSE "unknown"
              /\ Checks(in).payload = PayloadCheck(in)
              /\ Checks(in).clearance = ClearanceCheck(in)
  BY DEF Checks, RunChecks
<1>6. ASSUME NEW c \in CheckNames, Decided(Checks(a)[c])
      PROVE  Checks(b)[c] = Checks(a)[c]
  <2>1. CASE c = "static_margin"
    BY <1>2, <1>6, <2>1, MarginStays
  <2>2. CASE c = "stall"
    BY <1>2, <1>6, <2>2, StallCheckStays
  <2>3. CASE c \in {"climb", "servos"}
    BY <1>2, <1>6, <2>3 DEF Decided
  <2>4. CASE c = "spar"
    BY <1>2, <1>6, <2>4, SparCheckStays
  <2>5. CASE c = "tail_volume_h"
    BY <1>3, <1>6, <2>5, TailCheckStays
  <2>6. CASE c = "tail_volume_v"
    BY <1>3, <1>6, <2>6, TailCheckStays
  <2>7. CASE c \in {"motor_current", "esc_current", "battery_current"}
    <3>1. PICK i, j : /\ i = Propulsion(a, Drag(a, Unswept)).current
                      /\ j = Propulsion(b, Drag(b, Unswept)).current
      OBVIOUS
    <3>2. More(i, j)
      BY <3>1, CurrentMore, DragMore
    <3>3. CASE c = "motor_current"
      BY <1>4, <1>6, <3>1, <3>2, <3>3, LimitMore, CurrentCheckStays
    <3>4. CASE c = "esc_current"
      BY <1>4, <1>6, <3>1, <3>2, <3>4, LimitMore, CurrentCheckStays
    <3>5. CASE c = "battery_current"
      BY <1>4, <1>6, <3>1, <3>2, <3>5, BatteryLimitMore, CurrentCheckStays
    <3> QED
      BY <2>7, <3>3, <3>4, <3>5
  <2>8. CASE c \in {"wiring_chains", "payload", "clearance"}
    BY <1>5, <2>8, PlainChecksStay
  <2>9. CASE c = "vtail_or_tail_layout"
    BY <1>3, <1>6, <2>9, LayoutCheckStays DEF Decided
  <2> QED
    BY <1>6, <2>1, <2>2, <2>3, <2>4, <2>5, <2>6, <2>7, <2>8, <2>9 DEF CheckNames
<1> QED
  BY <1>1, <1>6 DEF DecidedIn

\* A fact that is established while the geometry stays turns no verdict, whatever the inputs and
\* whatever fields facts fill in (run_checks: an absent input is not read as zero).
THEOREM VerdictsLast == FactsFillIn => (Spec => LearningKeepsVerdicts)
<1> SUFFICES ASSUME FactsFillIn PROVE Spec => LearningKeepsVerdicts
  OBVIOUS
<1>1. SweepInv /\ SweepInv' /\ [Next]_vars => [ Establish => Lasts(Decisions[geometry]) ]_vars
  <2> SUFFICES ASSUME SweepInv, SweepInv', Establish PROVE Lasts(Decisions[geometry])
    OBVIOUS
  <2>1. /\ geometry \in Geometries /\ facts \in SUBSET Facts /\ facts' \in SUBSET Facts
        /\ facts \subseteq facts'
    BY DEF SweepInv, Establish
  <2>2. PICK a, b : a = Input[geometry][facts] /\ b = Input[geometry][facts']
    OBVIOUS
  <2>3. FillsIn(a, b)
    BY <2>1, <2>2 DEF FactsFillIn
  <2>4. DecidedIn(Checks(a)) \subseteq DecidedIn(Checks(b))
    BY <2>3, ChecksStay
  <2>5. \A known \in SUBSET Facts :
          Decisions[geometry][known] = DecidedIn(Checks(Input[geometry][known]))
    BY <2>1, UnsweptChecks DEF Decisions, Analytic
  <2> QED
    BY <2>1, <2>2, <2>4, <2>5 DEF Lasts
<1> QED
  BY <1>1, SweepInvariant, PTL DEF Spec, LearningKeepsVerdicts
=============================================================================
