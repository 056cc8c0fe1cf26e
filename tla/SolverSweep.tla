---------------------------- MODULE SolverSweep ----------------------------
(***************************************************************************)
(* The OpenVSP worker beside the evaluator. A caller hashes the geometry   *)
(* file and starts the interpreters it knows, one after the other, until   *)
(* one leaves a result; each reads the file for itself, later. One that    *)
(* runs out of time is given up, and where only its launcher could be      *)
(* killed it goes on and writes its result into the same directory.        *)
(* Meanwhile the geometry is edited and facts of the input are filled in.  *)
(***************************************************************************)
EXTENDS RevisionEvaluation

CONSTANTS
  Geometries,   \* the versions the geometry file goes through
  Input,        \* the evaluator's input, by geometry and facts established
  Facts,        \* what a user may still establish
  Commands,     \* the interpreters in the order they are tried: [vsp, detached]
  Torn,         \* what the result file holds while it is being written
  Polar,        \* by geometry: the points a complete sweep of it returns
  MAX_EDITS, MAX_CALLS, MAX_FACTS    \* bounds: geometry edits, sweeps, facts established

ASSUME SweepAssumption ==
  /\ Commands \in Seq([vsp : BOOLEAN, detached : BOOLEAN]) /\ Commands # <<>>
  /\ MAX_EDITS \in Nat /\ MAX_CALLS \in Nat /\ MAX_FACTS \in Nat
  /\ Null \notin Geometries
  /\ \A g \in Geometries : \A known \in SUBSET Facts : Hash(Input[g][known]) = g

VARIABLES
  geometry,   \* what the geometry file holds
  facts,      \* the facts established
  call,       \* the caller: pc, the command tried and the hash taken
  own,        \* the process the caller waits for, or Null
  orphans,    \* processes given up that still run
  file,       \* sweep_result.json: Null, Torn or a payload
  sweep,      \* the payload the last call returned, as the evaluator is given it
  edits, calls

vars == <<geometry, facts, call, own, orphans, file, sweep, edits, calls>>

\* A payload: label, the geometry it was solved for, its points, whether it is an import failure,
\* and quiet: nobody wrote the geometry file between the hash and the reading.
Failure(label) == [label |-> label, of |-> Null, points |-> <<>>, missed |-> FALSE, quiet |-> TRUE]

\* load_spec: what the worker cannot build is refused, another frame, a wing whose stations do not
\* run outwards from the root or lack a chord, any tail but a V of two panels, and a number that
\* is not declared.
Outwards(ys) == Len(ys) >= 2 /\ ys[1] = 0 /\ \A i \in 1..(Len(ys) - 1) : ys[i] < ys[i + 1]
Buildable(g) ==
  LET geo == Input[g][facts].geo
  IN /\ AllKnown({geo.S, geo.b, geo.c, AsFloat(geo.cant), AsFloat(geo.panel), AsFloat(geo.arm),
                   AsFloat(geo.span), AsFloat(geo.mission.cruise), AsFloat(geo.mission.rho),
                   AsFloat(geo.altitude)})
     /\ geo.frame = "FRD" /\ Outwards(geo.stations) /\ \A i \in DOMAIN geo.chords : geo.chords[i] > 0
     /\ geo.layout = "vtail" /\ geo.panels = 2 /\ geo.span > 0

Init ==
  /\ geometry \in Geometries /\ facts = {} /\ call = [pc |-> "idle", cmd |-> 0, hash |-> Null]
  /\ own = Null /\ orphans = {} /\ file = Null /\ sweep = Failure(Null) /\ edits = 0 /\ calls = 0

Establish ==
  /\ Cardinality(facts) < MAX_FACTS
  /\ \E f \in Facts \ facts : facts' = facts \cup {f}
  /\ UNCHANGED <<geometry, call, own, orphans, file, sweep, edits, calls>>

Unread(p) == p.of = Null
Disturb(p) == IF Unread(p) THEN [p EXCEPT !.quiet = FALSE] ELSE p
EditGeometry ==
  /\ edits < MAX_EDITS /\ edits' = edits + 1
  /\ geometry' \in Geometries \ {geometry}
  /\ own' = (IF own = Null THEN Null ELSE Disturb(own)) /\ orphans' = {Disturb(p) : p \in orphans}
  /\ UNCHANGED <<facts, call, file, sweep, calls>>

\* generate_and_sweep: hash the file, refuse what cannot be built.
Request ==
  /\ call.pc = "idle" /\ calls < MAX_CALLS /\ calls' = calls + 1
  /\ IF Buildable(geometry)
     THEN call' = [pc |-> "launch", cmd |-> 1, hash |-> geometry] /\ sweep' = sweep
     ELSE call' = call /\ sweep' = Failure(geometry)
  /\ UNCHANGED <<geometry, facts, own, orphans, file, edits>>

\* Mutant: the same command is tried again.
SameCommand == call' = [call EXCEPT !.pc = "launch"] /\ sweep' = sweep
\* After the last command the call fails with every reason.
NextCommand ==
  IF call.cmd < Len(Commands)
  THEN call' = [call EXCEPT !.pc = "launch", !.cmd = call.cmd + 1] /\ sweep' = sweep
  ELSE call' = [call EXCEPT !.pc = "idle", !.cmd = 0] /\ sweep' = Failure(call.hash)

\* The old result goes and the next interpreter starts with the hash as an argument; a command
\* that is not there is passed over.
Start(cmd, hash) ==
  [cmd |-> cmd, label |-> hash, of |-> Null, quiet |-> geometry = hash, state |-> "running", out |-> Null]
Launch ==
  /\ call.pc = "launch"
  /\ file' = Null
  /\ \/ own' = Start(call.cmd, call.hash) /\ call' = [call EXCEPT !.pc = "wait"] /\ sweep' = sweep
     \/ own' = Null /\ NextCommand
  /\ UNCHANGED <<geometry, facts, orphans, edits, calls>>

\* The cases of the sweep that came back with a lift and a drag; a short list is returned as well.
Extracted(g) == IF Buildable(g) THEN {SubSeq(Polar[g], 1, n) : n \in {0, 1, Len(Polar[g])}} ELSE {<<>>}
\* An interpreter without the bindings reports that.
Results(p) ==
  LET Made(points, missed) ==
        [label |-> p.label, of |-> p.of, points |-> points, missed |-> missed, quiet |-> p.quiet]
  IN IF ~Commands[p.cmd].vsp THEN {Made(<<>>, TRUE)} ELSE {Made(c, FALSE) : c \in Extracted(p.of)}

\* One step of a process: read the geometry, open the result file, write it and exit; the native
\* solver may also take it down without a word.
Steps(p) ==
  IF Unread(p) THEN {<<[p EXCEPT !.of = geometry], file>>}
  ELSE IF p.state = "running"
       THEN {<<[p EXCEPT !.state = "writing"], Torn>>, <<[p EXCEPT !.state = "done"], file>>}
  ELSE IF p.state = "writing"
       THEN {<<[p EXCEPT !.state = "done", !.out = r], r>> : r \in Results(p)}
  ELSE {}
Running(p) == p.state # "done"

OwnStep ==
  /\ own # Null /\ Running(own)
  /\ \E s \in Steps(own) : own' = s[1] /\ file' = s[2]
  /\ UNCHANGED <<geometry, facts, call, orphans, sweep, edits, calls>>
OrphanStep ==
  /\ \E p \in orphans : \E s \in Steps(p) :
       /\ orphans' = (orphans \ {p}) \cup (IF s[1].state = "done" THEN {} ELSE {s[1]})
       /\ file' = s[2]
  /\ UNCHANGED <<geometry, facts, call, own, sweep, edits, calls>>

Timeout ==
  /\ call.pc = "wait" /\ own # Null /\ Running(own)
  /\ own' = Null
  /\ \/ orphans' = orphans
     \/ Commands[own.cmd].detached /\ orphans' = orphans \cup {own}
  /\ NextCommand
  /\ UNCHANGED <<geometry, facts, file, edits, calls>>

\* The result file if it parses, what the process printed otherwise.
Payload == IF file \in {Null, Torn} THEN own.out ELSE file
\* Mutant: the caller's hash is written over the payload's.
LabelOfCall(p) == call.hash
\* A payload keeps the label it has.
Label(p) == p.label
Collect ==
  /\ call.pc = "wait" /\ own # Null /\ ~Running(own)
  /\ own' = Null
  /\ IF Payload = Null \/ (Payload # Null /\ Payload.missed) THEN NextCommand
     ELSE /\ sweep' = [Payload EXCEPT !.label = Label(Payload)]
          /\ call' = [call EXCEPT !.pc = "idle", !.cmd = 0]
  /\ UNCHANGED <<geometry, facts, orphans, file, edits, calls>>

\* dronebench evaluate --solver: the saved sweep is given the hash of the geometry at hand.
LoadSolverResult(s) == [s EXCEPT !.label = geometry]

Next == Establish \/ EditGeometry \/ Request \/ Launch \/ OwnStep \/ OrphanStep \/ Timeout \/ Collect
\* subprocess.run returns: with the process, or when the time is up.
Fairness == WF_vars(Launch) /\ WF_vars(Timeout) /\ WF_vars(Collect)
Spec == Init /\ [][Next]_vars /\ Fairness

-----------------------------------------------------------------------------
In == Input[geometry][facts]
\* What the evaluator writes of every input when it is given no sweep.
Analytic == [g \in Geometries |-> [known \in SUBSET Facts |-> Evaluate(Input[g][known], NoSweep)]]

\* The verdicts among them.
DecidedIn(checks) == {<<c, checks[c]>> : c \in {d \in DOMAIN checks : Decided(checks[d])}}
Decisions == [g \in Geometries |-> [known \in SUBSET Facts |-> DecidedIn(Analytic[g][known].checks)]]

\* What a null field may turn into, and what an input may when facts are established: every null
\* may be filled in but that of a modulus, which the evaluator reads as one, and of the clearance,
\* which beside a list of intersections it reads as failed.
Filled(was, is) == is = was \/ (was = Null /\ is # Absent)
PartFields(type) ==
  {"mass", "x"} \cup CASE type = "spar"    -> {"outer", "inner", "allow"}
                       [] type = "battery" -> {"energy", "partEnergy", "volt", "crate"}
                       [] type = "motor"   -> {"kv", "rm", "i0", "imax"}
                       [] type = "esc"     -> {"imax"}
                       [] type = "prop"    -> {"ct", "cp"}
                       [] OTHER            -> {}
PartFilled(was, is) ==
  /\ is.type = was.type
  /\ \A f \in PartFields(was.type) : Filled(was[f], is[f])
  /\ was.type = "spar" => is.modulus = was.modulus
  /\ was.type = "battery" => is.index = was.index
GeoFilled(was, is) ==
  /\ \A f \in {"S", "b", "c", "layout", "cant", "panel", "sh", "sv", "arm", "np"} : Filled(was[f], is[f])
  /\ \A f \in {"npStatus", "chains", "clearance", "intersections"} : is[f] = was[f]
  /\ \A f \in {"profile", "fuselage", "interference", "e", "clmax"} :
       Filled(was.aero[f], is.aero[f]) /\ Filled(was.assumed[f], is.assumed[f])
  /\ \A f \in {"rho", "cruise", "g"} :
       Filled(was.mission[f], is.mission[f]) /\ Filled(was.environment[f], is.environment[f])
FillsIn(was, is) ==
  /\ DOMAIN is.parts = DOMAIN was.parts /\ is.required = was.required
  /\ \A p \in DOMAIN was.parts : PartFilled(was.parts[p], is.parts[p])
  /\ GeoFilled(was.geo, is.geo)
  /\ \A f \in {"rho", "cruise", "g"} : Filled(was.mission[f], is.mission[f])
FactsFillIn ==
  \A g \in Geometries : \A known, more \in SUBSET Facts :
    known \subseteq more => FillsIn(Input[g][known], Input[g][more])

\* Filling in what was missing decides open checks and never turns one the analytic evaluation
\* has decided: a null input leaves a check unknown, it is not read as zero.
Lasts(decisions) == decisions[facts] \subseteq decisions[facts']
LearningKeepsVerdicts == [][Establish => Lasts(Decisions[geometry])]_vars

\* An energy no pack of that mass can hold taints what is computed from it, however many packs
\* there are and in whatever order their masses come in.
Tainted(doc) ==
  {doc.usable.status, doc.performance.endurance.status} \subseteq {"conflicted", "unknown"}
QuarantineTaints ==
  (\E p \in Packs(In) : Implausible(In.parts[p])) => Tainted(Analytic[geometry][facts])

\* Evaluated with what a call returned, the solver tier rests on a sweep of this geometry, as
\* long as nobody wrote the file while an interpreter was starting: the result a process left
\* behind by an earlier call writes late is never taken for another geometry.
QuietSweepIsBound ==
  sweep.quiet /\ SolverUsed(SolverNumbers(In, sweep)) => sweep.of = geometry

\* A sweep that is asked for comes back, with numbers or a failure.
CallReturns == call.pc # "idle" ~> call.pc = "idle"

\* The documented meaning of the solver tier, through the command line.
SolverRunForThisGeometry ==
  SolverUsed(SolverNumbers(In, LoadSolverResult(sweep))) => sweep.of = geometry
=============================================================================
