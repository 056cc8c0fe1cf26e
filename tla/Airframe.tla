------------------------------ MODULE Airframe ------------------------------
(***************************************************************************)
(* A design under recommendation: the installed occurrences, the few       *)
(* definition parameters the edits change, and the confirmed features.     *)
(*                                                                         *)
(* What no edit changes is the constant Frame; what edits and claims       *)
(* change is a design record:                                              *)
(*   x       the station of each part's origin, along the body axis        *)
(*   mass    its mass, or Unknown: a missing mass is not zero              *)
(*   size    its length along the axis, or Unknown                         *)
(*   tube    outer and inner diameter, the spar definition's parameters    *)
(*   bore    the bore in the mounts' definition                            *)
(*   tip     tip_extension_m of each wing panel definition                 *)
(*   span, area     the wing's reference span and area, or Unknown         *)
(*   pack    the claims of the battery occurrence (any may be Unknown)     *)
(*   confirmed      which of units, frame and reconstruction are           *)
(* Lengths, masses and loads are integers in the units of the MC module.   *)
(***************************************************************************)
EXTENDS Integers, Sequences, FiniteSets

CONSTANTS
  Frame,     \* order, and role, com, caps, locked, contacts, lane, mirror, def by part
  Catalog,   \* the catalogue's items, in its order
  Unknown    \* the value of a claim that nobody has established

\* The frame's fields. Airframe and occurrence order, and by part: role, centre of mass, edit
\* capabilities, contacts, lane (what it shares a cross-section with), mirror and definition.
Order == Frame.order
Role == Frame.role
Com == Frame.com
Caps == Frame.caps
PartLocks == Frame.locked
Contacts == Frame.contacts
Lane == Frame.lane
Mirror == Frame.mirror
Def == Frame.def
Corridors == Frame.corridor
\* Claims and assumptions: the spar's material, stability, drag, powertrain, tail and tip.
Density == Frame.density
TubeUnit == Frame.tubeUnit
Allowable == Frame.allowable
Neutral == Frame.neutral
Mac == Frame.mac
Polar == Frame.polar
Powertrain == Frame.powertrain
Stations == Frame.stations
Parasite == Frame.parasite
Induced == Frame.induced
Avionics == Frame.avionics
RangeUnit == Frame.rangeUnit
EscLimit == Frame.escLimit
Registrable == Frame.registrable
TailArea == Frame.tailArea
TailArm == Frame.tailArm
Strip == Frame.strip
Items == Catalog

Parts == {Order[i] : i \in DOMAIN Order}

ASSUME FrameAssumption ==
  /\ Order \in Seq(Parts)
  /\ \A i, j \in DOMAIN Order : i # j => Order[i] # Order[j]
  /\ Role \in [Parts -> STRING]
  /\ Com \in [Parts -> Int]
  /\ Caps \in [Parts -> SUBSET {"translate_component", "resize_spar",
                        "set_wing_tip_extension", "replace_catalog_component"}]
  /\ PartLocks \in SUBSET Parts
  /\ Contacts \in [Parts -> SUBSET Parts]
  /\ \A p \in DOMAIN Corridors :
       /\ {Corridors[p].min, Corridors[p].max} \subseteq Int
       /\ Corridors[p].mounts \in SUBSET Int
  /\ Density \in Int \cup {Unknown} /\ TubeUnit \in Nat \ {0}

ASSUME CatalogAssumption ==
  /\ Items \in Seq({Items[k] : k \in DOMAIN Items})
  /\ \A k \in DOMAIN Items :
       Items[k].mass \in Int \cup {Unknown} /\ {Items[k].outer, Items[k].inner} \subseteq Nat

Known(v) == v # Unknown

\* What an import hands over: every claim is there, established or not.
IsDesign(d) ==
  /\ DOMAIN d = {"x", "mass", "size", "tube", "bore", "tip", "span", "area", "pack", "confirmed"}
  /\ d.x \in [Parts -> Int]
  /\ d.mass \in [Parts -> Int \cup {Unknown}]
  /\ DOMAIN d.size = Parts

\* The entries of a sequence at the positions in keep, in their order.
Selected(seq, keep) ==
  LET upTo[i \in 0..Len(seq)] ==
        IF i = 0 THEN <<>>
        ELSE IF i \in keep THEN Append(upTo[i - 1], seq[i]) ELSE upTo[i - 1]
  IN upTo[Len(seq)]

Before(p, q) ==
  \E i, j \in DOMAIN Order : i < j /\ Order[i] = p /\ Order[j] = q
FirstOf(S) == CHOOSE p \in S : \A q \in S \ {p} : Before(p, q)
WithRole(role) == {p \in Parts : Role[p] = role}
WithCap(cap) == {p \in Parts : cap \in Caps[p]}
InOrder(S) == Selected(Order, {i \in DOMAIN Order : Order[i] \in S})

\* The spar, the battery and the corridor the reference generators look at.
Corridor(p) == IF p \in DOMAIN Corridors THEN Corridors[p] ELSE Unknown
InCorridor(c, pos) == c.min <= pos /\ pos <= c.max

\* Massless geometry does not quietly disappear: one unknown mass leaves all of them unknown.
WorldCom(d, p) == d.x[p] + Com[p]
Weighed(d) == \A p \in Parts : Known(d.mass[p])
SumOver(term) ==
  LET upTo[i \in 0..Len(Order)] == IF i = 0 THEN 0 ELSE upTo[i - 1] + term[Order[i]]
  IN upTo[Len(Order)]
\* A masses record is a value, and so is what the evaluator makes of a design.
ASSUME UnknownAssumption == Unknown \notin [total : Int, moment : Int]
MassProperties(d) ==
  IF Weighed(d) THEN [total |-> SumOver(d.mass),
                      moment |-> SumOver([p \in Parts |-> d.mass[p] * WorldCom(d, p)])]
  ELSE Unknown

\* Tubes. The mass is volume times density, the second moment as a difference of fourth powers.
TubeMass(outer, inner) == ((outer * outer - inner * inner) * Density) \div TubeUnit
SecondMoment(outer, inner) == outer ^ 4 - inner ^ 4

\* Two placed parts overlap along the axis, in a lane both occupy, and are not declared mates.
Clash(d, p, q) ==
  /\ Lane[p] \cap Lane[q] # {}
  /\ Known(d.size[p]) /\ Known(d.size[q])
  /\ q \notin Contacts[p] /\ p \notin Contacts[q]
  /\ 2 * d.x[p] - d.size[p] < 2 * d.x[q] + d.size[q]
  /\ 2 * d.x[q] - d.size[q] < 2 * d.x[p] + d.size[p]
Clashes(d) ==
  \E i \in DOMAIN Order : \E j \in 1..(i - 1) : Clash(d, Order[i], Order[j])
=============================================================================
