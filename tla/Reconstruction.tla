--------------------------- MODULE Reconstruction ---------------------------
(***************************************************************************)
(* The editable aircraft regenerated from a parameter set                  *)
(* (dronebench_cad/params.py and reconstruct.py).  Lengths are integers in *)
(* half millimetres, ratios are percentages.                               *)
(*                                                                         *)
(* A solid is its bounding box and, for the tube, its bore.  Airfoils,     *)
(* cant, twist and superellipses shape the solid inside its box and are    *)
(* left out.                                                               *)
(***************************************************************************)
EXTENDS Integers, Sequences, FiniteSetsExt

\* The measured aircraft: lifting surfaces and fuselage stations.  A surface is a wing unless
\* its name is a tail's; named says whether the word wing is in it.
CONSTANT Features

-----------------------------------------------------------------------------
(* The parameter set.  Edits change the centre of the pack, the diameters  *)
(* of the spar and the extension of the tips; the rest of it stays as      *)
(* from_features made it.                                                  *)

\* What is drawn of the hardware that no archive has.
Battery == <<310, 110, 90>>
Motor   == [diameter |-> 90, length |-> 80, mount |-> 24, mountSize |-> 104,
            prop |-> 610, propThickness |-> 20, propGap |-> 24]
Plate   == [lo |-> <<-1092, 1097, -38>>, hi |-> <<-967, 1395, -16>>]

FromFeatures == [center |-> <<-400, 0, -10>>, outer |-> 32, inner |-> 24, tip |-> 0]

Surfaces == Features.surfaces
Fuselage == Features.fuselage
Wings    == {i \in DOMAIN Surfaces : Surfaces[i].category = "wing"}
NamedWings == {i \in DOMAIN Surfaces : Surfaces[i].named}

Root(surface) == surface.stations[1]
Tip(surface)  == surface.stations[Len(surface.stations)]

\* The spar goes where the measured wing is, if it was measured as one surface.
Spar ==
    LET wings == {i \in DOMAIN Surfaces : Surfaces[i].id = "wing"}
        wing  == Surfaces[Min(wings)]
    IN IF wings = {} THEN [x |-> -920, z |-> -34, span |-> 2400]
       ELSE [ x    |-> Root(wing).le - (30 * Root(wing).chord) \div 100,
              z    |-> Root(wing).z,
              span |-> (11 * Tip(wing).y) \div 10 ]

\* The motor goes behind the fuselage, and the propeller behind the motor.
MotorX == IF Fuselage = <<>> THEN -2006 ELSE Min({Fuselage[i].x : i \in DOMAIN Fuselage}) - 24
PropX  == MotorX - Motor.length - Motor.propGap

-----------------------------------------------------------------------------
(* Lifting surfaces.                                                       *)

\* The outermost station of a wing moves with the extension.
Effective(surface, tip) ==
    IF surface.category = "wing" /\ Len(surface.stations) >= 2
    THEN [surface.stations EXCEPT ![Len(surface.stations)].y = @ + tip]
    ELSE surface.stations

Loftable(surface, tip) ==
    LET stations == Effective(surface, tip) IN
    /\ Len(stations) >= 2
    /\ \A i \in 2..Len(stations) : stations[i - 1].y < stations[i].y
    /\ \A i \in DOMAIN stations : stations[i].chord > 0

LoftBox(surface, tip) ==
    LET stations == Effective(surface, tip)
        half(s)  == (s.thickness * s.chord) \div 200
    IN [ lo |-> << Min({stations[i].le - stations[i].chord : i \in DOMAIN stations}),
                   stations[1].y,
                   Min({stations[i].z - half(stations[i]) : i \in DOMAIN stations}) >>,
         hi |-> << Max({stations[i].le : i \in DOMAIN stations}),
                   stations[Len(stations)].y,
                   Max({stations[i].z + half(stations[i]) : i \in DOMAIN stations}) >> ]

MirrorY(box) == [ lo |-> [box.lo EXCEPT ![2] = -box.hi[2]],
                  hi |-> [box.hi EXCEPT ![2] = -box.lo[2]] ]

Part(category, box, bore) == [category |-> category, box |-> box, bore |-> bore]

\* The side that was measured, and its mirror where the surface is symmetric.
SurfaceParts(surface, tip) ==
    LET box   == LoftBox(surface, tip)
        sides == IF surface.mirror THEN {"right", "left"} ELSE {surface.side}
    IN [ id \in {surface[side] : side \in sides} |->
           Part(surface.category, IF id = surface.right THEN box ELSE MirrorY(box), 0) ]

-----------------------------------------------------------------------------
(* Hardware.                                                               *)

Around(center, size) ==
    LET lo == [i \in 1..3 |-> center[i] - size[i] \div 2]
    IN [lo |-> lo, hi |-> [i \in 1..3 |-> lo[i] + size[i]]]

\* A cylinder that runs aft from a point of the axis.
Aft(x, diameter, length) == Around(<<x - length \div 2, 0, 0>>, <<length, diameter, diameter>>)

SparPart(params) ==
    Part("spar", Around(<<Spar.x, 0, Spar.z>>, <<params.outer, Spar.span, params.outer>>), params.inner)

Envelopes ==
    [ recon_motor |-> Part("motor", Aft(MotorX, Motor.diameter, Motor.length), 0),
      recon_motor_mount |-> Part("mount",
          Around(<<MotorX + Motor.mount \div 2, 0, 0>>,
                 <<Motor.mount, Motor.mountSize, Motor.mountSize>>), 0),
      recon_prop |-> Part("prop", Aft(PropX, Motor.prop, Motor.propThickness), 0),
      recon_wing_bay_plate |-> Part("mount", Plate, 0) ]

FuselageParts ==
    LET f == Fuselage IN
    IF f = <<>> THEN <<>>
    ELSE [ recon_fuselage |-> Part("fuselage",
           [ lo |-> << Min({f[i].x : i \in DOMAIN f}), Min({-(f[i].width \div 2) : i \in DOMAIN f}),
                       Min({f[i].z - f[i].height \div 2 : i \in DOMAIN f}) >>,
             hi |-> << Max({f[i].x : i \in DOMAIN f}), Max({f[i].width \div 2 : i \in DOMAIN f}),
                       Max({f[i].z + f[i].height \div 2 : i \in DOMAIN f}) >> ], 0) ]

\* The parts that no edit changes.
Tails == [i \in DOMAIN Surfaces |-> IF i \in Wings THEN <<>> ELSE SurfaceParts(Surfaces[i], 0)]

\* Parts of several sources, by id.
Joined(parts) ==
    LET having(id) == {i \in DOMAIN parts : id \in DOMAIN parts[i]} IN
    [id \in UNION {DOMAIN parts[i] : i \in DOMAIN parts} |-> parts[Min(having(id))][id]]

Fixed == Joined(<<Joined(Tails), FuselageParts, Envelopes>>)

\* The parts that edits change.
Panels(tip) ==
    [i \in DOMAIN Surfaces |-> IF i \in Wings THEN SurfaceParts(Surfaces[i], tip) ELSE <<>>]

Hardware(params) ==
    [ recon_spar    |-> SparPart(params),
      recon_battery |-> Part("battery", Around(params.center, Battery), 0) ]

\* No two parts have one id.
IdsDiffer ==
    LET sources == Panels(0) \o Tails \o <<Hardware(FromFeatures), FuselageParts, Envelopes>>
    IN \A i, j \in DOMAIN sources : i # j => DOMAIN sources[i] \cap DOMAIN sources[j] = {}

\* reconstruct raises for stations that do not increase, a fuselage of one
\* station, a bore as wide as its tube, and parts with one id.
Reconstructs(params) ==
    /\ \A i \in DOMAIN Surfaces : Loftable(Surfaces[i], params.tip)
    /\ Len(Fuselage) # 1
    /\ params.inner < params.outer
    /\ IdsDiffer

\* reconstruct: part ids to parts.
Model(params) ==
    Joined(<<Joined(Panels(params.tip)), Hardware(params), Fixed>>)
=============================================================================
