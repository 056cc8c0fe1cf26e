-------------------------- MODULE MCRecommendation --------------------------
(***************************************************************************)
(* The synthetic demonstrator in grams, millimetres along the body axis,   *)
(* centimetres of span, square decimetres of wing and tenths of a watt.    *)
(* The parts no check tells apart are one fuselage.                        *)
(***************************************************************************)
EXTENDS Recommendation


P == {"fuselage", "left", "right", "spar", "mountL", "mountR", "battery", "payload", "harness"}
On(map, else) == map @@ [p \in P |-> else]

MCFrame ==
  [ order |-> <<"fuselage", "left", "right", "spar", "mountL", "mountR", "battery", "payload", "harness">>,
    role |-> On([left |-> "wing", right |-> "wing", spar |-> "spar", mountL |-> "mount",
                 mountR |-> "mount", battery |-> "battery"], "other"),
    com |-> On([fuselage |-> 177], 0),
    caps |-> On([left |-> {"set_wing_tip_extension"}, right |-> {"set_wing_tip_extension"},
                 spar |-> {"resize_spar"},
                 battery |-> {"translate_component", "replace_catalog_component"}], {}),
    locked |-> {"payload"},
    contacts |-> On([mountL |-> {"spar", "fuselage"}, mountR |-> {"spar", "fuselage"}], {"fuselage"}),
    lane |-> On([battery |-> {"bay"}, payload |-> {"bay"}], {}),
    mirror |-> On([right |-> "left", mountR |-> "mountL"], Unknown),
    def |-> On([left |-> "panel", right |-> "panel", mountL |-> "mount", mountR |-> "mount"], "own"),
    corridor |-> [battery |-> [axis |-> "x", min |-> -530, max |-> -420,
                               mounts |-> {-515, -470, -440, -420}, harness |-> 150]],
    density |-> 7, tubeUnit |-> 3, allowable |-> 1200,
    neutral |-> 400, mac |-> 222, polar |-> TRUE, powertrain |-> TRUE, stations |-> TRUE,
    parasite |-> 15, induced |-> 3, avionics |-> 50, rangeUnit |-> 576, escLimit |-> 40,
    registrable |-> 250, tailArea |-> 6, tailArm |-> 780, strip |-> 2 ]

Pack(id, mass, size, low, high, capacity, limit) ==
  [id |-> id, category |-> "battery", mass |-> mass, size |-> size, window |-> <<low, high>>,
   claims |-> [capacity |-> capacity, volt |-> (low + high) \div 2, limit |-> limit],
   evidence |-> TRUE, outer |-> 0, inner |-> 0]
Tube(id, outer, inner) ==
  [id |-> id, category |-> "spar", mass |-> 140, size |-> Unknown, window |-> Unknown,
   claims |-> <<>>,
   evidence |-> TRUE, outer |-> outer, inner |-> inner]
MCCatalog ==
  << Pack("std", 545, 160, 120, 168, 740, 100), Pack("light", 430, 145, 120, 168, 592, 80),
     Pack("six", 780, 190, 180, 252, 1110, 100), Pack("dense", 440, 150, 120, 168, 900, 100),
     Tube("t16", 16, 14), Tube("t18", 18, 16), Tube("t20", 20, 17) >>

Cruise ==
  [maxMass |-> 2000, cgLo |-> 344, cgHi |-> 382, marginLo |-> 8, marginHi |-> 25, reserve |-> 20,
   route |-> 12, wingLoading |-> 121, load |-> 3, operation |-> "part_107_commercial",
   friaa |-> "outside", locked |-> {"payload"}]
\* Routes only a bigger or only the dense pack can fly, a limit the standard pack exceeds, and a locked mount.
MCMissions ==
  { Cruise, [Cruise EXCEPT !.route = 40], [Cruise EXCEPT !.route = 48],
    [Cruise EXCEPT !.maxMass = 1800],
    [Cruise EXCEPT !.load = 6, !.locked = {"payload", "mountR"}] }

MCDesign(pack, x, harness, confirmed) ==
  [ x |-> On([fuselage |-> -600, battery |-> x, payload |-> -310, harness |-> -350], -320),
    mass |-> On([fuselage |-> 450, left |-> 185, right |-> 185, spar |-> 140, battery |-> pack.mass,
                 payload |-> 250, harness |-> harness], 12),
    size |-> On([fuselage |-> 1150, battery |-> pack.size, payload |-> 80, spar |-> 16,
                 harness |-> 550], 130),
    tube |-> [outer |-> 16, inner |-> 14], bore |-> 16, tip |-> [panel |-> 0],
    span |-> 200, area |-> 44, pack |-> pack.claims, confirmed |-> confirmed ]
MCDesigns ==
  { MCDesign(MCCatalog[d[1]], d[2], d[3], {"units", "frame", "reconstruction"}) :
      d \in {<<1, -515, 40>>, <<1, -450, 40>>, <<2, -515, 40>>, <<1, -450, Unknown>>} }

MCClaimEntries == {[part |-> "harness", mass |-> 40], [part |-> "harness", mass |-> 160],
                   [part |-> "battery", mass |-> 550]}
MCProviderOps ==
  { [op |-> "translate_component", target |-> "battery", axis |-> "x", delta |-> 30],
    [op |-> "translate_component", target |-> "payload", axis |-> "x", delta |-> 30],
    [op |-> "resize_spar", target |-> "spar", outer |-> 18, inner |-> 15, mounts |-> {}],
    [op |-> "resize_spar", target |-> "spar", outer |-> 18, inner |-> 15,
     mounts |-> {"mountL", "mountR"}],
    [op |-> "set_wing_tip_extension", target |-> "left", ext |-> 5, paired |-> "right"],
    [op |-> "set_wing_tip_extension", target |-> "left", ext |-> 5, paired |-> "spar"],
    [op |-> "replace_catalog_component", target |-> "battery", item |-> "light"],
    [op |-> "replace_catalog_component", target |-> "battery", item |-> "six"] }

\* The demonstrator's mounts all bear on its one spar, and only its two panels have a tip.
ASSUME DemonstratorOwnsDefinitions == DefinitionsOwned
=============================================================================
