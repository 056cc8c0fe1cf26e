-------------------------- MODULE MCEditOperations --------------------------
(***************************************************************************)
(* The bounds of edit_policy.yaml, in half millimetres, and a small        *)
(* V-tailed pusher whose pack has 14.5 mm to go before it meets the spar.  *)
(***************************************************************************)
EXTENDS EditOperations

Range2(low, high) == [low |-> low, high |-> high]

Hull(id) == {id, "recon_fuselage"}

\* Contact by design: the spar and the bay plate in the wings, all that the
\* fuselage holds, and the motor on its mount.
Declared ==
    { {"recon_spar", "recon_wing_right"}, {"recon_spar", "recon_wing_left"},
      {"recon_spar", "recon_wing_bay_plate"}, {"recon_wing_right", "recon_wing_bay_plate"},
      {"recon_wing_left", "recon_wing_bay_plate"}, {"recon_motor", "recon_motor_mount"},
      Hull("recon_spar"), Hull("recon_battery"), Hull("recon_motor_mount"),
      Hull("recon_wing_right"), Hull("recon_wing_left"),
      Hull("recon_vtail_right"), Hull("recon_vtail_left") }

MCPolicy ==
    [ corridor  |-> << Range2(-840, -240), Range2(-40, 40), Range2(-60, 30) >>,
      harness   |-> 60,
      minOuter  |-> 8,
      wallFloor |-> 1,
      holes     |-> [wing3_12mm_hole |-> 24, wing3_16mm_hole |-> 32, wing3_no_hole |-> Null],
      tip       |-> Range2(-100, 300),
      tolerance |-> 1,
      propClearance |-> 20,
      aliases   |-> [battery |-> "recon_battery"],
      targets   |-> [ recon_battery    |-> {"translate"},
                      recon_spar       |-> {"resize_spar"},
                      recon_wing_right |-> {"wing_tip_extension"},
                      recon_wing_left  |-> {"wing_tip_extension"} ],
      declared  |-> Declared ]

Occurrence(category, locked, capabilities) ==
    [category |-> category, locked |-> locked, capabilities |-> capabilities,
     overlaps |-> {}, known |-> FALSE]

MCManifest ==
    [ selected |-> "wing3_16mm_hole",
      parts    |-> [ pack |-> Occurrence("battery", FALSE, {"translate"}),
                     hull |-> Occurrence("fuselage", TRUE, {"translate"}),
                     skid |-> Occurrence("mount", FALSE, {"translate"}) ] ]

Station(y, le, chord) == [y |-> y, le |-> le, chord |-> chord, z |-> -34, thickness |-> 12]

Surface(name, category, right, left, stations) ==
    [id |-> name, category |-> category, named |-> category = "wing", side |-> "right", mirror |-> TRUE,
     right |-> right, left |-> left,
     stations |-> stations]

MCFeatures ==
    [ surfaces |-> << Surface("wing", "wing", "recon_wing_right", "recon_wing_left",
                              <<Station(140, -480, 400), Station(1000, -500, 300),
                                Station(1041, -520, 200)>>),
                      Surface("vtail", "vtail", "recon_vtail_right", "recon_vtail_left",
                              <<Station(80, -1600, 300), Station(500, -1700, 200)>>) >>,
      fuselage |-> << [x |-> 0, width |-> 40, height |-> 40, z |-> 0],
                      [x |-> -2000, width |-> 200, height |-> 160, z |-> 0] >> ]

Ask(operation, targets, value) == [operation |-> operation, targets |-> targets, value |-> value]

MCRequests ==
    { Ask("translate_component", <<"pack">>, <<-20, 0, 0>>),
      Ask("translate_component", <<"recon_battery">>, <<-60, 0, 0>>),
      Ask("translate_component", <<"pack">>, <<40, 0, 50>>),
      Ask("translate_component", <<"skid">>, <<-20, 0, 0>>),
      Ask("translate_component", <<"hull">>, <<-20, 0, 0>>),
      Ask("translate_component", <<>>, <<-20, 0, 0>>),
      Ask("resize_spar", <<>>, <<25, Null>>),
      Ask("resize_spar", <<"recon_spar">>, <<32, 31>>),
      Ask("resize_spar", <<>>, <<NaN, Null>>),
      Ask("resize_spar", <<>>, <<25, NoNumber>>),
      Ask("set_wing_tip_extension", <<>>, 80),
      Ask("set_wing_tip_extension", <<"recon_wing_left">>, 40),
      Ask("set_wing_tip_extension", <<>>, -60),
      Ask("replace_catalog_component", <<"pack">>, Null) }
=============================================================================
