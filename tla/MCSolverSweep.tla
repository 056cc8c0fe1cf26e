--------------------------- MODULE MCSolverSweep ---------------------------
(***************************************************************************)
(* The synthetic V-tail demonstrator: two batteries, two spars and one     *)
(* drive, with a long and a short wing and one tail the worker refuses.    *)
(***************************************************************************)
EXTENDS SolverSweep

MCGeometries == {"long", "short", "flat"}
MCFacts == {"battery1.mass", "spar.allow", "cruise"}
MCPolar == [long |-> << [alpha |-> -2, lift |-> 100, drag |-> 60], [alpha |-> 0, lift |-> 260, drag |-> 320],
                        [alpha |-> 2, lift |-> 420, drag |-> 800] >>,
            short |-> << [alpha |-> 0, lift |-> 240, drag |-> 400], [alpha |-> 2, lift |-> 390, drag |-> 950] >>,
            flat |-> <<>>]
MCCommands == << [vsp |-> TRUE, detached |-> TRUE], [vsp |-> FALSE, detached |-> FALSE] >>

Part(type, mass, x) == [type |-> type, mass |-> mass, x |-> x]
Spar(mass, allow, modulus) ==
  [type |-> "spar", mass |-> mass, x |-> -3, outer |-> 16, inner |-> 14, allow |-> allow, modulus |-> modulus]
Battery(index, mass, energy, partEnergy, crate) ==
  [type |-> "battery", index |-> index, mass |-> mass, x |-> -4, energy |-> energy,
   partEnergy |-> partEnergy, chem |-> "lipo", volt |-> 15, ir |-> Null, crate |-> crate]
Empty == [rho |-> Absent, cruise |-> Absent, g |-> Absent, reserve |-> Absent]

InputOf(g, known) ==
  LET If(f, v) == IF f \in known THEN v ELSE Null
  IN [ parts |-> [ shell |-> Part("shell", 1000, -3),
                   motor |-> [type |-> "motor", mass |-> 90, x |-> 1, kv |-> 9, rm |-> 0, i0 |-> 1, imax |-> 20],
                   esc |-> [type |-> "esc", mass |-> 40, x |-> 0, imax |-> 6],
                   prop |-> [type |-> "prop", mass |-> 20, x |-> 2, ct |-> 10, cp |-> 4],
                   spar1 |-> Spar(70, 220, Absent), spar2 |-> Spar(70, If("spar.allow", 140), Absent),
                   battery1 |-> Battery(1, If("battery1.mass", 250), 60, Absent, 3),
                   battery2 |-> Battery(2, 500, Absent, 74, 20) ],
       geo |-> [ version |-> g, S |-> 44, b |-> IF g = "short" THEN 16 ELSE 20, c |-> 2,
                 aero |-> [profile |-> 1400, fuselage |-> 700, interference |-> 400, e |-> 80, clmax |-> Absent],
                 assumed |-> [profile |-> Absent, fuselage |-> Absent, interference |-> Absent, e |-> 70,
                              clmax |-> 110],
                 stations |-> IF g = "short" THEN <<0, 4, 8>> ELSE <<0, 10>>,
                 chords |-> <<3, 2>>, frame |-> "FRD", panels |-> 2, span |-> 5, altitude |-> 0,
                 layout |-> IF g = "flat" THEN "conventional" ELSE "vtail",
                 cant |-> 40, panel |-> 6, sh |-> 7, sv |-> 4, arm |-> 8,
                 np |-> -3, npStatus |-> "assumed", chains |-> FALSE, clearance |-> Absent,
                 intersections |-> FALSE,
                 mission |-> [Empty EXCEPT !.rho = 12, !.cruise = 16], environment |-> [Empty EXCEPT !.g = 10] ],
       mission |-> [Empty EXCEPT !.cruise = If("cruise", 15), !.reserve = 20],
       required |-> {"battery1"} ]
MCInput == [g \in MCGeometries |-> [known \in SUBSET MCFacts |-> InputOf(g, known)]]

\* A mass, an allowable stress and a speed are filled in, and nothing else changes.
ASSUME DemonstratorFillsIn == FactsFillIn
=============================================================================
