------------------------------ MODULE Collider ------------------------------
(***************************************************************************)
(* Interference and propeller clearance of a regenerated aircraft          *)
(* (dronebench_edits/collide.py), measured on the bounding boxes that      *)
(* module Reconstruction gives its parts.  Every solid it makes tessellates*)
(* to a closed mesh, so none is unusable or unmeasurable.                  *)
(***************************************************************************)
EXTENDS EditPolicy, Reconstruction

Larger(a, b)  == IF a < b THEN b ELSE a
Smaller(a, b) == IF a < b THEN a ELSE b

-----------------------------------------------------------------------------
(* Pairs.                                                                  *)

\* Contact by design, of the manifest's parts or of the policy's.
Allows(a, b) == a \in DOMAIN Manifest.parts /\ b \in Manifest.parts[a].overlaps

DeclaredPair(a, b) == Allows(a, b) \/ Allows(b, a) \/ {a, b} \in Policy.declared

\* _aabb_gap: on some axis the boxes are at least so far apart.
Apart(a, b, gap) ==
    \E i \in 1..3 : a.lo[i] - b.hi[i] >= gap \/ b.lo[i] - a.hi[i] >= gap

\* The deepest point of a in b is deeper than depth under the surface of b.
DeeperIn(a, b, depth) ==
    \A i \in 1..3 :
        LET low  == Larger(a.lo[i], b.lo[i])
            high == Smaller(a.hi[i], b.hi[i])
            at   == Smaller(high, Larger(low, (b.lo[i] + b.hi[i]) \div 2))
        IN at - b.lo[i] > depth /\ b.hi[i] - at > depth

\* _penetration_depth is the larger of both directions.
Penetrates(a, b) ==
    /\ ~Apart(a, b, Policy.tolerance + 1)
    /\ DeeperIn(a, b, Policy.tolerance) \/ DeeperIn(b, a, Policy.tolerance)

\* Pairs of which no part was changed are not tested again; without changed
\* parts every pair is.
Interference(model, changed) ==
    {pair \in (DOMAIN model) \X (DOMAIN model) :
        /\ pair[1] # pair[2]
        /\ changed = {} \/ pair[1] \in changed \/ pair[2] \in changed
        /\ Penetrates(model[pair[1]].box, model[pair[2]].box)
        /\ ~DeclaredPair(pair[1], pair[2])}

-----------------------------------------------------------------------------
(* The propeller.                                                          *)

Swept == Around(<<PropX, 0, 0>>, <<Motor.propThickness, Motor.prop, Motor.prop>>)

Drivetrain == {"recon_motor", "recon_motor_mount"}

\* Everything but the drivetrain and what is declared to carry the propeller.
PropellerClears(model) ==
    LET props == {id \in DOMAIN model : model[id].category = "prop"}
    IN \A id \in DOMAIN model \ (props \cup Drivetrain) :
         \/ \E prop \in props : DeclaredPair(prop, id)
         \/ Apart(Swept, model[id].box, Policy.propClearance)

-----------------------------------------------------------------------------
(* Evidence.                                                               *)

\* What is changed has an occurrence, a mating partner, and known mount, material
\* and mass.
Retained(id) ==
    /\ id \in DOMAIN Manifest.parts
    /\ Manifest.parts[id].known
    /\ \/ Manifest.parts[id].overlaps # {}
       \/ \E other \in DOMAIN Manifest.parts : id \in Manifest.parts[other].overlaps

\* check: the names of the checks that fail.
CollisionFailures(model, changed) ==
    (IF Interference(model, changed) = {} THEN {} ELSE {"collision_undeclared_interference"})
    \cup (IF PropellerClears(model) THEN {} ELSE {"propeller_clearance"})
    \cup (IF \A id \in changed : Retained(id) THEN {} ELSE {"verified_movement_unknown"})
=============================================================================
