---------------------------- MODULE ProposalGate ----------------------------
(***************************************************************************)
(* The gate every operation passes before it is staged, whoever wrote it.  *)
(* Valid is the conjunction of the gate's clauses: the code gathers every  *)
(* failing clause as a reason and refuses when there is one.               *)
(***************************************************************************)
EXTENDS Candidates, ReferenceCad

MAX_TRANSLATE == 1000
MAX_SPAR_OUTER == 60
MAX_TIP_EXTENSION == 30

Confirmed(d) == d.confirmed = {"units", "frame", "reconstruction"}

\* Corridor, bound, destination, harness and mass of a move.
ValidTranslate(d, o) ==
  LET Within(c) == /\ Known(c) /\ c.axis = o.axis
                   /\ InCorridor(c, d.x[o.target] + o.delta)
                   /\ Known(c.harness) /\ Abs(o.delta) <= c.harness
  IN Within(Corridor(o.target)) /\ Abs(o.delta) <= MAX_TRANSLATE /\ Known(d.mass[o.target])
\* Every mount that bears on the spar is regenerated with it.
ValidResize(d, o) ==
  /\ Known(Density) /\ Known(Allowable)
  /\ o.outer <= MAX_SPAR_OUTER
  /\ o.outer - o.inner >= 1
  /\ BearingMounts(o.target) \subseteq o.mounts
ValidTip(d, o) ==
  /\ Abs(o.ext) <= MAX_TIP_EXTENSION
  /\ Mirror[o.paired] = o.target \/ Mirror[o.target] = o.paired
  /\ "set_wing_tip_extension" \in Caps[o.paired]
  /\ Stations
ValidReplace(d, o) ==
  \E k \in DOMAIN Items :
    /\ Items[k].id = o.item
    /\ Known(Items[k].mass) /\ Items[k].evidence /\ Known(Items[k].size)
    /\ Known(d.size[o.target]) => Items[k].size <= d.size[o.target] + BaySlack
Specific(d, o) ==
  CASE o.op = "translate_component" -> ValidTranslate(d, o)
    [] o.op = "resize_spar" -> ValidResize(d, o)
    [] o.op = "set_wing_tip_extension" -> ValidTip(d, o)
    [] o.op = "replace_catalog_component" -> ValidReplace(d, o)

Valid(d, m, o) ==
  /\ Confirmed(d)
  /\ Owned(o) \subseteq Parts
  /\ Owned(o) \cap Locked(m) = {}
  /\ o.op \in Caps[o.target]
  /\ Specific(d, o)
=============================================================================
