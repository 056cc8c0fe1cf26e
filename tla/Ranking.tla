------------------------------- MODULE Ranking -------------------------------
(***************************************************************************)
(* The order of previewed cards: feasibility recovered, feasibility kept,  *)
(* objective gained where both sides may be compared, cost, proposal id.   *)
(* A card is a record with id, op, state, base and cand (the two           *)
(* evaluations), gain (the difference of the objectives, or Unknown).      *)
(***************************************************************************)
EXTENDS ReferenceEvaluator, SequencesExt

OperationCost ==
  [translate_component |-> 1, replace_catalog_component |-> 2, resize_spar |-> 3,
   set_wing_tip_extension |-> 4]

Evaluated(c) == Known(c.cand)
Feasible(c) == Evaluated(c) /\ VerifiedFeasible(c.cand)
Recovers(c) == Feasible(c) /\ ~VerifiedFeasible(c.base)

\* Mutant: the gain is compared before feasibility.
BetterByGain(a, b) ==
  LET Ahead(x, y) == x # y /\ (~Known(y) \/ (Known(x) /\ x > y))
  IN Ahead(a.gain, b.gain) \/ (a.gain = b.gain /\ Recovers(a) /\ ~Recovers(b))
\* The sort key, component by component: a gain nobody may compare counts as the worst.
Better(a, b) ==
  LET Bit(cond) == IF cond THEN 0 ELSE 1
      Ahead(x, y) == x # y /\ (~Known(y) \/ (Known(x) /\ x > y))
      Keys == << <<Bit(Recovers(a)), Bit(Recovers(b))>>, <<Bit(Feasible(a)), Bit(Feasible(b))>> >>
      Cost(c) == OperationCost[c.op.op]
  IN \/ Keys[1][1] < Keys[1][2]
     \/ Keys[1][1] = Keys[1][2] /\ Keys[2][1] < Keys[2][2]
     \/ Keys[1][1] = Keys[1][2] /\ Keys[2][1] = Keys[2][2] /\ Ahead(a.gain, b.gain)
     \/ Keys[1][1] = Keys[1][2] /\ Keys[2][1] = Keys[2][2] /\ a.gain = b.gain /\ Cost(a) < Cost(b)

\* The gain is only taken between evaluations of the same feasibility.
Gain(before, after, base, cand) ==
  IF Known(before) /\ Known(after) /\ VerifiedFeasible(base) = VerifiedFeasible(cand)
  THEN after - before ELSE Unknown

\* The cards in an order that puts none behind a worse one. The last component of the key, the text
\* of the proposal id, only orders cards that nothing else tells apart: any order.
Rankings(cards) ==
  {[i \in DOMAIN cards |-> cards[place[i]]] : place \in
     {p \in Bijection(DOMAIN cards, DOMAIN cards) :
        \A j \in DOMAIN cards : \A i \in 1..(j - 1) : ~Better(cards[p[j]], cards[p[i]])}}
=============================================================================
