----------------------------- MODULE Candidates -----------------------------
(***************************************************************************)
(* The deterministic generators: each answers one failing check with at    *)
(* most a few operations it has screened by arithmetic, in the order       *)
(* centre of gravity, spar, energy, mass, span.                            *)
(* A candidate is a record [key, op]: the key names the proposal.          *)
(***************************************************************************)
EXTENDS ReferenceEvaluator, SequencesExt

MAX_CANDIDATES == 6

Range1(seq) == {seq[i] : i \in DOMAIN seq}
Abs(n) == IF n < 0 THEN -n ELSE n
Locked(m) == PartLocks \cup m.locked
\* The items of a category, in the catalogue's order.
OfCategory(c) == SelectSeq(Items, LAMBDA i : i.category = c)

\* One request for each part whose unknown mass keeps a required check unknown.
EvidenceRequests(d, eval) ==
  IF RequiredUnknown(eval) = {} THEN {} ELSE {p \in Parts : ~Known(d.mass[p])}

\* --- centre of gravity ---------------------------------------------------
Movable(d, m) ==
  {p \in WithCap("translate_component") \ Locked(m) :
     Known(Corridor(p)) /\ Corridor(p).axis = "x" /\ Known(d.mass[p])}
Options(p) ==
  IF Corridor(p).mounts # {} THEN Corridor(p).mounts ELSE {Corridor(p).min, Corridor(p).max}
\* Where the move of a mass lands the centre of gravity. A displacement is whole units of
\* length, which the operation's rounding to a micrometre leaves as it is.
Lands(d, w, m, p, delta) ==
  InEnvelope([total |-> w.total, moment |-> w.moment + d.mass[p] * delta], m)
\* Mutant: any mount will do, wherever it brings the centre of gravity.
AnyMount(d, w, m, p) ==
  {delta \in {pos - d.x[p] : pos \in {q \in Options(p) : InCorridor(Corridor(p), q)}} : delta # 0}
Moves(d, w, m, p) ==
  {delta \in {pos - d.x[p] : pos \in {q \in Options(p) : InCorridor(Corridor(p), q)}} :
     delta # 0 /\ Lands(d, w, m, p, delta)}
\* The smallest move that works; of two of one length, the one aft.
Shortest(S) == CHOOSE a \in S : \A b \in S : Abs(a) < Abs(b) \/ (Abs(a) = Abs(b) /\ a <= b)
MoveOf(p, delta) ==
  [key |-> <<p, "cg">>,
   op |-> [op |-> "translate_component", target |-> p, axis |-> "x", delta |-> delta]]
Balancing(moves) ==
  LET Each(able) == [i \in DOMAIN able |-> MoveOf(able[i], Shortest(moves[able[i]]))]
  IN Each(InOrder({p \in DOMAIN moves : moves[p] # {}}))
CgCandidates(d, m, eval) ==
  LET All(w) == [p \in Movable(d, m) |-> Moves(d, w, m, p)]
  IN IF eval.cg_envelope # "fail" THEN <<>> ELSE Balancing(All(MassProperties(d)))

\* --- spar ----------------------------------------------------------------
\* Mutant: a tube of the same diameter counts as an upgrade.
LargerOrSame(d) == {i \in Range1(Items) : i.category = "spar" /\ i.outer >= d.tube.outer}
Larger(d) == {i \in Range1(Items) : i.category = "spar" /\ i.outer > d.tube.outer}
NextTube(larger) ==
  CHOOSE i \in larger : \A j \in larger :
    i.outer < j.outer \/ (i.outer = j.outer /\ i.inner <= j.inner)
BearingMounts(p) == {q \in WithRole("mount") : p \in Contacts[q]}
WithinHeadroom(d, m, i) ==
  ~Weighed(d) \/ TubeMass(i.outer, i.inner) - TubeMass(d.tube.outer, d.tube.inner)
                   <= m.maxMass - MassProperties(d).total
ResizeTo(p, i) ==
  [key |-> <<p, "resize">>,
   op |-> [op |-> "resize_spar", target |-> p, outer |-> i.outer, inner |-> i.inner,
           mounts |-> BearingMounts(p)]]
SparCandidates(d, m, eval) ==
  LET Lightest(i) == IF WithinHeadroom(d, m, i) THEN <<ResizeTo(FirstOf(WithCap("resize_spar")), i)>> ELSE <<>>
      Upgrade(larger) == IF larger = {} THEN <<>> ELSE Lightest(NextTube(larger))
  IN IF WithCap("resize_spar") = {} \/ ~Known(Density) \/ ~Known(Allowable)
     THEN <<>> ELSE Upgrade(Larger(d))

\* --- battery -------------------------------------------------------------
\* The bay is the installed pack's box and five millimetres; no box, no limit.
BaySlack == 5
FitsBay(d, p, item) == Known(item.size) /\ (Known(d.size[p]) => item.size <= d.size[p] + BaySlack)
\* The installed pack is recognised in the catalogue by its mass alone.
Installed(d, p) ==
  SelectSeq(OfCategory("battery"), LAMBDA i : Known(d.mass[p]) /\ i.mass = d.mass[p] /\ Known(i.window))
SameClass(w, v) ==
  LET lo == IF w[1] > v[1] THEN w[1] ELSE v[1]
      hi == IF w[2] < v[2] THEN w[2] ELSE v[2]
  IN hi > lo /\ 2 * (hi - lo) >= v[2] - v[1]
VoltageFits(installed, item) ==
  Known(item.window) /\ (installed # <<>> => SameClass(item.window, installed[1].window))
Claimed(item, k) == IF k \in DOMAIN item.claims THEN item.claims[k] ELSE Unknown
Fitting(d, p) ==
  LET Suits(installed) ==
        SelectSeq(OfCategory("battery"), LAMBDA i : FitsBay(d, p, i) /\ VoltageFits(installed, i)
                                                    /\ Known(Claimed(i, "capacity")) /\ Known(i.mass))
  IN Suits(Installed(d, p))
Preferred(prefer, a, b) ==
  IF prefer = "capacity" THEN a.claims.capacity > b.claims.capacity ELSE a.mass < b.mass
\* The first of the best, as max and min return it.
Best(seq, prefer) ==
  seq[CHOOSE i \in DOMAIN seq : \A j \in DOMAIN seq :
        ~Preferred(prefer, seq[j], seq[i]) /\ (j < i => Preferred(prefer, seq[i], seq[j]))]
Batteries == WithRole("battery") \cap WithCap("replace_catalog_component")
Swap(d, prefer) ==
  LET To(p, item) ==
        IF item.mass = d.mass[p] THEN <<>>
        ELSE <<[key |-> <<p, "swap", item.id>>,
                op |-> [op |-> "replace_catalog_component", target |-> p, item |-> item.id]]>>
      Among(p, fitting) == IF fitting = <<>> THEN <<>> ELSE To(p, Best(fitting, prefer))
      At(p) == Among(p, Fitting(d, p))
  IN IF Batteries = {} THEN <<>> ELSE At(FirstOf(Batteries))
EnergyCandidates(d, eval) == IF eval.energy_reserve = "fail" THEN Swap(d, "capacity") ELSE <<>>
MassCandidates(d, eval) == IF eval.mass_budget = "fail" THEN Swap(d, "mass") ELSE <<>>

\* --- span ----------------------------------------------------------------
TipStep == 5
Tips == WithCap("set_wing_tip_extension")
Left == {p \in Tips : ~Known(Mirror[p])}
Paired == {p \in Tips : Left # {} /\ Mirror[p] = FirstOf(Left)}
SpanCandidates(d, eval) ==
  LET Extend(p, q) ==
        <<[key |-> <<p, "tip">>,
           op |-> [op |-> "set_wing_tip_extension", target |-> p, ext |-> TipStep, paired |-> q]]>>
  IN IF eval.energy_reserve # "fail" \/ Left = {} \/ Paired = {} \/ ~Known(d.span) THEN <<>>
     ELSE Extend(FirstOf(Left), FirstOf(Paired))

\* --- the list ------------------------------------------------------------
\* One candidate for each operation on a part, the earliest, and no more than the budget.
Earliest(seq) ==
  LET Same(a, b) == a.op.op = b.op.op /\ a.op.target = b.op.target
  IN Selected(seq, {i \in DOMAIN seq : \A j \in 1..(i - 1) : ~Same(seq[j], seq[i])})
Generate(d, m, eval) ==
  LET UpToBudget(kept) ==
        [i \in {j \in DOMAIN kept : j <= MAX_CANDIDATES} |-> kept[i]]
  IN UpToBudget(Earliest(CgCandidates(d, m, eval) \o SparCandidates(d, m, eval) \o EnergyCandidates(d, eval)
                         \o MassCandidates(d, eval) \o SpanCandidates(d, eval)))
=============================================================================
