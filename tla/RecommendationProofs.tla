------------------------ MODULE RecommendationProofs ------------------------
(***************************************************************************)
(* The recommendation loop, for every frame, catalogue, mission, provider  *)
(* and number of confirmations.                                            *)
(***************************************************************************)
EXTENDS Recommendation, WellFoundedInduction, TLAPS

-----------------------------------------------------------------------------
(* Induction on the natural numbers, from the well-foundedness of <.       *)

LEMMA LessIsWellFounded ==
  \E R : IsWellFoundedOn(R, Nat) /\ \A x, y \in Nat : x < y => <<x, y>> \in R
<1>1. IsWellFoundedOn(OpToRel(<, Nat), Nat)
  BY NatLessThanWellFounded
<1>2. \A x, y \in Nat : x < y => <<x, y>> \in OpToRel(<, Nat)
  BY DEF OpToRel
<1> QED
  BY <1>1, <1>2

LEMMA Least ==
  ASSUME NEW T, T \subseteq Nat, T # {}
  PROVE  \E x \in T : \A y \in T : x <= y
<1>1. PICK R : IsWellFoundedOn(R, Nat) /\ \A x, y \in Nat : x < y => <<x, y>> \in R
  BY LessIsWellFounded
<1>2. IsWellFoundedOn(R, Nat)
  BY <1>1
<1>3. \E x \in T : \A y \in T : ~(<<y, x>> \in R)
  BY <1>2, WFMin, Zenon
<1>4. \E x \in T : \A y \in T : ~(y < x)
  BY <1>1, <1>3
<1> QED
  BY <1>4

LEMMA SetInduction ==
  ASSUME NEW S, S \subseteq Nat, 0 \in S, \A n \in S : n + 1 \in S
  PROVE  S = Nat
<1>1. PICK T : T = Nat \ S
  OBVIOUS
<1>2. ASSUME T # {} PROVE FALSE
  <2>1. PICK x \in T : \A y \in T : x <= y
    BY <1>1, <1>2, Least
  <2>2. x \in Nat /\ x # 0 /\ x - 1 \in Nat /\ x - 1 < x
    BY <1>1, <2>1
  <2>3. x - 1 \in S
    BY <1>1, <2>1, <2>2
  <2>4. x - 1 + 1 \in S
    BY <2>3
  <2> QED
    BY <1>1, <2>1, <2>2, <2>4
<1> QED
  BY <1>1, <1>2

-----------------------------------------------------------------------------
(* Selected: what it returns are entries of the sequence at kept positions. *)

SelectedStep(seq, keep, i, before) == IF i \in keep THEN Append(before, seq[i]) ELSE before
IsSelection(f, seq, keep, n) ==
  /\ f = [i \in 0..n |-> f[i]] /\ f[0] = <<>>
  /\ \A i \in 1..n : f[i] = SelectedStep(seq, keep, i, f[i - 1])

LEMMA SelectionExists ==
  ASSUME NEW seq, NEW keep
  PROVE  \A n \in Nat : \E f : IsSelection(f, seq, keep, n)
<1>1. PICK S : S = {n \in Nat : \E f : IsSelection(f, seq, keep, n)}
  OBVIOUS
<1>2. 0 \in S
  <2>1. IsSelection([i \in 0..0 |-> <<>>], seq, keep, 0)
    BY DEF IsSelection
  <2> QED
    BY <1>1, <2>1
<1>3. ASSUME NEW n \in S PROVE n + 1 \in S
  <2>1. PICK f : IsSelection(f, seq, keep, n)
    BY <1>1
  <2>2. n \in Nat
    BY <1>1
  <2>3. PICK g : g = [i \in 0..(n + 1) |->
                        IF i = n + 1 THEN SelectedStep(seq, keep, i, f[n]) ELSE f[i]]
    OBVIOUS
  <2>4. g = [i \in 0..(n + 1) |-> g[i]] /\ g[0] = <<>>
    BY <2>1, <2>2, <2>3 DEF IsSelection
  <2>5. ASSUME NEW i \in 1..(n + 1) PROVE g[i] = SelectedStep(seq, keep, i, g[i - 1])
    <3>1. CASE i = n + 1
      BY <2>2, <2>3, <3>1
    <3>2. CASE i # n + 1
      <4>1. i \in 1..n /\ i \in 0..(n + 1) /\ i - 1 \in 0..(n + 1) /\ i - 1 # n + 1
        BY <2>2, <3>2
      <4>2. g[i] = f[i] /\ g[i - 1] = f[i - 1]
        BY <2>3, <3>2, <4>1
      <4> QED
        BY <2>1, <4>1, <4>2 DEF IsSelection
    <3> QED
      BY <3>1, <3>2
  <2>6. IsSelection(g, seq, keep, n + 1)
    BY <2>4, <2>5 DEF IsSelection
  <2> QED
    BY <1>1, <2>2, <2>6
<1>4. S = Nat
  BY <1>1, <1>2, <1>3, SetInduction
<1> QED
  BY <1>1, <1>4

LEMMA SelectedUnfolds ==
  ASSUME NEW seq, NEW keep, Len(seq) \in Nat
  PROVE  \E f : IsSelection(f, seq, keep, Len(seq)) /\ Selected(seq, keep) = f[Len(seq)]
<1>1. PICK n : n = Len(seq)
  OBVIOUS
<1>2. PICK h : IsSelection(h, seq, keep, n)
  BY <1>1, SelectionExists
<1>3. h = [i \in 0..n |-> IF i = 0 THEN <<>>
                         ELSE IF i \in keep THEN Append(h[i - 1], seq[i]) ELSE h[i - 1]]
  <2>1. PICK g : g = [i \in 0..n |->
                        IF i = 0 THEN <<>>
                        ELSE IF i \in keep THEN Append(h[i - 1], seq[i]) ELSE h[i - 1]]
    OBVIOUS
  <2>2. DOMAIN h = 0..n /\ DOMAIN g = 0..n
    BY <1>2, <2>1 DEF IsSelection
  <2>3. ASSUME NEW i \in 0..n PROVE h[i] = g[i]
    <3>1. CASE i = 0
      BY <1>2, <2>1, <3>1 DEF IsSelection
    <3>2. CASE i # 0
      <4>1. i \in 1..n /\ g[i] = IF i \in keep THEN Append(h[i - 1], seq[i]) ELSE h[i - 1]
        BY <1>1, <2>1, <3>2
      <4>2. h[i] = SelectedStep(seq, keep, i, h[i - 1])
        BY <1>2, <4>1 DEF IsSelection
      <4> QED
        BY <4>1, <4>2 DEF SelectedStep
    <3> QED
      BY <3>1, <3>2
  <2>4. h = [i \in 0..n |-> h[i]] /\ g = [i \in 0..n |-> g[i]]
    BY <1>2, <2>1, <2>2 DEF IsSelection
  <2>5. h = g
    BY <2>3, <2>4
  <2> QED
    BY <2>1, <2>5
<1>4. PICK f : /\ f = [i \in 0..Len(seq) |->
                       IF i = 0 THEN <<>>
                       ELSE IF i \in keep THEN Append(f[i - 1], seq[i]) ELSE f[i - 1]]
               /\ Selected(seq, keep) = f[Len(seq)]
  BY <1>1, <1>3 DEF Selected
<1>5. f = [i \in 0..n |-> f[i]] /\ f[0] = <<>>
  BY <1>1, <1>4
<1>6. ASSUME NEW i \in 1..n PROVE f[i] = SelectedStep(seq, keep, i, f[i - 1])
  <2>1. i \in 0..n /\ i # 0
    BY <1>1
  <2> QED
    BY <1>1, <1>4, <2>1 DEF SelectedStep
<1> QED
  BY <1>1, <1>4, <1>5, <1>6 DEF IsSelection

LEMMA SelectedFrom ==
  ASSUME NEW seq, NEW keep, Len(seq) \in Nat,
         NEW T, \A i \in 1..Len(seq) : i \in keep => seq[i] \in T
  PROVE  Selected(seq, keep) \in Seq(T)
<1>1. PICK n : n = Len(seq)
  OBVIOUS
<1>2. PICK f : IsSelection(f, seq, keep, n) /\ Selected(seq, keep) = f[n]
  BY <1>1, SelectedUnfolds
<1>3. f[0] = <<>> /\ \A i \in 1..n : f[i] = SelectedStep(seq, keep, i, f[i - 1])
  BY <1>2 DEF IsSelection
<1>4. PICK S : S = {i \in Nat : i <= n => f[i] \in Seq(T)}
  OBVIOUS
<1>5. 0 \in S
  <2>1. f[0] \in Seq(T)
    BY <1>3
  <2> QED
    BY <1>4, <2>1
<1>6. ASSUME NEW i \in S PROVE i + 1 \in S
  <2>1. i \in Nat /\ (i <= n => f[i] \in Seq(T))
    BY <1>4
  <2>2. CASE i + 1 <= n
    <3>1. PICK j \in 1..n : j = i + 1 /\ j - 1 = i
      BY <1>1, <2>1, <2>2
    <3>2. f[j] = SelectedStep(seq, keep, j, f[i]) /\ f[i] \in Seq(T)
      BY <1>1, <1>3, <2>1, <3>1
    <3>3. f[j] \in Seq(T)
      <4>1. CASE j \in keep
        BY <1>1, <3>2, <4>1 DEF SelectedStep
      <4>2. CASE j \notin keep
        BY <3>2, <4>2 DEF SelectedStep
      <4> QED
        BY <4>1, <4>2
    <3> QED
      BY <1>4, <2>1, <3>1, <3>3
  <2> QED
    BY <1>4, <2>1, <2>2
<1>7. S = Nat
  BY <1>4, <1>5, <1>6, SetInduction
<1> QED
  BY <1>1, <1>2, <1>4, <1>7

-----------------------------------------------------------------------------
(* SumOver: its type, and the effect of changing one term.                 *)

IsSum(f, term, n) ==
  /\ f = [i \in 0..n |-> f[i]] /\ f[0] = 0
  /\ \A i \in 1..n : f[i] = f[i - 1] + term[Order[i]]

LEMMA SumExists ==
  ASSUME NEW term
  PROVE  \A n \in Nat : \E f : IsSum(f, term, n)
<1>1. PICK S : S = {n \in Nat : \E f : IsSum(f, term, n)}
  OBVIOUS
<1>2. 0 \in S
  <2>1. IsSum([i \in 0..0 |-> 0], term, 0)
    BY DEF IsSum
  <2> QED
    BY <1>1, <2>1
<1>3. ASSUME NEW n \in S PROVE n + 1 \in S
  <2>1. PICK f : IsSum(f, term, n)
    BY <1>1
  <2>2. n \in Nat
    BY <1>1
  <2>3. PICK g : g = [i \in 0..(n + 1) |->
                        IF i = n + 1 THEN f[n] + term[Order[i]] ELSE f[i]]
    OBVIOUS
  <2>4. g = [i \in 0..(n + 1) |-> g[i]] /\ g[0] = 0
    BY <2>1, <2>2, <2>3 DEF IsSum
  <2>5. ASSUME NEW i \in 1..(n + 1) PROVE g[i] = g[i - 1] + term[Order[i]]
    <3>1. CASE i = n + 1
      BY <2>2, <2>3, <3>1
    <3>2. CASE i # n + 1
      <4>1. i \in 1..n /\ i \in 0..(n + 1) /\ i - 1 \in 0..(n + 1) /\ i - 1 # n + 1
        BY <2>2, <3>2
      <4>2. g[i] = f[i] /\ g[i - 1] = f[i - 1]
        BY <2>3, <3>2, <4>1
      <4> QED
        BY <2>1, <4>1, <4>2 DEF IsSum
    <3> QED
      BY <3>1, <3>2
  <2>6. IsSum(g, term, n + 1)
    BY <2>4, <2>5 DEF IsSum
  <2> QED
    BY <1>1, <2>2, <2>6
<1>4. S = Nat
  BY <1>1, <1>2, <1>3, SetInduction
<1> QED
  BY <1>1, <1>4

LEMMA OrderLength == Len(Order) \in Nat
BY FrameAssumption DEF FrameAssumption

LEMMA SumUnfolds ==
  ASSUME NEW term
  PROVE  \E f : IsSum(f, term, Len(Order)) /\ SumOver(term) = f[Len(Order)]
<1>1. PICK n : n = Len(Order)
  OBVIOUS
<1>2. PICK h : IsSum(h, term, n)
  BY <1>1, OrderLength, SumExists
<1>3. h = [i \in 0..n |-> IF i = 0 THEN 0 ELSE h[i - 1] + term[Order[i]]]
  <2>1. PICK g : g = [i \in 0..n |-> IF i = 0 THEN 0 ELSE h[i - 1] + term[Order[i]]]
    OBVIOUS
  <2>2. ASSUME NEW i \in 0..n PROVE h[i] = g[i]
    <3>1. CASE i = 0
      BY <1>2, <2>1, <3>1 DEF IsSum
    <3>2. CASE i # 0
      <4>1. i \in 1..n /\ g[i] = h[i - 1] + term[Order[i]]
        BY <1>1, <2>1, <3>2
      <4> QED
        BY <1>2, <4>1 DEF IsSum
    <3> QED
      BY <3>1, <3>2
  <2>3. h = [i \in 0..n |-> h[i]] /\ g = [i \in 0..n |-> g[i]]
    BY <1>2, <2>1 DEF IsSum
  <2>4. h = g
    BY <2>2, <2>3
  <2> QED
    BY <2>1, <2>4
<1>4. PICK f : /\ f = [i \in 0..Len(Order) |-> IF i = 0 THEN 0 ELSE f[i - 1] + term[Order[i]]]
               /\ SumOver(term) = f[Len(Order)]
  BY <1>1, <1>3 DEF SumOver
<1>5. f = [i \in 0..n |-> f[i]] /\ f[0] = 0
  BY <1>1, <1>4
<1>6. ASSUME NEW i \in 1..n PROVE f[i] = f[i - 1] + term[Order[i]]
  <2>1. i \in 0..n /\ i # 0
    BY <1>1
  <2> QED
    BY <1>1, <1>4, <2>1
<1> QED
  BY <1>1, <1>4, <1>5, <1>6 DEF IsSum

LEMMA SumIsInt ==
  ASSUME NEW term \in [Parts -> Int]
  PROVE  SumOver(term) \in Int
<1>1. PICK n \in Nat : n = Len(Order) /\ \A i \in 1..n : Order[i] \in Parts
  BY FrameAssumption DEF FrameAssumption, Parts
<1>2. PICK f : f[0] = 0 /\ (\A i \in 1..n : f[i] = f[i - 1] + term[Order[i]])
               /\ SumOver(term) = f[n]
  BY <1>1, SumUnfolds DEF IsSum
<1>3. PICK S : S = {i \in Nat : i <= n => f[i] \in Int}
  OBVIOUS
<1>4. 0 \in S
  BY <1>2, <1>3
<1>5. ASSUME NEW i \in S PROVE i + 1 \in S
  <2>1. i \in Nat /\ (i <= n => f[i] \in Int)
    BY <1>3
  <2>2. CASE i + 1 <= n
    <3>1. PICK j \in 1..n : j = i + 1 /\ j - 1 = i
      BY <2>1, <2>2
    <3>2. f[j] = f[i] + term[Order[j]] /\ term[Order[j]] \in Int /\ f[i] \in Int
      BY <1>1, <1>2, <2>1, <3>1
    <3> QED
      BY <1>3, <2>1, <3>1, <3>2
  <2> QED
    BY <1>3, <2>1, <2>2
<1>6. S = Nat
  BY <1>3, <1>4, <1>5, SetInduction
<1> QED
  BY <1>2, <1>3, <1>6

\* Parts are distinct: what is added to the term of one is added to the sum.
LEMMA SumShifts ==
  ASSUME NEW term \in [Parts -> Int], NEW p \in Parts, NEW k \in Int
  PROVE  SumOver([term EXCEPT ![p] = @ + k]) = SumOver(term) + k
<1>1. PICK n \in Nat : n = Len(Order) /\ DOMAIN Order = 1..n
                      /\ \A i \in 1..n : Order[i] \in Parts
  BY FrameAssumption DEF FrameAssumption, Parts
<1>2. PICK u : u = [term EXCEPT ![p] = @ + k]
  OBVIOUS
<1>3. PICK a \in 1..n : Order[a] = p
  BY <1>1 DEF Parts
<1>4. /\ u[Order[a]] = term[Order[a]] + k
      /\ \A i \in 1..n : i # a => u[Order[i]] = term[Order[i]]
  BY <1>1, <1>2, <1>3, FrameAssumption DEF FrameAssumption
<1>5. PICK f : f[0] = 0 /\ (\A i \in 1..n : f[i] = f[i - 1] + term[Order[i]])
               /\ SumOver(term) = f[n]
  BY <1>1, SumUnfolds DEF IsSum
<1>6. PICK g : g[0] = 0 /\ (\A i \in 1..n : g[i] = g[i - 1] + u[Order[i]])
               /\ SumOver(u) = g[n]
  BY <1>1, SumUnfolds DEF IsSum
<1>7. PICK S : S = {i \in Nat : i <= n => /\ f[i] \in Int
                                        /\ g[i] = IF i < a THEN f[i] ELSE f[i] + k}
  OBVIOUS
<1>8. 0 \in S
  BY <1>3, <1>5, <1>6, <1>7
<1>9. ASSUME NEW i \in S PROVE i + 1 \in S
  <2>1. i \in Nat /\ (i <= n => f[i] \in Int /\ g[i] = IF i < a THEN f[i] ELSE f[i] + k)
    BY <1>7
  <2>2. CASE i + 1 <= n
    <3>1. PICK j \in 1..n : j = i + 1 /\ j - 1 = i
      BY <2>1, <2>2
    <3>2. PICK v \in Int : v = term[Order[j]]
      BY <1>1, <3>1
    <3>3. f[j] = f[i] + v /\ g[j] = g[i] + u[Order[j]] /\ f[i] \in Int
          /\ g[i] = IF i < a THEN f[i] ELSE f[i] + k
      BY <1>5, <1>6, <2>1, <3>1, <3>2
    <3>4. u[Order[j]] = IF j = a THEN v + k ELSE v
      BY <1>4, <3>1, <3>2
    <3>5. f[j] \in Int /\ g[j] = IF j < a THEN f[j] ELSE f[j] + k
      BY <2>1, <3>1, <3>2, <3>3, <3>4
    <3> QED
      BY <1>7, <2>1, <3>1, <3>5
  <2> QED
    BY <1>7, <2>1, <2>2
<1>10. S = Nat
  BY <1>7, <1>8, <1>9, SetInduction
<1> QED
  BY <1>2, <1>5, <1>6, <1>7, <1>10

-----------------------------------------------------------------------------
(* Evaluations.                                                            *)

LEMMA EvaluationKnown ==
  ASSUME NEW d, NEW m
  PROVE  Known(Evaluate(d, m))
<1>1. PICK w : w = MassProperties(d)
  OBVIOUS
<1> DEFINE Verdicts == {"pass", "fail", "unknown"}
<1>2. MassBudget(w, m) \in Verdicts /\ CgEnvelope(w, m) \in Verdicts
  BY DEF MassBudget, CgEnvelope, PassIf
<1>3. StaticMargin(w, m) \in Verdicts
  BY DEF StaticMargin, PassIf
<1>4. EnergyReserve(d, w, m) \in Verdicts /\ BatteryCurrent(d, w) \in Verdicts
  BY DEF EnergyReserve, BatteryCurrent, PassIf
<1>5. StallMargin(d, w, m) \in Verdicts /\ SparStress(d, w, m) \in Verdicts
  BY DEF StallMargin, SparStress, PassIf
<1>6. Clearance(d) \in Verdicts
  BY DEF Clearance
<1>7. /\ Regulatory(RegistrationRule(w, m)) \in Verdicts
      /\ Regulatory(RemoteIdRule(w, m)) \in Verdicts
  BY DEF Regulatory
<1>8. TailVolume(d) \in Verdicts
  BY DEF TailVolume, PassIf
<1>9. Checks(d, w, m) \in [CheckIds -> Verdicts]
  BY <1>2, <1>3, <1>4, <1>5, <1>6, <1>7, <1>8 DEF Checks, CheckIds
<1> QED
  BY <1>1, <1>9, EvaluationAssumption DEF Evaluate, Known

\* No unknown counts as passed: a design with a part nobody weighed is not feasible.
LEMMA FeasibleIsWeighed ==
  ASSUME NEW d, NEW m, VerifiedFeasible(Evaluate(d, m))
  PROVE  Weighed(d)
<1> SUFFICES ASSUME ~Weighed(d) PROVE FALSE
  OBVIOUS
<1>1. MassProperties(d) = Unknown
  BY DEF MassProperties
<1>2. MassBudget(MassProperties(d), m) = "unknown"
  BY <1>1 DEF MassBudget, Known
<1>3. Evaluate(d, m)["mass_budget"] = "unknown"
  BY <1>2 DEF Evaluate, Checks
<1>4. "mass_budget" \in Blocking(Evaluate(d, m))
  BY <1>3 DEF Blocking, BlockingIds
<1> QED
  BY <1>4 DEF VerifiedFeasible
-----------------------------------------------------------------------------
(* The inductive invariant.                                                *)

CardFields == {"id", "op", "origin", "state", "base", "cand", "gain", "after"}

\* The numbers an operation writes into a design.
OpTyped(o) ==
  /\ o.op = "translate_component" => o.delta \in Int
  /\ o.op = "resize_spar" => {o.outer, o.inner} \subseteq Int

\* A move along the body axis of a part whose mass is known, screened by the generator.
Centring(d, m, o) ==
  /\ o.op = "translate_component" /\ o.axis = "x" /\ o.target \in Parts /\ o.delta \in Int
  /\ Weighed(d) /\ Lands(d, MassProperties(d), m, o.target, o.delta)

\* A proposal, and a card made of it: it passed the gate on the design it was made for.
Sound(d, m, c) ==
  /\ DOMAIN c = CardFields
  /\ Valid(d, m, c.op) /\ OpTyped(c.op)
  /\ c.id[2] = "cg" => Centring(d, m, c.op)
Waiting(d, m, c) == Sound(d, m, c) /\ c.state = "proposed" /\ c.cand = Unknown

\* A card that was evaluated kept the edited design and its evaluation; what is ready is feasible,
\* and what is feasible is ready.
Previewed(d, m, c) ==
  /\ Sound(d, m, c)
  /\ Evaluated(c) => c.after = EditedParts(d, c.op) /\ c.cand = Evaluate(c.after, m)
  /\ c.state = "review_ready" <=> Feasible(c)

QueueOK(d, m, s) == s \in Seq(Range1(s)) /\ \A i \in DOMAIN s : Waiting(d, m, s[i])
CardsOK(d, m, s) == s \in Seq(Range1(s)) /\ \A i \in DOMAIN s : Previewed(d, m, s[i])
Ranked(s) == \A j \in DOMAIN s : \A i \in 1..(j - 1) : ~Better(s[j], s[i])

RecommendationInv ==
  /\ IsDesign(design) /\ IsDesign(base)
  /\ QueueOK(base, mission, queue) /\ CardsOK(base, mission, cards)
  /\ current => base = design
  /\ settled => VerifiedFeasible(Eval(design))
  /\ stage = "shown" => Ranked(cards)

-----------------------------------------------------------------------------
(* Edits.                                                                  *)

LEMMA OperationKinds ==
  ASSUME NEW d, NEW m, NEW o, Valid(d, m, o)
  PROVE  /\ o.target \in Parts
         /\ o.op \in {"translate_component", "resize_spar", "set_wing_tip_extension",
                      "replace_catalog_component"}
<1>1. o.target \in Parts
  BY DEF Valid, Owned
<1> QED
  BY <1>1, FrameAssumption DEF Valid, FrameAssumption

LEMMA EditCases ==
  ASSUME NEW d, NEW o
  PROVE  /\ o.op = "translate_component" => EditedParts(d, o) = Translate(d, o)
         /\ o.op = "resize_spar" => EditedParts(d, o) = Resize(d, o)
         /\ o.op = "set_wing_tip_extension" => EditedParts(d, o) = ExtendTip(d, o)
         /\ o.op = "replace_catalog_component" => EditedParts(d, o) = Replace(d, o)
BY DEF EditedParts

LEMMA GateCases ==
  ASSUME NEW d, NEW m, NEW o, Valid(d, m, o)
  PROVE  /\ o.op = "resize_spar" => ValidResize(d, o)
         /\ o.op = "set_wing_tip_extension" => ValidTip(d, o)
         /\ o.op = "replace_catalog_component" => ValidReplace(d, o)
BY DEF Valid, Specific

LEMMA ItemMass ==
  ASSUME NEW d, NEW o, ValidReplace(d, o)
  PROVE  ItemOf(o.item).mass \in Int \cup {Unknown}
<1>1. PICK S : S = {Items[k] : k \in DOMAIN Items}
  OBVIOUS
<1>2. \E i \in S : i.id = o.item
  BY <1>1 DEF ValidReplace
<1>3. ItemOf(o.item) \in S
  BY <1>1, <1>2 DEF ItemOf
<1> QED
  BY <1>1, <1>3, CatalogAssumption DEF CatalogAssumption

LEMMA TubeMassIsInt ==
  ASSUME NEW outer \in Int, NEW inner \in Int, Known(Density)
  PROVE  TubeMass(outer, inner) \in Int
<1>1. Density \in Int /\ TubeUnit \in Nat \ {0}
  BY FrameAssumption DEF FrameAssumption, Known
<1>2. PICK n \in Int : n = (outer * outer - inner * inner) * Density
  BY <1>1
<1> QED
  BY <1>1, <1>2 DEF TubeMass

DesignFields ==
  {"x", "mass", "size", "tube", "bore", "tip", "span", "area", "pack", "confirmed"}

\* What each operation writes, field by field.
TranslateWritten(d, o, e) ==
  /\ DOMAIN e = DesignFields
  /\ e.x = IF o.axis = "x" THEN [d.x EXCEPT ![o.target] = @ + o.delta] ELSE d.x
  /\ \A f \in DesignFields \ {"x"} : e[f] = d[f]
LEMMA TranslateWrites ==
  ASSUME NEW d, DOMAIN d = DesignFields, NEW o, NEW e, e = Translate(d, o)
  PROVE  TranslateWritten(d, o, e)
<1>1. CASE o.axis = "x"
  <2>1. PICK x : x = [d.x EXCEPT ![o.target] = @ + o.delta]
    OBVIOUS
  <2>2. e = [d EXCEPT !.x = x]
    BY <1>1, <2>1 DEF Translate
  <2> QED
    BY <1>1, <2>1, <2>2 DEF DesignFields, TranslateWritten
<1>2. CASE o.axis # "x"
  BY <1>2 DEF Translate, DesignFields, TranslateWritten
<1> QED
  BY <1>1, <1>2

ResizeWritten(d, o, e) ==
  /\ DOMAIN e = DesignFields
  /\ e.mass = [d.mass EXCEPT ![o.target] = TubeMass(o.outer, o.inner)]
  /\ e.size = [d.size EXCEPT ![o.target] = o.outer]
  /\ \A f \in DesignFields \ {"mass", "size", "tube", "bore"} : e[f] = d[f]
LEMMA ResizeWrites ==
  ASSUME NEW d, DOMAIN d = DesignFields, NEW o, NEW e, e = Resize(d, o)
  PROVE  ResizeWritten(d, o, e)
<1>1. PICK mass : mass = [d.mass EXCEPT ![o.target] = TubeMass(o.outer, o.inner)]
  OBVIOUS
<1>2. PICK size : size = [d.size EXCEPT ![o.target] = o.outer]
  OBVIOUS
<1>3. PICK bore : bore = IF o.mounts = {} THEN d.bore ELSE o.outer
  OBVIOUS
<1>4. PICK tube : tube = [outer |-> o.outer, inner |-> o.inner]
  OBVIOUS
<1>5. e = [d EXCEPT !.tube = tube, !.mass = mass, !.size = size, !.bore = bore]
  BY <1>1, <1>2, <1>3, <1>4 DEF Resize
<1> QED
  BY <1>1, <1>2, <1>5 DEF DesignFields, ResizeWritten

PanelWritten(d, p, ext, e) ==
  /\ DOMAIN e = DesignFields
  /\ e.tip = [d.tip EXCEPT ![Def[p]] = @ + ext]
  /\ \A f \in DesignFields \ {"tip"} : e[f] = d[f]
LEMMA ExtendPanelWrites ==
  ASSUME NEW d, DOMAIN d = DesignFields, NEW p, NEW ext, NEW e, e = ExtendPanel(d, p, ext)
  PROVE  PanelWritten(d, p, ext, e)
<1>1. PICK tip : tip = [d.tip EXCEPT ![Def[p]] = @ + ext]
  OBVIOUS
<1>2. e = [d EXCEPT !.tip = tip]
  BY <1>1 DEF ExtendPanel
<1> QED
  BY <1>1, <1>2 DEF DesignFields, PanelWritten

TipWritten(d, o, e) ==
  /\ DOMAIN e = DesignFields
  /\ \E tip : /\ tip = [d.tip EXCEPT ![Def[o.target]] = @ + o.ext]
              /\ e.tip = [tip EXCEPT ![Def[o.paired]] = @ + o.ext]
  /\ \A f \in DesignFields \ {"tip", "span", "area"} : e[f] = d[f]
LEMMA ExtendTipWrites ==
  ASSUME NEW d, DOMAIN d = DesignFields, NEW o, NEW e, e = ExtendTip(d, o)
  PROVE  TipWritten(d, o, e)
<1>1. PICK one : one = ExtendPanel(d, o.target, o.ext)
  OBVIOUS
<1>2. PICK both : both = ExtendPanel(one, o.paired, o.ext)
  OBVIOUS
<1>3. PanelWritten(d, o.target, o.ext, one)
  BY <1>1, ExtendPanelWrites
<1>4. DOMAIN one = DesignFields
  BY <1>3 DEF PanelWritten
<1>5. PanelWritten(one, o.paired, o.ext, both)
  BY <1>2, <1>4, ExtendPanelWrites
<1>6. e = both \/ \E span, area : e = [both EXCEPT !.span = span, !.area = area]
  BY <1>1, <1>2 DEF ExtendTip
<1>7. /\ DOMAIN e = DesignFields /\ e.tip = both.tip
      /\ \A f \in DesignFields \ {"span", "area"} : e[f] = both[f]
  BY <1>5, <1>6 DEF DesignFields, PanelWritten
<1>8. \A f \in DesignFields \ {"tip", "span", "area"} : e[f] = d[f]
  BY <1>3, <1>5, <1>7 DEF PanelWritten
<1>9. /\ one.tip = [d.tip EXCEPT ![Def[o.target]] = @ + o.ext]
      /\ both.tip = [one.tip EXCEPT ![Def[o.paired]] = @ + o.ext]
  BY <1>3, <1>5 DEF PanelWritten
<1> QED
  BY <1>7, <1>8, <1>9 DEF TipWritten

ReplaceWritten(d, o, e) ==
  /\ DOMAIN e = DesignFields
  /\ e.mass = [d.mass EXCEPT ![o.target] = ItemOf(o.item).mass]
  /\ \E size : e.size = [d.size EXCEPT ![o.target] = size]
  /\ \A f \in DesignFields \ {"mass", "size", "pack"} : e[f] = d[f]
LEMMA ReplaceWrites ==
  ASSUME NEW d, DOMAIN d = DesignFields, NEW o, NEW e, e = Replace(d, o)
  PROVE  ReplaceWritten(d, o, e)
<1>1. PICK item : item = ItemOf(o.item)
  OBVIOUS
<1>2. PICK mass : mass = [d.mass EXCEPT ![o.target] = item.mass]
  OBVIOUS
<1>3. PICK length : length = IF Known(item.size) THEN item.size ELSE d.size[o.target]
  OBVIOUS
<1>4. PICK size : size = [d.size EXCEPT ![o.target] = length]
  OBVIOUS
<1>5. PICK pack : pack = IF Role[o.target] = "battery" THEN Merge(d.pack, item.claims) ELSE d.pack
  OBVIOUS
<1>6. e = [d EXCEPT !.mass = mass, !.size = size, !.pack = pack]
  BY <1>1, <1>2, <1>3, <1>4, <1>5 DEF Replace
<1> QED
  BY <1>1, <1>2, <1>4, <1>6 DEF DesignFields, ReplaceWritten

LEMMA EditWrites ==
  ASSUME NEW d, DOMAIN d = DesignFields, NEW o, NEW e, e = EditedParts(d, o)
  PROVE  /\ o.op = "translate_component" => TranslateWritten(d, o, e)
         /\ o.op = "resize_spar" => ResizeWritten(d, o, e)
         /\ o.op = "set_wing_tip_extension" => TipWritten(d, o, e)
         /\ o.op = "replace_catalog_component" => ReplaceWritten(d, o, e)
<1>1. o.op = "translate_component" => TranslateWritten(d, o, e)
  BY EditCases, TranslateWrites
<1>2. o.op = "resize_spar" => ResizeWritten(d, o, e)
  BY EditCases, ResizeWrites
<1>3. o.op = "set_wing_tip_extension" => TipWritten(d, o, e)
  BY EditCases, ExtendTipWrites
<1>4. o.op = "replace_catalog_component" => ReplaceWritten(d, o, e)
  BY EditCases, ReplaceWrites
<1> QED
  BY <1>1, <1>2, <1>3, <1>4

LEMMA DesignShape ==
  ASSUME NEW d, IsDesign(d)
  PROVE  DOMAIN d = DesignFields
BY DEF IsDesign, DesignFields

\* An edit that passed the gate turns a design into a design.
LEMMA EditKeepsDesign ==
  ASSUME NEW d, IsDesign(d), NEW m, NEW o, Valid(d, m, o), OpTyped(o)
  PROVE  IsDesign(EditedParts(d, o))
<1>1. o.target \in Parts /\ DOMAIN d = DesignFields
  BY OperationKinds, DesignShape
<1>2. PICK e : e = EditedParts(d, o)
  OBVIOUS
<1>3. CASE o.op = "translate_component"
  <2>1. TranslateWritten(d, o, e)
    BY <1>1, <1>2, <1>3, EditWrites
  <2>2. e.mass = d.mass /\ e.size = d.size
    BY <2>1 DEF TranslateWritten, DesignFields
  <2>3. e.x \in [Parts -> Int]
    BY <1>1, <1>3, <2>1 DEF IsDesign, OpTyped, TranslateWritten
  <2> QED
    BY <1>2, <2>1, <2>2, <2>3 DEF IsDesign, DesignFields, TranslateWritten
<1>4. CASE o.op = "resize_spar"
  <2>1. ResizeWritten(d, o, e)
    BY <1>1, <1>2, <1>4, EditWrites
  <2>2. PICK mass \in Int : mass = TubeMass(o.outer, o.inner)
    BY <1>4, GateCases, TubeMassIsInt DEF ValidResize, OpTyped
  <2>3. /\ e.x = d.x /\ e.mass = [d.mass EXCEPT ![o.target] = mass]
        /\ e.size = [d.size EXCEPT ![o.target] = o.outer]
    BY <2>1, <2>2 DEF ResizeWritten, DesignFields
  <2> QED
    BY <1>1, <1>2, <2>1, <2>3 DEF IsDesign, DesignFields, ResizeWritten
<1>5. CASE o.op = "set_wing_tip_extension"
  <2>1. TipWritten(d, o, e)
    BY <1>1, <1>2, <1>5, EditWrites
  <2>2. DOMAIN e = DesignFields /\ e.x = d.x /\ e.mass = d.mass /\ e.size = d.size
    BY <2>1 DEF DesignFields, TipWritten
  <2> QED
    BY <1>2, <2>2 DEF IsDesign, DesignFields
<1>6. CASE o.op = "replace_catalog_component"
  <2>1. ReplaceWritten(d, o, e)
    BY <1>1, <1>2, <1>6, EditWrites
  <2>2. PICK mass \in Int \cup {Unknown} : mass = ItemOf(o.item).mass
    BY <1>6, GateCases, ItemMass
  <2>3. /\ DOMAIN e = DesignFields /\ e.x = d.x
        /\ e.mass = [d.mass EXCEPT ![o.target] = mass]
        /\ \E size : e.size = [d.size EXCEPT ![o.target] = size]
    BY <2>1, <2>2 DEF DesignFields, ReplaceWritten
  <2> QED
    BY <1>1, <1>2, <2>3 DEF IsDesign, DesignFields
<1> QED
  BY <1>3, <1>4, <1>5, <1>6, OperationKinds

LEMMA EditKeepsConfirmed ==
  ASSUME NEW d, IsDesign(d), NEW m, NEW o, Valid(d, m, o)
  PROVE  EditedParts(d, o).confirmed = d.confirmed
<1>1. PICK e : e = EditedParts(d, o)
  OBVIOUS
<1>2. \/ TranslateWritten(d, o, e) \/ ResizeWritten(d, o, e)
      \/ TipWritten(d, o, e) \/ ReplaceWritten(d, o, e)
  BY <1>1, DesignShape, OperationKinds, EditWrites
<1>3. e.confirmed = d.confirmed
  BY <1>2 DEF TranslateWritten, ResizeWritten, TipWritten, ReplaceWritten, DesignFields
<1> QED
  BY <1>1, <1>3

\* What an edit that passed the gate leaves as it was, when shared definitions are owned.
LEMMA EditTouchesOwned ==
  ASSUME NEW d, IsDesign(d), NEW m, NEW o, Valid(d, m, o), DefinitionsOwned,
         NEW p, p \in Parts, p \notin Owned(o)
  PROVE  Fingerprint(EditedParts(d, o), p) = Fingerprint(d, p)
<1>1. /\ DOMAIN d = DesignFields /\ DOMAIN d.x = Parts /\ DOMAIN d.mass = Parts
      /\ DOMAIN d.size = Parts
  BY DesignShape DEF IsDesign
<1>2. PICK e : e = EditedParts(d, o)
  OBVIOUS
<1>3. p # o.target /\ o.target \in Parts /\ o.op \in Caps[o.target]
  BY OperationKinds DEF Owned, Valid
<1>4. CASE o.op = "translate_component"
  <2>1. TranslateWritten(d, o, e)
    BY <1>1, <1>2, <1>4, EditWrites
  <2>2. e.x[p] = d.x[p]
    BY <1>1, <1>3, <2>1 DEF TranslateWritten
  <2>3. e.mass = d.mass /\ e.size = d.size /\ e.bore = d.bore /\ e.tip = d.tip
    BY <2>1 DEF TranslateWritten, DesignFields
  <2> QED
    BY <1>2, <2>2, <2>3 DEF Fingerprint
<1>5. CASE o.op = "resize_spar"
  <2>1. ResizeWritten(d, o, e)
    BY <1>1, <1>2, <1>5, EditWrites
  <2>2. e.mass[p] = d.mass[p] /\ e.size[p] = d.size[p]
    BY <1>1, <1>3, <2>1 DEF ResizeWritten
  <2>4. e.x = d.x /\ e.tip = d.tip
    BY <2>1 DEF ResizeWritten, DesignFields
  <2>3. Role[p] # "mount"
    <3> SUFFICES ASSUME Role[p] = "mount" PROVE FALSE
      OBVIOUS
    <3>1. o.target \in Contacts[p]
      BY <1>3, <1>5 DEF DefinitionsOwned, WithCap, WithRole
    <3>2. p \in BearingMounts(o.target)
      BY <3>1 DEF BearingMounts, WithRole
    <3>3. p \in o.mounts
      BY <1>5, <3>2, GateCases DEF ValidResize
    <3> QED
      BY <1>5, <3>3 DEF Owned
  <2> QED
    BY <1>2, <2>2, <2>3, <2>4 DEF Fingerprint
<1>6. CASE o.op = "set_wing_tip_extension"
  <2>1. TipWritten(d, o, e)
    BY <1>1, <1>2, <1>6, EditWrites
  <2>2. /\ p # o.paired /\ o.paired \in Parts /\ o.op \in Caps[o.paired]
        /\ Mirror[o.paired] = o.target \/ Mirror[o.target] = o.paired
    BY <1>6, GateCases DEF Owned, Valid, ValidTip
  <2>3. Def[p] \notin {Def[o.target], Def[o.paired]}
    BY <1>3, <1>6, <2>2 DEF DefinitionsOwned, WithCap
  <2>4. PICK own, one, two : own = Def[p] /\ one = Def[o.target] /\ two = Def[o.paired]
    OBVIOUS
  <2>5. PICK tip : /\ tip = [d.tip EXCEPT ![one] = @ + o.ext]
                   /\ e.tip = [tip EXCEPT ![two] = @ + o.ext]
    BY <2>1, <2>4 DEF TipWritten
  <2>6. /\ DOMAIN e.tip = DOMAIN d.tip
        /\ own \in DOMAIN d.tip => e.tip[own] = d.tip[own]
    BY <2>3, <2>4, <2>5
  <2>7. e.x = d.x /\ e.mass = d.mass /\ e.size = d.size /\ e.bore = d.bore
    BY <2>1 DEF TipWritten, DesignFields
  <2> QED
    BY <1>2, <2>4, <2>6, <2>7 DEF Fingerprint
<1>7. CASE o.op = "replace_catalog_component"
  <2>1. ReplaceWritten(d, o, e)
    BY <1>1, <1>2, <1>7, EditWrites
  <2>2. PICK mass, size : /\ e.mass = [d.mass EXCEPT ![o.target] = mass]
                          /\ e.size = [d.size EXCEPT ![o.target] = size]
                          /\ e.x = d.x /\ e.tip = d.tip /\ e.bore = d.bore
    BY <2>1 DEF ReplaceWritten, DesignFields
  <2>3. e.mass[p] = d.mass[p] /\ e.size[p] = d.size[p]
    BY <1>1, <1>3, <2>2
  <2> QED
    BY <1>2, <2>2, <2>3 DEF Fingerprint
<1> QED
  BY <1>4, <1>5, <1>6, <1>7, OperationKinds

\* Where the screen of the generator says the mass goes, the evaluator finds it.
LEMMA MoveCentres ==
  ASSUME NEW d, IsDesign(d), NEW m, NEW o, Centring(d, m, o)
  PROVE  Evaluate(EditedParts(d, o), m).cg_envelope = "pass"
<1>1. PICK t \in Parts, k \in Int : t = o.target /\ k = o.delta
  BY DEF Centring
<1>2. PICK e : e = EditedParts(d, o)
  OBVIOUS
<1>3. e.x = [d.x EXCEPT ![t] = @ + k] /\ e.mass = d.mass
  <2>1. TranslateWritten(d, o, e) /\ o.axis = "x"
    BY <1>2, DesignShape, EditWrites DEF Centring
  <2> QED
    BY <1>1, <2>1 DEF TranslateWritten, DesignFields
<1>4. d.x \in [Parts -> Int] /\ d.mass \in [Parts -> Int] /\ Com \in [Parts -> Int]
  BY FrameAssumption DEF IsDesign, Centring, Weighed, Known, FrameAssumption
<1>5. PICK term : term = [p \in Parts |-> d.mass[p] * WorldCom(d, p)]
  OBVIOUS
<1>6. term \in [Parts -> Int]
  BY <1>4, <1>5 DEF WorldCom
<1>7. [p \in Parts |-> e.mass[p] * WorldCom(e, p)] = [term EXCEPT ![t] = @ + d.mass[t] * k]
  <2>1. PICK next : next = [p \in Parts |-> e.mass[p] * WorldCom(e, p)]
    OBVIOUS
  <2>2. ASSUME NEW p \in Parts PROVE next[p] = IF p = t THEN term[p] + d.mass[t] * k ELSE term[p]
    <3>1. PICK a \in Int, b \in Int, c \in Int : a = d.mass[p] /\ b = d.x[p] /\ c = Com[p]
      BY <1>4
    <3>2. term[p] = a * (b + c) /\ e.mass[p] = a
      BY <1>3, <1>5, <3>1 DEF WorldCom
    <3>3. next[p] = a * (e.x[p] + c)
      BY <2>1, <3>1, <3>2 DEF WorldCom
    <3>4. CASE p = t
      <4>1. e.x[p] = b + k
        BY <1>3, <1>4, <3>1, <3>4
      <4>2. a * ((b + k) + c) = a * (b + c) + a * k
        OBVIOUS
      <4> QED
        BY <3>1, <3>2, <3>3, <3>4, <4>1, <4>2
    <3>5. CASE p # t
      BY <1>3, <1>4, <3>1, <3>2, <3>3, <3>5
    <3> QED
      BY <3>4, <3>5
  <2> QED
    BY <1>6, <2>1, <2>2
<1>8. PICK total, moment, shift \in Int :
        /\ total = SumOver(d.mass) /\ moment = SumOver(term) /\ shift = d.mass[t] * k
  BY <1>4, <1>6, SumIsInt
<1>9. SumOver([p \in Parts |-> e.mass[p] * WorldCom(e, p)]) = moment + shift
  BY <1>6, <1>7, <1>8, SumShifts
<1>10. Weighed(d) /\ Weighed(e)
  BY <1>3 DEF Centring, Weighed
<1>11. MassProperties(d) = [total |-> total, moment |-> moment]
  BY <1>5, <1>8, <1>10 DEF MassProperties
<1>12. MassProperties(e) = [total |-> total, moment |-> moment + shift]
  BY <1>3, <1>8, <1>9, <1>10 DEF MassProperties
<1>13. InEnvelope([total |-> total, moment |-> moment + shift], m)
  BY <1>1, <1>8, <1>11 DEF Centring, Lands
<1>14. [total |-> total, moment |-> moment + shift] \in [total : Int, moment : Int]
  BY <1>8
<1>15. CgEnvelope(MassProperties(e), m) = "pass"
  BY <1>12, <1>13, <1>14, UnknownAssumption DEF CgEnvelope, PassIf, Known
<1> QED
  BY <1>2, <1>15 DEF Evaluate, Checks

-----------------------------------------------------------------------------
(* Generated candidates.                                                   *)

LEMMA ShortestIsOne ==
  ASSUME NEW S, S \subseteq Int, S # {}
  PROVE  Shortest(S) \in S
<1>1. PICK T : T = {Abs(a) : a \in S}
  OBVIOUS
<1>2. T \subseteq Nat /\ T # {}
  <2>1. \A a \in Int : Abs(a) \in Nat
    BY DEF Abs
  <2> QED
    BY <1>1, <2>1
<1>3. PICK n \in T : \A k \in T : n <= k
  BY <1>2, Least
<1>4. PICK b \in S : Abs(b) = n
  BY <1>1
<1>5. PICK c : c = IF -n \in S THEN -n ELSE n
  OBVIOUS
<1>6. c \in S /\ Abs(c) = n
  BY <1>2, <1>4, <1>5 DEF Abs
<1>7. ASSUME NEW a \in S PROVE Abs(c) < Abs(a) \/ (Abs(c) = Abs(a) /\ c <= a)
  <2>1. n \in Nat /\ n <= Abs(a)
    BY <1>1, <1>2, <1>3
  <2>2. Abs(a) = n => a = n \/ a = -n
    BY <2>1 DEF Abs
  <2>3. Abs(a) = n => c <= a
    BY <1>5, <2>1, <2>2
  <2> QED
    BY <1>6, <2>1, <2>3 DEF Abs
<1> QED
  BY <1>6, <1>7 DEF Shortest

LEMMA NextTubeIsOne ==
  ASSUME NEW S, S # {}, \A i \in S : {i.outer, i.inner} \subseteq Nat
  PROVE  NextTube(S) \in S
<1>1. PICK O : O = {i.outer : i \in S}
  OBVIOUS
<1>2. PICK n \in O : \A k \in O : n <= k
  BY <1>1, Least
<1>3. PICK U : U = {i \in S : i.outer = n}
  OBVIOUS
<1>4. PICK V : V = {i.inner : i \in U}
  OBVIOUS
<1>5. V \subseteq Nat /\ V # {}
  BY <1>1, <1>3, <1>4
<1>6. PICK k \in V : \A v \in V : k <= v
  BY <1>5, Least
<1>7. PICK i \in S : i.outer = n /\ i.inner = k
  BY <1>3, <1>4
<1>8. ASSUME NEW j \in S
      PROVE  i.outer < j.outer \/ (i.outer = j.outer /\ i.inner <= j.inner)
  <2>1. n <= j.outer /\ {n, j.outer, k, j.inner} \subseteq Nat
    BY <1>1, <1>2, <1>7
  <2>2. j.outer = n => k <= j.inner
    BY <1>3, <1>4, <1>6
  <2> QED
    BY <1>7, <2>1, <2>2
<1> QED
  BY <1>7, <1>8 DEF NextTube

\* A candidate whose numbers are numbers and whose move, if it is to centre, does.
CandidateOK(d, m, c) ==
  /\ OpTyped(c.op)
  /\ c.key[2] = "cg" => Centring(d, m, c.op)
CandidatesOK(d, m, s) ==
  /\ s \in Seq({s[i] : i \in DOMAIN s})
  /\ \A i \in DOMAIN s : CandidateOK(d, m, s[i])

LEMMA OKFromSet ==
  ASSUME NEW d, NEW m, NEW T, \A c \in T : CandidateOK(d, m, c), NEW s, s \in Seq(T)
  PROVE  CandidatesOK(d, m, s)
<1>1. PICK n \in Nat : DOMAIN s = 1..n /\ Len(s) = n /\ s = [i \in 1..n |-> s[i]]
                       /\ \A i \in 1..n : s[i] \in T
  OBVIOUS
<1>2. PICK R : R = {s[i] : i \in 1..n}
  OBVIOUS
<1>3. s \in [1..n -> R]
  BY <1>1, <1>2
<1>4. s \in Seq(R)
  BY <1>1, <1>3
<1> QED
  BY <1>1, <1>2, <1>4 DEF CandidatesOK

LEMMA OKToSet ==
  ASSUME NEW d, NEW m, NEW s, CandidatesOK(d, m, s)
  PROVE  \E T : s \in Seq(T) /\ \A c \in T : CandidateOK(d, m, c)
<1>1. PICK T : T = {s[i] : i \in DOMAIN s}
  OBVIOUS
<1> QED
  BY <1>1 DEF CandidatesOK

LEMMA OKConcat ==
  ASSUME NEW d, NEW m, NEW s, NEW t, CandidatesOK(d, m, s), CandidatesOK(d, m, t)
  PROVE  CandidatesOK(d, m, s \o t)
<1>1. PICK S : s \in Seq(S) /\ \A c \in S : CandidateOK(d, m, c)
  BY OKToSet
<1>2. PICK T : t \in Seq(T) /\ \A c \in T : CandidateOK(d, m, c)
  BY OKToSet
<1>3. PICK U : U = S \cup T
  OBVIOUS
<1>4. s \in Seq(U) /\ t \in Seq(U)
  <2>1. S \subseteq U /\ T \subseteq U
    BY <1>3
  <2>2. \A i \in 1..Len(s) : s[i] \in U
    BY <1>1, <2>1
  <2>3. \A i \in 1..Len(t) : t[i] \in U
    BY <1>2, <2>1
  <2> QED
    BY <1>1, <1>2, <2>2, <2>3
<1>5. PICK u : u = s \o t
  OBVIOUS
<1>6. u \in Seq(U)
  BY <1>4, <1>5
<1>7. \A c \in U : CandidateOK(d, m, c)
  BY <1>1, <1>2, <1>3
<1> QED
  BY <1>5, <1>6, <1>7, OKFromSet

LEMMA OKOne ==
  ASSUME NEW d, NEW m, NEW c, CandidateOK(d, m, c)
  PROVE  CandidatesOK(d, m, <<c>>)
<1>1. PICK T : T = {c}
  OBVIOUS
<1>2. PICK s : s = <<c>>
  OBVIOUS
<1>3. s \in Seq(T)
  BY <1>1, <1>2
<1> QED
  BY <1>1, <1>2, <1>3, OKFromSet

LEMMA OKNone ==
  ASSUME NEW d, NEW m
  PROVE  CandidatesOK(d, m, <<>>)
BY DEF CandidatesOK

LEMMA OKSelected ==
  ASSUME NEW d, NEW m, NEW s, NEW keep, CandidatesOK(d, m, s)
  PROVE  CandidatesOK(d, m, Selected(s, keep))
<1>1. PICK T : s \in Seq(T) /\ \A c \in T : CandidateOK(d, m, c)
  BY OKToSet
<1>2. Selected(s, keep) \in Seq(T)
  <2>1. Len(s) \in Nat /\ \A i \in 1..Len(s) : i \in keep => s[i] \in T
    BY <1>1
  <2> QED
    BY <2>1, SelectedFrom
<1>3. PICK u : u = Selected(s, keep)
  OBVIOUS
<1> QED
  BY <1>1, <1>2, <1>3, OKFromSet

LEMMA InOrderFrom ==
  ASSUME NEW S
  PROVE  InOrder(S) \in Seq(S)
<1>1. PICK keep : keep = {i \in DOMAIN Order : Order[i] \in S}
  OBVIOUS
<1>2. \A i \in 1..Len(Order) : i \in keep => Order[i] \in S
  BY <1>1
<1> QED
  BY <1>1, <1>2, OrderLength, SelectedFrom DEF InOrder

LEMMA CgCandidatesOK ==
  ASSUME NEW d, IsDesign(d), NEW m
  PROVE  CandidatesOK(d, m, CgCandidates(d, m, Evaluate(d, m)))
<1>1. PICK w : w = MassProperties(d)
  OBVIOUS
<1>2. PICK moves : moves = [p \in Movable(d, m) |-> Moves(d, w, m, p)]
  OBVIOUS
<1>3. CASE Evaluate(d, m).cg_envelope # "fail"
  BY <1>3, OKNone DEF CgCandidates
<1>4. CASE Evaluate(d, m).cg_envelope = "fail"
  <2>1. CgCandidates(d, m, Evaluate(d, m)) = Balancing(moves)
    BY <1>1, <1>2, <1>4 DEF CgCandidates
  <2>2. PICK S : S = {p \in DOMAIN moves : moves[p] # {}}
    OBVIOUS
  <2>3. PICK able : able = InOrder(S)
    OBVIOUS
  <2>4. PICK n \in Nat : DOMAIN able = 1..n /\ \A i \in 1..n : able[i] \in S
    BY <2>3, InOrderFrom
  <2>5. Weighed(d)
    <3>1. CgEnvelope(w, m) = "fail"
      BY <1>1, <1>4 DEF Evaluate, Checks
    <3>2. Known(w)
      BY <3>1 DEF CgEnvelope
    <3> QED
      BY <1>1, <3>2 DEF MassProperties, Known
  <2>6. ASSUME NEW p \in S PROVE Centring(d, m, MoveOf(p, Shortest(moves[p])).op)
    <3>1. /\ p \in Movable(d, m) /\ moves[p] = Moves(d, w, m, p) /\ moves[p] # {}
      BY <1>2, <2>2
    <3>2. p \in Parts /\ Options(p) \subseteq Int
      <4>1. p \in DOMAIN Corridors /\ Corridor(p) = Corridors[p] /\ p \in Parts
        BY <3>1 DEF Movable, Corridor, WithCap, Known
      <4> QED
        BY <4>1, FrameAssumption DEF FrameAssumption, Options
    <3>3. d.x[p] \in Int
      BY <3>2 DEF IsDesign
    <3>4. moves[p] \subseteq Int
      BY <3>1, <3>2, <3>3 DEF Moves
    <3>5. PICK delta \in moves[p] : delta = Shortest(moves[p])
      BY <3>1, <3>4, ShortestIsOne
    <3>6. Lands(d, w, m, p, delta)
      BY <3>1, <3>5 DEF Moves
    <3>7. PICK o : o = MoveOf(p, delta).op
      OBVIOUS
    <3>8. /\ o.op = "translate_component" /\ o.axis = "x" /\ o.target = p /\ o.delta = delta
      BY <3>7 DEF MoveOf
    <3>9. Centring(d, m, o)
      BY <1>1, <2>5, <3>2, <3>4, <3>5, <3>6, <3>8 DEF Centring
    <3> QED
      BY <3>5, <3>7, <3>9
  <2>7. PICK T : T = {MoveOf(p, Shortest(moves[p])) : p \in S}
    OBVIOUS
  <2>8. \A c \in T : CandidateOK(d, m, c)
    <3> SUFFICES ASSUME NEW p \in S PROVE CandidateOK(d, m, MoveOf(p, Shortest(moves[p])))
      BY <2>7
    <3>1. PICK o : o = MoveOf(p, Shortest(moves[p])).op
      OBVIOUS
    <3>2. Centring(d, m, o)
      BY <2>6, <3>1
    <3>3. OpTyped(o)
      BY <3>2 DEF Centring, OpTyped
    <3> QED
      BY <3>1, <3>2, <3>3 DEF CandidateOK
  <2>9. PICK each : each = [i \in DOMAIN able |-> MoveOf(able[i], Shortest(moves[able[i]]))]
    OBVIOUS
  <2>10. each \in Seq(T)
    <3>1. \A i \in 1..n : MoveOf(able[i], Shortest(moves[able[i]])) \in T
      BY <2>4, <2>7
    <3>2. each \in [1..n -> T]
      BY <2>4, <2>9, <3>1
    <3> QED
      BY <3>2
  <2>11. Balancing(moves) = each
    BY <2>2, <2>3, <2>9 DEF Balancing
  <2> QED
    BY <2>1, <2>8, <2>10, <2>11, OKFromSet
<1> QED
  BY <1>3, <1>4

LEMMA SparCandidatesOK ==
  ASSUME NEW d, NEW m, NEW eval
  PROVE  CandidatesOK(d, m, SparCandidates(d, m, eval))
<1>1. PICK larger : larger = Larger(d)
  OBVIOUS
<1>2. PICK p, i : p = FirstOf(WithCap("resize_spar")) /\ i = NextTube(larger)
  OBVIOUS
<1>3. \/ SparCandidates(d, m, eval) = <<>>
      \/ larger # {} /\ SparCandidates(d, m, eval) = <<ResizeTo(p, i)>>
  BY <1>1, <1>2 DEF SparCandidates
<1>4. ASSUME larger # {} PROVE CandidateOK(d, m, ResizeTo(p, i))
  <2>1. \A j \in larger : {j.outer, j.inner} \subseteq Nat
    BY <1>1, CatalogAssumption DEF CatalogAssumption, Larger, Range1
  <2>2. {i.outer, i.inner} \subseteq Nat
    BY <1>2, <1>4, <2>1, NextTubeIsOne
  <2>3. PICK c : c = ResizeTo(p, i)
    OBVIOUS
  <2>4. c.key[2] = "resize" /\ c.op.op = "resize_spar"
        /\ c.op.outer = i.outer /\ c.op.inner = i.inner
    BY <2>3 DEF ResizeTo
  <2> QED
    BY <2>2, <2>3, <2>4 DEF CandidateOK, OpTyped
<1>5. PICK c : c = ResizeTo(p, i)
  OBVIOUS
<1> QED
  BY <1>3, <1>4, <1>5, OKNone, OKOne

LEMMA SwapOK ==
  ASSUME NEW d, NEW m, NEW prefer
  PROVE  CandidatesOK(d, m, Swap(d, prefer))
<1>1. \/ Swap(d, prefer) = <<>>
      \/ \E p, id : Swap(d, prefer) =
           <<[key |-> <<p, "swap", id>>,
              op |-> [op |-> "replace_catalog_component", target |-> p, item |-> id]]>>
  BY DEF Swap
<1>2. ASSUME NEW p, NEW id,
             NEW c, c = [key |-> <<p, "swap", id>>,
                         op |-> [op |-> "replace_catalog_component", target |-> p, item |-> id]]
      PROVE  CandidatesOK(d, m, <<c>>)
  <2>1. c.key[2] = "swap" /\ c.op.op = "replace_catalog_component"
    BY <1>2
  <2>2. CandidateOK(d, m, c)
    BY <2>1 DEF CandidateOK, OpTyped
  <2> QED
    BY <2>2, OKOne
<1> QED
  BY <1>1, <1>2, OKNone

LEMMA SpanCandidatesOK ==
  ASSUME NEW d, NEW m, NEW eval
  PROVE  CandidatesOK(d, m, SpanCandidates(d, eval))
<1>1. \/ SpanCandidates(d, eval) = <<>>
      \/ \E p, q : SpanCandidates(d, eval) =
           <<[key |-> <<p, "tip">>,
              op |-> [op |-> "set_wing_tip_extension", target |-> p, ext |-> TipStep,
                      paired |-> q]]>>
  BY DEF SpanCandidates
<1>2. ASSUME NEW p, NEW q,
             NEW c, c = [key |-> <<p, "tip">>,
                         op |-> [op |-> "set_wing_tip_extension", target |-> p, ext |-> TipStep,
                                 paired |-> q]]
      PROVE  CandidatesOK(d, m, <<c>>)
  <2>1. c.key[2] = "tip" /\ c.op.op = "set_wing_tip_extension"
    BY <1>2
  <2>2. CandidateOK(d, m, c)
    BY <2>1 DEF CandidateOK, OpTyped
  <2> QED
    BY <2>2, OKOne
<1> QED
  BY <1>1, <1>2, OKNone

\* Whatever is generated for a design.
LEMMA GenerateOK ==
  ASSUME NEW d, IsDesign(d), NEW m
  PROVE  CandidatesOK(d, m, Generate(d, m, Evaluate(d, m)))
<1>1. PICK eval : eval = Evaluate(d, m)
  OBVIOUS
<1>2. PICK a, b, c, e, f :
        /\ a = CgCandidates(d, m, eval) /\ b = SparCandidates(d, m, eval)
        /\ c = EnergyCandidates(d, eval) /\ e = MassCandidates(d, eval)
        /\ f = SpanCandidates(d, eval)
  OBVIOUS
<1>3. CandidatesOK(d, m, a) /\ CandidatesOK(d, m, b) /\ CandidatesOK(d, m, f)
  BY <1>1, <1>2, CgCandidatesOK, SparCandidatesOK, SpanCandidatesOK
<1>4. CandidatesOK(d, m, c) /\ CandidatesOK(d, m, e)
  BY <1>2, SwapOK, OKNone DEF EnergyCandidates, MassCandidates
<1>5. PICK s : s = a \o b \o c \o e \o f
  OBVIOUS
<1>6. CandidatesOK(d, m, s)
  <2>1. CandidatesOK(d, m, a \o b)
    BY <1>3, OKConcat
  <2>2. CandidatesOK(d, m, a \o b \o c)
    BY <1>4, <2>1, OKConcat
  <2>3. CandidatesOK(d, m, a \o b \o c \o e)
    BY <1>4, <2>2, OKConcat
  <2> QED
    BY <1>3, <1>5, <2>3, OKConcat
<1>7. PICK kept : kept = Earliest(s)
  OBVIOUS
<1>8. CandidatesOK(d, m, kept)
  BY <1>6, <1>7, OKSelected DEF Earliest
<1>9. PICK T : kept \in Seq(T) /\ \A x \in T : CandidateOK(d, m, x)
  BY <1>8, OKToSet
<1>10. PICK u : u = [i \in {j \in DOMAIN kept : j <= MAX_CANDIDATES} |-> kept[i]]
  OBVIOUS
<1>11. u \in Seq(T)
  <2>1. PICK n \in Nat : DOMAIN kept = 1..n /\ \A i \in 1..n : kept[i] \in T
    BY <1>9
  <2>2. PICK k \in Nat : k = IF n <= MAX_CANDIDATES THEN n ELSE MAX_CANDIDATES
    BY DEF MAX_CANDIDATES
  <2>3. {j \in DOMAIN kept : j <= MAX_CANDIDATES} = 1..k
    BY <2>1, <2>2 DEF MAX_CANDIDATES
  <2>4. u \in [1..k -> T]
    BY <1>10, <2>1, <2>2, <2>3
  <2> QED
    BY <2>4
<1>12. Generate(d, m, eval) = u
  BY <1>2, <1>5, <1>7, <1>10 DEF Generate
<1> QED
  BY <1>1, <1>9, <1>11, <1>12, OKFromSet

-----------------------------------------------------------------------------
(* The steps of the loop.                                                  *)

\* What the gate lets through of a list, as proposals.
LEMMA PassingProposals ==
  ASSUME NEW d, NEW m, NEW s, CandidatesOK(d, m, s),
         NEW keep, keep = {i \in DOMAIN s : Valid(d, m, s[i].op)},
         NEW own, own = Deterministic(Selected(s, keep))
  PROVE  \E T : own \in Seq(T) /\ \A c \in T : Waiting(d, m, c)
<1>1. PICK S : S = {s[i] : i \in {j \in DOMAIN s : Valid(d, m, s[j].op)}}
  OBVIOUS
<1>2. Len(s) \in Nat /\ DOMAIN s = 1..Len(s)
  BY DEF CandidatesOK
<1>3. PICK u : u = Selected(s, keep)
  OBVIOUS
<1>4. u \in Seq(S)
  <2>1. \A i \in 1..Len(s) : i \in keep => s[i] \in S
    BY <1>1
  <2> QED
    BY <1>2, <1>3, <2>1, SelectedFrom
<1>5. PICK T : T = {Proposal(c.key, c.op, "deterministic") : c \in S}
  OBVIOUS
<1>6. own \in Seq(T)
  <2>1. PICK n \in Nat : DOMAIN u = 1..n /\ \A i \in 1..n : u[i] \in S
    BY <1>4
  <2>2. own = [i \in 1..n |-> Proposal(u[i].key, u[i].op, "deterministic")]
    BY <1>3, <2>1 DEF Deterministic
  <2>3. own \in [1..n -> T]
    BY <1>5, <2>1, <2>2
  <2> QED
    BY <2>3
<1>7. ASSUME NEW c \in S PROVE Waiting(d, m, Proposal(c.key, c.op, "deterministic"))
  <2>1. CandidateOK(d, m, c) /\ Valid(d, m, c.op)
    BY <1>1, <1>2 DEF CandidatesOK
  <2>2. PICK p : p = Proposal(c.key, c.op, "deterministic")
    OBVIOUS
  <2>3. /\ DOMAIN p = CardFields /\ p.id = c.key /\ p.op = c.op /\ p.state = "proposed"
        /\ p.cand = Unknown
    BY <2>2 DEF Proposal, CardFields
  <2> QED
    BY <2>1, <2>2, <2>3 DEF Waiting, Sound, CandidateOK
<1>8. \A c \in T : Waiting(d, m, c)
  BY <1>5, <1>7
<1> QED
  BY <1>6, <1>8

LEMMA QueueFromSet ==
  ASSUME NEW d, NEW m, NEW T, \A c \in T : Waiting(d, m, c), NEW q, q \in Seq(T)
  PROVE  QueueOK(d, m, q)
<1>1. PICK n \in Nat : DOMAIN q = 1..n /\ q = [i \in 1..n |-> q[i]]
                       /\ \A i \in 1..n : q[i] \in T
  OBVIOUS
<1>2. PICK R : R = Range1(q) /\ R = {q[i] : i \in 1..n}
  BY <1>1 DEF Range1
<1>3. q \in [1..n -> R]
  BY <1>1, <1>2
<1>4. q \in Seq(R)
  BY <1>3
<1> QED
  BY <1>1, <1>2, <1>4 DEF QueueOK

LEMMA ProviderProposal ==
  ASSUME NEW d, NEW m, NEW o \in ProviderOps, Valid(d, m, o)
  PROVE  Waiting(d, m, Proposal(<<o.target, "provider">>, o, "provider"))
<1>1. OpTyped(o)
  <2>1. o \in Operations
    BY InputsAssumption DEF InputsAssumption
  <2> QED
    BY <2>1 DEF Operations, OpTyped
<1>2. PICK p : p = Proposal(<<o.target, "provider">>, o, "provider")
  OBVIOUS
<1>3. /\ DOMAIN p = CardFields /\ p.id[2] = "provider" /\ p.op = o /\ p.state = "proposed"
      /\ p.cand = Unknown
  BY <1>2 DEF Proposal, CardFields
<1> QED
  BY <1>1, <1>2, <1>3 DEF Waiting, Sound

LEMMA ProposeQueues ==
  ASSUME IsDesign(design), Propose
  PROVE  QueueOK(design, mission, queue')
<1>1. PICK s : s = Generate(design, mission, Eval(design))
  OBVIOUS
<1>2. CandidatesOK(design, mission, s)
  BY <1>1, GenerateOK DEF Eval
<1>3. PICK keep : keep = {i \in DOMAIN s : Valid(design, mission, s[i].op)}
  OBVIOUS
<1>4. PICK own : own = Deterministic(Selected(s, keep))
  OBVIOUS
<1>5. Queue(own)
  BY <1>1, <1>3, <1>4 DEF Propose, Answer, Passing
<1>6. PICK T : own \in Seq(T) /\ \A c \in T : Waiting(design, mission, c)
  BY <1>2, <1>3, <1>4, PassingProposals
<1>7. CASE queue' = own
  BY <1>6, <1>7, QueueFromSet
<1>8. CASE queue' # own
  <2>1. PICK o \in ProviderOps :
          /\ Valid(design, mission, o)
          /\ queue' = Append(own, Proposal(<<o.target, "provider">>, o, "provider"))
    BY <1>5, <1>8 DEF Queue
  <2>2. PICK p : p = Proposal(<<o.target, "provider">>, o, "provider")
    OBVIOUS
  <2>3. Waiting(design, mission, p)
    BY <2>1, <2>2, ProviderProposal
  <2>4. PICK U : U = T \cup {p}
    OBVIOUS
  <2>5. PICK q : q = queue'
    OBVIOUS
  <2>6. q = Append(own, p)
    BY <2>1, <2>2, <2>5
  <2>7. own \in Seq(U) /\ p \in U
    <3>1. \A i \in 1..Len(own) : own[i] \in U
      BY <1>6, <2>4
    <3> QED
      BY <1>6, <2>4, <3>1
  <2>8. q \in Seq(U)
    BY <2>6, <2>7
  <2>9. \A c \in U : Waiting(design, mission, c)
    BY <1>6, <2>3, <2>4
  <2> QED
    BY <2>5, <2>8, <2>9, QueueFromSet
<1> QED
  BY <1>7, <1>8

\* A preview leaves a card that is ready exactly when it is feasible.
LEMMA StagedIsPreviewed ==
  ASSUME NEW d, d = base, NEW c, Waiting(d, mission, c), NEW s, s = Staged(c)
  PROVE  Previewed(d, mission, s)
<1>1. PICK parts : parts = EditedParts(d, c.op)
  OBVIOUS
<1>2. PICK cad : cad = ApplyEdit(d, c.op)
  OBVIOUS
<1>3. cad.parts = parts
  BY <1>1, <1>2 DEF ApplyEdit
<1>4. DOMAIN c = CardFields /\ Sound(d, mission, c) /\ c.cand = Unknown /\ c.state = "proposed"
  BY DEF Waiting, Sound
<1>5. CASE cad.ok
  <2>1. PICK eval : eval = Evaluate(parts, mission)
    OBVIOUS
  <2>2. s = Evaluations(c, parts, Eval(d), eval)
    BY <1>2, <1>3, <1>5, <2>1 DEF Staged, Built, Eval
  <2>3. PICK was, gain : s = [c EXCEPT !.base = was, !.cand = eval, !.after = parts,
                                 !.gain = gain,
                                 !.state = IF Blocking(eval) = {} THEN "review_ready" ELSE "blocked"]
    BY <2>2 DEF Evaluations
  <2>4. /\ DOMAIN s = CardFields /\ s.id = c.id /\ s.op = c.op /\ s.cand = eval
        /\ s.after = parts
        /\ s.state = IF Blocking(eval) = {} THEN "review_ready" ELSE "blocked"
    BY <1>4, <2>3 DEF CardFields
  <2>5. Known(eval)
    BY <2>1, EvaluationKnown
  <2> QED
    BY <1>1, <1>4, <2>1, <2>4, <2>5
    DEF Previewed, Sound, Evaluated, Feasible, VerifiedFeasible
<1>6. CASE ~cad.ok
  <2>1. s = [c EXCEPT !.state = "blocked"]
    BY <1>2, <1>6 DEF Staged, Built
  <2>2. /\ DOMAIN s = CardFields /\ s.id = c.id /\ s.op = c.op /\ s.cand = Unknown
        /\ s.state = "blocked"
    BY <1>4, <2>1 DEF CardFields
  <2> QED
    BY <1>4, <2>2 DEF Previewed, Sound, Evaluated, Feasible, Known
<1> QED
  BY <1>5, <1>6

LEMMA StaleIsPreviewed ==
  ASSUME NEW d, NEW m, NEW c, Waiting(d, m, c), NEW s, s = [c EXCEPT !.state = "stale"]
  PROVE  Previewed(d, m, s)
<1>1. /\ DOMAIN s = CardFields /\ s.id = c.id /\ s.op = c.op /\ s.cand = Unknown
      /\ s.state = "stale"
  BY DEF Waiting, Sound, CardFields
<1> QED
  BY <1>1 DEF Waiting, Previewed, Sound, Evaluated, Feasible, Known

LEMMA CardsFromSet ==
  ASSUME NEW d, NEW m, NEW T, \A c \in T : Previewed(d, m, c), NEW s, s \in Seq(T)
  PROVE  CardsOK(d, m, s)
<1>1. PICK n \in Nat : DOMAIN s = 1..n /\ s = [i \in 1..n |-> s[i]]
                       /\ \A i \in 1..n : s[i] \in T
  OBVIOUS
<1>2. PICK R : R = Range1(s) /\ R = {s[i] : i \in 1..n}
  BY <1>1 DEF Range1
<1>3. s \in [1..n -> R]
  BY <1>1, <1>2
<1>4. s \in Seq(R)
  BY <1>3
<1> QED
  BY <1>1, <1>2, <1>4 DEF CardsOK

LEMMA InitInv == Init => RecommendationInv
<1> SUFFICES ASSUME Init PROVE RecommendationInv
  OBVIOUS
<1>1. /\ IsDesign(design) /\ base = design /\ queue = <<>> /\ cards = <<>>
      /\ current = FALSE /\ settled = FALSE /\ stage = "idle"
  BY InputsAssumption DEF Init, InputsAssumption
<1>2. QueueOK(base, mission, queue) /\ CardsOK(base, mission, cards)
  BY <1>1 DEF QueueOK, CardsOK
<1> QED
  BY <1>1, <1>2 DEF RecommendationInv

LEMMA ProposeStep == ASSUME RecommendationInv, Propose PROVE RecommendationInv'
<1>1. /\ base' = design /\ current' = TRUE /\ cards' = <<>> /\ stage' = "proposed"
      /\ mission' = mission /\ design' = design /\ settled' = settled
  BY DEF Propose
<1>2. IsDesign(design)
  BY DEF RecommendationInv
<1>3. QueueOK(design, mission, queue')
  BY <1>2, ProposeQueues
<1>4. QueueOK(base', mission', queue')
  BY <1>1, <1>3
<1>5. CardsOK(base', mission', cards')
  BY <1>1 DEF CardsOK
<1>6. settled => VerifiedFeasible(Eval(design))
  BY DEF RecommendationInv
<1> QED
  BY <1>1, <1>2, <1>4, <1>5, <1>6 DEF RecommendationInv, Eval

LEMMA PreviewStep == ASSUME RecommendationInv, Preview PROVE RecommendationInv'
<1>1. /\ stage = "proposed" /\ queue # <<>> /\ queue' = Tail(queue)
      /\ cards' = Append(cards, IF current THEN Staged(Head(queue))
                                ELSE [Head(queue) EXCEPT !.state = "stale"])
      /\ UNCHANGED <<mission, design, base, current, stage, settled>>
  BY DEF Preview
<1>2. QueueOK(base, mission, queue) /\ CardsOK(base, mission, cards)
  BY DEF RecommendationInv
<1>3. PICK Q, q : /\ Q = Range1(queue) /\ q = queue /\ q \in Seq(Q) /\ q # <<>>
                  /\ \A c \in Q : Waiting(base, mission, c)
  BY <1>1, <1>2 DEF QueueOK, Range1
<1>4. Head(q) \in Q /\ Tail(q) \in Seq(Q)
  BY <1>3
<1>5. QueueOK(base, mission, queue')
  <2>1. PICK r : r = Tail(q)
    OBVIOUS
  <2> QED
    BY <1>1, <1>3, <1>4, <2>1, QueueFromSet
<1>6. PICK c : c = Head(q) /\ Waiting(base, mission, c)
  BY <1>3, <1>4
<1>7. PICK s : s = IF current THEN Staged(c) ELSE [c EXCEPT !.state = "stale"]
  OBVIOUS
<1>8. Previewed(base, mission, s)
  <2>1. PICK d : d = base
    OBVIOUS
  <2>2. CASE current
    <3>1. s = Staged(c)
      BY <1>7, <2>2
    <3> QED
      BY <1>6, <2>1, <3>1, StagedIsPreviewed
  <2>3. CASE ~current
    <3>1. s = [c EXCEPT !.state = "stale"]
      BY <1>7, <2>3
    <3> QED
      BY <1>6, <3>1, StaleIsPreviewed
  <2> QED
    BY <2>2, <2>3
<1>9. CardsOK(base, mission, cards')
  <2>1. PICK S, v : /\ S = Range1(cards) /\ v = cards /\ v \in Seq(S)
                    /\ \A x \in S : Previewed(base, mission, x)
    BY <1>2 DEF CardsOK, Range1
  <2>2. PICK U : U = S \cup {s}
    OBVIOUS
  <2>3. v \in Seq(U) /\ s \in U
    <3>1. \A i \in 1..Len(v) : v[i] \in U
      BY <2>1, <2>2
    <3> QED
      BY <2>1, <2>2, <3>1
  <2>4. PICK u : u = Append(v, s)
    OBVIOUS
  <2>5. u \in Seq(U) /\ \A x \in U : Previewed(base, mission, x)
    BY <1>8, <2>1, <2>2, <2>3, <2>4
  <2>6. cards' = u
    BY <1>1, <1>3, <1>6, <1>7, <2>1, <2>4
  <2> QED
    BY <2>5, <2>6, CardsFromSet
<1> QED
  BY <1>1, <1>5, <1>9 DEF RecommendationInv, Eval

\* A ranking is the cards again, none behind a worse one.
LEMMA RankingKeeps ==
  ASSUME NEW d, NEW m, NEW s, CardsOK(d, m, s), NEW r \in Rankings(s)
  PROVE  CardsOK(d, m, r) /\ Ranked(r)
<1>1. PICK n \in Nat : DOMAIN s = 1..n
  BY DEF CardsOK
<1>2. PICK place \in Bijection(DOMAIN s, DOMAIN s) :
        /\ r = [i \in DOMAIN s |-> s[place[i]]]
        /\ \A j \in DOMAIN s : \A i \in 1..(j - 1) : ~Better(s[place[j]], s[place[i]])
  BY DEF Rankings
<1>3. place \in [1..n -> 1..n]
  BY <1>1, <1>2 DEF Bijection, Injection
<1>4. PICK T : T = {s[i] : i \in DOMAIN s}
  OBVIOUS
<1>5. r \in Seq(T)
  <2>1. r \in [1..n -> T]
    BY <1>1, <1>2, <1>3, <1>4
  <2> QED
    BY <2>1
<1>6. \A x \in T : Previewed(d, m, x)
  BY <1>4 DEF CardsOK
<1>7. Ranked(r)
  <2> SUFFICES ASSUME NEW j \in DOMAIN r, NEW i \in 1..(j - 1) PROVE ~Better(r[j], r[i])
    BY DEF Ranked
  <2>1. j \in 1..n /\ i \in 1..n
    BY <1>1, <1>2
  <2> QED
    BY <1>1, <1>2, <2>1
<1> QED
  BY <1>5, <1>6, <1>7, CardsFromSet

LEMMA FinaliseStep == ASSUME RecommendationInv, Finalise PROVE RecommendationInv'
<1>1. /\ cards' \in Rankings(cards) /\ stage' = "shown"
      /\ UNCHANGED <<mission, design, base, current, queue, settled>>
  BY DEF Finalise
<1>2. CardsOK(base, mission, cards)
  BY DEF RecommendationInv
<1>3. PICK r \in Rankings(cards) : r = cards'
  BY <1>1
<1>4. CardsOK(base, mission, r) /\ Ranked(r)
  BY <1>2, RankingKeeps
<1> QED
  BY <1>1, <1>3, <1>4 DEF RecommendationInv, Eval

\* What an acceptance makes the active design.
LEMMA AcceptTakes ==
  ASSUME RecommendationInv, Accept
  PROVE  \E i \in DOMAIN cards :
           /\ design' = cards[i].after /\ cards[i].after = EditedParts(design, cards[i].op)
           /\ Valid(design, mission, cards[i].op) /\ OpTyped(cards[i].op)
           /\ VerifiedFeasible(Evaluate(cards[i].after, mission))
<1>1. PICK i \in DOMAIN cards : cards[i].state = "review_ready" /\ design' = cards[i].after
  BY DEF Accept
<1>2. i \in DOMAIN cards /\ base = design /\ Previewed(base, mission, cards[i])
  BY <1>1 DEF Accept, RecommendationInv, CardsOK
<1>3. Feasible(cards[i])
  BY <1>1, <1>2 DEF Previewed
<1>4. /\ cards[i].after = EditedParts(base, cards[i].op)
      /\ cards[i].cand = Evaluate(cards[i].after, mission) /\ VerifiedFeasible(cards[i].cand)
      /\ Valid(base, mission, cards[i].op) /\ OpTyped(cards[i].op)
  BY <1>2, <1>3 DEF Previewed, Feasible, Sound
<1> QED
  BY <1>1, <1>2, <1>4

LEMMA AcceptStep == ASSUME RecommendationInv, Accept PROVE RecommendationInv'
<1>1. /\ current' = FALSE /\ settled' = TRUE
      /\ UNCHANGED <<mission, base, queue, cards, stage>>
  BY DEF Accept
<1>2. PICK i \in DOMAIN cards :
        /\ design' = cards[i].after /\ cards[i].after = EditedParts(design, cards[i].op)
        /\ Valid(design, mission, cards[i].op) /\ OpTyped(cards[i].op)
        /\ VerifiedFeasible(Evaluate(cards[i].after, mission))
  BY AcceptTakes
<1>3. IsDesign(design)
  BY DEF RecommendationInv
<1>4. IsDesign(design')
  <2>1. PICK o : o = cards[i].op
    OBVIOUS
  <2> QED
    BY <1>2, <1>3, <2>1, EditKeepsDesign
<1> QED
  BY <1>1, <1>2, <1>4 DEF RecommendationInv, Eval

LEMMA ConfirmStep == ASSUME RecommendationInv, Confirm PROVE RecommendationInv'
<1>1. PICK flags \in {{"units", "frame", "reconstruction"}, {"units", "frame"}},
           entries \in {{}} \cup {{e} : e \in ClaimEntries} :
        design' = [design EXCEPT
                    !.confirmed = flags,
                    !.mass = [p \in Parts |->
                       IF \E e \in entries : e.part = p
                       THEN (CHOOSE e \in entries : e.part = p).mass ELSE design.mass[p]]]
  BY DEF Confirm
<1>2. IsDesign(design)
  BY DEF RecommendationInv
<1>3. PICK mass : mass = [p \in Parts |->
                       IF \E e \in entries : e.part = p
                       THEN (CHOOSE e \in entries : e.part = p).mass ELSE design.mass[p]]
  OBVIOUS
<1>4. mass \in [Parts -> Int \cup {Unknown}]
  <2>1. \A e \in entries : e.mass \in Int
    BY <1>1, InputsAssumption DEF InputsAssumption
  <2>2. ASSUME NEW p \in Parts PROVE mass[p] \in Int \cup {Unknown}
    <3>1. CASE \E e \in entries : e.part = p
      <4>1. (CHOOSE e \in entries : e.part = p) \in entries
        BY <3>1
      <4> QED
        BY <1>3, <2>1, <3>1, <4>1
    <3>2. CASE ~\E e \in entries : e.part = p
      BY <1>2, <1>3, <3>2 DEF IsDesign
    <3> QED
      BY <3>1, <3>2
  <2> QED
    BY <1>3, <2>2
<1>5. design' = [design EXCEPT !.confirmed = flags, !.mass = mass]
  BY <1>1, <1>3
<1>6. IsDesign(design')
  BY <1>2, <1>4, <1>5 DEF IsDesign
<1>7. /\ current' = FALSE /\ settled' = FALSE
      /\ UNCHANGED <<mission, base, queue, cards, stage>>
  BY DEF Confirm
<1> QED
  BY <1>6, <1>7 DEF RecommendationInv

LEMMA InvStep == RecommendationInv /\ [Next]_vars => RecommendationInv'
<1> SUFFICES ASSUME RecommendationInv, [Next]_vars PROVE RecommendationInv'
  OBVIOUS
<1>1. CASE UNCHANGED vars
  BY <1>1 DEF vars, RecommendationInv, Eval
<1> QED
  BY <1>1, ProposeStep, PreviewStep, FinaliseStep, AcceptStep, ConfirmStep DEF Next

\* The invariant holds of every loop.
THEOREM RecommendationInvariant == Spec => []RecommendationInv
BY InitInv, InvStep, PTL DEF Spec

\* The screen in the generator, the CAD port and the evaluator agree on where a moved mass ends up
\* (candidates.py _cg_candidates): a card that is to centre the aircraft centres it.
THEOREM CentringCardsCentre == Spec => []CgCardCentres
<1>1. RecommendationInv => CgCardCentres
  <2> SUFFICES ASSUME RecommendationInv, NEW i \in DOMAIN cards,
                      cards[i].id[2] = "cg", Evaluated(cards[i])
               PROVE  cards[i].cand.cg_envelope = "pass"
    BY DEF CgCardCentres
  <2>1. PICK c, o, d : c = cards[i] /\ o = c.op /\ d = base
    OBVIOUS
  <2>2. Previewed(d, mission, c) /\ IsDesign(d)
    BY <2>1 DEF RecommendationInv, CardsOK
  <2>3. Centring(d, mission, o) /\ c.cand = Evaluate(EditedParts(d, o), mission)
    BY <2>1, <2>2 DEF Previewed, Sound
  <2> QED
    BY <2>1, <2>2, <2>3, MoveCentres
<1> QED
  BY <1>1, RecommendationInvariant, PTL

\* The design that an acceptance left is feasible and every part of it weighed, until a user
\* confirms something else.
THEOREM AcceptedDesignIsFeasible == Spec => []AcceptedIsFeasible
<1>1. RecommendationInv => AcceptedIsFeasible
  BY FeasibleIsWeighed DEF RecommendationInv, AcceptedIsFeasible, Eval
<1> QED
  BY <1>1, RecommendationInvariant, PTL

\* A page that shows a blocked card leaves out no ready one (ranking.py sort_key).
THEOREM ReadyComesFirst == Spec => []ReadyIsDisplayed
<1>1. RecommendationInv => ReadyIsDisplayed
  <2> SUFFICES ASSUME RecommendationInv, stage = "shown",
                      NEW i \in Displayed, cards[i].state = "blocked",
                      NEW j \in DOMAIN cards \ Displayed, cards[j].state = "review_ready"
               PROVE  FALSE
    BY DEF ReadyIsDisplayed
  <2>1. PICK n \in Nat : DOMAIN cards = 1..n
    BY DEF RecommendationInv, CardsOK
  <2>2. i \in 1..(j - 1) /\ j \in DOMAIN cards /\ i \in DOMAIN cards
    BY <2>1, InputsAssumption DEF Displayed, InputsAssumption
  <2>3. ~Better(cards[j], cards[i])
    BY <2>2 DEF RecommendationInv, Ranked
  <2>4. Feasible(cards[j]) /\ ~Feasible(cards[i])
    BY <2>2 DEF RecommendationInv, CardsOK, Previewed
  <2>5. ~Recovers(cards[i])
    BY <2>4 DEF Recovers
  <2>6. Better(cards[j], cards[i])
    BY <2>4, <2>5 DEF Better
  <2> QED
    BY <2>3, <2>6
<1> QED
  BY <1>1, RecommendationInvariant, PTL

\* An acceptance changes the parts its operation owns and nothing else of the design that is
\* active then, in every frame in which the definitions that an edit changes are those parts' own.
THEOREM AcceptedChangesAreOwned == DefinitionsOwned => (Spec => AcceptTouchesOwned)
<1> SUFFICES ASSUME DefinitionsOwned PROVE Spec => AcceptTouchesOwned
  OBVIOUS
<1>1. RecommendationInv /\ [Next]_vars =>
        [ Accept =>
            \E i \in DOMAIN cards :
              /\ design' = cards[i].after /\ design'.confirmed = design.confirmed
              /\ Owned(cards[i].op) \cap Locked(mission) = {}
              /\ \A p \in Parts \ Owned(cards[i].op) :
                   Fingerprint(design', p) = Fingerprint(design, p) ]_vars
  <2> SUFFICES ASSUME RecommendationInv, Accept
               PROVE  \E i \in DOMAIN cards :
                        /\ design' = cards[i].after /\ design'.confirmed = design.confirmed
                        /\ Owned(cards[i].op) \cap Locked(mission) = {}
                        /\ \A p \in Parts \ Owned(cards[i].op) :
                             Fingerprint(design', p) = Fingerprint(design, p)
    OBVIOUS
  <2>1. PICK i \in DOMAIN cards :
          /\ design' = cards[i].after /\ cards[i].after = EditedParts(design, cards[i].op)
          /\ Valid(design, mission, cards[i].op)
    BY AcceptTakes
  <2>2. PICK o : o = cards[i].op
    OBVIOUS
  <2>3. IsDesign(design) /\ Valid(design, mission, o) /\ design' = EditedParts(design, o)
    BY <2>1, <2>2 DEF RecommendationInv
  <2>4. design'.confirmed = design.confirmed
    BY <2>3, EditKeepsConfirmed
  <2>5. Owned(o) \cap Locked(mission) = {}
    BY <2>3 DEF Valid
  <2>6. \A p \in Parts \ Owned(o) : Fingerprint(design', p) = Fingerprint(design, p)
    BY <2>3, EditTouchesOwned
  <2> QED
    BY <2>1, <2>2, <2>4, <2>5, <2>6
<1> QED
  BY <1>1, RecommendationInvariant, PTL DEF Spec, AcceptTouchesOwned
=============================================================================
