------------------------ MODULE EditOperationsProofs ------------------------
(***************************************************************************)
(* Chains of edits: what is proved for every policy, every measured        *)
(* aircraft, every manifest, every set of requests and any bound.          *)
(***************************************************************************)
EXTENDS EditOperations, FiniteSetTheorems, TLAPS

-----------------------------------------------------------------------------
(* The parameters that an edit leaves.                                     *)

\* A parameter set has its four entries, whatever they are.
ParamSet(params) ==
    params = [ center |-> params.center, outer |-> params.outer,
               inner |-> params.inner, tip |-> params.tip ]

ParamsBounded(params) ==
    LET measured == FromFeatures IN
    /\ params.center = measured.center \/ InCorridor(params.center)
    /\ \/ <<params.outer, params.inner>> = <<measured.outer, measured.inner>>
       \/ SparFits(params.outer, params.inner)
    /\ params.tip = 0 \/ TipInRange(params.tip)

PolicyInv ==
    \A rev \in revisions : ParamSet(ParamsOf(rev)) /\ ParamsBounded(ParamsOf(rev))

\* The default targets change neither what is asked nor its value.
LEMMA TargetedKeeps ==
    ASSUME NEW asked \in Requests PROVE
        /\ Targeted(asked).operation = asked.operation
        /\ Targeted(asked).value = asked.value
<1>1. asked = [operation |-> asked.operation, targets |-> asked.targets, value |-> asked.value]
  BY RequestsTyped
<1>2. PICK targets :
        Targeted(asked) = [operation |-> asked.operation, targets |-> targets,
                           value |-> asked.value]
  <2>1. CASE asked.targets # <<>>
    BY <1>1, <2>1 DEF Targeted
  <2>2. CASE asked.targets = <<>>
    BY <1>1, <2>2, Zenon DEF Targeted
  <2> QED
    BY <2>1, <2>2
<1> QED
  BY <1>2

\* What check_bounds lets through is in bounds.
LEMMA BuildableInBounds ==
    ASSUME NEW request, NEW params, Buildable(request, params)
    PROVE  /\ request.operation \in DOMAIN Capability /\ InBounds(request, params)
           /\ Finite(request)
  BY NullIsNoCode DEF Buildable, Planned, Refusal, Supported

\* The kernels and the policy compute the same numbers.
LEMMA EditedBounded ==
    ASSUME NEW request, NEW params, ParamSet(params), ParamsBounded(params),
           request.operation \in DOMAIN Capability, InBounds(request, params), Finite(request)
    PROVE  ParamSet(Edited(request, params)) /\ ParamsBounded(Edited(request, params))
<1> DEFINE new == Edited(request, params)
<1>1. CASE request.operation = "translate_component"
  <2>1. new = [ center |-> [i \in Axes |-> params.center[i] + request.value[i]],
                outer |-> params.outer, inner |-> params.inner, tip |-> params.tip ]
    BY <1>1 DEF Edited, TranslateComponent, ParamSet
  <2>2. InCorridor([i \in Axes |-> params.center[i] + request.value[i]])
    BY <1>1 DEF InBounds, TranslateInBounds
  <2> QED
    BY <2>1, <2>2 DEF ParamSet, ParamsBounded
<1>2. CASE request.operation = "resize_spar"
  <2> DEFINE outer == request.value[1]
             inner == IF request.value[2] = Null THEN outer - (params.outer - params.inner)
                      ELSE request.value[2]
  <2>1. new = [ center |-> params.center, outer |-> outer, inner |-> inner,
                tip |-> params.tip ]
    BY <1>2 DEF Edited, ResizeSpar, ParamSet
  <2>2. SparFits(outer, inner)
    BY <1>2 DEF InBounds, ResizeInBounds, Finite
  <2> QED
    BY <2>1, <2>2 DEF ParamSet, ParamsBounded
<1>3. CASE request.operation = "set_wing_tip_extension"
  <2>1. new = [ center |-> params.center, outer |-> params.outer, inner |-> params.inner,
                tip |-> request.value ]
    BY <1>3 DEF Edited, SetWingTipExtension, ParamSet
  <2>2. TipInRange(request.value)
    BY <1>3 DEF InBounds
  <2> QED
    BY <2>1, <2>2 DEF ParamSet, ParamsBounded
<1> QED
  BY <1>1, <1>2, <1>3 DEF Capability

\* A step publishes at most one revision, the edit of a published one.
LEMMA StepPublishes ==
    ASSUME [Next]_vars
    PROVE  \/ UNCHANGED revisions
           \/ \E base \in revisions, asked \in Requests, reimported \in BOOLEAN :
                LET params   == ParamsOf(base)
                    request  == Targeted(asked)
                    failures == Failures(request, params, Edited(request, params), reimported)
                IN /\ Buildable(request, params)
                   /\ revisions' = revisions \cup {Built(base, request, params, failures)}
<1>1. CASE UNCHANGED vars
  BY <1>1 DEF vars
<1>2. ASSUME NEW base \in revisions, NEW asked \in Requests, NEW key,
             Refuse(base, asked) \/ Replay(base, asked, key) \/ Fail(base, asked)
      PROVE  UNCHANGED revisions
  BY <1>2 DEF Refuse, Replay, Fail
<1>3. ASSUME NEW base \in revisions, NEW asked \in Requests, NEW key, NEW reimported \in BOOLEAN,
             Preview(base, asked, key, reimported)
      PROVE  LET params   == ParamsOf(base)
                 request  == Targeted(asked)
                 failures == Failures(request, params, Edited(request, params), reimported)
             IN /\ Buildable(request, params)
                /\ revisions' = revisions \cup {Built(base, request, params, failures)}
  BY <1>3 DEF Preview
<1> QED
  BY <1>1, <1>2, <1>3 DEF Next

\* A revision that was built has the parameters of its edit.
LEMMA BuiltParams ==
    ASSUME NEW base, NEW request, NEW params, NEW failures
    PROVE  ParamsOf(Built(base, request, params, failures)) = Edited(request, params)
  BY DEF Built, ParamsOf

LEMMA PolicyInit == Init => PolicyInv
<1>1. ParamSet(FromFeatures) /\ ParamsBounded(FromFeatures)
  BY DEF ParamSet, ParamsBounded, FromFeatures
<1>2. ParamsOf(Confirmed) = FromFeatures
  BY DEF ParamsOf, Confirmed
<1> QED
  BY <1>1, <1>2 DEF Init, PolicyInv

LEMMA PolicyNext == PolicyInv /\ [Next]_vars => PolicyInv'
<1> SUFFICES ASSUME PolicyInv, [Next]_vars PROVE PolicyInv'
  OBVIOUS
<1>1. CASE UNCHANGED revisions
  BY <1>1 DEF PolicyInv
<1>2. ASSUME NEW base \in revisions, NEW asked \in Requests, NEW failures,
             Buildable(Targeted(asked), ParamsOf(base)),
             revisions' = revisions \cup
               {Built(base, Targeted(asked), ParamsOf(base), failures)}
      PROVE  PolicyInv'
  <2> DEFINE request == Targeted(asked)
             rev     == Built(base, request, ParamsOf(base), failures)
  <2>1. ParamSet(Edited(request, ParamsOf(base))) /\ ParamsBounded(Edited(request, ParamsOf(base)))
    BY <1>2, BuildableInBounds, EditedBounded DEF PolicyInv
  <2>2. ParamSet(ParamsOf(rev)) /\ ParamsBounded(ParamsOf(rev))
    BY <2>1, BuiltParams
  <2> HIDE DEF rev
  <2>3. revisions' = revisions \cup {rev}
    BY <1>2 DEF rev
  <2> QED
    BY <2>2, <2>3 DEF PolicyInv
<1> QED
  BY <1>1, <1>2, StepPublishes

\* WithinPolicy: along every chain of edits the pack stays in its corridor, the
\* spar in its hole with a wall, and the tip in range, wherever they are not where
\* they were measured (check_bounds against the kernels of operations.py).
THEOREM PolicyKept == Spec => []WithinPolicy
<1>1. PolicyInv => WithinPolicy
  BY DEF PolicyInv, WithinPolicy, ParamsBounded
<1> QED
  BY <1>1, PolicyInit, PolicyNext, PTL DEF Spec

-----------------------------------------------------------------------------
(* The span that a revision states.                                        *)

\* The extension is a length, and the span is stated for the wings, as measured
\* and extended.
SpanStated(rev) ==
    LET tip == ParamsOf(rev).tip IN
    /\ tip \in Int
    /\ DOMAIN rev.features.tips \subseteq Wings
    /\ \A i \in DOMAIN rev.features.tips : rev.features.tips[i] = Tip(Surfaces[i]).y + tip
    /\ tip # 0 => rev.features.stale

SpanInv == PolicyInv /\ \A rev \in revisions : SpanStated(rev)

\* The tip that an edit leaves.
LEMMA EditedTip ==
    ASSUME NEW asked \in Requests, NEW params, ParamSet(params),
           Buildable(Targeted(asked), params), params.tip \in Int
    PROVE  LET new == Edited(Targeted(asked), params) IN
           /\ new.tip \in Int
           /\ asked.operation # "set_wing_tip_extension" => new.tip = params.tip
<1> DEFINE request == Targeted(asked)
           new     == Edited(request, params)
<1>1. /\ request.operation = asked.operation /\ request.value = asked.value
      /\ request.operation \in DOMAIN Capability /\ InBounds(request, params)
  BY TargetedKeeps, BuildableInBounds
<1>2. CASE asked.operation = "set_wing_tip_extension"
  <2>1. asked.value \in Int
    BY <1>1, <1>2, RequestsTyped DEF InBounds
  <2>2. new.tip = asked.value
    BY <1>1, <1>2 DEF Edited, SetWingTipExtension, ParamSet
  <2> QED
    BY <1>2, <2>1, <2>2
<1>3. CASE asked.operation = "translate_component"
  BY <1>1, <1>3 DEF Edited, TranslateComponent, ParamSet
<1>4. CASE asked.operation = "resize_spar"
  BY <1>1, <1>4 DEF Edited, ResizeSpar, ParamSet
<1> QED
  BY <1>1, <1>2, <1>3, <1>4 DEF Capability

\* The difference that is added is the difference of the two extensions.
LEMMA Restated ==
    ASSUME NEW features, NEW params, NEW new, params.tip \in Int, new.tip \in Int,
           DOMAIN features.tips \subseteq Wings,
           \A i \in DOMAIN features.tips : features.tips[i] = Tip(Surfaces[i]).y + params.tip,
           params.tip # 0 => features.stale
    PROVE  LET restated == RestateSpan(features, params, new) IN
           /\ DOMAIN restated.tips \subseteq Wings
           /\ \A i \in DOMAIN restated.tips :
                restated.tips[i] = Tip(Surfaces[i]).y + new.tip
           /\ new.tip # 0 => restated.stale
<1>1. CASE new.tip = params.tip
  BY <1>1 DEF RestateSpan
<1>2. CASE new.tip # params.tip
  <2> DEFINE tips == [i \in DOMAIN features.tips |-> features.tips[i] + (new.tip - params.tip)]
  <2>1. RestateSpan(features, params, new) = [tips |-> tips, stale |-> TRUE]
    BY <1>2 DEF RestateSpan
  <2>2. \A i \in DOMAIN features.tips : tips[i] = Tip(Surfaces[i]).y + new.tip
    <3> TAKE i \in DOMAIN features.tips
    <3>1. Tip(Surfaces[i]).y \in Int
      BY TipsMeasured
    <3> QED
      BY <3>1
  <2>3. DOMAIN tips = DOMAIN features.tips
    OBVIOUS
  <2> HIDE DEF tips
  <2> QED
    BY <2>1, <2>2, <2>3
<1> QED
  BY <1>1, <1>2

LEMMA SpanNext == SpanInv /\ [Next]_vars => SpanInv'
<1> SUFFICES ASSUME SpanInv, [Next]_vars PROVE SpanInv'
  OBVIOUS
<1>1. PolicyInv'
  BY PolicyNext DEF SpanInv
<1>2. CASE UNCHANGED revisions
  BY <1>1, <1>2 DEF SpanInv
<1>3. ASSUME NEW base \in revisions, NEW asked \in Requests, NEW failures,
             Buildable(Targeted(asked), ParamsOf(base)),
             revisions' = revisions \cup
               {Built(base, Targeted(asked), ParamsOf(base), failures)}
      PROVE  SpanInv'
  <2> DEFINE request == Targeted(asked)
             params  == ParamsOf(base)
             new     == Edited(request, params)
             rev     == Built(base, request, params, failures)
  <2>1. /\ ParamSet(params) /\ SpanStated(base)
        /\ request.operation = asked.operation
    BY TargetedKeeps DEF SpanInv, PolicyInv
  <2>2. /\ new.tip \in Int
        /\ asked.operation # "set_wing_tip_extension" => new.tip = params.tip
    BY <1>3, <2>1, EditedTip DEF SpanStated
  <2>3. ParamsOf(rev) = new
    BY BuiltParams
  <2>4. SpanStated(rev)
    <3>1. CASE asked.operation = "set_wing_tip_extension"
      <4>1. rev.features = RestateSpan(base.features, params, new)
        BY <2>1, <3>1 DEF Built
      <4> QED
        BY <2>1, <2>2, <2>3, <4>1, Restated DEF SpanStated
    <3>2. CASE asked.operation # "set_wing_tip_extension"
      <4>1. rev.features = base.features
        BY <2>1, <3>2 DEF Built
      <4> QED
        BY <2>1, <2>2, <2>3, <3>2, <4>1 DEF SpanStated
    <3> QED
      BY <3>1, <3>2
  <2> HIDE DEF rev
  <2>5. revisions' = revisions \cup {rev}
    BY <1>3 DEF rev
  <2> QED
    BY <1>1, <2>4, <2>5 DEF SpanInv
<1> QED
  BY <1>2, <1>3, StepPublishes

\* SpanIsStated: the features of a revision state the span of its parameters,
\* over every chain of edits that restate it by differences, and never again pass
\* for a measurement once a tip was extended (_restate_span).
THEOREM SpanKept == Spec => []SpanIsStated
<1>1. Init => SpanInv
  <2>1. ParamsOf(Confirmed) = FromFeatures
    BY DEF ParamsOf, Confirmed
  <2>2. Confirmed.features.tips = [i \in NamedWings |-> Tip(Surfaces[i]).y]
    BY DEF Confirmed
  <2>3. SpanStated(Confirmed)
    BY <2>1, <2>2, TipsMeasured, NamedWingsAreWings DEF SpanStated, FromFeatures
  <2> QED
    BY <2>3, PolicyInit DEF Init, SpanInv
<1>2. SpanInv => SpanIsStated
  BY DEF SpanInv, SpanStated, SpanIsStated
<1> QED
  BY <1>1, <1>2, SpanNext, PTL DEF Spec

-----------------------------------------------------------------------------
(* The verdict of a call and of the revision it gives.                     *)

VerdictInv ==
    /\ \A e \in index : e.rev \in revisions
    /\ \A rev \in revisions : rev.status \in {"ok", "blocked"}
    /\ VerdictsAgree

\* What the checks at hand say is recorded, whoever made the revision.
LEMMA VerdictAgrees ==
    ASSUME NEW rev, NEW failures, rev \in revisions', Verdict(rev, failures),
           rev.status = StatusOf(failures), VerdictsAgree
    PROVE  VerdictsAgree'
<1>1. CASE failures \subseteq Advisory
  BY <1>1 DEF Verdict, VerdictsAgree, StatusOf, Result
<1>2. CASE ~ (failures \subseteq Advisory)
  BY <1>2, NullIsNoCode DEF Verdict, VerdictsAgree, StatusOf, Result
<1> QED
  BY <1>1, <1>2

LEMMA VerdictNext == VerdictInv /\ [Next]_vars => VerdictInv'
<1> SUFFICES ASSUME VerdictInv, [Next]_vars PROVE VerdictInv'
  OBVIOUS
<1>1. CASE UNCHANGED vars
  BY <1>1 DEF vars, VerdictInv, VerdictsAgree
<1>2. ASSUME NEW base, NEW asked, Refuse(base, asked)
      PROVE  VerdictInv'
  BY <1>2 DEF Refuse, VerdictInv, VerdictsAgree, Result
<1>3. ASSUME NEW base, NEW asked, Fail(base, asked)
      PROVE  VerdictInv'
  BY <1>3, NullIsNoCode DEF Fail, VerdictInv, VerdictsAgree, Result
<1>4. ASSUME NEW base, NEW asked, NEW key, Replay(base, asked, key)
      PROVE  VerdictInv'
  <2>1. PICK rev \in Known(base, key) : Verdict(rev, Replayed(rev))
    BY <1>4 DEF Replay
  <2>2. rev \in revisions
    BY DEF Known, VerdictInv
  <2>3. rev.status = StatusOf(Replayed(rev))
    BY <2>2 DEF VerdictInv, StatusOf, Replayed, Advisory
  <2>4. UNCHANGED <<revisions, index>>
    BY <1>4 DEF Replay
  <2> QED
    BY <2>1, <2>2, <2>3, <2>4, VerdictAgrees DEF VerdictInv
<1>5. ASSUME NEW base, NEW asked, NEW key, NEW reimported, Preview(base, asked, key, reimported)
      PROVE  VerdictInv'
  <2> DEFINE request  == Targeted(asked)
             params   == ParamsOf(base)
             failures == Failures(request, params, Edited(request, params), reimported)
             rev      == Built(base, request, params, failures)
  <2>1. /\ revisions' = revisions \cup {rev}
        /\ \/ index' = index
           \/ index' = index \cup {[base |-> base, key |-> key, rev |-> rev]}
        /\ Verdict(rev, failures)
    BY <1>5 DEF Preview
  <2>2. rev.status = StatusOf(failures)
    BY DEF Built
  <2>3. StatusOf(failures) \in {"ok", "blocked"}
    BY DEF StatusOf
  <2> HIDE DEF rev, failures
  <2>4. VerdictsAgree'
    BY <2>1, <2>2, VerdictAgrees DEF VerdictInv
  <2> QED
    BY <2>1, <2>2, <2>3, <2>4 DEF VerdictInv
<1> QED
  BY <1>1, <1>2, <1>3, <1>4, <1>5 DEF Next

\* VerdictsAgree: a call answers of a revision what the revision says of itself,
\* whether the call built it or was given it for its key, a refusal has a reason, and
\* only a revision that its checks refused is declined (apply_edit, _replayed_checks).
THEOREM VerdictsKept == Spec => []VerdictsAgree
<1>1. Init => VerdictInv
  BY DEF Init, VerdictInv, VerdictsAgree, Confirmed, Result
<1>2. VerdictInv => VerdictsAgree
  BY DEF VerdictInv
<1> QED
  BY <1>1, <1>2, VerdictNext, PTL DEF Spec

-----------------------------------------------------------------------------
(* What holds along the ancestors of a revision.                           *)

\* f gives each revision of S itself and the ancestors of its parent.
IsAncestry(f, S) ==
    f = [rev \in S |-> {rev} \cup (IF rev.params = <<>> THEN {} ELSE f[rev.parent])]

\* g says it of S, as f does.
Agrees(g, f, S) == IsAncestry(g, S) /\ \A rev \in S : g[rev] = f[rev]

Rooted(S) == \A rev \in S : rev.params = <<>> \/ rev.parent \in S

LEMMA AncestryIsOne ==
    (\E f : IsAncestry(f, revisions)) => IsAncestry(Ancestry, revisions)
  BY DEF Ancestry, IsAncestry

\* The ancestors of those that were there stay what they were.
LEMMA Restricted ==
    ASSUME NEW S, NEW rev, NEW T, NEW f,
           Rooted(S), rev \notin S, rev.params # <<>>, rev.parent \in S,
           T = S \cup {rev}, IsAncestry(f, T)
    PROVE  \E g : Agrees(g, f, S)
<1> DEFINE g == [r \in S |-> f[r]]
<1>1. \A r \in T : f[r] = {r} \cup (IF r.params = <<>> THEN {} ELSE f[r.parent])
  BY DEF IsAncestry
<1>2. \A r \in S : g[r] = {r} \cup (IF r.params = <<>> THEN {} ELSE g[r.parent])
  BY <1>1 DEF Rooted
<1>3. g = [r \in S |-> g[r]] /\ \A r \in S : g[r] = f[r]
  OBVIOUS
<1> HIDE DEF g
<1>4. IsAncestry(g, S)
  BY <1>2, <1>3 DEF IsAncestry
<1> QED
  BY <1>3, <1>4 DEF Agrees

LEMMA NewLine ==
    ASSUME NEW S, NEW rev, NEW T, NEW f,
           Rooted(S), rev \notin S, rev.params # <<>>, rev.parent \in S,
           T = S \cup {rev}, IsAncestry(f, T)
    PROVE  f[rev] = {rev} \cup f[rev.parent]
<1>1. rev \in T
  OBVIOUS
<1> QED
  BY <1>1 DEF IsAncestry

LEMMA Extended ==
    ASSUME NEW S, Rooted(S), NEW rev, rev \notin S, rev.params # <<>>, rev.parent \in S,
           NEW T, T = S \cup {rev}, NEW f, IsAncestry(f, S)
    PROVE  \E g : IsAncestry(g, T)
<1> DEFINE g == [r \in T |-> IF r = rev THEN {rev} \cup f[rev.parent] ELSE f[r]]
<1>1. \A r \in S : f[r] = {r} \cup (IF r.params = <<>> THEN {} ELSE f[r.parent])
  BY DEF IsAncestry
<1>2. \A r \in S : g[r] = f[r]
  OBVIOUS
<1>3. g[rev] = {rev} \cup g[rev.parent]
  BY <1>2
<1>4. g = [r \in T |-> g[r]]
  OBVIOUS
<1> HIDE DEF g
<1>5. \A r \in T : g[r] = {r} \cup (IF r.params = <<>> THEN {} ELSE g[r.parent])
  BY <1>1, <1>2, <1>3 DEF Rooted
<1>6. IsAncestry(g, T)
  BY <1>4, <1>5 DEF IsAncestry
<1> QED
  BY <1>6

\* The measured aircraft, from which all chains start, interferes with nothing.
MeasuredIsClean == Interference(Model(FromFeatures), {}) = {}

\* What CleanChains and PlacementFollows say of a revision with these ancestors, and
\* what it takes to add a displacement to its centre.
CleanAfter(rev, line) ==
    MeasuredIsClean /\ (\A r \in line : r.status = "ok")
        => Interference(Model(ParamsOf(rev)), {}) = {}

PlacedAfter(rev, line) ==
    \A id \in DOMAIN Manifest.parts :
        (\A r \in line :
            r.params # <<>> /\ r.request.operation = "translate_component" =>
                r.request.targets = <<id>>)
          => \A i \in Axes :
               rev.placed[id][i] = IF Reconstructed(id) = "recon_battery"
                                   THEN ParamsOf(rev).center[i] - FromFeatures.center[i]
                                   ELSE 0

Centred(rev) ==
    /\ ParamsOf(rev).center \in [Axes -> Int]
    /\ DOMAIN rev.placed = DOMAIN Manifest.parts

LineInv ==
    /\ PolicyInv
    /\ Rooted(revisions)
    /\ \A rev \in revisions : Centred(rev)
    /\ \E f : IsAncestry(f, revisions)
    /\ \A f : IsAncestry(f, revisions) =>
         \A rev \in revisions : CleanAfter(rev, f[rev]) /\ PlacedAfter(rev, f[rev])

\* An edit changes no part's id.
LEMMA SameParts ==
    ASSUME NEW params, NEW new PROVE DOMAIN Model(params) = DOMAIN Model(new)
<1>1. ASSUME NEW a, NEW b, DOMAIN a = DOMAIN b, \A i \in DOMAIN a : DOMAIN a[i] = DOMAIN b[i]
      PROVE  DOMAIN Joined(a) = DOMAIN Joined(b)
  BY <1>1 DEF Joined
<1>2. \A i \in DOMAIN Surfaces : DOMAIN Panels(params.tip)[i] = DOMAIN Panels(new.tip)[i]
  BY DEF Panels, SurfaceParts
<1>3. DOMAIN Panels(params.tip) = DOMAIN Panels(new.tip)
  BY DEF Panels
<1>4. DOMAIN Panels(params.tip) = DOMAIN Surfaces
  BY DEF Panels
<1>5. DOMAIN Joined(Panels(params.tip)) = DOMAIN Joined(Panels(new.tip))
  BY <1>1, <1>2, <1>3, <1>4
<1>6. DOMAIN Hardware(params) = DOMAIN Hardware(new)
  BY DEF Hardware
<1> DEFINE a == <<Joined(Panels(params.tip)), Hardware(params), Fixed>>
           b == <<Joined(Panels(new.tip)), Hardware(new), Fixed>>
<1>7. DOMAIN a = 1..3 /\ DOMAIN b = 1..3
  OBVIOUS
<1>8. \A i \in 1..3 : DOMAIN a[i] = DOMAIN b[i]
  <2>1. DOMAIN a[1] = DOMAIN b[1] /\ DOMAIN a[2] = DOMAIN b[2] /\ DOMAIN a[3] = DOMAIN b[3]
    BY <1>5, <1>6
  <2> HIDE DEF a, b
  <2> QED
    BY <2>1
<1> HIDE DEF a, b
<1>9. DOMAIN Joined(a) = DOMAIN Joined(b)
  BY <1>1, <1>7, <1>8
<1> QED
  BY <1>9 DEF Model, a, b

\* The pairs that an accepted edit did not test are of parts that did not change.
LEMMA CleanStep ==
    ASSUME NEW request, NEW params, NEW reimported,
           Interference(Model(params), {}) = {},
           StatusOf(Failures(request, params, Edited(request, params), reimported)) = "ok"
    PROVE  Interference(Model(Edited(request, params)), {}) = {}
<1> DEFINE new      == Edited(request, params)
           model    == Model(new)
           before   == Model(params)
           failures == Failures(request, params, new, reimported)
<1>1. failures \subseteq {"verified_movement_unknown"}
  BY DEF StatusOf, Advisory
<1>2. Interference(model, Changed(request)) = {}
  BY <1>1 DEF Failures, CollisionFailures
<1>3. UnchangedParts(model, before, Affected(request))
  BY <1>1 DEF Failures
<1>4. DOMAIN model = DOMAIN before
  BY SameParts
<1> HIDE DEF model, before, failures, new
<1>5. ASSUME NEW pair \in Interference(model, {}) PROVE FALSE
  <2>1. /\ pair \in (DOMAIN model) \X (DOMAIN model)
        /\ pair[1] # pair[2]
        /\ Penetrates(model[pair[1]].box, model[pair[2]].box)
        /\ ~DeclaredPair(pair[1], pair[2])
    BY DEF Interference
  <2>2. pair[1] \notin Changed(request) /\ pair[2] \notin Changed(request)
    BY <1>2, <2>1 DEF Interference
  <2>3. model[pair[1]] = before[pair[1]] /\ model[pair[2]] = before[pair[2]]
    BY <1>3, <1>4, <2>1, <2>2 DEF UnchangedParts, Changed
  <2>4. pair \in Interference(before, {})
    BY <1>4, <2>1, <2>3 DEF Interference
  <2> QED
    BY <2>4 DEF before
<1> QED
  BY <1>5 DEF model, new

\* The centre that an edit leaves.
LEMMA EditedCenter ==
    ASSUME NEW asked \in Requests, NEW params, ParamSet(params),
           Buildable(Targeted(asked), params), params.center \in [Axes -> Int]
    PROVE  LET request == Targeted(asked)
               new     == Edited(request, params)
           IN /\ new.center \in [Axes -> Int]
              /\ request.operation # "translate_component" => new.center = params.center
              /\ request.operation = "translate_component" =>
                   /\ request.value \in [Axes -> Int]
                   /\ new.center = [i \in Axes |-> params.center[i] + request.value[i]]
                   /\ Reconstructed(request.targets[1]) = "recon_battery"
<1> DEFINE request == Targeted(asked)
           new     == Edited(request, params)
<1>1. /\ request.operation = asked.operation /\ request.value = asked.value
      /\ request.operation \in DOMAIN Capability /\ InBounds(request, params)
  BY TargetedKeeps, BuildableInBounds
<1>2. CASE request.operation = "translate_component"
  <2>1. request.value \in [Axes -> Int]
    BY <1>1, <1>2, RequestsTyped DEF InBounds, TranslateInBounds
  <2>2. new.center = [i \in Axes |-> params.center[i] + request.value[i]]
    BY <1>2 DEF Edited, TranslateComponent, ParamSet
  <2>3. Reconstructed(request.targets[1]) = "recon_battery"
    BY <1>2 DEF Buildable, Planned, Movable
  <2>4. new.center \in [Axes -> Int]
    BY <2>1, <2>2
  <2> QED
    BY <1>2, <2>1, <2>2, <2>3, <2>4
<1>3. CASE request.operation = "resize_spar"
  BY <1>3 DEF Edited, ResizeSpar, ParamSet
<1>4. CASE request.operation = "set_wing_tip_extension"
  BY <1>4 DEF Edited, SetWingTipExtension, ParamSet
<1> QED
  BY <1>1, <1>2, <1>3, <1>4 DEF Capability

\* The placement of a part that is named once moves as the pack does.
LEMMA PlacedStep ==
    ASSUME NEW base, NEW line, NEW asked \in Requests, NEW failures, NEW rev,
           ParamSet(ParamsOf(base)), Buildable(Targeted(asked), ParamsOf(base)),
           Centred(base), PlacedAfter(base, line),
           rev = Built(base, Targeted(asked), ParamsOf(base), failures)
    PROVE  Centred(rev) /\ PlacedAfter(rev, {rev} \cup line)
<1> DEFINE request == Targeted(asked)
           params  == ParamsOf(base)
           new     == Edited(request, params)
<1>1. /\ new.center \in [Axes -> Int]
      /\ request.operation # "translate_component" => new.center = params.center
      /\ request.operation = "translate_component" =>
           /\ request.value \in [Axes -> Int]
           /\ new.center = [i \in Axes |-> params.center[i] + request.value[i]]
           /\ Reconstructed(request.targets[1]) = "recon_battery"
  BY EditedCenter DEF Centred
<1>2. /\ params.center \in [Axes -> Int] /\ FromFeatures.center \in [Axes -> Int]
      /\ DOMAIN base.placed = DOMAIN Manifest.parts
  BY DEF Centred, FromFeatures, Axes
<1>3. /\ ParamsOf(rev) = new /\ rev.params # <<>> /\ rev.request = request
      /\ rev.placed = CarriedPlacement(request, base.placed)
  BY BuiltParams DEF Built
<1> HIDE DEF request, params, new
<1>4. Centred(rev)
  BY <1>1, <1>2, <1>3 DEF Centred, CarriedPlacement
<1>5. ASSUME NEW id \in DOMAIN Manifest.parts, NEW i \in Axes,
             \A r \in {rev} \cup line :
               r.params # <<>> /\ r.request.operation = "translate_component" =>
                 r.request.targets = <<id>>
      PROVE  rev.placed[id][i] = IF Reconstructed(id) = "recon_battery"
                                 THEN new.center[i] - FromFeatures.center[i] ELSE 0
  <2>1. base.placed[id][i] = IF Reconstructed(id) = "recon_battery"
                             THEN params.center[i] - FromFeatures.center[i] ELSE 0
    BY <1>5 DEF PlacedAfter, params
  <2>2. CASE request.operation # "translate_component"
    BY <1>1, <1>3, <2>1, <2>2 DEF CarriedPlacement
  <2>3. CASE request.operation = "translate_component"
    <3>1. request.targets = <<id>>
      BY <1>3, <1>5, <2>3
    <3>2. Times(request, id) = 1
      <4>1. {n \in DOMAIN request.targets : request.targets[n] = id} = {1}
        BY <3>1
      <4> QED
        BY <4>1, FS_Singleton DEF Times
    <3>3. Reconstructed(id) = "recon_battery"
      BY <1>1, <2>3, <3>1
    <3>4. rev.placed[id][i] = base.placed[id][i] + 1 * request.value[i]
      BY <1>2, <1>3, <2>3, <3>2 DEF CarriedPlacement
    <3>5. /\ request.value[i] \in Int /\ params.center[i] \in Int
          /\ FromFeatures.center[i] \in Int
          /\ new.center[i] = params.center[i] + request.value[i]
      BY <1>1, <1>2, <2>3
    <3> QED
      BY <2>1, <3>3, <3>4, <3>5
  <2> QED
    BY <2>2, <2>3
<1> QED
  BY <1>3, <1>4, <1>5 DEF PlacedAfter

LEMMA LineInit == Init => LineInv
<1> SUFFICES ASSUME Init PROVE LineInv
  OBVIOUS
<1>1. revisions = {Confirmed} /\ Confirmed.params = <<>> /\ PolicyInv
  BY PolicyInit DEF Init, Confirmed
<1>2. /\ ParamsOf(Confirmed) = FromFeatures
      /\ Confirmed.placed = [id \in DOMAIN Manifest.parts |-> <<0, 0, 0>>]
  BY DEF ParamsOf, Confirmed
<1>3. FromFeatures.center \in [Axes -> Int]
  BY DEF FromFeatures, Axes
<1>4. Centred(Confirmed)
  BY <1>2, <1>3 DEF Centred
<1>5. CleanAfter(Confirmed, {Confirmed}) /\ PlacedAfter(Confirmed, {Confirmed})
  <2>1. \A i \in Axes : FromFeatures.center[i] - FromFeatures.center[i] = 0
    BY <1>3
  <2>2. \A id \in DOMAIN Manifest.parts, i \in Axes : Confirmed.placed[id][i] = 0
    BY <1>2 DEF Axes
  <2> QED
    BY <1>2, <2>1, <2>2 DEF CleanAfter, PlacedAfter, MeasuredIsClean
<1>6. \E f : IsAncestry(f, revisions)
  <2> DEFINE f == [rev \in {Confirmed} |-> {Confirmed}]
  <2>1. IsAncestry(f, {Confirmed})
    BY <1>1 DEF IsAncestry
  <2> QED
    BY <1>1, <2>1
<1>7. ASSUME NEW f, IsAncestry(f, revisions)
      PROVE  f[Confirmed] = {Confirmed}
  BY <1>1, <1>7 DEF IsAncestry
<1> QED
  BY <1>1, <1>4, <1>5, <1>6, <1>7 DEF LineInv, Rooted

LEMMA LineNext == LineInv /\ [Next]_vars => LineInv'
<1> SUFFICES ASSUME LineInv, [Next]_vars PROVE LineInv'
  OBVIOUS
<1>1. PolicyInv'
  BY PolicyNext DEF LineInv
<1>2. CASE UNCHANGED revisions
  BY <1>1, <1>2 DEF LineInv
<1>3. ASSUME NEW base \in revisions, NEW asked \in Requests, NEW reimported \in BOOLEAN,
             NEW failures,
             failures = Failures(Targeted(asked), ParamsOf(base),
                                 Edited(Targeted(asked), ParamsOf(base)), reimported),
             Buildable(Targeted(asked), ParamsOf(base)),
             NEW rev, rev = Built(base, Targeted(asked), ParamsOf(base), failures),
             revisions' = revisions \cup {rev}, rev \notin revisions
      PROVE  LineInv'
  <2>1. /\ rev.params # <<>> /\ rev.parent = base /\ rev.status = StatusOf(failures)
        /\ ParamsOf(rev) = Edited(Targeted(asked), ParamsOf(base))
    BY <1>3, BuiltParams DEF Built
  <2>2. ParamSet(ParamsOf(base)) /\ Centred(base) /\ Rooted(revisions)
    BY DEF LineInv, PolicyInv
  <2> PICK all : all = revisions \cup {rev}
    OBVIOUS
  <2>3. all = revisions' /\ base \in revisions /\ rev \notin revisions
    BY <1>3
  <2>4. \E f : IsAncestry(f, all)
    <3>1. \E f : IsAncestry(f, revisions)
      BY DEF LineInv
    <3> QED
      BY <2>1, <2>2, <2>3, <3>1, Extended
  <2>5. ASSUME NEW f, IsAncestry(f, all)
        PROVE  \A r \in all : CleanAfter(r, f[r]) /\ PlacedAfter(r, f[r])
    <3>1. /\ f[rev] = {rev} \cup f[base]
          /\ \E g : Agrees(g, f, revisions)
      <4>1. /\ Rooted(revisions) /\ rev \notin revisions /\ rev.params # <<>>
            /\ rev.parent \in revisions /\ all = revisions \cup {rev} /\ IsAncestry(f, all)
        BY <2>1, <2>2, <2>5, <2>3
      <4>2. \E g : Agrees(g, f, revisions)
        BY <4>1, Restricted
      <4>3. f[rev] = {rev} \cup f[rev.parent]
        BY <4>1, NewLine
      <4> QED
        BY <2>1, <4>2, <4>3
    <3> PICK g : Agrees(g, f, revisions)
      BY <3>1
    <3>2. \A x \in revisions : CleanAfter(x, g[x]) /\ PlacedAfter(x, g[x])
      BY DEF LineInv, Agrees
    <3>3. \A x \in revisions : CleanAfter(x, f[x]) /\ PlacedAfter(x, f[x])
      BY <3>2 DEF Agrees
    <3>4. PlacedAfter(rev, f[rev])
      BY <1>3, <2>2, <3>1, <3>3, PlacedStep
    <3>5. CleanAfter(rev, f[rev])
      <4>1. ASSUME MeasuredIsClean, \A x \in f[rev] : x.status = "ok"
            PROVE  Interference(Model(ParamsOf(rev)), {}) = {}
        <5>1. Interference(Model(ParamsOf(base)), {}) = {}
          BY <3>1, <3>3, <4>1 DEF CleanAfter
        <5>2. StatusOf(failures) = "ok"
          BY <2>1, <3>1, <4>1
        <5> QED
          BY <1>3, <2>1, <5>1, <5>2, CleanStep
      <4> QED
        BY <4>1 DEF CleanAfter
    <3> QED
      BY <2>5, <3>3, <3>4, <3>5
  <2>6. Centred(rev)
    <3>1. PICK f : IsAncestry(f, revisions)
      BY DEF LineInv
    <3>2. PlacedAfter(base, f[base])
      BY <3>1 DEF LineInv
    <3>3. Centred(rev) /\ PlacedAfter(rev, {rev} \cup f[base])
      BY <1>3, <2>2, <3>2, PlacedStep
    <3> QED
      BY <3>3
  <2>7. Rooted(all) /\ \A r \in all : Centred(r)
    BY <2>1, <2>2, <2>6 DEF LineInv, Rooted
  <2>8. \A f : IsAncestry(f, all) => \A r \in all : CleanAfter(r, f[r]) /\ PlacedAfter(r, f[r])
    BY <2>5
  <2>9. (Rooted(revisions) /\ \A r \in revisions : Centred(r))'
    BY <2>7, <2>3
  <2>10. (\E f : IsAncestry(f, revisions))'
    BY <2>4, <2>3
  <2>11. (\A f : IsAncestry(f, revisions) =>
            \A r \in revisions : CleanAfter(r, f[r]) /\ PlacedAfter(r, f[r]))'
    BY <2>8, <2>3
  <2> QED
    BY <1>1, <2>9, <2>10, <2>11 DEF LineInv
<1>4. ASSUME NEW base \in revisions, NEW asked \in Requests, NEW reimported \in BOOLEAN,
             Buildable(Targeted(asked), ParamsOf(base)),
             revisions' = revisions \cup
               {Built(base, Targeted(asked), ParamsOf(base),
                      Failures(Targeted(asked), ParamsOf(base),
                               Edited(Targeted(asked), ParamsOf(base)), reimported))}
      PROVE  LineInv'
  <2> DEFINE failures == Failures(Targeted(asked), ParamsOf(base),
                                  Edited(Targeted(asked), ParamsOf(base)), reimported)
             rev == Built(base, Targeted(asked), ParamsOf(base), failures)
  <2>1. revisions' = revisions \cup {rev}
    BY <1>4
  <2>2. CASE rev \in revisions
    <3> HIDE DEF rev
    <3> QED
      BY <1>2, <2>1, <2>2
  <2>3. CASE rev \notin revisions
    BY <1>3, <1>4, <2>1, <2>3
  <2> QED
    BY <2>2, <2>3
<1> QED
  BY <1>2, <1>4, StepPublishes

LEMMA LineCorrect == Spec => []LineInv
  BY LineInit, LineNext, PTL DEF Spec

\* CleanChains: a revision of which each ancestor was accepted by its checks interferes
\* nowhere, if the measured aircraft does not, although an edit tests only the pairs
\* that it changed: the others are of parts that its checks found to be as before
\* (_check, _intent_checks).
THEOREM ChainsStayClean == MeasuredIsClean => (Spec => []CleanChains)
<1> SUFFICES ASSUME MeasuredIsClean PROVE Spec => []CleanChains
  OBVIOUS
<1>1. ASSUME LineInv PROVE CleanChains
  <2>1. IsAncestry(Ancestry, revisions)
    BY <1>1, AncestryIsOne DEF LineInv
  <2>2. \A rev \in revisions : CleanAfter(rev, Ancestry[rev])
    BY <1>1, <2>1 DEF LineInv
  <2> QED
    BY <1>1, <2>2 DEF CleanAfter, CleanChains
<1> QED
  BY <1>1, LineCorrect, PTL

\* PlacementFollows: along a chain that moves the pack by one occurrence of the
\* manifest, the placement that previews carry forward from each other is where the
\* pack was regenerated (_carry_forward against translate_component).
THEOREM PlacementKept == Spec => []PlacementFollows
<1>1. ASSUME LineInv PROVE PlacementFollows
  <2>1. IsAncestry(Ancestry, revisions)
    BY <1>1, AncestryIsOne DEF LineInv
  <2>2. \A rev \in revisions : PlacedAfter(rev, Ancestry[rev])
    BY <1>1, <2>1 DEF LineInv
  <2> QED
    BY <2>2 DEF PlacedAfter, PlacementFollows
<1> QED
  BY <1>1, LineCorrect, PTL

=============================================================================
