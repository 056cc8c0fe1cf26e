--------------------------- MODULE EditOperations ---------------------------
(***************************************************************************)
(* Bounded edits of a design (dronebench_edits/apply.py, operations.py):   *)
(* each takes the parameter set of a revision, regenerates the aircraft,   *)
(* checks it, and publishes a preview with the checks' verdict, the        *)
(* parameters, the manifest's placements and the geometry features it      *)
(* carries forward.  The edits of one process come one after the other;    *)
(* module EditStore has several, and the acceptance of what they made.     *)
(*                                                                         *)
(* A revision is named by the hash of its parent, its edit and its         *)
(* verdict, so it is one here too: the same edit of the same parent with   *)
(* the same verdict is the same revision.                                  *)
(***************************************************************************)
EXTENDS Collider

CONSTANTS
    Requests,      \* what callers ask
    Keys,          \* idempotency keys
    NoKey,
    NoRevision,
    MAX_REVISIONS  \* bound: published revisions

ASSUME EditBounds == NoKey \notin Keys /\ MAX_REVISIONS \in Nat

\* CadEditRequest; a displacement is three lengths and an extension is one, or missing.
ASSUME RequestsTyped ==
    \A r \in Requests :
        /\ r = [operation |-> r.operation, targets |-> r.targets, value |-> r.value]
        /\ r.operation = "translate_component" => r.value \in [Axes -> Int] \cup {Null}
        /\ r.operation = "set_wing_tip_extension" => r.value \in Int \cup {Null}

ASSUME TipsMeasured == \A i \in Wings : Tip(Surfaces[i]).y \in Int

\* A name with the word wing in it is no tail's.
ASSUME NamedWingsAreWings == NamedWings \subseteq Wings

VARIABLES
    revisions,   \* the published ones
    index,       \* idempotency.json: base, key and what they gave
    declined,    \* the revisions decisions.jsonl says were declined
    result       \* the last CadEditResult

vars == <<revisions, index, declined, result>>

-----------------------------------------------------------------------------
(* The kernels of operations.py.                                           *)

TranslateComponent(params, delta) ==
    [params EXCEPT !.center = [i \in Axes |-> params.center[i] + delta[i]]]

\* (Mutant: the bore is preserved, not the wall.)
ResizeSparKeepingBore(params, outer, inner) ==
    [params EXCEPT !.outer = outer, !.inner = IF inner = Null THEN params.inner ELSE inner]

\* The wall is preserved unless a bore is given.
ResizeSpar(params, outer, inner) ==
    [params EXCEPT !.outer = outer,
                   !.inner = IF inner = Null THEN outer - (params.outer - params.inner) ELSE inner]

\* The extension is of the measured tip, not of the last one.
SetWingTipExtension(params, extension) == [params EXCEPT !.tip = extension]

WingPair == LET wing == Surfaces[Min(Wings)] IN <<wing.right, wing.left>>

\* _default_targets.
Targeted(request) ==
    IF request.targets # <<>> THEN request
    ELSE [request EXCEPT !.targets =
            CASE request.operation = "resize_spar" -> <<"recon_spar">>
              [] request.operation = "set_wing_tip_extension" /\ Wings # {} -> WingPair
              [] OTHER -> <<>>]

\* What the kernel refuses that the bounds let through.
Movable(request) ==
    /\ request.operation = "translate_component" =>
         Reconstructed(request.targets[1]) = "recon_battery"
    /\ request.operation = "set_wing_tip_extension" => Wings # {}

Edited(request, params) ==
    IF request.operation = "translate_component" THEN TranslateComponent(params, request.value)
    ELSE IF request.operation = "resize_spar"
    THEN ResizeSpar(params, request.value[1], request.value[2])
    ELSE SetWingTipExtension(params, request.value)

Affected(request) ==
    CASE request.operation = "translate_component" -> {Reconstructed(request.targets[1])}
      [] request.operation = "resize_spar" -> {"recon_spar"}
      [] OTHER -> {WingPair[1], WingPair[2]}

TargetSet(request) == {request.targets[i] : i \in DOMAIN request.targets}

\* (Mutant: the collider is told the ids of the request only.)
ChangedTargets(request) == TargetSet(request)

\* Both ids of a part that has two.
Changed(request) == Affected(request) \cup TargetSet(request)

-----------------------------------------------------------------------------
(* What a preview carries forward.                                         *)

\* The manifest's placements, from where they were measured.  Every target that
\* the manifest has is moved, once for each time it is named.
Times(request, id) == Cardinality({i \in DOMAIN request.targets : request.targets[i] = id})

\* (Mutant: the placements are those of the confirmed revision.)
CarriedFromRoot(request, placed) ==
    IF request.operation # "translate_component" THEN placed
    ELSE [id \in DOMAIN placed |-> [i \in Axes |-> Times(request, id) * request.value[i]]]

CarriedPlacement(request, placed) ==
    IF request.operation # "translate_component" THEN placed
    ELSE [id \in DOMAIN placed |->
            [i \in Axes |-> placed[id][i] + Times(request, id) * request.value[i]]]

\* (Mutant: the extension is added to a span that has the last one.)
RestatedTwice(features, params, new) ==
    IF new.tip = params.tip THEN features
    ELSE [tips |-> [i \in DOMAIN features.tips |-> features.tips[i] + new.tip], stale |-> TRUE]

\* _restate_span: the last station of each surface with wing in its name, and the
\* area and chord that nobody derived again.
RestateSpan(features, params, new) ==
    IF new.tip = params.tip THEN features
    ELSE [tips |-> [i \in DOMAIN features.tips |-> features.tips[i] + (new.tip - params.tip)],
          stale |-> TRUE]

-----------------------------------------------------------------------------
(* Checks of the regenerated aircraft.                                     *)

Extent(box, i) == box.hi[i] - box.lo[i]

AsRequested(request, model, new) ==
    CASE request.operation = "translate_component" ->
           LET box == model["recon_battery"].box IN
           \A i \in Axes : box.lo[i] = new.center[i] - Battery[i] \div 2
      [] request.operation = "resize_spar" ->
           LET box == model["recon_spar"].box IN
           Extent(box, 1) = new.outer /\ Extent(box, 3) = new.outer
      [] OTHER ->
           LET pair == WingPair IN
           /\ pair[1] \in DOMAIN model /\ pair[2] \in DOMAIN model
           /\ model[pair[1]].box.hi[2] = -model[pair[2]].box.lo[2]

UnchangedParts(model, before, affected) ==
    \A id \in (DOMAIN model \cap DOMAIN before) \ affected : model[id] = before[id]

\* The names of the checks that fail; the reimport of the STEP file, in a process
\* of its own, may fail or run out of time whatever the aircraft is.
Failures(request, params, new, reimported) ==
    LET model    == Model(new)
        affected == Affected(request)
    IN CollisionFailures(model, Changed(request))
       \cup (IF reimported THEN {} ELSE {"reimport_worker"})
       \cup (IF AsRequested(request, model, new) THEN {} ELSE {"requested_change_applied"})
       \cup (IF UnchangedParts(model, Model(params), affected) THEN {}
             ELSE {"unchanged_parts_unchanged"})

Advisory == {"verified_movement_unknown"}

\* derive_status.
StatusOf(failures) == IF failures \subseteq Advisory THEN "ok" ELSE "blocked"

-----------------------------------------------------------------------------
(* apply_edit.                                                             *)

\* The parameters' file of a revision, if it has one.
ParamsOf(rev) == IF rev.params = <<>> THEN FromFeatures ELSE rev.params[1]

Known(base, key) == {e.rev : e \in {x \in index : x.base = base /\ x.key = key}}

Result(status, rev, error) == [status |-> status, rev |-> rev, error |-> error]

\* The defaults, the bounds or the kernel refuse; nothing is built.
Refuse(base, asked) ==
    LET params  == ParamsOf(base)
        request == Targeted(asked)
        code    == IF Refusal(request, params) # Null THEN Refusal(request, params)
                   ELSE IF ~Movable(request) THEN "UNSUPPORTED_EDIT" ELSE Null
    IN /\ code # Null
       /\ result' = Result("blocked", NoRevision, code)
       /\ UNCHANGED <<revisions, index, declined>>

Planned(request, params) == Refusal(request, params) = Null /\ Movable(request)

\* A NaN that the bounds let through does not come out of the regeneration.
Finite(request) ==
    request.operation = "resize_spar" => NaN \notin {request.value[1], request.value[2]}

Buildable(request, params) == Planned(request, params) /\ Finite(request)

\* (Mutant: a replay has no check that could fail.)
ReplayedAsOk(rev) == {}

\* _replayed_checks: what the store recorded of a revision it gave back.
Replayed(rev) == IF rev.status = "ok" THEN {} ELSE {"idempotent_replay"}

\* The verdict of the checks at hand.  A refused preview is declined, and whatever
\* the store raises then is ignored.
Verdict(rev, failures) ==
    IF failures \subseteq Advisory
    THEN /\ result' = Result("ok", rev, IF failures = {} THEN Null ELSE "MISSING_EVIDENCE")
         /\ UNCHANGED declined
    ELSE /\ result' = Result("blocked", rev, "CONSTRAINT_FAILED")
         /\ declined' \in {declined, declined \cup {rev}}

\* The base and the key have given a revision before: it is not built again.
Replay(base, asked, key) ==
    LET params == ParamsOf(base) IN
    /\ Planned(Targeted(asked), params)
    /\ \E rev \in Known(base, key) : Verdict(rev, Replayed(rev))
    /\ UNCHANGED <<revisions, index>>

\* Something raises while the aircraft is regenerated or exported, and the working
\* directory is deleted; or the store refuses, because another has its lock.
Fail(base, asked) ==
    LET params == ParamsOf(base) IN
    /\ Planned(Targeted(asked), params)
    /\ result' \in {Result("failed", NoRevision, "GEOMETRY_INVALID"),
                   Result("blocked", NoRevision, "CONSTRAINT_FAILED")}
    /\ UNCHANGED <<revisions, index, declined>>

Built(base, request, params, failures) ==
    LET new == Edited(request, params) IN
    [ parent |-> base, request |-> request, status |-> StatusOf(failures),
      verified |-> failures = {},
      params |-> <<new>>,
      placed |-> CarriedPlacement(request, base.placed),
      features |-> IF request.operation = "set_wing_tip_extension"
                   THEN RestateSpan(base.features, params, new) ELSE base.features ]

Preview(base, asked, key, reimported) ==
    LET params   == ParamsOf(base)
        request  == Targeted(asked)
        new      == Edited(request, params)
        failures == Failures(request, params, new, reimported)
        rev      == Built(base, request, params, failures)
    IN /\ Buildable(request, params)
       /\ Known(base, key) = {}
       /\ Reconstructs(params) /\ Reconstructs(new)
       /\ \/ Cardinality(revisions) < MAX_REVISIONS
          \/ \E r \in revisions : r.parent = base /\ r.request = request /\ r = rev
       /\ revisions' = revisions \cup {rev}
       /\ index' = IF key = NoKey THEN index
                   ELSE index \cup {[base |-> base, key |-> key, rev |-> rev]}
       /\ Verdict(rev, failures)

-----------------------------------------------------------------------------

\* What ingest confirmed: measured features, and no parameters.
Confirmed ==
    [ parent |-> NoRevision, request |-> Null, status |-> "ok", verified |-> FALSE,
      params |-> <<>>,
      placed |-> [id \in DOMAIN Manifest.parts |-> <<0, 0, 0>>],
      features |-> [ tips |-> [i \in NamedWings |-> Tip(Surfaces[i]).y],
                     stale |-> FALSE ] ]

Init ==
    /\ revisions = {Confirmed}
    /\ index = {} /\ declined = {}
    /\ result = Result("none", NoRevision, Null)

Next ==
    \E base \in revisions, asked \in Requests :
        \/ Refuse(base, asked)
        \/ Fail(base, asked)
        \/ \E key \in Keys \cup {NoKey} :
             \/ Replay(base, asked, key)
             \/ \E reimported \in BOOLEAN : Preview(base, asked, key, reimported)

Spec == Init /\ [][Next]_vars

-----------------------------------------------------------------------------
(* Properties.                                                             *)

\* A policy bound holds of whatever an edit touched, all along a chain of edits
\* of which each was checked against the parameters it started from: the pack is
\* in its corridor, the spar in its hole with a wall, the tip in range
\* (policy.check_bounds against the kernels of operations.py).
WithinPolicy ==
    LET measured == FromFeatures IN
    \A rev \in revisions :
        LET params == ParamsOf(rev) IN
        /\ params.center = measured.center \/ InCorridor(params.center)
        /\ \/ <<params.outer, params.inner>> = <<measured.outer, measured.inner>>
           \/ SparFits(params.outer, params.inner)
        /\ params.tip = 0 \/ TipInRange(params.tip)

\* The features a revision carries say the span its parameters have, though each
\* edit restates them by a difference; and once an extension was made they never
\* again pass for a measurement.
SpanIsStated ==
    \A rev \in revisions :
        LET params == ParamsOf(rev) IN
        /\ \A i \in DOMAIN rev.features.tips :
             rev.features.tips[i] = Tip(Surfaces[i]).y + params.tip
        /\ params.tip # 0 => rev.features.stale

\* The ancestors of each revision, itself included; the confirmed one, which has no
\* parameters, is an edit of none.
Ancestry ==
    LET upTo[rev \in revisions] ==
          {rev} \cup (IF rev.params = <<>> THEN {} ELSE upTo[rev.parent])
    IN upTo

\* Each edit tests only the pairs it changed, and still nothing interferes with
\* anything in a revision whose every ancestor was accepted by its checks.
CleanChains ==
    \A rev \in revisions :
        (\A r \in Ancestry[rev] : r.status = "ok")
          => Interference(Model(ParamsOf(rev)), {}) = {}

\* While the pack is moved by its occurrence in the manifest, named once, the
\* placement that the manifest carries is where the pack was regenerated.
PlacementFollows ==
    \A rev \in revisions, id \in DOMAIN Manifest.parts :
        (\A r \in Ancestry[rev] :
            r.params # <<>> /\ r.request.operation = "translate_component" =>
                r.request.targets = <<id>>)
          => \A i \in Axes :
               rev.placed[id][i] = IF Reconstructed(id) = "recon_battery"
                                   THEN ParamsOf(rev).center[i] - FromFeatures.center[i]
                                   ELSE 0

\* Whether a call built a revision or was given one, what it answers is what the
\* revision says of itself, with a reason; and only what its checks refused is declined.
VerdictsAgree ==
    /\ result.rev # NoRevision =>
         /\ result.rev \in revisions
         /\ result.status = result.rev.status
    /\ \A rev \in declined : rev.status = "blocked"
    /\ result.status \in {"blocked", "failed"} => result.error # Null

\* A claim the code does not keep, store.py: a revision that is not ok "is a
\* preview that exists so a human can read why it was refused, never a design".
\* An edit of a refused preview inherits what was wrong with it, does not test it
\* again, and may be committed.
CommittableIsClean ==
    \A rev \in revisions :
        rev.status = "ok" => Interference(Model(ParamsOf(rev)), {}) = {}
=============================================================================
