----------------------------- MODULE EditPolicy -----------------------------
(***************************************************************************)
(* What an edit of the reconstruction may ask (dronebench_edits/policy.py  *)
(* and edit_policy.yaml): who may be edited, and within which bounds.      *)
(*                                                                         *)
(* Lengths are integers in half millimetres.  A request is                 *)
(* [operation, targets, value]; the value is the displacement <<x, y, z>>, *)
(* the diameters <<outer, inner>>, or the extension, and Null where the    *)
(* caller gave none or something that is no number; a bore that is no      *)
(* number is NoNumber, and a diameter may be NaN.                          *)
(***************************************************************************)
EXTENDS Integers, Sequences

CONSTANTS
    Null, NoNumber, NaN,
    Policy,     \* edit_policy.yaml
    Manifest    \* the design's occurrences and the wing variant that was confirmed

\* What is missing is not an error code.
ASSUME NullIsNoCode ==
    Null \notin {"UNSUPPORTED_EDIT", "CONSTRAINT_FAILED", "GEOMETRY_INVALID"}

Axes == 1..3

\* The operations the kernel has, and the capability each needs.
Capability == [ translate_component    |-> "translate",
                resize_spar            |-> "resize_spar",
                set_wing_tip_extension |-> "wing_tip_extension" ]

-----------------------------------------------------------------------------
(* Targets.                                                                *)

\* A part of the manifest answers for itself and may stand for a part of the
\* reconstruction; a part of the reconstruction is in the policy's table.
Reconstructed(id) ==
    IF id \in DOMAIN Manifest.parts /\ Manifest.parts[id].category \in DOMAIN Policy.aliases
    THEN Policy.aliases[Manifest.parts[id].category]
    ELSE id

Capabilities(id) ==
    IF id \in DOMAIN Manifest.parts
    THEN IF Manifest.parts[id].locked THEN {} ELSE Manifest.parts[id].capabilities
    ELSE IF id \in DOMAIN Policy.targets THEN Policy.targets[id]
    ELSE {}

Supported(request) ==
    /\ request.operation \in DOMAIN Capability
    /\ request.targets # <<>>
    /\ \A i \in DOMAIN request.targets :
         Capability[request.operation] \in Capabilities(request.targets[i])

-----------------------------------------------------------------------------
(* Numbers.                                                                *)

\* The hole of the confirmed wing rib; none is known where no variant was
\* confirmed, the variant is not declared, or the rib has no hole.
HoleKnown ==
    /\ Manifest.selected \in DOMAIN Policy.holes
    /\ Policy.holes[Manifest.selected] # Null

InCorridor(center) ==
    \A i \in Axes : Policy.corridor[i].low <= center[i] /\ center[i] <= Policy.corridor[i].high

\* The spar's diameters that the policy lets a resize leave.
OuterFits(outer) ==
    /\ Policy.minOuter <= outer
    /\ HoleKnown /\ outer <= Policy.holes[Manifest.selected]

SparFits(outer, inner) ==
    /\ OuterFits(outer)
    /\ 0 <= inner
    /\ 2 * Policy.wallFloor <= outer - inner

TipInRange(extension) == Policy.tip.low <= extension /\ extension <= Policy.tip.high

Square(n) == n * n

TranslateInBounds(request, params) ==
    LET delta == request.value IN
    /\ delta # Null
    /\ Square(delta[1]) + Square(delta[2]) + Square(delta[3]) <= Square(Policy.harness)
    /\ InCorridor([i \in Axes |-> params.center[i] + delta[i]])

\* No comparison with NaN holds, so none refuses it.
FitsUnlessNaN(outer, bore) ==
    /\ HoleKnown
    /\ outer # NaN => OuterFits(outer)
    /\ bore \notin {Null, NaN} => 0 <= bore

\* Without a bore the wall stays what it is.
ResizeInBounds(request, params) ==
    LET outer == request.value[1]
        bore  == request.value[2]
    IN /\ outer # Null /\ bore # NoNumber
       /\ IF NaN \in {outer, bore} THEN FitsUnlessNaN(outer, bore)
          ELSE SparFits(outer, IF bore = Null THEN outer - (params.outer - params.inner) ELSE bore)

InBounds(request, params) ==
    /\ request.operation = "translate_component" => TranslateInBounds(request, params)
    /\ request.operation = "resize_spar" => ResizeInBounds(request, params)
    /\ request.operation = "set_wing_tip_extension" =>
         request.value # Null /\ TipInRange(request.value)

\* check_bounds: the code of its refusal, or Null.
Refusal(request, params) ==
    IF ~Supported(request) THEN "UNSUPPORTED_EDIT"
    ELSE IF ~InBounds(request, params) THEN "CONSTRAINT_FAILED"
    ELSE Null
=============================================================================
