---------------------------- MODULE ReferenceCad ----------------------------
(***************************************************************************)
(* The parametric CAD port: it applies one operation to a design and       *)
(* refuses a result that changed a part outside it or makes parts collide. *)
(*                                                                         *)
(* An operation is a record with op and target, and for                    *)
(*   translate_component        axis and delta                             *)
(*   resize_spar                outer, inner and mounts                    *)
(*   set_wing_tip_extension     ext and paired                             *)
(*   replace_catalog_component  item (an id)                               *)
(***************************************************************************)
EXTENDS Airframe

Operations ==
  [op : {"translate_component"}, target : STRING, axis : {"x", "y", "z"}, delta : Int]
  \cup [op : {"resize_spar"}, target : STRING, outer : Int, inner : Int, mounts : SUBSET STRING]
  \cup [op : {"set_wing_tip_extension"}, target : STRING, ext : Int, paired : STRING]
  \cup [op : {"replace_catalog_component"}, target : STRING, item : STRING]

Owned(o) ==
  {o.target} \cup (IF o.op = "resize_spar" THEN o.mounts ELSE {})
             \cup (IF o.op = "set_wing_tip_extension" THEN {o.paired} ELSE {})
ItemOf(id) == CHOOSE i \in {Items[k] : k \in DOMAIN Items} : i.id = id

\* Only moves along the body axis change what the model keeps of a placement.
Translate(d, o) == IF o.axis = "x" THEN [d EXCEPT !.x[o.target] = @ + o.delta] ELSE d

Resize(d, o) ==
  [d EXCEPT !.tube = [outer |-> o.outer, inner |-> o.inner],
            !.mass[o.target] = TubeMass(o.outer, o.inner),
            !.size[o.target] = o.outer,
            !.bore = IF o.mounts = {} THEN @ ELSE o.outer]

\* The loop is over the two panels and the assignment is to their definition.
ExtendPanel(d, p, ext) == [d EXCEPT !.tip[Def[p]] = @ + ext]
ExtendTip(d, o) ==
  LET Restated(both) ==
        IF Known(d.span) /\ Known(d.area)
        THEN [both EXCEPT !.span = @ + 2 * o.ext, !.area = @ + Strip * o.ext]
        ELSE both
  IN Restated(ExtendPanel(ExtendPanel(d, o.target, o.ext), o.paired, o.ext))

\* The item's claims are merged over the part's: what it declares replaces, established or not,
\* and what it does not declare stays.
Merge(old, new) == [k \in DOMAIN old |-> IF k \in DOMAIN new THEN new[k] ELSE old[k]]
Replace(d, o) ==
  LET With(item) ==
        [d EXCEPT !.mass[o.target] = item.mass,
                  !.size[o.target] = IF Known(item.size) THEN item.size ELSE @,
                  !.pack = IF Role[o.target] = "battery" THEN Merge(@, item.claims) ELSE @]
  IN With(ItemOf(o.item))

EditedParts(d, o) ==
  CASE o.op = "translate_component" -> Translate(d, o)
    [] o.op = "resize_spar" -> Resize(d, o)
    [] o.op = "set_wing_tip_extension" -> ExtendTip(d, o)
    [] o.op = "replace_catalog_component" -> Replace(d, o)

\* A semantic fingerprint of an occurrence: its box and its placement.
Signature(d, p) == <<d.size[p], d.x[p]>>
Drifted(d, e, o) == {p \in Parts \ Owned(o) : Signature(d, p) # Signature(e, p)}

ApplyEdit(d, o) ==
  LET Outcome(e) == [ok |-> Drifted(d, e, o) = {} /\ ~Clashes(e), parts |-> e]
  IN Outcome(EditedParts(d, o))
=============================================================================
