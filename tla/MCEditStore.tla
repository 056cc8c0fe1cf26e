---------------------------- MODULE MCEditStore ----------------------------
(***************************************************************************)
(* EditStore for TLC: two confirmations of one archive, two edits of the   *)
(* first, one of which is blocked, and an edit of the other edit.          *)
(***************************************************************************)
EXTENDS EditStore, TLC

CONSTANTS imported, mirrored, moved, blocked, extended

MCRevisions == {imported, mirrored, moved, blocked, extended}
MCParent    == (imported :> NoRevision) @@ (mirrored :> NoRevision) @@ (moved :> imported)
                 @@ (blocked :> imported) @@ (extended :> moved)
MCPassing   == MCRevisions \ {blocked}

Symmetry == Permutations(Procs)

=============================================================================
