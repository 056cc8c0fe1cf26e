--------------------------- MODULE MCDecisionPath ---------------------------
(***************************************************************************)
(* DecisionPath for TLC: proposals, threads and keys are interchangeable.  *)
(***************************************************************************)
EXTENDS DecisionPath, TLC

Symmetry == Permutations(Proposals) \cup Permutations(Handlers)
            \cup Permutations(Keys)

=============================================================================
