----------------------------- MODULE MCJobQueue -----------------------------
(***************************************************************************)
(* JobQueue for TLC: the evaluate pool, which has one worker.              *)
(***************************************************************************)
EXTENDS JobQueue, TLC

MCKinds    == {"evaluate"}
MCLimit    == [kind \in MCKinds |-> 1]
MCUncached == {}

Symmetry == Permutations(Clients) \cup Permutations(CacheKeys)

=============================================================================
