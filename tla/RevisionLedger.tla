--------------------------- MODULE RevisionLedger ---------------------------
(***************************************************************************)
(* What the workflow package promises of a design: one active revision     *)
(* that moves only to a revision the design keeps in its timeline, a       *)
(* timeline that only grows, and a decision store that is written once per *)
(* key and records an acceptance in the very step that activates what was  *)
(* accepted.  How requests interleave, fail or repeat is not its business. *)
(***************************************************************************)
EXTENDS Naturals, Sequences

CONSTANTS Keys, NoDecision

VARIABLES revs, active, timeline, decisions

ledger == <<revs, active, timeline, decisions>>

InTimeline(r) == \E i \in DOMAIN timeline : timeline[i] = r

\* A design in some revision it has been in.
Init ==
    /\ active \in revs
    /\ \A i \in DOMAIN timeline : timeline[i] \in revs
    /\ InTimeline(active)
    /\ decisions = [k \in Keys |-> NoDecision]

\* Revisions are sealed and stay.
Seal == revs \subseteq revs' /\ UNCHANGED <<active, timeline, decisions>>

\* The pointer moves to a sealed revision, which joins the timeline's end on
\* its first activation.
Switch(r) ==
    /\ r.stage # "staged_preview"
    /\ active' = r
    /\ timeline' = IF InTimeline(r) THEN timeline ELSE Append(timeline, r)
    /\ UNCHANGED revs

\* Import, confirm and undo switch and decide nothing.
Activate == (\E r \in revs : Switch(r)) /\ UNCHANGED decisions

\* An acceptance switches and is recorded, unless its key already is.
Commit ==
    \E r \in revs, k \in Keys :
        /\ Switch(r)
        /\ \A other \in Keys \ {k} : decisions'[other] = decisions[other]
        /\ IF decisions[k] = NoDecision
           THEN decisions'[k].decision = "accept" /\ decisions'[k].committed = r
           ELSE decisions'[k] = decisions[k]

\* A decline is recorded, unless its key already is, and moves nothing.
Decline ==
    \E k \in Keys :
        /\ UNCHANGED <<revs, active, timeline>>
        /\ \A other \in Keys \ {k} : decisions'[other] = decisions[other]
        /\ decisions[k] = NoDecision
        /\ decisions'[k].decision = "decline"

Next == Seal \/ Activate \/ Commit \/ Decline

Spec == Init /\ [][Next]_ledger

=============================================================================
