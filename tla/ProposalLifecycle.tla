------------------------- MODULE ProposalLifecycle -------------------------
(***************************************************************************)
(* The proposal state machine of the contracts package                     *)
(* (dronebench_contracts/recommend.py).  The table is data: the guard      *)
(* assert_transition reads it, and the workflow calls that guard on some   *)
(* of its writes only.                                                     *)
(***************************************************************************)

\* The literal type ProposalState.
ProposalStates == {"proposed", "previewing", "review_ready", "blocked",
                   "declined", "committing", "committed", "stale", "failed"}

\* ALLOWED_TRANSITIONS: the legal targets of each state.
AllowedTransitions ==
    [s \in ProposalStates |->
        CASE s = "proposed"     -> {"previewing", "blocked"}
          [] s = "previewing"   -> {"review_ready", "blocked", "failed"}
          [] s = "review_ready" -> {"declined", "committing", "stale"}
          [] s = "blocked"      -> {"declined"}
          [] s = "committing"   -> {"committed", "stale", "failed"}
          [] OTHER              -> {}]

\* assert_transition(from, to) returns rather than raises.
Legal(from, to) == to \in AllowedTransitions[from]

=============================================================================
