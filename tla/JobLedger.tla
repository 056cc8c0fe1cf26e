----------------------------- MODULE JobLedger ------------------------------
(***************************************************************************)
(* What the jobs table promises whoever polls it: a job is queued or       *)
(* answered from the cache, a queued job may start, a started job ends     *)
(* once, and a job that has ended keeps its record, until a later process  *)
(* issues the same id again.  A cached answer repeats a job that did       *)
(* succeed.                                                                *)
(***************************************************************************)
EXTENDS Naturals

CONSTANTS JobIds, NoRow

VARIABLES jobs, restarts

ledger == <<jobs, restarts>>

Ended == {"succeeded", "failed", "cancelled"}

Init == jobs = [id \in JobIds |-> NoRow] /\ restarts = 0

\* Only row id changes.
Touch(id) == \A other \in JobIds \ {id} : jobs'[other] = jobs[other]

Issue(id) ==
    /\ jobs[id] = NoRow \/ restarts > 0
    /\ Touch(id)
    /\ \/ jobs'[id].status = "queued"
       \/ /\ jobs'[id].status = "succeeded"
          /\ jobs'[id].reused \in JobIds
          /\ restarts = 0 => /\ jobs[jobs'[id].reused].status = "succeeded"
                             /\ jobs[jobs'[id].reused].result = jobs'[id].result

Start(id) ==
    /\ jobs[id].status = "queued"
    /\ Touch(id)
    /\ jobs'[id].status = "running"

End(id) ==
    /\ jobs[id].status = "running"
    /\ Touch(id)
    /\ jobs'[id].status \in Ended

Next ==
    \/ UNCHANGED restarts /\ \E id \in JobIds : Issue(id) \/ Start(id) \/ End(id)
    \/ restarts' = restarts + 1 /\ UNCHANGED jobs

Spec == Init /\ [][Next]_ledger

=============================================================================
