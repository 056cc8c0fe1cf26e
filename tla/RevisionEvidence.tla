-------------------------- MODULE RevisionEvidence --------------------------
(***************************************************************************)
(* The results attached to one committed revision after it was sealed: its *)
(* evaluation and its simulation run, requested by concurrent handlers and *)
(* computed by pool workers (dronebench_api/service.py over                *)
(* dronebench_workflow/store.py).                                          *)
(*                                                                         *)
(* A result lives in three places: the bytes at its path, its entry with   *)
(* the bytes' checksum in the revision's manifest, and a row of the table  *)
(* artifacts.  Two runs of one kind give results that differ in elapsed_s  *)
(* only, so a checksum is named by the run that took it.  The evaluator    *)
(* of the service is analytic: asked for another tier it answers with an   *)
(* analytic evaluation that says so, whose bytes are other ones.  The      *)
(* design's mission and registry are fixed by its import.                  *)
(***************************************************************************)
EXTENDS Naturals, FiniteSets

CONSTANTS
    Clients,      \* request threads
    NoRun,        \* nothing computed
    MaxRequests,  \* bound: requests
    MaxTroubles   \* bound: waits given up after 30 s, and cancels of queued jobs

ASSUME EvidenceBounds == MaxRequests \in Nat /\ MaxTroubles \in Nat /\ NoRun \notin Nat

VARIABLES
    stored,    \* the bytes at each result's path
    partial,   \* the bytes at each path's .partial
    manifest,  \* manifest_json: the checksum of each attached result
    rows,      \* table artifacts: the checksums of each kind
    runs,      \* the jobs: what each is computing and where it is
    clients,   \* what each request thread is doing
    reused,    \* an evaluation that was found was recorded as a succeeded job
    requests, timeouts, cancels

vars == <<stored, partial, manifest, rows, runs, clients, reused, requests,
          timeouts, cancels>>

-----------------------------------------------------------------------------

Kinds == {"evaluation", "simulation_run"}

\* What EvaluateBody.fidelity asks for: what the evaluator has, or what it has not.
Tiers == {"analytic", "vspaero_informed"}

\* A request starts two jobs at most.
RunIds == 1..(2 * MaxRequests)

\* CONCURRENCY of the kinds evaluate and simulate.
Concurrency == [kind \in Kinds |-> IF kind = "evaluation" THEN 1 ELSE 2]

NoTask == [kind |-> "none", tier |-> "analytic", pc |-> "none",
           seen |-> [kind \in Kinds |-> NoRun]]
Idle   == [goal |-> "none", tier |-> "analytic", pc |-> "idle", run |-> NoRun]

RunAt(r, pc)    == runs[r].pc = pc
RunTo(r, pc)    == runs' = [runs EXCEPT ![r].pc = pc]
Of(r)           == runs[r].kind
ClientAt(c, pc) == clients[c].pc = pc
ClientTo(c, pc) == clients' = [clients EXCEPT ![c].pc = pc]
Returns(c)      == clients' = [clients EXCEPT ![c] = Idle]

Disk   == <<stored, partial>>
Tables == <<manifest, rows>>
Bounds == <<requests, timeouts, cancels>>

MayTrouble == timeouts + cancels < MaxTroubles

\* find_cached_job: a record of the kind and tier says succeeded.
Succeeded(kind, tier) ==
    \/ \E r \in RunIds : RunAt(r, "done") /\ Of(r) = kind /\ runs[r].tier = tier
    \/ kind = "evaluation" /\ tier = "analytic" /\ reused

\* What the handler's current job computes.
Wanted(c) == IF ClientAt(c, "lookup") \/ ClientAt(c, "enqueue") \/ ClientAt(c, "wait")
             THEN "evaluation" ELSE "simulation_run"

-----------------------------------------------------------------------------
(* Handlers.  evaluate loads the revision and returns the evaluation found *)
(* there, or looks for a job that computed it, or starts one and waits.    *)
(* simulate, recommend and compare go through require_evaluation, which    *)
(* loads once more; simulate then does the same for its run.               *)

Asks(c, goal, tier, pc) ==
    clients' = [clients EXCEPT ![c] = [goal |-> goal, tier |-> tier, pc |-> pc, run |-> NoRun]]

Arrive(c) ==
    /\ ClientAt(c, "idle") /\ requests < MaxRequests
    /\ \/ \E tier \in Tiers : Asks(c, "evaluate", tier, "load")
       \/ \E goal \in {"require", "simulate"} : Asks(c, goal, "analytic", "require")
    /\ requests' = requests + 1
    /\ UNCHANGED <<Disk, Tables, runs, reused, timeouts, cancels>>

\* The evaluation is there: only simulate goes on.
HasEvaluation(c) ==
    IF clients[c].goal = "simulate" THEN ClientTo(c, "simulate") ELSE Returns(c)

\* An evaluation found is the answer if it has the tier asked for, which is analytic
\* whatever the evaluator was asked for.
Load(c) ==
    /\ ClientAt(c, "require") \/ ClientAt(c, "load")
    /\ IF manifest["evaluation"] # NoRun /\ clients[c].tier = "analytic"
       THEN HasEvaluation(c) /\ reused' = (reused \/ ClientAt(c, "load"))
       ELSE /\ ClientTo(c, IF ClientAt(c, "require") THEN "load" ELSE "lookup")
            /\ UNCHANGED reused
    /\ UNCHANGED <<Disk, Tables, runs, Bounds>>

\* (Mutant: the lookup finds a job that is still running.)
LookupStarted(c) ==
    /\ ClientAt(c, "lookup") \/ ClientAt(c, "simulate")
    /\ IF \E r \in RunIds : Of(r) = Wanted(c) /\ ~RunAt(r, "failed")
       THEN ClientTo(c, IF ClientAt(c, "lookup") THEN "reload" ELSE "read")
       ELSE ClientTo(c, IF ClientAt(c, "lookup") THEN "enqueue" ELSE "enqueue run")
    /\ UNCHANGED <<Disk, Tables, runs, reused, Bounds>>

\* submit: a cached job, whose artifacts are then read, or a new one.
Lookup(c) ==
    /\ ClientAt(c, "lookup") \/ ClientAt(c, "simulate")
    /\ IF Succeeded(Wanted(c), clients[c].tier)
       THEN ClientTo(c, IF ClientAt(c, "lookup") THEN "reload" ELSE "read")
       ELSE ClientTo(c, IF ClientAt(c, "lookup") THEN "enqueue" ELSE "enqueue run")
    /\ UNCHANGED <<Disk, Tables, runs, reused, Bounds>>

\* submit's new job.
Enqueue(c) ==
    /\ ClientAt(c, "enqueue") \/ ClientAt(c, "enqueue run")
    /\ \E r \in RunIds :
         /\ RunAt(r, "none") /\ \A k \in 1..(r - 1) : ~RunAt(k, "none")
         /\ runs' = [runs EXCEPT ![r] = [NoTask EXCEPT !.kind = Wanted(c), !.pc = "queued",
                                                      !.tier = clients[c].tier]]
         /\ clients' = [clients EXCEPT ![c] =
                [goal |-> clients[c].goal, tier |-> clients[c].tier, run |-> r,
                 pc |-> IF ClientAt(c, "enqueue") THEN "wait" ELSE "wait run"]]
    /\ UNCHANGED <<Disk, Tables, reused, Bounds>>

\* The job popped itself from _running, or its future ended.  A failed job is an
\* error; one that was cancelled leaves the handler to look on the revision; else
\* it has the result in memory.
WaitEnds(c) ==
    /\ ClientAt(c, "wait") \/ ClientAt(c, "wait run")
    /\ LET pc == runs[clients[c].run].pc IN
       \/ pc = "failed" /\ Returns(c)
       \/ pc = "dropped" /\ ClientTo(c, IF ClientAt(c, "wait") THEN "reload" ELSE "read")
       \/ pc \in {"end", "done"} /\ IF ClientAt(c, "wait") THEN HasEvaluation(c) ELSE Returns(c)
    /\ UNCHANGED <<Disk, Tables, runs, reused, Bounds>>

\* The wait is given up: the result is in memory once it was computed, or is
\* looked for on the revision.
WaitTimesOut(c) ==
    /\ MayTrouble
    /\ ClientAt(c, "wait") \/ ClientAt(c, "wait run")
    /\ LET pc == runs[clients[c].run].pc IN
       \/ /\ pc \in {"queued", "work"}
          /\ ClientTo(c, IF ClientAt(c, "wait") THEN "reload" ELSE "read")
       \/ /\ pc \in {"write", "partial", "replace", "read", "attach"}
          /\ IF ClientAt(c, "wait") THEN HasEvaluation(c) ELSE Returns(c)
    /\ timeouts' = timeouts + 1
    /\ UNCHANGED <<Disk, Tables, runs, reused, requests, cancels>>

\* A cancel drops a job no worker has taken; the work of one that runs does not
\* look at the event.
Cancel(r) ==
    /\ MayTrouble
    /\ RunAt(r, "queued")
    /\ RunTo(r, "dropped")
    /\ cancels' = cancels + 1
    /\ UNCHANGED <<Disk, Tables, clients, reused, requests, timeouts>>

\* Found or not; require_evaluation turns "not" into an error.
Reload(c) ==
    /\ ClientAt(c, "reload")
    /\ IF manifest["evaluation"] # NoRun THEN HasEvaluation(c) ELSE Returns(c)
    /\ UNCHANGED <<Disk, Tables, runs, reused, Bounds>>

ReadRun(c) ==
    /\ ClientAt(c, "read")
    /\ Returns(c)
    /\ UNCHANGED <<Disk, Tables, runs, reused, Bounds>>

-----------------------------------------------------------------------------
(* Workers: compute, ArtifactStore.write, _attach_artifact, the record.    *)

Busy(kind) == {r \in RunIds : Of(r) = kind /\ runs[r].pc \notin {"queued", "dropped", "failed", "done"}}

PickUp(r) ==
    /\ RunAt(r, "queued")
    /\ Cardinality(Busy(Of(r))) < Concurrency[Of(r)]
    /\ RunTo(r, "work")
    /\ UNCHANGED <<Disk, Tables, clients, reused, Bounds>>

\* The solver raises or returns.
Compute(r) ==
    /\ RunAt(r, "work")
    /\ RunTo(r, "write") \/ RunTo(r, "failed")
    /\ UNCHANGED <<Disk, Tables, clients, reused, Bounds>>

\* Bytes that are there already and differ in timing only stay; the artifact
\* returned is that of the new bytes all the same.  Other bytes are an
\* ImmutabilityError, and the job fails.
CheckPath(r) ==
    /\ RunAt(r, "write")
    /\ LET present == stored[Of(r)] IN
       RunTo(r, IF present = NoRun THEN "partial"
                ELSE IF runs[present].tier = runs[r].tier THEN "read" ELSE "failed")
    /\ UNCHANGED <<Disk, Tables, clients, reused, Bounds>>

WritePartial(r) ==
    /\ RunAt(r, "partial")
    /\ partial' = [partial EXCEPT ![Of(r)] = r]
    /\ RunTo(r, "replace")
    /\ UNCHANGED <<stored, Tables, clients, reused, Bounds>>

\* (Mutant: the rename is tried again until there is a .partial.)
ReplaceOrRetry(r) ==
    /\ RunAt(r, "replace")
    /\ IF partial[Of(r)] # NoRun
       THEN /\ stored' = [stored EXCEPT ![Of(r)] = partial[Of(r)]]
            /\ partial' = [partial EXCEPT ![Of(r)] = NoRun]
            /\ RunTo(r, "read")
       ELSE UNCHANGED <<Disk, runs>>
    /\ UNCHANGED <<Tables, clients, reused, Bounds>>

\* The rename; it raises when another worker has renamed the one .partial, and
\* the job fails.
Replace(r) ==
    /\ RunAt(r, "replace")
    /\ IF partial[Of(r)] # NoRun
       THEN /\ stored' = [stored EXCEPT ![Of(r)] = partial[Of(r)]]
            /\ partial' = [partial EXCEPT ![Of(r)] = NoRun]
            /\ RunTo(r, "read")
       ELSE UNCHANGED Disk /\ RunTo(r, "failed")
    /\ UNCHANGED <<Tables, clients, reused, Bounds>>

\* _attach_artifact reads the manifest before it takes the lock.
ReadManifest(r) ==
    /\ RunAt(r, "read")
    /\ runs' = [runs EXCEPT ![r].pc = "attach", ![r].seen = manifest]
    /\ UNCHANGED <<Disk, Tables, clients, reused, Bounds>>

\* (Mutant: the manifest is started anew.)
AttachAlone(r) ==
    /\ RunAt(r, "attach")
    /\ manifest' = [kind \in Kinds |-> IF kind = Of(r) THEN r ELSE NoRun]
    /\ rows' = [rows EXCEPT ![Of(r)] = @ \cup {r}]
    /\ RunTo(r, "end")
    /\ UNCHANGED <<Disk, clients, reused, Bounds>>

\* The whole manifest is written back, and the artifact's row.
Attach(r) ==
    /\ RunAt(r, "attach")
    /\ manifest' = [runs[r].seen EXCEPT ![Of(r)] = r]
    /\ rows' = [rows EXCEPT ![Of(r)] = @ \cup {r}]
    /\ RunTo(r, "end")
    /\ UNCHANGED <<Disk, clients, reused, Bounds>>

RecordSuccess(r) ==
    /\ RunAt(r, "end")
    /\ RunTo(r, "done")
    /\ UNCHANGED <<Disk, Tables, clients, reused, Bounds>>

-----------------------------------------------------------------------------

Nothing == [kind \in Kinds |-> NoRun]

\* confirm and accept seal a revision without either result.
Init ==
    /\ stored = Nothing /\ partial = Nothing /\ manifest = Nothing
    /\ rows = [kind \in Kinds |-> {}]
    /\ runs = [r \in RunIds |-> NoTask]
    /\ clients = [c \in Clients |-> Idle]
    /\ reused = FALSE /\ requests = 0 /\ timeouts = 0 /\ cancels = 0

Handle(c) ==
    \/ Load(c) \/ Lookup(c) \/ Enqueue(c) \/ WaitEnds(c) \/ Reload(c) \/ ReadRun(c)

Run(r) ==
    \/ PickUp(r) \/ Compute(r) \/ CheckPath(r) \/ WritePartial(r) \/ Replace(r)
    \/ ReadManifest(r) \/ Attach(r) \/ RecordSuccess(r)

Next ==
    \/ \E c \in Clients : Arrive(c) \/ Handle(c) \/ WaitTimesOut(c)
    \/ \E r \in RunIds : Run(r) \/ Cancel(r)

\* Threads that can run do.
Fairness ==
    /\ \A c \in Clients : WF_vars(Handle(c))
    /\ \A r \in RunIds : WF_vars(Run(r))

Spec == Init /\ [][Next]_vars /\ Fairness

-----------------------------------------------------------------------------
(* Properties.                                                             *)

\* An attached evaluation stays attached, though workers write back manifests
\* that they read earlier: a simulation starts after its evaluation is attached,
\* unless a wait was given up.
EvaluationKept ==
    [][timeouts = 0 /\ manifest["evaluation"] # NoRun => manifest'["evaluation"] # NoRun]_vars

\* service.py:509, "evaluate raises on failure": when a job succeeded, the
\* evaluation is found on the revision, and require_evaluation has an answer,
\* unless a wait was given up or a job cancelled.
RequireFindsEvaluation ==
    timeouts = 0 /\ cancels = 0 =>
        \A c \in Clients : ClientAt(c, "reload") => manifest["evaluation"] # NoRun

\* Every request is answered: no job hangs on another's file.
RequestsAnswered == \A c \in Clients : ~ClientAt(c, "idle") ~> ClientAt(c, "idle")

=============================================================================
