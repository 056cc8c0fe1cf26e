----------------------- MODULE RevisionEvidenceProofs -----------------------
(***************************************************************************)
(* The results of one revision, for any request threads, any number of     *)
(* requests, time-outs and cancels.                                        *)
(***************************************************************************)
EXTENDS RevisionEvidence, TLAPS

-----------------------------------------------------------------------------
(* Types.                                                                  *)

Results == RunIds \cup {NoRun}

RunSteps ==
    {"none", "queued", "work", "write", "partial", "replace", "read", "attach", "end", "done",
     "failed", "dropped"}

RunRecords ==
    [kind : Kinds \cup {"none"}, tier : Tiers, pc : RunSteps, seen : [Kinds -> Results]]

ClientSteps ==
    {"idle", "require", "load", "lookup", "enqueue", "wait", "reload", "simulate", "enqueue run",
     "wait run", "read"}

ClientRecords ==
    [goal : {"none", "evaluate", "require", "simulate"}, tier : Tiers, pc : ClientSteps,
     run : Results]

EvidenceTypes ==
    /\ {stored, partial, manifest} \subseteq [Kinds -> Results]
    /\ rows \in [Kinds -> SUBSET RunIds]
    /\ runs \in [RunIds -> RunRecords]
    /\ clients \in [Clients -> ClientRecords]
    /\ reused \in BOOLEAN
    /\ {requests, timeouts, cancels} \subseteq Nat

-----------------------------------------------------------------------------
(* The inductive invariant.                                                *)

Evaluated == manifest["evaluation"] # NoRun

\* While no wait was given up a simulation runs on a revision that has its
\* evaluation, and the manifest it read to attach itself to has it too.
RunInv(r) ==
    /\ ~RunAt(r, "none") => Of(r) \in Kinds
    /\ cancels = 0 => ~RunAt(r, "dropped")
    /\ timeouts = 0 =>
         /\ Of(r) = "evaluation" /\ runs[r].pc \in {"end", "done"} => Evaluated
         /\ Of(r) = "simulation_run" => Evaluated
         /\ Of(r) = "simulation_run" /\ RunAt(r, "attach") =>
              runs[r].seen["evaluation"] # NoRun

\* A handler that is past its evaluation has it on the revision.
ClientInv(c) ==
    /\ ClientAt(c, "wait") \/ ClientAt(c, "wait run") =>
         /\ clients[c].run \in RunIds /\ ~RunAt(clients[c].run, "none")
         /\ ClientAt(c, "wait") => Of(clients[c].run) = "evaluation"
    /\ timeouts = 0 =>
         /\ clients[c].pc \in {"simulate", "enqueue run", "wait run", "read"} => Evaluated
         /\ cancels = 0 /\ ClientAt(c, "reload") => Evaluated

EvidenceInv ==
    /\ EvidenceTypes
    /\ timeouts = 0 /\ reused => Evaluated
    /\ \A r \in RunIds : RunInv(r)
    /\ \A c \in Clients : ClientInv(c)

-----------------------------------------------------------------------------

LEMMA RunsAreNumbers == RunIds \subseteq Nat /\ NoRun \notin RunIds
BY EvidenceBounds DEF RunIds

LEMMA NoTaskTyped == NoTask \in RunRecords /\ Idle \in ClientRecords
BY DEF NoTask, RunRecords, RunSteps, Idle, ClientRecords, ClientSteps, Results, Tiers

LEMMA InitEvidenceInv == Init => EvidenceInv
<1> SUFFICES ASSUME Init PROVE EvidenceInv
  OBVIOUS
<1>1. EvidenceTypes
  <2>1. Nothing \in [Kinds -> Results]
    BY DEF Nothing, Results
  <2>2. [kind \in Kinds |-> {}] \in [Kinds -> SUBSET RunIds]
    OBVIOUS
  <2>3. runs \in [RunIds -> RunRecords] /\ clients \in [Clients -> ClientRecords]
    BY NoTaskTyped DEF Init
  <2> QED
    <3>1. {stored, partial, manifest} \subseteq [Kinds -> Results]
      BY <2>1 DEF Init
    <3>2. rows \in [Kinds -> SUBSET RunIds]
      BY <2>2 DEF Init
    <3>3. {requests, timeouts, cancels} \subseteq Nat
      BY DEF Init
    <3>4. reused \in BOOLEAN
      BY Zenon DEF Init
    <3> QED
      BY <2>3, <3>1, <3>2, <3>3, <3>4 DEF EvidenceTypes
<1>2. /\ \A r \in RunIds : runs[r].pc = "none" /\ runs[r].kind = "none"
      /\ \A c \in Clients : clients[c].pc = "idle"
  BY DEF Init, NoTask, Idle
<1>3. \A r \in RunIds : RunInv(r)
  BY <1>2 DEF RunInv, RunAt, Of
<1>4. \A c \in Clients : ClientInv(c)
  BY <1>2 DEF ClientInv, ClientAt
<1> QED
  BY <1>1, <1>3, <1>4 DEF EvidenceInv, Init

\* A handler's step: it moves on, and at most a found evaluation is recorded.
LEMMA HandlerMoves ==
    ASSUME EvidenceInv, NEW c \in Clients, NEW now \in ClientRecords,
           clients' = [clients EXCEPT ![c] = now],
           now.pc \notin {"wait", "wait run"},
           UNCHANGED <<Disk, Tables, runs, cancels>>,
           reused' \in BOOLEAN, {requests', timeouts'} \subseteq Nat,
           timeouts' = 0 =>
             /\ timeouts = 0
             /\ reused' => reused \/ Evaluated
             /\ now.pc \in {"simulate", "enqueue run", "read"} => Evaluated
             /\ cancels = 0 /\ now.pc = "reload" => Evaluated
    PROVE  EvidenceInv'
<1>1. EvidenceTypes'
  BY DEF EvidenceInv, EvidenceTypes, Disk, Tables
<1>2. /\ \A d \in Clients : clients'[d] = IF d = c THEN now ELSE clients[d]
      /\ UNCHANGED <<manifest, runs, cancels>>
  BY DEF EvidenceInv, EvidenceTypes, Tables
<1>3. ASSUME NEW d \in Clients PROVE ClientInv(d)'
  <2>1. ClientInv(d)
    BY DEF EvidenceInv
  <2>2. CASE d = c
    BY <1>2, <2>2 DEF ClientInv, ClientAt, RunAt, Of, Evaluated
  <2>3. CASE d # c
    BY <1>2, <2>1, <2>3 DEF ClientInv, ClientAt, RunAt, Of, Evaluated
  <2> QED
    BY <2>2, <2>3
<1>4. ASSUME NEW r \in RunIds PROVE RunInv(r)'
  BY <1>2 DEF EvidenceInv, RunInv, RunAt, Of, Evaluated
<1>5. timeouts' = 0 /\ reused' => Evaluated'
  BY <1>2 DEF EvidenceInv, Evaluated
<1> QED
  BY <1>1, <1>3, <1>4, <1>5 DEF EvidenceInv

\* A worker's step on run r: with the manifest as it is, or with r attached.
LEMMA RunMoves ==
    ASSUME EvidenceInv, NEW r \in RunIds, NEW now \in RunRecords,
           runs' = [runs EXCEPT ![r] = now],
           ~RunAt(r, "none"), now.pc # "none", now.kind = Of(r),
           {stored', partial', manifest'} \subseteq [Kinds -> Results],
           rows' \in [Kinds -> SUBSET RunIds],
           UNCHANGED <<clients, reused, requests, timeouts>>,
           cancels' \in Nat, cancels' = 0 => cancels = 0 /\ now.pc # "dropped",
           timeouts = 0 /\ Evaluated => Evaluated',
           timeouts = 0 /\ now.kind = "evaluation" /\ now.pc \in {"end", "done"} => Evaluated',
           timeouts = 0 /\ now.kind = "simulation_run" /\ now.pc = "attach" =>
             now.seen["evaluation"] # NoRun
    PROVE  EvidenceInv'
<1>1. EvidenceTypes'
  BY DEF EvidenceInv, EvidenceTypes
<1>2. \A s \in RunIds : runs'[s] = IF s = r THEN now ELSE runs[s]
  BY DEF EvidenceInv, EvidenceTypes
<1>3. ASSUME NEW d \in Clients PROVE ClientInv(d)'
  <2>1. ClientInv(d)
    BY DEF EvidenceInv
  <2> QED
    BY <1>2, <2>1 DEF ClientInv, ClientAt, RunAt, Of
<1>4. ASSUME NEW s \in RunIds PROVE RunInv(s)'
  <2>1. RunInv(r) /\ RunInv(s)
    BY DEF EvidenceInv
  <2>2. CASE s = r
    BY <1>2, <2>1, <2>2 DEF RunInv, RunAt, Of
  <2>3. CASE s # r
    BY <1>2, <2>1, <2>3 DEF RunInv, RunAt, Of
  <2> QED
    BY <2>2, <2>3
<1>5. timeouts' = 0 /\ reused' => Evaluated'
  BY DEF EvidenceInv
<1> QED
  BY <1>1, <1>3, <1>4, <1>5 DEF EvidenceInv

-----------------------------------------------------------------------------
(* The actions.                                                            *)

\* What moving and coming back make of a handler.
LEMMA ClientGoesTo ==
    ASSUME EvidenceInv, NEW c \in Clients, NEW pc \in ClientSteps, ClientTo(c, pc)
    PROVE  \E now \in ClientRecords : clients' = [clients EXCEPT ![c] = now] /\ now.pc = pc
<1> DEFINE now == [clients[c] EXCEPT !.pc = pc]
<1>1. clients[c] \in ClientRecords
  BY DEF EvidenceInv, EvidenceTypes
<1>2. now \in ClientRecords /\ now.pc = pc
  BY <1>1 DEF ClientRecords
<1>3. clients' = [clients EXCEPT ![c] = now]
  BY DEF ClientTo
<1> HIDE DEF now
<1> QED
  BY <1>2, <1>3

LEMMA RunGoesTo ==
    ASSUME EvidenceInv, NEW r \in RunIds, NEW pc \in RunSteps, RunTo(r, pc)
    PROVE  \E now \in RunRecords :
             runs' = [runs EXCEPT ![r] = now] /\ now.pc = pc /\ now.kind = Of(r)
<1> DEFINE now == [runs[r] EXCEPT !.pc = pc]
<1>1. runs[r] \in RunRecords
  BY DEF EvidenceInv, EvidenceTypes
<1>2. now \in RunRecords /\ now.pc = pc /\ now.kind = Of(r)
  BY <1>1 DEF RunRecords, Of
<1>3. runs' = [runs EXCEPT ![r] = now]
  BY DEF RunTo
<1> HIDE DEF now
<1> QED
  BY <1>2, <1>3

\* Where a handler goes, in one form for all its steps but Arrive and Enqueue.
LEMMA HandlerStep ==
    ASSUME EvidenceInv, NEW c \in Clients,
           Load(c) \/ Lookup(c) \/ WaitEnds(c) \/ Reload(c) \/ ReadRun(c) \/ WaitTimesOut(c)
    PROVE  EvidenceInv'
<1>1. /\ UNCHANGED <<Disk, Tables, runs, cancels>>
      /\ reused' \in BOOLEAN /\ {requests', timeouts'} \subseteq Nat
      /\ timeouts' = 0 => timeouts = 0
      /\ WaitTimesOut(c) => timeouts' # 0
      /\ reused' => reused \/ Evaluated
  <2>1. reused \in BOOLEAN /\ {requests, timeouts} \subseteq Nat
    BY DEF EvidenceInv, EvidenceTypes
  <2>2. CASE Load(c)
    <3>1. UNCHANGED <<Disk, Tables, runs, cancels, requests, timeouts>>
      BY <2>2 DEF Load, Bounds
    <3>2. \/ UNCHANGED reused
          \/ Evaluated /\ reused' = (reused \/ ClientAt(c, "load"))
      BY <2>2 DEF Load, Evaluated
    <3>3. reused' \in BOOLEAN /\ (reused' => reused \/ Evaluated)
      <4>1. CASE UNCHANGED reused
        BY <2>1, <4>1
      <4>2. CASE Evaluated /\ reused' = (reused \/ ClientAt(c, "load"))
        BY <4>2, Zenon
      <4> QED
        BY <3>2, <4>1, <4>2
    <3>4. ~WaitTimesOut(c)
      BY <2>2 DEF Load, WaitTimesOut, ClientAt
    <3> QED
      BY <2>1, <3>1, <3>3, <3>4
  <2>3. CASE Lookup(c) \/ WaitEnds(c) \/ Reload(c) \/ ReadRun(c)
    <3>1. UNCHANGED <<Disk, Tables, runs, cancels, requests, timeouts, reused>>
      BY <2>3 DEF Lookup, WaitEnds, Reload, ReadRun, Bounds
    <3>2. WaitTimesOut(c) => timeouts' = timeouts + 1
      BY DEF WaitTimesOut
    <3> QED
      BY <2>1, <3>1, <3>2
  <2>4. CASE WaitTimesOut(c)
    <3>1. /\ UNCHANGED <<Disk, Tables, runs, cancels, requests, reused>>
          /\ timeouts' = timeouts + 1
      BY <2>4 DEF WaitTimesOut
    <3> QED
      BY <2>1, <3>1
  <2> QED
    BY <2>2, <2>3, <2>4
<1>2. ClientInv(c) /\ (timeouts = 0 /\ reused => Evaluated) /\ \A r \in RunIds : RunInv(r)
  BY DEF EvidenceInv
<1>3. \/ Returns(c)
      \/ \E pc \in {"load", "lookup", "enqueue", "enqueue run", "simulate", "read", "reload"} :
           /\ ClientTo(c, pc)
           /\ timeouts' = 0 =>
                /\ pc \in {"simulate", "enqueue run", "read"} => Evaluated
                /\ cancels = 0 /\ pc = "reload" => Evaluated
  <2>1. CASE Load(c)
    BY <2>1 DEF Load, HasEvaluation, Evaluated
  <2>2. CASE Lookup(c)
    <3>1. Succeeded("evaluation", clients[c].tier) /\ timeouts = 0 => Evaluated
      BY <1>2 DEF Succeeded, RunInv, RunAt
    <3>2. CASE ClientAt(c, "lookup")
      <4>1. Wanted(c) = "evaluation"
        BY <3>2 DEF Wanted
      <4> QED
        BY <1>1, <2>2, <3>1, <3>2, <4>1 DEF Lookup
    <3>3. CASE ClientAt(c, "simulate")
      BY <1>1, <1>2, <2>2, <3>3 DEF Lookup, ClientInv, ClientAt
    <3> QED
      BY <2>2, <3>2, <3>3 DEF Lookup
  <2>3. CASE WaitEnds(c)
    <3>1. CASE ClientAt(c, "wait")
      BY <1>1, <1>2, <2>3, <3>1 DEF WaitEnds, HasEvaluation, ClientInv, ClientAt, RunInv, RunAt, Of
    <3>2. CASE ClientAt(c, "wait run")
      BY <1>1, <1>2, <2>3, <3>2 DEF WaitEnds, ClientInv, ClientAt
    <3> QED
      BY <2>3, <3>1, <3>2 DEF WaitEnds
  <2>4. CASE Reload(c)
    BY <2>4 DEF Reload, HasEvaluation, Evaluated
  <2>5. CASE ReadRun(c)
    BY <2>5 DEF ReadRun
  <2>6. CASE WaitTimesOut(c)
    BY <1>1, <2>6 DEF WaitTimesOut, HasEvaluation
  <2> QED
    BY <2>1, <2>2, <2>3, <2>4, <2>5, <2>6
<1>4. \E now \in ClientRecords :
        /\ clients' = [clients EXCEPT ![c] = now]
        /\ now.pc \notin {"wait", "wait run"}
        /\ timeouts' = 0 =>
             /\ now.pc \in {"simulate", "enqueue run", "read"} => Evaluated
             /\ cancels = 0 /\ now.pc = "reload" => Evaluated
  <2>1. CASE Returns(c)
    BY <2>1, NoTaskTyped DEF Returns, Idle
  <2>2. CASE ~Returns(c)
    <3>1. PICK pc \in {"load", "lookup", "enqueue", "enqueue run", "simulate", "read", "reload"} :
            /\ ClientTo(c, pc)
            /\ timeouts' = 0 =>
                 /\ pc \in {"simulate", "enqueue run", "read"} => Evaluated
                 /\ cancels = 0 /\ pc = "reload" => Evaluated
      BY <1>3, <2>2
    <3>2. pc \in ClientSteps
      BY DEF ClientSteps
    <3>3. PICK now \in ClientRecords :
            clients' = [clients EXCEPT ![c] = now] /\ now.pc = pc
      BY <3>1, <3>2, ClientGoesTo
    <3> QED
      BY <3>1, <3>3
  <2> QED
    BY <2>1, <2>2
<1> QED
  BY <1>1, <1>4, HandlerMoves

LEMMA ArriveStep ==
    ASSUME EvidenceInv, NEW c \in Clients, Arrive(c)
    PROVE  EvidenceInv'
<1>1. PICK goal \in {"evaluate", "require", "simulate"}, tier \in Tiers,
           pc \in {"load", "require"} : Asks(c, goal, tier, pc)
  BY DEF Arrive, Tiers
<1> DEFINE now == [goal |-> goal, tier |-> tier, pc |-> pc, run |-> NoRun]
<1>2. now \in ClientRecords /\ now.pc \in {"load", "require"}
  BY DEF ClientRecords, ClientSteps, Results
<1>3. /\ UNCHANGED <<Disk, Tables, runs, cancels, reused, timeouts>>
      /\ {requests', timeouts'} \subseteq Nat /\ reused' \in BOOLEAN
  BY DEF Arrive, EvidenceInv, EvidenceTypes
<1>4. clients' = [clients EXCEPT ![c] = now]
  BY <1>1 DEF Asks
<1> HIDE DEF now
<1> QED
  BY <1>2, <1>3, <1>4, HandlerMoves

\* A job is submitted: a simulation's only on a revision with its evaluation.
LEMMA EnqueueStep ==
    ASSUME EvidenceInv, NEW c \in Clients, Enqueue(c)
    PROVE  EvidenceInv'
<1>1. PICK r \in RunIds :
        /\ RunAt(r, "none")
        /\ runs' = [runs EXCEPT ![r] = [NoTask EXCEPT !.kind = Wanted(c), !.pc = "queued",
                                                     !.tier = clients[c].tier]]
        /\ clients' = [clients EXCEPT ![c] =
             [goal |-> clients[c].goal, tier |-> clients[c].tier, run |-> r,
              pc |-> IF ClientAt(c, "enqueue") THEN "wait" ELSE "wait run"]]
  BY DEF Enqueue
<1> DEFINE task == [NoTask EXCEPT !.kind = Wanted(c), !.pc = "queued",
                                  !.tier = clients[c].tier]
           now == [goal |-> clients[c].goal, tier |-> clients[c].tier, run |-> r,
                   pc |-> IF ClientAt(c, "enqueue") THEN "wait" ELSE "wait run"]
<1>2. /\ UNCHANGED <<stored, partial, manifest, rows, reused, requests, timeouts, cancels>>
      /\ ClientAt(c, "enqueue") \/ ClientAt(c, "enqueue run")
  BY DEF Enqueue, Disk, Tables, Bounds
<1>3. /\ ClientAt(c, "enqueue") => Wanted(c) = "evaluation"
      /\ ClientAt(c, "enqueue run") => Wanted(c) = "simulation_run"
  BY DEF Wanted, ClientAt
<1>4. Wanted(c) \in Kinds
  BY <1>2, <1>3 DEF Kinds
<1>5. task \in RunRecords /\ task.kind = Wanted(c) /\ task.pc = "queued"
  BY <1>4, NoTaskTyped DEF RunRecords, RunSteps, EvidenceInv, EvidenceTypes, ClientRecords
<1>6. /\ now \in ClientRecords /\ now.run = r
      /\ now.pc = IF ClientAt(c, "enqueue") THEN "wait" ELSE "wait run"
  BY DEF ClientRecords, ClientSteps, Results, EvidenceInv, EvidenceTypes
<1>7. runs' = [runs EXCEPT ![r] = task] /\ clients' = [clients EXCEPT ![c] = now]
  BY <1>1
<1> HIDE DEF task, now
<1>8. /\ \A s \in RunIds : runs'[s] = IF s = r THEN task ELSE runs[s]
      /\ \A d \in Clients : clients'[d] = IF d = c THEN now ELSE clients[d]
  BY <1>7 DEF EvidenceInv, EvidenceTypes
<1>9. EvidenceTypes'
  BY <1>2, <1>5, <1>6, <1>7 DEF EvidenceInv, EvidenceTypes
<1>10. ClientAt(c, "enqueue run") /\ timeouts = 0 => Evaluated
  BY DEF EvidenceInv, ClientInv, ClientAt
<1>11. ASSUME NEW d \in Clients PROVE ClientInv(d)'
  <2>1. ClientInv(d)
    BY DEF EvidenceInv
  <2>2. CASE d = c
    BY <1>2, <1>3, <1>5, <1>6, <1>8, <1>10, <2>2 DEF ClientInv, ClientAt, RunAt, Of, Evaluated
  <2>3. CASE d # c
    BY <1>1, <1>2, <1>8, <2>1, <2>3 DEF ClientInv, ClientAt, RunAt, Of, Evaluated
  <2> QED
    BY <2>2, <2>3
<1>12. ASSUME NEW s \in RunIds PROVE RunInv(s)'
  <2>1. RunInv(s)
    BY DEF EvidenceInv
  <2>2. CASE s = r
    BY <1>2, <1>3, <1>4, <1>5, <1>8, <1>10, <2>2 DEF RunInv, RunAt, Of, Evaluated
  <2>3. CASE s # r
    BY <1>2, <1>8, <2>1, <2>3 DEF RunInv, RunAt, Of, Evaluated
  <2> QED
    BY <2>2, <2>3
<1> QED
  BY <1>2, <1>9, <1>11, <1>12 DEF EvidenceInv, Evaluated

\* A worker's steps that leave the manifest as it is.
LEMMA RunStep ==
    ASSUME EvidenceInv, NEW r \in RunIds,
           \/ PickUp(r) \/ Compute(r) \/ CheckPath(r) \/ WritePartial(r) \/ Replace(r)
           \/ RecordSuccess(r) \/ Cancel(r)
    PROVE  EvidenceInv'
<1>1. RunInv(r) /\ EvidenceTypes
  BY DEF EvidenceInv
<1>2. ~RunAt(r, "none") /\ Of(r) \in Kinds
  BY <1>1 DEF PickUp, Compute, CheckPath, WritePartial, Replace, RecordSuccess, Cancel, RunAt,
       RunInv
<1>3. /\ UNCHANGED <<manifest, rows, clients, reused, requests, timeouts>>
      /\ cancels' \in Nat /\ (cancels' = 0 => cancels = 0 /\ ~Cancel(r))
  BY <1>1 DEF PickUp, Compute, CheckPath, WritePartial, Replace, RecordSuccess, Cancel,
       EvidenceTypes,
         Tables, Disk, Bounds, RunAt
<1>4. {stored', partial'} \subseteq [Kinds -> Results]
  BY <1>1, <1>2 DEF PickUp, Compute, CheckPath, WritePartial, Replace, RecordSuccess, Cancel,
         EvidenceTypes, Disk, Results
<1>5. \E pc \in RunSteps :
        /\ RunTo(r, pc) /\ pc # "none" /\ pc # "attach"
        /\ cancels' = 0 => pc # "dropped"
        /\ pc \in {"end", "done"} => RunAt(r, "end")
  BY <1>3 DEF PickUp, Compute, CheckPath, WritePartial, Replace, RecordSuccess, Cancel, RunSteps
<1>6. PICK now \in RunRecords :
        /\ runs' = [runs EXCEPT ![r] = now] /\ now.kind = Of(r)
        /\ now.pc # "none" /\ now.pc # "attach" /\ (cancels' = 0 => now.pc # "dropped")
        /\ now.pc \in {"end", "done"} => RunAt(r, "end")
  BY <1>5, RunGoesTo
<1>7. /\ Evaluated' = Evaluated
      /\ timeouts = 0 /\ now.kind = "evaluation" /\ now.pc \in {"end", "done"} => Evaluated
  BY <1>1, <1>3, <1>6 DEF Evaluated, RunInv, RunAt
<1> QED
  BY <1>1, <1>2, <1>3, <1>4, <1>6, <1>7, RunMoves DEF EvidenceTypes

\* _attach_artifact: the manifest that is written back has the evaluation whenever
\* the revision has it.
LEMMA AttachStep ==
    ASSUME EvidenceInv, NEW r \in RunIds, ReadManifest(r) \/ Attach(r)
    PROVE  EvidenceInv'
<1>1. RunInv(r) /\ EvidenceTypes /\ runs[r] \in RunRecords
  BY DEF EvidenceInv, EvidenceTypes
<1>2. /\ ~RunAt(r, "none") /\ Of(r) \in Kinds
      /\ UNCHANGED <<stored, partial, clients, reused, requests, timeouts, cancels>>
  BY <1>1 DEF ReadManifest, Attach, RunAt, RunInv, Disk, Tables, Bounds
<1>3. CASE ReadManifest(r)
  <2> DEFINE now == [runs[r] EXCEPT !.pc = "attach", !.seen = manifest]
  <2>1. now \in RunRecords /\ now.pc = "attach" /\ now.kind = Of(r) /\ now.seen = manifest
    BY <1>1, <1>2 DEF RunRecords, RunSteps, EvidenceTypes, Of
  <2>2. runs' = [runs EXCEPT ![r] = now] /\ UNCHANGED <<manifest, rows>>
    BY <1>3 DEF ReadManifest, Tables
  <2> HIDE DEF now
  <2>3. timeouts = 0 /\ Of(r) = "simulation_run" => Evaluated
    BY <1>1 DEF RunInv
  <2> QED
    BY <1>1, <1>2, <2>1, <2>2, <2>3, RunMoves DEF EvidenceTypes, Evaluated
<1>4. CASE Attach(r)
  <2>1. PICK now \in RunRecords :
          runs' = [runs EXCEPT ![r] = now] /\ now.pc = "end" /\ now.kind = Of(r)
    BY <1>4, RunGoesTo DEF Attach, RunSteps
  <2>2. /\ manifest' = [runs[r].seen EXCEPT ![Of(r)] = r]
        /\ rows' = [rows EXCEPT ![Of(r)] = rows[Of(r)] \cup {r}]
        /\ RunAt(r, "attach")
    BY <1>4 DEF Attach
  <2>3. runs[r].seen \in [Kinds -> Results] /\ r \in Results /\ r # NoRun
    BY <1>1, RunsAreNumbers DEF RunRecords, Results
  <2>4. manifest' \in [Kinds -> Results] /\ rows' \in [Kinds -> SUBSET RunIds]
    BY <1>1, <1>2, <2>2, <2>3 DEF EvidenceTypes
  <2>5. timeouts = 0 => Evaluated'
    <3>1. CASE Of(r) = "evaluation"
      BY <2>2, <2>3, <3>1 DEF Evaluated, Kinds
    <3>2. CASE Of(r) = "simulation_run"
      BY <1>1, <2>2, <2>3, <3>2 DEF Evaluated, Kinds, RunInv
    <3> QED
      BY <1>2, <3>1, <3>2 DEF Kinds
  <2> QED
    BY <1>1, <1>2, <2>1, <2>4, <2>5, RunMoves DEF EvidenceTypes
<1> QED
  BY <1>3, <1>4

LEMMA EvidenceInvStep == EvidenceInv /\ [Next]_vars => EvidenceInv'
<1> SUFFICES ASSUME EvidenceInv, [Next]_vars PROVE EvidenceInv'
  OBVIOUS
<1>1. ASSUME NEW c \in Clients, Arrive(c) \/ Handle(c) \/ WaitTimesOut(c)
      PROVE  EvidenceInv'
  BY <1>1, ArriveStep, EnqueueStep, HandlerStep DEF Handle
<1>2. ASSUME NEW r \in RunIds, Run(r) \/ Cancel(r) PROVE EvidenceInv'
  BY <1>2, RunStep, AttachStep DEF Run
<1>3. CASE UNCHANGED vars
  BY <1>3 DEF vars, EvidenceInv, EvidenceTypes, RunInv, ClientInv, RunAt, ClientAt, Of, Evaluated
<1> QED
  BY <1>1, <1>2, <1>3 DEF Next

\* The invariant holds of every run of the handlers and the workers.
THEOREM EvidenceInvariant == Spec => []EvidenceInv
BY InitEvidenceInv, EvidenceInvStep, PTL DEF Spec

\* When a job succeeded, require_evaluation finds the evaluation on the revision
\* (service.py evaluate, require_evaluation), unless a wait was given up or a job
\* cancelled.
THEOREM EvaluationFound == Spec => []RequireFindsEvaluation
<1>1. EvidenceInv => RequireFindsEvaluation
  BY DEF EvidenceInv, ClientInv, RequireFindsEvaluation, Evaluated
<1> QED
  BY <1>1, EvidenceInvariant, PTL

\* No worker that writes back a manifest read earlier drops the evaluation
\* (_attach_artifact), unless a wait was given up.
THEOREM EvaluationStays == Spec => EvaluationKept
<1>1. EvidenceInv /\ [Next]_vars =>
        [timeouts = 0 /\ manifest["evaluation"] # NoRun => manifest'["evaluation"] # NoRun]_vars
  <2> SUFFICES ASSUME EvidenceInv, Next, timeouts = 0, Evaluated PROVE Evaluated'
    BY DEF Evaluated
  <2>1. ASSUME NEW r \in RunIds, Attach(r) PROVE Evaluated'
    <3>1. RunInv(r) /\ runs[r] \in RunRecords
      BY DEF EvidenceInv, EvidenceTypes
    <3>2. /\ runs[r].seen \in [Kinds -> Results] /\ r # NoRun /\ Of(r) \in Kinds
          /\ manifest' = [runs[r].seen EXCEPT ![Of(r)] = r] /\ RunAt(r, "attach")
      BY <2>1, <3>1, RunsAreNumbers DEF RunRecords, Attach, RunInv, RunAt
    <3>3. Of(r) = "evaluation" \/ Of(r) = "simulation_run"
      BY <3>2 DEF Kinds
    <3> QED
      BY <3>1, <3>2, <3>3 DEF Evaluated, Kinds, RunInv
  <2>2. ASSUME NEW r \in RunIds, Run(r) \/ Cancel(r), ~Attach(r) PROVE UNCHANGED manifest
    BY <2>2 DEF Run, PickUp, Compute, CheckPath, WritePartial, Replace, ReadManifest,
                RecordSuccess, Cancel, Tables
  <2>3. ASSUME NEW c \in Clients, Arrive(c) \/ Handle(c) \/ WaitTimesOut(c)
        PROVE  UNCHANGED manifest
    BY <2>3 DEF Arrive, Handle, Load, Lookup, Enqueue, WaitEnds, Reload, ReadRun, WaitTimesOut,
                Tables
  <2> QED
    BY <2>1, <2>2, <2>3 DEF Next, Evaluated
<1> QED
  BY <1>1, EvidenceInvariant, PTL DEF Spec, EvaluationKept
=============================================================================
