------------------------------ MODULE JobQueue ------------------------------
(***************************************************************************)
(* The bounded job queue (dronebench_workflow/jobs.py) over its table, for *)
(* client threads that submit, wait and cancel, pool workers that run, and *)
(* processes that start again on the same database.                        *)
(*                                                                         *)
(* The queue keeps two records of a job: its row in the database, which    *)
(* clients poll, and an entry in _running, which cancel and wait look up.  *)
(* Both are written in steps of their own.  A job's artifacts are those of *)
(* the work it was given, which is what its cache key stands for, so a     *)
(* result is the key it was computed for.                                  *)
(***************************************************************************)
EXTENDS Naturals, FiniteSets

CONSTANTS
    Kinds,        \* job kinds, each a thread pool
    Limit,        \* CONCURRENCY: the workers of each kind's pool
    Uncached,     \* kinds submitted with allow_cache=False
    CacheKeys,    \* cache keys, one per work
    Clients,      \* threads that call submit, wait and cancel
    NoKey,        \* no result
    MaxRequests,  \* bound: submissions
    MaxTroubles   \* bound: cancel requests, writes the shared connection refuses
                  \* and restarts of the process, together

ASSUME JobBounds ==
    /\ Limit \in [Kinds -> Nat \ {0}]
    /\ Uncached \subseteq Kinds
    /\ {MaxRequests, MaxTroubles} \subseteq Nat

VARIABLES
    jobs,      \* table jobs: one row per job id
    counter,   \* _counter of this process
    running,   \* _running: the ids that cancel and wait find
    tasks,     \* this process's job objects, futures and workers
    clients,   \* what each client thread is doing
    requests, cancels, faults, restarts

vars == <<jobs, counter, running, tasks, clients, requests, cancels, faults, restarts>>

-----------------------------------------------------------------------------

\* job_<kind>-<number>: the number is the process's own count.
JobIds == Kinds \X (1..MaxRequests)
NoJob  == <<>>

Ended == {"succeeded", "failed", "cancelled"}

\* cache_key is the column; the result and the reused id are in the record.
Row(key, status, result, reused) ==
    [key |-> key, status |-> status, result |-> result, reused |-> reused]

NoRow == Row(NoKey, "none", NoKey, NoJob)

\* put_job replaces status and record on conflict; the column cache_key of the
\* first insertion stays.
PutJob(id, key, status, result, reused) ==
    jobs' = [jobs EXCEPT ![id] =
                Row(IF @ = NoRow THEN key ELSE @.key, status, result, reused)]

\* (Mutant: the lookup does not compare keys.)
CachedAny(key) == {id \in JobIds : jobs[id].status = "succeeded"}

\* find_cached_job, by the column.  (Which of several it takes makes no
\* difference here; the code takes the oldest.)
Cached(key) == {id \in JobIds : jobs[id].key = key /\ jobs[id].status = "succeeded"}

Idle == [pc |-> "idle", id |-> NoJob, key |-> NoKey, reused |-> NoJob, result |-> NoKey]

NoTask == [pc |-> "none", key |-> NoKey, cancel |-> FALSE]

AtClient(c, pc) == clients[c].pc = pc
Moves(c, pc)    == clients' = [clients EXCEPT ![c].pc = pc]
Returns(c)      == clients' = [clients EXCEPT ![c] = Idle]

AtTask(id, pc)   == tasks[id].pc = pc
TaskTo(id, pc)   == tasks' = [tasks EXCEPT ![id].pc = pc]

Bounds == <<requests, cancels, faults, restarts>>

MayTrouble == cancels + faults + restarts < MaxTroubles

-----------------------------------------------------------------------------
(* submit                                                                  *)

\* The lookup comes first, the id is then drawn from the counter.
SubmitHit(c) ==
    /\ AtClient(c, "idle") /\ requests < MaxRequests
    /\ \E kind \in Kinds \ Uncached, key \in CacheKeys :
         \E hit \in Cached(key) :
            clients' = [clients EXCEPT ![c] =
                          [pc |-> "hit", id |-> <<kind, counter + 1>>, key |-> key,
                           reused |-> hit, result |-> jobs[hit].result]]
    /\ counter' = counter + 1
    /\ requests' = requests + 1
    /\ UNCHANGED <<jobs, running, tasks, cancels, faults, restarts>>

SubmitNew(c) ==
    /\ AtClient(c, "idle") /\ requests < MaxRequests
    /\ \E kind \in Kinds, key \in CacheKeys :
         /\ kind \in Uncached \/ Cached(key) = {}
         /\ clients' = [clients EXCEPT ![c] =
                          [Idle EXCEPT !.pc = "put", !.id = <<kind, counter + 1>>, !.key = key]]
    /\ counter' = counter + 1
    /\ requests' = requests + 1
    /\ UNCHANGED <<jobs, running, tasks, cancels, faults, restarts>>

\* A hit is stored as a job that succeeded; the caller may then wait for it.
PutHit(c) ==
    /\ AtClient(c, "hit")
    /\ LET client == clients[c] IN
       PutJob(client.id, client.key, "succeeded", client.result, client.reused)
    /\ Moves(c, "look") \/ Returns(c)
    /\ UNCHANGED <<counter, running, tasks, Bounds>>

PutQueued(c) ==
    /\ AtClient(c, "put")
    /\ PutJob(clients[c].id, clients[c].key, "queued", NoKey, NoJob)
    /\ Moves(c, "pool")
    /\ UNCHANGED <<counter, running, tasks, Bounds>>

\* The pool has the job before _running does.
Enqueue(c) ==
    /\ AtClient(c, "pool")
    /\ tasks' = [tasks EXCEPT ![clients[c].id] =
                   [pc |-> "pending", key |-> clients[c].key, cancel |-> FALSE]]
    /\ Moves(c, "register")
    /\ UNCHANGED <<jobs, counter, running, Bounds>>

Register(c) ==
    /\ AtClient(c, "register")
    /\ running' = running \cup {clients[c].id}
    /\ Moves(c, "look") \/ Returns(c)
    /\ UNCHANGED <<jobs, counter, tasks, Bounds>>

-----------------------------------------------------------------------------
(* wait                                                                    *)

Look(c) ==
    /\ AtClient(c, "look")
    /\ Moves(c, IF clients[c].id \in running THEN "block" ELSE "read")
    /\ UNCHANGED <<jobs, counter, running, tasks, Bounds>>

\* (Mutant: a cancelled future does not wake the waiter.)
UnblockedByResult(c) ==
    /\ AtClient(c, "block")
    /\ AtTask(clients[c].id, "done")
    /\ Moves(c, "read")
    /\ UNCHANGED <<jobs, counter, running, tasks, Bounds>>

\* The future has a result or was cancelled.
Unblocked(c) ==
    /\ AtClient(c, "block")
    /\ AtTask(clients[c].id, "done") \/ AtTask(clients[c].id, "dropped")
    /\ Moves(c, "read")
    /\ UNCHANGED <<jobs, counter, running, tasks, Bounds>>

TimesOut(c) ==
    /\ AtClient(c, "block")
    /\ Moves(c, "read")
    /\ UNCHANGED <<jobs, counter, running, tasks, Bounds>>

\* get_job, whatever it says.
Read(c) ==
    /\ AtClient(c, "read")
    /\ Returns(c)
    /\ UNCHANGED <<jobs, counter, running, tasks, Bounds>>

-----------------------------------------------------------------------------
(* cancel                                                                  *)

\* The client names any job; a job that is not in _running has finished.
AskCancel(c) ==
    /\ AtClient(c, "idle") /\ MayTrouble
    /\ \E id \in running :
         clients' = [clients EXCEPT ![c] = [Idle EXCEPT !.pc = "signal", !.id = id]]
    /\ cancels' = cancels + 1
    /\ UNCHANGED <<jobs, counter, running, tasks, requests, faults, restarts>>

\* The event is set; a future no worker has taken is cancelled for good.  Either
\* way the answer is True.
Signal(c) ==
    /\ AtClient(c, "signal")
    /\ LET id   == clients[c].id
           task == tasks[id] IN
       tasks' = [tasks EXCEPT ![id] =
                   [pc |-> IF task.pc = "pending" THEN "dropped" ELSE task.pc,
                    key |-> task.key, cancel |-> TRUE]]
    /\ Returns(c)
    /\ UNCHANGED <<jobs, counter, running, Bounds>>

-----------------------------------------------------------------------------
(* _run, on a worker of the job's pool                                     *)

Busy(kind) == {id \in JobIds : id[1] = kind /\ tasks[id].pc \notin
                                  {"none", "pending", "done", "dropped"}}

\* (Mutant: the pool stops one worker short of its limit.)
PickUpBelow(id) ==
    /\ AtTask(id, "pending")
    /\ Cardinality(Busy(id[1])) + 1 < Limit[id[1]]
    /\ TaskTo(id, "start")
    /\ UNCHANGED <<jobs, counter, running, clients, Bounds>>

PickUp(id) ==
    /\ AtTask(id, "pending")
    /\ Cardinality(Busy(id[1])) < Limit[id[1]]
    /\ TaskTo(id, "start")
    /\ UNCHANGED <<jobs, counter, running, clients, Bounds>>

\* The record is the job's own, its status replaced.
Put(id, status, result) == PutJob(id, tasks[id].key, status, result, NoJob)

PutRunning(id) ==
    /\ AtTask(id, "start")
    /\ Put(id, "running", NoKey)
    /\ TaskTo(id, "work")
    /\ UNCHANGED <<counter, running, clients, Bounds>>

\* The work returns, raises, or notices the event and raises JobCancelled.
Work(id) ==
    /\ AtTask(id, "work")
    /\ \/ TaskTo(id, "pop")
       \/ TaskTo(id, "fail")
       \/ tasks[id].cancel /\ TaskTo(id, "cancel")
    /\ UNCHANGED <<jobs, counter, running, clients, Bounds>>

\* The finally clause: on success it runs before the record is written, on
\* failure after.
Pop(id) ==
    /\ AtTask(id, "pop")
    /\ running' = running \ {id}
    /\ TaskTo(id, "succeed")
    /\ UNCHANGED <<jobs, counter, clients, Bounds>>

PutSucceeded(id) ==
    /\ AtTask(id, "succeed")
    /\ Put(id, "succeeded", tasks[id].key)
    /\ TaskTo(id, "done")
    /\ UNCHANGED <<counter, running, clients, Bounds>>

\* (Mutant: the except clause does not return.)
PutFailedAndGoOn(id) ==
    /\ \/ AtTask(id, "fail") /\ Put(id, "failed", NoKey)
       \/ AtTask(id, "cancel") /\ Put(id, "cancelled", NoKey)
    /\ TaskTo(id, "pop")
    /\ UNCHANGED <<counter, running, clients, Bounds>>

PutFailed(id) ==
    /\ \/ AtTask(id, "fail") /\ Put(id, "failed", NoKey)
       \/ AtTask(id, "cancel") /\ Put(id, "cancelled", NoKey)
    /\ TaskTo(id, "leave")
    /\ UNCHANGED <<counter, running, clients, Bounds>>

Leave(id) ==
    /\ AtTask(id, "leave")
    /\ running' = running \ {id}
    /\ TaskTo(id, "done")
    /\ UNCHANGED <<jobs, counter, clients, Bounds>>

-----------------------------------------------------------------------------
(* Faults                                                                  *)

\* The one connection refuses a BEGIN while another thread is in a transaction.
\* A worker's future then ends with the error, in an except clause after the
\* finally; a submission is an error to its client.
WorkerWriteFails(id) ==
    /\ MayTrouble
    /\ \/ AtTask(id, "start") /\ TaskTo(id, "done")
       \/ AtTask(id, "succeed") /\ TaskTo(id, "done")
       \/ AtTask(id, "fail") /\ TaskTo(id, "leave")
       \/ AtTask(id, "cancel") /\ TaskTo(id, "leave")
    /\ faults' = faults + 1
    /\ UNCHANGED <<jobs, counter, running, clients, requests, cancels, restarts>>

ClientWriteFails(c) ==
    /\ MayTrouble
    /\ AtClient(c, "hit") \/ AtClient(c, "put")
    /\ Returns(c)
    /\ faults' = faults + 1
    /\ UNCHANGED <<jobs, counter, running, tasks, requests, cancels, restarts>>

\* A process ends, whatever its threads were doing, and another one opens the
\* same database (each command of the command line is a process).
Restart ==
    /\ MayTrouble
    /\ restarts' = restarts + 1
    /\ counter' = 0
    /\ running' = {}
    /\ tasks' = [id \in JobIds |-> NoTask]
    /\ clients' = [c \in Clients |-> Idle]
    /\ UNCHANGED <<jobs, requests, cancels, faults>>

-----------------------------------------------------------------------------

Init ==
    /\ jobs = [id \in JobIds |-> NoRow]
    /\ counter = 0
    /\ running = {}
    /\ tasks = [id \in JobIds |-> NoTask]
    /\ clients = [c \in Clients |-> Idle]
    /\ requests = 0 /\ cancels = 0 /\ faults = 0 /\ restarts = 0

ClientStep(c) ==
    \/ PutHit(c) \/ PutQueued(c) \/ Enqueue(c) \/ Register(c)
    \/ Look(c) \/ Unblocked(c) \/ Read(c) \/ Signal(c)

WorkerStep(id) ==
    \/ PickUp(id) \/ PutRunning(id) \/ Work(id) \/ Pop(id)
    \/ PutSucceeded(id) \/ PutFailed(id) \/ Leave(id)

Next ==
    \/ \E c \in Clients :
         \/ SubmitHit(c) \/ SubmitNew(c) \/ AskCancel(c)
         \/ ClientStep(c) \/ TimesOut(c) \/ ClientWriteFails(c)
    \/ \E id \in JobIds : WorkerStep(id) \/ WorkerWriteFails(id)
    \/ Restart

\* Threads that can run do, and a pool runs what it was given: the work a job is
\* given ends (the workers bound their solvers' time).
Fairness ==
    /\ \A c \in Clients : WF_vars(ClientStep(c))
    /\ \A id \in JobIds : WF_vars(WorkerStep(id))

Spec == Init /\ [][Next]_vars /\ Fairness

-----------------------------------------------------------------------------
(* Properties.                                                             *)

\* What was computed for one design under one key is never given out under
\* another, within a process: hits of hits included.
ResultsMatchKeys ==
    restarts = 0 =>
        \A id \in JobIds : jobs[id].status = "succeeded" => jobs[id].result = jobs[id].key

\* Polling sees a job's life in order, once, and its end for good.
Ledger ==
    INSTANCE JobLedger
        WITH JobIds <- JobIds, NoRow <- NoRow, jobs <- jobs, restarts <- restarts

KeepsJobLedger == Ledger!Spec

\* A job that was queued ends, unless it was cancelled before a worker took it,
\* a write was refused, or its process ended.
JobsEnd ==
    \A id \in JobIds :
        jobs[id].status \in {"queued", "running"} ~>
            jobs[id].status \in Ended \/ tasks[id].pc = "dropped"
            \/ faults > 0 \/ restarts > 0

\* Every client comes back from submit, wait and cancel, time-outs apart.
ClientsReturn == \A c \in Clients : ~AtClient(c, "idle") ~> AtClient(c, "idle")

=============================================================================
