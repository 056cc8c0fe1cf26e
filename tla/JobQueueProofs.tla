--------------------------- MODULE JobQueueProofs ---------------------------
(***************************************************************************)
(* The job queue, for any kinds, pool sizes, cache keys and clients, and   *)
(* any number of requests, cancels, refused writes and restarts.           *)
(***************************************************************************)
EXTENDS JobQueue, TLAPS

-----------------------------------------------------------------------------
(* Types.                                                                  *)

Ids     == JobIds \cup {NoJob}
AnyKey  == CacheKeys \cup {NoKey}

Rows ==
    [key : AnyKey, status : Ended \cup {"none", "queued", "running"}, result : AnyKey, reused : Ids]

ClientSteps == {"idle", "hit", "put", "pool", "register", "look", "block", "read", "signal"}

ClientRecords ==
    [pc : ClientSteps, id : Ids, key : AnyKey, reused : Ids, result : AnyKey]

Waiting  == {"pending", "start"}
Working  == {"work", "pop", "succeed", "fail", "cancel"}
TaskRecords ==
    [pc : Waiting \cup Working \cup {"none", "leave", "done", "dropped"}, key : AnyKey,
     cancel : BOOLEAN]

JobTypes ==
    /\ jobs \in [JobIds -> Rows]
    /\ tasks \in [JobIds -> TaskRecords]
    /\ clients \in [Clients -> ClientRecords]
    /\ running \subseteq JobIds
    /\ {counter, requests, restarts} \subseteq Nat
    /\ counter <= requests

-----------------------------------------------------------------------------
(* The inductive invariant.                                                *)

\* An id was drawn for the client, and no task has it yet.
Issuing(c) == clients[c].pc \in {"hit", "put", "pool"}

\* A drawn id is its drawer's until the pool has the job; until it is put, its row
\* is empty in the first process; and what a lookup found is still what it found.
ClientInv(c) ==
    /\ clients[c].pc # "idle" => clients[c].id \in JobIds
    /\ Issuing(c) =>
         /\ clients[c].key \in CacheKeys
         /\ clients[c].id[2] <= counter
         /\ tasks[clients[c].id].pc = "none"
         /\ \A d \in Clients : Issuing(d) /\ clients[d].id = clients[c].id => d = c
    /\ clients[c].pc = "pool" =>
         /\ jobs[clients[c].id].status = "queued"
         /\ restarts = 0 => jobs[clients[c].id].key = clients[c].key
    /\ clients[c].pc \in {"hit", "put"} /\ restarts = 0 => jobs[clients[c].id] = NoRow
    /\ clients[c].pc = "hit" =>
         /\ clients[c].reused \in JobIds
         /\ restarts = 0 => /\ jobs[clients[c].reused].status = "succeeded"
                            /\ jobs[clients[c].reused].result = clients[c].result
                            /\ clients[c].result = clients[c].key

\* The row of a task's job says where the task is.
TaskInv(id) ==
    /\ tasks[id].pc # "none" => id[2] <= counter
    /\ tasks[id].pc \in Waiting => jobs[id].status = "queued"
    /\ tasks[id].pc \in Working => jobs[id].status = "running"
    /\ tasks[id].pc # "none" /\ restarts = 0 => jobs[id].key = tasks[id].key

\* Ids that were not drawn have no rows in the first process, and what succeeded
\* there is the result of its key.
RowInv(id) ==
    restarts = 0 => /\ id[2] > counter => jobs[id] = NoRow
                    /\ jobs[id].status = "succeeded" => jobs[id].result = jobs[id].key

JobInv ==
    /\ JobTypes
    /\ \A c \in Clients : ClientInv(c)
    /\ \A id \in JobIds : TaskInv(id) /\ RowInv(id)

-----------------------------------------------------------------------------

LEMMA IdNumbers ==
    /\ \A id \in JobIds : id[2] \in Nat
    /\ \A kind \in Kinds, n \in Nat :
         n + 1 <= MaxRequests => <<kind, n + 1>> \in JobIds /\ <<kind, n + 1>>[2] = n + 1
BY JobBounds DEF JobIds

LEMMA IdleTyped == Idle \in ClientRecords
BY DEF Idle, ClientRecords, ClientSteps, Ids, AnyKey

LEMMA InitJobInv == Init => JobInv
<1> SUFFICES ASSUME Init PROVE JobInv
  OBVIOUS
<1>1. JobTypes
  BY DEF Init, JobTypes, Rows, NoRow, Row, TaskRecords, NoTask, ClientRecords, Idle, ClientSteps,
         Ids, AnyKey, Ended
<1>2. \A c \in Clients : ClientInv(c)
  BY DEF Init, ClientInv, Issuing, Idle
<1>3. \A id \in JobIds : TaskInv(id) /\ RowInv(id)
  BY DEF Init, TaskInv, RowInv, NoTask, NoRow, Row, Waiting, Working
<1> QED
  BY <1>1, <1>2, <1>3 DEF JobInv

\* A submission draws the next number.
LEMMA DrawStep ==
    ASSUME JobInv, NEW c \in Clients, SubmitHit(c) \/ SubmitNew(c)
    PROVE  JobInv'
<1>1. /\ requests < MaxRequests /\ counter' = counter + 1 /\ requests' = requests + 1
      /\ UNCHANGED <<jobs, running, tasks, restarts>>
  BY DEF SubmitHit, SubmitNew
<1>2. \A kind \in Kinds :
        <<kind, counter + 1>> \in JobIds /\ <<kind, counter + 1>>[2] = counter + 1
  BY <1>1, IdNumbers, JobBounds DEF JobInv, JobTypes
<1>3. PICK new \in JobIds, key \in CacheKeys, now \in ClientRecords :
        /\ clients' = [clients EXCEPT ![c] = now]
        /\ new[2] = counter + 1 /\ now.id = new /\ now.key = key
        /\ \/ now.pc = "put"
           \/ /\ now.pc = "hit" /\ now.reused \in Cached(key)
              /\ now.result = jobs[now.reused].result
  <2>1. CASE SubmitHit(c)
    <3>1. PICK kind \in Kinds, key \in CacheKeys, hit \in JobIds :
            hit \in Cached(key) /\ clients' = [clients EXCEPT ![c] =
                          [pc |-> "hit", id |-> <<kind, counter + 1>>, key |-> key,
                           reused |-> hit, result |-> jobs[hit].result]]
      BY <2>1 DEF SubmitHit, Cached
    <3>2. jobs[hit].result \in AnyKey
      BY DEF JobInv, JobTypes, Rows
    <3> DEFINE new == <<kind, counter + 1>>
               now == [pc |-> "hit", id |-> new, key |-> key, reused |-> hit,
                       result |-> jobs[hit].result]
    <3>3. new \in JobIds /\ now \in ClientRecords
      BY <1>2, <3>2 DEF ClientRecords, ClientSteps, AnyKey, Ids
    <3>4. /\ clients' = [clients EXCEPT ![c] = now] /\ new[2] = counter + 1
          /\ now.pc = "hit" /\ now.id = new /\ now.key = key
          /\ now.reused \in Cached(key) /\ now.result = jobs[now.reused].result
      BY <1>2, <3>1
    <3> HIDE DEF new, now
    <3> QED
      BY <3>3, <3>4
  <2>2. CASE SubmitNew(c)
    <3>1. PICK kind \in Kinds, key \in CacheKeys :
            clients' = [clients EXCEPT ![c] =
                          [Idle EXCEPT !.pc = "put", !.id = <<kind, counter + 1>>, !.key = key]]
      BY <2>2 DEF SubmitNew
    <3> DEFINE new == <<kind, counter + 1>>
               now == [Idle EXCEPT !.pc = "put", !.id = new, !.key = key]
    <3>2. new \in JobIds /\ new[2] = counter + 1
      BY <1>2
    <3>3. now \in ClientRecords /\ now.pc = "put" /\ now.id = new /\ now.key = key
      <4> HIDE DEF new
      <4>1. new \in Ids /\ key \in AnyKey
        BY <3>2 DEF Ids, AnyKey
      <4> QED
        BY <4>1, IdleTyped DEF ClientRecords, ClientSteps
    <3>4. clients' = [clients EXCEPT ![c] = now]
      BY <3>1
    <3> HIDE DEF new, now
    <3> QED
      BY <3>2, <3>3, <3>4
  <2> QED
    BY <2>1, <2>2
<1>4. counter \in Nat
  BY DEF JobInv, JobTypes
<1>5. JobTypes'
  BY <1>1, <1>3, <1>4 DEF JobInv, JobTypes
<1>6. \A d \in Clients : clients'[d] = IF d = c THEN now ELSE clients[d]
  BY <1>3 DEF JobInv, JobTypes
<1>7. \A d \in Clients : d # c => ClientInv(d) /\ (Issuing(d) => clients[d].id # new)
  BY <1>3, <1>4, IdNumbers DEF JobInv, ClientInv, Issuing
<1>8. ASSUME NEW d \in Clients PROVE ClientInv(d)'
  <2>1. CASE d = c
    <3>1. tasks[new].pc = "none"
      BY <1>3, <1>4 DEF JobInv, TaskInv
    <3>2. restarts = 0 => jobs[new] = NoRow
      BY <1>3, <1>4 DEF JobInv, RowInv
    <3>3. now.pc = "hit" =>
            /\ now.reused \in JobIds
            /\ restarts = 0 => /\ jobs[now.reused].status = "succeeded"
                               /\ jobs[now.reused].result = now.result
                               /\ now.result = now.key
      BY <1>3 DEF Cached, JobInv, RowInv
    <3>4. now.pc \in {"put", "hit"} /\ now.key \in CacheKeys
      BY <1>3
    <3> QED
      BY <1>1, <1>3, <1>4, <1>6, <1>7, <2>1, <3>1, <3>2, <3>3, <3>4 DEF ClientInv, Issuing
  <2>2. CASE d # c
    BY <1>1, <1>3, <1>4, <1>6, <1>7, <2>2, IdNumbers DEF ClientInv, Issuing, JobInv
  <2> QED
    BY <2>1, <2>2
<1>9. \A id \in JobIds : TaskInv(id)' /\ RowInv(id)'
  BY <1>1, IdNumbers DEF JobInv, JobTypes, TaskInv, RowInv
<1> QED
  BY <1>5, <1>8, <1>9 DEF JobInv

\* A client moves on, or comes back, and nothing but _running changes with it.
LEMMA ClientMoves ==
    ASSUME JobInv, NEW c \in Clients, NEW now \in ClientRecords,
           clients' = [clients EXCEPT ![c] = now],
           now.pc \notin {"hit", "put", "pool"}, now.pc # "idle" => now.id \in JobIds,
           running' \subseteq JobIds,
           UNCHANGED <<jobs, counter, tasks, requests, restarts>>
    PROVE  JobInv'
<1>1. JobTypes'
  BY DEF JobInv, JobTypes
<1>2. \A d \in Clients : clients'[d] = IF d = c THEN now ELSE clients[d]
  BY DEF JobInv, JobTypes
<1>3. ASSUME NEW d \in Clients PROVE ClientInv(d)'
  <2>1. CASE d = c
    BY <1>2, <2>1 DEF ClientInv, Issuing
  <2>2. CASE d # c
    BY <1>2, <2>2 DEF JobInv, ClientInv, Issuing
  <2> QED
    BY <2>1, <2>2
<1>4. \A id \in JobIds : TaskInv(id)' /\ RowInv(id)'
  BY DEF JobInv, TaskInv, RowInv
<1> QED
  BY <1>1, <1>3, <1>4 DEF JobInv

\* A worker moves on with the task of a job, and writes the job's row or leaves it.
LEMMA TaskMoves ==
    ASSUME JobInv, NEW id \in JobIds, NEW now \in TaskRecords, NEW row \in Rows,
           tasks' = [tasks EXCEPT ![id] = now],
           tasks[id].pc # "none", now.pc # "none", now.key = tasks[id].key,
           jobs' = [jobs EXCEPT ![id] = row],
           row = jobs[id] \/ (jobs[id].status # "succeeded" /\ row.key = jobs[id].key),
           now.pc \in Waiting => row.status = "queued",
           now.pc \in Working => row.status = "running",
           restarts = 0 /\ row.status = "succeeded" => row.result = row.key,
           running' \subseteq JobIds,
           UNCHANGED <<clients, counter, requests, restarts>>
    PROVE  JobInv'
<1>1. JobTypes'
  BY DEF JobInv, JobTypes
<1>2. \A other \in JobIds :
        /\ tasks'[other] = IF other = id THEN now ELSE tasks[other]
        /\ jobs'[other] = IF other = id THEN row ELSE jobs[other]
  BY DEF JobInv, JobTypes
<1>3. ASSUME NEW c \in Clients PROVE ClientInv(c)'
  <2>1. ClientInv(c) /\ (Issuing(c) => clients[c].id \in JobIds /\ clients[c].id # id)
    BY DEF JobInv, ClientInv, Issuing
  <2>2. clients[c].pc = "hit" /\ restarts = 0 =>
          clients[c].reused \in JobIds /\ jobs'[clients[c].reused] = jobs[clients[c].reused]
    BY <1>2, <2>1 DEF ClientInv
  <2> QED
    BY <1>2, <2>1, <2>2 DEF ClientInv, Issuing
<1>4. ASSUME NEW other \in JobIds PROVE TaskInv(other)' /\ RowInv(other)'
  <2>1. TaskInv(other) /\ RowInv(other)
    BY DEF JobInv
  <2>2. other[2] \in Nat /\ counter \in Nat
    BY IdNumbers DEF JobInv, JobTypes
  <2>3. CASE other = id
    BY <1>2, <2>1, <2>2, <2>3 DEF TaskInv, RowInv
  <2>4. CASE other # id
    BY <1>2, <2>1, <2>4 DEF TaskInv, RowInv
  <2> QED
    BY <2>3, <2>4
<1> QED
  BY <1>1, <1>3, <1>4 DEF JobInv

\* What moving and coming back make of a client.
LEMMA MovesTo ==
    ASSUME JobInv, NEW c \in Clients, NEW pc \in ClientSteps, Moves(c, pc)
    PROVE  \E now \in ClientRecords :
             /\ clients' = [clients EXCEPT ![c] = now] /\ now.pc = pc
             /\ now.id = clients[c].id /\ now.key = clients[c].key
<1> DEFINE now == [clients[c] EXCEPT !.pc = pc]
<1>1. clients[c] \in ClientRecords
  BY DEF JobInv, JobTypes
<1>2. now \in ClientRecords /\ now.pc = pc /\ now.id = clients[c].id /\ now.key = clients[c].key
  BY <1>1 DEF ClientRecords
<1>3. clients' = [clients EXCEPT ![c] = now]
  BY DEF Moves
<1> HIDE DEF now
<1> QED
  BY <1>2, <1>3

LEMMA TaskGoesTo ==
    ASSUME JobInv, NEW id \in JobIds, NEW pc \in Waiting \cup Working \cup {"leave", "done"},
           TaskTo(id, pc)
    PROVE  \E now \in TaskRecords :
             tasks' = [tasks EXCEPT ![id] = now] /\ now.pc = pc /\ now.key = tasks[id].key
<1> DEFINE now == [tasks[id] EXCEPT !.pc = pc]
<1>1. tasks[id] \in TaskRecords
  BY DEF JobInv, JobTypes
<1>2. now \in TaskRecords /\ now.pc = pc /\ now.key = tasks[id].key
  BY <1>1 DEF TaskRecords
<1>3. tasks' = [tasks EXCEPT ![id] = now]
  BY DEF TaskTo
<1> HIDE DEF now
<1> QED
  BY <1>2, <1>3

\* put_job: one row, with the key of its first insertion.
LEMMA PutJobPuts ==
    ASSUME JobInv, NEW id \in JobIds, NEW key \in AnyKey, NEW result \in AnyKey,
           NEW status \in Ended \cup {"queued", "running"}, NEW reused \in Ids,
           PutJob(id, key, status, result, reused)
    PROVE  \E row \in Rows :
             /\ jobs' = [jobs EXCEPT ![id] = row]
             /\ row.status = status /\ row.result = result /\ row.reused = reused
             /\ jobs[id] = NoRow => row.key = key
             /\ jobs[id] # NoRow => row.key = jobs[id].key
<1> DEFINE kept == IF jobs[id] = NoRow THEN key ELSE jobs[id].key
           row == Row(kept, status, result, reused)
<1>1. kept \in AnyKey
  BY DEF JobInv, JobTypes, Rows
<1>2. /\ row \in Rows /\ row.key = kept
      /\ row.status = status /\ row.result = result /\ row.reused = reused
  BY <1>1 DEF Row, Rows
<1>3. jobs' = [jobs EXCEPT ![id] = row]
  BY DEF PutJob, JobInv, JobTypes
<1> HIDE DEF row
<1> QED
  BY <1>2, <1>3

LEMMA QuietClientStep ==
    ASSUME JobInv, NEW c \in Clients,
           Register(c) \/ Look(c) \/ Unblocked(c) \/ TimesOut(c) \/ Read(c) \/ AskCancel(c)
           \/ ClientWriteFails(c)
    PROVE  JobInv'
<1>1. UNCHANGED <<jobs, counter, tasks, requests, restarts>>
  BY DEF Register, Look, Unblocked, TimesOut, Read, AskCancel, ClientWriteFails, Bounds
<1>2. running' \subseteq JobIds
  <2>1. Register(c) => clients[c].id \in JobIds
    BY DEF Register, AtClient, JobInv, ClientInv
  <2> QED
    BY <2>1 DEF Register, Look, Unblocked, TimesOut, Read, AskCancel, ClientWriteFails,
                JobInv, JobTypes
<1>3. CASE Returns(c)
  BY <1>1, <1>2, <1>3, IdleTyped, ClientMoves DEF Returns, Idle
<1>4. CASE AskCancel(c)
  <2>1. PICK id \in running :
          clients' = [clients EXCEPT ![c] = [Idle EXCEPT !.pc = "signal", !.id = id]]
    BY <1>4 DEF AskCancel
  <2> DEFINE now == [Idle EXCEPT !.pc = "signal", !.id = id]
  <2>2. id \in JobIds
    BY DEF JobInv, JobTypes
  <2>3. now \in ClientRecords /\ now.pc = "signal" /\ now.id = id
    BY <2>2, IdleTyped DEF ClientRecords, ClientSteps, Ids
  <2> HIDE DEF now
  <2>4. clients' = [clients EXCEPT ![c] = now]
    BY <2>1 DEF now
  <2> QED
    BY <1>1, <1>2, <2>2, <2>3, <2>4, ClientMoves
<1>5. CASE ~Returns(c) /\ ~AskCancel(c)
  <2>1. PICK pc \in {"look", "block", "read"} : Moves(c, pc) /\ clients[c].pc # "idle"
    BY <1>5 DEF Register, Look, Unblocked, TimesOut, Read, ClientWriteFails, AtClient
  <2>2. PICK now \in ClientRecords :
          clients' = [clients EXCEPT ![c] = now] /\ now.pc = pc /\ now.id = clients[c].id
    BY <2>1, MovesTo DEF ClientSteps
  <2>3. now.id \in JobIds
    BY <2>1, <2>2 DEF JobInv, ClientInv
  <2> QED
    BY <1>1, <1>2, <2>1, <2>2, <2>3, ClientMoves
<1> QED
  BY <1>3, <1>4, <1>5

\* A submission writes the first record of its job.
LEMMA ClientPuts ==
    ASSUME JobInv, NEW c \in Clients, clients[c].pc \in {"hit", "put"},
           NEW row \in Rows, NEW now \in ClientRecords,
           jobs' = [jobs EXCEPT ![clients[c].id] = row],
           clients' = [clients EXCEPT ![c] = now],
           \/ now.pc \in {"idle", "look"}
           \/ now.pc = "pool" /\ now.key = clients[c].key /\ row.status = "queued",
           now.pc # "idle" => now.id = clients[c].id,
           restarts = 0 => row.key = clients[c].key,
           restarts = 0 /\ row.status = "succeeded" => row.result = row.key,
           UNCHANGED <<counter, running, tasks, requests, restarts>>
    PROVE  JobInv'
<1> DEFINE id == clients[c].id
<1>1. ClientInv(c) /\ Issuing(c) /\ id \in JobIds
  BY DEF JobInv, ClientInv, Issuing
<1>2. /\ \A other \in JobIds : jobs'[other] = IF other = id THEN row ELSE jobs[other]
      /\ \A d \in Clients : clients'[d] = IF d = c THEN now ELSE clients[d]
  BY <1>1 DEF JobInv, JobTypes
<1>3. JobTypes'
  BY <1>1 DEF JobInv, JobTypes
<1>4. ASSUME NEW d \in Clients PROVE ClientInv(d)'
  <2>1. CASE d = c
    <3>1. now.pc = "pool" => ClientInv(c)'
      <4>1. \A e \in Clients : Issuing(e)' /\ e # c => Issuing(e) /\ clients'[e].id = clients[e].id
        BY <1>2 DEF Issuing
      <4> QED
        BY <1>1, <1>2, <4>1 DEF ClientInv, Issuing
    <3>2. now.pc # "pool" => ClientInv(c)'
      BY <1>1, <1>2 DEF ClientInv, Issuing
    <3> QED
      BY <2>1, <3>1, <3>2
  <2>2. CASE d # c
    <3>1. ClientInv(d) /\ (Issuing(d) => clients[d].id \in JobIds /\ clients[d].id # id)
      BY <1>1, <2>2 DEF JobInv, ClientInv, Issuing
    <3>2. clients[d].pc = "hit" /\ restarts = 0 =>
            clients[d].reused \in JobIds /\ jobs'[clients[d].reused] = jobs[clients[d].reused]
      <4>1. restarts = 0 => jobs[id].status = "none"
        BY <1>1 DEF ClientInv, NoRow, Row
      <4> QED
        BY <1>2, <3>1, <4>1 DEF ClientInv
    <3>3. clients'[d] = clients[d]
      BY <1>2, <2>2
    <3>4. \A e \in Clients : Issuing(e)' /\ clients'[e].id = clients'[d].id /\ Issuing(d) => e = d
      <4> SUFFICES ASSUME NEW e \in Clients, Issuing(e)',
                             clients'[e].id = clients'[d].id, Issuing(d)
                   PROVE  e = d
        OBVIOUS
      <4>1. CASE e = c
        BY <1>2, <3>1, <3>3, <4>1 DEF Issuing
      <4>2. CASE e # c
        BY <1>2, <3>1, <3>3, <4>2 DEF Issuing, ClientInv
      <4> QED
        BY <4>1, <4>2
    <3> QED
      BY <1>2, <3>1, <3>2, <3>3, <3>4 DEF ClientInv, Issuing
  <2> QED
    BY <2>1, <2>2
<1>5. ASSUME NEW other \in JobIds PROVE TaskInv(other)' /\ RowInv(other)'
  <2>1. TaskInv(other) /\ RowInv(other) /\ other[2] \in Nat /\ counter \in Nat
    BY IdNumbers DEF JobInv, JobTypes
  <2>2. CASE other = id
    BY <1>1, <1>2, <2>1, <2>2 DEF TaskInv, RowInv, ClientInv, Waiting, Working
  <2>3. CASE other # id
    BY <1>2, <2>1, <2>3 DEF TaskInv, RowInv
  <2> QED
    BY <2>2, <2>3
<1> QED
  BY <1>3, <1>4, <1>5 DEF JobInv

LEMMA PutStep ==
    ASSUME JobInv, NEW c \in Clients, PutHit(c) \/ PutQueued(c)
    PROVE  JobInv'
<1> DEFINE client == clients[c]
<1>1. /\ client \in ClientRecords /\ client.pc \in {"hit", "put"} /\ client.id \in JobIds
      /\ client.key \in CacheKeys /\ client.key \in AnyKey
      /\ client.result \in AnyKey /\ client.reused \in Ids
      /\ restarts = 0 => jobs[client.id] = NoRow
  BY DEF PutHit, PutQueued, AtClient, JobInv, JobTypes, ClientInv, Issuing, ClientRecords, AnyKey
<1>2. UNCHANGED <<counter, running, tasks, requests, restarts>>
  BY DEF PutHit, PutQueued, Bounds
<1>3. CASE PutHit(c)
  <2>1. PutJob(client.id, client.key, "succeeded", client.result, client.reused)
    BY <1>3 DEF PutHit
  <2>2. PICK row \in Rows :
          /\ jobs' = [jobs EXCEPT ![client.id] = row]
          /\ row.status = "succeeded" /\ row.result = client.result
          /\ restarts = 0 => row.key = client.key
    BY <1>1, <2>1, PutJobPuts DEF Ended
  <2>3. restarts = 0 => row.result = row.key
    BY <1>3, <2>2 DEF PutHit, AtClient, JobInv, ClientInv
  <2>4. PICK now \in ClientRecords :
          /\ clients' = [clients EXCEPT ![c] = now]
          /\ now.pc \in {"idle", "look"} /\ (now.pc # "idle" => now.id = client.id)
    <3>1. CASE Returns(c)
      BY <3>1, IdleTyped DEF Returns, Idle
    <3>2. CASE Moves(c, "look")
      BY <3>2, MovesTo DEF ClientSteps
    <3> QED
      BY <1>3, <3>1, <3>2 DEF PutHit
  <2> QED
    BY <1>1, <1>2, <2>2, <2>3, <2>4, ClientPuts
<1>4. CASE PutQueued(c)
  <2>1. PutJob(client.id, client.key, "queued", NoKey, NoJob)
    BY <1>4 DEF PutQueued
  <2>2. PICK row \in Rows :
          /\ jobs' = [jobs EXCEPT ![client.id] = row]
          /\ row.status = "queued" /\ (restarts = 0 => row.key = client.key)
    <3>1. PICK status \in Ended \cup {"queued", "running"} : status = "queued"
      OBVIOUS
    <3>2. NoKey \in AnyKey /\ NoJob \in Ids
      BY DEF AnyKey, Ids
    <3>3. PutJob(client.id, client.key, status, NoKey, NoJob)
      BY <2>1, <3>1
    <3> QED
      BY <1>1, <3>1, <3>2, <3>3, PutJobPuts
  <2>3. PICK now \in ClientRecords :
          /\ clients' = [clients EXCEPT ![c] = now]
          /\ now.pc = "pool" /\ now.id = client.id /\ now.key = client.key
    BY <1>4, MovesTo DEF ClientSteps, PutQueued
  <2> QED
    BY <1>1, <1>2, <2>2, <2>3, ClientPuts
<1> QED
  BY <1>3, <1>4

\* The pool has the job: the id is a task's now.
LEMMA EnqueueStep ==
    ASSUME JobInv, NEW c \in Clients, Enqueue(c)
    PROVE  JobInv'
<1> DEFINE id == clients[c].id
           task == [pc |-> "pending", key |-> clients[c].key, cancel |-> FALSE]
<1>1. /\ clients[c].pc = "pool" /\ ClientInv(c) /\ Issuing(c) /\ id \in JobIds
      /\ tasks' = [tasks EXCEPT ![id] = task]
      /\ UNCHANGED <<jobs, counter, running, requests, restarts>>
  BY DEF Enqueue, AtClient, JobInv, ClientInv, Issuing, Bounds
<1>2. task \in TaskRecords /\ task.pc = "pending" /\ task.key = clients[c].key
  BY <1>1 DEF ClientInv, TaskRecords, Waiting, AnyKey
<1> HIDE DEF task
<1>3. PICK now \in ClientRecords :
        clients' = [clients EXCEPT ![c] = now] /\ now.pc = "register" /\ now.id = id
  BY MovesTo DEF ClientSteps, Enqueue
<1>4. /\ \A other \in JobIds : tasks'[other] = IF other = id THEN task ELSE tasks[other]
      /\ \A d \in Clients : clients'[d] = IF d = c THEN now ELSE clients[d]
  BY <1>1, <1>3 DEF JobInv, JobTypes
<1>5. JobTypes'
  BY <1>1, <1>2, <1>3 DEF JobInv, JobTypes
<1>6. ASSUME NEW d \in Clients PROVE ClientInv(d)'
  <2>1. CASE d = c
    BY <1>1, <1>3, <1>4, <2>1 DEF ClientInv, Issuing
  <2>2. CASE d # c
    <3>1. ClientInv(d) /\ (Issuing(d) => clients[d].id \in JobIds /\ clients[d].id # id)
      BY <1>1, <2>2 DEF JobInv, ClientInv, Issuing
    <3>2. \A e \in Clients : Issuing(e)' => Issuing(e) /\ clients'[e] = clients[e]
      BY <1>3, <1>4 DEF Issuing
    <3> QED
      BY <1>1, <1>4, <2>2, <3>1, <3>2 DEF ClientInv, Issuing
  <2> QED
    BY <2>1, <2>2
<1>7. ASSUME NEW other \in JobIds PROVE TaskInv(other)' /\ RowInv(other)'
  <2>1. TaskInv(other) /\ RowInv(other)
    BY DEF JobInv
  <2>2. CASE other = id
    BY <1>1, <1>2, <1>4, <2>1, <2>2 DEF TaskInv, RowInv, ClientInv, Waiting, Working
  <2>3. CASE other # id
    BY <1>1, <1>4, <2>1, <2>3 DEF TaskInv, RowInv
  <2> QED
    BY <2>2, <2>3
<1> QED
  BY <1>5, <1>6, <1>7 DEF JobInv

\* A signal reaches a task, or an id whose task is gone with its process.
LEMMA SignalStep ==
    ASSUME JobInv, NEW c \in Clients, Signal(c)
    PROVE  JobInv'
<1> DEFINE id == clients[c].id
           task == tasks[id]
           hit == [pc |-> IF task.pc = "pending" THEN "dropped" ELSE task.pc, key |-> task.key,
                   cancel |-> TRUE]
<1>1. /\ clients[c].pc = "signal" /\ id \in JobIds /\ task \in TaskRecords
      /\ UNCHANGED <<jobs, counter, running, requests, restarts>>
  BY DEF Signal, AtClient, JobInv, JobTypes, ClientInv, Bounds
<1>2. hit \in TaskRecords /\ hit.key = task.key
      /\ hit.pc = IF task.pc = "pending" THEN "dropped" ELSE task.pc
  BY <1>1 DEF TaskRecords, Waiting
<1>3. tasks' = [tasks EXCEPT ![id] = hit]
  BY DEF Signal
<1> HIDE DEF hit
<1>4. /\ \A other \in JobIds : tasks'[other] = IF other = id THEN hit ELSE tasks[other]
      /\ \A d \in Clients : clients'[d] = IF d = c THEN Idle ELSE clients[d]
  BY <1>1, <1>3 DEF JobInv, JobTypes, Signal, Returns
<1>5. JobTypes'
  BY <1>1, <1>2, <1>3, IdleTyped DEF JobInv, JobTypes, Signal, Returns
<1>6. ASSUME NEW d \in Clients PROVE ClientInv(d)'
  <2>1. CASE d = c
    BY <1>1, <1>4, <2>1 DEF ClientInv, Issuing, Idle
  <2>2. CASE d # c
    <3>1. ClientInv(d) /\ (Issuing(d) => clients[d].id \in JobIds)
      BY DEF JobInv, ClientInv, Issuing
    <3>2. \A e \in Clients : Issuing(e)' => Issuing(e) /\ clients'[e] = clients[e]
      BY <1>4 DEF Issuing, Idle
    <3>3. \A other \in JobIds : tasks[other].pc = "none" => tasks'[other].pc = "none"
      BY <1>2, <1>4
    <3> QED
      BY <1>1, <1>4, <2>2, <3>1, <3>2, <3>3 DEF ClientInv, Issuing
  <2> QED
    BY <2>1, <2>2
<1>7. ASSUME NEW other \in JobIds PROVE TaskInv(other)' /\ RowInv(other)'
  <2>1. TaskInv(other) /\ RowInv(other)
    BY DEF JobInv
  <2>2. CASE other = id
    BY <1>1, <1>2, <1>4, <2>1, <2>2 DEF TaskInv, RowInv, Waiting, Working
  <2>3. CASE other # id
    BY <1>1, <1>4, <2>1, <2>3 DEF TaskInv, RowInv
  <2> QED
    BY <2>2, <2>3
<1> QED
  BY <1>5, <1>6, <1>7 DEF JobInv

\* A worker's step, and one the connection refuses it.
LEMMA WorkerInv ==
    ASSUME JobInv, NEW id \in JobIds, WorkerStep(id) \/ WorkerWriteFails(id)
    PROVE  JobInv'
<1> DEFINE task == tasks[id]
<1>1. /\ task \in TaskRecords /\ task.key \in AnyKey /\ jobs[id] \in Rows
      /\ TaskInv(id) /\ RowInv(id) /\ running \subseteq JobIds
  BY DEF JobInv, JobTypes, TaskRecords
<1>2. UNCHANGED <<clients, counter, requests, restarts>> /\ running' \subseteq JobIds
  BY <1>1 DEF WorkerStep, PickUp, PutRunning, Work, Pop, PutSucceeded, PutFailed, Leave,
         WorkerWriteFails, Bounds
<1>3. jobs[id] \in Rows /\ (jobs[id].status \in {"queued", "running"} => jobs[id] # NoRow)
  BY <1>1 DEF NoRow, Row
<1>4. CASE PickUp(id) \/ Work(id) \/ Pop(id) \/ Leave(id) \/ WorkerWriteFails(id)
  <2>1. PICK pc \in {"start"} \cup Working \cup {"leave", "done"} :
          /\ TaskTo(id, pc)
          /\ task.pc \in {"pending", "start", "work", "pop", "succeed", "fail", "cancel", "leave"}
          /\ pc = "start" => task.pc \in Waiting
          /\ pc \in Working => task.pc \in Working
          /\ UNCHANGED jobs
    BY <1>4 DEF PickUp, Work, Pop, Leave, WorkerWriteFails, AtTask, Working, Waiting
  <2>2. PICK now \in TaskRecords :
          tasks' = [tasks EXCEPT ![id] = now] /\ now.pc = pc /\ now.key = task.key
    BY <2>1, TaskGoesTo DEF Waiting
  <2>3. jobs' = [jobs EXCEPT ![id] = jobs[id]]
    BY <2>1 DEF JobInv, JobTypes
  <2>4. /\ now.pc \in Waiting => jobs[id].status = "queued"
        /\ now.pc \in Working => jobs[id].status = "running"
        /\ now.pc # "none" /\ task.pc # "none"
    BY <1>1, <2>1, <2>2 DEF TaskInv, Waiting, Working
  <2> QED
    BY <1>1, <1>2, <2>2, <2>3, <2>4, TaskMoves DEF RowInv
<1>5. CASE PutRunning(id) \/ PutSucceeded(id) \/ PutFailed(id)
  <2>1. PICK pc \in {"work", "done", "leave"}, status \in Ended \cup {"queued", "running"},
             result \in AnyKey :
          /\ TaskTo(id, pc)
          /\ PutJob(id, task.key, status, result, NoJob)
          /\ task.pc \in Waiting \cup Working
          /\ pc = "work" => status = "running"
          /\ status = "succeeded" => result = task.key
    <3>1. NoKey \in AnyKey
      BY DEF AnyKey
    <3> QED
      BY <1>1, <1>5, <3>1 DEF PutRunning, PutSucceeded, PutFailed, Put, AtTask, Ended, Waiting,
           Working
  <2>2. PICK now \in TaskRecords :
          tasks' = [tasks EXCEPT ![id] = now] /\ now.pc = pc /\ now.key = task.key
    BY <2>1, TaskGoesTo DEF Working
  <2>3. PICK row \in Rows :
          /\ jobs' = [jobs EXCEPT ![id] = row]
          /\ row.status = status /\ row.result = result
          /\ jobs[id] # NoRow => row.key = jobs[id].key
    <3>1. NoJob \in Ids
      BY DEF Ids
    <3> QED
      BY <1>1, <2>1, <3>1, PutJobPuts
  <2>4. /\ jobs[id].status \in {"queued", "running"} /\ row.key = jobs[id].key
        /\ restarts = 0 => row.key = task.key
    BY <1>1, <1>3, <2>1, <2>3 DEF TaskInv, Waiting, Working
  <2>5. now.pc \notin Waiting /\ (now.pc \in Working => row.status = "running") /\ now.pc # "none"
    BY <2>1, <2>2, <2>3 DEF Waiting, Working
  <2>6. restarts = 0 /\ row.status = "succeeded" => row.result = row.key
    BY <2>1, <2>3, <2>4
  <2>7. task.pc # "none" /\ jobs[id].status # "succeeded"
    BY <2>1, <2>4 DEF Waiting, Working
  <2> QED
    BY <1>2, <2>2, <2>3, <2>4, <2>5, <2>6, <2>7, TaskMoves
<1> QED
  BY <1>4, <1>5 DEF WorkerStep

LEMMA RestartStep ==
    ASSUME JobInv, Restart
    PROVE  JobInv'
<1>1. /\ restarts' = restarts + 1 /\ restarts' \in Nat /\ restarts' # 0
      /\ counter' = 0 /\ running' = {} /\ UNCHANGED <<jobs, requests>>
      /\ tasks' = [id \in JobIds |-> NoTask] /\ clients' = [c \in Clients |-> Idle]
  BY DEF Restart, JobInv, JobTypes
<1>2. NoTask \in TaskRecords /\ NoTask.pc = "none" /\ Idle.pc = "idle"
  BY DEF NoTask, TaskRecords, AnyKey, Idle
<1>3. JobTypes'
  BY <1>1, <1>2, IdleTyped DEF JobInv, JobTypes
<1>4. \A c \in Clients : ClientInv(c)'
  BY <1>1, <1>2 DEF ClientInv, Issuing
<1>5. \A id \in JobIds : TaskInv(id)' /\ RowInv(id)'
  BY <1>1, <1>2 DEF TaskInv, RowInv, Waiting, Working
<1> QED
  BY <1>3, <1>4, <1>5 DEF JobInv

LEMMA JobInvStep == JobInv /\ [Next]_vars => JobInv'
<1> SUFFICES ASSUME JobInv, [Next]_vars PROVE JobInv'
  OBVIOUS
<1>1. ASSUME NEW c \in Clients,
             SubmitHit(c) \/ SubmitNew(c) \/ AskCancel(c) \/ ClientStep(c) \/ TimesOut(c)
             \/ ClientWriteFails(c)
      PROVE  JobInv'
  BY <1>1, DrawStep, PutStep, EnqueueStep, SignalStep, QuietClientStep DEF ClientStep
<1>2. ASSUME NEW id \in JobIds, WorkerStep(id) \/ WorkerWriteFails(id) PROVE JobInv'
  BY <1>2, WorkerInv
<1>3. CASE UNCHANGED vars
  BY <1>3 DEF vars, JobInv, JobTypes, ClientInv, Issuing, TaskInv, RowInv
<1> QED
  BY <1>1, <1>2, <1>3, RestartStep DEF Next

\* The queue's invariant holds of every queue.
THEOREM QueueInvariant == Spec => []JobInv
BY InitJobInv, JobInvStep, PTL DEF Spec

\* Within a process a cached answer is the result of the very key it is given out
\* under (find_cached_job, put_job's conflict clause): a hit of a hit included.
THEOREM ResultsCorrect == Spec => []ResultsMatchKeys
<1>1. JobInv => ResultsMatchKeys
  BY DEF JobInv, RowInv, ResultsMatchKeys
<1> QED
  BY <1>1, QueueInvariant, PTL

-----------------------------------------------------------------------------
(* The queue implements the ledger.                                        *)

\* A first record is an issue: nobody polls that id yet, or a process before this
\* one issued it.
LEMMA FirstRecordIssues ==
    ASSUME JobInv, NEW c \in Clients, PutHit(c) \/ PutQueued(c)
    PROVE  Ledger!Next
<1> DEFINE client == clients[c]
           id == client.id
<1>1. /\ client.pc \in {"hit", "put"} /\ id \in JobIds /\ ClientInv(c)
      /\ client.key \in AnyKey /\ client.result \in AnyKey /\ client.reused \in Ids
      /\ restarts \in Nat
  BY DEF PutHit, PutQueued, AtClient, JobInv, JobTypes, ClientInv, ClientRecords
<1>2. (jobs[id] = NoRow \/ restarts > 0) /\ UNCHANGED restarts
  BY <1>1 DEF ClientInv, PutHit, PutQueued, Bounds
<1>3. PICK status \in Ended \cup {"queued", "running"}, result \in AnyKey, reused \in Ids :
        /\ PutJob(id, client.key, status, result, reused)
        /\ \/ status = "queued"
           \/ /\ client.pc = "hit" /\ status = "succeeded"
              /\ result = client.result /\ reused = client.reused
  <2>1. CASE PutHit(c)
    BY <1>1, <2>1 DEF PutHit, AtClient, Ended
  <2>2. CASE PutQueued(c)
    <3>1. NoKey \in AnyKey /\ NoJob \in Ids
      BY DEF AnyKey, Ids
    <3> QED
      BY <2>2, <3>1 DEF PutQueued
  <2> QED
    BY <2>1, <2>2
<1>4. PICK row \in Rows :
        /\ jobs' = [jobs EXCEPT ![id] = row]
        /\ row.status = status /\ row.result = result /\ row.reused = reused
  <2>1. PICK key \in AnyKey : PutJob(id, key, status, result, reused)
    BY <1>1, <1>3
  <2> QED
    BY <1>1, <2>1, PutJobPuts
<1>5. jobs'[id] = row /\ Ledger!Touch(id)
  BY <1>1, <1>4 DEF Ledger!Touch, JobInv, JobTypes
<1>6. Ledger!Issue(id)
  BY <1>1, <1>2, <1>3, <1>4, <1>5 DEF Ledger!Issue, ClientInv
<1> QED
  BY <1>1, <1>2, <1>6 DEF Ledger!Next

\* A worker's records are the start and the end of its job.
LEMMA WorkerRecords ==
    ASSUME JobInv, NEW id \in JobIds, PutRunning(id) \/ PutSucceeded(id) \/ PutFailed(id)
    PROVE  Ledger!Next
<1>1. /\ TaskInv(id) /\ tasks[id].key \in AnyKey /\ NoKey \in AnyKey /\ NoJob \in Ids
      /\ UNCHANGED restarts
  BY DEF JobInv, JobTypes, TaskRecords, AnyKey, Ids, PutRunning, PutSucceeded, PutFailed, Bounds
<1>2. PICK status \in Ended \cup {"queued", "running"}, result \in AnyKey :
        /\ PutJob(id, tasks[id].key, status, result, NoJob)
        /\ \/ status = "running" /\ jobs[id].status = "queued"
           \/ status \in Ended /\ jobs[id].status = "running"
  BY <1>1 DEF PutRunning, PutSucceeded, PutFailed, Put, AtTask, TaskInv, Ended, Waiting, Working
<1>3. PICK row \in Rows : jobs' = [jobs EXCEPT ![id] = row] /\ row.status = status
  <2>1. PICK key \in AnyKey, reused \in Ids : PutJob(id, key, status, result, reused)
    BY <1>1, <1>2
  <2> QED
    BY <2>1, PutJobPuts
<1>4. jobs'[id] = row /\ Ledger!Touch(id)
  BY <1>3 DEF Ledger!Touch, JobInv, JobTypes
<1>5. Ledger!Start(id) \/ Ledger!End(id)
  BY <1>2, <1>3, <1>4 DEF Ledger!Start, Ledger!End, Ledger!Ended, Ended
<1> QED
  BY <1>1, <1>5 DEF Ledger!Next

\* Whoever polls the jobs table sees each job's life in order and its end for good,
\* whatever the clients, the workers, the refused writes and the restarts do.
THEOREM QueueImplementsLedger == Spec => KeepsJobLedger
<1>1. Init => Ledger!Init
  BY DEF Init, Ledger!Init
<1>2. JobInv /\ [Next]_vars => [Ledger!Next]_(Ledger!ledger)
  <2> SUFFICES ASSUME JobInv, [Next]_vars PROVE Ledger!Next \/ UNCHANGED <<jobs, restarts>>
    BY DEF Ledger!ledger
  <2>1. ASSUME NEW c \in Clients, SubmitHit(c) \/ SubmitNew(c) \/ AskCancel(c) \/ TimesOut(c)
                                  \/ ClientWriteFails(c)
        PROVE  UNCHANGED <<jobs, restarts>>
    BY <2>1 DEF SubmitHit, SubmitNew, AskCancel, TimesOut, ClientWriteFails, Bounds
  <2>2. ASSUME NEW c \in Clients, ClientStep(c), ~PutHit(c), ~PutQueued(c)
        PROVE  UNCHANGED <<jobs, restarts>>
    BY <2>2 DEF ClientStep, Enqueue, Register, Look, Unblocked, Read, Signal, Bounds
  <2>3. ASSUME NEW id \in JobIds, WorkerStep(id) \/ WorkerWriteFails(id),
               ~PutRunning(id), ~PutSucceeded(id), ~PutFailed(id)
        PROVE  UNCHANGED <<jobs, restarts>>
    BY <2>3 DEF WorkerStep, PickUp, Work, Pop, Leave, WorkerWriteFails, Bounds
  <2>4. Restart => Ledger!Next
    BY DEF Restart, Ledger!Next
  <2>5. UNCHANGED vars => UNCHANGED <<jobs, restarts>>
    BY DEF vars
  <2> QED
    BY <2>1, <2>2, <2>3, <2>4, <2>5, FirstRecordIssues, WorkerRecords DEF Next
<1> QED
  BY <1>1, <1>2, QueueInvariant, PTL DEF Spec, KeepsJobLedger, Ledger!Spec
=============================================================================
