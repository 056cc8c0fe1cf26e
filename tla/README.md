# DroneBench workbench: TLA+ models and proofs

DroneBench imports a drone design, evaluates it, proposes changes, and lets a person review a
preview of each change and accept or decline it. Revisions are append-only; one pointer per design
says which is active. A second set of commands regenerates the aircraft from parameters, makes
bounded edits of it and keeps them in a store of its own, and an evaluator may call an aerodynamic
solver in a subprocess. This directory models the program's shared state and the decisions it
computes, checks the models with TLC and proves the main results with TLAPS. Paths are relative to
the repository.

## 1. The system

| part | state it keeps | operations | properties that make it correct |
|---|---|---|---|
| decision path: `packages/workflow` (`transactions.py`, `repository.py`, `revisions.py`), `apps/api/dronebench_api/service.py` | tables `designs` (active pointer), `revisions`, `proposals`, `decisions` | accept, decline, undo, activate, import, confirm, recommend, preview | what is accepted is what was reviewed; the history is what the design went through; decisions are final; nothing hangs in `committing` |
| job queue: `packages/workflow/.../jobs.py` | one thread pool per kind, `_running`, table `jobs`, a counter | submit, wait, cancel, run, fail | a cached answer belongs to its key; a polled job moves forward; jobs end, callers return |
| revision results: `service.py` (`evaluate`, `require_evaluation`, `simulate`, `_attach_artifact`), `store.py` | files, their `.partial`, the revision's manifest, table `artifacts` | evaluate, require, simulate, write, attach | an attached result is not lost and is found when its job says so |
| recommendation: `packages/recommend` with `stubs/cad.py`, `stubs/evaluate.py` | the proposals of a design and their previews | generate, validate, preview, rank, display, accept | what is accepted is feasible, current and confined to its parts; a card's promise is what the evaluator says; the dialogue ends |
| evaluation: `packages/evaluate` | none | mass, energy, tail, drag, spar, propulsion; checks; tier | unknown stays unknown; a tainted energy taints what rests on it; the tier is earned |
| OpenVSP worker: `packages/openvsp_worker` | `sweep_result.json`, subprocesses | hash, refuse, launch, time out, collect | a sweep is of the geometry its label names; the call returns |
| edit operations: `packages/edits` (`policy.py`, `operations.py`, `collide.py`, `apply.py`), `packages/cad` (`params.py`, `reconstruct.py`) | a revision's parameters, placements, features | bounds, plan, regenerate, check, carry forward, replay | bounds hold along a chain; untouched pairs stay clear; what is carried says what was built |
| edit store: `packages/edits/dronebench_edits/store.py`, `apply.py`, `cli.py`; `packages/ingest/.../revisions.py` | a directory per revision, `active`, `idempotency.json`, `decisions.jsonl`, `.lock` | propose, accept, decline, confirm | the pointer names a committed revision that passed; a key keeps its revision; no acceptance is lost |
| web workbench: `apps/web/src` | displayed revision, busy flag, event window, last sequence | start-up load, import, confirm, recommend, decide, undo, reload | what is shown is of one revision; what is accepted is what is shown |
| HTTP and events: `apps/api/dronebench_api/main.py` | a cursor per stream | routes, `/api/events` | every event once, in order, across reconnects |
| contracts: `packages/contracts` | none | validation of records, claim rules | unknown stays unknown; the proposal life cycle |
| sqlite substrate: `db.py` | one connection for all threads, WAL | `connect`, `transaction` | statements of one transaction stay together |
| design graph, mission simulation, ingest, viewer, command lines, scripts, fixtures | none across calls | sequential | outside the models, see section 6 |

How they interact. A browser or the command line calls the service, one request thread per call.
Threads share one sqlite connection, whose transactions exclude each other, and they hold nothing
between two statements: every value read is stale by the next one. Long work goes through the job
queue to pool workers, which write files first, then the manifest and the tables, then their
record. The page starts chains of calls and handles each answer later, while a start-up chain or
another client may be at work. The edit store is a second store of revisions that does not use the
database: its processes share files and a lock file, and may be killed. The solver is a chain of
subprocesses that may outlive the call that started them. The hard behaviours follow from this:
values read and used later, two requests with one key, a crash between two writes, a cancel or a
restart while a job runs, whole documents written back, a lock that is broken because it looks old,
a check that is skipped because an earlier one is taken to have been clean. `PROJECT.json` lists
each at its line.

## 2. Modules

| module | models |
|---|---|
| `ProposalLifecycle` | the proposal states and legal transitions (`recommend.py`) |
| `RevisionLedger` | abstract: one active revision, a timeline that grows, decisions written once, an acceptance recorded by the step that activates it |
| `DecisionPath`, `MCDecisionPath` | the decision path of one design, one action per statement or transaction of a handler |
| `DecisionPathProofs` | theorems about `DecisionPath` |
| `JobLedger` | abstract: what the jobs table promises whoever polls it |
| `JobQueue`, `MCJobQueue` | submit, wait, cancel, the pool and its workers |
| `RevisionEvidence` | evaluation and simulation results of one revision |
| `WorkbenchSession` | one page, its start-up load and clicks, against the server |
| `EventStream` | the audit events on their way from the table to the page |
| `Airframe` | a design as the recommendation sees it: occurrences, definitions, claims |
| `ReferenceEvaluator`, `ReferenceCad` | the analytic evaluator and the parametric CAD port the service is built with |
| `Candidates`, `ProposalGate`, `Ranking` | the deterministic generators, the gate, the order of the cards |
| `Recommendation`, `MCRecommendation` | the loop that composes the five: propose, preview, rank, show, accept, confirm |
| `Physics`, `RevisionEvaluation` | the evaluator of `packages/evaluate`: claims, checks, tier |
| `SolverSweep`, `MCSolverSweep` | the solver worker beside that evaluator |
| `EditPolicy`, `Reconstruction`, `Collider` | an edit's bounds, the regenerated aircraft, interference and propeller clearance |
| `EditOperations`, `MCEditOperations` | `apply_edit` over the three: chains of previews |
| `EditOperationsProofs` | theorems about `EditOperations` |
| `StoreLedger` | abstract: an acceptance compares, moves and logs in one step; what a lapse (a kill, an outstayed lock) leaves of that |
| `EditStore`, `MCEditStore` | the revision store of a design directory and its lock file |
| `EditStoreProofs` | theorems about `EditStore` |
| `JobQueueProofs`, `RevisionEvidenceProofs` | theorems about `JobQueue` and `RevisionEvidence` |
| `WorkbenchSessionProofs` | theorems about the page (`WorkbenchSession`) and its stream (`EventStream`) |
| `RecommendationProofs` | theorems about `Recommendation` and the five modules it composes |
| `SolverSweepProofs` | theorems about `SolverSweep` and the evaluator it feeds |

**DecisionPath.** A revision's id is the hash of its parent, stage and documents, so a revision is
the record of the three, and the documents are the set of changes absorbed since import; the preview
hash covers the whole preview, so the preview is its own hash. `table[p]` is the payload
`get_proposal` reads (its columns `state` and `base_revision_id` are written and never read back by
the modelled code). `act[h]` is a thread: its place and what it has read. `decide` is `Replay`,
`FetchDecline`/`FetchAccept`, then `Decline`, `RecordDecline` or `PreCheck`, `MarkCommitting`,
`BuildCommit`, `Swap`, `Finish`, with `BuildFails`, `SwapLost`, `MarkStale` and `MarkFailed` for the
errors. `Swap` is one transaction: pointer, timeline stamp and decision. Undo is `ReadHistory`,
`PickTarget`, `MovePointer`; confirm is `ReadParent`, `SealConfirmed`, `Activate`; recommend and
preview are `Generate` (which files a batch proposal by proposal), `FetchPreview`, `CheckBase`,
`Stage`, `Save`. `Abort` ends a handler at any step and `Restart` ends them all. Abstractions: the
timeline is a sequence, which is what ordering by `activated_at` gives when the clock advances; an
audit event is appended with the write before it and is kept as the request's outcome; catalog and
source reads are left out.

**JobQueue.** A row has the key of its first insert and the status, result and reuse of its last
write (`put_job`'s conflict clause). `submit` is a counter increment and lookup, the record, the
pool and the registration, in four steps; a worker writes `running`, works, removes itself from
`_running`, writes its end. `wait` returns when the future ends or times out. A cancel, a refused
write or a restart may come at any step. A lookup may take any matching row and a pool any queued
job, which is more than the code does.

**RevisionEvidence.** Bytes differ by the run that took them (only in timing), so a checksum is the
run's number. A worker checks the path, writes `.partial`, renames it, reads the manifest, and
writes manifest and row in one step, because `_attach_artifact` holds the lock for the two
statements. A cancel drops a queued job only: the work of a running one does not look at the event.
A request names a fidelity tier and an artifact has one: asking for another tier than the one on
file ends in the job's failure at the path, since an artifact is never replaced by other bytes. The
mission and the registry are fixed by the import here, so they match always. The export, a third
late artifact that the present solver refuses, is not modelled.

**WorkbenchSession and EventStream.** The page's state is `view`; `flow` has the chain of calls of
the start-up effect and of the one click that `busy` lets through. The server works on a call in
one step and the page takes the answer in a later one, so another client's move can come between;
the history, whose route reads the active pointer and the timeline in
two statements, is worked on in two (`ReadActive`, `ServeHistory`); an answer that reads only a
sealed revision is served and shown in one step. A call may fail before
or after the server worked on it. `EventStream` has the
generator's cursor, the frames on the connection, the browser's last event id (which survives a
reconnect, as `EventSource` keeps it) and the request for recent events, whose page and last
sequence are read in two steps.

**Recommendation.** A design is stations, masses, lengths, the spar's tube, the mounts' bore, the
panels' extension, span, area and the battery's claims; `Frame` is what no edit changes. Numbers are
integers in grams, millimetres and so on, and each formula keeps its shape: the centre of gravity
and the static margin are compared without a division, the fourth powers of the tube are exact,
power has its parasite and its induced term. Generators, gate, CAD port and evaluator are four
modules because they are four pieces of code that must agree: a move is screened by the generator's
own mass arithmetic, applied by the CAD port, and judged by the evaluator. `Propose`, `Preview`,
`Finalise` and `Accept` are the service's calls; `Confirm` may come between any two of them.
`Accept` takes any previewed proposal that passed, displayed or not, since the service goes by its
id. Undo is `DecisionPath`'s: there the pointer moves back to a revision, which here would be a
design already seen. The `Provider` protocol is an extension point whose shipped implementation
writes nothing; `ProviderOps` are operations an implementation may write, and they pass the gate
like the others. The last part of the sort key is the text of the proposal id, which the model does
not compare: ranking takes any order that puts no card behind a worse one (`Rankings`).

**Physics, RevisionEvaluation and SolverSweep.** Every quantity is a claim with a value and a
status; a field may be a number, null or absent, which `first_present` tells apart, and a pack's
energy is looked for in its specs and then in the part itself. The fourteen checks are operators
over the claims. `SolverSweep` has the caller, which passes over a command that is not there, the
process it waits for, the processes it gave up that still run (a launcher was killed and its child
was not), and the one result file they all write, which is torn while it is written. A process reads
the geometry itself, later than the caller hashed it. A facts-set makes the input of the evaluator
grow.

**EditOperations.** A revision is the record of its parent, request, verdict, parameters, placements
and features, as its id is their hash. `Refuse`, `Replay`, `Fail` and `Preview` are the four ways
through `apply_edit`; `Preview` runs policy, kernel, regeneration, collider, the checks of the
request and of the unchanged parts, the carried placements and span, and the automatic decline of a
refused preview, whose failure the code ignores. `Fail` is what raises on the way: an exception of
the kernel or the export fails the call, and the store's own refusal, when another process has its
lock, blocks it. A diameter may be NaN: no comparison with it holds, so the bounds let it through,
and the call can then only fail, as the canonical JSON of a revision takes no NaN. The span is
restated for the surfaces with "wing" in their name, as the code does, and not by category. Lengths
are half millimetres. A solid is its bounding box: airfoils, cant and superellipses shape a solid
inside its box and no property speaks of that. The reimport of the STEP file runs in a process that
may fail, whatever the aircraft. The ids of the reconstruction are not occurrences of a manifest, so
no edit of them is ever verified (`verified_movement_unknown`, an advisory check), which the model
shows too. Edits are sequential here; their concurrency is `EditStore`'s subject.

**EditStore.** An edit of a base is any child of it, with a verdict. The lock is a file that knows
its creator to the model only: a process sees it is stale, later unlinks whatever is at the path,
and leaves by unlinking whatever is there. Stale is what is old, whoever holds it: the lock of a
process that was killed ages (`Age`), and that of a process that is merely slow too (`Outstay`),
which then goes on in its section. Both count as a lapse. `create_preview` is `Lookup`, `Build`,
`ReadIndex`, `Publish`, `WriteIndex`; `commit` is `Gate`, `Compare`, `Mark`, `Point`, `Log`.
`apply_edit`'s judgement and its decline of a blocked preview are `Judged` and `Dispose`. `Confirm`
stages a directory and `EndConfirm` renames it without the lock. `created_at` is taken with
publication. Files damaged by other programs are not modelled.

## 3. Runs

| run | instance | shows |
|---|---|---|
| `decision_path` | 2 threads, 2 proposals, 1 claim, 2 keys, 3 requests | the timeline is what the design went through and holds no preview, replayed outcomes are true, a committing proposal has an owner, an acceptable preview matches its base, an accept commits what was reviewed and extends it; and `KeepsLedger`; about 627 000 states |
| `decision_faults` | 2 threads, 2 proposals, 1 key, 2 requests, 1 crash or abort; about 136 000 states | requests end, those over a batch too; short of a fault a committing proposal is settled |
| `job_queue` | 2 clients, 2 keys, one pool of one worker, 2 requests, 1 trouble | a cached result is of its key; a polled record moves forward (`KeepsJobLedger`); jobs end and clients return |
| `evidence` | 2 clients, 2 requests, 1 time-out or cancel | an attached evaluation is not lost over concurrent attachments, is found when its job says it succeeded, and requests are answered |
| `workbench_session` | 4 clicks, 2 changes per revision, 1 move by another client, 1 failed call | a page that settled shows one revision, the active one; an accept extends the revision displayed |
| `event_stream` | 5 events, pages of 2 and 3, a window of 2, 2 breaks | the stream hands over each event once and in order, and all of them |
| `recommendation` | the nine-part demonstrator, 7 catalogue items, 5 missions, 4 designs, 2 confirmations, 1 provider's card; 79 047 states | a card that promises a balance gives it; what was accepted is feasible and weighed; a blocked card pushes no ready one off the page; an acceptance touches its own parts only; the dialogue ends |
| `solver_evaluation` | 3 geometries, every subset of 3 facts, 2 interpreters, 2 calls, 1 edit; 76 992 states | an implausible pack taints energy and endurance; a sweep in use is of this geometry unless the file was written while a process started; a learned fact never turns a verdict; a call returns |
| `edit_operations` | 14 requests, 1 key, 3 revisions, the bounds of `edit_policy.yaml`; 5 450 states | policy bounds, stated spans and carried placements hold along a chain; skipped pairs are clear when every ancestor passed; answers are the recorded verdicts, and only what was refused is declined |
| `edit_store` | 2 processes, 1 key, 5 revisions, 4 calls, 1 lapse (a kill or an outstayed lock); about 1.38 million states | pointer, index, acceptances and lock; acceptances are atomic until a lapse, and sound after it (`KeepsStoreLedger`) |
| `solver_run_for_this_geometry`, `committable_is_clean` | as `solver_evaluation` and `edit_operations` | each refutes one sentence of the repository's own documentation; see "findings" in `PROJECT.json` and section 5 |

Why the bounds suffice. Every hazard of the decision path is two overlapping requests and one that
prepared the state they meet: three requests and two threads produce each of them, and the initial
states already hold previews that can be accepted. A proposal's second life (generated again
while being accepted) needs the second proposal to keep a batch busy, which is stored and previewed
one proposal at a time. In the job queue, two
submissions for one worker make one wait and one hit. In the results model a request makes two jobs
at most, so two requests give two workers of each kind at once. A page's hazards are a click, the
move of another client and a reload, from a page with, without or before a design; four clicks
reach recommend, accept, undo and accept again. In the event stream five events are more than two
pages of the stream and more than the recent page and the window. The recommendation's missions are
chosen so that each check fails for some design: routes only a bigger or only the dense pack can
fly, a mass limit the standard pack exceeds, a load the spar does not carry, a locked mount; its
catalogue has packs that do and do not fit the bay and the voltage class, and three tubes. The
demonstrator of the edits has its pack 14.5 mm from the spar, so one move is clear, two meet it, and
a resize or another move after that is the chain whose untested pairs matter. In the edit store four
calls are a confirmation, a proposal and two deciders, or two proposers of one key and a decider.
Deadlock is not checked where the bounds stop the system (`CHECK_DEADLOCK FALSE`): no more requests
is not a deadlock, and the liveness properties say that nobody hangs.

Fairness is weak and on single threads: a thread with a request keeps running (`DecisionPath`), a
client that can go on does and a pool runs what it was given (`JobQueue`, `RevisionEvidence`), the
generator polls, the network delivers and the browser reconnects (`EventStream`), and
`subprocess.run` comes back, with the process or when its time is up (`SolverSweep`). The operating
system's scheduler, `ThreadPoolExecutor` and the time-out give that, and sqlite's busy wait is
bounded. Cancels, crashes, new requests, solver processes that were given up, clicks and
confirmations have no fairness. `Recommendation` has none: `DialogueEnds` says that no behaviour
accepts for ever, however the user acts. `EditStore`, `EditOperations` and `WorkbenchSession` state
safety only: a process that polls the lock gets it or gives up after 20 s, so that it ends says
nothing.

Where a property has a condition it is the code's: `faults = 0` for a claim that a crash falsifies
by design of the tables, `timeouts = 0` and `cancels = 0` for a handler that has no result to wait
for, `restarts = 0` for job ids that start again, `lapses = 0` for a lock that excludes until it is
broken, `fails = 0` and no overlap for a page that has no error to recover from and whose buttons
the start-up load does not disable, `quiet` for a geometry file that is hashed and read in two
steps.

## 4. Proofs

The theorems hold for every value of the constants and every bound.

- `DecisionPathProofs` proves `TypeCorrect` (`TypeOK`), by `TypeInv`: the tables are typed relative
  to the revisions sealed so far, and a thread at a step holds what that step reads (`TaskReady`).
  `TimelineCorrect`, `ReplayCorrect` and `ReviewCorrect` follow from `LineageInv`, over faults too.
  None of the three is inductive alone. What is needed is that a value a thread read is still good
  when it is used: an acceptable row was staged on a base that was active, a revision waiting for
  the swap has the row's base as parent, an undo's candidates are in the timeline (`TaskSound`). All
  of these are about being in the timeline, which no step undoes (`StampKeeps`). The action
  properties `AcceptCorrect` and `AcceptExtends` follow from `QuoteInv` (past its checks a thread
  carries the preview that its client quoted), and `CommittingOwned` from `OwnInv` (a preview being
  saved was computed for a row that is not committing, so a save cannot take a settling thread's
  proposal away). `ImplementsLedger`: `DecisionPath` implements `RevisionLedger` with the tables of
  the same names, each step a step of the ledger or none.
- `JobQueueProofs`, for any kinds, pool sizes and clients: `JobInv` says where a job is. An id that
  was drawn is its drawer's alone until the pool has the job (`Issuing`), the row of a task's job
  says where the task is (`TaskInv`), and within a process a row keeps the key its worker carries
  and what succeeded is the result of its key (`RowInv`). A cache hit is decided in one step and
  written in a later one, so a client about to write one needs that what it found still holds
  (`ClientInv`). It gives `ResultsCorrect` (`ResultsMatchKeys`) and, because a row's status is then
  known at every write, `QueueImplementsLedger` (`KeepsJobLedger`): each step of the queue is a step
  of `JobLedger` or none.
- `RevisionEvidenceProofs`: a worker reads the manifest in one step and writes it back whole in
  another. `EvidenceInv` says that, while no wait was given up, a simulation is only queued on a
  revision that has its evaluation and that the copy it will write back has it too. It gives
  `EvaluationFound` (`RequireFindsEvaluation`) and `EvaluationStays` (`EvaluationKept`).
- `WorkbenchSessionProofs`. For the page, from no assumption on the constants: while the session is
  calm at most one chain of calls is under way, and `ShownDuring` says, for each call of a chain,
  how much of the page is already of the revision that the chain loads. It gives `PageIsWhole`
  (`SettledViewIsWhole`); with where the server's pointer is (`ActiveDuring`) it gives
  `PageIsCurrent` (`SettledViewIsCurrent`) and `AcceptedIsShown` (`AcceptExtendsShown`). The same
  module has the stream's theorem: what is on the wire is what lies between the last event handed
  over and the cursor of the generator that serves this connection (`StreamInv`). A reconnection
  resumes from the former, which gives `EventsInOrder` (`StreamResumes`).
- `RecommendationProofs`, for every airframe, catalogue, set of missions, provider and number of
  confirmations: `RecommendationInv` (`RecommendationInvariant`) says that whatever waits in the
  queue passed the gate for the design the proposals were made for, that a card keeps exactly the
  design and the evaluations that the CAD port and the evaluator give for its operation on that
  design, that it is ready just when nothing blocks it, and that shown cards are ranked. None of the
  properties is inductive without it: a card is judged one step, shown another and accepted a third,
  with confirmations between. `AcceptedDesignIsFeasible` (`AcceptedIsFeasible`) follows, as a
  verified evaluation has every mass (`FeasibleIsWeighed`). `CentringCardsCentre` (`CgCardCentres`)
  is about arithmetic that is written three times. The generator solves for the displacement and
  screens it with its own moments, the port writes it, the evaluator sums again. `SumShifts` says
  what a changed station does to a sum over the parts, `MoveCentres` that the screen and the
  evaluator then decide by the same inequality, and `GenerateOK` that nothing between the screen and
  the card (first of each key, budget, gate) exchanges an operation. The sums are recursive
  functions, so their lemmas need an induction; it is one over a set of naturals (`SetInduction`),
  from the well-foundedness of `<`, and not the library's theorems, which take an operator.
  `ReadyComesFirst` (`ReadyIsDisplayed`) needs that a ranking is a permutation and that a feasible
  card is before one that is not. `AcceptedChangesAreOwned` (`AcceptTouchesOwned`) follows what each
  operation writes (`EditWrites`, `EditTouchesOwned`). It supposes `DefinitionsOwned`: a resize
  changes the bore of the mounts' one definition, an extension that of the panels', so a mount that
  does not bear on the spar, or a third part with a panel's definition, would change without being
  owned. The demonstrator satisfies it, which its MC module asserts.
- `SolverSweepProofs`: a process that nobody disturbed was started with the hash of the geometry it
  has read or will read, and what it leaves is bound in the same way, wherever it lies: in the
  result file, on its standard output, with the caller (`SweepInv`). `SolverBound` says what the
  evaluator asks of a sweep before it counts. Together `QuietSweepBound` (`QuietSweepIsBound`).
  `QuarantineSound` (`QuarantineTaints`) follows the doubt through the claims, for every input:
  packs, usable energy, endurance. `VerdictsLast` (`LearningKeepsVerdicts`) is monotony in what is
  known (`More`): a value that was computed from known ones stays when nulls are filled in, through
  masses, lift, drag, tail, spar and propulsion up to the fourteen checks (`ChecksStay`). It
  supposes `FactsFillIn`: facts fill in nulls and change nothing else, and none of them is a spar's
  modulus or the clearance. A missing modulus counts as one and a missing clearance beside a list of
  intersections as failed, so learning them may turn a verdict; the theorem shows that no other null
  can. The MC module asserts `FactsFillIn` of its input.
- `EditOperationsProofs` proves, for every policy, aircraft, manifest and set of requests,
  `PolicyKept` (`WithinPolicy`) by `PolicyInv`: every published parameter set has its four entries
  and each is as measured or within its bound. The lemma that carries it, `EditedBounded`, says that
  a kernel computes what the policy tested, which is not the same code: `ResizeSpar` works out the
  bore from the parameters and `ResizeInBounds` did so before it. `SpanKept` (`SpanIsStated`) needs
  that the parameters' extension is an integer and that the tips a revision carries are of wings
  (`SpanInv`), because the span is restated by differences. `VerdictsKept` (`VerdictsAgree`) needs
  that an index entry names a published revision (`VerdictInv`); it says that what is declined was
  refused and not the reverse, as the store may refuse the decline. `ChainsStayClean`
  (`CleanChains`) and `PlacementKept` (`PlacementFollows`) speak of all ancestors of a revision.
  `LineInv` says it of any function that satisfies the equation of `Ancestry`, and that there is
  one: publishing a revision extends it, so no induction over the chain is needed. The pairs that an
  accepted edit did not test are of parts that `UnchangedParts` found to be as before, and an edit
  changes no part's id (`SameParts`). `ChainsStayClean` supposes `MeasuredIsClean`: the measured
  aircraft, which no edit tested, interferes nowhere; for the demonstrator the run shows it.
- `EditStoreProofs` proves, for any processes, keys and tree of revisions and any number of calls.
  `StoreInv` holds through kills, outstayed and broken locks, because it needs only what no step
  undoes: what a process read of the store is still published, or still committed, when it uses it
  (`Ready`). It gives `PointerCommitted` (`PointerIsCommitted`) and `IndexCorrect`
  (`IndexNamesEdits`). `SectionInv` speaks of the time before the first lapse: a process in a
  section owns the lock file, the index it read is the index, and its key is not in it when it
  writes. It gives `LockExcludes` (`ExclusiveUntilLapse`) and `KeysKept` (`KeyKeepsRevision`).
  `ChainInv` adds that a process on its way to log an acceptance replaces what was accepted last,
  and that the pointer and the log differ only between a process's two writes; it gives
  `AcceptancesKept` (`AcceptancesChain`, which no run checks by itself: it is what
  `KeepsStoreLedger` says of the log alone). `StoreImplementsLedger` (`KeepsStoreLedger`):
  `EditStore` implements `StoreLedger`. The step of the ledger is the one that moves the pointer, as
  readers see it; the mapped log has the entry that its process is about to write. `EntryInv` says
  that the pointer is until then what the process saw, and that even after a lapse what is moved to
  and logged passed and was expected.

Assumptions: `BoundsAssumption`, `EditBounds`, `JobBounds`, `EvidenceBounds`, `StreamBounds`,
`CallBounds` and `Markers` (bounds are naturals, a pool and a page hold at least one, a marker such
as `NoKey` or `NoRun` is not one of what it stands for the lack of), `NullIsNoCode` (a missing value
is not an error code), `RequestsTyped` (a request has its three fields, a displacement is three
integers and an extension one, or missing), `TipsMeasured` (a measured tip station is an integer),
`NamedWingsAreWings` (a surface with "wing" in its name is no tail), `RevisionTree` (a confirmed
revision has no parent and passed), `SweepAssumption` (two geometries do not have the same hash, and
a fact established does not change it), `FrameAssumption`, `CatalogAssumption` and
`InputsAssumption` (an airframe lists each part once and numbers are integers; an imported design
has a station for every part and a mass that may be unknown; a provider writes one of the four
operations), `UnknownAssumption` and `EvaluationAssumption` (an established value is not the missing
one) and `MissingAssumption` (null is not the absence of a key). TLC evaluates them on each run.

Beyond the prover and model-checked only: liveness (`RequestsEnd`, `CommittingSettles`, `JobsEnd`,
`ClientsReturn`, `RequestsAnswered`, `EventsArrive`, `CallReturns`, `DialogueEnds`). Every other
property of a passing run is proved.

## 5. Where code and documentation disagree, and what surprised

Runs refute two sentences. A sweep loaded through the command line is relabelled with the hash of
the geometry at hand, so it raises another geometry's document to the solver tier
(`solver_run_for_this_geometry`). An edit of a preview that was refused for interference skips the
pairs it did not touch, so its child may pass and be committed (`committable_is_clean`).

Observed while modelling, in the models as the code has it:

- *Decision path.* `mark_committing` and `decline` write a payload read earlier, so a decided
  proposal can leave its terminal state (`transactions.py:195`). The swap compares the active
  revision with what the client quotes, not with the base of the preview, so a client that quotes a
  newer revision commits a stale review (187, 230). A retry that overlaps its first call is executed
  again and marks the committed proposal stale (60). An undo whose conditional update matches no row
  reports success (398).
- *Jobs and results.* After a restart a job id is used again and keeps the first cache key, so a hit
  can be of another work (`repository.py:362`). The manifest's checksum may be of bytes that a
  second run overwrote (`store.py:97`). An evaluation of another tier than the one on file computes
  and then fails, because the path is taken (`service.py` 428-434, `store.py` 90-97).
- *Edit store.* A lock that looks old is removed in a second step, so after a kill two processes may
  be in a section (`store.py:178`). The age says nothing of the holder: one that is slow loses its
  lock while it is in its section, and unlinks its successor's when it leaves.
- *Workbench.* The start-up load disables no button, so its late answers can stay next to a newer
  revision (`WorkbenchContext.tsx:258`). The decision key is the proposal, the decision and the
  revision: after an undo to the same revision the same click replays the old outcome although a
  comment promises one key per decision (227).
- *Recommendation.* A wing panel's definition that both sides share is extended twice (`cad.py`
  136-152). A resize writes the bore into the definition of the mounts it owns: another mount with
  that definition changes with them, unowned and whatever locks it (`cad.py` 123-134). The bay is
  the installed pack's box and five millimetres, so a chain of swaps creeps. The voltage class is
  not compared when the installed pack is not recognised by its mass (`candidates.py` 589-603). A
  replacement does not check the item's category, and claims the item does not declare stay the old
  part's (`cad.py` 161-165).
- *Evaluation.* The energy of a pack is looked for in its specs and in the part by the energy claims
  and in the specs alone by the propulsion limit (`physics.py` 276-280, 885). A pack without an
  internal resistance counts with none, a spar without a modulus with one. A pack without an energy
  is left out of a sum that stays known, and an implausible energy is not noticed when the pack's
  mass is missing. The range is called known whatever the energy is worth. The tail volume of a
  V-tail is projected with the cosine here and with its square in the service's own evaluator. A
  clearance that is missing beside a list of intersections is a failed check, not an unknown one
  (`checks.py` 237-241).
- *Solver worker.* The geometry is hashed by the caller and read again by the process; an edit in
  between labels a sweep with a hash it was not solved for.
- *Edits.* A move by the alias of the pack leaves the manifest's placement behind, and a target
  named twice is moved twice there and once in the parameters. An extension of -50 mm passes the
  bounds and fails in the loft when the last two stations are closer. A replay of an unverified move
  answers without the caveat of the first answer. A NaN diameter passes every bound (`policy.py`
  303-336). A surface of the wing category without "wing" in its id is extended and its span is not
  restated (`apply.py` 279-281, `params.py` 172). The collider's comment says that a regenerated
  part must not find the mesh of the old one; its key is the id, the volume and the centroid
  (`collide.py` 118-127, 199-215), which two tubes can share (12 by 8 and 9 by 1), so two edits in
  one process may be measured on one mesh.

## 6. Plan and what is not modelled

Done: the decision path with its ledger, runs and proofs; job queue; results; edit store; workbench
page and event stream; recommendation with the reference solvers; evaluation and solver worker; edit
operations over the reconstruction. All have proofs.

Left: the shared connection, whose autocommitted statements may fall into another thread's
transaction.

Not modelled. The design graph is a pure view of one revision; nothing reads it back. The mission
simulation integrates real-valued dynamics; it appears as a worker's step. Ingest's inspection of
archives and its mesh statistics end in a manifest, and `confirm`'s effect on the store is in
`EditStore`. Rendering, argument parsing, report texts and record shapes change no shared state. The
geometry kernel and the aerodynamic solver are outside the repository; the models say what the code
does with their answers. `db.py` is one connection whose refusals appear as aborted handlers and
refused writes. `PROJECT.json` gives the reason part by part.

Left out inside what is modelled. The collider measures boxes and exact depths: the mesh cache, the
sampled points of the depth and the pair of solids that cannot be measured, which passes in silence,
are not there, so `CleanChains` is about solids that are closed and measured afresh. A displacement
is a whole unit, so its rounding to a micrometre is the identity; in the program the value that is
rounded is the one that was screened, and the two may differ at the very edge of the envelope. A
sweep document without lists of coefficients has the scalars `CL` and `CDi` read from it; the worker
writes lists, so only a document written by hand would have none. What the geometry kernel makes of
a NaN before the store refuses the number, and of one that is given as the text `nan`, which the
store would take, is outside: here an edit with a NaN never comes to a preview. Undo is modelled in
the decision path and not in the recommendation.
