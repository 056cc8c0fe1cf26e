---------------------------- MODULE DecisionPath ----------------------------
(***************************************************************************)
(* The decision path of one design: accept, decline, undo, confirm,        *)
(* re-import, recommend and preview, run by concurrent request threads     *)
(* over one database.                                                      *)
(*                                                                         *)
(* Every handler is split where another thread can run: at each statement  *)
(* or transaction it issues and at each read whose value it uses later.    *)
(* The work between two of them is local and belongs to the earlier step.  *)
(*                                                                         *)
(* A revision's id is derived from its content (RevisionBuilder.identity:  *)
(* parent, stage and source documents), so a revision IS the record of     *)
(* these three; the documents are abstracted to the set of changes the     *)
(* design has absorbed since import.  The preview hash covers base,        *)
(* operation, documents and evaluation, so the preview record is its own   *)
(* hash.  The audit event a handler appends last and the response it       *)
(* returns say the same thing and nothing here reads either: what is kept  *)
(* of both is whether the request succeeded.                               *)
(***************************************************************************)
EXTENDS Naturals, Sequences, ProposalLifecycle

CONSTANTS
    Proposals,     \* proposal ids; deterministic, so regenerating reuses them
    Claims,        \* what a confirm request can add
    Keys,          \* idempotency keys
    Handlers,      \* request threads
    NoRevision,    \* the null revision id
    MaxRequests,   \* bound: requests clients send
    MaxFaults      \* bound: crashes and aborted handlers

ASSUME BoundsAssumption == MaxRequests \in Nat /\ MaxFaults \in Nat

VARIABLES
    revs,       \* table revisions (and their sealed artifacts)
    active,     \* designs.active_revision_id
    timeline,   \* revisions with activated_at set, in that order
    table,      \* table proposals: the payload get_proposal reads
    decisions,  \* table decisions, by idempotency key
    act,        \* what each request thread is doing
    requests,   \* requests sent so far
    faults      \* crashes and aborts so far

vars == <<revs, active, timeline, table, decisions, act, requests, faults>>

-----------------------------------------------------------------------------
(* Revisions, previews, proposals.                                         *)

Changes == Proposals \cup Claims
Stages  == {"draft", "committed", "staged_preview"}

Revision(parent, stage, content) ==
    [parent |-> parent, stage |-> stage, content |-> content]

Draft == Revision(NoRevision, "draft", {})

CommitOf(base, content) == Revision(base, "committed", content)

PreviewOf(base, p) == Revision(base, "staged_preview", base.content \cup {p})

Preview(rev, ok) == [rev |-> rev, acceptable |-> ok]
NoPreview        == Preview(NoRevision, FALSE)

Row(state, base, preview) ==
    [state |-> state, base |-> base, preview |-> preview]

InState(row, state) == [row EXCEPT !.state = state]

NoDecision == [decision |-> "none"]
Accepted(p, rev) == [decision |-> "accept", proposal |-> p, committed |-> rev]
Declined(p)      == [decision |-> "decline", proposal |-> p]

Activated(r) == \E i \in DOMAIN timeline : timeline[i] = r

-----------------------------------------------------------------------------
(* Threads.  An idle thread keeps whether its last request succeeded.      *)

Idle(ok) == [pc |-> "idle", ok |-> ok]

At(h, pc)     == act[h].pc = pc
Goto(h, pc)   == act' = [act EXCEPT ![h].pc = pc]
Succeed(h)    == act' = [act EXCEPT ![h] = Idle(TRUE)]
Refuse(h)     == act' = [act EXCEPT ![h] = Idle(FALSE)]

Submit(h, task) ==
    /\ At(h, "idle")
    /\ requests < MaxRequests
    /\ requests' = requests + 1
    /\ act' = [act EXCEPT ![h] = task]
    /\ UNCHANGED <<revs, active, timeline, table, decisions, faults>>

Database == <<revs, active, timeline, table, decisions>>
Bounds   == <<requests, faults>>

\* mark_activated: only the first activation is stamped.
Stamp(r) == timeline' = IF Activated(r) THEN timeline ELSE Append(timeline, r)

\* put_proposal: the payload is replaced whole.
Put(p, row) == table' = [table EXCEPT ![p] = row]

-----------------------------------------------------------------------------
(* Decisions: TransactionService.decide.                                   *)

NoRow == Row("proposed", NoRevision, NoPreview)

Decision(d, p, k, expected, hash) ==
    [pc |-> "replay", decision |-> d, proposal |-> p, key |-> k,
     expected |-> expected, hash |-> hash, row |-> NoRow, built |-> NoRevision]

\* A client quotes the preview it reviewed and the revision it believes active:
\* the web workbench the one it showed, the CLI the one active now.
SubmitAccept(h) ==
    \E p \in Proposals, k \in Keys :
      \E expected \in {active, table[p].base} :
        /\ table[p].preview # NoPreview
        /\ Submit(h, Decision("accept", p, k, expected, table[p].preview))

\* A decline carries an expected revision too, which nothing reads.
SubmitDecline(h) ==
    \E p \in Proposals, k \in Keys :
        Submit(h, Decision("decline", p, k, NoRevision, NoPreview))

\* _replay: a stored outcome is returned, or refused when the key was used for
\* other work.
Replay(h) ==
    /\ At(h, "replay")
    /\ LET stored == decisions[act[h].key] IN
       IF stored = NoDecision THEN Goto(h, "fetch")
       ELSE IF stored.proposal = act[h].proposal /\ stored.decision = act[h].decision
       THEN Succeed(h)
       ELSE Refuse(h)
    /\ UNCHANGED <<Database, Bounds>>

\* get_proposal, then the checks that read the fetched payload only.
FetchDecline(h) ==
    /\ At(h, "fetch") /\ act[h].decision = "decline"
    /\ IF Legal(table[act[h].proposal].state, "declined")
       THEN act' = [act EXCEPT ![h].pc = "decline", ![h].row = table[act[h].proposal]]
       ELSE Refuse(h)
    /\ UNCHANGED <<Database, Bounds>>

\* (Mutant: the quoted preview is not compared.)
FetchAcceptUnquoted(h) ==
    /\ At(h, "fetch") /\ act[h].decision = "accept"
    /\ LET row == table[act[h].proposal] IN
       IF row.preview.acceptable
       THEN act' = [act EXCEPT ![h].pc = "precheck", ![h].row = row]
       ELSE Refuse(h)
    /\ UNCHANGED <<Database, Bounds>>

FetchAccept(h) ==
    /\ At(h, "fetch") /\ act[h].decision = "accept"
    /\ LET row == table[act[h].proposal] IN
       IF row.preview # NoPreview /\ act[h].hash = row.preview /\ row.preview.acceptable
       THEN act' = [act EXCEPT ![h].pc = "precheck", ![h].row = row]
       ELSE Refuse(h)
    /\ UNCHANGED <<Database, Bounds>>

\* _decline: the proposal, then the decision row, each its own write.
Decline(h) ==
    /\ At(h, "decline")
    /\ Put(act[h].proposal, InState(act[h].row, "declined"))
    /\ Goto(h, "record")
    /\ UNCHANGED <<revs, active, timeline, decisions, Bounds>>

\* (Mutant: INSERT OR REPLACE.)
RecordReplacing(k, outcome) == decisions' = [decisions EXCEPT ![k] = outcome]

\* INSERT OR IGNORE: the first row of a key stays.
Record(k, outcome) ==
    decisions' = [decisions EXCEPT ![k] = IF @ = NoDecision THEN outcome ELSE @]

RecordDecline(h) ==
    /\ At(h, "record")
    /\ Record(act[h].key, Declined(act[h].proposal))
    /\ Succeed(h)
    /\ UNCHANGED <<revs, active, timeline, table, Bounds>>

\* _accept: the cheap pre-check, then assert_transition on the fetched payload.
PreCheck(h) ==
    /\ At(h, "precheck")
    /\ IF active # act[h].expected THEN Goto(h, "stale")
       ELSE IF Legal(act[h].row.state, "committing") THEN Goto(h, "committing")
       ELSE Refuse(h)
    /\ UNCHANGED <<Database, Bounds>>

MarkCommitting(h) ==
    /\ At(h, "committing")
    /\ Put(act[h].proposal, InState(act[h].row, "committing"))
    /\ Goto(h, "build")
    /\ UNCHANGED <<revs, active, timeline, decisions, Bounds>>

\* build_commit: seal a committed child of the proposal's base out of the
\* preview's documents, outside any transaction.
BuildCommit(h) ==
    /\ At(h, "build")
    /\ LET r == CommitOf(act[h].row.base, act[h].row.preview.rev.content) IN
       /\ revs' = revs \cup {r}
       /\ act' = [act EXCEPT ![h].pc = "swap", ![h].built = r]
    /\ UNCHANGED <<active, timeline, table, decisions, Bounds>>

\* (Mutant: the failure is raised without _fail.)
BuildFailsUnsettled(h) ==
    /\ At(h, "build")
    /\ Refuse(h)
    /\ UNCHANGED <<Database, Bounds>>

\* A checksum or the disk refuses.
BuildFails(h) ==
    /\ At(h, "build")
    /\ Goto(h, "fail")
    /\ UNCHANGED <<Database, Bounds>>

\* (Mutant: the update is not conditional.)
SwapUnchecked(h) ==
    /\ At(h, "swap")
    /\ active' = act[h].built
    /\ Stamp(act[h].built)
    /\ Record(act[h].key, Accepted(act[h].proposal, act[h].built))
    /\ Goto(h, "finish")
    /\ UNCHANGED <<revs, table, Bounds>>

\* The compare-and-swap transaction: pointer, stamp and decision together.
\* (It also sets the proposal's state column, which get_proposal never reads.)
Swap(h) ==
    /\ At(h, "swap")
    /\ active = act[h].expected
    /\ active' = act[h].built
    /\ Stamp(act[h].built)
    /\ Record(act[h].key, Accepted(act[h].proposal, act[h].built))
    /\ Goto(h, "finish")
    /\ UNCHANGED <<revs, table, Bounds>>

\* (Mutant: the outcome is recorded before the pointer is compared.)
SwapLostRecorded(h) ==
    /\ At(h, "swap")
    /\ active # act[h].expected
    /\ Record(act[h].key, Accepted(act[h].proposal, act[h].built))
    /\ Goto(h, "stale")
    /\ UNCHANGED <<revs, active, timeline, table, Bounds>>

SwapLost(h) ==
    /\ At(h, "swap")
    /\ active # act[h].expected
    /\ Goto(h, "stale")
    /\ UNCHANGED <<Database, Bounds>>

\* The last write of an accept: committed, stale or failed, by where it stands.
Settle(h, pc, state) ==
    /\ At(h, pc)
    /\ Put(act[h].proposal, InState(act[h].row, state))
    /\ IF state = "committed" THEN Succeed(h) ELSE Refuse(h)
    /\ UNCHANGED <<revs, active, timeline, decisions, Bounds>>

Finish(h)     == Settle(h, "finish", "committed")
MarkStale(h)  == Settle(h, "stale", "stale")
MarkFailed(h) == Settle(h, "fail", "failed")

-----------------------------------------------------------------------------
(* Undo: TransactionService.undo.                                          *)

Undo(pc, to, history, from, target) ==
    [pc |-> pc, to |-> to, history |-> history, from |-> from, target |-> target]

\* A client may name a revision; the web workbench names none.
SubmitUndo(h) ==
    \E to \in revs \cup {NoRevision} :
        Submit(h, Undo("history", to, << >>, NoRevision, NoRevision))

ReadHistory(h) ==
    /\ At(h, "history")
    /\ IF Len(timeline) < 2 /\ act[h].to = NoRevision
       THEN Refuse(h)
       ELSE act' = [act EXCEPT ![h].pc = "target", ![h].history = timeline]
    /\ UNCHANGED <<Database, Bounds>>

\* The entry before the active one in the history read above, the last but one
\* when the active revision is not in it.
PlaceOf(r, history) ==
    IF \E i \in DOMAIN history : history[i] = r
    THEN CHOOSE i \in DOMAIN history : history[i] = r
    ELSE Len(history)

PickTarget(h) ==
    /\ At(h, "target")
    /\ LET history == act[h].history
           to      == act[h].to
           place   == PlaceOf(active, history)
           Chosen(r) == act' = [act EXCEPT ![h] = Undo("move", to, << >>, active, r)]
       IN  IF to = NoRevision
           THEN IF place = 1 THEN Refuse(h)
                ELSE Chosen(history[place - 1])
           ELSE IF /\ to.stage # "staged_preview"
                   /\ \E i \in DOMAIN history : history[i] = to
                THEN Chosen(to)
                ELSE Refuse(h)
    /\ UNCHANGED <<Database, Bounds>>

\* verify_all refuses a target whose artifacts no longer match.
VerifyFails(h) ==
    /\ At(h, "move")
    /\ Refuse(h)
    /\ UNCHANGED <<Database, Bounds>>

\* The conditional UPDATE: the row count is not looked at, so the reply names
\* the target whether or not the pointer moved.
MovePointer(h) ==
    /\ At(h, "move")
    /\ active' = IF active = act[h].from THEN act[h].target ELSE active
    /\ Stamp(act[h].target)
    /\ Succeed(h)
    /\ UNCHANGED <<revs, table, decisions, Bounds>>

-----------------------------------------------------------------------------
(* Import and confirm: Workbench.import_fixture, Workbench.confirm.        *)

Making(pc, claim, built) == [pc |-> pc, claim |-> claim, built |-> built]

\* The job pool "import" has one worker.  The draft's content is the fixture's,
\* so importing again seals the same revision.
SubmitImport(h) ==
    /\ \A other \in Handlers : act[other].pc = "activate" => act[other].built # Draft
    /\ Submit(h, Making("activate", "none", Draft))

SubmitConfirm(h) ==
    \E c \in Claims : Submit(h, Making("parent", c, NoRevision))

\* confirm reads the active revision, then loads it and seals a child of it.
ReadParent(h) ==
    /\ At(h, "parent")
    /\ act' = [act EXCEPT ![h].pc = "seal", ![h].built = active]
    /\ UNCHANGED <<Database, Bounds>>

SealConfirmed(h) ==
    /\ At(h, "seal")
    /\ LET parent == act[h].built
           r == CommitOf(parent, parent.content \cup {act[h].claim}) IN
       /\ revs' = revs \cup {r}
       /\ act' = [act EXCEPT ![h].pc = "activate", ![h].built = r]
    /\ UNCHANGED <<active, timeline, table, decisions, Bounds>>

\* TransactionService.activate: unconditional.
Activate(h) ==
    /\ At(h, "activate")
    /\ active' = act[h].built
    /\ Stamp(act[h].built)
    /\ Succeed(h)
    /\ UNCHANGED <<revs, table, decisions, Bounds>>

-----------------------------------------------------------------------------
(* Recommend and preview: Workbench.recommend, Workbench.preview.          *)

\* unfiled: candidates not stored yet.
Review(pc, base, batch, unfiled) ==
    [pc |-> pc, base |-> base, batch |-> batch, unfiled |-> unfiled,
     proposal |-> "none", row |-> NoRow]

\* The revision to recommend on is the client's choice.
SubmitRecommend(h) ==
    \E base \in revs, batch \in SUBSET Proposals :
        /\ batch # {}
        /\ Submit(h, Review("generate", base, batch, batch))

SubmitPreview(h) ==
    \E p \in Proposals : Submit(h, Review("next", NoRevision, {p}, {}))

Filed(h, p) ==
    LET unfiled == act[h].unfiled \ {p} IN
    act' = [act EXCEPT ![h].pc = IF unfiled = {} THEN "next" ELSE "generate",
                       ![h].unfiled = unfiled]

\* (Mutant: regenerating keeps the last preview.)
GenerateKeepingPreview(h) ==
    /\ At(h, "generate")
    /\ \E p \in act[h].unfiled :
         Put(p, Row("proposed", act[h].base, table[p].preview)) /\ Filed(h, p)
    /\ UNCHANGED <<revs, active, timeline, decisions, Bounds>>

\* Candidates are stored as proposed one by one, whatever their rows said before;
\* previews begin when all are.
Generate(h) ==
    /\ At(h, "generate")
    /\ \E p \in act[h].unfiled : Put(p, Row("proposed", act[h].base, NoPreview)) /\ Filed(h, p)
    /\ UNCHANGED <<revs, active, timeline, decisions, Bounds>>

\* preview(p): get_proposal, then (after the base's evaluation) the active check.
FetchPreview(h) ==
    /\ At(h, "next")
    /\ \E p \in act[h].batch :
         act' = [act EXCEPT ![h].pc = "base", ![h].proposal = p, ![h].row = table[p]]
    /\ UNCHANGED <<Database, Bounds>>

\* (Mutant: any base will do.)
CheckBaseUnchecked(h) ==
    /\ At(h, "base")
    /\ IF Legal(act[h].row.state, "previewing") THEN Goto(h, "stage")
       ELSE Refuse(h)
    /\ UNCHANGED <<Database, Bounds>>

CheckBase(h) ==
    /\ At(h, "base")
    /\ IF active # act[h].row.base
       THEN act' = [act EXCEPT ![h].pc = "save", ![h].row = InState(@, "stale")]
       ELSE IF Legal(act[h].row.state, "previewing") THEN Goto(h, "stage")
       ELSE Refuse(h)
    /\ UNCHANGED <<Database, Bounds>>

\* Pipeline.preview: the edit's geometry fails, or it is evaluated and sealed as
\* a preview revision that the checks pass or block.
StageFails(h) ==
    /\ At(h, "stage")
    /\ act' = [act EXCEPT ![h].pc = "save",
                  ![h].row = Row("blocked", @.base, Preview(@.base, FALSE))]
    /\ UNCHANGED <<Database, Bounds>>

Stage(h) ==
    /\ At(h, "stage")
    /\ LET r == PreviewOf(act[h].row.base, act[h].proposal) IN
       /\ revs' = revs \cup {r}
       /\ \E ok \in BOOLEAN :
            act' = [act EXCEPT ![h].pc = "save",
                      ![h].row = Row(IF ok THEN "review_ready" ELSE "blocked",
                                     @.base, Preview(r, ok))]
    /\ UNCHANGED <<active, timeline, table, decisions, Bounds>>

\* (Mutant: the batch is gone through again.)
SaveKeepingBatch(h) ==
    /\ At(h, "save")
    /\ Put(act[h].proposal, act[h].row)
    /\ act' = [act EXCEPT ![h] = Review("next", @.base, @.batch, {})]
    /\ UNCHANGED <<revs, active, timeline, decisions, Bounds>>

\* The row staged (or marked stale) is written; a batch goes on with the rest.
Save(h) ==
    /\ At(h, "save")
    /\ Put(act[h].proposal, act[h].row)
    /\ LET rest == act[h].batch \ {act[h].proposal} IN
       IF rest = {} THEN Succeed(h)
       ELSE act' = [act EXCEPT ![h] = Review("next", @.base, rest, {})]
    /\ UNCHANGED <<revs, active, timeline, decisions, Bounds>>

-----------------------------------------------------------------------------
(* Faults.                                                                 *)

\* A handler ends early: on the one shared connection its BEGIN IMMEDIATE is an
\* error while another thread is inside a transaction.
Abort(h) ==
    /\ ~At(h, "idle")
    /\ faults < MaxFaults
    /\ faults' = faults + 1
    /\ Refuse(h)
    /\ UNCHANGED <<Database, requests>>

\* The process dies and starts again: every handler is gone, the database stays.
Restart ==
    /\ \E h \in Handlers : ~At(h, "idle")
    /\ faults < MaxFaults
    /\ faults' = faults + 1
    /\ act' = [h \in Handlers |-> Idle(TRUE)]
    /\ UNCHANGED <<Database, requests>>

-----------------------------------------------------------------------------
(* The specification.                                                      *)

\* A design imported, confirmed once, and reviewed once: each proposal's
\* preview is ready or blocked.
Confirmed == CommitOf(Draft, {})

Init ==
    /\ revs = {Draft, Confirmed} \cup {PreviewOf(Confirmed, p) : p \in Proposals}
    /\ active = Confirmed
    /\ timeline = <<Draft, Confirmed>>
    /\ \E ready \in SUBSET Proposals :
         table = [p \in Proposals |->
                    Row(IF p \in ready THEN "review_ready" ELSE "blocked",
                        Confirmed, Preview(PreviewOf(Confirmed, p), p \in ready))]
    /\ decisions = [k \in Keys |-> NoDecision]
    /\ act = [h \in Handlers |-> Idle(TRUE)]
    /\ requests = 0
    /\ faults = 0

Arrive(h) ==
    \/ SubmitAccept(h) \/ SubmitDecline(h) \/ SubmitUndo(h) \/ SubmitImport(h)
    \/ SubmitConfirm(h) \/ SubmitRecommend(h) \/ SubmitPreview(h)

Work(h) ==
    \/ Replay(h) \/ FetchDecline(h) \/ FetchAccept(h) \/ Decline(h)
    \/ RecordDecline(h) \/ PreCheck(h) \/ MarkCommitting(h) \/ BuildCommit(h)
    \/ BuildFails(h) \/ Swap(h) \/ SwapLost(h) \/ Finish(h) \/ MarkStale(h)
    \/ MarkFailed(h) \/ ReadHistory(h) \/ PickTarget(h) \/ VerifyFails(h)
    \/ MovePointer(h) \/ ReadParent(h) \/ SealConfirmed(h) \/ Activate(h)
    \/ Generate(h) \/ FetchPreview(h) \/ CheckBase(h) \/ StageFails(h)
    \/ Stage(h) \/ Save(h)

Next == Restart \/ \E h \in Handlers : Arrive(h) \/ Work(h) \/ Abort(h)

\* A thread that has a request keeps running.
Fairness == \A h \in Handlers : WF_vars(Work(h))

Spec == Init /\ [][Next]_vars /\ Fairness

-----------------------------------------------------------------------------
(* Properties.                                                             *)

Revisions ==
    [parent: revs \cup {NoRevision}, stage: Stages, content: SUBSET Changes]
Previews  == [rev: revs, acceptable: BOOLEAN] \cup {NoPreview}
Rows      == [state: ProposalStates, base: revs \cup {NoRevision}, preview: Previews]
Outcomes  == {NoDecision}
             \cup [decision: {"accept"}, proposal: Proposals, committed: revs]
             \cup [decision: {"decline"}, proposal: Proposals]

IdleTasks   == [pc: {"idle"}, ok: BOOLEAN]
DecideTasks == [pc: {"replay", "fetch", "decline", "record", "precheck",
                     "committing", "build", "swap", "finish", "stale", "fail"},
                decision: {"accept", "decline"}, proposal: Proposals, key: Keys,
                expected: revs \cup {NoRevision}, hash: Previews, row: Rows,
                built: revs \cup {NoRevision}]
UndoTasks   == [pc: {"history", "target", "move"}, to: revs \cup {NoRevision},
                history: Seq(revs), from: revs \cup {NoRevision},
                target: revs \cup {NoRevision}]
MakeTasks   == [pc: {"parent", "seal", "activate"}, claim: Claims \cup {"none"},
                built: revs \cup {NoRevision}]
ReviewTasks == [pc: {"generate", "next", "base", "stage", "save"},
                base: revs \cup {NoRevision}, batch: SUBSET Proposals,
                unfiled: SUBSET Proposals, proposal: Proposals \cup {"none"}, row: Rows]
Tasks == IdleTasks \cup DecideTasks \cup UndoTasks \cup MakeTasks \cup ReviewTasks

\* Every table holds what its columns say, and every thread what its step needs.
TypeOK ==
    /\ revs \subseteq Revisions
    /\ active \in revs
    /\ timeline \in Seq(revs)
    /\ table \in [Proposals -> Rows]
    /\ decisions \in [Keys -> Outcomes]
    /\ act \in [Handlers -> Tasks]
    /\ requests \in 0..MaxRequests
    /\ faults \in 0..MaxFaults

\* Revision b is in the timeline before position i.
ActivatedBefore(b, i) == \E j \in 1..(i - 1) : timeline[j] = b

\* revision_history is the states this design was actually in: the active
\* revision is one of them, no preview is, and each revision appears after the
\* revision it was built on, although three kinds of request seal children of
\* a base they read earlier and others move the pointer meanwhile.
TimelineIsLineage ==
    /\ Activated(active)
    /\ \A i \in DOMAIN timeline :
         /\ timeline[i].stage # "staged_preview"
         /\ timeline[i] # Draft => ActivatedBefore(timeline[i].parent, i)

\* A replay never reports a commit that did not happen: a recorded acceptance
\* names a committed revision the design was in, whose documents are those of
\* its parent with the accepted proposal's one operation applied.
ReplayIsTruthful ==
    \A k \in Keys : decisions[k].decision = "accept" =>
        LET r == decisions[k].committed IN
        /\ Activated(r)
        /\ r.stage = "committed"
        /\ r.content = r.parent.content \cup {decisions[k].proposal}

\* Without a fault, a proposal stored as committing has a thread that is still
\* going to settle it: no interleaving of accepts, declines and previews leaves
\* one behind in a state nothing can accept or decline.
SettlingOf(p) ==
    {h \in Handlers : /\ act[h].pc \in {"build", "swap", "finish", "stale", "fail"}
                      /\ act[h].proposal = p}

CommittingIsOwned ==
    faults = 0 =>
        \A p \in Proposals : table[p].state = "committing" => SettlingOf(p) # {}

\* A review that can be accepted is of the base it is stored with: the preview
\* was sealed on that base while the base was active.
ReviewMatchesBase ==
    \A p \in Proposals : table[p].preview.acceptable =>
        /\ Activated(table[p].base)
        /\ table[p].preview.rev = PreviewOf(table[p].base, p)

Swaps(h) == At(h, "swap") /\ act'[h].pc = "finish"

\* Accept commits precisely the reviewed preview: however often the proposal is
\* regenerated and previewed meanwhile, what becomes active has the parent and
\* the documents of the preview the client quoted, and that preview passed.
AcceptCommitsReviewed ==
    [][\A h \in Handlers : Swaps(h) =>
         LET reviewed == act[h].hash IN
         /\ reviewed.acceptable
         /\ active' = CommitOf(reviewed.rev.parent, reviewed.rev.content)]_vars

\* A client that quotes the base it reviewed never loses an edit: when such an
\* accept moves the pointer, the new revision is a child of the one it replaces.
AcceptOnReviewedBaseExtends ==
    [][\A h \in Handlers :
         Swaps(h) /\ act[h].expected = act[h].row.base => active'.parent = active]_vars

\* What a request did stays known: a decision is never rewritten, and an
\* acceptance is stored in the step that moves the pointer to its revision
\* (RevisionLedger says this and the rest of what the ledger promises).
Ledger ==
    INSTANCE RevisionLedger
        WITH Keys <- Keys, NoDecision <- NoDecision, revs <- revs, active <- active,
             timeline <- timeline, decisions <- decisions

KeepsLedger == Ledger!Spec

\* Every request is answered, and a proposal stored as committing is settled.
RequestsEnd ==
    \A h \in Handlers : ~At(h, "idle") ~> At(h, "idle")

CommittingSettles ==
    \A p \in Proposals :
        table[p].state = "committing" ~> table[p].state # "committing" \/ faults > 0

=============================================================================
