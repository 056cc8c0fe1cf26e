------------------------- MODULE DecisionPathProofs -------------------------
(***************************************************************************)
(* Theorems about DecisionPath, for any sets of proposals, claims, keys    *)
(* and request threads and any bounds.  In four parts: type correctness;   *)
(* the lineage invariant, that what a thread has read is still true when   *)
(* it uses it, because a revision that is in the timeline stays there;     *)
(* what an accept commits and who settles a proposal that is committing;   *)
(* and that the decision path implements RevisionLedger, with the tables   *)
(* of the same names.                                                      *)
(***************************************************************************)
EXTENDS DecisionPath, SequenceTheorems, TLAPS

-----------------------------------------------------------------------------
(* The type invariant.                                                     *)

\* What a thread's step needs beyond the type of its task.
TaskReady(h) ==
    /\ act[h].pc \in {"precheck", "committing", "build", "swap", "finish"} =>
          act[h].row.preview.acceptable
    /\ act[h].pc \in {"swap", "finish"} => act[h].built \in revs
    /\ act[h].pc = "target" /\ act[h].to = NoRevision => Len(act[h].history) > 1
    /\ act[h].pc = "move" => act[h].target \in revs
    /\ act[h].pc \in {"parent", "seal"} => act[h].claim \in Claims
    /\ act[h].pc \in {"seal", "activate"} => act[h].built \in revs
    /\ act[h].pc \in {"base", "stage", "save"} => act[h].proposal \in Proposals
    /\ act[h].pc = "stage" => act[h].row.base \in revs

TypeInv == TypeOK /\ Draft \in revs /\ \A h \in Handlers : TaskReady(h)

\* Sealing a revision only widens what tables and tasks may hold.
LEMMA TypesGrow ==
    ASSUME revs \subseteq revs'
    PROVE  /\ Previews \subseteq Previews'
           /\ Rows \subseteq Rows'
           /\ Outcomes \subseteq Outcomes'
           /\ Revisions \subseteq Revisions'
           /\ Seq(revs) \subseteq Seq(revs')
           /\ Tasks \subseteq Tasks'
<1>1. Previews \subseteq Previews'
  BY DEF Previews, NoPreview, Preview
<1>2. Rows \subseteq Rows'
  BY <1>1 DEF Rows
<1>3. Outcomes \subseteq Outcomes'
  BY DEF Outcomes
<1>4. Revisions \subseteq Revisions'
  BY DEF Revisions
<1>5. Seq(revs) \subseteq Seq(revs')
  BY SeqMonotonic
<1>6. DecideTasks \subseteq DecideTasks'
  BY <1>1, <1>2 DEF DecideTasks
<1>7. UndoTasks \subseteq UndoTasks'
  BY <1>5 DEF UndoTasks
<1>8. MakeTasks \subseteq MakeTasks'
  BY DEF MakeTasks
<1>9. ReviewTasks \subseteq ReviewTasks'
  BY <1>2 DEF ReviewTasks
<1>10. Tasks \subseteq Tasks'
  BY <1>6, <1>7, <1>8, <1>9 DEF Tasks, IdleTasks
<1> QED
  BY <1>1, <1>2, <1>3, <1>4, <1>5, <1>10

\* A step of thread h leaves the other threads typed and ready.
LEMMA OneThread ==
    ASSUME TypeInv, NEW h \in Handlers, revs \subseteq revs',
           act' = [act EXCEPT ![h] = act'[h]], act'[h] \in Tasks', TaskReady(h)'
    PROVE  act' \in [Handlers -> Tasks'] /\ \A g \in Handlers : TaskReady(g)'
<1>1. act \in [Handlers -> Tasks'] /\ \A g \in Handlers : g # h => act'[g] = act[g]
  BY TypesGrow DEF TypeInv, TypeOK
<1>2. act' \in [Handlers -> Tasks']
  BY <1>1
<1>3. ASSUME NEW g \in Handlers, g # h PROVE TaskReady(g)'
  BY <1>1, <1>3 DEF TypeInv, TaskReady
<1> QED
  BY <1>2, <1>3

LEMMA TypeSubmit ==
    ASSUME TypeInv, NEW h \in Handlers, NEW task, Submit(h, task), task \in Tasks,
           task.pc \in {"replay", "history", "activate", "parent", "generate", "next"},
           task.pc = "activate" => task.built \in revs,
           task.pc = "parent" => task.claim \in Claims
    PROVE  TypeInv'
<1>1. act'[h] = task /\ act' = [act EXCEPT ![h] = task]
  BY DEF Submit, TypeInv, TypeOK
<1>2. TaskReady(h)'
  BY <1>1 DEF TaskReady, Submit
<1>3. revs \subseteq revs' /\ Tasks \subseteq Tasks'
  BY TypesGrow DEF Submit
<1>4. act' \in [Handlers -> Tasks'] /\ \A g \in Handlers : TaskReady(g)'
  BY <1>1, <1>2, <1>3, OneThread
<1>5. requests' \in 0..MaxRequests
  BY BoundsAssumption DEF Submit, TypeInv, TypeOK
<1> QED
  BY <1>4, <1>5 DEF Submit, TypeInv, TypeOK, Revisions, Rows, Previews, Outcomes

LEMMA TypeArrive ==
    ASSUME TypeInv, NEW h \in Handlers, Arrive(h)
    PROVE  TypeInv'
<1> USE DEF TypeInv, TypeOK
<1>0. NoPreview \in Previews /\ NoRow \in Rows
  BY DEF NoPreview, Previews, NoRow, Row, Rows, ProposalStates
<1>1. CASE SubmitAccept(h)
  <2>1. PICK p \in Proposals, k \in Keys : \E expected \in {active, table[p].base} :
           Submit(h, Decision("accept", p, k, expected, table[p].preview))
    BY <1>1 DEF SubmitAccept
  <2>2. PICK expected \in {active, table[p].base} :
           Submit(h, Decision("accept", p, k, expected, table[p].preview))
    BY <2>1
  <2>3. table[p].preview \in Previews /\ expected \in revs \cup {NoRevision}
    BY DEF Rows
  <2>4. Decision("accept", p, k, expected, table[p].preview) \in Tasks
    BY <1>0, <2>3 DEF Decision, Tasks, DecideTasks
  <2> QED
    BY <2>2, <2>4, TypeSubmit DEF Decision
<1>2. CASE SubmitDecline(h)
  <2>1. PICK p \in Proposals, k \in Keys :
           Submit(h, Decision("decline", p, k, NoRevision, NoPreview))
    BY <1>2 DEF SubmitDecline
  <2>2. Decision("decline", p, k, NoRevision, NoPreview) \in Tasks
    BY <1>0 DEF Decision, Tasks, DecideTasks
  <2> QED
    BY <2>1, <2>2, TypeSubmit DEF Decision
<1>3. CASE SubmitUndo(h)
  <2>1. PICK to \in revs \cup {NoRevision} :
           Submit(h, Undo("history", to, << >>, NoRevision, NoRevision))
    BY <1>3 DEF SubmitUndo
  <2>2. Undo("history", to, << >>, NoRevision, NoRevision) \in Tasks
    BY EmptySeq DEF Undo, Tasks, UndoTasks
  <2> QED
    BY <2>1, <2>2, TypeSubmit DEF Undo
<1>4. CASE SubmitImport(h)
  BY <1>4, TypeSubmit DEF SubmitImport, Making, Tasks, MakeTasks
<1>5. CASE SubmitConfirm(h)
  <2>1. PICK c \in Claims : Submit(h, Making("parent", c, NoRevision))
    BY <1>5 DEF SubmitConfirm
  <2> QED
    BY <2>1, TypeSubmit DEF Making, Tasks, MakeTasks
<1>6. CASE SubmitRecommend(h)
  <2>1. PICK base \in revs, batch \in SUBSET Proposals :
           Submit(h, Review("generate", base, batch, batch))
    BY <1>6 DEF SubmitRecommend
  <2> QED
    BY <1>0, <2>1, TypeSubmit DEF Review, Tasks, ReviewTasks
<1>7. CASE SubmitPreview(h)
  <2>1. PICK p \in Proposals : Submit(h, Review("next", NoRevision, {p}, {}))
    BY <1>7 DEF SubmitPreview
  <2> QED
    BY <1>0, <2>1, TypeSubmit DEF Review, Tasks, ReviewTasks
<1> QED
  BY <1>1, <1>2, <1>3, <1>4, <1>5, <1>6, <1>7 DEF Arrive

TablesTyped ==
    /\ revs \subseteq Revisions /\ Draft \in revs
    /\ active \in revs
    /\ timeline \in Seq(revs)
    /\ table \in [Proposals -> Rows]
    /\ decisions \in [Keys -> Outcomes]

\* A step of h is typed when the tables it writes and h's next task are.
LEMMA TypeStep ==
    ASSUME TypeInv, NEW h \in Handlers, NEW task,
           act' = [act EXCEPT ![h] = task], task \in Tasks', TaskReady(h)',
           revs \subseteq revs', TablesTyped', UNCHANGED Bounds
    PROVE  TypeInv'
<1>1. act'[h] = task
  BY DEF TypeInv, TypeOK
<1>2. act' \in [Handlers -> Tasks'] /\ \A g \in Handlers : TaskReady(g)'
  BY <1>1, OneThread
<1> QED
  BY <1>2 DEF TypeInv, TypeOK, TablesTyped, Bounds

\* Unless a step writes them, or widens what they may hold.
LEMMA TablesKept ==
    ASSUME TypeInv, revs \subseteq revs', revs' \subseteq Revisions',
           UNCHANGED <<active, timeline, table, decisions>>
    PROVE  TablesTyped'
  BY TypesGrow DEF TypeInv, TypeOK, TablesTyped

\* An idle thread's step needs nothing.
LEMMA TypeIdle ==
    ASSUME TypeInv, NEW h \in Handlers, Succeed(h) \/ Refuse(h),
           revs \subseteq revs', TablesTyped', UNCHANGED Bounds
    PROVE  TypeInv'
<1>1. PICK ok \in BOOLEAN : act' = [act EXCEPT ![h] = Idle(ok)]
  BY DEF Succeed, Refuse
<1>2. Idle(ok) \in Tasks'
  BY DEF Idle, Tasks, IdleTasks
<1>3. act'[h] = Idle(ok)
  BY <1>1 DEF TypeInv, TypeOK
<1>4. TaskReady(h)'
  BY <1>3 DEF TaskReady, Idle
<1> QED
  BY <1>1, <1>2, <1>4, TypeStep

\* A step that changes no table.
LEMMA TypeRead ==
    ASSUME TypeInv, NEW h \in Handlers, UNCHANGED <<Database, Bounds>>,
           \/ Succeed(h) \/ Refuse(h)
           \/ \E task \in Tasks : act' = [act EXCEPT ![h] = task] /\ TaskReady(h)'
    PROVE  TypeInv'
<1>1. TablesTyped' /\ revs \subseteq revs' /\ UNCHANGED Bounds
  <2>1. revs' \subseteq Revisions'
    BY DEF Database, TypeInv, TypeOK, Revisions
  <2> QED
    BY <2>1, TablesKept DEF Database
<1>2. CASE Succeed(h) \/ Refuse(h)
  BY <1>1, <1>2, TypeIdle
<1>3. CASE \E task \in Tasks : act' = [act EXCEPT ![h] = task] /\ TaskReady(h)'
  BY <1>1, <1>3, TypeStep, TypesGrow
<1> QED
  BY <1>2, <1>3

\* The step a thread stands at says which kind of task it has.
LEMMA TaskKind ==
    ASSUME TypeInv, NEW h \in Handlers
    PROVE  /\ act[h].pc \in {"replay", "fetch", "decline", "record", "precheck",
                             "committing", "build", "swap", "finish", "stale", "fail"}
                => act[h] \in DecideTasks
           /\ act[h].pc \in {"history", "target", "move"} => act[h] \in UndoTasks
           /\ act[h].pc \in {"parent", "seal", "activate"} => act[h] \in MakeTasks
           /\ act[h].pc \in {"generate", "next", "base", "stage", "save"}
                => act[h] \in ReviewTasks
  BY DEF TypeInv, TypeOK, Tasks, IdleTasks, DecideTasks, UndoTasks, MakeTasks, ReviewTasks

\* Steps of a decision that read.
LEMMA TypeDecideRead ==
    ASSUME TypeInv, NEW h \in Handlers,
           \/ Replay(h) \/ FetchDecline(h) \/ FetchAccept(h) \/ PreCheck(h)
           \/ BuildFails(h) \/ SwapLost(h)
    PROVE  TypeInv'
<1> DEFINE Becomes(task) == act' = [act EXCEPT ![h] = task]
<1>1. act \in [Handlers -> Tasks]
  BY DEF TypeInv, TypeOK
<1>2. act[h] \in DecideTasks
  BY TaskKind DEF Replay, FetchDecline, FetchAccept, PreCheck, BuildFails, SwapLost, At
<1>3. UNCHANGED <<Database, Bounds>>
  BY DEF Replay, FetchDecline, FetchAccept, PreCheck, BuildFails, SwapLost
<1>4. ASSUME Goto(h, "fetch") \/ Goto(h, "stale") \/ Goto(h, "fail")
      PROVE  TypeInv'
  <2>1. PICK pc \in {"fetch", "stale", "fail"} : Becomes([act[h] EXCEPT !.pc = pc])
    BY <1>4 DEF Goto
  <2>2. [act[h] EXCEPT !.pc = pc] \in DecideTasks
    BY <1>2 DEF DecideTasks
  <2>3. TaskReady(h)'
    BY <1>1, <1>2, <2>1 DEF TaskReady, DecideTasks
  <2> QED
    BY <1>3, <2>1, <2>2, <2>3, TypeRead DEF Tasks
<1>5. CASE Replay(h) \/ BuildFails(h) \/ SwapLost(h)
  BY <1>3, <1>4, <1>5, TypeRead DEF Replay, BuildFails, SwapLost
<1>6. CASE PreCheck(h)
  <2>1. CASE Goto(h, "committing")
    <3>1. [act[h] EXCEPT !.pc = "committing"] \in DecideTasks
      BY <1>2 DEF DecideTasks
    <3>2. TaskReady(h)'
      BY <1>1, <1>2, <1>6, <2>1 DEF PreCheck, At, Goto, TaskReady, TypeInv, DecideTasks
    <3> QED
      BY <1>3, <2>1, <3>1, <3>2, TypeRead DEF Goto, Tasks
  <2> QED
    BY <1>3, <1>4, <1>6, <2>1, TypeRead DEF PreCheck
<1>7. CASE FetchDecline(h) \/ FetchAccept(h)
  <2> DEFINE row == table[act[h].proposal]
  <2>1. row \in Rows
    BY <1>2 DEF TypeInv, TypeOK, DecideTasks
  <2>2. CASE Succeed(h) \/ Refuse(h)
    BY <1>3, <2>2, TypeRead
  <2>3. CASE ~ (Succeed(h) \/ Refuse(h))
    <3>1. PICK pc \in {"decline", "precheck"} :
             /\ act' = [act EXCEPT ![h].pc = pc, ![h].row = row]
             /\ pc = "precheck" => row.preview.acceptable
      BY <1>7, <2>3 DEF FetchDecline, FetchAccept
    <3>2. Becomes([act[h] EXCEPT !.pc = pc, !.row = row])
      BY <1>1, <3>1
    <3>3. [act[h] EXCEPT !.pc = pc, !.row = row] \in DecideTasks
      BY <1>2, <2>1 DEF DecideTasks
    <3>4. TaskReady(h)'
      BY <1>1, <1>2, <3>1, <3>2 DEF TaskReady, DecideTasks
    <3> QED
      BY <1>3, <3>2, <3>3, <3>4, TypeRead DEF Tasks
  <2> QED
    BY <2>2, <2>3
<1> QED
  BY <1>5, <1>6, <1>7

\* Steps of a decision that write.
LEMMA TypeDecideWrite ==
    ASSUME TypeInv, NEW h \in Handlers,
           \/ Decline(h) \/ RecordDecline(h) \/ MarkCommitting(h) \/ BuildCommit(h)
           \/ Swap(h) \/ Finish(h) \/ MarkStale(h) \/ MarkFailed(h)
    PROVE  TypeInv'
<1> DEFINE Becomes(task) == act' = [act EXCEPT ![h] = task]
           Moved(pc)     == [act[h] EXCEPT !.pc = pc]
<1>1. act \in [Handlers -> Tasks] /\ table \in [Proposals -> Rows] /\ active \in revs
      /\ decisions \in [Keys -> Outcomes] /\ timeline \in Seq(revs) /\ Draft \in revs
      /\ revs \subseteq Revisions
  BY DEF TypeInv, TypeOK
<1>2. act[h] \in DecideTasks
  BY TaskKind DEF Decline, RecordDecline, MarkCommitting, BuildCommit, Swap, Finish,
                  MarkStale, MarkFailed, Settle, At
<1>3. /\ act[h].row \in Rows /\ act[h].proposal \in Proposals /\ act[h].key \in Keys
      /\ \A pc \in {"record", "build", "finish"} : Moved(pc) \in DecideTasks
  BY <1>2 DEF DecideTasks
<1>4. /\ Declined(act[h].proposal) \in Outcomes
      /\ \A r \in revs : Accepted(act[h].proposal, r) \in Outcomes
  BY <1>3 DEF Declined, Accepted, Outcomes
<1>5. ASSUME NEW state \in ProposalStates, Put(act[h].proposal, InState(act[h].row, state)),
             UNCHANGED <<revs, active, timeline, decisions>>
      PROVE  TablesTyped'
  <2>1. InState(act[h].row, state) \in Rows
    BY <1>3 DEF InState, Rows
  <2>2. table' \in [Proposals -> Rows]
    BY <1>1, <1>3, <1>5, <2>1 DEF Put
  <2> QED
    BY <1>1, <1>5, <2>2 DEF TablesTyped, Rows, Previews, Revisions, Outcomes
<1>6. CASE Decline(h) \/ MarkCommitting(h)
  <2>1. TablesTyped' /\ UNCHANGED <<revs, Bounds>>
    BY <1>5, <1>6 DEF Decline, MarkCommitting, ProposalStates
  <2>2. PICK pc \in {"record", "build"} :
           Becomes(Moved(pc)) /\ (pc = "build" => At(h, "committing"))
    BY <1>6 DEF Decline, MarkCommitting, Goto
  <2>3. TaskReady(h)'
    BY <1>1, <1>2, <2>2 DEF TaskReady, At, TypeInv, DecideTasks
  <2> QED
    BY <1>3, <2>1, <2>2, <2>3, TypeStep, TypesGrow DEF Tasks
<1>7. CASE RecordDecline(h)
  <2>1. decisions' \in [Keys -> Outcomes]
    BY <1>1, <1>3, <1>4, <1>7 DEF RecordDecline, Record
  <2>2. TablesTyped'
    BY <1>1, <1>7, <2>1
       DEF RecordDecline, TablesTyped, Rows, Previews, Revisions, Outcomes
  <2> QED
    BY <1>7, <2>2, TypeIdle DEF RecordDecline
<1>8. CASE BuildCommit(h)
  <2> DEFINE r == CommitOf(act[h].row.base, act[h].row.preview.rev.content)
  <2>1. act[h].row.preview.acceptable /\ act[h].row.preview \in Previews
    BY <1>3, <1>8 DEF BuildCommit, At, TypeInv, TaskReady, Rows
  <2>2. act[h].row.preview.rev \in revs
    BY <2>1 DEF Previews, NoPreview, Preview
  <2>3. r \in [parent: revs \cup {NoRevision}, stage: Stages, content: SUBSET Changes]
    BY <1>1, <1>3, <2>2 DEF CommitOf, Revision, Revisions, Rows, Stages
  <2>4. revs' = revs \cup {r} /\ revs' \subseteq Revisions'
    BY <1>1, <1>8, <2>3 DEF BuildCommit, Revisions
  <2>5. TablesTyped'
    BY <1>8, <2>4, TablesKept DEF BuildCommit
  <2>6. Becomes([act[h] EXCEPT !.pc = "swap", !.built = r])
    BY <1>1, <1>8 DEF BuildCommit
  <2>7. act[h] \in DecideTasks'
    BY <1>2, <2>4, TypesGrow DEF DecideTasks
  <2>8. [act[h] EXCEPT !.pc = "swap", !.built = r] \in DecideTasks'
    BY <2>4, <2>7 DEF DecideTasks
  <2>9. TaskReady(h)'
    BY <1>1, <1>2, <2>1, <2>4, <2>6 DEF TaskReady, DecideTasks
  <2> QED
    BY <1>8, <2>4, <2>5, <2>6, <2>8, <2>9, TypeStep DEF BuildCommit, Tasks
<1>9. CASE Swap(h)
  <2>1. act[h].built \in revs /\ act[h].row.preview.acceptable
    BY <1>9 DEF Swap, At, TypeInv, TaskReady
  <2>2. decisions' \in [Keys -> Outcomes]
    BY <1>1, <1>3, <1>4, <1>9, <2>1 DEF Swap, Record
  <2>3. timeline' \in Seq(revs)
    BY <1>1, <1>9, <2>1, AppendProperties DEF Swap, Stamp
  <2>4. TablesTyped'
    BY <1>1, <1>9, <2>1, <2>2, <2>3
       DEF Swap, TablesTyped, Rows, Previews, Revisions, Outcomes
  <2>5. Becomes(Moved("finish"))
    BY <1>9 DEF Swap, Goto
  <2>6. TaskReady(h)'
    BY <1>1, <1>2, <1>9, <2>1, <2>5 DEF Swap, TaskReady, DecideTasks
  <2> QED
    BY <1>3, <1>9, <2>4, <2>5, <2>6, TypeStep, TypesGrow DEF Swap, Tasks
<1>10. CASE Finish(h) \/ MarkStale(h) \/ MarkFailed(h)
  <2>1. TablesTyped' /\ UNCHANGED <<revs, Bounds>>
    BY <1>5, <1>10 DEF Finish, MarkStale, MarkFailed, Settle, ProposalStates
  <2> QED
    BY <1>10, <2>1, TypeIdle DEF Finish, MarkStale, MarkFailed, Settle
<1> QED
  BY <1>6, <1>7, <1>8, <1>9, <1>10

\* Undo, import and confirm.
LEMMA TypeMove ==
    ASSUME TypeInv, NEW h \in Handlers,
           \/ ReadHistory(h) \/ PickTarget(h) \/ VerifyFails(h) \/ MovePointer(h)
           \/ ReadParent(h) \/ SealConfirmed(h) \/ Activate(h)
    PROVE  TypeInv'
<1> DEFINE Becomes(task) == act' = [act EXCEPT ![h] = task]
<1>1. act \in [Handlers -> Tasks] /\ table \in [Proposals -> Rows] /\ active \in revs
      /\ decisions \in [Keys -> Outcomes] /\ timeline \in Seq(revs) /\ Draft \in revs
      /\ revs \subseteq Revisions
  BY DEF TypeInv, TypeOK
<1>2. CASE ReadHistory(h)
  <2>1. act[h] \in UndoTasks
    BY <1>2, TaskKind DEF ReadHistory, At
  <2>2. CASE Refuse(h)
    BY <1>2, <2>2, TypeRead DEF ReadHistory
  <2>3. CASE ~ Refuse(h)
    <3>0. /\ act' = [act EXCEPT ![h].pc = "target", ![h].history = timeline]
          /\ act[h].to = NoRevision => Len(timeline) > 1
      BY <1>1, <1>2, <2>3, LenProperties DEF ReadHistory
    <3>1. Becomes([act[h] EXCEPT !.pc = "target", !.history = timeline])
      BY <1>1, <3>0
    <3>2. [act[h] EXCEPT !.pc = "target", !.history = timeline] \in UndoTasks
      BY <1>1, <2>1 DEF UndoTasks
    <3>3. TaskReady(h)'
      BY <1>1, <2>1, <3>0, <3>1 DEF TaskReady, UndoTasks
    <3> QED
      BY <1>2, <3>1, <3>2, <3>3, TypeRead DEF ReadHistory, Tasks
  <2> QED
    BY <1>2, <2>2, <2>3 DEF ReadHistory
<1>3. CASE PickTarget(h)
  <2>1. act[h] \in UndoTasks
    BY <1>3, TaskKind DEF PickTarget, At
  <2>2. UNCHANGED <<Database, Bounds>>
    BY <1>3 DEF PickTarget
  <2>3. ASSUME NEW r \in revs, Becomes(Undo("move", act[h].to, << >>, active, r))
        PROVE  TypeInv'
    <3>1. Undo("move", act[h].to, << >>, active, r) \in UndoTasks
      BY <1>1, <2>1, EmptySeq DEF Undo, UndoTasks
    <3>2. revs' = revs
      BY <2>2 DEF Database
    <3>3. TaskReady(h)'
      BY <1>1, <2>3, <3>2 DEF TaskReady, Undo
    <3> QED
      BY <2>2, <2>3, <3>1, <3>2, <3>3, TypeRead DEF Tasks
  <2> DEFINE history == act[h].history
             place   == PlaceOf(active, history)
  <2>4. CASE Refuse(h)
    BY <2>2, <2>4, TypeRead
  <2>5. CASE act[h].to = NoRevision /\ ~ Refuse(h)
    <3>1. history \in Seq(revs) /\ Len(history) > 1
      BY <1>3, <2>1, <2>5 DEF PickTarget, At, UndoTasks, TypeInv, TaskReady
    <3>2. place \in 1..Len(history)
      BY <3>1 DEF PlaceOf
    <3>3. place # 1 /\ Becomes(Undo("move", act[h].to, << >>, active, history[place - 1]))
      BY <1>3, <2>5 DEF PickTarget
    <3>4. history[place - 1] \in revs
      BY <3>1, <3>2, <3>3, ElementOfSeq
    <3> QED
      BY <2>3, <3>3, <3>4
  <2>6. CASE act[h].to # NoRevision /\ ~ Refuse(h)
    <3>1. act[h].to \in revs
      BY <2>1, <2>6 DEF UndoTasks
    <3>2. Becomes(Undo("move", act[h].to, << >>, active, act[h].to))
      BY <1>3, <2>6 DEF PickTarget
    <3> QED
      BY <2>3, <3>1, <3>2
  <2> QED
    BY <2>4, <2>5, <2>6
<1>4. CASE VerifyFails(h)
  BY <1>4, TypeRead DEF VerifyFails
<1>5. ASSUME NEW r \in revs, Stamp(r), active' \in revs, UNCHANGED <<revs, table, decisions>>
      PROVE  TablesTyped'
  <2>1. timeline' \in Seq(revs)
    BY <1>1, <1>5, AppendProperties DEF Stamp
  <2> QED
    BY <1>1, <1>5, <2>1 DEF TablesTyped, Rows, Previews, Revisions, Outcomes
<1>6. CASE MovePointer(h)
  <2>1. act[h].target \in revs
    BY <1>6 DEF MovePointer, At, TypeInv, TaskReady
  <2>2. TablesTyped'
    BY <1>1, <1>5, <1>6, <2>1 DEF MovePointer
  <2> QED
    BY <1>6, <2>2, TypeIdle DEF MovePointer
<1>7. CASE ReadParent(h)
  <2>1. act[h] \in MakeTasks /\ act[h].claim \in Claims
    BY <1>7, TaskKind DEF ReadParent, At, TypeInv, TaskReady
  <2>2. Becomes([act[h] EXCEPT !.pc = "seal", !.built = active])
    BY <1>1, <1>7 DEF ReadParent
  <2>3. [act[h] EXCEPT !.pc = "seal", !.built = active] \in MakeTasks
    BY <1>1, <2>1 DEF MakeTasks
  <2>4. TaskReady(h)'
    BY <1>1, <1>7, <2>1, <2>2 DEF ReadParent, Database, TaskReady, MakeTasks
  <2> QED
    BY <1>7, <2>2, <2>3, <2>4, TypeRead DEF ReadParent, Tasks
<1>8. CASE SealConfirmed(h)
  <2> DEFINE r == CommitOf(act[h].built, act[h].built.content \cup {act[h].claim})
  <2>1. act[h] \in MakeTasks /\ act[h].claim \in Claims /\ act[h].built \in revs
    BY <1>8, TaskKind DEF SealConfirmed, At, TypeInv, TaskReady
  <2>2. r \in [parent: revs \cup {NoRevision}, stage: Stages, content: SUBSET Changes]
    BY <1>1, <2>1 DEF CommitOf, Revision, Revisions, Stages, Changes
  <2>3. revs' = revs \cup {r} /\ revs' \subseteq Revisions'
    BY <1>1, <1>8, <2>2 DEF SealConfirmed, Revisions
  <2>4. TablesTyped'
    BY <1>8, <2>3, TablesKept DEF SealConfirmed
  <2>5. Becomes([act[h] EXCEPT !.pc = "activate", !.built = r])
    BY <1>1, <1>8 DEF SealConfirmed
  <2>6. [act[h] EXCEPT !.pc = "activate", !.built = r] \in MakeTasks'
    BY <2>1, <2>3 DEF MakeTasks
  <2>7. TaskReady(h)'
    BY <1>1, <2>1, <2>3, <2>5 DEF TaskReady, MakeTasks
  <2> QED
    BY <1>8, <2>3, <2>4, <2>5, <2>6, <2>7, TypeStep DEF SealConfirmed, Tasks
<1>9. CASE Activate(h)
  <2>1. act[h].built \in revs
    BY <1>9 DEF Activate, At, TypeInv, TaskReady
  <2>2. TablesTyped'
    BY <1>1, <1>5, <1>9, <2>1 DEF Activate
  <2> QED
    BY <1>9, <2>2, TypeIdle DEF Activate
<1> QED
  BY <1>2, <1>3, <1>4, <1>6, <1>7, <1>8, <1>9

\* One candidate is stored, and the thread is still at it or goes on to the previews.
LEMMA GenerateFiles ==
    ASSUME act \in [Handlers -> Tasks], NEW h \in Handlers, Generate(h), act[h] \in ReviewTasks
    PROVE  \E p \in Proposals, task \in ReviewTasks :
             /\ Put(p, Row("proposed", act[h].base, NoPreview))
             /\ act' = [act EXCEPT ![h] = task]
             /\ task.pc \in {"generate", "next"}
<1>1. PICK p \in act[h].unfiled : Put(p, Row("proposed", act[h].base, NoPreview)) /\ Filed(h, p)
  BY DEF Generate
<1> DEFINE rest == act[h].unfiled \ {p}
           task == [act[h] EXCEPT !.pc = IF rest = {} THEN "next" ELSE "generate", !.unfiled = rest]
<1>2. p \in Proposals /\ rest \in SUBSET Proposals
  BY DEF ReviewTasks
<1>3. task \in ReviewTasks /\ task.pc \in {"generate", "next"}
  BY <1>2 DEF ReviewTasks
<1>4. act' = [act EXCEPT ![h] = task]
  BY <1>1 DEF Filed
<1> QED
  BY <1>1, <1>2, <1>3, <1>4

\* Recommend and preview.
LEMMA TypeReview ==
    ASSUME TypeInv, NEW h \in Handlers,
           \/ Generate(h) \/ FetchPreview(h) \/ CheckBase(h) \/ StageFails(h)
           \/ Stage(h) \/ Save(h)
    PROVE  TypeInv'
<1> DEFINE Becomes(task) == act' = [act EXCEPT ![h] = task]
<1>1. act \in [Handlers -> Tasks] /\ table \in [Proposals -> Rows] /\ active \in revs
      /\ decisions \in [Keys -> Outcomes] /\ timeline \in Seq(revs) /\ Draft \in revs
      /\ revs \subseteq Revisions
  BY DEF TypeInv, TypeOK
<1>2. act[h] \in ReviewTasks
  BY TaskKind DEF Generate, FetchPreview, CheckBase, StageFails, Stage, Save, At
<1>3. /\ act[h].row \in Rows /\ act[h].base \in revs \cup {NoRevision}
      /\ act[h].batch \in SUBSET Proposals
      /\ act[h].pc \in {"base", "stage", "save"} => act[h].proposal \in Proposals
  BY <1>2 DEF ReviewTasks, TypeInv, TaskReady
<1>4. NoPreview \in Previews /\ NoRow \in Rows
  BY DEF NoPreview, Previews, NoRow, Row, Rows, ProposalStates
<1>5. ASSUME table' \in [Proposals -> Rows], UNCHANGED <<revs, active, timeline, decisions>>
      PROVE  TablesTyped'
  BY <1>1, <1>5 DEF TablesTyped, Rows, Previews, Revisions, Outcomes
<1>6. CASE Generate(h)
  <2>1. PICK p \in Proposals, task \in ReviewTasks :
          /\ Put(p, Row("proposed", act[h].base, NoPreview))
          /\ Becomes(task) /\ task.pc \in {"generate", "next"}
    BY <1>1, <1>2, <1>6, GenerateFiles
  <2>2. Row("proposed", act[h].base, NoPreview) \in Rows
    BY <1>3, <1>4 DEF Row, Rows, ProposalStates
  <2>3. table' \in [Proposals -> Rows]
    BY <1>1, <2>1, <2>2 DEF Put
  <2>4. TaskReady(h)'
    BY <1>1, <2>1 DEF TaskReady
  <2>5. revs' = revs /\ UNCHANGED Bounds /\ TablesTyped'
    BY <1>5, <1>6, <2>3 DEF Generate
  <2> QED
    BY <2>1, <2>4, <2>5, TypeStep, TypesGrow DEF Tasks
<1>7. CASE FetchPreview(h)
  <2>1. PICK p \in act[h].batch :
           act' = [act EXCEPT ![h].pc = "base", ![h].proposal = p, ![h].row = table[p]]
    BY <1>7 DEF FetchPreview
  <2> DEFINE task == [act[h] EXCEPT !.pc = "base", !.proposal = p, !.row = table[p]]
  <2>2. p \in Proposals /\ table[p] \in Rows
    BY <1>1, <1>3, <2>1
  <2>3. Becomes(task)
    BY <1>1, <2>1
  <2>4. task \in ReviewTasks
    BY <1>2, <2>2 DEF ReviewTasks
  <2>5. TaskReady(h)'
    BY <1>1, <1>2, <2>2, <2>3 DEF TaskReady, ReviewTasks
  <2> QED
    BY <1>7, <2>3, <2>4, <2>5, TypeRead DEF FetchPreview, Tasks
<1>8. CASE CheckBase(h)
  <2>1. act[h].proposal \in Proposals /\ UNCHANGED <<Database, Bounds>>
    BY <1>3, <1>8 DEF CheckBase, At
  <2>2. CASE active # act[h].row.base
    <3> DEFINE task == [act[h] EXCEPT !.pc = "save", !.row = InState(act[h].row, "stale")]
    <3>1. Becomes(task)
      BY <1>1, <1>8, <2>2 DEF CheckBase
    <3>2. InState(act[h].row, "stale") \in Rows
      BY <1>3 DEF InState, Rows, ProposalStates
    <3>3. task \in ReviewTasks
      BY <1>2, <3>2 DEF ReviewTasks
    <3>4. TaskReady(h)'
      BY <1>1, <1>2, <2>1, <3>1 DEF TaskReady, ReviewTasks
    <3> QED
      BY <2>1, <3>1, <3>3, <3>4, TypeRead DEF Tasks
  <2>3. CASE active = act[h].row.base /\ Goto(h, "stage")
    <3>1. [act[h] EXCEPT !.pc = "stage"] \in ReviewTasks
      BY <1>2 DEF ReviewTasks
    <3>2. TaskReady(h)'
      BY <1>1, <1>2, <2>1, <2>3 DEF Goto, Database, TaskReady, ReviewTasks
    <3> QED
      BY <2>1, <2>3, <3>1, <3>2, TypeRead DEF Goto, Tasks
  <2>4. CASE Refuse(h)
    BY <2>1, <2>4, TypeRead
  <2> QED
    BY <1>8, <2>2, <2>3, <2>4 DEF CheckBase
<1>9. CASE StageFails(h)
  <2> DEFINE base == act[h].row.base
             row  == Row("blocked", base, Preview(base, FALSE))
             task == [act[h] EXCEPT !.pc = "save", !.row = row]
  <2>1. act[h].proposal \in Proposals /\ base \in revs
    BY <1>3, <1>9 DEF StageFails, At, TypeInv, TaskReady
  <2>2. Becomes(task)
    BY <1>1, <1>9 DEF StageFails
  <2>3. row \in Rows
    BY <2>1 DEF Row, Rows, Preview, Previews, ProposalStates
  <2>4. task \in ReviewTasks
    BY <1>2, <2>3 DEF ReviewTasks
  <2>5. TaskReady(h)'
    BY <1>1, <1>2, <2>1, <2>2 DEF TaskReady, ReviewTasks
  <2> QED
    BY <1>9, <2>2, <2>4, <2>5, TypeRead DEF StageFails, Tasks
<1>10. CASE Stage(h)
  <2> DEFINE base == act[h].row.base
             p    == act[h].proposal
             r    == PreviewOf(base, p)
  <2>1. p \in Proposals /\ base \in revs
    BY <1>3, <1>10 DEF Stage, At, TypeInv, TaskReady
  <2>2. r \in [parent: revs \cup {NoRevision}, stage: Stages, content: SUBSET Changes]
    BY <1>1, <2>1 DEF PreviewOf, Revision, Revisions, Stages, Changes
  <2>3. revs' = revs \cup {r} /\ revs' \subseteq Revisions' /\ TablesTyped'
    <3>1. revs' = revs \cup {r} /\ UNCHANGED <<active, timeline, table, decisions>>
      BY <1>10 DEF Stage
    <3>2. revs' \subseteq Revisions'
      BY <1>1, <2>2, <3>1 DEF Revisions
    <3> QED
      BY <3>1, <3>2, TablesKept
  <2>4. PICK ok \in BOOLEAN :
           act' = [act EXCEPT ![h].pc = "save",
                     ![h].row = Row(IF ok THEN "review_ready" ELSE "blocked",
                                    @.base, Preview(r, ok))]
    BY <1>10 DEF Stage
  <2> DEFINE row  == Row(IF ok THEN "review_ready" ELSE "blocked", base, Preview(r, ok))
             task == [act[h] EXCEPT !.pc = "save", !.row = row]
  <2>5. Becomes(task)
    BY <1>1, <2>4
  <2>6. row \in Rows'
    BY <2>1, <2>3 DEF Row, Rows, Preview, Previews, ProposalStates
  <2>7. act[h] \in ReviewTasks'
    BY <1>2, <2>3, TypesGrow DEF ReviewTasks
  <2>8. task \in ReviewTasks'
    BY <2>6, <2>7 DEF ReviewTasks
  <2>9. TaskReady(h)'
    BY <1>1, <1>2, <2>1, <2>5 DEF TaskReady, ReviewTasks
  <2> QED
    BY <1>10, <2>3, <2>5, <2>8, <2>9, TypeStep DEF Stage, Tasks
<1>11. CASE Save(h)
  <2>1. table' \in [Proposals -> Rows]
    BY <1>1, <1>3, <1>11 DEF Save, At, Put
  <2>2. revs' = revs /\ UNCHANGED Bounds /\ TablesTyped'
    BY <1>5, <1>11, <2>1 DEF Save
  <2>3. CASE Succeed(h)
    BY <2>2, <2>3, TypeIdle
  <2>4. CASE ~ Succeed(h)
    <3> DEFINE task == Review("next", act[h].base, act[h].batch \ {act[h].proposal}, {})
    <3>1. Becomes(task)
      BY <1>1, <1>11, <2>4 DEF Save
    <3>2. task \in ReviewTasks
      BY <1>3, <1>4 DEF Review, ReviewTasks
    <3>3. TaskReady(h)'
      BY <1>1, <3>1 DEF TaskReady, Review
    <3> QED
      BY <2>2, <3>1, <3>2, <3>3, TypeStep, TypesGrow DEF Tasks
  <2> QED
    BY <2>3, <2>4
<1> QED
  BY <1>6, <1>7, <1>8, <1>9, <1>10, <1>11

LEMMA TypeFault ==
    ASSUME TypeInv, Restart \/ \E h \in Handlers : Abort(h)
    PROVE  TypeInv'
<1>1. UNCHANGED <<Database, requests>> /\ faults' \in 0..MaxFaults
  <2>1. faults < MaxFaults /\ faults' = faults + 1 /\ UNCHANGED <<Database, requests>>
    BY DEF Restart, Abort
  <2>2. faults \in 0..MaxFaults
    BY DEF TypeInv, TypeOK
  <2> QED
    BY <2>1, <2>2, BoundsAssumption
<1>2. \A g \in Handlers : act'[g] = act[g] \/ \E ok \in BOOLEAN : act'[g] = Idle(ok)
  BY DEF Restart, Abort, Refuse, TypeInv, TypeOK
<1>3. act' \in [Handlers -> Tasks']
  <2>1. DOMAIN act' = Handlers /\ act' = [g \in Handlers |-> act'[g]]
    BY DEF Restart, Abort, Refuse, TypeInv, TypeOK
  <2>2. \A ok \in BOOLEAN : Idle(ok) \in Tasks'
    BY DEF Idle, Tasks, IdleTasks
  <2>3. Tasks \subseteq Tasks'
    BY <1>1, TypesGrow DEF Database
  <2> QED
    BY <1>2, <2>1, <2>2, <2>3 DEF TypeInv, TypeOK
<1>4. ASSUME NEW g \in Handlers PROVE TaskReady(g)'
  <2>1. CASE act'[g] = act[g]
    BY <1>1, <2>1 DEF TypeInv, TaskReady, Database
  <2>2. CASE \E ok \in BOOLEAN : act'[g] = Idle(ok)
    BY <2>2 DEF TaskReady, Idle
  <2> QED
    BY <1>2, <2>1, <2>2
<1> QED
  BY <1>1, <1>3, <1>4
     DEF TypeInv, TypeOK, Database, Revisions, Rows, Previews, Outcomes

LEMMA TypeStutter == TypeInv /\ UNCHANGED vars => TypeInv'
  BY DEF TypeInv, TypeOK, TaskReady, vars, Tasks, IdleTasks, DecideTasks, UndoTasks,
         MakeTasks, ReviewTasks, Revisions, Rows, Previews, Outcomes

LEMMA TypeNext == TypeInv /\ [Next]_vars => TypeInv'
<1> SUFFICES ASSUME TypeInv, [Next]_vars PROVE TypeInv'
  OBVIOUS
<1>1. ASSUME NEW h \in Handlers, Arrive(h) PROVE TypeInv'
  BY <1>1, TypeArrive
<1>2. ASSUME NEW h \in Handlers, Work(h) PROVE TypeInv'
  BY <1>2, TypeDecideRead, TypeDecideWrite, TypeMove, TypeReview DEF Work
<1> QED
  BY <1>1, <1>2, TypeFault, TypeStutter DEF Next

LEMMA TypeInit == Init => TypeInv
<1> SUFFICES ASSUME Init PROVE TypeInv
  OBVIOUS
<1>1. Draft \in revs /\ Confirmed \in revs /\ \A p \in Proposals : PreviewOf(Confirmed, p) \in revs
  BY DEF Init
<1>2. revs \subseteq Revisions
  BY <1>1 DEF Init, Draft, Confirmed, CommitOf, PreviewOf, Revision, Revisions, Stages, Changes
<1>3. table \in [Proposals -> Rows]
  BY <1>1 DEF Init, Row, Rows, Preview, Previews, ProposalStates
<1>4. timeline \in Seq(revs)
  BY <1>1 DEF Init
<1>5. decisions \in [Keys -> Outcomes] /\ act \in [Handlers -> Tasks]
  BY DEF Init, Outcomes, Tasks, IdleTasks, Idle
<1>6. \A h \in Handlers : TaskReady(h)
  BY DEF Init, TaskReady, Idle
<1>7. requests \in 0..MaxRequests /\ faults \in 0..MaxFaults
  BY BoundsAssumption DEF Init
<1> QED
  BY <1>1, <1>2, <1>3, <1>4, <1>5, <1>6, <1>7 DEF Init, TypeInv, TypeOK

\* Whatever the requests, threads and faults, every table holds what its
\* columns say and every thread has the task its step expects.
THEOREM TypeCorrect == Spec => []TypeOK
<1>1. TypeInv => TypeOK
  BY DEF TypeInv
<1> QED
  BY <1>1, TypeInit, TypeNext, PTL DEF Spec

-----------------------------------------------------------------------------
(* The lineage invariant.                                                  *)

\* A row that can be accepted was staged on its base, which was active.
ReviewSound(row, p) ==
    row.preview.acceptable =>
        /\ Activated(row.base)
        /\ row.preview.rev = PreviewOf(row.base, p)

\* A revision that may join the timeline's end.
Placeable(r) ==
    /\ r.stage # "staged_preview"
    /\ r # Draft => Activated(r.parent)

TaskSound(h) ==
    /\ act[h].pc \in {"replay", "fetch", "decline", "record", "precheck",
                      "committing", "build", "swap", "finish", "stale", "fail",
                      "base", "stage", "save"} =>
          ReviewSound(act[h].row, act[h].proposal)
    /\ act[h].pc = "swap" =>
          act[h].built = CommitOf(act[h].row.base, act[h].row.preview.rev.content)
    /\ act[h].pc = "stage" => Activated(act[h].row.base)
    /\ act[h].pc = "target" =>
          \A i \in DOMAIN act[h].history : Activated(act[h].history[i])
    /\ act[h].pc = "move" => Activated(act[h].target)
    /\ act[h].pc = "seal" => Activated(act[h].built)
    /\ act[h].pc = "activate" => Placeable(act[h].built)

LineageInv ==
    /\ TypeInv
    /\ TimelineIsLineage
    /\ ReplayIsTruthful
    /\ ReviewMatchesBase
    /\ \A h \in Handlers : TaskSound(h)

-----------------------------------------------------------------------------
(* The timeline.                                                           *)

\* Stamping keeps the lineage when the revision is in the timeline already or
\* may join it.
LEMMA StampKeeps ==
    ASSUME TypeInv, TimelineIsLineage, NEW r \in revs, Stamp(r),
           Activated(r) \/ Placeable(r)
    PROVE  /\ Activated(r)'
           /\ \A x : Activated(x) => Activated(x)'
           /\ Activated(active)' => TimelineIsLineage'
<1>1. timeline \in Seq(revs)
  BY DEF TypeInv, TypeOK
<1>2. CASE Activated(r)
  BY <1>2 DEF Stamp, TimelineIsLineage, Activated, ActivatedBefore
<1>3. CASE ~ Activated(r)
  <2>1. timeline' = Append(timeline, r)
    BY <1>3 DEF Stamp
  <2>2. /\ DOMAIN timeline = 1..Len(timeline) /\ Len(timeline) \in Nat
        /\ DOMAIN timeline' = 1..(Len(timeline) + 1)
        /\ \A i \in 1..Len(timeline) : timeline'[i] = timeline[i]
        /\ timeline'[Len(timeline) + 1] = r
    BY <1>1, <2>1, AppendProperties, LenProperties
  <2>3. Activated(r)' /\ \A x : Activated(x) => Activated(x)'
    BY <2>2 DEF Activated
  <2>4. ASSUME NEW i \in DOMAIN timeline'
        PROVE  /\ timeline'[i].stage # "staged_preview"
               /\ timeline'[i] # Draft => \E j \in 1..(i - 1) : timeline'[j] = timeline'[i].parent
    <3>1. CASE i \in 1..Len(timeline)
      BY <2>2, <3>1 DEF TimelineIsLineage, ActivatedBefore
    <3>2. CASE i = Len(timeline) + 1
      BY <1>3, <2>2, <3>2 DEF Placeable, Activated
    <3> QED
      BY <2>2, <2>4, <3>1, <3>2
  <2> QED
    BY <2>3, <2>4 DEF TimelineIsLineage, ActivatedBefore
<1> QED
  BY <1>2, <1>3

\* What thread h does leaves the rest sound when it only adds to the timeline.
LEMMA LineageStep ==
    ASSUME LineageInv, TypeInv', NEW h \in Handlers, NEW task,
           act' = [act EXCEPT ![h] = task], TaskSound(h)',
           \A x : Activated(x) => Activated(x)',
           TimelineIsLineage', ReplayIsTruthful', ReviewMatchesBase'
    PROVE  LineageInv'
<1>1. ASSUME NEW g \in Handlers, g # h PROVE TaskSound(g)'
  <2>1. act'[g] = act[g]
    BY <1>1 DEF LineageInv, TypeInv, TypeOK
  <2>2. TaskSound(g)
    BY DEF LineageInv
  <2> QED
    BY <2>1, <2>2 DEF TaskSound, ReviewSound, Placeable
<1> QED
  BY <1>1 DEF LineageInv

\* A step that writes neither the pointer nor the decisions.
LEMMA LineageQuiet ==
    ASSUME LineageInv, TypeInv', NEW h \in Handlers, NEW task,
           act' = [act EXCEPT ![h] = task], TaskSound(h)',
           UNCHANGED <<active, timeline, decisions>>, ReviewMatchesBase'
    PROVE  LineageInv'
<1>1. /\ TimelineIsLineage' /\ ReplayIsTruthful'
      /\ \A x : Activated(x) => Activated(x)'
  BY DEF LineageInv, TimelineIsLineage, ReplayIsTruthful, Activated, ActivatedBefore
<1> QED
  BY <1>1, LineageStep

LEMMA LineageIdle ==
    ASSUME LineageInv, TypeInv', NEW h \in Handlers, Succeed(h) \/ Refuse(h),
           UNCHANGED <<active, timeline, decisions>>, ReviewMatchesBase'
    PROVE  LineageInv'
<1>1. PICK ok \in BOOLEAN : act' = [act EXCEPT ![h] = Idle(ok)]
  BY DEF Succeed, Refuse
<1>2. act'[h] = Idle(ok)
  BY <1>1 DEF LineageInv, TypeInv, TypeOK
<1>3. TaskSound(h)'
  BY <1>2 DEF TaskSound, Idle
<1> QED
  BY <1>1, <1>3, LineageQuiet

\* The table is sound when nothing in it changes, or a sound row is put.
LEMMA TableKept ==
    ASSUME LineageInv, UNCHANGED <<timeline, table>>
    PROVE  ReviewMatchesBase'
  BY DEF LineageInv, ReviewMatchesBase, Activated

LEMMA TablePut ==
    ASSUME LineageInv, UNCHANGED timeline, NEW p \in Proposals, NEW row,
           ReviewSound(row, p), Put(p, row)
    PROVE  ReviewMatchesBase'
<1>1. table \in [Proposals -> Rows]
  BY DEF LineageInv, TypeInv, TypeOK
<1> QED
  BY <1>1 DEF Put, LineageInv, ReviewMatchesBase, Activated, ReviewSound

-----------------------------------------------------------------------------
(* The steps.                                                              *)

\* A request's first task, whichever request it is.
LEMMA ArriveTask ==
    ASSUME NEW h \in Handlers, Arrive(h)
    PROVE  \E task : /\ Submit(h, task)
                     /\ \/ task.pc \in {"history", "parent", "generate", "next"}
                        \/ task.pc = "replay" /\ task.row = NoRow
                        \/ task.pc = "activate" /\ task.built = Draft
<1>1. CASE SubmitAccept(h) \/ SubmitDecline(h)
  <2>1. PICK d, p, k, expected, hash : Submit(h, Decision(d, p, k, expected, hash))
    BY <1>1 DEF SubmitAccept, SubmitDecline
  <2> QED
    BY <2>1 DEF Decision
<1>2. CASE SubmitUndo(h)
  BY <1>2 DEF SubmitUndo, Undo
<1>3. CASE SubmitImport(h)
  BY <1>3 DEF SubmitImport, Making
<1>4. CASE SubmitConfirm(h)
  BY <1>4 DEF SubmitConfirm, Making
<1>5. CASE SubmitRecommend(h)
  BY <1>5 DEF SubmitRecommend, Review
<1>6. CASE SubmitPreview(h)
  BY <1>6 DEF SubmitPreview, Review
<1> QED
  BY <1>1, <1>2, <1>3, <1>4, <1>5, <1>6 DEF Arrive

\* A new task has read nothing, or is to activate the draft.
LEMMA LineageArrive ==
    ASSUME LineageInv, TypeInv', NEW h \in Handlers, Arrive(h)
    PROVE  LineageInv'
<1>1. PICK task : /\ Submit(h, task)
                  /\ \/ task.pc \in {"history", "parent", "generate", "next"}
                     \/ task.pc = "replay" /\ task.row = NoRow
                     \/ task.pc = "activate" /\ task.built = Draft
  BY ArriveTask
<1>2. act'[h] = task
  BY <1>1 DEF Submit, LineageInv, TypeInv, TypeOK
<1>3. TaskSound(h)'
  BY <1>1, <1>2
     DEF TaskSound, ReviewSound, NoRow, NoPreview, Row, Preview, Placeable, Draft, Revision
<1>4. ReviewMatchesBase'
  BY <1>1, TableKept DEF Submit
<1> QED
  BY <1>1, <1>3, <1>4, LineageQuiet DEF Submit

LEMMA LineageDecide ==
    ASSUME LineageInv, TypeInv', NEW h \in Handlers,
           \/ Replay(h) \/ FetchDecline(h) \/ FetchAccept(h) \/ Decline(h)
           \/ PreCheck(h) \/ MarkCommitting(h) \/ BuildCommit(h)
           \/ BuildFails(h) \/ SwapLost(h)
    PROVE  LineageInv'
<1> DEFINE Becomes(task) == act' = [act EXCEPT ![h] = task]
           Moved(pc)     == [act[h] EXCEPT !.pc = pc]
           row           == act[h].row
           p             == act[h].proposal
<1>1. act \in [Handlers -> Tasks] /\ TypeInv
  BY DEF LineageInv, TypeInv, TypeOK
<1>2. act[h] \in DecideTasks
  BY <1>1, TaskKind DEF Replay, FetchDecline, FetchAccept, Decline, PreCheck, MarkCommitting,
                        BuildCommit, BuildFails, SwapLost, At
<1>3. ReviewSound(row, p) /\ p \in Proposals
  BY <1>2 DEF LineageInv, TaskSound, DecideTasks
<1>4. UNCHANGED <<active, timeline, decisions>>
  BY DEF Replay, FetchDecline, FetchAccept, Decline, PreCheck, MarkCommitting,
         BuildCommit, BuildFails, SwapLost, Database
<1>5. CASE Decline(h) \/ MarkCommitting(h)
  <2>1. PICK state : Put(p, InState(row, state))
    BY <1>5 DEF Decline, MarkCommitting
  <2>2. row \in Rows
    BY <1>2 DEF DecideTasks
  <2>3. ReviewSound(InState(row, state), p)
    BY <1>3, <2>2 DEF ReviewSound, InState, Rows
  <2>4. ReviewMatchesBase'
    BY <1>3, <1>4, <2>1, <2>3, TablePut
  <2>5. PICK pc \in {"record", "build"} : Becomes(Moved(pc))
    BY <1>5 DEF Decline, MarkCommitting, Goto
  <2>6. TaskSound(h)'
    BY <1>1, <1>2, <1>3, <1>4, <2>5 DEF TaskSound, ReviewSound, Activated, DecideTasks
  <2> QED
    BY <1>4, <2>4, <2>5, <2>6, LineageQuiet
<1>6. CASE ~ (Decline(h) \/ MarkCommitting(h))
  <2>1. ReviewMatchesBase'
    BY <1>4, <1>6, TableKept
       DEF Replay, FetchDecline, FetchAccept, PreCheck, BuildCommit, BuildFails, SwapLost, Database
  <2>2. CASE Succeed(h) \/ Refuse(h)
    BY <1>4, <2>1, <2>2, LineageIdle
  <2>3. CASE \E pc \in {"fetch", "stale", "committing", "fail"} : Goto(h, pc)
    <3>1. PICK pc \in {"fetch", "stale", "committing", "fail"} : Becomes(Moved(pc))
      BY <2>3 DEF Goto
    <3>2. TaskSound(h)'
      BY <1>1, <1>2, <1>3, <1>4, <3>1 DEF TaskSound, ReviewSound, Activated, DecideTasks
    <3> QED
      BY <1>4, <2>1, <3>1, <3>2, LineageQuiet
  <2>4. CASE BuildCommit(h)
    <3> DEFINE r == CommitOf(row.base, row.preview.rev.content)
    <3>1. Becomes([act[h] EXCEPT !.pc = "swap", !.built = r])
      BY <1>1, <2>4 DEF BuildCommit
    <3>2. TaskSound(h)'
      BY <1>1, <1>2, <1>3, <1>4, <3>1 DEF TaskSound, ReviewSound, Activated, DecideTasks
    <3> QED
      BY <1>4, <2>1, <3>1, <3>2, LineageQuiet
  <2>5. CASE \E pc \in {"decline", "precheck"} :
                act' = [act EXCEPT ![h].pc = pc, ![h].row = table[p]]
    <3>1. PICK pc \in {"decline", "precheck"} :
             Becomes([act[h] EXCEPT !.pc = pc, !.row = table[p]])
      BY <1>1, <2>5
    <3>2. ReviewSound(table[p], p)
      BY <1>3 DEF LineageInv, ReviewMatchesBase, ReviewSound
    <3>3. TaskSound(h)'
      BY <1>1, <1>2, <1>4, <3>1, <3>2 DEF TaskSound, ReviewSound, Activated, DecideTasks
    <3> QED
      BY <1>4, <2>1, <3>1, <3>3, LineageQuiet
  <2> QED
    BY <1>6, <2>2, <2>3, <2>4, <2>5
       DEF Replay, FetchDecline, FetchAccept, PreCheck, BuildFails, SwapLost
<1> QED
  BY <1>5, <1>6

\* The writes that end a request without moving the pointer.
LEMMA LineageSettle ==
    ASSUME LineageInv, TypeInv', NEW h \in Handlers,
           RecordDecline(h) \/ Finish(h) \/ MarkStale(h) \/ MarkFailed(h)
    PROVE  LineageInv'
<1>1. act \in [Handlers -> Tasks] /\ TypeInv /\ decisions \in [Keys -> Outcomes]
  BY DEF LineageInv, TypeInv, TypeOK
<1>2. act[h] \in DecideTasks
  BY <1>1, TaskKind DEF RecordDecline, Finish, MarkStale, MarkFailed, Settle, At
<1>3. /\ ReviewSound(act[h].row, act[h].proposal) /\ act[h].proposal \in Proposals
      /\ act[h].row \in Rows /\ act[h].key \in Keys
  BY <1>2 DEF LineageInv, TaskSound, DecideTasks
<1>4. CASE RecordDecline(h)
  <2>1. UNCHANGED <<active, timeline, table>>
    BY <1>4 DEF RecordDecline
  <2>2. /\ ReviewMatchesBase' /\ TimelineIsLineage'
        /\ \A x : Activated(x) => Activated(x)'
    BY <2>1, TableKept DEF LineageInv, TimelineIsLineage, Activated, ActivatedBefore
  <2>3. \A k \in Keys : decisions'[k] = decisions[k] \/ decisions'[k].decision = "decline"
    BY <1>1, <1>3, <1>4 DEF RecordDecline, Record, Declined
  <2>4. ReplayIsTruthful'
    BY <2>1, <2>3 DEF LineageInv, ReplayIsTruthful, Activated
  <2>5. act' = [act EXCEPT ![h] = Idle(TRUE)] /\ TaskSound(h)'
    BY <1>1, <1>4 DEF RecordDecline, Succeed, TaskSound, Idle
  <2> QED
    BY <2>2, <2>4, <2>5, LineageStep
<1>5. CASE Finish(h) \/ MarkStale(h) \/ MarkFailed(h)
  <2>1. PICK state : Put(act[h].proposal, InState(act[h].row, state))
    BY <1>5 DEF Finish, MarkStale, MarkFailed, Settle
  <2>2. ReviewSound(InState(act[h].row, state), act[h].proposal)
    BY <1>3 DEF ReviewSound, InState, Rows
  <2>3. UNCHANGED <<active, timeline, decisions>> /\ (Succeed(h) \/ Refuse(h))
    BY <1>5 DEF Finish, MarkStale, MarkFailed, Settle
  <2> QED
    BY <1>3, <2>1, <2>2, <2>3, TablePut, LineageIdle
<1> QED
  BY <1>4, <1>5

\* The accept that moves the pointer: its commit is a child of an activated
\* base, and the outcome it records says so.
LEMMA LineageSwap ==
    ASSUME LineageInv, TypeInv', NEW h \in Handlers, Swap(h)
    PROVE  LineageInv'
<1>0. PICK r, p : r = act[h].built /\ p = act[h].proposal
  OBVIOUS
<1>1. act \in [Handlers -> Tasks] /\ TypeInv /\ decisions \in [Keys -> Outcomes]
  BY DEF LineageInv, TypeInv, TypeOK
<1>2. act[h] \in DecideTasks
  BY <1>1, TaskKind DEF Swap, At
<1>3. /\ r \in revs /\ act[h].row.preview.acceptable /\ act[h].key \in Keys
  BY <1>0, <1>1, <1>2 DEF Swap, At, TypeInv, TaskReady, DecideTasks
<1>4. /\ Activated(act[h].row.base)
      /\ act[h].row.preview.rev = PreviewOf(act[h].row.base, p)
      /\ r = CommitOf(act[h].row.base, act[h].row.preview.rev.content)
  BY <1>0, <1>3 DEF Swap, At, LineageInv, TaskSound, ReviewSound
<1>5. /\ r.stage = "committed" /\ r.parent = act[h].row.base
      /\ r.content = r.parent.content \cup {p}
  BY <1>4 DEF CommitOf, PreviewOf, Revision
<1>6. Activated(r) \/ Placeable(r)
  BY <1>4, <1>5 DEF Placeable
<1>7. /\ Activated(r)' /\ \A x : Activated(x) => Activated(x)'
      /\ TimelineIsLineage'
  <2>1. active' = r /\ Stamp(r)
    BY <1>0 DEF Swap
  <2>2. /\ Activated(r)'
        /\ \A x : Activated(x) => Activated(x)'
        /\ Activated(active)' => TimelineIsLineage'
    BY <1>1, <1>3, <1>6, <2>1, StampKeeps DEF LineageInv
  <2> QED
    BY <2>1, <2>2 DEF Activated
<1>8. ReplayIsTruthful'
  <2>1. ASSUME NEW k \in Keys, decisions'[k] # decisions[k]
        PROVE  decisions'[k] = Accepted(p, r)
    BY <1>0, <1>1, <1>3, <2>1 DEF Swap, Record
  <2>2. ASSUME NEW k \in Keys, decisions'[k].decision = "accept"
        PROVE  LET c == decisions'[k].committed IN
               /\ \E i \in DOMAIN timeline' : timeline'[i] = c
               /\ c.stage = "committed"
               /\ c.content = c.parent.content \cup {decisions'[k].proposal}
    <3>1. CASE decisions'[k] = decisions[k]
      BY <1>7, <2>2, <3>1 DEF LineageInv, ReplayIsTruthful, Activated
    <3>2. CASE decisions'[k] = Accepted(p, r)
      BY <1>5, <1>7, <3>2 DEF Accepted, Activated
    <3> QED
      BY <2>1, <3>1, <3>2
  <2> QED
    BY <2>2 DEF ReplayIsTruthful, Activated
<1>9. ReviewMatchesBase'
  BY <1>7 DEF Swap, LineageInv, ReviewMatchesBase
<1>10. act' = [act EXCEPT ![h] = [act[h] EXCEPT !.pc = "finish"]]
  BY DEF Swap, Goto
<1>11. TaskSound(h)'
  BY <1>0, <1>1, <1>2, <1>4, <1>7, <1>10 DEF TaskSound, ReviewSound, DecideTasks
<1> QED
  BY <1>7, <1>8, <1>9, <1>10, <1>11, LineageStep

\* Undo, import and confirm: a target was in the history read, a confirmed
\* revision is a child of one that was active.
LEMMA LineageMove ==
    ASSUME LineageInv, TypeInv', NEW h \in Handlers, MovePointer(h) \/ Activate(h)
    PROVE  LineageInv'
<1>0. PICK r : r = IF MovePointer(h) THEN act[h].target ELSE act[h].built
  OBVIOUS
<1>1. TypeInv /\ TimelineIsLineage /\ Activated(active)
  BY DEF LineageInv, TimelineIsLineage
<1>2. /\ r \in revs /\ (Activated(r) \/ Placeable(r))
      /\ Stamp(r) /\ (active' = r \/ active' = active)
  <2>1. CASE MovePointer(h)
    BY <1>0, <1>1, <2>1 DEF MovePointer, At, TypeInv, TaskReady, LineageInv, TaskSound
  <2>2. CASE ~ MovePointer(h)
    BY <1>0, <1>1, <2>2 DEF Activate, At, TypeInv, TaskReady, LineageInv, TaskSound
  <2> QED
    BY <2>1, <2>2
<1>3. /\ Activated(r)' /\ \A x : Activated(x) => Activated(x)'
      /\ Activated(active)' => TimelineIsLineage'
  BY <1>1, <1>2, StampKeeps
<1>4. TimelineIsLineage'
  BY <1>1, <1>2, <1>3 DEF Activated
<1>5. act' = [act EXCEPT ![h] = Idle(TRUE)] /\ UNCHANGED <<table, decisions>>
  BY DEF MovePointer, Activate, Succeed
<1>6. ReplayIsTruthful' /\ ReviewMatchesBase'
  BY <1>3, <1>5 DEF LineageInv, ReplayIsTruthful, ReviewMatchesBase
<1>7. TaskSound(h)'
  BY <1>5 DEF LineageInv, TypeInv, TypeOK, TaskSound, Idle
<1> QED
  BY <1>3, <1>4, <1>5, <1>6, <1>7, LineageStep

LEMMA LineageMake ==
    ASSUME LineageInv, TypeInv', NEW h \in Handlers,
           \/ ReadHistory(h) \/ PickTarget(h) \/ VerifyFails(h)
           \/ ReadParent(h) \/ SealConfirmed(h)
    PROVE  LineageInv'
<1> DEFINE Becomes(task) == act' = [act EXCEPT ![h] = task]
<1>1. act \in [Handlers -> Tasks] /\ TypeInv /\ timeline \in Seq(revs)
  BY DEF LineageInv, TypeInv, TypeOK
<1>2. UNCHANGED <<active, timeline, decisions>> /\ ReviewMatchesBase'
  BY TableKept DEF ReadHistory, PickTarget, VerifyFails, ReadParent, SealConfirmed, Database
<1>3. CASE Refuse(h)
  BY <1>2, <1>3, LineageIdle
<1>4. CASE ReadHistory(h) /\ ~ Refuse(h)
  <2>1. act[h] \in UndoTasks
    BY <1>1, <1>4, TaskKind DEF ReadHistory, At
  <2>2. Becomes([act[h] EXCEPT !.pc = "target", !.history = timeline])
    BY <1>1, <1>4 DEF ReadHistory
  <2>3. TaskSound(h)'
    BY <1>1, <1>2, <2>1, <2>2 DEF TaskSound, Activated, UndoTasks
  <2> QED
    BY <1>2, <2>2, <2>3, LineageQuiet
<1>5. CASE PickTarget(h) /\ ~ Refuse(h)
  <2> DEFINE history == act[h].history
             place   == PlaceOf(active, history)
  <2>1. /\ act[h] \in UndoTasks /\ history \in Seq(revs)
        /\ \A i \in DOMAIN history : Activated(history[i])
    BY <1>1, <1>5, TaskKind DEF PickTarget, At, LineageInv, TaskSound, UndoTasks
  <2>2. ASSUME NEW r, Activated(r), Becomes(Undo("move", act[h].to, << >>, active, r))
        PROVE  LineageInv'
    <3>1. Activated(r)'
      BY <1>2, <2>2 DEF Activated
    <3>2. act'[h].pc = "move" /\ act'[h].target = r
      BY <1>1, <2>2 DEF Undo
    <3>3. TaskSound(h)'
      BY <3>1, <3>2 DEF TaskSound
    <3> QED
      BY <1>2, <2>2, <3>3, LineageQuiet
  <2>3. CASE act[h].to = NoRevision
    <3>1. Len(history) > 1
      BY <1>1, <1>5, <2>3 DEF PickTarget, At, TypeInv, TaskReady
    <3>2. place \in 1..Len(history) /\ DOMAIN history = 1..Len(history)
      BY <2>1, <3>1 DEF PlaceOf
    <3>3. place # 1 /\ Becomes(Undo("move", act[h].to, << >>, active, history[place - 1]))
      BY <1>5, <2>3 DEF PickTarget
    <3>4. Activated(history[place - 1])
      BY <2>1, <3>2, <3>3
    <3> QED
      BY <2>2, <3>3, <3>4
  <2>4. CASE act[h].to # NoRevision
    <3>1. /\ \E i \in DOMAIN history : history[i] = act[h].to
          /\ Becomes(Undo("move", act[h].to, << >>, active, act[h].to))
      BY <1>5, <2>4 DEF PickTarget
    <3> QED
      BY <2>1, <2>2, <3>1
  <2> QED
    BY <2>3, <2>4
<1>6. CASE ReadParent(h)
  <2>1. act[h] \in MakeTasks
    BY <1>1, <1>6, TaskKind DEF ReadParent, At
  <2>2. Becomes([act[h] EXCEPT !.pc = "seal", !.built = active])
    BY <1>1, <1>6 DEF ReadParent
  <2>3. TaskSound(h)'
    BY <1>1, <1>2, <2>1, <2>2
       DEF LineageInv, TimelineIsLineage, TaskSound, Activated, MakeTasks
  <2> QED
    BY <1>2, <2>2, <2>3, LineageQuiet
<1>7. CASE SealConfirmed(h)
  <2> DEFINE parent == act[h].built
             r      == CommitOf(parent, parent.content \cup {act[h].claim})
  <2>1. act[h] \in MakeTasks /\ Activated(parent)
    BY <1>1, <1>7, TaskKind DEF SealConfirmed, At, LineageInv, TaskSound
  <2>2. Becomes([act[h] EXCEPT !.pc = "activate", !.built = r])
    BY <1>1, <1>7 DEF SealConfirmed
  <2>3. r.stage = "committed" /\ r.parent = parent
    BY DEF CommitOf, Revision
  <2>4. act'[h].pc = "activate" /\ act'[h].built = r
    BY <1>1, <2>1, <2>2 DEF MakeTasks
  <2>5. Placeable(act[h].built)'
    BY <1>2, <2>1, <2>3, <2>4 DEF Placeable, Activated
  <2>6. TaskSound(h)'
    BY <2>4, <2>5 DEF TaskSound
  <2> QED
    BY <1>2, <2>2, <2>6, LineageQuiet
<1> QED
  BY <1>3, <1>4, <1>5, <1>6, <1>7 DEF VerifyFails

\* Recommend and preview: only a base that is active is staged on.
LEMMA LineageReview ==
    ASSUME LineageInv, TypeInv', NEW h \in Handlers,
           \/ Generate(h) \/ FetchPreview(h) \/ CheckBase(h) \/ StageFails(h)
           \/ Stage(h) \/ Save(h)
    PROVE  LineageInv'
<1> DEFINE Becomes(task) == act' = [act EXCEPT ![h] = task]
           base          == act[h].row.base
           p             == act[h].proposal
<1>1. /\ act \in [Handlers -> Tasks] /\ TypeInv /\ table \in [Proposals -> Rows]
      /\ Activated(active)
  BY DEF LineageInv, TypeInv, TypeOK, TimelineIsLineage
<1>2. act[h] \in ReviewTasks
  BY <1>1, TaskKind DEF Generate, FetchPreview, CheckBase, StageFails, Stage, Save, At
<1>3. UNCHANGED <<active, timeline, decisions>>
  BY DEF Generate, FetchPreview, CheckBase, StageFails, Stage, Save, Database
<1>4. CASE Generate(h)
  <2>1. PICK q \in Proposals, task \in ReviewTasks :
          /\ Put(q, Row("proposed", act[h].base, NoPreview))
          /\ Becomes(task) /\ task.pc \in {"generate", "next"}
    BY <1>1, <1>2, <1>4, GenerateFiles
  <2>2. ReviewSound(Row("proposed", act[h].base, NoPreview), q)
    BY DEF ReviewSound, Row, NoPreview, Preview
  <2>3. ReviewMatchesBase'
    BY <1>3, <2>1, <2>2, TablePut
  <2>4. TaskSound(h)'
    BY <1>1, <2>1 DEF TaskSound
  <2> QED
    BY <1>3, <2>1, <2>3, <2>4, LineageQuiet
<1>5. CASE FetchPreview(h)
  <2>1. PICK q \in act[h].batch :
           Becomes([act[h] EXCEPT !.pc = "base", !.proposal = q, !.row = table[q]])
    BY <1>1, <1>5 DEF FetchPreview
  <2>2. q \in Proposals /\ ReviewSound(table[q], q)
    BY <1>2, <2>1 DEF ReviewTasks, LineageInv, ReviewMatchesBase, ReviewSound
  <2>3. TaskSound(h)'
    BY <1>1, <1>2, <1>3, <2>1, <2>2 DEF TaskSound, ReviewSound, Activated, ReviewTasks
  <2>4. ReviewMatchesBase'
    BY <1>5, TableKept DEF FetchPreview, Database
  <2> QED
    BY <1>3, <2>1, <2>3, <2>4, LineageQuiet
<1>6. CASE CheckBase(h)
  <2>1. ReviewSound(act[h].row, p) /\ act[h].row \in Rows
    BY <1>2, <1>6 DEF CheckBase, At, LineageInv, TaskSound, ReviewTasks
  <2>2. ReviewMatchesBase'
    BY <1>6, TableKept DEF CheckBase, Database
  <2>3. CASE active # base
    <3>1. Becomes([act[h] EXCEPT !.pc = "save", !.row = InState(act[h].row, "stale")])
      BY <1>1, <1>6, <2>3 DEF CheckBase
    <3>2. ReviewSound(InState(act[h].row, "stale"), p)
      BY <2>1 DEF InState, ReviewSound, Rows
    <3>3. TaskSound(h)'
      BY <1>1, <1>2, <1>3, <3>1, <3>2 DEF TaskSound, ReviewSound, Activated, ReviewTasks
    <3> QED
      BY <1>3, <2>2, <3>1, <3>3, LineageQuiet
  <2>4. CASE active = base /\ Goto(h, "stage")
    <3>1. Becomes([act[h] EXCEPT !.pc = "stage"])
      BY <2>4 DEF Goto
    <3>2. TaskSound(h)'
      BY <1>1, <1>2, <1>3, <2>1, <2>4, <3>1 DEF TaskSound, ReviewSound, Activated, ReviewTasks
    <3> QED
      BY <1>3, <2>2, <3>1, <3>2, LineageQuiet
  <2>5. CASE Refuse(h)
    BY <1>3, <2>2, <2>5, LineageIdle
  <2> QED
    BY <1>6, <2>3, <2>4, <2>5 DEF CheckBase
<1>7. CASE StageFails(h) \/ Stage(h)
  <2>1. Activated(base)
    BY <1>7 DEF StageFails, Stage, At, LineageInv, TaskSound
  <2>2. ReviewMatchesBase'
    BY <1>7, TableKept DEF StageFails, Stage, Database
  <2>3. PICK state, preview :
           /\ Becomes([act[h] EXCEPT !.pc = "save", !.row = Row(state, base, preview)])
           /\ preview.acceptable => preview.rev = PreviewOf(base, p)
    <3>1. CASE StageFails(h)
      <4>1. Becomes([act[h] EXCEPT !.pc = "save",
                       !.row = Row("blocked", base, Preview(base, FALSE))])
        BY <1>1, <3>1 DEF StageFails
      <4>2. ~ Preview(base, FALSE).acceptable
        BY DEF Preview
      <4> QED
        BY <4>1, <4>2
    <3>2. CASE Stage(h)
      <4>1. PICK ok \in BOOLEAN :
               act' = [act EXCEPT ![h].pc = "save",
                         ![h].row = Row(IF ok THEN "review_ready" ELSE "blocked",
                                        @.base, Preview(PreviewOf(base, p), ok))]
        BY <3>2 DEF Stage
      <4>2. Becomes([act[h] EXCEPT !.pc = "save",
                       !.row = Row(IF ok THEN "review_ready" ELSE "blocked",
                                   base, Preview(PreviewOf(base, p), ok))])
        BY <1>1, <4>1
      <4>3. Preview(PreviewOf(base, p), ok).rev = PreviewOf(base, p)
        BY DEF Preview
      <4> QED
        BY <4>2, <4>3
    <3> QED
      BY <1>7, <3>1, <3>2
  <2>4. TaskSound(h)'
    BY <1>1, <1>2, <1>3, <2>1, <2>3 DEF TaskSound, ReviewSound, Activated, Row, ReviewTasks
  <2> QED
    BY <1>3, <2>2, <2>3, <2>4, LineageQuiet
<1>8. CASE Save(h)
  <2>1. p \in Proposals /\ ReviewSound(act[h].row, p) /\ Put(p, act[h].row)
    BY <1>1, <1>8 DEF Save, At, TypeInv, TaskReady, LineageInv, TaskSound
  <2>2. ReviewMatchesBase'
    BY <1>3, <2>1, TablePut
  <2>3. CASE Succeed(h)
    BY <1>3, <2>2, <2>3, LineageIdle
  <2>4. CASE ~ Succeed(h)
    <3> DEFINE task == Review("next", act[h].base, act[h].batch \ {p}, {})
    <3>1. Becomes(task) /\ task.pc = "next"
      BY <1>1, <1>8, <2>4 DEF Save, Review
    <3>2. TaskSound(h)'
      BY <1>1, <3>1 DEF TaskSound
    <3> QED
      BY <1>3, <2>2, <3>1, <3>2, LineageQuiet
  <2> QED
    BY <2>3, <2>4
<1> QED
  BY <1>4, <1>5, <1>6, <1>7, <1>8

\* A fault forgets what a thread was doing.
LEMMA LineageFault ==
    ASSUME LineageInv, TypeInv', Restart \/ \E h \in Handlers : Abort(h)
    PROVE  LineageInv'
<1>1. UNCHANGED Database
  BY DEF Restart, Abort
<1>2. TimelineIsLineage' /\ ReplayIsTruthful' /\ ReviewMatchesBase'
  BY <1>1 DEF Database, LineageInv, TimelineIsLineage, ReplayIsTruthful, ReviewMatchesBase,
              Activated, ActivatedBefore
<1>3. ASSUME NEW g \in Handlers PROVE TaskSound(g)'
  <2>1. act'[g] = act[g] \/ \E ok \in BOOLEAN : act'[g] = Idle(ok)
    BY DEF Restart, Abort, Refuse, LineageInv, TypeInv, TypeOK
  <2>2. CASE act'[g] = act[g]
    BY <1>1, <2>2
       DEF Database, LineageInv, TaskSound, ReviewSound, Placeable, Activated
  <2>3. CASE \E ok \in BOOLEAN : act'[g] = Idle(ok)
    BY <2>3 DEF TaskSound, Idle
  <2> QED
    BY <2>1, <2>2, <2>3
<1> QED
  BY <1>2, <1>3 DEF LineageInv

LEMMA LineageStutter == LineageInv /\ UNCHANGED vars => LineageInv'
<1>1. TypeInv /\ UNCHANGED vars => TypeInv'
  BY TypeStutter
<1> QED
  BY <1>1 DEF vars, LineageInv, TimelineIsLineage, ReplayIsTruthful, ReviewMatchesBase,
              TaskSound, ReviewSound, Placeable, Activated, ActivatedBefore

LEMMA LineageInit == Init => LineageInv
<1> SUFFICES ASSUME Init PROVE LineageInv
  OBVIOUS
<1>1. timeline = <<Draft, Confirmed>> /\ active = Confirmed
  BY DEF Init
<1>2. Draft.stage = "draft" /\ Confirmed.stage = "committed" /\ Confirmed.parent = Draft
  BY DEF Draft, Confirmed, CommitOf, Revision
<1>3. DOMAIN timeline = 1..2 /\ timeline[1] = Draft /\ timeline[2] = Confirmed
  BY <1>1
<1>4. Activated(Confirmed)
  BY <1>3 DEF Activated
<1>5. TimelineIsLineage
  BY <1>1, <1>2, <1>3, <1>4 DEF TimelineIsLineage, ActivatedBefore
<1>6. ReplayIsTruthful
  BY DEF Init, NoDecision, ReplayIsTruthful
<1>7. ReviewMatchesBase
  BY <1>4 DEF Init, ReviewMatchesBase, Row, Preview
<1>8. \A h \in Handlers : TaskSound(h)
  BY DEF Init, TaskSound, Idle
<1> QED
  BY <1>5, <1>6, <1>7, <1>8, TypeInit DEF LineageInv

LEMMA LineageNext == LineageInv /\ [Next]_vars => LineageInv'
<1> SUFFICES ASSUME LineageInv, [Next]_vars PROVE LineageInv'
  OBVIOUS
<1>1. TypeInv'
  BY TypeNext DEF LineageInv
<1>2. ASSUME NEW h \in Handlers, Arrive(h) PROVE LineageInv'
  BY <1>1, <1>2, LineageArrive
<1>3. ASSUME NEW h \in Handlers, Work(h) PROVE LineageInv'
  BY <1>1, <1>3, LineageDecide, LineageSettle, LineageSwap, LineageMove, LineageMake,
     LineageReview DEF Work
<1> QED
  BY <1>1, <1>2, <1>3, LineageFault, LineageStutter DEF Next

LEMMA LineageHolds == Spec => []LineageInv
  BY LineageInit, LineageNext, PTL DEF Spec

\* The history a client is shown is a history: every revision in it was active
\* once, is no preview, and follows the revision it was built on.
THEOREM TimelineCorrect == Spec => []TimelineIsLineage
<1>1. LineageInv => TimelineIsLineage
  BY DEF LineageInv
<1> QED
  BY <1>1, LineageHolds, PTL

\* A stored acceptance, which every replay of its key returns, names a revision
\* that was activated with precisely the accepted operation applied.
THEOREM ReplayCorrect == Spec => []ReplayIsTruthful
<1>1. LineageInv => ReplayIsTruthful
  BY DEF LineageInv
<1> QED
  BY <1>1, LineageHolds, PTL

\* A review that can be accepted was made of the base it is stored with.
THEOREM ReviewCorrect == Spec => []ReviewMatchesBase
<1>1. LineageInv => ReviewMatchesBase
  BY DEF LineageInv
<1> QED
  BY <1>1, LineageHolds, PTL

-----------------------------------------------------------------------------
(* What an accept commits.                                                 *)

\* An accept past its checks carries the preview its client quoted.
QuoteKept ==
    \A h \in Handlers :
        act[h].pc \in {"precheck", "committing", "build", "swap"} =>
            act[h].hash = act[h].row.preview

QuoteInv == LineageInv /\ QuoteKept

\* A step taken by another thread, or that gives h a new task, keeps the quote.
LEMMA QuoteNext == QuoteInv /\ [Next]_vars => QuoteInv'
<1> SUFFICES ASSUME QuoteInv, [Next]_vars PROVE QuoteInv'
  OBVIOUS
<1>1. LineageInv' /\ act \in [Handlers -> Tasks] /\ TypeInv
  BY LineageNext DEF QuoteInv, LineageInv, TypeInv, TypeOK
<1>2. ASSUME NEW h \in Handlers, Arrive(h) PROVE QuoteKept'
  <2>1. PICK task : act' = [act EXCEPT ![h] = task]
                    /\ task.pc \in {"replay", "history", "activate", "parent", "generate", "next"}
    BY <1>2, ArriveTask DEF Submit
  <2> QED
    BY <1>1, <2>1 DEF QuoteInv, QuoteKept
<1>3. ASSUME NEW h \in Handlers, Succeed(h) \/ Refuse(h) PROVE QuoteKept'
  BY <1>1, <1>3 DEF Succeed, Refuse, Idle, QuoteInv, QuoteKept
<1>4. ASSUME NEW h \in Handlers, NEW pc, Goto(h, pc), act[h] \in DecideTasks,
             pc \in {"committing", "build"} => act[h].pc \in {"precheck", "committing"},
             pc \notin {"precheck", "swap"}
      PROVE  QuoteKept'
  BY <1>1, <1>4 DEF Goto, QuoteInv, QuoteKept, DecideTasks
<1>5. ASSUME NEW h \in Handlers, Work(h) PROVE QuoteKept'
  <2>1. CASE Replay(h) \/ Decline(h) \/ RecordDecline(h) \/ PreCheck(h) \/ MarkCommitting(h)
             \/ BuildFails(h) \/ Swap(h) \/ SwapLost(h) \/ Finish(h) \/ MarkStale(h)
             \/ MarkFailed(h)
    <3>1. act[h] \in DecideTasks
      BY <1>1, <2>1, TaskKind
         DEF Replay, Decline, RecordDecline, PreCheck, MarkCommitting, BuildFails, Swap,
             SwapLost, Finish, MarkStale, MarkFailed, Settle, At
    <3>2. CASE Succeed(h) \/ Refuse(h)
      BY <1>3, <3>2
    <3>3. CASE ~ (Succeed(h) \/ Refuse(h))
      <4>1. PICK pc : /\ Goto(h, pc) /\ pc \notin {"precheck", "swap"}
                      /\ pc \in {"committing", "build"} => act[h].pc \in {"precheck", "committing"}
        BY <2>1, <3>3
           DEF Replay, Decline, RecordDecline, PreCheck, MarkCommitting, BuildFails, Swap,
               SwapLost, Finish, MarkStale, MarkFailed, Settle, At
      <4> QED
        BY <1>4, <3>1, <4>1
    <3> QED
      BY <3>2, <3>3
  <2>2. CASE FetchDecline(h) \/ FetchAccept(h)
    <3>1. act[h] \in DecideTasks
      BY <1>1, <2>2, TaskKind DEF FetchDecline, FetchAccept, At
    <3>2. CASE Refuse(h)
      BY <1>3, <3>2
    <3>3. CASE ~ Refuse(h)
      <4>1. PICK pc : /\ act' = [act EXCEPT ![h].pc = pc, ![h].row = table[act[h].proposal]]
                      /\ \/ pc = "decline"
                         \/ pc = "precheck" /\ act[h].hash = table[act[h].proposal].preview
        BY <2>2, <3>3 DEF FetchDecline, FetchAccept
      <4> QED
        BY <1>1, <3>1, <4>1 DEF QuoteInv, QuoteKept, DecideTasks
    <3> QED
      BY <3>2, <3>3
  <2>3. CASE BuildCommit(h)
    <3>1. act[h] \in DecideTasks
      BY <1>1, <2>3, TaskKind DEF BuildCommit, At
    <3> QED
      BY <1>1, <2>3, <3>1 DEF BuildCommit, At, QuoteInv, QuoteKept, DecideTasks
  <2>4. CASE ReadHistory(h) \/ PickTarget(h) \/ VerifyFails(h) \/ MovePointer(h)
    <3>1. CASE Succeed(h) \/ Refuse(h)
      BY <1>3, <3>1
    <3>2. CASE ~ (Succeed(h) \/ Refuse(h))
      <4>1. act'[h].pc \in {"target", "move"} /\ \A g \in Handlers : g # h => act'[g] = act[g]
        <5>1. act[h] \in UndoTasks
          BY <1>1, <2>4, TaskKind DEF ReadHistory, PickTarget, VerifyFails, MovePointer, At
        <5> QED
          BY <1>1, <2>4, <3>2, <5>1
             DEF ReadHistory, PickTarget, VerifyFails, MovePointer, Undo, UndoTasks
      <4> QED
        BY <4>1 DEF QuoteInv, QuoteKept
    <3> QED
      BY <3>1, <3>2
  <2>5. CASE ReadParent(h) \/ SealConfirmed(h) \/ Activate(h)
    <3>1. act[h] \in MakeTasks
      BY <1>1, <2>5, TaskKind DEF ReadParent, SealConfirmed, Activate, At
    <3> QED
      BY <1>1, <1>3, <2>5, <3>1
         DEF ReadParent, SealConfirmed, Activate, QuoteInv, QuoteKept, MakeTasks
  <2>6. CASE Generate(h) \/ FetchPreview(h) \/ CheckBase(h) \/ StageFails(h) \/ Stage(h) \/ Save(h)
    <3>1. act[h] \in ReviewTasks
      BY <1>1, <2>6, TaskKind
         DEF Generate, FetchPreview, CheckBase, StageFails, Stage, Save, At
    <3>2. CASE Succeed(h) \/ Refuse(h)
      BY <1>3, <3>2
    <3>3. CASE ~ (Succeed(h) \/ Refuse(h))
      <4>1. /\ act'[h].pc \in {"generate", "next", "base", "stage", "save"}
            /\ \A g \in Handlers : g # h => act'[g] = act[g]
        <5>1. CASE Generate(h)
          BY <1>1, <3>1, <5>1, GenerateFiles
        <5>2. CASE FetchPreview(h)
          BY <1>1, <3>1, <5>2 DEF FetchPreview, ReviewTasks
        <5>3. CASE CheckBase(h)
          BY <1>1, <3>1, <3>3, <5>3 DEF CheckBase, Goto, ReviewTasks
        <5>4. CASE StageFails(h)
          BY <1>1, <3>1, <5>4 DEF StageFails, ReviewTasks
        <5>5. CASE Stage(h)
          BY <1>1, <3>1, <5>5 DEF Stage, ReviewTasks
        <5>6. CASE Save(h)
          BY <1>1, <3>1, <3>3, <5>6 DEF Save, Review, ReviewTasks
        <5> QED
          BY <2>6, <5>1, <5>2, <5>3, <5>4, <5>5, <5>6
      <4> QED
        BY <4>1 DEF QuoteInv, QuoteKept
    <3> QED
      BY <3>2, <3>3
  <2> QED
    BY <1>5, <2>1, <2>2, <2>3, <2>4, <2>5, <2>6 DEF Work
<1>6. ASSUME Restart PROVE QuoteKept'
  BY <1>6 DEF Restart, Idle, QuoteKept
<1>7. CASE UNCHANGED vars
  BY <1>1, <1>7 DEF vars, QuoteInv, QuoteKept
<1>8. ASSUME NEW h \in Handlers, Abort(h) PROVE QuoteKept'
  BY <1>3, <1>8 DEF Abort
<1> QED
  BY <1>1, <1>2, <1>5, <1>6, <1>7, <1>8 DEF Next, QuoteInv

LEMMA QuoteInit == Init => QuoteInv
  BY LineageInit DEF Init, QuoteInv, QuoteKept, Idle

\* Only the compare-and-swap takes a thread from swap to finish.
LEMMA SwapsIsSwap ==
    ASSUME TypeInv, [Next]_vars, NEW h \in Handlers, Swaps(h)
    PROVE  Swap(h)
<1>1. act \in [Handlers -> Tasks] /\ act[h].pc = "swap" /\ act'[h].pc = "finish"
  BY DEF Swaps, At, TypeInv, TypeOK
<1>2. act'[h] # act[h]
  BY <1>1
<1>3. ASSUME NEW g \in Handlers, act' = [act EXCEPT ![g] = act'[g]] PROVE g = h
  BY <1>1, <1>2, <1>3
<1>4. ASSUME NEW g \in Handlers, Arrive(g) PROVE FALSE
  <2>1. PICK task : Submit(g, task)
    BY <1>4, ArriveTask
  <2>2. g = h /\ act[g].pc = "idle"
    BY <1>1, <2>1 DEF Submit, At
  <2> QED
    BY <1>1, <2>2
<1>5. \A g \in Handlers : ~ Abort(g)
  BY <1>1 DEF Abort, Refuse, Idle
<1>6. ~ Restart
  BY <1>1 DEF Restart, Idle
<1>7. PICK g \in Handlers : Work(g)
  BY <1>2, <1>4, <1>5, <1>6 DEF Next, vars
<1>8. \A t : act' = [act EXCEPT ![g] = t] => g = h
  BY <1>1
<1>9. g = h
  <2>1. \E t : act' = [act EXCEPT ![g] = t]
    BY <1>1, <1>7
       DEF Work, Replay, FetchDecline, FetchAccept, Decline, RecordDecline, PreCheck,
           MarkCommitting, BuildCommit, BuildFails, Swap, SwapLost, Finish, MarkStale,
           MarkFailed, Settle, ReadHistory, PickTarget, VerifyFails, MovePointer, ReadParent,
           SealConfirmed, Activate, Generate, FetchPreview, CheckBase, StageFails, Stage,
           Save, Filed, Succeed, Refuse, Goto
  <2> QED
    BY <1>8, <2>1
<1>10. Work(h) /\ At(h, "swap")
  BY <1>1, <1>7, <1>9 DEF At
<1>11. Swap(h) \/ SwapLost(h)
  BY <1>10
     DEF Work, At, Replay, FetchDecline, FetchAccept, Decline, RecordDecline, PreCheck,
         MarkCommitting, BuildCommit, BuildFails, Finish, MarkStale, MarkFailed, Settle,
         ReadHistory, PickTarget, VerifyFails, MovePointer, ReadParent, SealConfirmed,
         Activate, Generate, FetchPreview, CheckBase, StageFails, Stage, Save
<1>12. ~ SwapLost(h)
  <2>1. act[h] \in DecideTasks
    BY <1>1, TaskKind
  <2> QED
    BY <1>1, <2>1 DEF SwapLost, Goto, DecideTasks
<1> QED
  BY <1>11, <1>12

\* What a swap installs, in terms of what its client quoted and expected.
LEMMA SwapInstalls ==
    ASSUME QuoteInv, [Next]_vars, NEW h \in Handlers, Swaps(h)
    PROVE  /\ act[h].hash.acceptable
           /\ active' = CommitOf(act[h].hash.rev.parent, act[h].hash.rev.content)
           /\ active = act[h].expected
           /\ active'.parent = act[h].row.base
<1>1. Swap(h) /\ act[h].pc = "swap"
  BY SwapsIsSwap DEF QuoteInv, LineageInv, Swaps, At
<1>2. /\ act[h].hash = act[h].row.preview
      /\ act[h].row.preview.acceptable
      /\ act[h].row.preview.rev = PreviewOf(act[h].row.base, act[h].proposal)
      /\ act[h].built = CommitOf(act[h].row.base, act[h].row.preview.rev.content)
  BY <1>1 DEF QuoteInv, QuoteKept, LineageInv, TypeInv, TaskReady, TaskSound, ReviewSound
<1>3. active = act[h].expected /\ active' = act[h].built
  BY <1>1 DEF Swap
<1>4. act[h].row.preview.rev.parent = act[h].row.base
  BY <1>2 DEF PreviewOf, Revision
<1> QED
  BY <1>2, <1>3, <1>4 DEF CommitOf, Revision

\* Whatever happened since, an accept activates the documents and the parent of
\* the preview its client quoted, and that preview had passed.
THEOREM AcceptCorrect == Spec => AcceptCommitsReviewed
<1>1. QuoteInv /\ [Next]_vars => [\A h \in Handlers : Swaps(h) =>
         LET reviewed == act[h].hash IN
         /\ reviewed.acceptable
         /\ active' = CommitOf(reviewed.rev.parent, reviewed.rev.content)]_vars
  BY SwapInstalls
<1> QED
  BY <1>1, QuoteInit, QuoteNext, PTL DEF Spec, AcceptCommitsReviewed

\* An accept that quotes the base it was reviewed on replaces that base.
THEOREM AcceptExtends == Spec => AcceptOnReviewedBaseExtends
<1>1. QuoteInv /\ [Next]_vars => [\A h \in Handlers :
         Swaps(h) /\ act[h].expected = act[h].row.base => active'.parent = active]_vars
  BY SwapInstalls
<1> QED
  BY <1>1, QuoteInit, QuoteNext, PTL DEF Spec, AcceptOnReviewedBaseExtends

-----------------------------------------------------------------------------
(* Who settles a proposal that is committing.                              *)

\* A preview's last write is never "committing".
SavesReviewed ==
    \A h \in Handlers : act[h].pc = "save" => act[h].row.state # "committing"

OwnInv == TypeInv /\ SavesReviewed /\ CommittingIsOwned

\* A thread on its way to settle p.
Settling(h, p) ==
    /\ act[h].pc \in {"build", "swap", "finish", "stale", "fail"}
    /\ act[h].proposal = p

\* A step that writes "committing" nowhere and keeps every settler but one that
\* has just written its proposal keeps every committing proposal owned.
LEMMA OwnStep ==
    ASSUME OwnInv, TypeInv', UNCHANGED faults,
           \A p \in Proposals :
              \/ table'[p].state # "committing"
              \/ \E h \in Handlers : Settling(h, p)'
              \/ table'[p] = table[p]
                 /\ \A h \in Handlers : Settling(h, p) => Settling(h, p)'
    PROVE  CommittingIsOwned'
  BY DEF OwnInv, CommittingIsOwned, SettlingOf, Settling

LEMMA OwnNext == OwnInv /\ [Next]_vars => OwnInv'
<1> SUFFICES ASSUME OwnInv, [Next]_vars PROVE OwnInv'
  OBVIOUS
<1>1. TypeInv' /\ TypeInv /\ act \in [Handlers -> Tasks] /\ table \in [Proposals -> Rows]
  BY TypeNext DEF OwnInv, TypeInv, TypeOK
<1>2. ASSUME NEW h \in Handlers, Arrive(h) PROVE OwnInv'
  <2>1. PICK task : Submit(h, task) /\ task.pc # "save"
    BY <1>2, ArriveTask
  <2>2. /\ UNCHANGED <<table, faults>> /\ act[h].pc = "idle" /\ act'[h] = task
        /\ \A g \in Handlers : g # h => act'[g] = act[g]
    BY <1>1, <2>1 DEF Submit, At
  <2>3. \A g \in Handlers, p \in Proposals : Settling(g, p) => Settling(g, p)'
    BY <2>2 DEF Settling
  <2>4. CommittingIsOwned'
    BY <1>1, <2>2, <2>3, OwnStep
  <2> QED
    BY <1>1, <2>1, <2>2, <2>4 DEF OwnInv, SavesReviewed
<1>3. ASSUME NEW h \in Handlers, UNCHANGED <<table, faults>>,
             \A g \in Handlers : g # h => act'[g] = act[g],
             act'[h].pc # "save",
             \A p \in Proposals : Settling(h, p) => Settling(h, p)'
      PROVE  OwnInv'
  <2>1. \A g \in Handlers, p \in Proposals : Settling(g, p) => Settling(g, p)'
    BY <1>3 DEF Settling
  <2>2. CommittingIsOwned'
    BY <1>1, <1>3, <2>1, OwnStep
  <2> QED
    BY <1>1, <1>3, <2>2 DEF OwnInv, SavesReviewed
<1>4. ASSUME NEW h \in Handlers,
             \/ Replay(h) \/ FetchDecline(h) \/ FetchAccept(h) \/ RecordDecline(h) \/ PreCheck(h)
             \/ BuildCommit(h) \/ BuildFails(h) \/ Swap(h) \/ SwapLost(h)
      PROVE  OwnInv'
  <2>1. act[h] \in DecideTasks
    BY <1>1, <1>4, TaskKind
       DEF Replay, FetchDecline, FetchAccept, RecordDecline, PreCheck, BuildCommit,
           BuildFails, Swap, SwapLost, At
  <2>2. UNCHANGED <<table, faults>>
    BY <1>4 DEF Replay, FetchDecline, FetchAccept, RecordDecline, PreCheck, BuildCommit,
                BuildFails, Swap, SwapLost, Database, Bounds
  <2>3. /\ act'[h].pc # "save"
        /\ \A g \in Handlers : g # h => act'[g] = act[g]
        /\ \A p \in Proposals : Settling(h, p) => Settling(h, p)'
    <3>1. CASE Replay(h) \/ FetchDecline(h) \/ FetchAccept(h) \/ RecordDecline(h) \/ PreCheck(h)
      BY <1>1, <2>1, <3>1
         DEF Replay, FetchDecline, FetchAccept, RecordDecline, PreCheck, At, Goto, Succeed,
             Refuse, Idle, Settling, DecideTasks
    <3>2. CASE BuildCommit(h) \/ BuildFails(h) \/ Swap(h) \/ SwapLost(h)
      BY <1>1, <2>1, <3>2
         DEF BuildCommit, BuildFails, Swap, SwapLost, At, Goto, Settling, DecideTasks
    <3> QED
      BY <1>4, <3>1, <3>2
  <2> QED
    BY <1>3, <2>2, <2>3
<1>5. ASSUME NEW h \in Handlers, MarkCommitting(h) PROVE OwnInv'
  <2>1. act[h] \in DecideTasks
    BY <1>1, <1>5, TaskKind DEF MarkCommitting, At
  <2>2. /\ act' = [act EXCEPT ![h] = [act[h] EXCEPT !.pc = "build"]]
        /\ UNCHANGED faults /\ act[h].pc = "committing"
        /\ \A p \in Proposals : p # act[h].proposal => table'[p] = table[p]
    BY <1>1, <1>5 DEF MarkCommitting, At, Goto, Put, Bounds
  <2>3. act'[h].pc = "build" /\ act'[h].proposal = act[h].proposal
    BY <1>1, <2>1, <2>2 DEF DecideTasks
  <2>4. \A g \in Handlers, p \in Proposals : Settling(g, p) => Settling(g, p)'
    BY <1>1, <2>2 DEF Settling
  <2>5. \A p \in Proposals : p = act[h].proposal => \E g \in Handlers : Settling(g, p)'
    BY <2>3 DEF Settling
  <2>6. CommittingIsOwned'
    BY <1>1, <2>2, <2>4, <2>5, OwnStep
  <2> QED
    BY <1>1, <2>1, <2>2, <2>6 DEF OwnInv, SavesReviewed, DecideTasks
<1>6. ASSUME NEW h \in Handlers,
             Decline(h) \/ Finish(h) \/ MarkStale(h) \/ MarkFailed(h) \/ Save(h)
      PROVE  OwnInv'
  <2>1. /\ act[h].row \in Rows /\ act[h].proposal \in Proposals
        /\ Save(h) \/ act[h] \in DecideTasks
    BY <1>1, <1>6, TaskKind
       DEF Decline, Finish, MarkStale, MarkFailed, Settle, Save, At, DecideTasks, ReviewTasks,
           TypeInv, TaskReady
  <2>2. PICK row : Put(act[h].proposal, row) /\ row.state # "committing"
    <3>1. CASE Save(h)
      BY <3>1 DEF Save, At, OwnInv, SavesReviewed
    <3>2. CASE ~ Save(h)
      <4>1. PICK state : state # "committing" /\ Put(act[h].proposal, InState(act[h].row, state))
        BY <1>6, <3>2 DEF Decline, Finish, MarkStale, MarkFailed, Settle
      <4>2. InState(act[h].row, state).state = state
        BY <2>1 DEF InState, Rows
      <4> QED
        BY <4>1, <4>2
    <3> QED
      BY <3>1, <3>2
  <2>3. /\ UNCHANGED faults /\ act'[h].pc # "save"
        /\ \A g \in Handlers : g # h => act'[g] = act[g]
    <3>1. CASE Save(h)
      BY <1>1, <3>1 DEF Save, Bounds, Succeed, Idle, Review
    <3>2. CASE Decline(h)
      BY <1>1, <2>1, <3>2 DEF Decline, Save, At, Bounds, Goto, DecideTasks
    <3>3. CASE Finish(h) \/ MarkStale(h) \/ MarkFailed(h)
      BY <1>1, <3>3 DEF Finish, MarkStale, MarkFailed, Settle, Bounds, Succeed, Refuse, Idle
    <3> QED
      BY <1>6, <3>1, <3>2, <3>3
  <2>4. ASSUME NEW p \in Proposals, p # act[h].proposal
        PROVE  /\ table'[p] = table[p]
               /\ \A g \in Handlers : Settling(g, p) => Settling(g, p)'
    BY <1>1, <2>2, <2>3, <2>4 DEF Put, Settling
  <2>5. table'[act[h].proposal].state # "committing"
    BY <1>1, <2>1, <2>2 DEF Put
  <2>6. CommittingIsOwned'
    BY <1>1, <2>3, <2>4, <2>5, OwnStep
  <2> QED
    BY <1>1, <2>3, <2>6 DEF OwnInv, SavesReviewed
<1>7. ASSUME NEW h \in Handlers,
             \/ ReadHistory(h) \/ PickTarget(h) \/ VerifyFails(h) \/ MovePointer(h)
             \/ ReadParent(h) \/ SealConfirmed(h) \/ Activate(h) \/ FetchPreview(h)
      PROVE  OwnInv'
  <2>1. act[h] \in UndoTasks \cup MakeTasks \cup ReviewTasks
    BY <1>1, <1>7, TaskKind
       DEF ReadHistory, PickTarget, VerifyFails, MovePointer, ReadParent, SealConfirmed,
           Activate, FetchPreview, At
  <2>2. UNCHANGED <<table, faults>> /\ \A p \in Proposals : ~ Settling(h, p)
    BY <1>7 DEF ReadHistory, PickTarget, VerifyFails, MovePointer, ReadParent, SealConfirmed,
                Activate, FetchPreview, At, Settling, Database, Bounds
  <2>3. act'[h].pc # "save" /\ \A g \in Handlers : g # h => act'[g] = act[g]
    <3>1. CASE ReadHistory(h) \/ PickTarget(h) \/ VerifyFails(h) \/ MovePointer(h)
      BY <1>1, <2>1, <3>1
         DEF ReadHistory, PickTarget, VerifyFails, MovePointer, Succeed, Refuse, Idle, Undo,
             UndoTasks, MakeTasks, ReviewTasks
    <3>2. CASE ReadParent(h) \/ SealConfirmed(h) \/ Activate(h) \/ FetchPreview(h)
      <4>1. CASE FetchPreview(h)
        <5>1. act[h] \in ReviewTasks
          BY <1>1, <4>1, TaskKind DEF FetchPreview, At
        <5> QED
          BY <1>1, <4>1, <5>1 DEF FetchPreview, ReviewTasks
      <4>2. CASE ReadParent(h) \/ SealConfirmed(h) \/ Activate(h)
        <5>1. act[h] \in MakeTasks
          BY <1>1, <4>2, TaskKind DEF ReadParent, SealConfirmed, Activate, At
        <5> QED
          BY <1>1, <4>2, <5>1 DEF ReadParent, SealConfirmed, Activate, Succeed, Idle, MakeTasks
      <4> QED
        BY <3>2, <4>1, <4>2
    <3> QED
      BY <1>7, <3>1, <3>2
  <2> QED
    BY <1>3, <2>2, <2>3
<1>8. ASSUME NEW h \in Handlers, Generate(h) PROVE OwnInv'
  <2>1. act[h] \in ReviewTasks
    BY <1>1, <1>8, TaskKind DEF Generate, At
  <2>2. PICK q \in Proposals, task \in ReviewTasks :
          /\ Put(q, Row("proposed", act[h].base, NoPreview))
          /\ act' = [act EXCEPT ![h] = task] /\ task.pc \in {"generate", "next"}
    BY <1>1, <1>8, <2>1, GenerateFiles
  <2>3. UNCHANGED faults /\ act[h].pc = "generate"
    BY <1>8 DEF Generate, At, Bounds
  <2>4. \A g \in Handlers, p \in Proposals : Settling(g, p) => Settling(g, p)'
    BY <1>1, <2>2, <2>3 DEF Settling
  <2>5. \A p \in Proposals : table'[p] = table[p] \/ table'[p].state # "committing"
    BY <1>1, <2>2 DEF Put, Row
  <2>6. CommittingIsOwned'
    BY <1>1, <2>3, <2>4, <2>5, OwnStep
  <2> QED
    BY <1>1, <2>2, <2>6 DEF OwnInv, SavesReviewed
<1>9. ASSUME NEW h \in Handlers, CheckBase(h) \/ StageFails(h) \/ Stage(h) PROVE OwnInv'
  <2>1. act[h] \in ReviewTasks
    BY <1>1, <1>9, TaskKind DEF CheckBase, StageFails, Stage, At
  <2>2. /\ UNCHANGED <<table, faults>> /\ \A p \in Proposals : ~ Settling(h, p)
        /\ \A g \in Handlers : g # h => act'[g] = act[g]
    BY <1>1, <1>9
       DEF CheckBase, StageFails, Stage, At, Goto, Refuse, Settling, Database, Bounds
  <2>3. act'[h].pc = "save" => act'[h].row.state # "committing"
    <3>1. CASE CheckBase(h)
      BY <1>1, <2>1, <3>1
         DEF CheckBase, At, Goto, Refuse, Idle, InState, ReviewTasks, Rows
    <3>2. CASE StageFails(h)
      BY <1>1, <2>1, <3>2 DEF StageFails, Row, ReviewTasks
    <3>3. CASE Stage(h)
      BY <1>1, <2>1, <3>3 DEF Stage, Row, ReviewTasks
    <3> QED
      BY <1>9, <3>1, <3>2, <3>3
  <2>4. \A g \in Handlers, p \in Proposals : Settling(g, p) => Settling(g, p)'
    BY <2>2 DEF Settling
  <2>5. CommittingIsOwned'
    BY <1>1, <2>2, <2>4, OwnStep
  <2> QED
    BY <1>1, <2>2, <2>3, <2>5 DEF OwnInv, SavesReviewed
<1>10. ASSUME Restart \/ \E h \in Handlers : Abort(h) PROVE OwnInv'
  <2>1. faults' = faults + 1 /\ faults \in Nat
    <3>1. faults' = faults + 1
      BY <1>10 DEF Restart, Abort
    <3>2. faults \in Nat
      BY <1>1, BoundsAssumption DEF TypeInv, TypeOK
    <3> QED
      BY <3>1, <3>2
  <2>2. faults' # 0
    BY <2>1
  <2>3. \A g \in Handlers : act'[g] = act[g] \/ act'[g].pc = "idle"
    BY <1>1, <1>10 DEF Restart, Abort, Refuse, Idle
  <2> QED
    BY <1>1, <2>2, <2>3 DEF OwnInv, SavesReviewed, CommittingIsOwned
<1>11. CASE UNCHANGED vars
  BY <1>1, <1>11 DEF vars, OwnInv, SavesReviewed, CommittingIsOwned, SettlingOf
<1>12. ASSUME NEW h \in Handlers, Work(h) PROVE OwnInv'
  BY <1>4, <1>5, <1>6, <1>7, <1>8, <1>9, <1>12 DEF Work
<1> QED
  BY <1>2, <1>10, <1>11, <1>12 DEF Next

LEMMA OwnInit == Init => OwnInv
<1> SUFFICES ASSUME Init PROVE OwnInv
  OBVIOUS
<1>1. \A p \in Proposals : table[p].state # "committing"
  BY DEF Init, Row
<1> QED
  BY <1>1, TypeInit DEF Init, OwnInv, SavesReviewed, CommittingIsOwned, Idle

\* Short of a fault, a proposal is stored as committing only while a thread is
\* still on its way to store it as committed, stale or failed.
THEOREM CommittingOwned == Spec => []CommittingIsOwned
<1>1. OwnInv => CommittingIsOwned
  BY DEF OwnInv
<1> QED
  BY <1>1, OwnInit, OwnNext, PTL DEF Spec

-----------------------------------------------------------------------------
(* The refinement of RevisionLedger.                                      *)

\* The tables a request's reads and its own proposals' rows are not part of.
Kept == UNCHANGED <<revs, active, timeline, decisions>>

LEMMA LedgerInit == Init => Ledger!Init
<1> SUFFICES ASSUME Init PROVE Ledger!Init
  OBVIOUS
<1>1. DOMAIN timeline = 1..2 /\ timeline[1] = Draft /\ timeline[2] = Confirmed
  BY DEF Init
<1>2. active = Confirmed /\ Draft \in revs /\ Confirmed \in revs
  BY DEF Init
<1>3. decisions = [k \in Keys |-> NoDecision]
  BY DEF Init
<1>4. Ledger!InTimeline(active)
  BY <1>1, <1>2 DEF Ledger!InTimeline
<1> QED
  BY <1>1, <1>2, <1>3, <1>4 DEF Ledger!Init

\* The steps that seal a revision, or touch nothing the ledger keeps.
LEMMA LedgerQuiet ==
    ASSUME NEW h \in Handlers,
           \/ Arrive(h) \/ Abort(h) \/ Replay(h) \/ FetchDecline(h) \/ FetchAccept(h)
           \/ Decline(h) \/ PreCheck(h) \/ MarkCommitting(h) \/ BuildFails(h) \/ SwapLost(h)
           \/ Finish(h) \/ MarkStale(h) \/ MarkFailed(h) \/ ReadHistory(h) \/ PickTarget(h)
           \/ VerifyFails(h) \/ ReadParent(h) \/ Generate(h) \/ FetchPreview(h)
           \/ CheckBase(h) \/ StageFails(h) \/ Save(h)
           \/ BuildCommit(h) \/ SealConfirmed(h) \/ Stage(h)
    PROVE  Kept \/ Ledger!Seal
<1>1. CASE Arrive(h)
  BY <1>1, ArriveTask DEF Submit, Kept
<1>2. CASE BuildCommit(h) \/ SealConfirmed(h) \/ Stage(h)
  BY <1>2 DEF BuildCommit, SealConfirmed, Stage, Ledger!Seal
<1> QED
  BY <1>1, <1>2
     DEF Kept, Database, Abort, Replay, FetchDecline, FetchAccept, Decline, PreCheck,
         MarkCommitting, BuildFails, SwapLost, Finish, MarkStale, MarkFailed, Settle,
         ReadHistory, PickTarget, VerifyFails, ReadParent, Generate, FetchPreview,
         CheckBase, StageFails, Save

\* Moving the pointer to a revision and stamping it is the ledger's switch.
LEMMA LedgerSwitch ==
    ASSUME NEW r \in revs, r.stage # "staged_preview", active' = r, Stamp(r), UNCHANGED revs
    PROVE  Ledger!Switch(r)
  BY DEF Ledger!Switch, Ledger!InTimeline, Stamp, Activated

LEMMA LedgerRecordDecline ==
    ASSUME LineageInv, NEW h \in Handlers, RecordDecline(h)
    PROVE  Kept \/ Ledger!Decline
<1>1. decisions \in [Keys -> Outcomes] /\ act[h] \in DecideTasks
  BY TaskKind DEF RecordDecline, At, LineageInv, TypeInv, TypeOK
<1>2. PICK k \in Keys : k = act[h].key
  BY <1>1 DEF DecideTasks
<1>3. decisions' = [decisions EXCEPT ![k] =
                      IF decisions[k] = NoDecision THEN Declined(act[h].proposal) ELSE decisions[k]]
  BY <1>2 DEF RecordDecline, Record
<1>4. UNCHANGED <<revs, active, timeline>>
  BY DEF RecordDecline
<1>5. CASE decisions[k] = NoDecision
  <2>1. decisions'[k].decision = "decline"
    BY <1>1, <1>3, <1>5 DEF Declined
  <2>2. \A other \in Keys \ {k} : decisions'[other] = decisions[other]
    BY <1>1, <1>3
  <2> QED
    BY <1>4, <1>5, <2>1, <2>2 DEF Ledger!Decline
<1>6. CASE decisions[k] # NoDecision
  BY <1>1, <1>3, <1>4, <1>6 DEF Kept
<1> QED
  BY <1>5, <1>6

LEMMA LedgerSwap ==
    ASSUME LineageInv, NEW h \in Handlers, Swap(h)
    PROVE  Ledger!Commit
<1>1. decisions \in [Keys -> Outcomes] /\ act[h] \in DecideTasks
  BY TaskKind DEF Swap, At, LineageInv, TypeInv, TypeOK
<1>2. PICK k \in Keys, p \in Proposals, r \in revs \cup {NoRevision} :
          k = act[h].key /\ p = act[h].proposal /\ r = act[h].built
  BY <1>1 DEF DecideTasks
<1>3. r \in revs /\ r.stage = "committed"
  <2>1. act[h].built \in revs
    BY DEF Swap, At, LineageInv, TypeInv, TaskReady
  <2>2. act[h].built = CommitOf(act[h].row.base, act[h].row.preview.rev.content)
    BY DEF Swap, At, LineageInv, TaskSound
  <2> QED
    BY <1>2, <2>1, <2>2 DEF CommitOf, Revision
<1>4. Ledger!Switch(r)
  BY <1>2, <1>3, LedgerSwitch DEF Swap
<1>5. decisions' = [decisions EXCEPT ![k] =
                      IF decisions[k] = NoDecision THEN Accepted(p, r) ELSE decisions[k]]
  BY <1>2 DEF Swap, Record
<1>6. \A other \in Keys \ {k} : decisions'[other] = decisions[other]
  BY <1>1, <1>5
<1>7. IF decisions[k] = NoDecision
      THEN decisions'[k].decision = "accept" /\ decisions'[k].committed = r
      ELSE decisions'[k] = decisions[k]
  BY <1>1, <1>5 DEF Accepted
<1> QED
  BY <1>3, <1>4, <1>6, <1>7 DEF Ledger!Commit

LEMMA LedgerMove ==
    ASSUME LineageInv, NEW h \in Handlers, MovePointer(h) \/ Activate(h)
    PROVE  Kept \/ Ledger!Activate
<1>0. UNCHANGED <<revs, decisions>>
  BY DEF MovePointer, Activate
<1>1. CASE MovePointer(h)
  <2>1. PICK r : r = act[h].target
    OBVIOUS
  <2>2. r \in revs /\ Activated(r) /\ Stamp(r)
    BY <1>1, <2>1 DEF MovePointer, At, LineageInv, TypeInv, TaskReady, TaskSound
  <2>3. r.stage # "staged_preview"
    BY <2>2 DEF Activated, LineageInv, TimelineIsLineage
  <2>4. CASE active' = r
    BY <1>0, <2>2, <2>3, <2>4, LedgerSwitch DEF Ledger!Activate
  <2>5. CASE active' = active
    BY <1>0, <2>2, <2>5 DEF Stamp, Kept
  <2> QED
    BY <1>1, <2>1, <2>4, <2>5 DEF MovePointer
<1>2. CASE Activate(h)
  <2>1. PICK r : r = act[h].built
    OBVIOUS
  <2>2. r \in revs /\ Placeable(r) /\ Stamp(r) /\ active' = r
    BY <1>2, <2>1 DEF Activate, At, LineageInv, TypeInv, TaskReady, TaskSound
  <2> QED
    BY <1>0, <2>2, LedgerSwitch DEF Placeable, Ledger!Activate
<1> QED
  BY <1>1, <1>2

LEMMA LedgerStep == LineageInv /\ [Next]_vars => [Ledger!Next]_Ledger!ledger
<1> SUFFICES ASSUME LineageInv, [Next]_vars PROVE Kept \/ Ledger!Next
  BY DEF Kept, Ledger!ledger
<1>1. CASE UNCHANGED vars
  BY <1>1 DEF vars, Kept
<1>2. CASE Restart
  BY <1>2 DEF Restart, Database, Kept
<1>3. ASSUME NEW h \in Handlers, Arrive(h) \/ Work(h) \/ Abort(h)
      PROVE  Kept \/ Ledger!Next
  BY <1>3, LedgerQuiet, LedgerRecordDecline, LedgerSwap, LedgerMove DEF Work, Ledger!Next
<1> QED
  BY <1>1, <1>2, <1>3 DEF Next

\* The whole decision path keeps the ledger's promises: only a sealed revision
\* that is no preview becomes active, the timeline only grows, a stored decision
\* is never rewritten, and an acceptance is stored as its revision is activated.
THEOREM ImplementsLedger == Spec => KeepsLedger
<1>1. Spec => Init /\ [][Next]_vars /\ []LineageInv
  BY LineageHolds DEF Spec
<1> QED
  BY <1>1, LedgerInit, LedgerStep, PTL DEF KeepsLedger, Ledger!Spec

=============================================================================
