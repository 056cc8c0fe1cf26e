-------------------------- MODULE WorkbenchSession --------------------------
(***************************************************************************)
(* One browser page (WorkbenchContext.tsx) against the server: what the    *)
(* page shows, the start-up flow that loads it, and the flows that clicks  *)
(* start.  A flow is a chain of calls; the server works on a call at one   *)
(* point and the page handles the answer at a later one.  Only clicks set  *)
(* busy, which is what disables the buttons.                               *)
(*                                                                         *)
(* A revision is the sequence of the changes that made it, as its id is a  *)
(* hash of its parent and documents; a proposal is the revision it was     *)
(* made for.  A part list or an evaluation is named by its revision.       *)
(***************************************************************************)
EXTENDS Naturals, Sequences

CONSTANTS
    NoRev,       \* null
    MaxChanges,  \* bound: changes of one revision
    MaxClicks,   \* bound: clicks
    MaxForeign,  \* bound: moves of the pointer by other clients
    MaxFails     \* bound: calls that fail

ASSUME SessionBounds == {MaxChanges, MaxClicks, MaxForeign, MaxFails} \subseteq Nat

VARIABLES
    timeline,  \* server: the revisions the design was in, in order
    active,    \* server: the pointer
    decided,   \* server: idempotency keys that were decided
    view,      \* the page's state
    flow,      \* the calls under way
    overlapped, clicks, foreign, fails

server  == <<timeline, active, decided>>
vars    == <<timeline, active, decided, view, flow, overlapped, clicks, foreign, fails>>

Flows == {"startup", "click"}

NoFlow == [call |-> "none", served |-> FALSE, expected |-> NoRev, rev |-> NoRev, base |-> NoRev, count |-> 0]

NoRecs == [base |-> NoRev, ready |-> FALSE]

\* The page reads and shows these.
EmptyView == [design |-> FALSE, rev |-> NoRev, parts |-> NoRev, evaluation |-> NoRev,
              recs |-> NoRecs, history |-> 0]

Busy == flow["click"].call # "none"

Position == CHOOSE i \in DOMAIN timeline : timeline[i] = active

\* The pointer moves; a revision joins the timeline the first time.
MoveTo(r) ==
    /\ active' = r
    /\ timeline' = IF \E i \in DOMAIN timeline : timeline[i] = r THEN timeline
                   ELSE Append(timeline, r)

Served(f, answer) == flow' = [flow EXCEPT ![f] = [answer EXCEPT !.served = TRUE]]
Then(f, call, rev) == flow' = [flow EXCEPT ![f] = [NoFlow EXCEPT !.call = call, !.rev = rev]]
Ends(f)            == flow' = [flow EXCEPT ![f] = NoFlow]

Waits(f, call)   == flow[f].call = call /\ ~flow[f].served
Answers(f, call) == flow[f].call = call /\ flow[f].served

Page      == <<view, overlapped, clicks, foreign, fails>>
Counters  == <<overlapped, clicks, foreign, fails>>

-----------------------------------------------------------------------------
(* The start-up effect and loadRevision.                                   *)

ServeList(f) ==
    /\ Waits(f, "list")
    /\ Served(f, [flow[f] EXCEPT !.rev = active])
    /\ UNCHANGED <<server, Page>>

\* The first design with an active revision is opened.
OpenDesign(f) ==
    /\ Answers(f, "list")
    /\ IF flow[f].rev = NoRev
       THEN Ends(f) /\ UNCHANGED view
       ELSE Then(f, "history", NoRev) /\ view' = [view EXCEPT !.design = TRUE]
    /\ UNCHANGED <<server, Counters>>

\* The pointer and the timeline are two reads of the endpoint.
ReadActive(f) ==
    /\ Waits(f, "history")
    /\ flow' = [flow EXCEPT ![f] = [@ EXCEPT !.call = "timeline", !.rev = active]]
    /\ UNCHANGED <<server, Page>>

ServeHistory(f) ==
    /\ Waits(f, "timeline")
    /\ Served(f, [flow[f] EXCEPT !.call = "history", !.count = Len(timeline)])
    /\ UNCHANGED <<server, Page>>

ShowHistory(f) ==
    /\ Answers(f, "history")
    /\ view' = [view EXCEPT !.rev = flow[f].rev, !.history = flow[f].count]
    /\ Then(f, "parts", flow[f].rev)
    /\ UNCHANGED <<server, Counters>>

\* A sealed revision's parts do not depend on when they are read.
ShowParts(f) ==
    /\ Waits(f, "parts")
    /\ view' = [view EXCEPT !.parts = flow[f].rev]
    /\ Then(f, "evaluate", flow[f].rev)
    /\ UNCHANGED <<server, Counters>>

\* (Mutant: the proposals of the revision before stay on the page.)
ShowEvaluationOnly(f) ==
    /\ Waits(f, "evaluate")
    /\ \E result \in {flow[f].rev, NoRev} : view' = [view EXCEPT !.evaluation = result]
    /\ Ends(f)
    /\ UNCHANGED <<server, Counters>>

\* The evaluation, or none when the answer is a result of the design; the
\* proposals are cleared in the same turn.
ShowEvaluation(f) ==
    /\ Waits(f, "evaluate")
    /\ \E result \in {flow[f].rev, NoRev} :
         view' = [view EXCEPT !.evaluation = result, !.recs = NoRecs]
    /\ Ends(f)
    /\ UNCHANGED <<server, Counters>>

-----------------------------------------------------------------------------
(* Clicks: run(label, work), from buttons that busy disables.              *)

Click(call, base) ==
    /\ ~Busy /\ clicks < MaxClicks
    /\ clicks' = clicks + 1
    /\ overlapped' = (overlapped \/ flow["startup"].call # "none")
    /\ flow' = [flow EXCEPT !["click"] =
                  [NoFlow EXCEPT !.call = call, !.expected = view.rev, !.base = base]]
    /\ UNCHANGED <<server, view, foreign, fails>>

ClickImport    == ~view.design /\ Click("import", NoRev)
ClickConfirm   == view.parts # NoRev /\ Click("confirm", NoRev)
ClickUndo      == view.history >= 2 /\ Click("undo", NoRev)
ClickRecommend == view.rev # NoRev /\ Click("recommend", NoRev)
ClickDecline   == view.recs.base # NoRev /\ Click("decline", view.recs.base)
ClickAccept    == view.recs.ready /\ Click("accept", view.recs.base)

Reload == Then("click", "history", NoRev)

\* The import's job seals and activates the fixture; the page polls it to its
\* end, lists the designs and opens the first.
ServeImport ==
    /\ Waits("click", "import")
    /\ MoveTo(<< >>)
    /\ Then("click", "list", NoRev)
    /\ UNCHANGED <<decided, Page>>

\* confirm does not say which revision it was clicked on.
ServeConfirm ==
    /\ Waits("click", "confirm")
    /\ Len(active) < MaxChanges
    /\ MoveTo(Append(active, "confirm"))
    /\ Reload
    /\ UNCHANGED <<decided, Page>>

\* (Mutant: the answer is taken for the new state and nothing is reloaded.)
ServeUndoAlone ==
    /\ Waits("click", "undo")
    /\ IF Position = 1 THEN UNCHANGED server
       ELSE MoveTo(timeline[Position - 1]) /\ UNCHANGED decided
    /\ Ends("click")
    /\ UNCHANGED Page

ServeUndo ==
    /\ Waits("click", "undo")
    /\ IF Position = 1
       THEN Ends("click") /\ UNCHANGED server
       ELSE MoveTo(timeline[Position - 1]) /\ Reload /\ UNCHANGED decided
    /\ UNCHANGED Page

\* Proposals are previewed while their base is active, and only then acceptable.
ServeRecommend ==
    /\ Waits("click", "recommend")
    /\ Served("click", [flow["click"] EXCEPT !.rev = flow["click"].expected,
                                             !.count = IF active = flow["click"].expected THEN 1 ELSE 0])
    /\ UNCHANGED <<server, Page>>

ShowRecommendations ==
    /\ Answers("click", "recommend")
    /\ view' = [view EXCEPT !.recs = [base |-> flow["click"].rev, ready |-> flow["click"].count = 1]]
    /\ Ends("click")
    /\ UNCHANGED <<server, Counters>>

\* idempotency_key: the proposal, the decision and the displayed revision.
Key(call) == <<call, flow["click"].base, flow["click"].expected>>

ServeDecline ==
    /\ Waits("click", "decline")
    /\ decided' = decided \cup {Key("decline")}
    /\ Reload
    /\ UNCHANGED <<timeline, active, Page>>

\* (Mutant: the accept does not say which revision it expects.)
ServeAcceptAny ==
    /\ Waits("click", "accept")
    /\ Len(flow["click"].base) < MaxChanges
    /\ IF Key("accept") \in decided
       THEN Reload /\ UNCHANGED server
       ELSE /\ MoveTo(Append(flow["click"].base, "accept"))
            /\ decided' = decided \cup {Key("accept")}
            /\ Reload
    /\ UNCHANGED Page

\* A key that was decided is answered from the record; otherwise the displayed
\* revision has to be the active one.
ServeAccept ==
    /\ Waits("click", "accept")
    /\ Len(flow["click"].base) < MaxChanges
    /\ IF Key("accept") \in decided
       THEN Reload /\ UNCHANGED server
       ELSE IF active = flow["click"].expected
            THEN /\ MoveTo(Append(flow["click"].base, "accept"))
                 /\ decided' = decided \cup {Key("accept")}
                 /\ Reload
            ELSE Ends("click") /\ UNCHANGED server
    /\ UNCHANGED Page

\* A call fails, before or after the server worked on it: run shows the error,
\* and what the flow has already shown stays.
CallFails(f) ==
    /\ flow[f].call # "none" /\ fails < MaxFails
    /\ fails' = fails + 1
    /\ Ends(f)
    /\ UNCHANGED <<server, view, overlapped, clicks, foreign>>

-----------------------------------------------------------------------------

\* Another client accepts or undoes.
ForeignMove ==
    /\ active # NoRev /\ foreign < MaxForeign
    /\ foreign' = foreign + 1
    /\ \/ Len(active) < MaxChanges /\ MoveTo(Append(active, "foreign"))
       \/ Position > 1 /\ MoveTo(timeline[Position - 1])
    /\ UNCHANGED <<decided, view, flow, overlapped, clicks, fails>>

\* A page opens on a workbench without a design, or with one and its history.
Init ==
    /\ \/ active = NoRev /\ timeline = << >>
       \/ active = << >> /\ timeline = << << >> >>
       \/ active = <<"accept">> /\ timeline = << << >>, <<"accept">> >>
    /\ decided = {}
    /\ view = EmptyView
    /\ flow = [f \in Flows |-> IF f = "startup" THEN [NoFlow EXCEPT !.call = "list"] ELSE NoFlow]
    /\ overlapped = FALSE /\ clicks = 0 /\ foreign = 0 /\ fails = 0

FlowStep(f) ==
    \/ ServeList(f) \/ OpenDesign(f) \/ ReadActive(f) \/ ServeHistory(f) \/ ShowHistory(f)
    \/ ShowParts(f) \/ ShowEvaluation(f)

ClickStep ==
    \/ ServeImport \/ ServeConfirm \/ ServeUndo \/ ServeRecommend
    \/ ShowRecommendations \/ ServeDecline \/ ServeAccept

Next ==
    \/ \E f \in Flows : FlowStep(f) \/ CallFails(f)
    \/ ClickImport \/ ClickConfirm \/ ClickUndo \/ ClickRecommend \/ ClickDecline \/ ClickAccept
    \/ ClickStep
    \/ ForeignMove

Spec == Init /\ [][Next]_vars

-----------------------------------------------------------------------------
(* Properties.                                                             *)

Settled == view.design /\ \A f \in Flows : flow[f].call = "none"

WholeView ==
    /\ view.parts = view.rev
    /\ view.evaluation \in {view.rev, NoRev}
    /\ view.recs.base \in {view.rev, NoRev}

\* The page never settles on a mixture: its parts, numbers and proposals are of
\* the revision it names, if no call failed and the start-up load was done when
\* the first button was pressed (WorkbenchContext.tsx loadRevision).
SettledViewIsWhole == Settled /\ fails = 0 /\ ~overlapped => WholeView

\* With no other client, a settled page shows the active revision: every click
\* that moves the pointer reloads what it moved.
SettledViewIsCurrent == Settled /\ fails = 0 /\ ~overlapped /\ foreign = 0 => view.rev = active

\* What is accepted is what was displayed: an accept that moves the pointer makes
\* the child of the very revision that the page showed when it was clicked, with
\* proposals, expected revision and pointer all naming it.
AcceptExtendsShown ==
    [][ ServeAccept /\ active' # active /\ fails = 0 /\ ~overlapped =>
            /\ active = flow["click"].expected
            /\ active' = Append(active, "accept") ]_vars

=============================================================================
