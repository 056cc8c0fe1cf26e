----------------------- MODULE WorkbenchSessionProofs -----------------------
(***************************************************************************)
(* One page against the server, for any number of changes, clicks, moves   *)
(* by other clients and failed calls.  What revisions are plays no part:   *)
(* only the fields that the page and its calls keep.  The last section is  *)
(* about the page's stream of events.                                      *)
(***************************************************************************)
EXTENDS WorkbenchSession, EventStream, Integers, TLAPS

-----------------------------------------------------------------------------
(* The inductive invariant.                                                *)

FlowFields == {"call", "served", "expected", "rev", "base", "count"}
ViewFields == {"design", "rev", "parts", "evaluation", "recs", "history"}

Shape ==
    /\ DOMAIN view = ViewFields
    /\ DOMAIN flow = Flows
    /\ \A f \in Flows : DOMAIN flow[f] = FlowFields
    /\ {foreign, fails} \subseteq Nat

Loading    == {"parts", "evaluate"}
Reading    == {"list", "history", "timeline"} \cup Loading
ClickCalls == {"import", "confirm", "undo", "recommend", "decline", "accept"}

\* The properties' premise: no call failed, and the start-up load was done before
\* the first click.
Calm == fails = 0 /\ ~overlapped

\* What the page shows while x is the one flow under way (or there is none).  The
\* page is a mixture only from history's answer to the evaluation's, and then the
\* calls carry the revision that it will be of.
ShownDuring(x) ==
    /\ x.call \notin Loading => WholeView /\ (view.recs.ready => view.recs.base = view.rev)
    /\ x.call \in Loading => view.rev = x.rev
    /\ x.call = "evaluate" => view.parts = x.rev
    /\ x.call \in {"list", "import"} => ~view.design
    /\ x.call \in ClickCalls => x.expected = view.rev
    /\ x.call = "recommend" /\ x.served => x.rev = x.expected
    /\ x.call = "accept" => x.base = x.expected

\* What the server's pointer is then, when nobody else moves it.
ActiveDuring(x) ==
    /\ view.design /\ x.call \notin Reading => view.rev = active
    /\ x.call \in Loading => x.rev = active
    /\ x.call = "timeline" \/ (x.call = "history" /\ x.served) => x.rev = active

FlowInv(x) == ShownDuring(x) /\ (foreign = 0 => ActiveDuring(x))

CalmInv ==
    /\ flow["startup"].call # "none" => flow["click"].call = "none"
    /\ \A f, g \in Flows : f # g /\ flow[g].call = "none" => FlowInv(flow[f])

SessionInv ==
    /\ Shape
    /\ flow["startup"].call \notin ClickCalls
    /\ Calm => CalmInv

-----------------------------------------------------------------------------
(* The flows.                                                              *)

LEMMA InitSessionInv == Init => SessionInv
<1> SUFFICES ASSUME Init PROVE SessionInv
  OBVIOUS
<1>1. /\ DOMAIN flow = Flows
      /\ flow["startup"] = [NoFlow EXCEPT !.call = "list"] /\ flow["click"] = NoFlow
  BY DEF Init, Flows
<1>2. /\ flow["startup"].call = "list" /\ flow["click"].call = "none"
      /\ \A f \in Flows : DOMAIN flow[f] = FlowFields
  BY <1>1 DEF NoFlow, FlowFields, Flows
<1>3. Shape
  BY <1>1, <1>2 DEF Init, Shape, EmptyView, ViewFields
<1>4. /\ WholeView /\ view.recs.base = view.rev
  BY DEF Init, EmptyView, WholeView, NoRecs
<1>5. view.design = FALSE
  BY DEF Init, EmptyView
<1>6. FlowInv(flow["startup"])
  BY <1>2, <1>4, <1>5 DEF FlowInv, ShownDuring, ActiveDuring, Loading, Reading, ClickCalls
<1>7. CalmInv
  BY <1>2, <1>6 DEF CalmInv, Flows
<1> QED
  BY <1>2, <1>3, <1>7 DEF SessionInv, ClickCalls

\* The flow that is under way goes on, or ends.
LEMMA FlowTurn ==
    ASSUME SessionInv, NEW f \in Flows, NEW now, flow[f].call # "none",
           flow' = [flow EXCEPT ![f] = now], DOMAIN now = FlowFields, DOMAIN view' = ViewFields,
           f = "startup" => now.call \notin ClickCalls,
           UNCHANGED <<overlapped, foreign, fails>>,
           Calm /\ FlowInv(flow[f]) => FlowInv(now)'
    PROVE  SessionInv'
<1>1. \A g \in Flows : flow'[g] = IF g = f THEN now ELSE flow[g]
  BY DEF SessionInv, Shape
<1>2. Shape'
  BY <1>1 DEF SessionInv, Shape
<1>3. flow'["startup"].call \notin ClickCalls
  BY <1>1 DEF SessionInv, Flows
<1>4. ASSUME Calm PROVE CalmInv'
  <2>1. PICK g \in Flows : g # f
    BY DEF Flows
  <2>2. flow[g].call = "none" /\ FlowInv(flow[f])
    BY <1>4, <2>1 DEF SessionInv, CalmInv, Flows
  <2>3. FlowInv(now)'
    BY <1>4, <2>2
  <2>4. now.call = "none" => FlowInv(flow[g])'
    BY <2>2, <2>3 DEF FlowInv, ShownDuring, ActiveDuring, Loading, Reading, ClickCalls
  <2>5. flow'[f] = now /\ flow'[g] = flow[g]
    BY <1>1, <2>1
  <2>6. FlowInv(flow[f])' /\ (flow'[f].call = "none" => FlowInv(flow[g])')
    BY <2>3, <2>4, <2>5 DEF FlowInv, ShownDuring, ActiveDuring, WholeView
  <2> QED
    BY <2>1, <2>2, <2>5, <2>6 DEF CalmInv, Flows
<1> QED
  BY <1>2, <1>3, <1>4 DEF SessionInv, Calm

\* The end of a call.
LEMMA NoCall == DOMAIN NoFlow = FlowFields /\ NoFlow.call = "none"
BY DEF NoFlow, FlowFields

\* The server is at work on a call: the call has what it read so far, or its answer.
LEMMA ServerTurn ==
    ASSUME SessionInv, NEW f \in Flows, NEW now, flow' = [flow EXCEPT ![f] = now],
           DOMAIN now = FlowFields, now.expected = flow[f].expected, now.base = flow[f].base,
           ~flow[f].served,
           \/ now.call = flow[f].call /\ flow[f].call = "list"
           \/ now.call = "timeline" /\ flow[f].call = "history" /\ now.rev = active
           \/ now.call = "history" /\ flow[f].call = "timeline" /\ now.rev = flow[f].rev
           \/ now.call = flow[f].call /\ flow[f].call = "recommend" /\ now.rev = now.expected,
           UNCHANGED <<server, Page>>
    PROVE  SessionInv'
<1>1. UNCHANGED <<view, overlapped, foreign, fails, active>>
  BY DEF Page, server
<1>2. FlowInv(flow[f]) => FlowInv(now)'
  BY <1>1 DEF FlowInv, ShownDuring, ActiveDuring, WholeView, Loading, Reading, ClickCalls
<1>3. f = "startup" => now.call \notin ClickCalls
  BY DEF SessionInv, ClickCalls
<1> QED
  BY <1>1, <1>2, <1>3, FlowTurn DEF SessionInv, Shape

LEMMA ServeStep ==
    ASSUME SessionInv, NEW f \in Flows, ServeList(f) \/ ReadActive(f) \/ ServeHistory(f)
    PROVE  SessionInv'
<1>1. DOMAIN flow[f] = FlowFields
  BY DEF SessionInv, Shape
<1>2. CASE ServeList(f)
  <2> DEFINE now == [[flow[f] EXCEPT !.rev = active] EXCEPT !.served = TRUE]
  <2>1. /\ flow' = [flow EXCEPT ![f] = now] /\ flow[f].call = "list" /\ ~flow[f].served
        /\ UNCHANGED <<server, Page>>
    BY <1>2 DEF ServeList, Waits, Served
  <2>2. /\ DOMAIN now = FlowFields /\ now.call = flow[f].call
        /\ now.expected = flow[f].expected /\ now.base = flow[f].base
    BY <1>1 DEF FlowFields
  <2> HIDE DEF now
  <2> QED
    BY <2>1, <2>2, ServerTurn
<1>3. CASE ReadActive(f)
  <2> DEFINE now == [flow[f] EXCEPT !.call = "timeline", !.rev = active]
  <2>1. /\ flow' = [flow EXCEPT ![f] = now] /\ flow[f].call = "history" /\ ~flow[f].served
        /\ UNCHANGED <<server, Page>>
    BY <1>3 DEF ReadActive, Waits
  <2>2. /\ DOMAIN now = FlowFields /\ now.call = "timeline" /\ now.rev = active
        /\ now.expected = flow[f].expected /\ now.base = flow[f].base
    BY <1>1 DEF FlowFields
  <2> HIDE DEF now
  <2> QED
    BY <2>1, <2>2, ServerTurn
<1>4. CASE ServeHistory(f)
  <2> DEFINE now == [[flow[f] EXCEPT !.call = "history", !.count = Len(timeline)]
                       EXCEPT !.served = TRUE]
  <2>1. /\ flow' = [flow EXCEPT ![f] = now] /\ flow[f].call = "timeline" /\ ~flow[f].served
        /\ UNCHANGED <<server, Page>>
    BY <1>4 DEF ServeHistory, Waits, Served
  <2>2. /\ DOMAIN now = FlowFields /\ now.call = "history" /\ now.rev = flow[f].rev
        /\ now.expected = flow[f].expected /\ now.base = flow[f].base
    BY <1>1 DEF FlowFields
  <2> HIDE DEF now
  <2> QED
    BY <2>1, <2>2, ServerTurn
<1> QED
  BY <1>2, <1>3, <1>4

LEMMA ServeRecommendStep ==
    ASSUME SessionInv, ServeRecommend
    PROVE  SessionInv'
<1> DEFINE flown == flow["click"]
           answer == [flown EXCEPT !.rev = flown.expected,
                                   !.count = IF active = flown.expected THEN 1 ELSE 0]
           now == [answer EXCEPT !.served = TRUE]
<1>1. "click" \in Flows /\ DOMAIN flown = FlowFields
  BY DEF SessionInv, Shape, Flows
<1>2. /\ flow' = [flow EXCEPT !["click"] = now] /\ flown.call = "recommend" /\ ~flown.served
      /\ UNCHANGED <<server, Page>>
  BY DEF ServeRecommend, Waits, Served
<1>3. /\ DOMAIN now = FlowFields /\ now.call = flown.call
      /\ now.expected = flown.expected /\ now.base = flown.base
      /\ now.rev = flown.expected
  BY <1>1 DEF FlowFields
<1> HIDE DEF now, answer
<1> QED
  BY <1>1, <1>2, <1>3, ServerTurn

\* The page takes an answer: loadRevision shows the revision, then its parts, then
\* its evaluation.
LEMMA ShowStep ==
    ASSUME SessionInv, NEW f \in Flows,
           OpenDesign(f) \/ ShowHistory(f) \/ ShowParts(f) \/ ShowEvaluation(f)
    PROVE  SessionInv'
<1>1. UNCHANGED <<active, overlapped, foreign, fails>>
  BY DEF OpenDesign, ShowHistory, ShowParts, ShowEvaluation, server, Counters
<1>2. DOMAIN view = ViewFields
  BY DEF SessionInv, Shape
<1>3. CASE OpenDesign(f) /\ flow[f].rev = NoRev
  <2>1. /\ flow[f].call = "list" /\ flow' = [flow EXCEPT ![f] = NoFlow] /\ UNCHANGED view
    BY <1>3 DEF OpenDesign, Answers, Ends
  <2>2. FlowInv(flow[f]) => FlowInv(NoFlow)'
    BY <1>1, <2>1, NoCall DEF FlowInv, ShownDuring, ActiveDuring, WholeView, Loading, ClickCalls
  <2> QED
    BY <1>1, <1>2, <2>1, <2>2, NoCall, FlowTurn DEF ClickCalls
<1>4. CASE OpenDesign(f) /\ flow[f].rev # NoRev
  <2>1. PICK now : /\ flow' = [flow EXCEPT ![f] = now] /\ DOMAIN now = FlowFields
                   /\ now.call = "history" /\ now.served = FALSE
    <3> DEFINE next == [NoFlow EXCEPT !.call = "history", !.rev = NoRev]
    <3>1. flow' = [flow EXCEPT ![f] = next]
      BY <1>4 DEF OpenDesign, Then
    <3>2. DOMAIN next = FlowFields /\ next.call = "history" /\ next.served = FALSE
      BY DEF NoFlow, FlowFields
    <3> HIDE DEF next
    <3> QED
      BY <3>1, <3>2
  <2>2. /\ flow[f].call = "list" /\ view' = [view EXCEPT !.design = TRUE]
    BY <1>4 DEF OpenDesign, Answers
  <2>3. /\ DOMAIN view' = ViewFields /\ view'.rev = view.rev /\ view'.parts = view.parts
        /\ view'.evaluation = view.evaluation /\ view'.recs = view.recs
    BY <1>2, <2>2 DEF ViewFields
  <2>4. FlowInv(flow[f]) => FlowInv(now)'
    BY <1>1, <2>1, <2>2, <2>3
       DEF FlowInv, ShownDuring, ActiveDuring, WholeView, Loading, Reading, ClickCalls
  <2> QED
    BY <1>1, <2>1, <2>2, <2>3, <2>4, FlowTurn DEF ClickCalls
<1>5. CASE ShowHistory(f)
  <2>1. PICK now : /\ flow' = [flow EXCEPT ![f] = now] /\ DOMAIN now = FlowFields
                   /\ now.call = "parts" /\ now.rev = flow[f].rev
    <3> DEFINE next == [NoFlow EXCEPT !.call = "parts", !.rev = flow[f].rev]
    <3>1. flow' = [flow EXCEPT ![f] = next]
      BY <1>5 DEF ShowHistory, Then
    <3>2. DOMAIN next = FlowFields /\ next.call = "parts" /\ next.rev = flow[f].rev
      BY DEF NoFlow, FlowFields
    <3> HIDE DEF next
    <3> QED
      BY <3>1, <3>2
  <2>2. /\ flow[f].call = "history" /\ flow[f].served
        /\ view' = [view EXCEPT !.rev = flow[f].rev, !.history = flow[f].count]
    BY <1>5 DEF ShowHistory, Answers
  <2>3. DOMAIN view' = ViewFields /\ view'.rev = flow[f].rev
    BY <1>2, <2>2 DEF ViewFields
  <2>4. FlowInv(flow[f]) => FlowInv(now)'
    BY <1>1, <2>1, <2>2, <2>3
       DEF FlowInv, ShownDuring, ActiveDuring, Loading, Reading, ClickCalls
  <2> QED
    BY <1>1, <2>1, <2>2, <2>3, <2>4, FlowTurn DEF ClickCalls
<1>6. CASE ShowParts(f)
  <2>1. PICK now : /\ flow' = [flow EXCEPT ![f] = now] /\ DOMAIN now = FlowFields
                   /\ now.call = "evaluate" /\ now.rev = flow[f].rev
    <3> DEFINE next == [NoFlow EXCEPT !.call = "evaluate", !.rev = flow[f].rev]
    <3>1. flow' = [flow EXCEPT ![f] = next]
      BY <1>6 DEF ShowParts, Then
    <3>2. DOMAIN next = FlowFields /\ next.call = "evaluate" /\ next.rev = flow[f].rev
      BY DEF NoFlow, FlowFields
    <3> HIDE DEF next
    <3> QED
      BY <3>1, <3>2
  <2>2. flow[f].call = "parts" /\ view' = [view EXCEPT !.parts = flow[f].rev]
    BY <1>6 DEF ShowParts, Waits
  <2>3. DOMAIN view' = ViewFields /\ view'.rev = view.rev /\ view'.parts = flow[f].rev
    BY <1>2, <2>2 DEF ViewFields
  <2>4. FlowInv(flow[f]) => FlowInv(now)'
    BY <1>1, <2>1, <2>2, <2>3
       DEF FlowInv, ShownDuring, ActiveDuring, Loading, Reading, ClickCalls
  <2> QED
    BY <1>1, <2>1, <2>2, <2>3, <2>4, FlowTurn DEF ClickCalls
<1>7. CASE ShowEvaluation(f)
  <2>1. /\ flow[f].call = "evaluate" /\ flow' = [flow EXCEPT ![f] = NoFlow]
    BY <1>7 DEF ShowEvaluation, Waits, Ends
  <2>2. PICK result \in {flow[f].rev, NoRev} :
          view' = [view EXCEPT !.evaluation = result, !.recs = NoRecs]
    BY <1>7 DEF ShowEvaluation
  <2>3. /\ DOMAIN view' = ViewFields /\ view'.rev = view.rev /\ view'.parts = view.parts
        /\ view'.evaluation = result /\ view'.recs = NoRecs
    BY <1>2, <2>2 DEF ViewFields
  <2>4. NoRecs.base = NoRev /\ NoRecs.ready = FALSE
    BY DEF NoRecs
  <2>5. FlowInv(flow[f]) => FlowInv(NoFlow)'
    BY <1>1, <2>1, <2>2, <2>3, <2>4, NoCall
       DEF FlowInv, ShownDuring, ActiveDuring, WholeView, Loading, Reading, ClickCalls
  <2> QED
    BY <1>1, <2>1, <2>3, <2>5, NoCall, FlowTurn DEF ClickCalls
<1> QED
  BY <1>3, <1>4, <1>5, <1>6, <1>7

-----------------------------------------------------------------------------
(* Clicks.                                                                 *)

\* The flow of a click takes over a page that shows one revision, once the
\* start-up flow is done.
LEMMA ClickTurn ==
    ASSUME SessionInv, NEW call \in ClickCalls, NEW base, Click(call, base),
           call = "import" => ~view.design,
           call = "accept" => view.recs.ready /\ base = view.recs.base
    PROVE  SessionInv'
<1>1. PICK now :
        /\ flow' = [flow EXCEPT !["click"] = now] /\ DOMAIN now = FlowFields
        /\ now.call = call /\ now.expected = view.rev /\ now.base = base /\ now.served = FALSE
  <2> DEFINE next == [NoFlow EXCEPT !.call = call, !.expected = view.rev, !.base = base]
  <2>1. flow' = [flow EXCEPT !["click"] = next]
    BY DEF Click
  <2>2. /\ DOMAIN next = FlowFields /\ next.call = call /\ next.expected = view.rev
        /\ next.base = base /\ next.served = FALSE
    BY DEF NoFlow, FlowFields
  <2> HIDE DEF next
  <2> QED
    BY <2>1, <2>2
<1>2. /\ UNCHANGED <<active, view, foreign, fails>>
      /\ flow["click"].call = "none"
  BY DEF Click, Busy, server
<1>3. ~overlapped' => ~overlapped /\ flow["startup"].call = "none"
  BY Zenon DEF Click
<1>4. flow'["click"] = now /\ flow'["startup"] = flow["startup"]
  BY <1>1 DEF SessionInv, Shape, Flows
<1>5. Shape'
  BY <1>1, <1>2, <1>4 DEF SessionInv, Shape, Flows
<1>6. ASSUME Calm' PROVE CalmInv'
  <2>1. Calm /\ flow["startup"].call = "none"
    BY <1>2, <1>3, <1>6 DEF Calm
  <2>2. FlowInv(flow["click"])
    BY <2>1 DEF SessionInv, CalmInv, Flows
  <2>3. FlowInv(now)'
    BY <1>1, <1>2, <2>2
       DEF FlowInv, ShownDuring, ActiveDuring, WholeView, Loading, Reading, ClickCalls
  <2>4. now.call # "none"
    BY <1>1 DEF ClickCalls
  <2>5. FlowInv(flow["click"])'
    BY <1>4, <2>3 DEF FlowInv, ShownDuring, ActiveDuring, WholeView
  <2> QED
    BY <1>4, <2>1, <2>4, <2>5 DEF CalmInv, Flows
<1> QED
  BY <1>4, <1>5, <1>6 DEF SessionInv

LEMMA ClickStarts ==
    ASSUME SessionInv,
           \/ ClickImport \/ ClickConfirm \/ ClickUndo \/ ClickRecommend \/ ClickDecline
           \/ ClickAccept
    PROVE  SessionInv'
<1>1. PICK call, base :
        /\ call \in ClickCalls
        /\ Click(call, base)
        /\ call = "import" => ~view.design
        /\ call = "accept" => view.recs.ready /\ base = view.recs.base
  <2>1. CASE ClickImport
    BY <2>1 DEF ClickImport, ClickCalls
  <2>2. CASE ClickConfirm
    BY <2>2 DEF ClickConfirm, ClickCalls
  <2>3. CASE ClickUndo
    BY <2>3 DEF ClickUndo, ClickCalls
  <2>4. CASE ClickRecommend
    BY <2>4 DEF ClickRecommend, ClickCalls
  <2>5. CASE ClickDecline
    BY <2>5 DEF ClickDecline, ClickCalls
  <2>6. CASE ClickAccept
    BY <2>6 DEF ClickAccept, ClickCalls
  <2> QED
    BY <2>1, <2>2, <2>3, <2>4, <2>5, <2>6
<1> QED
  BY <1>1, ClickTurn

\* The server has moved the pointer, or recorded a decision: the page loads again,
\* from the list of designs after an import.
LEMMA MoveTurn ==
    ASSUME SessionInv, NEW call \in {"list", "history"}, Then("click", call, NoRev),
           flow["click"].call \in ClickCalls,
           call = "list" => flow["click"].call = "import",
           UNCHANGED Page
    PROVE  SessionInv'
<1>1. PICK now :
        /\ flow' = [flow EXCEPT !["click"] = now] /\ DOMAIN now = FlowFields
        /\ now.call = call /\ now.served = FALSE
  <2> DEFINE next == [NoFlow EXCEPT !.call = call, !.rev = NoRev]
  <2>1. flow' = [flow EXCEPT !["click"] = next]
    BY DEF Then
  <2>2. DOMAIN next = FlowFields /\ next.call = call /\ next.served = FALSE
    BY DEF NoFlow, FlowFields
  <2> HIDE DEF next
  <2> QED
    BY <2>1, <2>2
<1>2. UNCHANGED <<view, overlapped, foreign, fails>> /\ DOMAIN view = ViewFields
  BY DEF Page, SessionInv, Shape
<1>3. FlowInv(flow["click"]) => FlowInv(now)'
  BY <1>1, <1>2 DEF FlowInv, ShownDuring, ActiveDuring, WholeView, Loading, Reading, ClickCalls
<1>4. flow["click"].call # "none" /\ now.call \notin ClickCalls /\ "click" \in Flows
  BY <1>1 DEF ClickCalls, Flows
<1> QED
  BY <1>1, <1>2, <1>3, <1>4, FlowTurn

\* A click ends with the pointer where it was.
LEMMA EndTurn ==
    ASSUME SessionInv, Ends("click"), flow["click"].call \in ClickCalls,
           UNCHANGED server, UNCHANGED Page
    PROVE  SessionInv'
<1>1. /\ UNCHANGED <<active, view, overlapped, foreign, fails>> /\ DOMAIN view = ViewFields
      /\ flow' = [flow EXCEPT !["click"] = NoFlow]
  BY DEF Page, server, SessionInv, Shape, Ends
<1>2. FlowInv(flow["click"]) => FlowInv(NoFlow)'
  BY <1>1, NoCall
     DEF FlowInv, ShownDuring, ActiveDuring, WholeView, Loading, Reading, ClickCalls
<1>3. flow["click"].call # "none" /\ NoFlow.call \notin ClickCalls /\ "click" \in Flows
  BY NoCall DEF ClickCalls, Flows
<1> QED
  BY <1>1, <1>2, <1>3, NoCall, FlowTurn

LEMMA ShowRecommendationsStep ==
    ASSUME SessionInv, ShowRecommendations
    PROVE  SessionInv'
<1>1. /\ UNCHANGED <<active, overlapped, foreign, fails>> /\ DOMAIN view = ViewFields
      /\ flow' = [flow EXCEPT !["click"] = NoFlow]
      /\ flow["click"].call = "recommend" /\ flow["click"].served
  BY DEF ShowRecommendations, Answers, Ends, server, Counters, SessionInv, Shape
<1>2. PICK recs :
        /\ view' = [view EXCEPT !.recs = recs] /\ recs.base = flow["click"].rev
  <2> DEFINE shown == [base |-> flow["click"].rev, ready |-> flow["click"].count = 1]
  <2>1. view' = [view EXCEPT !.recs = shown]
    BY DEF ShowRecommendations
  <2>2. shown.base = flow["click"].rev
    OBVIOUS
  <2> HIDE DEF shown
  <2> QED
    BY <2>1, <2>2
<1>3. /\ DOMAIN view' = ViewFields /\ view'.rev = view.rev /\ view'.parts = view.parts
      /\ view'.evaluation = view.evaluation /\ view'.recs = recs /\ view'.design = view.design
  BY <1>1, <1>2 DEF ViewFields
<1>4. FlowInv(flow["click"]) => FlowInv(NoFlow)'
  BY <1>1, <1>2, <1>3, NoCall
     DEF FlowInv, ShownDuring, ActiveDuring, WholeView, Loading, Reading, ClickCalls
<1>5. flow["click"].call # "none" /\ NoFlow.call \notin ClickCalls /\ "click" \in Flows
  BY <1>1, NoCall DEF ClickCalls, Flows
<1> QED
  BY <1>1, <1>3, <1>4, <1>5, NoCall, FlowTurn

LEMMA ClickStepInv ==
    ASSUME SessionInv, ClickStep
    PROVE  SessionInv'
<1>1. CASE ServeImport
  <2>1. PICK call \in {"list", "history"} :
          /\ call = "list" /\ Then("click", call, NoRev)
    BY <1>1 DEF ServeImport
  <2>2. flow["click"].call = "import" /\ UNCHANGED Page
    BY <1>1 DEF ServeImport, Waits
  <2> QED
    BY <2>1, <2>2, MoveTurn DEF ClickCalls
<1>2. CASE ServeConfirm \/ ServeUndo \/ ServeDecline \/ ServeAccept
  <2>1. /\ flow["click"].call \in ClickCalls /\ UNCHANGED Page
        /\ \/ Reload
           \/ Ends("click") /\ UNCHANGED server
    BY <1>2 DEF ServeConfirm, ServeUndo, ServeDecline, ServeAccept, Waits, ClickCalls
  <2>2. CASE Reload
    <3>1. PICK call \in {"list", "history"} :
            /\ call = "history" /\ Then("click", call, NoRev)
      BY <2>2 DEF Reload
    <3> QED
      BY <2>1, <3>1, MoveTurn
  <2> QED
    BY <2>1, <2>2, EndTurn
<1> QED
  BY <1>1, <1>2, ServeRecommendStep, ShowRecommendationsStep DEF ClickStep

LEMMA FailsStep ==
    ASSUME SessionInv, NEW f \in Flows, CallFails(f)
    PROVE  SessionInv'
<1>1. /\ flow' = [flow EXCEPT ![f] = NoFlow] /\ fails' = fails + 1
      /\ UNCHANGED <<view, foreign>>
  BY DEF CallFails, Ends
<1>2. \A g \in Flows : flow'[g] = IF g = f THEN NoFlow ELSE flow[g]
  BY <1>1 DEF SessionInv, Shape
<1>3. Shape' /\ fails' # 0
  BY <1>1, <1>2, NoCall DEF SessionInv, Shape
<1>4. flow'["startup"].call \notin ClickCalls
  BY <1>2, NoCall DEF SessionInv, Flows, ClickCalls
<1> QED
  BY <1>3, <1>4 DEF SessionInv, Calm

LEMMA ForeignStep ==
    ASSUME SessionInv, ForeignMove
    PROVE  SessionInv'
<1>1. foreign' = foreign + 1 /\ UNCHANGED <<view, flow, overlapped, fails>>
  BY DEF ForeignMove
<1>2. Shape' /\ foreign' # 0
  BY <1>1 DEF SessionInv, Shape
<1>3. CalmInv => CalmInv'
  <2>1. \A f \in Flows : FlowInv(flow[f]) => FlowInv(flow[f])'
    BY <1>1, <1>2 DEF FlowInv, ShownDuring, WholeView
  <2> QED
    BY <1>1, <2>1 DEF CalmInv
<1> QED
  BY <1>1, <1>2, <1>3 DEF SessionInv, Calm

LEMMA SessionInvStep == SessionInv /\ [Next]_vars => SessionInv'
<1> SUFFICES ASSUME SessionInv, [Next]_vars PROVE SessionInv'
  OBVIOUS
<1>1. ASSUME NEW f \in Flows, FlowStep(f) \/ CallFails(f) PROVE SessionInv'
  BY <1>1, ServeStep, ShowStep, FailsStep DEF FlowStep
<1>2. CASE UNCHANGED vars
  <2>1. UNCHANGED <<active, view, flow, overlapped, foreign, fails>>
    BY <1>2 DEF vars
  <2>2. \A f \in Flows : FlowInv(flow[f]) => FlowInv(flow[f])'
    BY <2>1 DEF FlowInv, ShownDuring, ActiveDuring, WholeView
  <2>3. CalmInv => CalmInv'
    BY <2>1, <2>2 DEF CalmInv
  <2> QED
    BY <2>1, <2>3 DEF SessionInv, Shape, Calm
<1> QED
  BY <1>1, <1>2, ClickStarts, ClickStepInv, ForeignStep DEF Next

\* The invariant holds of every session.
THEOREM SessionInvariant == Spec => []SessionInv
BY InitSessionInv, SessionInvStep, PTL DEF Spec

\* A settled page shows one revision (WorkbenchContext.tsx loadRevision), if no
\* call failed and the first click came after the start-up load.
THEOREM PageIsWhole == Spec => []SettledViewIsWhole
<1>1. SessionInv => SettledViewIsWhole
  BY DEF SessionInv, Calm, CalmInv, FlowInv, ShownDuring, Loading, Flows, Settled,
         SettledViewIsWhole
<1> QED
  BY <1>1, SessionInvariant, PTL

\* A settled page shows the active revision if, besides, nobody else moved the
\* pointer: every click that moves it reloads what it moved.
THEOREM PageIsCurrent == Spec => []SettledViewIsCurrent
<1>1. SessionInv => SettledViewIsCurrent
  BY DEF SessionInv, Calm, CalmInv, FlowInv, ActiveDuring, Loading, Reading, Flows, Settled,
         SettledViewIsCurrent
<1> QED
  BY <1>1, SessionInvariant, PTL

\* An accept that moves the pointer makes the child of the revision that the page
\* showed when it was clicked: the proposals, the expected revision and the pointer
\* all name it.
THEOREM AcceptedIsShown == Spec => AcceptExtendsShown
<1>1. SessionInv /\ [Next]_vars =>
        [ ServeAccept /\ active' # active /\ fails = 0 /\ ~overlapped =>
            /\ active = flow["click"].expected
            /\ active' = Append(active, "accept") ]_vars
  <2> SUFFICES ASSUME SessionInv, ServeAccept, active' # active, fails = 0, ~overlapped
               PROVE  /\ active = flow["click"].expected
                      /\ active' = Append(active, "accept")
    OBVIOUS
  <2>1. flow["click"].call = "accept"
    BY DEF ServeAccept, Waits
  <2>2. /\ active = flow["click"].expected
        /\ active' = Append(flow["click"].base, "accept")
    BY DEF ServeAccept, MoveTo, server
  <2>3. flow["startup"].call = "none"
    BY <2>1 DEF SessionInv, Calm, CalmInv
  <2>4. flow["click"].base = flow["click"].expected
    BY <2>1, <2>3 DEF SessionInv, Calm, CalmInv, FlowInv, ShownDuring, Flows
  <2> QED
    BY <2>2, <2>4
<1> QED
  BY <1>1, SessionInvariant, PTL DEF Spec, AcceptExtendsShown

-----------------------------------------------------------------------------
(* The stream of events, for any pages, any number of events and any       *)
(* number of broken connections.                                           *)

\* The last event that the browser knows it has: where a reconnection resumes.
Handed == IF source.seen > 0 THEN source.seen ELSE source.after

StreamTypes ==
    /\ log \in Nat /\ last \in Nat /\ cursor \in Nat
    /\ source \in [at : {"closed", "open", "retrying"}, after : Nat, seen : Nat]
    /\ wire \in Seq(Nat)
    /\ reply.last \in Nat /\ DOMAIN reply = {"at", "events", "last"}

\* What is on the wire of an open connection is what lies between the browser and
\* the cursor of the generator that serves it; nothing is on a broken one.
StreamInv ==
    /\ StreamTypes
    /\ source.at = "open" =>
         /\ cursor = Handed + Len(wire)
         /\ \A i \in 1..Len(wire) : wire[i] = Handed + i
    /\ source.at # "open" => wire = << >>

\* A page that is not empty: the events behind the cursor, one by one.
LEMMA PageFollows ==
    ASSUME log \in Nat, cursor \in Nat, NEW page \in Nat, EventsSince(cursor, page) # << >>
    PROVE  LET batch == EventsSince(cursor, page)
           IN  /\ batch \in Seq(Nat) /\ Len(batch) > 0
               /\ \A i \in 1..Len(batch) : batch[i] = cursor + i
               /\ Last(batch) = cursor + Len(batch)
<1> DEFINE n == IF log - cursor < page THEN log - cursor ELSE page
           batch == EventsSince(cursor, page)
<1>1. n \in Int /\ batch = [i \in 1..n |-> cursor + i]
  BY DEF EventsSince
<1>2. n > 0
  <2> SUFFICES ASSUME ~(n > 0) PROVE batch = << >>
    OBVIOUS
  <2> HIDE DEF n
  <2>1. 1..n = {}
    BY <1>1
  <2> QED
    BY <1>1, <2>1
<1> HIDE DEF n
<1>3. batch \in Seq(Nat) /\ Len(batch) = n
  BY <1>1, <1>2
<1>4. \A i \in 1..n : batch[i] = cursor + i
  BY <1>1
<1> QED
  BY <1>1, <1>2, <1>3, <1>4 DEF Last

LEMMA InitStreamInv == StreamInit => StreamInv
BY DEF StreamInit, StreamInv, StreamTypes, NoReply, Handed

LEMMA SendStep ==
    ASSUME StreamInv, Send
    PROVE  StreamInv'
<1> DEFINE batch == EventsSince(cursor, StreamPage)
<1>1. /\ source.at = "open" /\ batch # << >> /\ wire' = wire \o batch /\ cursor' = Last(batch)
      /\ UNCHANGED <<log, source, reply, last>>
  BY DEF Send
<1>2. /\ batch \in Seq(Nat) /\ Len(batch) > 0 /\ Last(batch) = cursor + Len(batch)
      /\ \A i \in 1..Len(batch) : batch[i] = cursor + i
  BY <1>1, PageFollows, StreamBounds DEF StreamInv, StreamTypes
<1> HIDE DEF batch
<1>3. wire \in Seq(Nat) /\ cursor \in Nat /\ Handed \in Nat /\ cursor = Handed + Len(wire)
  BY <1>1 DEF StreamInv, StreamTypes, Handed
<1>4. wire' \in Seq(Nat) /\ Len(wire') = Len(wire) + Len(batch)
  BY <1>1, <1>2, <1>3
<1>5. \A i \in 1..Len(wire') : wire'[i] = Handed + i
  <2> SUFFICES ASSUME NEW i \in 1..Len(wire') PROVE wire'[i] = Handed + i
    OBVIOUS
  <2>1. CASE i <= Len(wire)
    BY <1>1, <1>2, <1>3, <1>4, <2>1 DEF StreamInv
  <2>2. CASE i > Len(wire)
    <3>1. i - Len(wire) \in 1..Len(batch) /\ wire'[i] = batch[i - Len(wire)]
      BY <1>1, <1>2, <1>3, <1>4, <2>2
    <3> QED
      BY <1>2, <1>3, <3>1
  <2> QED
    BY <1>2, <1>3, <1>4, <2>1, <2>2
<1>6. Handed' = Handed /\ cursor' \in Nat /\ cursor' = Handed + Len(wire')
  <2>1. Handed' = Handed
    BY <1>1 DEF Handed
  <2>2. cursor' = cursor + Len(batch) /\ Len(wire) \in Nat /\ Len(batch) \in Nat
    BY <1>1, <1>2, <1>3
  <2> QED
    BY <1>3, <1>4, <2>1, <2>2
<1> QED
  BY <1>1, <1>4, <1>5, <1>6 DEF StreamInv, StreamTypes

LEMMA DeliverStep ==
    ASSUME StreamInv, Deliver
    PROVE  StreamInv' /\ source'.seen = Handed + 1
<1>1. /\ wire # << >> /\ source' = [source EXCEPT !.seen = Head(wire)] /\ wire' = Tail(wire)
      /\ last' = IF Head(wire) > last THEN Head(wire) ELSE last
      /\ UNCHANGED <<log, cursor, reply>>
  BY DEF Deliver
<1>2. /\ source.at = "open" /\ wire \in Seq(Nat) /\ Len(wire) > 0 /\ Handed \in Nat
      /\ cursor = Handed + Len(wire) /\ Head(wire) = Handed + 1
  <2>1. Handed \in Nat /\ wire \in Seq(Nat)
    BY DEF StreamInv, StreamTypes, Handed
  <2>2. source.at = "open"
    BY <1>1 DEF StreamInv
  <2>3. Len(wire) \in Nat /\ Len(wire) > 0 /\ Head(wire) = wire[1]
    BY <1>1, <2>1
  <2>4. cursor = Handed + Len(wire) /\ wire[1] = Handed + 1
    BY <2>2, <2>3 DEF StreamInv
  <2> QED
    BY <2>1, <2>2, <2>3, <2>4
<1>3. /\ wire' \in Seq(Nat) /\ Len(wire') = Len(wire) - 1
      /\ \A i \in 1..Len(wire') : wire'[i] = wire[i + 1]
  BY <1>1, <1>2
<1>4. /\ source'.seen = Handed + 1 /\ source'.at = "open"
      /\ source' \in [at : {"closed", "open", "retrying"}, after : Nat, seen : Nat]
  <2>1. source \in [at : {"closed", "open", "retrying"}, after : Nat, seen : Nat]
    BY DEF StreamInv, StreamTypes
  <2>2. PICK head \in Nat : head = Handed + 1 /\ source' = [source EXCEPT !.seen = head]
    <3>1. Head(wire) \in Nat
      BY <1>2
    <3>2. PICK head \in Nat : head = Head(wire)
      BY <3>1
    <3> QED
      BY <1>1, <1>2, <3>2
  <2> QED
    BY <1>2, <2>1, <2>2
<1>5. Handed' = Handed + 1
  BY <1>2, <1>4 DEF Handed
<1>6. \A i \in 1..Len(wire') : wire'[i] = Handed' + i
  BY <1>2, <1>3, <1>5 DEF StreamInv
<1>7. StreamTypes'
  BY <1>1, <1>2, <1>3, <1>4 DEF StreamInv, StreamTypes
<1> QED
  BY <1>1, <1>2, <1>3, <1>4, <1>5, <1>6, <1>7 DEF StreamInv

LEMMA StreamInvStep == StreamInv /\ [StreamNext]_streamVars => StreamInv'
<1> SUFFICES ASSUME StreamInv, [StreamNext]_streamVars PROVE StreamInv'
  OBVIOUS
<1>1. CASE AppendEvent
  BY <1>1 DEF AppendEvent, StreamInv, StreamTypes, Handed
<1>2. CASE Subscribe
  <2>1. /\ wire = << >> /\ wire' = wire /\ cursor' = last /\ UNCHANGED <<log, last>>
        /\ source' = [at |-> "open", after |-> last, seen |-> 0]
        /\ reply' = [NoReply EXCEPT !.at = "asked"]
    BY <1>2 DEF Subscribe, StreamInv
  <2>2. reply'.last \in Nat /\ DOMAIN reply' = {"at", "events", "last"}
    BY <2>1 DEF NoReply
  <2> QED
    BY <2>1, <2>2 DEF StreamInv, StreamTypes, Handed
<1>3. CASE ReadRecent \/ ReadLast
  <2>1. reply'.last \in Nat /\ DOMAIN reply' = {"at", "events", "last"}
    BY <1>3 DEF ReadRecent, ReadLast, StreamInv, StreamTypes
  <2>2. UNCHANGED <<log, source, cursor, wire, last>>
    BY <1>3 DEF ReadRecent, ReadLast
  <2> QED
    BY <2>1, <2>2 DEF StreamInv, StreamTypes, Handed
<1>4. CASE TakeRecent
  BY <1>4 DEF TakeRecent, StreamInv, StreamTypes, Handed, NoReply
<1>5. CASE Break
  <2>1. /\ source' = [source EXCEPT !.at = "retrying"] /\ wire' = << >>
        /\ UNCHANGED <<log, cursor, reply, last>>
    BY <1>5 DEF Break
  <2>2. source \in [at : {"closed", "open", "retrying"}, after : Nat, seen : Nat]
    BY DEF StreamInv, StreamTypes
  <2>3. /\ source'.at = "retrying"
        /\ source' \in [at : {"closed", "open", "retrying"}, after : Nat, seen : Nat]
    BY <2>1, <2>2
  <2>4. wire' \in Seq(Nat)
    BY <2>1
  <2> QED
    BY <2>1, <2>3, <2>4 DEF StreamInv, StreamTypes
<1>6. CASE Reconnect
  <2>1. /\ source.at = "retrying" /\ source' = [source EXCEPT !.at = "open"]
        /\ cursor' = Handed /\ UNCHANGED <<log, wire, reply, last>>
    BY <1>6 DEF Reconnect, Handed
  <2>2. /\ wire = << >> /\ Handed \in Nat /\ Handed' = Handed
        /\ source' \in [at : {"closed", "open", "retrying"}, after : Nat, seen : Nat]
    BY <2>1 DEF StreamInv, StreamTypes, Handed
  <2> QED
    BY <2>1, <2>2 DEF StreamInv, StreamTypes
<1>7. CASE UNCHANGED streamVars
  BY <1>7 DEF streamVars, StreamInv, StreamTypes, Handed
<1> QED
  BY <1>1, <1>2, <1>3, <1>4, <1>5, <1>6, <1>7, SendStep, DeliverStep DEF StreamNext

\* The invariant holds of every stream.
THEOREM StreamInvariant == StreamSpec => []StreamInv
BY InitStreamInv, StreamInvStep, PTL DEF StreamSpec

\* Whatever breaks, the stream hands the page each event once and in order: the
\* next one is the successor of the last one handed over (main.py /api/events,
\* api.ts "Reconnect resumes from the last sequence seen").
THEOREM EventsInOrder == StreamSpec => StreamResumes
<1>1. StreamInv /\ [StreamNext]_streamVars =>
        [ Deliver => source'.seen =
            1 + (IF source.seen > 0 THEN source.seen ELSE source.after) ]_streamVars
  <2> SUFFICES ASSUME StreamInv, Deliver
               PROVE  source'.seen = 1 + (IF source.seen > 0 THEN source.seen ELSE source.after)
    OBVIOUS
  <2>1. source'.seen = Handed + 1 /\ Handed \in Nat
    BY DeliverStep DEF StreamInv, StreamTypes, Handed
  <2> QED
    BY <2>1 DEF Handed
<1> QED
  BY <1>1, StreamInvariant, PTL DEF StreamSpec, StreamResumes
=============================================================================
