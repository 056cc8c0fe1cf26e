---------------------------- MODULE EventStream -----------------------------
(***************************************************************************)
(* The audit events of one design on their way to a browser: the event     *)
(* table, the server's stream with its cursor (main.py, /api/events), the  *)
(* browser's EventSource, which reconnects with the id of the last event   *)
(* it received, and the window of events the page keeps                    *)
(* (WorkbenchContext.tsx).  An event is its sequence number.               *)
(***************************************************************************)
EXTENDS Naturals, Sequences, SequencesExt

CONSTANTS
    Window,      \* EVENT_WINDOW: events the page keeps
    StreamPage,  \* events the stream reads at once
    RecentPage,  \* events one recent-events answer holds
    MaxEvents,   \* bound: events of the design
    MaxBreaks    \* bound: connections lost or ended by the server

ASSUME StreamBounds ==
    /\ {Window, StreamPage, RecentPage} \subseteq Nat \ {0}
    /\ {MaxEvents, MaxBreaks} \subseteq Nat

VARIABLES
    log,      \* MAX(sequence): the table holds 1..log
    source,   \* the EventSource: its state, after of its URL, its last event id
    cursor,   \* the cursor of the generator that serves it
    wire,     \* events sent on the open connection and not yet handled
    reply,    \* the answer to the request for recent events
    window,   \* events: what the page shows
    last,     \* lastSequence.current
    breaks

streamVars == <<log, source, cursor, wire, reply, window, last, breaks>>

NoReply == [at |-> "none", events |-> << >>, last |-> 0]

\* events_since: the first page of what follows a sequence number.
EventsSince(after, page) ==
    [i \in 1..(IF log - after < page THEN log - after ELSE page) |-> after + i]

Newest(events) ==
    SubSeq(events, IF Len(events) > Window THEN Len(events) - Window + 1 ELSE 1, Len(events))

StreamInit ==
    /\ log \in 0..MaxEvents
    /\ source = [at |-> "closed", after |-> 0, seen |-> 0]
    /\ cursor = 0 /\ wire = << >> /\ reply = NoReply
    /\ window = << >> /\ last = 0 /\ breaks = 0

\* Service.append_event: the next number, in one transaction.
AppendEvent ==
    /\ log < MaxEvents
    /\ log' = log + 1
    /\ UNCHANGED <<source, cursor, wire, reply, window, last, breaks>>

\* The effect of the page that knows its design: it asks for the recent events
\* and opens the stream after the last sequence it knows, before the answer.
Subscribe ==
    /\ source.at = "closed"
    /\ reply' = [NoReply EXCEPT !.at = "asked"]
    /\ source' = [at |-> "open", after |-> last, seen |-> 0]
    /\ cursor' = last
    /\ UNCHANGED <<log, wire, window, last, breaks>>

\* recent_events reads the first page from the start, then the last sequence.
ReadRecent ==
    /\ reply.at = "asked"
    /\ reply' = [reply EXCEPT !.at = "read", !.events = EventsSince(0, RecentPage)]
    /\ UNCHANGED <<log, source, cursor, wire, window, last, breaks>>

ReadLast ==
    /\ reply.at = "read"
    /\ reply' = [reply EXCEPT !.at = "answered", !.last = log]
    /\ UNCHANGED <<log, source, cursor, wire, window, last, breaks>>

\* The answer replaces what the page showed, and its last sequence.
TakeRecent ==
    /\ reply.at = "answered"
    /\ window' = Newest(reply.events)
    /\ last' = reply.last
    /\ reply' = NoReply
    /\ UNCHANGED <<log, source, cursor, wire, breaks>>

\* (Mutant: a page only when it is full.)
SendFull ==
    LET batch == EventsSince(cursor, StreamPage)
    IN  /\ source.at = "open" /\ Len(batch) = StreamPage
        /\ wire' = wire \o batch
        /\ cursor' = Last(batch)
        /\ UNCHANGED <<log, source, reply, window, last, breaks>>

\* One round of the generator: a page, and the cursor at its end.
Send ==
    LET batch == EventsSince(cursor, StreamPage)
    IN  /\ source.at = "open" /\ batch # << >>
        /\ wire' = wire \o batch
        /\ cursor' = Last(batch)
        /\ UNCHANGED <<log, source, reply, window, last, breaks>>

\* The browser notes the id of a frame and hands it to the page.
Deliver ==
    /\ wire # << >>
    /\ source' = [source EXCEPT !.seen = Head(wire)]
    /\ wire' = Tail(wire)
    /\ last' = IF Head(wire) > last THEN Head(wire) ELSE last
    /\ window' = Newest(Append(window, Head(wire)))
    /\ UNCHANGED <<log, cursor, reply, breaks>>

\* The connection is lost, or the server ends it after 600 idle polls.
Break ==
    /\ source.at = "open" /\ breaks < MaxBreaks
    /\ source' = [source EXCEPT !.at = "retrying"]
    /\ wire' = << >>
    /\ breaks' = breaks + 1
    /\ UNCHANGED <<log, cursor, reply, window, last>>

\* (Mutant: the header is not read.)
ReconnectAfter ==
    /\ source.at = "retrying"
    /\ source' = [source EXCEPT !.at = "open"]
    /\ cursor' = source.after
    /\ UNCHANGED <<log, wire, reply, window, last, breaks>>

\* The browser connects again by itself: a new generator starts behind the
\* Last-Event-ID it sends, or behind the URL's after when it has none.
Reconnect ==
    /\ source.at = "retrying"
    /\ source' = [source EXCEPT !.at = "open"]
    /\ cursor' = IF source.seen > 0 THEN source.seen ELSE source.after
    /\ UNCHANGED <<log, wire, reply, window, last, breaks>>

StreamNext ==
    \/ AppendEvent \/ Subscribe \/ Break
    \/ ReadRecent \/ ReadLast \/ TakeRecent \/ Send \/ Deliver \/ Reconnect

\* The server polls the table, the network delivers and the browser reconnects;
\* a page need not open, and connections need not break.
StreamFairness ==
    /\ WF_streamVars(ReadRecent) /\ WF_streamVars(ReadLast) /\ WF_streamVars(TakeRecent)
    /\ WF_streamVars(Send) /\ WF_streamVars(Deliver) /\ WF_streamVars(Reconnect)

StreamSpec == StreamInit /\ [][StreamNext]_streamVars /\ StreamFairness

-----------------------------------------------------------------------------
(* Properties.                                                             *)

\* api.ts: "Reconnect resumes from the last sequence seen".  Whatever breaks, the
\* stream hands the page each event once and in order: the next one is the
\* successor of the last one handed over.
StreamResumes ==
    [][ Deliver => source'.seen = 1 + (IF source.seen > 0 THEN source.seen ELSE source.after) ]_streamVars

\* Every event of the design gets to the page that is open, over breaks.
EventsArrive ==
    \A n \in 1..MaxEvents :
        log >= n /\ source.at # "closed" ~> source.seen >= n \/ source.after >= n

=============================================================================
