----------------------------- MODULE EditStore -----------------------------
(***************************************************************************)
(* The append-only revision store of one design directory, shared by the   *)
(* processes of the dronebench-edits command line (dronebench_edits/       *)
(* store.py, apply.py and cli.py) and by the confirmation that makes its   *)
(* first revisions (dronebench_ingest/revisions.py).                       *)
(*                                                                         *)
(* A revision is named by the hash of its parent, its edit and its         *)
(* verdict, so a revision is one, and an edit of a base is any child of    *)
(* it.  Processes share files only; the lock is a file too, which knows    *)
(* its age and nothing of who is alive.                                    *)
(***************************************************************************)
EXTENDS Naturals, Sequences

CONSTANTS
    Procs,        \* command-line processes
    Keys,         \* idempotency keys
    NoKey,        \* no --idempotency-key
    Revisions,    \* every revision that can be built
    Parent,       \* the parent of each; a confirmed revision has none
    Passing,      \* those whose verdict is "ok", or that have none
    NoRevision,
    Free,         \* there is no lock file
    Left,         \* the lock file of a killed process
    Stale,        \* a lock file older than LOCK_STALE_S
    MaxCalls,     \* bound: command-line calls
    MaxLapses     \* bound: processes killed, or in a section for LOCK_STALE_S

AnyRevision == Revisions \cup {NoRevision}
Roots       == {r \in Revisions : Parent[r] = NoRevision}

ASSUME RevisionTree ==
    /\ NoRevision \notin Revisions
    /\ Parent \in [Revisions -> AnyRevision]
    /\ Roots \subseteq Passing /\ Passing \subseteq Revisions

ASSUME Markers ==
    /\ NoKey \notin Keys
    /\ Free \notin Procs /\ Left \notin Procs /\ Stale \notin Procs
    /\ Free # Left /\ Free # Stale /\ Left # Stale

ASSUME CallBounds == MaxCalls \in Nat /\ MaxLapses \in Nat

VARIABLES
    published,  \* the revision directories, oldest first
    committed,  \* those whose manifest says committed
    pointer,    \* the file active
    index,      \* idempotency.json
    decisions,  \* decisions.jsonl
    staging,    \* .<revision>.partial directories of confirm
    lock,       \* the file .lock: its creator
    call,       \* what each process is doing
    calls, lapses

vars == <<published, committed, pointer, index, decisions, staging, lock, call,
          calls, lapses>>

-----------------------------------------------------------------------------

Published == {published[i] : i \in DOMAIN published}

\* _active: the pointer, or the newest committed revision.
Active ==
    LET live == {i \in DOMAIN published : published[i] \in committed} IN
    IF pointer # NoRevision THEN pointer
    ELSE IF live = {} THEN NoRevision
    ELSE published[CHOOSE i \in live : \A j \in live : j <= i]

\* then: the section entered with the lock, or the step after its release.
Idle == [pc |-> "idle", then |-> "idle", base |-> NoRevision, key |-> NoKey,
         accept |-> FALSE, rev |-> NoRevision, expected |-> NoRevision,
         seen |-> NoRevision, read |-> [e \in {} |-> NoRevision]]

At(p, pc)    == call[p].pc = pc
Do(p, doing) == call' = [call EXCEPT ![p] = doing]
To(p, pc)    == Do(p, [call[p] EXCEPT !.pc = pc])
Returns(p)   == Do(p, Idle)

\* with _lock(...), and its end.
Locking(doing, section) == [doing EXCEPT !.pc = "wait", !.then = section]
Leaving(doing, next)    == [doing EXCEPT !.pc = "leave", !.then = next]

Tree    == <<published, committed, pointer>>
Files   == <<published, committed, pointer, index, decisions, staging>>
Counted == <<calls, lapses>>

\* A new process, in a slot whose last one has ended.
Starts(p, doing) ==
    /\ At(p, "idle") /\ calls < MaxCalls
    /\ Do(p, doing)
    /\ calls' = calls + 1

-----------------------------------------------------------------------------
(* The lock file.                                                          *)

Create(p) ==
    /\ At(p, "wait") /\ lock = Free
    /\ lock' = p
    /\ To(p, call[p].then)
    /\ UNCHANGED <<Files, Counted>>

\* (Mutant: any lock file is taken for an abandoned one.)
SeeAny(p) ==
    /\ At(p, "wait") /\ lock # Free
    /\ To(p, "break")
    /\ UNCHANGED <<Files, lock, Counted>>

\* The age of the file is read, and the file is removed in a later step.
SeeStale(p) ==
    /\ At(p, "wait") /\ lock = Stale
    /\ To(p, "break")
    /\ UNCHANGED <<Files, lock, Counted>>

\* Whatever file is there by then is removed.
Break(p) ==
    /\ At(p, "break")
    /\ lock' = Free
    /\ To(p, "wait")
    /\ UNCHANGED <<Files, Counted>>

\* LOCK_TIMEOUT_S; the build, if there was one, is deleted.
TimesOut(p) ==
    /\ At(p, "wait") /\ lock \notin {Free, Stale}
    /\ Returns(p)
    /\ UNCHANGED <<Files, lock, Counted>>

\* finally: path.unlink, whoever's file it is.
Leave(p) ==
    /\ At(p, "leave")
    /\ lock' = Free
    /\ IF call[p].then = "idle" THEN Returns(p) ELSE To(p, call[p].then)
    /\ UNCHANGED <<Files, Counted>>

\* LOCK_STALE_S pass after a process was killed.
Age ==
    /\ lock = Left
    /\ lock' = Stale
    /\ UNCHANGED <<Files, call, Counted>>

\* LOCK_STALE_S pass while p is in its section: the age of the file is all that is
\* looked at, so a slow process loses its lock and goes on.
Outstay(p) ==
    /\ lock = p /\ lapses < MaxLapses
    /\ lock' = Stale
    /\ lapses' = lapses + 1
    /\ UNCHANGED <<Files, call, calls>>

\* A process is killed.  Its files stay as they are.
Crash(p) ==
    /\ ~At(p, "idle") /\ lapses < MaxLapses
    /\ Returns(p)
    /\ lock' = IF lock = p THEN Left ELSE lock
    /\ lapses' = lapses + 1
    /\ UNCHANGED <<Files, calls>>

-----------------------------------------------------------------------------
(* propose: apply_edit and create_preview.                                 *)

Propose(p) ==
    /\ \E base \in Published, key \in Keys \cup {NoKey}, accept \in BOOLEAN :
         LET asked == [Idle EXCEPT !.base = base, !.key = key, !.accept = accept] IN
         Starts(p, IF key = NoKey THEN [asked EXCEPT !.pc = "build"]
                   ELSE Locking(asked, "lookup"))
    /\ UNCHANGED <<Files, lock, lapses>>

\* apply_edit's verdict is that of what it built, or of the revision it was
\* given without a build.  A blocked revision is declined; one that is ok is
\* committed over its base when --accept says so.
Judged(doing, rev) ==
    LET given == [doing EXCEPT !.rev = rev, !.expected = doing.base] IN
    IF given.seen \notin Passing THEN Leaving(given, "dispose")
    ELSE IF given.accept THEN Leaving(given, "gate")
    ELSE Leaving(given, "idle")

Known(p) == call[p].read[<<call[p].base, call[p].key>>]

Lookup(p) ==
    /\ At(p, "lookup")
    /\ LET known == index[<<call[p].base, call[p].key>>] IN
       IF known \in Published THEN Do(p, Judged([call[p] EXCEPT !.seen = known], known))
       ELSE Do(p, Leaving(call[p], "build"))
    /\ UNCHANGED <<Files, lock, Counted>>

\* In a directory of its own, without the lock.
Build(p) ==
    /\ At(p, "build")
    /\ \/ \E r \in Revisions :
             Parent[r] = call[p].base /\ Do(p, Locking([call[p] EXCEPT !.seen = r], "read"))
       \/ Returns(p)
    /\ UNCHANGED <<Files, lock, Counted>>

ReadIndex(p) ==
    /\ At(p, "read")
    /\ Do(p, [call[p] EXCEPT !.pc = "publish", !.read = index])
    /\ UNCHANGED <<Files, lock, Counted>>

\* (Mutant: the key is not looked up again after the build.)
PublishAnyway(p) ==
    /\ At(p, "publish")
    /\ published' = IF call[p].seen \in Published THEN published
                    ELSE Append(published, call[p].seen)
    /\ Do(p, IF call[p].key = NoKey THEN Judged(call[p], call[p].seen)
             ELSE [call[p] EXCEPT !.pc = "index"])
    /\ UNCHANGED <<committed, pointer, index, decisions, staging, lock, Counted>>

\* A concurrent caller with the key has won, or the revision is there, or the
\* working directory becomes it.
Publish(p) ==
    /\ At(p, "publish")
    /\ IF call[p].key # NoKey /\ Known(p) \in Published
       THEN Do(p, Judged(call[p], Known(p))) /\ UNCHANGED published
       ELSE /\ published' = IF call[p].seen \in Published THEN published
                            ELSE Append(published, call[p].seen)
            /\ Do(p, IF call[p].key = NoKey THEN Judged(call[p], call[p].seen)
                     ELSE [call[p] EXCEPT !.pc = "index"])
    /\ UNCHANGED <<committed, pointer, index, decisions, staging, lock, Counted>>

\* (Mutant: the key is stored for every base.)
WriteIndexByKey(p) ==
    /\ At(p, "index")
    /\ index' = [e \in DOMAIN call[p].read |->
                    IF e[2] = call[p].key THEN call[p].seen ELSE call[p].read[e]]
    /\ Do(p, Judged(call[p], call[p].seen))
    /\ UNCHANGED <<Tree, decisions, staging, lock, Counted>>

\* The whole index is written back.
WriteIndex(p) ==
    /\ At(p, "index")
    /\ index' = [call[p].read EXCEPT ![<<call[p].base, call[p].key>>] = call[p].seen]
    /\ Do(p, Judged(call[p], call[p].seen))
    /\ UNCHANGED <<Tree, decisions, staging, lock, Counted>>

Dispose(p) ==
    /\ At(p, "dispose")
    /\ Do(p, Locking(call[p], "decline"))
    /\ UNCHANGED <<Files, lock, Counted>>

-----------------------------------------------------------------------------
(* accept, decline, confirm.                                               *)

\* Without --expected-active the comparison is waived.
Accept(p) ==
    /\ \E rev \in Published, expected \in AnyRevision :
         Starts(p, [Idle EXCEPT !.pc = "gate", !.rev = rev, !.expected = expected])
    /\ UNCHANGED <<Files, lock, lapses>>

\* _require_committable, before the lock.
Gate(p) ==
    /\ At(p, "gate")
    /\ IF call[p].rev \in Passing THEN Do(p, Locking(call[p], "compare")) ELSE Returns(p)
    /\ UNCHANGED <<Files, lock, Counted>>

Compare(p) ==
    /\ At(p, "compare")
    /\ IF call[p].expected \in {NoRevision, Active}
       THEN Do(p, [call[p] EXCEPT !.pc = "mark", !.seen = Active])
       ELSE Do(p, Leaving(call[p], "idle"))
    /\ UNCHANGED <<Files, lock, Counted>>

\* (Mutant: the pointer moves before the manifest says committed.)
MarkAfterPointing(p) ==
    /\ At(p, "mark")
    /\ pointer' = call[p].rev
    /\ To(p, "log")
    /\ UNCHANGED <<published, committed, index, decisions, staging, lock, Counted>>

Mark(p) ==
    /\ At(p, "mark")
    /\ committed' = committed \cup {call[p].rev}
    /\ To(p, "point")
    /\ UNCHANGED <<published, pointer, index, decisions, staging, lock, Counted>>

\* (Mutant: the decision is logged after the lock is released.)
PointAndLeave(p) ==
    /\ At(p, "point")
    /\ pointer' = call[p].rev
    /\ Do(p, Leaving(call[p], "log"))
    /\ UNCHANGED <<published, committed, index, decisions, staging, lock, Counted>>

Point(p) ==
    /\ At(p, "point")
    /\ pointer' = call[p].rev
    /\ To(p, "log")
    /\ UNCHANGED <<published, committed, index, decisions, staging, lock, Counted>>

Acceptance(p) == [decision |-> "accepted", rev |-> call[p].rev,
                  previous |-> call[p].seen, expected |-> call[p].expected]

Log(p) ==
    /\ At(p, "log")
    /\ decisions' = Append(decisions, Acceptance(p))
    /\ Do(p, Leaving(call[p], "idle"))
    /\ UNCHANGED <<Tree, index, staging, lock, Counted>>

Decline(p) ==
    /\ \E rev \in Published :
         Starts(p, Locking([Idle EXCEPT !.rev = rev], "decline"))
    /\ UNCHANGED <<Files, lock, lapses>>

LogDecline(p) ==
    /\ At(p, "decline")
    /\ decisions' = Append(decisions, [decision |-> "declined", rev |-> call[p].rev])
    /\ Do(p, Leaving(call[p], "idle"))
    /\ UNCHANGED <<Tree, index, staging, lock, Counted>>

\* confirm returns a revision that is there, and is refused while a directory it
\* would build in exists.
Confirm(p) ==
    /\ \E r \in Roots \ (Published \cup staging) :
         /\ Starts(p, [Idle EXCEPT !.pc = "confirm", !.rev = r])
         /\ staging' = staging \cup {r}
    /\ UNCHANGED <<Tree, index, decisions, lock, lapses>>

\* It is renamed, without the lock, or the manifest could not be built.
EndConfirm(p) ==
    /\ At(p, "confirm")
    /\ staging' = staging \ {call[p].rev}
    /\ \/ /\ published' = Append(published, call[p].rev)
          /\ committed' = committed \cup {call[p].rev}
       \/ UNCHANGED <<published, committed>>
    /\ Returns(p)
    /\ UNCHANGED <<pointer, index, decisions, lock, Counted>>

-----------------------------------------------------------------------------

\* A design directory that was staged and not confirmed.
Init ==
    /\ published = <<>> /\ committed = {} /\ pointer = NoRevision
    /\ index = [e \in Revisions \X Keys |-> NoRevision]
    /\ decisions = <<>> /\ staging = {}
    /\ lock = Free
    /\ call = [p \in Procs |-> Idle]
    /\ calls = 0 /\ lapses = 0

Locks(p) == Create(p) \/ SeeStale(p) \/ Break(p) \/ TimesOut(p) \/ Leave(p)

Edits(p) ==
    \/ Propose(p) \/ Lookup(p) \/ Build(p) \/ ReadIndex(p) \/ Publish(p)
    \/ WriteIndex(p) \/ Dispose(p)

Decides(p) ==
    \/ Accept(p) \/ Gate(p) \/ Compare(p) \/ Mark(p) \/ Point(p) \/ Log(p)
    \/ Decline(p) \/ LogDecline(p) \/ Confirm(p) \/ EndConfirm(p)

Next ==
    \/ \E p \in Procs : Locks(p) \/ Edits(p) \/ Decides(p) \/ Crash(p) \/ Outstay(p)
    \/ Age

Spec == Init /\ [][Next]_vars

-----------------------------------------------------------------------------
(* Properties.                                                             *)

Sections == {"lookup", "read", "publish", "index", "compare", "mark", "point", "log",
             "decline", "leave"}

InSection(p) == call[p].pc \in Sections

\* While no process was killed or outstayed its lock, at most one is in a section at
\* any time.
ExclusiveUntilLapse ==
    lapses = 0 => \A p, q \in Procs : InSection(p) /\ InSection(q) => p = q

\* Wherever a process is killed or stalls, and whoever else broke into its section, the
\* pointer names a revision that was published, passed and says committed.
PointerIsCommitted ==
    /\ committed \subseteq Passing
    /\ pointer # NoRevision => pointer \in committed

\* A key's revision is an edit of the base it was asked for, and published.
IndexNamesEdits ==
    \A base \in Revisions, key \in Keys :
        LET r == index[<<base, key>>] IN
        r # NoRevision => r \in Published /\ Parent[r] = base

\* The revision of a key stays its revision, though two processes that miss it in
\* the index both build, and the whole index is written back.
KeyKeepsRevision ==
    [][lapses = 0 =>
         \A e \in Revisions \X Keys : index[e] # NoRevision => index'[e] = index[e]]_vars

Accepted == {i \in DOMAIN decisions : decisions[i].decision = "accepted"}
IsLatest(i) == i \in Accepted /\ \A k \in Accepted : k <= i
\* No acceptance is between the two.
Follows(j, i) == {i, j} \subseteq Accepted /\ i < j /\ \A k \in Accepted : k <= i \/ j <= k

\* No acceptance is lost: each replaces the revision accepted before it, which is
\* the one its caller expected, if any; and the latest one is the pointer once its
\* process is out of the section.  (Proved; the run checks KeepsStoreLedger, of which
\* this is what a reader of the log sees.)
AcceptancesChain ==
    lapses = 0 =>
        /\ \A i, j \in Accepted : Follows(j, i) => decisions[j].previous = decisions[i].rev
        /\ \A i \in Accepted : decisions[i].expected \in {NoRevision, decisions[i].previous}
        /\ lock = Free => \A i \in Accepted : IsLatest(i) => pointer = decisions[i].rev

\* Between the two writes of an acceptance the pointer has moved and its entry is on
\* its way.
Logging == {p \in Procs : At(p, "log")}
Entries ==
    IF lapses = 0 /\ Logging # {}
    THEN Append(decisions, Acceptance(CHOOSE p \in Logging : TRUE))
    ELSE decisions

\* However the processes interleave, an acceptance compares, moves the pointer and is
\* logged as one step would, until a process is killed or outstays its lock; what is
\* left of that afterwards is in StoreLedger.
Ledger ==
    INSTANCE StoreLedger
        WITH Passing <- Passing, NoRevision <- NoRevision, active <- pointer,
             entries <- Entries, lapses <- lapses

KeepsStoreLedger == Ledger!Spec

=============================================================================
