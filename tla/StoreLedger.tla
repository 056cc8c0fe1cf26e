---------------------------- MODULE StoreLedger ----------------------------
(***************************************************************************)
(* What the revision store of a design directory promises of its           *)
(* decisions: an acceptance compares the active revision, moves it and is  *)
(* logged in one step, and the log is never rewritten.  From the first     *)
(* lapse on (a process that is killed, or outstays its lock), moving and   *)
(* logging are two steps of their own, which others may come between and   *)
(* of which one may be missing; still nothing is activated or logged as    *)
(* accepted that did not pass, and no log entry contradicts what its       *)
(* caller expected.                                                        *)
(***************************************************************************)
EXTENDS Naturals, Sequences

CONSTANTS Passing, NoRevision

VARIABLES
    active,   \* what was accepted last, or none
    entries,  \* the decisions, oldest first
    lapses    \* processes killed, or that outstayed their lock

ledger == <<active, entries, lapses>>

Newest(log) == log[Len(log)]

\* One entry is added behind the others.
Adds(before, after) ==
    Len(after) = Len(before) + 1 /\ after = Append(before, Newest(after))

\* The entry of an acceptance, which was what its caller expected, if anything.
Accepts(e) ==
    /\ e.decision = "accepted" /\ e.rev \in Passing
    /\ e.expected \in {NoRevision, e.previous}

Init == active = NoRevision /\ entries = <<>> /\ lapses = 0

\* It replaces the active revision, the one it names as previous.
Accept ==
    /\ Adds(entries, entries')
    /\ LET e == Newest(entries') IN
       Accepts(e) /\ active \in {NoRevision, e.previous} /\ active' = e.rev
    /\ UNCHANGED lapses

Decline ==
    /\ Adds(entries, entries') /\ Newest(entries').decision = "declined"
    /\ UNCHANGED <<active, lapses>>

\* The first lapse may come between an acceptance and its entry.
Lapse ==
    /\ \/ UNCHANGED entries
       \/ lapses = 0 /\ Adds(entries', entries) /\ Accepts(Newest(entries))
    /\ UNCHANGED active
    /\ lapses' = lapses + 1

Move == lapses > 0 /\ active' \in Passing /\ UNCHANGED <<entries, lapses>>

Record ==
    /\ lapses > 0
    /\ Adds(entries, entries') /\ Accepts(Newest(entries'))
    /\ UNCHANGED <<active, lapses>>

Next == Accept \/ Decline \/ Lapse \/ Move \/ Record

Spec == Init /\ [][Next]_ledger

=============================================================================
