--------------------------- MODULE EditStoreProofs ---------------------------
(***************************************************************************)
(* The revision store of a design directory: for any processes, keys and   *)
(* tree of revisions, any number of calls, and any number of lapses of the *)
(* lock: processes killed, and holders that outstayed LOCK_STALE_S.        *)
(***************************************************************************)
EXTENDS EditStore, TLAPS

-----------------------------------------------------------------------------
(* What a process holds.                                                   *)

Indexes == [Revisions \X Keys -> AnyRevision]
Steps   == Sections \cup {"idle", "wait", "break", "build", "dispose", "gate", "confirm"}

\* The record of a process has these fields and no other.
IsDoing(d) ==
    /\ d = [ pc |-> d.pc, then |-> d.then, base |-> d.base, key |-> d.key, accept |-> d.accept,
             rev |-> d.rev, expected |-> d.expected, seen |-> d.seen, read |-> d.read ]
    /\ d.pc \in Steps /\ d.then \in Steps
    /\ d.base \in AnyRevision /\ d.key \in Keys \cup {NoKey} /\ d.rev \in AnyRevision

TypeInv ==
    /\ published \in Seq(Revisions) /\ committed \subseteq Revisions
    /\ pointer \in AnyRevision /\ index \in Indexes
    /\ call = [p \in Procs |-> call[p]]
    /\ \A p \in Procs : IsDoing(call[p])
    /\ lapses \in Nat

\* The step a process is at, or the one it waits, or leaves a section, for.
Aim(d) == IF d.pc \in {"wait", "break", "leave"} THEN d.then ELSE d.pc

\* Entries of an index are published edits of their bases.
NamesEdits(entries) ==
    \A base \in Revisions, key \in Keys :
        LET r == entries[<<base, key>>] IN
        r # NoRevision => r \in Published /\ Parent[r] = base

\* What was true of the revisions when a process read it still is: directories
\* are never removed, and a manifest that says committed goes on saying it.
Ready(d) ==
    /\ d.pc \in {"wait", "break"} => d.then \in {"lookup", "read", "compare", "decline"}
    /\ d.pc = "leave" => d.then \in {"idle", "build", "dispose", "gate"}
    /\ Aim(d) \in {"lookup", "build", "read", "publish", "index"} => d.base \in Revisions
    /\ Aim(d) = "lookup" => d.key \in Keys
    /\ Aim(d) \in {"read", "publish", "index"} =>
          d.seen \in Revisions /\ Parent[d.seen] = d.base
    /\ Aim(d) \in {"publish", "index"} => d.read \in Indexes /\ NamesEdits(d.read)
    /\ Aim(d) = "index" => d.key \in Keys /\ d.seen \in Published
    /\ Aim(d) \in {"compare", "mark", "point"} => d.rev \in Passing
    /\ Aim(d) = "point" => d.rev \in committed
    /\ Aim(d) = "confirm" => d.rev \in Roots

StoreInv ==
    /\ TypeInv
    /\ \A p \in Procs : Ready(call[p])
    /\ NamesEdits(index)
    /\ PointerIsCommitted

-----------------------------------------------------------------------------

\* A directory that is published joins the others.
LEMMA PublishedGrows ==
    ASSUME TypeInv, NEW r \in Revisions
    PROVE  /\ published' = Append(published, r) => Published' = Published \cup {r}
           /\ published' = Append(published, r) => published' \in Seq(Revisions)
           /\ Published \subseteq Revisions
<1>1. Published \subseteq Revisions
  BY DEF Published, TypeInv
<1>2. ASSUME published' = Append(published, r)
      PROVE  Published' = Published \cup {r} /\ published' \in Seq(Revisions)
  <2>1. /\ published' \in Seq(Revisions) /\ Len(published') = Len(published) + 1
        /\ \A i \in 1..Len(published) : published'[i] = published[i]
        /\ published'[Len(published) + 1] = r
        /\ DOMAIN published = 1..Len(published) /\ DOMAIN published' = 1..Len(published')
        /\ Len(published) \in Nat
    BY <1>2 DEF TypeInv
  <2>2. 1..Len(published') = 1..Len(published) \cup {Len(published) + 1}
    BY <2>1
  <2> QED
    BY <2>1, <2>2 DEF Published
<1> QED
  BY <1>1, <1>2

\* A step of p leaves the other processes ready.
LEMMA OthersReady ==
    ASSUME StoreInv, NEW p \in Procs, NEW doing, IsDoing(doing),
           call' = [call EXCEPT ![p] = doing],
           Published \subseteq Published', committed \subseteq committed', Ready(call[p])'
    PROVE  /\ call' = [q \in Procs |-> call'[q]]
           /\ \A q \in Procs : IsDoing(call'[q]) /\ Ready(call[q])'
<1>1. /\ call' = [q \in Procs |-> call'[q]] /\ call'[p] = doing
      /\ \A q \in Procs : q # p => call'[q] = call[q]
  BY DEF StoreInv, TypeInv
<1>2. ASSUME NEW q \in Procs, q # p PROVE Ready(call[q])'
  <2>1. call'[q] = call[q] /\ Ready(call[q])
    BY <1>1, <1>2 DEF StoreInv
  <2>2. NamesEdits(call[q].read) => NamesEdits(call[q].read)'
    BY <2>1 DEF NamesEdits
  <2> QED
    BY <2>1, <2>2 DEF Ready, Aim
<1> QED
  BY <1>1, <1>2 DEF StoreInv, TypeInv

\* A step of p that leaves the store alone, or adds to it what it may.
LEMMA StoreStep ==
    ASSUME StoreInv, NEW p \in Procs, NEW doing, IsDoing(doing),
           call' = [call EXCEPT ![p] = doing],
           Ready(call[p])', published' \in Seq(Revisions), Published \subseteq Published',
           committed \subseteq committed', committed' \subseteq Passing,
           pointer' \in committed' \cup {pointer}, index' \in Indexes, NamesEdits(index)',
           lapses' \in Nat
    PROVE  StoreInv'
<1>1. /\ call' = [q \in Procs |-> call'[q]]
      /\ \A q \in Procs : IsDoing(call'[q]) /\ Ready(call[q])'
  BY OthersReady
<1>2. committed' \subseteq Revisions /\ pointer' \in AnyRevision
  BY RevisionTree DEF StoreInv, TypeInv, AnyRevision
<1>3. PointerIsCommitted'
  BY DEF StoreInv, PointerIsCommitted
<1> QED
  BY <1>1, <1>2, <1>3 DEF StoreInv, TypeInv

\* The same for a step that changes no file but the lock, the log and the
\* directories that confirm builds in.
LEMMA FilesKept ==
    ASSUME StoreInv, NEW p \in Procs, NEW doing, IsDoing(doing),
           call' = [call EXCEPT ![p] = doing],
           Ready(call[p])', UNCHANGED <<published, committed, pointer, index>>, lapses' \in Nat
    PROVE  StoreInv'
<1>1. Published' = Published
  BY DEF Published
<1>2. NamesEdits(index)'
  BY <1>1 DEF StoreInv, NamesEdits
<1> QED
  BY <1>1, <1>2, StoreStep DEF StoreInv, TypeInv, PointerIsCommitted

\* A process that has returned is ready for anything.
LEMMA IdleReady ==
    ASSUME StoreInv, NEW p \in Procs, call' = [call EXCEPT ![p] = Idle]
    PROVE  IsDoing(Idle) /\ call'[p] = Idle /\ Ready(call[p])'
<1>1. call'[p] = Idle
  BY DEF StoreInv, TypeInv
<1> QED
  BY <1>1 DEF Ready, Aim, IsDoing, Idle, Steps, Sections, AnyRevision

LEMMA LocksStep ==
    ASSUME StoreInv, NEW p \in Procs, Locks(p) PROVE StoreInv'
<1>1. UNCHANGED <<published, committed, pointer, index, lapses, Published>>
  BY DEF Locks, Create, SeeStale, Break, TimesOut, Leave, Files, Counted, Published
<1>2. /\ lapses' \in Nat /\ IsDoing(call[p]) /\ Ready(call[p])
      /\ call = [q \in Procs |-> call[q]]
  BY <1>1 DEF StoreInv, TypeInv
<1>3. ASSUME NEW pc \in Steps, call' = [call EXCEPT ![p] = [call[p] EXCEPT !.pc = pc]],
             \/ call[p].pc \in {"wait", "break"} /\ pc \in {"wait", "break", call[p].then}
             \/ call[p].pc = "leave" /\ pc = call[p].then
      PROVE  StoreInv'
  <2> DEFINE doing == [call[p] EXCEPT !.pc = pc]
  <2>1. doing = [ pc |-> pc, then |-> call[p].then, base |-> call[p].base,
                  key |-> call[p].key, accept |-> call[p].accept, rev |-> call[p].rev,
                  expected |-> call[p].expected, seen |-> call[p].seen,
                  read |-> call[p].read ]
    BY <1>2 DEF IsDoing
  <2>2. call'[p] = doing
    BY <1>2, <1>3
  <2>3. IsDoing(doing)
    BY <1>2, <2>1 DEF IsDoing
  <2>4. Ready(call[p])'
    <3>1. Aim(doing) = Aim(call[p])
      BY <1>2, <1>3, <2>1 DEF Ready, Aim
    <3> DEFINE now == call'[p]
    <3>2. /\ now.pc = pc /\ now.then = call[p].then /\ now.base = call[p].base
          /\ now.key = call[p].key /\ now.rev = call[p].rev /\ now.seen = call[p].seen
          /\ now.read = call[p].read /\ Aim(now) = Aim(call[p])
      BY <2>1, <2>2, <3>1
    <3> HIDE DEF doing, now
    <3>3. Published' = Published /\ committed' = committed
      BY <1>1
    <3>4. NamesEdits(call[p].read) => NamesEdits(call[p].read)'
      BY <3>2, <3>3 DEF NamesEdits, now
    <3> QED
      BY <1>2, <1>3, <3>2, <3>3, <3>4 DEF Ready, Aim, now
  <2> QED
    BY <1>1, <1>2, <1>3, <2>3, <2>4, FilesKept
<1>4. ASSUME call' = [call EXCEPT ![p] = Idle] PROVE StoreInv'
  BY <1>1, <1>2, <1>4, IdleReady, FilesKept
<1>5. call[p].then \in Steps /\ "wait" \in Steps /\ "break" \in Steps
  BY <1>2 DEF IsDoing, Steps
<1>6. CASE Create(p)
  BY <1>3, <1>5, <1>6 DEF Create, To, Do, At
<1>7. CASE SeeStale(p)
  BY <1>3, <1>5, <1>7 DEF SeeStale, To, Do, At
<1>8. CASE Break(p)
  BY <1>3, <1>5, <1>8 DEF Break, To, Do, At
<1>9. CASE TimesOut(p)
  BY <1>4, <1>9 DEF TimesOut, Returns, Do
<1>10. CASE Leave(p)
  BY <1>3, <1>4, <1>5, <1>10 DEF Leave, Returns, To, Do, At
<1> QED
  BY <1>6, <1>7, <1>8, <1>9, <1>10 DEF Locks

-----------------------------------------------------------------------------

\* Between its sections a process needs nothing to be true.
LEMMA FreeReady ==
    ASSUME StoreInv, NEW p \in Procs, NEW doing, call' = [call EXCEPT ![p] = doing],
           \/ doing.pc = "leave" /\ doing.then \in {"idle", "dispose", "gate"}
           \/ doing.pc = "wait" /\ doing.then = "decline"
           \/ doing.pc \in {"idle", "dispose", "gate", "log"}
    PROVE  Ready(call[p])'
<1>1. call'[p] = doing
  BY DEF StoreInv, TypeInv
<1> QED
  BY <1>1 DEF Ready, Aim

\* Its record stays a record, with the other fields as they were.
Shape(d, pc, then, seen, read) ==
    [ pc |-> pc, then |-> then, base |-> d.base, key |-> d.key, accept |-> d.accept,
      rev |-> d.rev, expected |-> d.expected, seen |-> seen, read |-> read ]

LEMMA Shapes ==
    ASSUME NEW d, IsDoing(d), NEW pc \in Steps, NEW then \in Steps, NEW seen, NEW read
    PROVE  /\ IsDoing(Shape(d, pc, then, seen, read))
           /\ [d EXCEPT !.pc = pc] = Shape(d, pc, d.then, d.seen, d.read)
           /\ [d EXCEPT !.seen = seen] = Shape(d, d.pc, d.then, seen, d.read)
           /\ [d EXCEPT !.pc = pc, !.seen = seen] = Shape(d, pc, d.then, seen, d.read)
           /\ [d EXCEPT !.pc = pc, !.read = read] = Shape(d, pc, d.then, d.seen, read)
           /\ Locking(d, then) = Shape(d, "wait", then, d.seen, d.read)
           /\ Leaving(d, then) = Shape(d, "leave", then, d.seen, d.read)
<1>1. IsDoing(Shape(d, pc, then, seen, read))
  BY DEF IsDoing, Shape
<1>2. [d EXCEPT !.pc = pc] = Shape(d, pc, d.then, d.seen, d.read)
  BY DEF IsDoing, Shape
<1>3. [d EXCEPT !.seen = seen] = Shape(d, d.pc, d.then, seen, d.read)
  BY DEF IsDoing, Shape
<1>4. [d EXCEPT !.pc = pc, !.seen = seen] = Shape(d, pc, d.then, seen, d.read)
  <2>1. [d EXCEPT !.pc = pc, !.seen = seen] = [[d EXCEPT !.pc = pc] EXCEPT !.seen = seen]
    BY Zenon
  <2>2. PICK m : m = [d EXCEPT !.pc = pc]
    OBVIOUS
  <2>3. m = Shape(d, pc, d.then, d.seen, d.read)
    BY <1>2, <2>2
  <2>4. [m EXCEPT !.seen = seen] = Shape(d, pc, d.then, seen, d.read)
    BY <2>3 DEF Shape
  <2> QED
    BY <2>1, <2>2, <2>4, Zenon
<1>5. [d EXCEPT !.pc = pc, !.read = read] = Shape(d, pc, d.then, d.seen, read)
  <2>1. [d EXCEPT !.pc = pc, !.read = read] = [[d EXCEPT !.pc = pc] EXCEPT !.read = read]
    BY Zenon
  <2>2. PICK m : m = [d EXCEPT !.pc = pc]
    OBVIOUS
  <2>3. m = Shape(d, pc, d.then, d.seen, d.read)
    BY <1>2, <2>2
  <2>4. [m EXCEPT !.read = read] = Shape(d, pc, d.then, d.seen, read)
    BY <2>3 DEF Shape
  <2> QED
    BY <2>1, <2>2, <2>4, Zenon
<1>6. Locking(d, then) = Shape(d, "wait", then, d.seen, d.read)
  <2>1. Locking(d, then) = [[d EXCEPT !.pc = "wait"] EXCEPT !.then = then]
    BY Zenon DEF Locking
  <2>2. [d EXCEPT !.pc = "wait"] = Shape(d, "wait", d.then, d.seen, d.read)
    BY DEF IsDoing, Shape
  <2> QED
    BY <2>1, <2>2 DEF Shape
<1>7. Leaving(d, then) = Shape(d, "leave", then, d.seen, d.read)
  <2>1. Leaving(d, then) = [[d EXCEPT !.pc = "leave"] EXCEPT !.then = then]
    BY Zenon DEF Leaving
  <2>2. [d EXCEPT !.pc = "leave"] = Shape(d, "leave", d.then, d.seen, d.read)
    BY DEF IsDoing, Shape
  <2> QED
    BY <2>1, <2>2 DEF Shape
<1> QED
  BY <1>1, <1>2, <1>3, <1>4, <1>5, <1>6, <1>7

LEMMA JudgedShape ==
    ASSUME NEW d, IsDoing(d), NEW rev \in AnyRevision
    PROVE  /\ IsDoing(Judged(d, rev))
           /\ Judged(d, rev).pc = "leave" /\ Judged(d, rev).then \in {"idle", "dispose", "gate"}
<1> DEFINE given == [d EXCEPT !.rev = rev, !.expected = d.base]
<1>1. given = [ pc |-> d.pc, then |-> d.then, base |-> d.base, key |-> d.key,
                accept |-> d.accept, rev |-> rev, expected |-> d.base, seen |-> d.seen,
                read |-> d.read ]
  <2>1. given = [[d EXCEPT !.rev = rev] EXCEPT !.expected = d.base]
    BY Zenon
  <2>2. [d EXCEPT !.rev = rev]
         = [ pc |-> d.pc, then |-> d.then, base |-> d.base, key |-> d.key,
             accept |-> d.accept, rev |-> rev, expected |-> d.expected, seen |-> d.seen,
             read |-> d.read ]
    BY DEF IsDoing
  <2>3. PICK m : m = [d EXCEPT !.rev = rev]
    OBVIOUS
  <2>4. m = [ pc |-> d.pc, then |-> d.then, base |-> d.base, key |-> d.key,
              accept |-> d.accept, rev |-> rev, expected |-> d.expected, seen |-> d.seen,
              read |-> d.read ]
    BY <2>2, <2>3
  <2>5. [m EXCEPT !.expected = d.base]
         = [ pc |-> d.pc, then |-> d.then, base |-> d.base, key |-> d.key,
             accept |-> d.accept, rev |-> rev, expected |-> d.base, seen |-> d.seen,
             read |-> d.read ]
    BY <2>4
  <2> QED
    BY <2>1, <2>3, <2>5, Zenon
<1>2. IsDoing(given)
  BY <1>1 DEF IsDoing
<1> HIDE DEF given
<1>3. PICK then \in {"idle", "dispose", "gate"} : Judged(d, rev) = Leaving(given, then)
  BY DEF Judged, given
<1>4. "leave" \in Steps /\ then \in Steps
  BY DEF Steps, Sections
<1>5. Leaving(given, then) = Shape(given, "leave", then, given.seen, given.read)
  BY <1>2, <1>4, Shapes
<1>6. IsDoing(Shape(given, "leave", then, given.seen, given.read))
  BY <1>2, <1>4 DEF IsDoing, Shape
<1>7. Leaving(given, then).pc = "leave" /\ Leaving(given, then).then = then
  BY <1>5 DEF Shape
<1> QED
  BY <1>3, <1>5, <1>6, <1>7

\* What a new process starts with.
Start(pc, base, key, accept, rev, expected) ==
    [ pc |-> pc, then |-> "idle", base |-> base, key |-> key, accept |-> accept, rev |-> rev,
      expected |-> expected, seen |-> NoRevision, read |-> [e \in {} |-> NoRevision] ]

LEMMA StartShapes ==
    ASSUME NEW x, NEW y, NEW z
    PROVE  /\ [Idle EXCEPT !.base = x, !.key = y, !.accept = z]
                = Start("idle", x, y, z, NoRevision, NoRevision)
           /\ [Idle EXCEPT !.pc = x, !.rev = y] = Start(x, NoRevision, NoKey, FALSE, y, NoRevision)
           /\ [Idle EXCEPT !.rev = y] = Start("idle", NoRevision, NoKey, FALSE, y, NoRevision)
<1>1. PICK m : m = Idle
  OBVIOUS
<1>2. m = Start("idle", NoRevision, NoKey, FALSE, NoRevision, NoRevision)
  BY <1>1 DEF Idle, Start
<1>3. PICK n : n = [m EXCEPT !.rev = y]
  OBVIOUS
<1>4. n = Start("idle", NoRevision, NoKey, FALSE, y, NoRevision)
  BY <1>2, <1>3 DEF Start
<1>5. PICK b : b = [m EXCEPT !.base = x]
  OBVIOUS
<1>6. b = Start("idle", x, NoKey, FALSE, NoRevision, NoRevision)
  BY <1>2, <1>5 DEF Start
<1>7. PICK k : k = [b EXCEPT !.key = y]
  OBVIOUS
<1>8. k = Start("idle", x, y, FALSE, NoRevision, NoRevision)
  BY <1>6, <1>7 DEF Start
<1>9. [k EXCEPT !.accept = z] = Start("idle", x, y, z, NoRevision, NoRevision)
  BY <1>8 DEF Start
<1>10. [m EXCEPT !.base = x, !.key = y, !.accept = z] = [k EXCEPT !.accept = z]
  BY <1>5, <1>7, Zenon
<1>11. PICK c : c = [m EXCEPT !.pc = x]
  OBVIOUS
<1>12. c = Start(x, NoRevision, NoKey, FALSE, NoRevision, NoRevision)
  BY <1>2, <1>11 DEF Start
<1>13. PICK r : r = [c EXCEPT !.rev = y]
  OBVIOUS
<1>14. r = Start(x, NoRevision, NoKey, FALSE, y, NoRevision)
  BY <1>12, <1>13 DEF Start
<1>15. [m EXCEPT !.pc = x, !.rev = y] = r
  BY <1>11, <1>13, Zenon
<1> QED
  BY <1>1, <1>3, <1>9, <1>10, <1>14, <1>15, <1>4, Zenon

-----------------------------------------------------------------------------
(* The steps of propose.                                                   *)

\* What is true before each of them.
LEMMA Before ==
    ASSUME StoreInv, NEW p \in Procs
    PROVE  /\ IsDoing(call[p]) /\ Ready(call[p]) /\ IsDoing(Idle)
           /\ NamesEdits(index) /\ index \in Indexes /\ lapses \in Nat
           /\ published \in Seq(Revisions) /\ Published \subseteq Revisions
           /\ committed \subseteq Passing
           /\ \A doing : call' = [call EXCEPT ![p] = doing] => call'[p] = doing
<1>1. IsDoing(Idle)
  BY DEF IsDoing, Idle, Steps, Sections, AnyRevision
<1> QED
  BY <1>1, PublishedGrows DEF StoreInv, TypeInv, PointerIsCommitted, Published

LEMMA ProposeStep ==
    ASSUME StoreInv, NEW p \in Procs, Propose(p) PROVE StoreInv'
<1>1. PICK base \in Published, key \in Keys \cup {NoKey}, accept \in BOOLEAN :
        LET asked == [Idle EXCEPT !.base = base, !.key = key, !.accept = accept] IN
        Starts(p, IF key = NoKey THEN [asked EXCEPT !.pc = "build"]
                  ELSE Locking(asked, "lookup"))
  BY DEF Propose
<1>2. PICK asked : asked = [Idle EXCEPT !.base = base, !.key = key, !.accept = accept]
  OBVIOUS
<1>3. asked = Start("idle", base, key, accept, NoRevision, NoRevision)
  BY <1>2, StartShapes
<1>4. IsDoing(asked) /\ base \in Revisions
  BY <1>3, Before DEF IsDoing, Start, Steps, Sections, AnyRevision
<1>5. PICK doing : /\ call' = [call EXCEPT ![p] = doing]
                   /\ IF key = NoKey
                      THEN doing = Shape(asked, "build", "idle", NoRevision, asked.read)
                      ELSE doing = Shape(asked, "wait", "lookup", NoRevision, asked.read)
  <2>1. /\ [asked EXCEPT !.pc = "build"]
              = Shape(asked, "build", asked.then, asked.seen, asked.read)
        /\ Locking(asked, "lookup")
              = Shape(asked, "wait", "lookup", asked.seen, asked.read)
    BY <1>4, Shapes DEF Steps, Sections
  <2>2. asked.then = "idle" /\ asked.seen = NoRevision
    BY <1>3 DEF Start
  <2> QED
    BY <1>1, <1>2, <2>1, <2>2 DEF Starts, Do
<1>6. IsDoing(doing)
  BY <1>4, <1>5 DEF IsDoing, Shape, Steps, Sections
<1>7. Ready(call[p])'
  <2>1. asked.base = base /\ asked.key = key
    BY <1>3 DEF Start
  <2>2. call'[p] = doing
    BY <1>5, Before
  <2>3. doing.base = base /\ doing.key = key
    BY <1>5, <2>1 DEF Shape
  <2>4. \/ doing.pc = "build"
        \/ doing.pc = "wait" /\ doing.then = "lookup" /\ key \in Keys
    BY <1>5 DEF Shape
  <2> QED
    BY <1>4, <2>2, <2>4, <2>3 DEF Ready, Aim
<1> QED
  BY <1>5, <1>6, <1>7, Before, FilesKept DEF Propose, Files

\* A judged process leaves its section, and is ready.
LEMMA JudgedReady ==
    ASSUME StoreInv, NEW p \in Procs, NEW d, IsDoing(d), NEW rev \in AnyRevision,
           call' = [call EXCEPT ![p] = Judged(d, rev)]
    PROVE  IsDoing(Judged(d, rev)) /\ Ready(call[p])'
BY JudgedShape, FreeReady

LEMMA LookupStep ==
    ASSUME StoreInv, NEW p \in Procs, Lookup(p) PROVE StoreInv'
<1> DEFINE known == index[<<call[p].base, call[p].key>>]
<1>1. call[p].pc = "lookup" /\ call[p].base \in Revisions /\ call[p].key \in Keys
  BY Before DEF Lookup, At, Ready, Aim
<1>2. CASE known \in Published
  <2>1. PICK found : found = [call[p] EXCEPT !.seen = known]
    OBVIOUS
  <2>2. IsDoing(found) /\ known \in AnyRevision
    <3>1. IsDoing(call[p]) /\ call[p].pc \in Steps
      BY Before DEF IsDoing
    <3>2. found = Shape(call[p], call[p].pc, call[p].then, known, call[p].read)
      BY <2>1, <3>1, Shapes
    <3> QED
      BY <1>2, <3>1, <3>2, Before DEF AnyRevision, IsDoing, Shape
  <2>3. call' = [call EXCEPT ![p] = Judged(found, known)]
    BY <1>2, <2>1 DEF Lookup, Do
  <2>5. IsDoing(Judged(found, known)) /\ Ready(call[p])'
    BY <2>2, <2>3, JudgedReady
  <2>6. UNCHANGED <<published, committed, pointer, index>> /\ lapses' \in Nat
    BY Before DEF Lookup, Files, Counted
  <2> QED
    BY <2>3, <2>5, <2>6, FilesKept
<1>3. CASE known \notin Published
  <2>1. PICK doing : doing = Leaving(call[p], "build")
    OBVIOUS
  <2>2. call' = [call EXCEPT ![p] = doing]
    BY <1>3, <2>1 DEF Lookup, Do
  <2>3. doing = Shape(call[p], "leave", "build", call[p].seen, call[p].read)
    BY <2>1, Before, Shapes DEF Steps
  <2>4. IsDoing(doing)
    BY <2>3, Before, Shapes DEF Steps, Sections
  <2>5. Ready(call[p])'
    BY <1>1, <2>2, <2>3, Before DEF Shape, Ready, Aim
  <2> QED
    BY <2>2, <2>4, <2>5, Before, FilesKept DEF Lookup, Files, Counted
<1> QED
  BY <1>2, <1>3

LEMMA BuildStep ==
    ASSUME StoreInv, NEW p \in Procs, Build(p) PROVE StoreInv'
<1>1. UNCHANGED <<published, committed, pointer, index>> /\ lapses' \in Nat
  BY Before DEF Build, Files, Counted
<1>2. CASE Returns(p)
  BY <1>1, <1>2, IdleReady, FilesKept DEF Returns, Do
<1>3. ASSUME NEW r \in Revisions, Parent[r] = call[p].base,
             Do(p, Locking([call[p] EXCEPT !.seen = r], "read"))
      PROVE  StoreInv'
  <2>1. PICK found : found = [call[p] EXCEPT !.seen = r]
    OBVIOUS
  <2>2. IsDoing(call[p]) /\ call[p].pc \in Steps /\ "read" \in Steps /\ "wait" \in Steps
    BY Before DEF IsDoing, Steps, Sections
  <2>3. found = Shape(call[p], call[p].pc, call[p].then, r, call[p].read)
    BY <2>1, <2>2, Shapes
  <2>4. IsDoing(found)
    BY <2>2, <2>3 DEF IsDoing, Shape
  <2>5. PICK doing : doing = Locking(found, "read")
    OBVIOUS
  <2>6. doing = Shape(found, "wait", "read", found.seen, found.read)
    BY <2>2, <2>4, <2>5, Shapes
  <2>7. IsDoing(doing)
    BY <2>2, <2>4, <2>6 DEF IsDoing, Shape
  <2>8. call' = [call EXCEPT ![p] = doing]
    BY <1>3, <2>1, <2>5 DEF Do
  <2>9. found.seen = r /\ found.base = call[p].base
    BY <2>3 DEF Shape
  <2>10. /\ doing.pc = "wait" /\ doing.then = "read" /\ doing.seen = r
         /\ doing.base = call[p].base
    BY <2>6, <2>9 DEF Shape
  <2>11. call[p].base \in Revisions
    BY Before DEF Build, At, Ready, Aim
  <2>12. call'[p] = doing
    BY <2>8, Before
  <2>13. Ready(call[p])'
    BY <1>3, <2>10, <2>11, <2>12 DEF Ready, Aim
  <2> QED
    BY <1>1, <2>7, <2>8, <2>13, FilesKept
<1> QED
  BY <1>2, <1>3 DEF Build

LEMMA ReadIndexStep ==
    ASSUME StoreInv, NEW p \in Procs, ReadIndex(p) PROVE StoreInv'
<1>1. /\ UNCHANGED <<published, committed, pointer, index>> /\ lapses' \in Nat
      /\ Published' = Published
  BY Before DEF ReadIndex, Files, Counted, Published
<1>2. PICK doing : doing = [call[p] EXCEPT !.pc = "publish", !.read = index]
  OBVIOUS
<1>3. IsDoing(call[p]) /\ "publish" \in Steps
  BY Before DEF Steps, Sections
<1>4. doing = Shape(call[p], "publish", call[p].then, call[p].seen, index)
  BY <1>2, <1>3 DEF IsDoing, Shape
<1>5. IsDoing(doing)
  BY <1>3, <1>4 DEF IsDoing, Shape
<1>6. call' = [call EXCEPT ![p] = doing] /\ call'[p] = doing
  BY <1>2, Before DEF ReadIndex, Do
<1>7. Ready(call[p])'
  <2>1. /\ doing.pc = "publish" /\ doing.read = index /\ doing.seen = call[p].seen
        /\ doing.base = call[p].base
    BY <1>4 DEF Shape
  <2>2. /\ call[p].base \in Revisions /\ call[p].seen \in Revisions
        /\ Parent[call[p].seen] = call[p].base
    BY Before DEF ReadIndex, At, Ready, Aim
  <2>3. NamesEdits(doing.read)' /\ index \in Indexes
    BY <1>1, <2>1, Before DEF NamesEdits
  <2> QED
    BY <1>6, <2>1, <2>2, <2>3 DEF Ready, Aim
<1> QED
  BY <1>1, <1>5, <1>6, <1>7, FilesKept

LEMMA DisposeStep ==
    ASSUME StoreInv, NEW p \in Procs, Dispose(p) PROVE StoreInv'
<1>1. UNCHANGED <<published, committed, pointer, index>> /\ lapses' \in Nat
  BY Before DEF Dispose, Files, Counted
<1>2. PICK doing : doing = Locking(call[p], "decline")
  OBVIOUS
<1>3. IsDoing(call[p]) /\ "decline" \in Steps /\ "wait" \in Steps
  BY Before DEF Steps, Sections
<1>4. doing = Shape(call[p], "wait", "decline", call[p].seen, call[p].read)
  BY <1>2, <1>3, Shapes
<1>5. IsDoing(doing) /\ doing.pc = "wait" /\ doing.then = "decline"
  BY <1>3, <1>4 DEF IsDoing, Shape
<1>6. call' = [call EXCEPT ![p] = doing]
  BY <1>2 DEF Dispose, Do
<1> QED
  BY <1>1, <1>5, <1>6, FreeReady, FilesKept

LEMMA PublishStep ==
    ASSUME StoreInv, NEW p \in Procs, Publish(p) PROVE StoreInv'
<1>1. /\ call[p].pc = "publish" /\ call[p].base \in Revisions
      /\ call[p].seen \in Revisions /\ Parent[call[p].seen] = call[p].base
      /\ call[p].read \in Indexes /\ NamesEdits(call[p].read)
  BY Before DEF Publish, At, Ready, Aim
<1>2. /\ IsDoing(call[p]) /\ "index" \in Steps /\ Published \subseteq Revisions
      /\ published \in Seq(Revisions)
  BY Before DEF Steps, Sections
<1>3. UNCHANGED <<committed, pointer, index>> /\ lapses' = lapses
  BY DEF Publish, Counted
<1>4. ASSUME NEW doing, IsDoing(doing), call' = [call EXCEPT ![p] = doing], Ready(call[p])',
             Published \subseteq Published', published' \in Seq(Revisions)
      PROVE  StoreInv'
  <2>1. NamesEdits(index)' /\ committed' \subseteq Passing /\ index' \in Indexes
    BY <1>3, <1>4, Before DEF NamesEdits
  <2>2. /\ committed \subseteq committed' /\ pointer' \in committed' \cup {pointer}
        /\ lapses' \in Nat
    BY <1>3, Before
  <2> QED
    BY <1>4, <2>1, <2>2, StoreStep
<1>5. CASE call[p].key # NoKey /\ Known(p) \in Published
  <2>1. UNCHANGED published /\ call' = [call EXCEPT ![p] = Judged(call[p], Known(p))]
    BY <1>5 DEF Publish, Do
  <2>2. Known(p) \in AnyRevision /\ Published' = Published
    BY <1>2, <1>5, <2>1 DEF AnyRevision, Published
  <2>3. IsDoing(Judged(call[p], Known(p))) /\ Ready(call[p])'
    BY <1>2, <2>1, <2>2, JudgedReady
  <2> QED
    BY <1>2, <1>4, <2>1, <2>2, <2>3
<1>6. CASE ~(call[p].key # NoKey /\ Known(p) \in Published)
  <2>1. /\ published' = IF call[p].seen \in Published THEN published
                        ELSE Append(published, call[p].seen)
        /\ Do(p, IF call[p].key = NoKey THEN Judged(call[p], call[p].seen)
                 ELSE [call[p] EXCEPT !.pc = "index"])
    BY <1>6 DEF Publish
  <2>2. /\ Published \subseteq Published' /\ call[p].seen \in Published'
        /\ published' \in Seq(Revisions)
    <3>1. published' = published => Published' = Published
      BY DEF Published
    <3>2. published' = Append(published, call[p].seen)
            => Published' = Published \cup {call[p].seen} /\ published' \in Seq(Revisions)
      BY <1>1, PublishedGrows DEF StoreInv
    <3> QED
      BY <1>2, <2>1, <3>1, <3>2
  <2>3. CASE call[p].key = NoKey
    <3>1. call' = [call EXCEPT ![p] = Judged(call[p], call[p].seen)]
      BY <2>1, <2>3 DEF Do
    <3>2. IsDoing(Judged(call[p], call[p].seen)) /\ Ready(call[p])'
      BY <1>1, <1>2, <3>1, JudgedReady DEF AnyRevision
    <3> QED
      BY <1>4, <2>2, <3>1, <3>2
  <2>4. CASE call[p].key # NoKey
    <3>1. PICK doing : doing = [call[p] EXCEPT !.pc = "index"]
      OBVIOUS
    <3>2. doing = Shape(call[p], "index", call[p].then, call[p].seen, call[p].read)
      BY <1>2, <3>1 DEF IsDoing, Shape
    <3>3. IsDoing(doing)
      BY <1>2, <3>2 DEF IsDoing, Shape
    <3>4. call' = [call EXCEPT ![p] = doing] /\ call'[p] = doing
      BY <2>1, <2>4, <3>1, Before DEF Do
    <3>5. /\ doing.pc = "index" /\ doing.base = call[p].base /\ doing.key = call[p].key
          /\ doing.seen = call[p].seen /\ doing.read = call[p].read
      BY <3>2 DEF Shape
    <3>6. NamesEdits(doing.read)'
      BY <1>1, <2>2, <3>4, <3>5 DEF NamesEdits
    <3>7. call[p].key \in Keys
      BY <1>2, <2>4 DEF IsDoing
    <3>8. Ready(call[p])'
      BY <1>1, <2>2, <3>4, <3>5, <3>6, <3>7 DEF Ready, Aim
    <3> QED
      BY <1>4, <2>2, <3>3, <3>4, <3>8
  <2> QED
    BY <2>3, <2>4
<1> QED
  BY <1>5, <1>6

LEMMA WriteIndexStep ==
    ASSUME StoreInv, NEW p \in Procs, WriteIndex(p) PROVE StoreInv'
<1> DEFINE entry == <<call[p].base, call[p].key>>
<1>1. /\ call[p].pc = "index" /\ call[p].base \in Revisions /\ call[p].key \in Keys
      /\ call[p].seen \in Published /\ call[p].seen \in Revisions
      /\ Parent[call[p].seen] = call[p].base
      /\ call[p].read \in Indexes /\ NamesEdits(call[p].read)
  BY Before DEF WriteIndex, At, Ready, Aim
<1>2. /\ UNCHANGED <<published, committed, pointer>> /\ lapses' = lapses
      /\ index' = [call[p].read EXCEPT ![entry] = call[p].seen]
      /\ call' = [call EXCEPT ![p] = Judged(call[p], call[p].seen)]
  BY DEF WriteIndex, Tree, Counted, Do
<1>3. Published' = Published
  BY <1>2 DEF Published
<1>4. index' \in Indexes
  BY <1>1, <1>2 DEF Indexes, AnyRevision
<1>5. NamesEdits(index)'
  <2>1. ASSUME NEW base \in Revisions, NEW key \in Keys
        PROVE  index'[<<base, key>>]
                 = IF base = call[p].base /\ key = call[p].key THEN call[p].seen
                   ELSE call[p].read[<<base, key>>]
    BY <1>1, <1>2 DEF Indexes
  <2> QED
    BY <1>1, <1>3, <2>1 DEF NamesEdits
<1>6. IsDoing(Judged(call[p], call[p].seen)) /\ Ready(call[p])'
  BY <1>1, <1>2, Before, JudgedReady DEF AnyRevision
<1> QED
  BY <1>2, <1>3, <1>4, <1>5, <1>6, Before, StoreStep

LEMMA EditsStep ==
    ASSUME StoreInv, NEW p \in Procs, Edits(p) PROVE StoreInv'
BY ProposeStep, LookupStep, BuildStep, ReadIndexStep, PublishStep, WriteIndexStep, DisposeStep
   DEF Edits

-----------------------------------------------------------------------------
(* The steps of accept, decline and confirm, and the lapses of the lock.   *)

\* A new process that needs nothing, or only a root, to be true.
LEMMA StartStep ==
    ASSUME StoreInv, NEW p \in Procs, NEW pc \in Steps, NEW then \in Steps,
           NEW rev \in AnyRevision, NEW expected,
           \/ pc = "gate"
           \/ pc = "wait" /\ then = "decline"
           \/ pc = "confirm" /\ rev \in Roots,
           call' = [call EXCEPT ![p] =
                      Shape(Start("idle", NoRevision, NoKey, FALSE, rev, expected), pc, then,
                            NoRevision, Idle.read)],
           UNCHANGED <<published, committed, pointer, index, lapses>>
    PROVE  StoreInv'
<1>1. PICK doing : doing = Shape(Start("idle", NoRevision, NoKey, FALSE, rev, expected), pc,
                                 then, NoRevision, Idle.read)
  OBVIOUS
<1>2. /\ doing.pc = pc /\ doing.then = then /\ doing.rev = rev /\ IsDoing(doing)
  BY <1>1 DEF Shape, Start, IsDoing, AnyRevision
<1>3. call' = [call EXCEPT ![p] = doing] /\ call'[p] = doing
  BY <1>1, Before
<1>4. Ready(call[p])'
  BY <1>2, <1>3 DEF Ready, Aim
<1> QED
  BY <1>2, <1>3, <1>4, Before, FilesKept

LEMMA GateShape ==
    \A x, y, z : [Idle EXCEPT !.pc = x, !.rev = y, !.expected = z]
                   = Start(x, NoRevision, NoKey, FALSE, y, z)
<1> TAKE x, y, z
<1>1. PICK m : m = Idle
  OBVIOUS
<1>2. m = Start("idle", NoRevision, NoKey, FALSE, NoRevision, NoRevision)
  BY <1>1 DEF Idle, Start
<1>3. PICK c : c = [m EXCEPT !.pc = x]
  OBVIOUS
<1>4. c = Start(x, NoRevision, NoKey, FALSE, NoRevision, NoRevision)
  BY <1>2, <1>3 DEF Start
<1>5. PICK r : r = [c EXCEPT !.rev = y]
  OBVIOUS
<1>6. r = Start(x, NoRevision, NoKey, FALSE, y, NoRevision)
  BY <1>4, <1>5 DEF Start
<1>7. PICK o : o = [r EXCEPT !.expected = z]
  OBVIOUS
<1>8. o = Start(x, NoRevision, NoKey, FALSE, y, z)
  BY <1>6, <1>7 DEF Start
<1>9. [m EXCEPT !.pc = x, !.rev = y, !.expected = z] = o
  BY <1>3, <1>5, <1>7, Zenon
<1> QED
  BY <1>1, <1>8, <1>9, Zenon

LEMMA AcceptStep ==
    ASSUME StoreInv, NEW p \in Procs, Accept(p) PROVE StoreInv'
<1>1. PICK rev \in Published, expected \in AnyRevision :
        call' = [call EXCEPT ![p] = [Idle EXCEPT !.pc = "gate", !.rev = rev, !.expected = expected]]
  BY DEF Accept, Starts, Do
<1>2. [Idle EXCEPT !.pc = "gate", !.rev = rev, !.expected = expected]
       = Start("gate", NoRevision, NoKey, FALSE, rev, expected)
  BY GateShape, Zenon
<1>3. Start("gate", NoRevision, NoKey, FALSE, rev, expected)
       = Shape(Start("idle", NoRevision, NoKey, FALSE, rev, expected), "gate", "idle",
               NoRevision, Idle.read)
  BY DEF Start, Shape, Idle
<1>4. rev \in AnyRevision /\ "gate" \in Steps /\ "idle" \in Steps
  BY <1>1, Before DEF AnyRevision, Steps
<1>5. UNCHANGED <<published, committed, pointer, index, lapses>>
  BY DEF Accept, Files
<1>6. call' = [call EXCEPT ![p] =
                 Shape(Start("idle", NoRevision, NoKey, FALSE, rev, expected), "gate", "idle",
                       NoRevision, Idle.read)]
  BY <1>1, <1>2, <1>3, Zenon
<1> QED
  BY <1>4, <1>5, <1>6, StartStep

LEMMA DeclineStep ==
    ASSUME StoreInv, NEW p \in Procs, Decline(p) PROVE StoreInv'
<1>1. PICK rev \in Published :
        call' = [call EXCEPT ![p] = Locking([Idle EXCEPT !.rev = rev], "decline")]
  BY DEF Decline, Starts, Do
<1>2. PICK asked : asked = [Idle EXCEPT !.rev = rev]
  OBVIOUS
<1>3. asked = Start("idle", NoRevision, NoKey, FALSE, rev, NoRevision)
  BY <1>2, StartShapes
<1>4. rev \in AnyRevision /\ "decline" \in Steps /\ "wait" \in Steps
  BY <1>1, Before DEF AnyRevision, Steps, Sections
<1>5. IsDoing(asked)
  BY <1>3, <1>4 DEF Start, IsDoing, Steps, AnyRevision
<1>6. Locking(asked, "decline") = Shape(asked, "wait", "decline", asked.seen, asked.read)
  BY <1>4, <1>5, Shapes
<1>7. asked.seen = NoRevision /\ asked.read = Idle.read
  BY <1>3 DEF Start, Idle
<1>8. call' = [call EXCEPT ![p] =
                 Shape(Start("idle", NoRevision, NoKey, FALSE, rev, NoRevision), "wait",
                       "decline", NoRevision, Idle.read)]
  BY <1>1, <1>2, <1>3, <1>6, <1>7
<1> QED
  BY <1>4, <1>8, StartStep DEF Decline, Files

LEMMA ConfirmStep ==
    ASSUME StoreInv, NEW p \in Procs, Confirm(p) PROVE StoreInv'
<1>1. PICK r \in Roots :
        call' = [call EXCEPT ![p] = [Idle EXCEPT !.pc = "confirm", !.rev = r]]
  BY DEF Confirm, Starts, Do
<1>2. [Idle EXCEPT !.pc = "confirm", !.rev = r]
       = Start("confirm", NoRevision, NoKey, FALSE, r, NoRevision)
  BY StartShapes
<1>3. Start("confirm", NoRevision, NoKey, FALSE, r, NoRevision)
       = Shape(Start("idle", NoRevision, NoKey, FALSE, r, NoRevision), "confirm", "idle",
               NoRevision, Idle.read)
  BY DEF Start, Shape, Idle
<1>4. r \in AnyRevision /\ "confirm" \in Steps /\ "idle" \in Steps
  BY <1>1 DEF Roots, AnyRevision, Steps
<1> QED
  BY <1>1, <1>2, <1>3, <1>4, StartStep DEF Confirm, Tree

LEMMA EndConfirmStep ==
    ASSUME StoreInv, NEW p \in Procs, EndConfirm(p) PROVE StoreInv'
<1>1. call[p].rev \in Roots /\ call[p].rev \in Revisions /\ call[p].rev \in Passing
  BY Before, RevisionTree DEF EndConfirm, At, Ready, Aim, Roots
<1>2. /\ UNCHANGED <<pointer, index>> /\ lapses' = lapses
      /\ call' = [call EXCEPT ![p] = Idle]
      /\ \/ /\ published' = Append(published, call[p].rev)
            /\ committed' = committed \cup {call[p].rev}
         \/ UNCHANGED <<published, committed>>
  BY DEF EndConfirm, Returns, Do, Counted
<1>3. Published \subseteq Published' /\ published' \in Seq(Revisions)
  <2>1. published' = published => Published' = Published
    BY DEF Published
  <2>2. published' = Append(published, call[p].rev)
          => Published' = Published \cup {call[p].rev} /\ published' \in Seq(Revisions)
    BY <1>1, PublishedGrows DEF StoreInv
  <2> QED
    BY <1>2, <2>1, <2>2, Before
<1>4. /\ committed \subseteq committed' /\ committed' \subseteq Passing
      /\ pointer' \in committed' \cup {pointer} /\ lapses' \in Nat /\ index' \in Indexes
  BY <1>1, <1>2, Before
<1>5. NamesEdits(index)'
  BY <1>2, <1>3, Before DEF NamesEdits
<1>6. IsDoing(Idle) /\ Ready(call[p])'
  BY <1>2, IdleReady
<1> QED
  BY <1>2, <1>3, <1>4, <1>5, <1>6, StoreStep

LEMMA GateStep ==
    ASSUME StoreInv, NEW p \in Procs, Gate(p) PROVE StoreInv'
<1>1. UNCHANGED <<published, committed, pointer, index>> /\ lapses' \in Nat
  BY Before DEF Gate, Files, Counted
<1>2. CASE Returns(p)
  BY <1>1, <1>2, IdleReady, FilesKept DEF Returns, Do
<1>3. CASE call[p].rev \in Passing /\ Do(p, Locking(call[p], "compare"))
  <2>1. PICK doing : doing = Locking(call[p], "compare")
    OBVIOUS
  <2>2. IsDoing(call[p]) /\ "compare" \in Steps /\ "wait" \in Steps
    BY Before DEF Steps, Sections
  <2>3. doing = Shape(call[p], "wait", "compare", call[p].seen, call[p].read)
    BY <2>1, <2>2, Shapes
  <2>4. /\ IsDoing(doing) /\ doing.pc = "wait" /\ doing.then = "compare"
        /\ doing.rev = call[p].rev
    BY <2>2, <2>3 DEF IsDoing, Shape
  <2>5. call' = [call EXCEPT ![p] = doing] /\ call'[p] = doing
    BY <1>3, <2>1, Before DEF Do
  <2>6. Ready(call[p])'
    BY <1>3, <2>4, <2>5 DEF Ready, Aim
  <2> QED
    BY <1>1, <2>4, <2>5, <2>6, FilesKept
<1> QED
  BY <1>2, <1>3 DEF Gate

\* A process in a section leaves it for nothing more.
LEMMA LeavingStep ==
    ASSUME StoreInv, NEW p \in Procs, Do(p, Leaving(call[p], "idle")),
           UNCHANGED <<published, committed, pointer, index, lapses>>
    PROVE  StoreInv'
<1>1. PICK doing : doing = Leaving(call[p], "idle")
  OBVIOUS
<1>2. IsDoing(call[p]) /\ "idle" \in Steps /\ "leave" \in Steps /\ lapses' \in Nat
  BY Before DEF Steps, Sections
<1>3. doing = Shape(call[p], "leave", "idle", call[p].seen, call[p].read)
  BY <1>1, <1>2, Shapes
<1>4. IsDoing(doing) /\ doing.pc = "leave" /\ doing.then = "idle"
  BY <1>2, <1>3 DEF IsDoing, Shape
<1>5. call' = [call EXCEPT ![p] = doing]
  BY <1>1 DEF Do
<1> QED
  BY <1>2, <1>4, <1>5, FreeReady, FilesKept

LEMMA CompareStep ==
    ASSUME StoreInv, NEW p \in Procs, Compare(p) PROVE StoreInv'
<1>1. UNCHANGED <<published, committed, pointer, index, lapses>> /\ lapses' \in Nat
  BY Before DEF Compare, Files, Counted
<1>2. CASE Do(p, Leaving(call[p], "idle"))
  BY <1>1, <1>2, LeavingStep
<1>3. CASE Do(p, [call[p] EXCEPT !.pc = "mark", !.seen = Active])
  <2>1. PICK doing : doing = [call[p] EXCEPT !.pc = "mark", !.seen = Active]
    OBVIOUS
  <2>2. IsDoing(call[p]) /\ "mark" \in Steps
    BY Before DEF Steps, Sections
  <2>3. doing = Shape(call[p], "mark", call[p].then, Active, call[p].read)
    BY <2>1, <2>2 DEF IsDoing, Shape
  <2>4. IsDoing(doing) /\ doing.pc = "mark" /\ doing.rev = call[p].rev
    BY <2>2, <2>3 DEF IsDoing, Shape
  <2>5. call' = [call EXCEPT ![p] = doing] /\ call'[p] = doing
    BY <1>3, <2>1, Before DEF Do
  <2>6. call[p].rev \in Passing
    BY Before DEF Compare, At, Ready, Aim
  <2>7. Ready(call[p])'
    BY <2>4, <2>5, <2>6 DEF Ready, Aim
  <2> QED
    BY <1>1, <2>4, <2>5, <2>7, FilesKept
<1> QED
  BY <1>2, <1>3 DEF Compare

LEMMA MarkStep ==
    ASSUME StoreInv, NEW p \in Procs, Mark(p) PROVE StoreInv'
<1>1. /\ UNCHANGED <<published, pointer, index, lapses>> /\ Published' = Published
      /\ committed' = committed \cup {call[p].rev}
      /\ call' = [call EXCEPT ![p] = [call[p] EXCEPT !.pc = "point"]]
  BY DEF Mark, Counted, Published, To, Do
<1>2. PICK doing : doing = [call[p] EXCEPT !.pc = "point"]
  OBVIOUS
<1>3. IsDoing(call[p]) /\ "point" \in Steps
  BY Before DEF Steps, Sections
<1>4. doing = Shape(call[p], "point", call[p].then, call[p].seen, call[p].read)
  BY <1>2, <1>3 DEF IsDoing, Shape
<1>5. IsDoing(doing) /\ doing.pc = "point" /\ doing.rev = call[p].rev
  BY <1>3, <1>4 DEF IsDoing, Shape
<1>6. call' = [call EXCEPT ![p] = doing] /\ call'[p] = doing
  BY <1>1, <1>2, Before
<1>7. call[p].rev \in Passing
  BY Before DEF Mark, At, Ready, Aim
<1>8. Ready(call[p])'
  BY <1>1, <1>5, <1>6, <1>7 DEF Ready, Aim
<1>9. NamesEdits(index)' /\ pointer' \in committed' \cup {pointer} /\ committed' \subseteq Passing
  BY <1>1, <1>7, Before DEF NamesEdits
<1> QED
  BY <1>1, <1>5, <1>6, <1>8, <1>9, Before, StoreStep

LEMMA PointStep ==
    ASSUME StoreInv, NEW p \in Procs, Point(p) PROVE StoreInv'
<1>1. /\ UNCHANGED <<published, committed, index, lapses>> /\ Published' = Published
      /\ pointer' = call[p].rev
      /\ call' = [call EXCEPT ![p] = [call[p] EXCEPT !.pc = "log"]]
  BY DEF Point, Counted, Published, To, Do
<1>2. PICK doing : doing = [call[p] EXCEPT !.pc = "log"]
  OBVIOUS
<1>3. IsDoing(call[p]) /\ "log" \in Steps
  BY Before DEF Steps, Sections
<1>4. doing = Shape(call[p], "log", call[p].then, call[p].seen, call[p].read)
  BY <1>2, <1>3 DEF IsDoing, Shape
<1>5. IsDoing(doing) /\ doing.pc = "log"
  BY <1>3, <1>4 DEF IsDoing, Shape
<1>6. call' = [call EXCEPT ![p] = doing]
  BY <1>1, <1>2
<1>7. call[p].rev \in committed
  BY Before DEF Point, At, Ready, Aim
<1>8. Ready(call[p])'
  BY <1>5, <1>6, FreeReady
<1>9. NamesEdits(index)' /\ pointer' \in committed' \cup {pointer}
  BY <1>1, <1>7, Before DEF NamesEdits
<1> QED
  BY <1>1, <1>5, <1>6, <1>8, <1>9, Before, StoreStep

LEMMA DecidesStep ==
    ASSUME StoreInv, NEW p \in Procs, Decides(p) PROVE StoreInv'
<1>1. CASE Log(p)
  BY <1>1, LeavingStep DEF Log, Tree, Counted
<1>2. CASE LogDecline(p)
  BY <1>2, LeavingStep DEF LogDecline, Tree, Counted
<1> QED
  BY <1>1, <1>2, AcceptStep, GateStep, CompareStep, MarkStep, PointStep, DeclineStep,
     ConfirmStep, EndConfirmStep DEF Decides

LEMMA CrashStep ==
    ASSUME StoreInv, NEW p \in Procs, Crash(p) PROVE StoreInv'
<1>1. UNCHANGED <<published, committed, pointer, index>> /\ lapses' \in Nat
  BY Before DEF Crash, Files
<1> QED
  BY <1>1, IdleReady, FilesKept DEF Crash, Returns, Do

-----------------------------------------------------------------------------

LEMMA InitStoreInv == Init => StoreInv
<1> SUFFICES ASSUME Init PROVE StoreInv
  OBVIOUS
<1>1. IsDoing(Idle) /\ Ready(Idle)
  BY DEF IsDoing, Idle, Steps, Sections, AnyRevision, Ready, Aim
<1>2. index \in Indexes /\ NamesEdits(index)
  BY DEF Init, Indexes, AnyRevision, NamesEdits
<1>3. /\ published \in Seq(Revisions) /\ committed \subseteq Revisions
      /\ pointer \in AnyRevision /\ lapses \in Nat /\ PointerIsCommitted
  BY DEF Init, AnyRevision, PointerIsCommitted
<1>4. call = [p \in Procs |-> call[p]] /\ \A p \in Procs : call[p] = Idle
  BY DEF Init
<1> QED
  BY <1>1, <1>2, <1>3, <1>4 DEF StoreInv, TypeInv

LEMMA NextStoreInv == StoreInv /\ [Next]_vars => StoreInv'
<1> SUFFICES ASSUME StoreInv, [Next]_vars PROVE StoreInv'
  OBVIOUS
<1>1. ASSUME UNCHANGED <<published, committed, pointer, index, call>>, lapses' \in Nat
      PROVE  StoreInv'
  <2>1. Published' = Published
    BY <1>1 DEF Published
  <2>2. \A d : Ready(d)' <=> Ready(d)
    BY <1>1, <2>1 DEF Ready, Aim, NamesEdits
  <2>3. NamesEdits(index)'
    BY <1>1, <2>1 DEF StoreInv, NamesEdits
  <2> QED
    BY <1>1, <2>2, <2>3 DEF StoreInv, TypeInv, PointerIsCommitted
<1>2. CASE UNCHANGED vars
  BY <1>1, <1>2 DEF vars, StoreInv, TypeInv
<1>3. CASE Age
  BY <1>1, <1>3 DEF Age, Files, Tree, Counted, StoreInv, TypeInv
<1>4. ASSUME NEW p \in Procs, Locks(p) \/ Edits(p) \/ Decides(p) \/ Crash(p)
      PROVE  StoreInv'
  BY <1>4, LocksStep, EditsStep, DecidesStep, CrashStep
<1>5. ASSUME NEW p \in Procs, Outstay(p) PROVE StoreInv'
  <2>1. UNCHANGED <<published, committed, pointer, index, call>> /\ lapses' \in Nat
    BY <1>5 DEF Outstay, Files, Tree, StoreInv, TypeInv
  <2> QED
    BY <1>1, <2>1
<1> QED
  BY <1>2, <1>3, <1>4, <1>5 DEF Next

LEMMA AlwaysStoreInv == Spec => []StoreInv
BY InitStoreInv, NextStoreInv, PTL DEF Spec

\* Whatever the number of lapses, and wherever they fall, active never names a
\* revision that is not committed, nor a committed one a failed verdict
\* (commit_revision, _write_active).
THEOREM PointerCommitted == Spec => []PointerIsCommitted
<1>1. StoreInv => PointerIsCommitted
  BY DEF StoreInv
<1> QED
  BY <1>1, AlwaysStoreInv, PTL

\* Every entry of idempotency.json is a published edit of the base of its key,
\* though the index is read in one step and written back whole in a later one, and
\* other processes may be in the section after a lock was broken.
THEOREM IndexCorrect == Spec => []IndexNamesEdits
<1>1. StoreInv => IndexNamesEdits
  BY DEF StoreInv, NamesEdits, IndexNamesEdits
<1> QED
  BY <1>1, AlwaysStoreInv, PTL

-----------------------------------------------------------------------------
(* While the lock has not lapsed.                                          *)

\* The lock file is its creator's until it leaves; so the index a process read in
\* its section is the index, and its key has no revision there when it writes.
SectionInv ==
    lapses = 0 =>
        /\ lock # Left /\ lock # Stale
        /\ \A p \in Procs :
             /\ call[p].pc # "break"
             /\ InSection(p) => lock = p
             /\ call[p].pc \in {"publish", "index"} => call[p].read = index
             /\ call[p].pc = "index" =>
                   call[p].read[<<call[p].base, call[p].key>>] = NoRevision

\* What an update of a process's record leaves at its step.
LEMMA StepOf ==
    ASSUME NEW d, "pc" \in DOMAIN d, NEW pc, NEW x, NEW y, NEW z
    PROVE  /\ [d EXCEPT !.pc = pc].pc = pc
           /\ [d EXCEPT !.pc = pc, !.seen = x].pc = pc
           /\ [d EXCEPT !.pc = pc, !.rev = x].pc = pc
           /\ [d EXCEPT !.pc = pc, !.rev = x, !.expected = y].pc = pc
           /\ Locking(d, x).pc = "wait" /\ Leaving(d, x).pc = "leave"
           /\ Judged(d, x).pc = "leave"
           /\ "pc" \in DOMAIN [d EXCEPT !.seen = x]
           /\ "pc" \in DOMAIN [d EXCEPT !.rev = x]
           /\ "pc" \in DOMAIN [d EXCEPT !.base = x, !.key = y, !.accept = z]
<1>1. Locking(d, x).pc = "wait" /\ Leaving(d, x).pc = "leave"
  BY DEF Locking, Leaving
<1>2. Judged(d, x).pc = "leave"
  BY DEF Judged, Leaving
<1> QED
  BY <1>1, <1>2

\* A step of p that enters a section only with the lock, and touches the lock or
\* the index only when it holds the lock or nobody does.
LEMMA SectionStep ==
    ASSUME StoreInv, SectionInv, lapses = 0, NEW p \in Procs, NEW doing,
           call' = [call EXCEPT ![p] = doing], doing.pc # "break",
           doing.pc \in Sections => lock' = p,
           doing.pc \in {"publish", "index"} => doing.read = index',
           doing.pc = "index" => doing.read[<<doing.base, doing.key>>] = NoRevision,
           lock' = lock \/ lock \in {Free, p}, index' = index \/ lock = p,
           lock' # Left, lock' # Stale
    PROVE  SectionInv'
<1>1. call'[p] = doing /\ \A q \in Procs : q # p => call'[q] = call[q]
  BY DEF StoreInv, TypeInv
<1>2. ASSUME NEW q \in Procs, q # p, call[q].pc \in Sections
      PROVE  lock' = q /\ index' = index
  BY <1>2, Markers DEF SectionInv, InSection
<1>3. "publish" \in Sections /\ "index" \in Sections
  BY DEF Sections
<1> QED
  BY <1>1, <1>2, <1>3 DEF SectionInv, InSection

LEMMA SectionLocks ==
    ASSUME StoreInv, SectionInv, lapses = 0, NEW p \in Procs, Locks(p) PROVE SectionInv'
<1>1. /\ index' = index /\ IsDoing(call[p]) /\ Ready(call[p]) /\ "pc" \in DOMAIN call[p]
      /\ lock # Left /\ lock # Stale /\ call[p].pc # "break"
  <2>1. index' = index
    BY DEF Locks, Create, SeeStale, Break, TimesOut, Leave, Files
  <2>2. IsDoing(call[p]) /\ Ready(call[p])
    BY Before
  <2>3. "pc" \in DOMAIN call[p]
    BY <2>2 DEF IsDoing
  <2> QED
    BY <2>1, <2>2, <2>3 DEF SectionInv
<1>2. CASE Create(p)
  <2>1. call[p].pc = "wait" /\ call[p].then \notin {"break", "publish", "index"}
    BY <1>1, <1>2 DEF Create, At, Ready
  <2>2. call' = [call EXCEPT ![p] = [call[p] EXCEPT !.pc = call[p].then]]
    BY <1>2 DEF Create, To, Do
  <2>3. [call[p] EXCEPT !.pc = call[p].then].pc = call[p].then
    BY <1>1
  <2> QED
    BY <1>1, <1>2, <2>1, <2>2, <2>3, SectionStep, Markers DEF Create
<1>3. Idle.pc = "idle" /\ "idle" \notin Sections /\ "leave" \in Sections
  BY DEF Idle, Sections
<1>4. CASE TimesOut(p)
  BY <1>1, <1>3, <1>4, SectionStep DEF TimesOut, Returns, Do
<1>5. CASE Leave(p)
  <2>1. call[p].pc = "leave" /\ call[p].then \in {"idle", "build", "dispose", "gate"} /\ lock = p
    BY <1>1, <1>3, <1>5 DEF Leave, At, Ready, SectionInv, InSection
  <2>2. CASE call' = [call EXCEPT ![p] = Idle]
    BY <1>1, <1>3, <1>5, <2>1, <2>2, SectionStep, Markers DEF Leave
  <2>3. CASE call' = [call EXCEPT ![p] = [call[p] EXCEPT !.pc = call[p].then]]
    <3>1. [call[p] EXCEPT !.pc = call[p].then].pc = call[p].then
      BY <1>1
    <3>2. call[p].then \notin Sections /\ call[p].then \notin {"break", "publish", "index"}
      BY <2>1 DEF Sections
    <3> QED
      BY <1>1, <1>5, <2>1, <2>3, <3>1, <3>2, SectionStep, Markers DEF Leave
  <2> QED
    BY <1>5, <2>2, <2>3 DEF Leave, Returns, To, Do
<1> QED
  BY <1>1, <1>2, <1>4, <1>5 DEF Locks, SeeStale, Break, At

\* Every other step leaves the lock as it is, and the index too unless it is
\* WriteIndex; it is in a section after the step only if it was before.
LEMMA SectionOthers ==
    ASSUME StoreInv, SectionInv, lapses = 0, NEW p \in Procs, Edits(p) \/ Decides(p)
    PROVE  SectionInv'
<1>1. /\ IsDoing(call[p]) /\ Ready(call[p]) /\ "pc" \in DOMAIN call[p] /\ "pc" \in DOMAIN Idle
      /\ lock # Left /\ lock # Stale /\ index \in Indexes /\ NamesEdits(index)
  BY Before DEF IsDoing, SectionInv
<1>2. lock' = lock
  BY DEF Edits, Propose, Lookup, Build, ReadIndex, Publish, WriteIndex, Dispose,
         Decides, Accept, Gate, Compare, Mark, Point, Log, Decline, LogDecline, Confirm, EndConfirm
<1>3. ASSUME NEW doing, call' = [call EXCEPT ![p] = doing],
             \/ doing.pc \in {"idle", "wait", "build", "gate", "confirm"}
             \/ /\ call[p].pc \in Sections /\ doing.pc \in {"leave", "mark", "point", "log"},
             index' = index \/ call[p].pc \in Sections
      PROVE  SectionInv'
  <2>1. call[p].pc \in Sections => lock = p
    BY DEF SectionInv, InSection
  <2>2. /\ doing.pc # "break" /\ doing.pc \notin {"publish", "index"}
        /\ doing.pc \in Sections => call[p].pc \in Sections
    BY <1>3 DEF Sections
  <2> QED
    BY <1>1, <1>2, <1>3, <2>1, <2>2, SectionStep
<1>4. CASE Propose(p)
  <2>1. PICK base \in Published, key \in Keys \cup {NoKey}, accept \in BOOLEAN :
          LET asked == [Idle EXCEPT !.base = base, !.key = key, !.accept = accept] IN
          Do(p, IF key = NoKey THEN [asked EXCEPT !.pc = "build"] ELSE Locking(asked, "lookup"))
    BY <1>4 DEF Propose, Starts
  <2>2. PICK asked : asked = [Idle EXCEPT !.base = base, !.key = key, !.accept = accept]
    OBVIOUS
  <2>3. "pc" \in DOMAIN asked
    BY <2>2 DEF Idle
  <2>4. PICK doing : /\ call' = [call EXCEPT ![p] = doing]
                     /\ \/ doing = [asked EXCEPT !.pc = "build"]
                        \/ doing = Locking(asked, "lookup")
    BY <2>1, <2>2 DEF Do
  <2>5. doing.pc \in {"build", "wait"}
    BY <2>3, <2>4, StepOf
  <2> QED
    BY <1>3, <1>4, <2>4, <2>5 DEF Propose, Files
<1>5. ASSUME NEW d, "pc" \in DOMAIN d, NEW rev, index' = index \/ call[p].pc \in Sections,
             call[p].pc \in Sections, Do(p, Judged(d, rev))
      PROVE  SectionInv'
  <2>1. Judged(d, rev).pc = "leave"
    BY <1>5, StepOf
  <2> QED
    BY <1>3, <1>5, <2>1 DEF Do
<1>6. CASE Lookup(p)
  <2>1. call[p].pc \in Sections /\ index' = index
    BY <1>6 DEF Lookup, At, Sections, Files
  <2>2. PICK known : known = index[<<call[p].base, call[p].key>>]
    OBVIOUS
  <2>3. \/ Do(p, Judged([call[p] EXCEPT !.seen = known], known))
        \/ Do(p, Leaving(call[p], "build"))
    BY <1>6, <2>2 DEF Lookup
  <2>4. "pc" \in DOMAIN [call[p] EXCEPT !.seen = known]
    BY <1>1
  <2>5. Leaving(call[p], "build").pc = "leave"
    BY <1>1, StepOf
  <2> QED
    BY <1>3, <1>5, <2>1, <2>3, <2>4, <2>5 DEF Do
<1>7. CASE Build(p)
  <2>1. ASSUME NEW r, Do(p, Locking([call[p] EXCEPT !.seen = r], "read")) PROVE SectionInv'
    <3>1. Locking([call[p] EXCEPT !.seen = r], "read").pc = "wait"
      BY <1>1, StepOf
    <3> QED
      BY <1>3, <1>7, <2>1, <3>1 DEF Build, Do, Files
  <2>2. CASE Returns(p)
    BY <1>3, <1>7, <2>2 DEF Build, Returns, Do, Idle, Files
  <2> QED
    BY <1>7, <2>1, <2>2 DEF Build
<1>8. CASE ReadIndex(p)
  <2>1. PICK doing : doing = [call[p] EXCEPT !.pc = "publish", !.read = index]
    OBVIOUS
  <2>2. doing.pc = "publish" /\ doing.read = index
    BY <1>1, <2>1 DEF IsDoing
  <2>3. call' = [call EXCEPT ![p] = doing] /\ index' = index /\ call[p].pc \in Sections
    BY <1>8, <2>1 DEF ReadIndex, Do, Files, At, Sections
  <2>4. lock = p
    BY <2>3 DEF SectionInv, InSection
  <2> QED
    BY <1>1, <1>2, <2>2, <2>3, <2>4, SectionStep
<1>9. CASE Publish(p)
  <2>1. call[p].pc = "publish" /\ call[p].pc \in Sections /\ index' = index /\ call[p].read = index
    BY <1>9 DEF Publish, At, Sections, SectionInv
  <2>2. CASE Do(p, Judged(call[p], Known(p))) \/ Do(p, Judged(call[p], call[p].seen))
    BY <1>1, <1>5, <2>1, <2>2
  <2>3. CASE /\ Do(p, [call[p] EXCEPT !.pc = "index"]) /\ call[p].key # NoKey
             /\ Known(p) \notin Published
    <3>1. PICK doing : doing = [call[p] EXCEPT !.pc = "index"]
      OBVIOUS
    <3>2. /\ doing.pc = "index" /\ doing.base = call[p].base /\ doing.key = call[p].key
          /\ doing.read = call[p].read
      BY <1>1, <3>1 DEF IsDoing
    <3>3. call[p].base \in Revisions /\ call[p].key \in Keys
      BY <1>1, <2>1, <2>3 DEF Ready, Aim, IsDoing
    <3>4. Known(p) = NoRevision
      BY <1>1, <2>1, <2>3, <3>3 DEF Known, NamesEdits
    <3>5. lock = p
      BY <2>1 DEF SectionInv, InSection
    <3>6. call' = [call EXCEPT ![p] = doing]
      BY <2>3, <3>1 DEF Do
    <3> QED
      BY <1>1, <1>2, <2>1, <3>2, <3>4, <3>5, <3>6, SectionStep DEF Known
  <2> QED
    BY <1>9, <2>2, <2>3 DEF Publish
<1>10. CASE WriteIndex(p)
  <2>1. call[p].pc \in Sections /\ Do(p, Judged(call[p], call[p].seen))
    BY <1>10 DEF WriteIndex, At, Sections
  <2> QED
    BY <1>1, <1>5, <2>1
<1>11. CASE Dispose(p)
  <2>1. Locking(call[p], "decline").pc = "wait"
    BY <1>1, StepOf
  <2> QED
    BY <1>3, <1>11, <2>1 DEF Dispose, Do, Files
<1>12. CASE Accept(p)
  <2>1. PICK rev, expected :
          call' = [call EXCEPT ![p] = [Idle EXCEPT !.pc = "gate", !.rev = rev,
                                        !.expected = expected]]
    BY <1>12 DEF Accept, Starts, Do
  <2>2. [Idle EXCEPT !.pc = "gate", !.rev = rev, !.expected = expected].pc = "gate"
    BY <1>1
  <2> QED
    BY <1>3, <1>12, <2>1, <2>2 DEF Accept, Files
<1>13. CASE Gate(p)
  <2>1. Locking(call[p], "compare").pc = "wait" /\ Idle.pc = "idle"
    BY <1>1, StepOf DEF Idle
  <2>2. Do(p, Locking(call[p], "compare")) \/ Do(p, Idle)
    BY <1>13 DEF Gate, Returns
  <2> QED
    BY <1>3, <1>13, <2>1, <2>2 DEF Gate, Do, Files
<1>14. CASE Compare(p)
  <2>1. PICK active : active = Active
    OBVIOUS
  <2>2. /\ [call[p] EXCEPT !.pc = "mark", !.seen = active].pc = "mark"
        /\ Leaving(call[p], "idle").pc = "leave"
    BY <1>1, StepOf
  <2>3. \/ Do(p, [call[p] EXCEPT !.pc = "mark", !.seen = active])
        \/ Do(p, Leaving(call[p], "idle"))
    BY <1>14, <2>1 DEF Compare
  <2>4. call[p].pc \in Sections /\ index' = index
    BY <1>14 DEF Compare, At, Sections, Files
  <2> QED
    BY <1>3, <2>2, <2>3, <2>4 DEF Do
<1>15. CASE Mark(p) \/ Point(p)
  <2>1. call[p].pc \in Sections /\ index' = index
    BY <1>15 DEF Mark, Point, At, Sections
  <2>2. /\ [call[p] EXCEPT !.pc = "point"].pc = "point"
        /\ [call[p] EXCEPT !.pc = "log"].pc = "log"
    BY <1>1
  <2> QED
    BY <1>3, <1>15, <2>1, <2>2 DEF Mark, Point, To, Do
<1>16. CASE Log(p) \/ LogDecline(p)
  <2>1. call[p].pc \in Sections /\ index' = index /\ Do(p, Leaving(call[p], "idle"))
    BY <1>16 DEF Log, LogDecline, At, Sections
  <2>2. Leaving(call[p], "idle").pc = "leave"
    BY <1>1, StepOf
  <2> QED
    BY <1>3, <2>1, <2>2 DEF Do
<1>17. CASE Decline(p)
  <2>1. PICK rev : call' = [call EXCEPT ![p] = Locking([Idle EXCEPT !.rev = rev], "decline")]
    BY <1>17 DEF Decline, Starts, Do
  <2>2. PICK asked : asked = [Idle EXCEPT !.rev = rev]
    OBVIOUS
  <2>3. "pc" \in DOMAIN asked
    BY <2>2 DEF Idle
  <2>4. Locking(asked, "decline").pc = "wait"
    BY <2>3, StepOf
  <2> QED
    BY <1>3, <1>17, <2>1, <2>2, <2>4 DEF Decline, Files
<1>18. CASE Confirm(p)
  <2>1. PICK r : call' = [call EXCEPT ![p] = [Idle EXCEPT !.pc = "confirm", !.rev = r]]
    BY <1>18 DEF Confirm, Starts, Do
  <2>2. [Idle EXCEPT !.pc = "confirm", !.rev = r].pc = "confirm"
    BY <1>1
  <2> QED
    BY <1>3, <1>18, <2>1, <2>2 DEF Confirm
<1>19. CASE EndConfirm(p)
  BY <1>3, <1>19 DEF EndConfirm, Returns, Do, Idle
<1> QED
  BY <1>4, <1>6, <1>7, <1>8, <1>9, <1>10, <1>11, <1>12, <1>13, <1>14, <1>15, <1>16, <1>17, <1>18,
     <1>19 DEF Edits, Decides

LEMMA InitSectionInv == Init => SectionInv
<1> SUFFICES ASSUME Init PROVE SectionInv
  OBVIOUS
<1>1. \A p \in Procs : call[p].pc = "idle" /\ ~InSection(p)
  BY DEF Init, Idle, InSection, Sections
<1> QED
  BY <1>1, Markers DEF Init, SectionInv

LEMMA NextSectionInv == StoreInv /\ SectionInv /\ [Next]_vars => SectionInv'
<1> SUFFICES ASSUME StoreInv, SectionInv, [Next]_vars, lapses' = 0 PROVE SectionInv'
  BY DEF SectionInv
<1>1. lapses \in Nat
  BY DEF StoreInv, TypeInv
<1>2. CASE UNCHANGED vars
  BY <1>2 DEF vars, SectionInv, InSection
<1>3. CASE Age
  BY <1>3 DEF Age, SectionInv, Counted
<1>4. ASSUME NEW p \in Procs, Crash(p) \/ Outstay(p) PROVE FALSE
  BY <1>1, <1>4 DEF Crash, Outstay
<1>5. ASSUME NEW p \in Procs, Locks(p) \/ Edits(p) \/ Decides(p) PROVE SectionInv'
  <2>1. lapses = 0
    BY <1>5 DEF Locks, Create, SeeStale, Break, TimesOut, Leave, Counted,
           Edits, Propose, Lookup, Build, ReadIndex, Publish, WriteIndex, Dispose,
           Decides, Accept, Gate, Compare, Mark, Point, Log, Decline, LogDecline,
            Confirm, EndConfirm
  <2> QED
    BY <1>5, <2>1, SectionLocks, SectionOthers
<1> QED
  BY <1>2, <1>3, <1>4, <1>5 DEF Next

LEMMA AlwaysSectionInv == Spec => []SectionInv
<1>1. StoreInv /\ SectionInv /\ [Next]_vars => SectionInv'
  BY NextSectionInv
<1> QED
  BY <1>1, InitSectionInv, AlwaysStoreInv, PTL DEF Spec

\* The lock file excludes as long as nobody was killed or outstayed: only then can a file be
\* older than LOCK_STALE_S, be broken, and be somebody else's by the time it is
\* unlinked (_lock).
THEOREM LockExcludes == Spec => []ExclusiveUntilLapse
<1>1. SectionInv => ExclusiveUntilLapse
  BY DEF SectionInv, ExclusiveUntilLapse
<1> QED
  BY <1>1, AlwaysSectionInv, PTL

LEMMA KeyStep ==
    ASSUME StoreInv, SectionInv, lapses = 0, [Next]_vars,
           NEW e \in Revisions \X Keys, index[e] # NoRevision
    PROVE  index'[e] = index[e]
<1>1. ASSUME NEW p \in Procs, WriteIndex(p) PROVE index'[e] = index[e]
  <2>1. /\ call[p].read = index /\ index[<<call[p].base, call[p].key>>] = NoRevision
        /\ index' = [call[p].read EXCEPT ![<<call[p].base, call[p].key>>] = call[p].seen]
    BY <1>1 DEF WriteIndex, At, SectionInv
  <2>2. index \in [Revisions \X Keys -> AnyRevision]
    BY DEF StoreInv, TypeInv, Indexes
  <2> QED
    BY <2>1, <2>2
<1>2. CASE UNCHANGED index
  BY <1>2
<1>3. \/ UNCHANGED index
      \/ \E p \in Procs : WriteIndex(p)
  BY DEF vars, Next, Age, Crash, Outstay, Files, Tree,
         Locks, Create, SeeStale, Break, TimesOut, Leave,
         Edits, Propose, Lookup, Build, ReadIndex, Publish, Dispose,
         Decides, Accept, Gate, Compare, Mark, Point, Log, Decline, LogDecline, Confirm, EndConfirm
<1> QED
  BY <1>1, <1>2, <1>3

\* A key asked for again answers with the revision it has: of two processes that
\* miss it and both build, the second finds the first's entry in the section
\* (create_preview).
THEOREM KeysKept == Spec => KeyKeepsRevision
<1>1. StoreInv /\ SectionInv /\ [Next]_vars
        => [lapses = 0 =>
              \A e \in Revisions \X Keys : index[e] # NoRevision => index'[e] = index[e]]_vars
  BY KeyStep
<1> QED
  BY <1>1, AlwaysStoreInv, AlwaysSectionInv, PTL DEF Spec, KeyKeepsRevision

-----------------------------------------------------------------------------
(* The log of decisions, while the lock has not lapsed.                    *)

Recording == {"mark", "point", "log"}

\* The latest acceptance in the log, if there is one, is of r.
Latest(r) == \A i \in Accepted : IsLatest(i) => decisions[i].rev = r

\* A process on its way to log an acceptance replaces what was accepted last, which
\* is the pointer but for the moment between the two writes.
Chained ==
    /\ \A i, j \in Accepted : Follows(j, i) => decisions[j].previous = decisions[i].rev
    /\ \A i \in Accepted : /\ decisions[i].rev # NoRevision
                           /\ decisions[i].expected \in {NoRevision, decisions[i].previous}
    /\ \A p \in Procs :
         call[p].pc \in Recording =>
             /\ call[p].rev # NoRevision
             /\ call[p].expected \in {NoRevision, call[p].seen}
             /\ Latest(call[p].seen)
    /\ \A p \in Procs : call[p].pc = "log" => pointer = call[p].rev
    /\ (\A p \in Procs : call[p].pc # "log") => Latest(pointer)

ChainInv ==
    /\ decisions \in Seq({decisions[i] : i \in DOMAIN decisions})
    /\ lapses = 0 => Chained

\* An entry is added behind the others.
LEMMA Appended ==
    ASSUME NEW s, s \in Seq({s[i] : i \in DOMAIN s}), NEW e, NEW t, t = Append(s, e)
    PROVE  /\ Len(s) \in Nat /\ DOMAIN s = 1..Len(s) /\ DOMAIN t = 1..(Len(s) + 1)
           /\ t[Len(s) + 1] = e /\ \A i \in 1..Len(s) : t[i] = s[i]
           /\ t \in Seq({t[i] : i \in DOMAIN t})
<1> DEFINE S == {s[i] : i \in DOMAIN s} \cup {e}
<1>1. s \in Seq(S) /\ e \in S
  OBVIOUS
<1> HIDE DEF S
<1>2. /\ Len(s) \in Nat /\ DOMAIN s = 1..Len(s) /\ DOMAIN t = 1..(Len(s) + 1)
      /\ t[Len(s) + 1] = e /\ \A i \in 1..Len(s) : t[i] = s[i]
      /\ t \in Seq(S)
  BY <1>1
<1>3. S \subseteq {t[i] : i \in DOMAIN t}
  BY <1>2 DEF S
<1>4. {t[i] : i \in DOMAIN t} \subseteq S
  BY <1>1, <1>2 DEF S
<1>5. S = {t[i] : i \in DOMAIN t}
  BY <1>3, <1>4
<1> QED
  BY <1>2, <1>5

\* A step of p that does not bring it to logging an acceptance, and that leaves the
\* log as it is but for an entry that is none.
LEMMA ChainKept ==
    ASSUME StoreInv, Chained, NEW p \in Procs, NEW doing, call' = [call EXCEPT ![p] = doing],
           call[p].pc \notin Recording, doing.pc \notin Recording,
           UNCHANGED pointer, Accepted' = Accepted,
           \A i \in Accepted : decisions'[i] = decisions[i]
    PROVE  Chained'
<1>1. call'[p] = doing /\ \A q \in Procs : q # p => call'[q] = call[q]
  BY DEF StoreInv, TypeInv
<1>2. /\ \A i \in Accepted : IsLatest(i)' <=> IsLatest(i)
      /\ \A i, j \in Accepted : Follows(j, i)' <=> Follows(j, i)
  BY DEF IsLatest, Follows
<1>3. \A r : Latest(r)' <=> Latest(r)
  BY <1>2 DEF Latest
<1>4. \A q \in Procs : call'[q].pc \in Recording => call'[q] = call[q]
  BY <1>1
<1>5. (\A q \in Procs : call'[q].pc # "log") <=> (\A q \in Procs : call[q].pc # "log")
  BY <1>1 DEF Recording
<1>6. "log" \in Recording
  BY DEF Recording
<1>7. (\A q \in Procs : call'[q].pc # "log") => Latest(pointer)'
  BY <1>3, <1>5 DEF Chained
<1>8. \A q \in Procs :
         call'[q].pc \in Recording =>
             /\ call'[q].rev # NoRevision
             /\ call'[q].expected \in {NoRevision, call'[q].seen}
             /\ Latest(call[q].seen)'
  BY <1>3, <1>4 DEF Chained
<1>9. \A q \in Procs : call'[q].pc = "log" => pointer' = call'[q].rev
  BY <1>4, <1>6 DEF Chained
<1>10. \A i, j \in Accepted' : Follows(j, i)' => decisions'[j].previous = decisions'[i].rev
  BY <1>2 DEF Chained
<1>11. \A i \in Accepted' : /\ decisions'[i].rev # NoRevision
                            /\ decisions'[i].expected \in {NoRevision, decisions'[i].previous}
  BY DEF Chained
<1> QED
  BY <1>7, <1>8, <1>9, <1>10, <1>11 DEF Chained

\* Nobody else is in a section.
LEMMA Alone ==
    ASSUME SectionInv, lapses = 0, NEW p \in Procs, call[p].pc \in Sections,
           NEW q \in Procs, q # p
    PROVE  call[q].pc \notin Recording \cup {"compare"}
<1>1. call[q].pc \notin Sections
  BY DEF SectionInv, InSection
<1> QED
  BY <1>1 DEF Recording, Sections

\* Every step but those that log an acceptance is taken, and leads, elsewhere.
LEMMA FromElsewhere ==
    ASSUME NEW p \in Procs,
           \/ Locks(p) \/ Edits(p)
           \/ Accept(p) \/ Gate(p) \/ Decline(p) \/ LogDecline(p) \/ Confirm(p) \/ EndConfirm(p)
    PROVE  call[p].pc \notin Recording
  BY DEF Locks, Create, SeeStale, Break, TimesOut, Leave, Edits, Propose, Lookup, Build,
         ReadIndex, Publish, WriteIndex, Dispose, Accept, Gate, Decline, LogDecline, Confirm,
         EndConfirm, Starts, At, Recording

LEMMA ToElsewhere ==
    ASSUME StoreInv, NEW p \in Procs,
           \/ Locks(p) \/ Edits(p)
           \/ Accept(p) \/ Gate(p) \/ Decline(p) \/ LogDecline(p) \/ Confirm(p) \/ EndConfirm(p)
    PROVE  \E doing : call' = [call EXCEPT ![p] = doing] /\ doing.pc \notin Recording
<1> DEFINE Goes(d) == call' = [call EXCEPT ![p] = d] /\ d.pc \notin Recording
<1>1. /\ IsDoing(call[p]) /\ Ready(call[p]) /\ "pc" \in DOMAIN call[p] /\ "pc" \in DOMAIN Idle
      /\ Idle.pc \notin Recording
  BY Before DEF IsDoing, Idle, Recording
<1>3. CASE Locks(p)
  <2>1. ASSUME NEW pc, To(p, pc), pc \notin Recording PROVE \E d : Goes(d)
    BY <1>1, <2>1 DEF To, Do
  <2>2. /\ call[p].pc \in {"wait", "leave"} => call[p].then \notin Recording
        /\ "break" \notin Recording /\ "wait" \notin Recording
    BY <1>1 DEF Ready, Recording
  <2>3. CASE Create(p) \/ SeeStale(p) \/ Break(p)
    BY <2>1, <2>2, <2>3 DEF Create, SeeStale, Break, At
  <2>4. CASE TimesOut(p)
    BY <1>1, <2>4 DEF TimesOut, Returns, Do
  <2>5. CASE Leave(p)
    BY <1>1, <2>1, <2>2, <2>5 DEF Leave, Returns, Do, At
  <2> QED
    BY <1>3, <2>3, <2>4, <2>5 DEF Locks
<1>4. ASSUME NEW d, "pc" \in DOMAIN d, NEW rev, Do(p, Judged(d, rev)) PROVE \E e : Goes(e)
  <2>1. Judged(d, rev).pc = "leave" /\ "leave" \notin Recording
    BY <1>4, StepOf DEF Recording
  <2> QED
    BY <1>4, <2>1 DEF Do
<1>5. ASSUME NEW d, "pc" \in DOMAIN d, NEW next,
             Do(p, Locking(d, next)) \/ Do(p, Leaving(d, next))
      PROVE  \E e : Goes(e)
  <2>1. /\ Locking(d, next).pc = "wait" /\ Leaving(d, next).pc = "leave"
        /\ "wait" \notin Recording /\ "leave" \notin Recording
    BY <1>5, StepOf DEF Recording
  <2> QED
    BY <1>5, <2>1 DEF Do
<1>6. ASSUME Do(p, Idle) PROVE \E e : Goes(e)
  BY <1>1, <1>6 DEF Do
<1>7. CASE Propose(p)
  <2>1. PICK base \in Published, key \in Keys \cup {NoKey}, accept \in BOOLEAN :
          LET asked == [Idle EXCEPT !.base = base, !.key = key, !.accept = accept] IN
          Do(p, IF key = NoKey THEN [asked EXCEPT !.pc = "build"] ELSE Locking(asked, "lookup"))
    BY <1>7 DEF Propose, Starts
  <2>2. PICK asked : asked = [Idle EXCEPT !.base = base, !.key = key, !.accept = accept]
    OBVIOUS
  <2>3. "pc" \in DOMAIN asked
    BY <2>2 DEF Idle
  <2>4. CASE Do(p, [asked EXCEPT !.pc = "build"])
    <3>1. [asked EXCEPT !.pc = "build"].pc = "build" /\ "build" \notin Recording
      BY <2>3 DEF Recording
    <3> QED
      BY <2>4, <3>1 DEF Do
  <2>5. CASE Do(p, Locking(asked, "lookup"))
    BY <1>5, <2>3, <2>5
  <2> QED
    BY <2>1, <2>2, <2>4, <2>5
<1>8. CASE Lookup(p)
  <2>1. PICK known : known = index[<<call[p].base, call[p].key>>]
    OBVIOUS
  <2>2. \/ Do(p, Judged([call[p] EXCEPT !.seen = known], known))
        \/ Do(p, Leaving(call[p], "build"))
    BY <1>8, <2>1 DEF Lookup
  <2>3. "pc" \in DOMAIN [call[p] EXCEPT !.seen = known]
    BY <1>1
  <2> QED
    BY <1>1, <1>4, <1>5, <2>2, <2>3
<1>9. CASE Build(p)
  <2>1. ASSUME NEW r, Do(p, Locking([call[p] EXCEPT !.seen = r], "read")) PROVE \E e : Goes(e)
    <3>1. "pc" \in DOMAIN [call[p] EXCEPT !.seen = r]
      BY <1>1
    <3> QED
      BY <1>5, <2>1, <3>1
  <2> QED
    BY <1>6, <1>9, <2>1 DEF Build, Returns
<1>10. CASE ReadIndex(p)
  <2>1. PICK doing : doing = [call[p] EXCEPT !.pc = "publish", !.read = index]
    OBVIOUS
  <2>2. doing.pc = "publish" /\ "publish" \notin Recording
    BY <1>1, <2>1 DEF IsDoing, Recording
  <2> QED
    BY <1>10, <2>1, <2>2 DEF ReadIndex, Do
<1>11. CASE Publish(p)
  <2>1. \/ Do(p, Judged(call[p], Known(p))) \/ Do(p, Judged(call[p], call[p].seen))
        \/ Do(p, [call[p] EXCEPT !.pc = "index"])
    BY <1>11 DEF Publish
  <2>2. [call[p] EXCEPT !.pc = "index"].pc = "index" /\ "index" \notin Recording
    BY <1>1 DEF Recording
  <2>3. CASE Do(p, [call[p] EXCEPT !.pc = "index"])
    BY <2>2, <2>3 DEF Do
  <2> QED
    BY <1>1, <1>4, <2>1, <2>3
<1>12. CASE WriteIndex(p)
  BY <1>1, <1>4, <1>12 DEF WriteIndex
<1>13. CASE Dispose(p)
  BY <1>1, <1>5, <1>13 DEF Dispose
<1>14. CASE Accept(p)
  <2>1. PICK rev, expected :
          call' = [call EXCEPT ![p] = [Idle EXCEPT !.pc = "gate", !.rev = rev,
                                        !.expected = expected]]
    BY <1>14 DEF Accept, Starts, Do
  <2>2. /\ [Idle EXCEPT !.pc = "gate", !.rev = rev, !.expected = expected].pc = "gate"
        /\ "gate" \notin Recording
    BY <1>1 DEF Recording
  <2> QED
    BY <2>1, <2>2
<1>15. CASE Gate(p)
  BY <1>1, <1>5, <1>6, <1>15 DEF Gate, Returns
<1>16. CASE Decline(p)
  <2>1. PICK rev : Do(p, Locking([Idle EXCEPT !.rev = rev], "decline"))
    BY <1>16 DEF Decline, Starts
  <2>2. PICK asked : asked = [Idle EXCEPT !.rev = rev]
    OBVIOUS
  <2>3. "pc" \in DOMAIN asked
    BY <2>2 DEF Idle
  <2> QED
    BY <1>5, <2>1, <2>2, <2>3
<1>17. CASE LogDecline(p)
  BY <1>1, <1>5, <1>17 DEF LogDecline
<1>18. CASE Confirm(p)
  <2>1. PICK r : call' = [call EXCEPT ![p] = [Idle EXCEPT !.pc = "confirm", !.rev = r]]
    BY <1>18 DEF Confirm, Starts, Do
  <2>2. [Idle EXCEPT !.pc = "confirm", !.rev = r].pc = "confirm" /\ "confirm" \notin Recording
    BY <1>1 DEF Recording
  <2> QED
    BY <2>1, <2>2
<1>19. CASE EndConfirm(p)
  BY <1>6, <1>19 DEF EndConfirm, Returns
<1> QED
  BY <1>3, <1>7, <1>8, <1>9, <1>10, <1>11, <1>12, <1>13, <1>14, <1>15, <1>16, <1>17, <1>18, <1>19
     DEF Edits

\* A decline is logged behind the acceptances; the other steps leave the log alone.
LEMMA ChainElsewhere ==
    ASSUME StoreInv, ChainInv, lapses = 0, NEW p \in Procs,
           \/ Locks(p) \/ Edits(p)
           \/ Accept(p) \/ Gate(p) \/ Decline(p) \/ LogDecline(p) \/ Confirm(p) \/ EndConfirm(p)
    PROVE  ChainInv'
<1>1. PICK doing : call' = [call EXCEPT ![p] = doing] /\ doing.pc \notin Recording
  BY ToElsewhere
<1>2. call[p].pc \notin Recording
  BY FromElsewhere
<1>3. pointer' = pointer
  BY DEF Locks, Create, SeeStale, Break, TimesOut, Leave, Edits, Propose, Lookup, Build,
         ReadIndex, Publish, WriteIndex, Dispose, Accept, Gate, Decline, LogDecline, Confirm,
         EndConfirm, Files, Tree
<1>4. CASE decisions' = decisions
  <2>1. Accepted' = Accepted
    BY <1>4 DEF Accepted
  <2>2. \A i \in Accepted : decisions'[i] = decisions[i]
    BY <1>4
  <2>3. Chained'
    BY <1>1, <1>2, <1>3, <2>1, <2>2, ChainKept DEF ChainInv
  <2> QED
    BY <1>4, <2>3 DEF ChainInv
<1>5. CASE LogDecline(p)
  <2>1. PICK e : decisions' = Append(decisions, e) /\ e.decision = "declined"
    BY <1>5 DEF LogDecline
  <2>2. /\ Len(decisions) \in Nat /\ DOMAIN decisions = 1..Len(decisions)
        /\ DOMAIN decisions' = 1..(Len(decisions) + 1)
        /\ decisions'[Len(decisions) + 1] = e
        /\ \A i \in 1..Len(decisions) : decisions'[i] = decisions[i]
        /\ decisions' \in Seq({decisions'[i] : i \in DOMAIN decisions'})
    BY <2>1, Appended DEF ChainInv
  <2>3. Accepted' = Accepted
    <3>1. 1..(Len(decisions) + 1) = 1..Len(decisions) \cup {Len(decisions) + 1}
      BY <2>2
    <3> QED
      BY <2>1, <2>2, <3>1 DEF Accepted
  <2>4. \A i \in Accepted : decisions'[i] = decisions[i]
    BY <2>2 DEF Accepted
  <2>5. Chained'
    BY <1>1, <1>2, <1>3, <2>3, <2>4, ChainKept DEF ChainInv
  <2> QED
    BY <2>2, <2>5 DEF ChainInv
<1>6. decisions' = decisions \/ LogDecline(p)
  BY DEF Locks, Create, SeeStale, Break, TimesOut, Leave, Edits, Propose, Lookup, Build,
         ReadIndex, Publish, WriteIndex, Dispose, Accept, Gate, Decline, Confirm, EndConfirm, Files
<1> QED
  BY <1>4, <1>5, <1>6

\* A process in its section moves on, and the log stays as it is.
LEMMA ChainMoves ==
    ASSUME StoreInv, SectionInv, ChainInv, lapses = 0, NEW p \in Procs, NEW doing,
           call' = [call EXCEPT ![p] = doing], call[p].pc \in Sections,
           UNCHANGED decisions,
           doing.pc \in Recording =>
               /\ doing.rev # NoRevision
               /\ doing.expected \in {NoRevision, doing.seen}
               /\ Latest(doing.seen),
           IF doing.pc = "log" THEN pointer' = doing.rev ELSE Latest(pointer')
    PROVE  ChainInv'
<1>1. call'[p] = doing /\ \A q \in Procs : q # p => call'[q] = call[q]
  BY DEF StoreInv, TypeInv
<1>2. \A q \in Procs : q # p => call'[q].pc \notin Recording
  BY <1>1, Alone
<1>3. Accepted' = Accepted
  BY DEF Accepted
<1>4. /\ \A i \in Accepted : IsLatest(i)' <=> IsLatest(i)
      /\ \A i, j \in Accepted : Follows(j, i)' <=> Follows(j, i)
  BY <1>3 DEF IsLatest, Follows
<1>5. \A r : Latest(r)' <=> Latest(r)
  BY <1>3, <1>4 DEF Latest
<1>6. \A i, j \in Accepted' : Follows(j, i)' => decisions'[j].previous = decisions'[i].rev
  BY <1>3, <1>4 DEF ChainInv, Chained
<1>7. \A i \in Accepted' : /\ decisions'[i].rev # NoRevision
                           /\ decisions'[i].expected \in {NoRevision, decisions'[i].previous}
  BY <1>3 DEF ChainInv, Chained
<1>8. Latest(doing.seen)' <=> Latest(doing.seen)
  BY <1>5
<1>9. (doing.pc # "log") => Latest(pointer)'
  <2>1. PICK now : now = pointer'
    OBVIOUS
  <2>2. Latest(now)' <=> Latest(now)
    BY <1>5
  <2> QED
    BY <2>1, <2>2 DEF Latest
<1>10. \A q \in Procs :
         call'[q].pc \in Recording =>
             /\ call'[q].rev # NoRevision
             /\ call'[q].expected \in {NoRevision, call'[q].seen}
             /\ Latest(call[q].seen)'
  BY <1>1, <1>2, <1>8 DEF Latest
<1>11. \A q \in Procs : call'[q].pc = "log" => pointer' = call'[q].rev
  BY <1>1, <1>2 DEF Recording
<1>12. (\A q \in Procs : call'[q].pc # "log") => Latest(pointer)'
  BY <1>1, <1>9
<1> QED
  BY <1>6, <1>7, <1>10, <1>11, <1>12 DEF ChainInv, Chained

\* What the active revision is compared with is the latest acceptance.
LEMMA ChainCompare ==
    ASSUME StoreInv, SectionInv, ChainInv, lapses = 0, NEW p \in Procs, Compare(p)
    PROVE  ChainInv'
<1>1. call[p].pc = "compare" /\ call[p].pc \in Sections /\ UNCHANGED <<decisions, pointer>>
  BY DEF Compare, At, Sections, Files, Tree
<1>2. IsDoing(call[p]) /\ call[p].rev \in Passing /\ NoRevision \notin Passing
  BY <1>1, Before, RevisionTree DEF Ready, Aim
<1>3. Latest(pointer)
  <2>1. \A q \in Procs : call[q].pc # "log"
    BY <1>1, Alone DEF Recording
  <2> QED
    BY <2>1 DEF ChainInv, Chained
<1>4. Latest(Active)
  <2>1. ASSUME NEW i \in Accepted, IsLatest(i) PROVE decisions[i].rev = Active
    <3>1. decisions[i].rev = pointer /\ decisions[i].rev # NoRevision
      BY <1>3, <2>1 DEF Latest, ChainInv, Chained
    <3> QED
      BY <3>1 DEF Active
  <2> QED
    BY <2>1 DEF Latest
<1>5. PICK now : now = Active
  OBVIOUS
<1>6. CASE /\ call[p].expected \in {NoRevision, now}
           /\ Do(p, [call[p] EXCEPT !.pc = "mark", !.seen = now])
  <2>1. PICK doing : doing = [call[p] EXCEPT !.pc = "mark", !.seen = now]
    OBVIOUS
  <2>2. doing = Shape(call[p], "mark", call[p].then, now, call[p].read)
    BY <1>2, <2>1 DEF IsDoing, Shape
  <2>3. /\ doing.pc = "mark" /\ doing.seen = now /\ doing.rev = call[p].rev
        /\ doing.expected = call[p].expected
    BY <2>2 DEF Shape
  <2> QED
    BY <1>1, <1>2, <1>3, <1>4, <1>5, <1>6, <2>1, <2>3, ChainMoves DEF Do
<1>7. CASE Do(p, Leaving(call[p], "idle"))
  <2>1. Leaving(call[p], "idle").pc = "leave" /\ "leave" \notin Recording
    BY <1>2, StepOf DEF IsDoing, Recording
  <2> QED
    BY <1>1, <1>3, <1>7, <2>1, ChainMoves DEF Do
<1> QED
  BY <1>5, <1>6, <1>7 DEF Compare

LEMMA ChainPoint ==
    ASSUME StoreInv, SectionInv, ChainInv, lapses = 0, NEW p \in Procs, Mark(p) \/ Point(p)
    PROVE  ChainInv'
<1>1. /\ call[p].pc \in Sections /\ call[p].pc \in Recording /\ call[p].pc # "log"
      /\ UNCHANGED decisions
  BY DEF Mark, Point, At, Sections, Recording
<1>2. /\ IsDoing(call[p])
      /\ call[p].rev # NoRevision /\ call[p].expected \in {NoRevision, call[p].seen}
      /\ Latest(call[p].seen)
  BY <1>1, Before DEF ChainInv, Chained
<1>3. CASE Mark(p)
  <2>1. PICK doing : doing = [call[p] EXCEPT !.pc = "point"]
    OBVIOUS
  <2>2. /\ doing.pc = "point" /\ doing.seen = call[p].seen /\ doing.rev = call[p].rev
        /\ doing.expected = call[p].expected
    BY <1>2, <2>1 DEF IsDoing
  <2>3. Latest(pointer)
    <3>1. \A q \in Procs : call[q].pc # "log"
      BY <1>1, Alone DEF Recording
    <3> QED
      BY <3>1 DEF ChainInv, Chained
  <2> QED
    BY <1>1, <1>2, <1>3, <2>1, <2>2, <2>3, ChainMoves DEF Mark, To, Do
<1>4. CASE Point(p)
  <2>1. PICK doing : doing = [call[p] EXCEPT !.pc = "log"]
    OBVIOUS
  <2>2. /\ doing.pc = "log" /\ doing.seen = call[p].seen /\ doing.rev = call[p].rev
        /\ doing.expected = call[p].expected
    BY <1>2, <2>1 DEF IsDoing
  <2> QED
    BY <1>1, <1>2, <1>4, <2>1, <2>2, ChainMoves DEF Point, To, Do
<1> QED
  BY <1>3, <1>4

\* The acceptance that is logged follows the one that was the latest.
LEMMA ChainLog ==
    ASSUME StoreInv, SectionInv, ChainInv, lapses = 0, NEW p \in Procs, Log(p)
    PROVE  ChainInv'
<1> DEFINE n == Len(decisions) + 1
<1>1. /\ call[p].pc = "log" /\ call[p].pc \in Sections /\ call[p].pc \in Recording
      /\ decisions' = Append(decisions, Acceptance(p)) /\ pointer' = pointer
  BY DEF Log, At, Sections, Recording, Tree
<1>2. PICK e : e = Acceptance(p)
  OBVIOUS
<1>3. /\ e.decision = "accepted" /\ e.rev = call[p].rev /\ e.previous = call[p].seen
      /\ e.expected = call[p].expected
  BY <1>2 DEF Acceptance
<1>4. /\ Len(decisions) \in Nat /\ DOMAIN decisions = 1..Len(decisions)
      /\ DOMAIN decisions' = 1..n /\ decisions'[n] = e
      /\ \A i \in 1..Len(decisions) : decisions'[i] = decisions[i]
      /\ decisions' \in Seq({decisions'[i] : i \in DOMAIN decisions'})
  BY <1>1, <1>2, Appended DEF ChainInv
<1>5. Accepted' = Accepted \cup {n} /\ Accepted \subseteq 1..Len(decisions)
  <2>1. 1..n = 1..Len(decisions) \cup {n}
    BY <1>4
  <2> QED
    BY <1>3, <1>4, <2>1 DEF Accepted
<1>6. \A i \in Accepted : decisions'[i] = decisions[i] /\ i \in Nat /\ i < n
  BY <1>4, <1>5
<1>7. n \in Nat /\ n \notin Accepted
  BY <1>4, <1>5
<1>8. /\ call[p].rev # NoRevision /\ call[p].expected \in {NoRevision, call[p].seen}
      /\ Latest(call[p].seen) /\ pointer = call[p].rev
  BY <1>1 DEF ChainInv, Chained
<1> HIDE DEF n
<1>9. ASSUME NEW i \in Accepted', NEW j \in Accepted', Follows(j, i)'
      PROVE  decisions'[j].previous = decisions'[i].rev
  <2>1. i < j /\ i \in Nat /\ j \in Nat /\ \A k \in Accepted' : k <= i \/ j <= k
    BY <1>5, <1>6, <1>7, <1>9 DEF Follows
  <2>2. i \in Accepted
    BY <1>5, <1>6, <1>7, <2>1
  <2>3. CASE j \in Accepted
    <3>1. Follows(j, i)
      BY <1>5, <2>1, <2>2, <2>3 DEF Follows
    <3> QED
      BY <1>6, <2>2, <2>3, <3>1 DEF ChainInv, Chained
  <2>4. CASE j = n
    <3>1. IsLatest(i)
      BY <1>5, <1>6, <2>1, <2>2, <2>4 DEF IsLatest
    <3>2. decisions[i].rev = call[p].seen
      BY <1>8, <2>2, <3>1 DEF Latest
    <3> QED
      BY <1>3, <1>4, <1>6, <2>2, <2>4, <3>2
  <2> QED
    BY <1>5, <2>3, <2>4
<1>10. \A i \in Accepted' : /\ decisions'[i].rev # NoRevision
                            /\ decisions'[i].expected \in {NoRevision, decisions'[i].previous}
  BY <1>3, <1>4, <1>5, <1>6, <1>8 DEF ChainInv, Chained
<1>11. Latest(pointer)'
  <2>1. ASSUME NEW i \in Accepted', IsLatest(i)' PROVE i = n
    BY <1>5, <1>6, <1>7, <2>1 DEF IsLatest
  <2> QED
    BY <1>1, <1>3, <1>4, <1>8, <2>1 DEF Latest
<1>12. \A q \in Procs : call'[q].pc \notin Recording
  <2>1. Leaving(call[p], "idle").pc = "leave" /\ "leave" \notin Recording
    <3>1. IsDoing(call[p])
      BY Before
    <3>2. "pc" \in DOMAIN call[p]
      BY <3>1 DEF IsDoing
    <3>3. Leaving(call[p], "idle").pc = "leave"
      BY <3>2, StepOf
    <3> QED
      BY <3>3 DEF Recording
  <2>2. call' = [call EXCEPT ![p] = Leaving(call[p], "idle")]
    BY DEF Log, Do
  <2>3. call'[p] = Leaving(call[p], "idle") /\ \A q \in Procs : q # p => call'[q] = call[q]
    BY <2>2 DEF StoreInv, TypeInv
  <2> QED
    BY <1>1, <2>1, <2>3, Alone
<1>13. "log" \in Recording
  BY DEF Recording
<1>14. Chained'
  BY <1>9, <1>10, <1>11, <1>12, <1>13 DEF Chained
<1> QED
  BY <1>4, <1>14 DEF ChainInv

LEMMA InitChainInv == Init => ChainInv
<1> SUFFICES ASSUME Init PROVE ChainInv
  OBVIOUS
<1>1. decisions = << >> /\ Accepted = {} /\ \A p \in Procs : call[p].pc = "idle"
  BY DEF Init, Accepted, Idle
<1> QED
  BY <1>1 DEF ChainInv, Chained, Latest, Recording

LEMMA NextChainInv == StoreInv /\ SectionInv /\ ChainInv /\ [Next]_vars => ChainInv'
<1> SUFFICES ASSUME StoreInv, SectionInv, ChainInv, [Next]_vars PROVE ChainInv'
  OBVIOUS
<1>1. lapses \in Nat
  BY DEF StoreInv, TypeInv
<1>2. CASE UNCHANGED vars
  BY <1>2 DEF vars, ChainInv, Chained, Latest, IsLatest, Follows, Accepted
<1>3. CASE Age
  BY <1>3 DEF Age, ChainInv, Chained, Latest, IsLatest, Follows, Accepted, Counted, Files, Tree
<1>4. ASSUME NEW p \in Procs, Crash(p) \/ Outstay(p) PROVE ChainInv'
  <2>1. decisions' = decisions /\ lapses' # 0
    BY <1>1, <1>4 DEF Crash, Outstay, Files
  <2> QED
    BY <2>1 DEF ChainInv
<1>5. ASSUME NEW p \in Procs, Locks(p) \/ Edits(p) \/ Decides(p), lapses = 0 PROVE ChainInv'
  BY <1>5, ChainElsewhere, ChainCompare, ChainPoint, ChainLog DEF Decides
<1>6. ASSUME NEW p \in Procs, Locks(p) \/ Edits(p) \/ Decides(p), lapses # 0 PROVE ChainInv'
  <2>1. lapses' = lapses
    BY <1>6 DEF Locks, Create, SeeStale, Break, TimesOut, Leave, Counted,
           Edits, Propose, Lookup, Build, ReadIndex, Publish, WriteIndex, Dispose,
           Decides, Accept, Gate, Compare, Mark, Point, Log, Decline, LogDecline,
           Confirm, EndConfirm
  <2>2. \/ decisions' = decisions
        \/ \E e : decisions' = Append(decisions, e)
    BY <1>6 DEF Locks, Create, SeeStale, Break, TimesOut, Leave, Files,
           Edits, Propose, Lookup, Build, ReadIndex, Publish, WriteIndex, Dispose,
           Decides, Accept, Gate, Compare, Mark, Point, Log, Decline, LogDecline,
           Confirm, EndConfirm
  <2> QED
    BY <1>6, <2>1, <2>2, Appended DEF ChainInv
<1> QED
  BY <1>2, <1>3, <1>4, <1>5, <1>6 DEF Next

\* No acceptance is lost while the lock has not lapsed: in the log each replaces the one
\* before it, which is what its caller expected, and outside a section the pointer is
\* the latest one (accept_edit, commit_revision).
THEOREM AcceptancesKept == Spec => []AcceptancesChain
<1>1. StoreInv /\ SectionInv /\ ChainInv => AcceptancesChain
  <2> SUFFICES ASSUME StoreInv, SectionInv, ChainInv, lapses = 0 PROVE AcceptancesChain
    BY DEF AcceptancesChain
  <2>1. ASSUME lock = Free PROVE Latest(pointer)
    <3>1. \A p \in Procs : call[p].pc # "log"
      BY <2>1, Markers DEF SectionInv, InSection, Sections
    <3> QED
      BY <3>1 DEF ChainInv, Chained
  <2> QED
    BY <2>1 DEF AcceptancesChain, ChainInv, Chained, Latest
<1>2. StoreInv /\ SectionInv /\ ChainInv /\ [Next]_vars => ChainInv'
  BY NextChainInv
<1> QED
  BY <1>1, <1>2, InitChainInv, AlwaysStoreInv, AlwaysSectionInv, PTL DEF Spec
-----------------------------------------------------------------------------
(* The refinement of StoreLedger.                                          *)

\* A process on its way to log an acceptance accepts what passed and was expected,
\* wherever the lock lapsed; and until it does, the pointer is still what it saw, or
\* nothing, when it moves it.
EntryInv ==
    /\ \A p \in Procs : call[p].pc \in Recording =>
          call[p].rev \in Passing /\ call[p].expected \in {NoRevision, call[p].seen}
    /\ lapses = 0 =>
          \A p \in Procs : call[p].pc \in {"mark", "point"} =>
              pointer \in {NoRevision, call[p].seen}

Elsewhere(p) ==
    \/ Locks(p) \/ Edits(p)
    \/ Accept(p) \/ Gate(p) \/ Decline(p) \/ LogDecline(p) \/ Confirm(p) \/ EndConfirm(p)

\* What the steps elsewhere have in common.
LEMMA StepElsewhere ==
    ASSUME StoreInv, NEW p \in Procs, Elsewhere(p)
    PROVE  /\ call[p].pc \notin Recording
           /\ \E doing : call' = [call EXCEPT ![p] = doing] /\ doing.pc \notin Recording
           /\ pointer' = pointer /\ lapses' = lapses
           /\ decisions' = decisions \/ LogDecline(p)
<1>1. pointer' = pointer /\ lapses' = lapses /\ (decisions' = decisions \/ LogDecline(p))
  BY DEF Elsewhere, Locks, Create, SeeStale, Break, TimesOut, Leave, Edits, Propose, Lookup,
         Build, ReadIndex, Publish, WriteIndex, Dispose, Accept, Gate, Decline, LogDecline,
         Confirm, EndConfirm, Files, Tree, Counted, Starts
<1> QED
  BY <1>1, ToElsewhere, FromElsewhere DEF Elsewhere

\* Every other step of a process, at its record.
LEMMA StepRecording ==
    ASSUME StoreInv, NEW p \in Procs, Compare(p) \/ Mark(p) \/ Point(p) \/ Log(p)
    PROVE  \E doing :
              /\ call' = [call EXCEPT ![p] = doing]
              /\ doing.rev = call[p].rev /\ doing.expected = call[p].expected
              /\ \/ Compare(p) /\ doing.pc = "leave"
                 \/ Compare(p) /\ doing.pc = "mark" /\ doing.seen = Active
                       /\ call[p].expected \in {NoRevision, Active}
                 \/ Mark(p) /\ doing.pc = "point" /\ doing.seen = call[p].seen
                 \/ Point(p) /\ doing.pc = "log" /\ doing.seen = call[p].seen
                 \/ Log(p) /\ doing.pc = "leave"
<1>1. IsDoing(call[p])
  BY Before
<1>2. ASSUME NEW pc, To(p, pc)
      PROVE  \E doing : /\ call' = [call EXCEPT ![p] = doing]
                        /\ doing.rev = call[p].rev /\ doing.expected = call[p].expected
                        /\ doing.pc = pc /\ doing.seen = call[p].seen
  <2>1. PICK doing : doing = [call[p] EXCEPT !.pc = pc]
    OBVIOUS
  <2>2. doing = Shape(call[p], pc, call[p].then, call[p].seen, call[p].read)
    BY <1>1, <2>1 DEF IsDoing, Shape
  <2>3. /\ doing.pc = pc /\ doing.seen = call[p].seen /\ doing.rev = call[p].rev
        /\ doing.expected = call[p].expected
    BY <2>2 DEF Shape
  <2> QED
    BY <1>2, <2>1, <2>3 DEF To, Do
<1>3. ASSUME Do(p, Leaving(call[p], "idle"))
      PROVE  \E doing : /\ call' = [call EXCEPT ![p] = doing] /\ doing.pc = "leave"
                        /\ doing.rev = call[p].rev /\ doing.expected = call[p].expected
  <2>1. PICK doing : doing = Leaving(call[p], "idle")
    OBVIOUS
  <2>2. doing = Shape(call[p], "leave", "idle", call[p].seen, call[p].read)
    BY <1>1, <2>1 DEF IsDoing, Shape, Leaving
  <2>3. doing.pc = "leave" /\ doing.rev = call[p].rev /\ doing.expected = call[p].expected
    BY <2>2 DEF Shape
  <2> QED
    BY <1>3, <2>1, <2>3 DEF Do
<1>4. CASE Compare(p)
  <2>1. PICK now : now = Active
    OBVIOUS
  <2>2. CASE /\ call[p].expected \in {NoRevision, now}
             /\ Do(p, [call[p] EXCEPT !.pc = "mark", !.seen = now])
    <3>1. PICK doing : doing = [call[p] EXCEPT !.pc = "mark", !.seen = now]
      OBVIOUS
    <3>2. doing = Shape(call[p], "mark", call[p].then, now, call[p].read)
      BY <1>1, <3>1 DEF IsDoing, Shape
    <3>3. /\ doing.pc = "mark" /\ doing.seen = now /\ doing.rev = call[p].rev
          /\ doing.expected = call[p].expected
      BY <3>2 DEF Shape
    <3> QED
      BY <1>4, <2>1, <2>2, <3>1, <3>3 DEF Do
  <2>3. CASE Do(p, Leaving(call[p], "idle"))
    BY <1>3, <1>4, <2>3
  <2> QED
    BY <1>4, <2>1, <2>2, <2>3 DEF Compare
<1>5. CASE Mark(p)
  BY <1>2, <1>5 DEF Mark
<1>6. CASE Point(p)
  BY <1>2, <1>6 DEF Point
<1>7. CASE Log(p)
  BY <1>3, <1>7 DEF Log
<1> QED
  BY <1>4, <1>5, <1>6, <1>7

LEMMA NextEntryInv == StoreInv /\ SectionInv /\ EntryInv /\ [Next]_vars => EntryInv'
<1> SUFFICES ASSUME StoreInv, SectionInv, EntryInv, [Next]_vars PROVE EntryInv'
  OBVIOUS
<1>1. lapses \in Nat /\ "leave" \notin Recording
  BY DEF StoreInv, TypeInv, Recording
<1>2. CASE UNCHANGED vars
  BY <1>2 DEF vars, EntryInv
<1>3. CASE Age
  BY <1>3 DEF Age, EntryInv, Counted, Files, Tree
<1>7. ASSUME NEW p \in Procs, Outstay(p) PROVE EntryInv'
  BY <1>1, <1>7 DEF Outstay, EntryInv, Files, Tree
<1>4. ASSUME NEW p \in Procs, Crash(p) PROVE EntryInv'
  <2>1. lapses' # 0 /\ call' = [call EXCEPT ![p] = Idle] /\ Idle.pc \notin Recording
    BY <1>1, <1>4 DEF Crash, Returns, Do, Idle, Recording
  <2>2. call'[p] = Idle /\ \A q \in Procs : q # p => call'[q] = call[q]
    BY <2>1 DEF StoreInv, TypeInv
  <2> QED
    BY <2>1, <2>2 DEF EntryInv
<1>5. ASSUME NEW p \in Procs, Elsewhere(p) PROVE EntryInv'
  <2>1. PICK doing : call' = [call EXCEPT ![p] = doing] /\ doing.pc \notin Recording
    BY <1>5, StepElsewhere
  <2>2. call'[p] = doing /\ \A q \in Procs : q # p => call'[q] = call[q]
    BY <2>1 DEF StoreInv, TypeInv
  <2>3. pointer' = pointer /\ lapses' = lapses
    BY <1>5, StepElsewhere
  <2>4. "mark" \in Recording /\ "point" \in Recording
    BY DEF Recording
  <2> QED
    BY <2>1, <2>2, <2>3, <2>4 DEF EntryInv
<1>6. ASSUME NEW p \in Procs, Compare(p) \/ Mark(p) \/ Point(p) \/ Log(p) PROVE EntryInv'
  <2>1. PICK doing :
          /\ call' = [call EXCEPT ![p] = doing]
          /\ doing.rev = call[p].rev /\ doing.expected = call[p].expected
          /\ \/ Compare(p) /\ doing.pc = "leave"
             \/ Compare(p) /\ doing.pc = "mark" /\ doing.seen = Active
                   /\ call[p].expected \in {NoRevision, Active}
             \/ Mark(p) /\ doing.pc = "point" /\ doing.seen = call[p].seen
             \/ Point(p) /\ doing.pc = "log" /\ doing.seen = call[p].seen
             \/ Log(p) /\ doing.pc = "leave"
    BY <1>6, StepRecording
  <2>2. call'[p] = doing /\ \A q \in Procs : q # p => call'[q] = call[q]
    BY <2>1 DEF StoreInv, TypeInv
  <2>3. lapses' = lapses /\ call[p].pc \in Sections
    BY <1>6 DEF Compare, Mark, Point, Log, Counted, At, Sections
  <2>4. doing.pc \in Recording =>
          doing.rev \in Passing /\ doing.expected \in {NoRevision, doing.seen}
    <3>1. CASE Compare(p)
      <4>1. call[p].pc = "compare" /\ call[p].rev \in Passing
        BY <3>1, Before DEF Compare, At, Ready, Aim
      <4> QED
        BY <1>1, <2>1, <4>1 DEF Mark, Point, Log, At
    <3>2. CASE Mark(p) \/ Point(p)
      <4>1. call[p].pc \in Recording /\ call[p].pc # "compare" /\ call[p].pc # "log"
        BY <3>2 DEF Mark, Point, At, Recording
      <4>2. call[p].rev \in Passing /\ call[p].expected \in {NoRevision, call[p].seen}
        BY <4>1 DEF EntryInv
      <4> QED
        BY <2>1, <4>1, <4>2 DEF Compare, Log, At
    <3>3. CASE Log(p)
      BY <1>1, <2>1, <3>3 DEF Log, Compare, Mark, Point, At
    <3> QED
      BY <1>6, <3>1, <3>2, <3>3
  <2>5. ASSUME lapses = 0, doing.pc \in {"mark", "point"}
        PROVE  pointer' \in {NoRevision, doing.seen}
    <3>1. CASE Compare(p) /\ doing.pc = "mark" /\ doing.seen = Active
      BY <3>1 DEF Compare, Active, Tree, Files
    <3>2. CASE Mark(p) /\ doing.pc = "point" /\ doing.seen = call[p].seen
      BY <2>5, <3>2 DEF Mark, At, EntryInv
    <3> QED
      BY <2>1, <2>5, <3>1, <3>2
  <2>6. ASSUME lapses = 0, NEW q \in Procs, q # p PROVE call'[q].pc \notin Recording
    BY <2>2, <2>3, <2>6, Alone
  <2>7. "mark" \in Recording /\ "point" \in Recording
    BY DEF Recording
  <2> QED
    BY <2>2, <2>3, <2>4, <2>5, <2>6, <2>7 DEF EntryInv
<1> QED
  BY <1>7, <1>2, <1>3, <1>4, <1>5, <1>6 DEF Next, Decides, Elsewhere

\* The entry added to a log is its newest.
LEMMA Added ==
    ASSUME NEW s, s \in Seq({s[i] : i \in DOMAIN s}), NEW e, NEW t, t = Append(s, e)
    PROVE  Ledger!Adds(s, t) /\ Ledger!Newest(t) = e
<1> DEFINE S == {s[i] : i \in DOMAIN s} \cup {e}
<1>1. s \in Seq(S) /\ e \in S
  OBVIOUS
<1> HIDE DEF S
<1>2. Len(s) \in Nat /\ Len(t) = Len(s) + 1 /\ t[Len(s) + 1] = e
  BY <1>1
<1> QED
  BY <1>2 DEF Ledger!Adds, Ledger!Newest

\* What the mapping says of the log when nobody, or only p, is between the two writes.
LEMMA NoneLogging ==
    ASSUME \A q \in Procs : call[q].pc # "log" PROVE Entries = decisions
  BY DEF Entries, Logging, At

LEMMA OneLogging ==
    ASSUME NEW p \in Procs, call[p].pc = "log", \A q \in Procs : q # p => call[q].pc # "log",
           lapses = 0
    PROVE  Entries = Append(decisions, Acceptance(p))
<1>1. Logging = {p}
  BY DEF Logging, At
<1>2. (CHOOSE q \in Logging : TRUE) = p
  BY <1>1
<1> QED
  BY <1>1, <1>2 DEF Entries

LEMMA NoneLoggingNext ==
    ASSUME \A q \in Procs : call'[q].pc # "log" PROVE Entries' = decisions'
<1>1. Logging' = {}
  BY DEF Logging, At
<1> QED
  BY <1>1 DEF Entries

LEMMA OneLoggingNext ==
    ASSUME NEW p \in Procs, call'[p].pc = "log", \A q \in Procs : q # p => call'[q].pc # "log",
           lapses' = 0
    PROVE  Entries' = Append(decisions', Acceptance(p)')
<1>1. Logging' = {p}
  BY DEF Logging, At
<1>2. (CHOOSE q \in Logging' : TRUE) = p
  BY <1>1
<1> QED
  BY <1>1, <1>2 DEF Entries, Acceptance

\* The entry on its way is that of an acceptance.
LEMMA EntryAccepts ==
    ASSUME EntryInv, NEW p \in Procs, call[p].pc \in Recording
    PROVE  Ledger!Accepts(Acceptance(p))
<1>1. call[p].rev \in Passing /\ call[p].expected \in {NoRevision, call[p].seen}
  BY DEF EntryInv
<1>2. PICK e : e = Acceptance(p)
  OBVIOUS
<1>3. e.decision = "accepted" /\ e.rev = call[p].rev /\ e.previous = call[p].seen
      /\ e.expected = call[p].expected
  BY <1>2 DEF Acceptance
<1> QED
  BY <1>1, <1>2, <1>3 DEF Ledger!Accepts

Stays == UNCHANGED <<pointer, Entries, lapses>>

\* Elsewhere the log of the ledger stays, but for a decline.
LEMMA LedgerElsewhere ==
    ASSUME StoreInv, SectionInv, ChainInv, NEW p \in Procs, Elsewhere(p)
    PROVE  Stays \/ Ledger!Decline
<1>1. pointer' = pointer /\ lapses' = lapses /\ call[p].pc \notin Recording
  BY StepElsewhere
<1>2. PICK doing : call' = [call EXCEPT ![p] = doing] /\ doing.pc \notin Recording
  BY StepElsewhere
<1>3. call'[p] = doing /\ \A q \in Procs : q # p => call'[q] = call[q]
  BY <1>2 DEF StoreInv, TypeInv
<1>4. "log" \in Recording
  BY DEF Recording
<1>5. CASE lapses # 0 /\ decisions' = decisions
  BY <1>1, <1>5 DEF Stays, Entries
<1>6. CASE lapses = 0 /\ decisions' = decisions
  <2>1. CASE \A q \in Procs : call[q].pc # "log"
    <3>1. \A q \in Procs : call'[q].pc # "log"
      BY <1>2, <1>3, <1>4, <2>1
    <3> QED
      BY <1>1, <1>6, <2>1, <3>1, NoneLogging, NoneLoggingNext DEF Stays
  <2>2. ASSUME NEW q \in Procs, call[q].pc = "log" PROVE Stays
    <3>1. q # p /\ "log" \in Sections
      BY <1>1, <1>4, <2>2 DEF Sections
    <3>2. \A r \in Procs : r # q => call[r].pc # "log"
      BY <1>4, <1>6, <2>2, <3>1, Alone
    <3>3. call'[q] = call[q] /\ \A r \in Procs : r # q => call'[r].pc # "log"
      BY <1>2, <1>3, <1>4, <3>1, <3>2
    <3>4. Entries = Append(decisions, Acceptance(q))
      BY <1>6, <2>2, <3>2, OneLogging
    <3>5. Entries' = Append(decisions', Acceptance(q)')
      BY <1>1, <1>6, <2>2, <3>3, OneLoggingNext
    <3>6. Acceptance(q)' = Acceptance(q)
      BY <3>3 DEF Acceptance
    <3> QED
      BY <1>1, <1>6, <3>4, <3>5, <3>6 DEF Stays
  <2> QED
    BY <2>1, <2>2
<1>7. CASE LogDecline(p)
  <2>1. PICK e : decisions' = Append(decisions, e) /\ e.decision = "declined"
    BY <1>7 DEF LogDecline
  <2>2. Entries = decisions /\ Entries' = decisions'
    <3>1. CASE lapses # 0
      BY <1>1, <3>1 DEF Entries
    <3>2. CASE lapses = 0
      <4>1. call[p].pc \in Sections
        BY <1>7 DEF LogDecline, At, Sections
      <4>2. \A q \in Procs : q # p => call[q].pc # "log"
        BY <1>4, <3>2, <4>1, Alone
      <4>3. /\ \A q \in Procs : call[q].pc # "log"
            /\ \A q \in Procs : call'[q].pc # "log"
        BY <1>1, <1>2, <1>3, <1>4, <4>2
      <4> QED
        BY <4>3, NoneLogging, NoneLoggingNext
    <3> QED
      BY <3>1, <3>2
  <2>3. PICK old, new : old = decisions /\ new = decisions'
    OBVIOUS
  <2>4. Ledger!Adds(old, new) /\ Ledger!Newest(new) = e
    BY <2>1, <2>3, Added DEF ChainInv
  <2> QED
    BY <1>1, <2>1, <2>2, <2>3, <2>4 DEF Ledger!Decline
<1> QED
  BY <1>5, <1>6, <1>7, StepElsewhere

\* The pointer moves: the acceptance of the ledger, or after a kill half of it.
LEMMA LedgerPoint ==
    ASSUME StoreInv, SectionInv, ChainInv, EntryInv, NEW p \in Procs, Point(p)
    PROVE  Ledger!Accept \/ Ledger!Move
<1>1. /\ call[p].pc = "point" /\ call[p].pc \in Recording /\ call[p].pc \in Sections
      /\ pointer' = call[p].rev /\ UNCHANGED <<decisions, lapses>>
  BY DEF Point, At, Recording, Sections, Counted
<1>2. call[p].rev \in Passing /\ lapses \in Nat
  BY <1>1 DEF EntryInv, StoreInv, TypeInv
<1>3. CASE lapses # 0
  BY <1>1, <1>2, <1>3 DEF Entries, Ledger!Move
<1>4. CASE lapses = 0
  <2>1. PICK doing :
          /\ call' = [call EXCEPT ![p] = doing]
          /\ doing.rev = call[p].rev /\ doing.expected = call[p].expected
          /\ doing.pc = "log" /\ doing.seen = call[p].seen
    BY <1>1, StepRecording DEF Compare, Mark, Log, At
  <2>2. call'[p] = doing /\ \A q \in Procs : q # p => call'[q] = call[q]
    BY <2>1 DEF StoreInv, TypeInv
  <2>3. \A q \in Procs : q # p => call[q].pc # "log" /\ call'[q].pc # "log"
    BY <1>1, <1>4, <2>2, Alone DEF Recording
  <2>4. Entries = decisions
    BY <1>1, <2>3, NoneLogging
  <2>5. Entries' = Append(decisions', Acceptance(p)')
    BY <1>1, <1>4, <2>1, <2>2, <2>3, OneLoggingNext
  <2>6. Acceptance(p)' = Acceptance(p)
    BY <2>1, <2>2 DEF Acceptance
  <2>7. PICK e, old, new : e = Acceptance(p) /\ old = decisions /\ new = Append(old, e)
    OBVIOUS
  <2>8. Entries = old /\ Entries' = new /\ old \in Seq({old[i] : i \in DOMAIN old})
    BY <1>1, <2>4, <2>5, <2>6, <2>7 DEF ChainInv
  <2>9. Ledger!Adds(old, new) /\ Ledger!Newest(new) = e
    BY <2>7, <2>8, Added
  <2>10. Ledger!Accepts(e)
    BY <1>1, <2>7, EntryAccepts
  <2>11. pointer \in {NoRevision, e.previous} /\ pointer' = e.rev
    BY <1>1, <1>4, <2>7 DEF EntryInv, Acceptance
  <2> QED
    BY <1>1, <2>8, <2>9, <2>10, <2>11 DEF Ledger!Accept
<1> QED
  BY <1>3, <1>4

\* The entry is written: the ledger has it already, or after a kill only now.
LEMMA LedgerLog ==
    ASSUME StoreInv, SectionInv, ChainInv, EntryInv, NEW p \in Procs, Log(p)
    PROVE  Stays \/ Ledger!Record
<1>1. /\ call[p].pc = "log" /\ call[p].pc \in Recording /\ call[p].pc \in Sections
      /\ decisions' = Append(decisions, Acceptance(p)) /\ UNCHANGED <<pointer, lapses>>
  BY DEF Log, At, Recording, Sections, Counted, Tree
<1>2. lapses \in Nat
  BY DEF StoreInv, TypeInv
<1>3. CASE lapses # 0
  <2>1. PICK e, old, new : e = Acceptance(p) /\ old = decisions /\ new = Append(old, e)
    OBVIOUS
  <2>2. Entries = old /\ Entries' = new /\ old \in Seq({old[i] : i \in DOMAIN old})
    BY <1>1, <1>3, <2>1 DEF Entries, ChainInv
  <2>3. Ledger!Adds(old, new) /\ Ledger!Newest(new) = e
    BY <2>1, <2>2, Added
  <2>4. Ledger!Accepts(e)
    BY <1>1, <2>1, EntryAccepts
  <2> QED
    BY <1>1, <1>2, <1>3, <2>2, <2>3, <2>4 DEF Ledger!Record
<1>4. CASE lapses = 0
  <2>1. PICK doing : call' = [call EXCEPT ![p] = doing] /\ doing.pc = "leave"
    BY <1>1, StepRecording DEF Compare, Mark, Point, At
  <2>2. call'[p] = doing /\ \A q \in Procs : q # p => call'[q] = call[q]
    BY <2>1 DEF StoreInv, TypeInv
  <2>3. \A q \in Procs : q # p => call[q].pc # "log"
    BY <1>1, <1>4, Alone DEF Recording
  <2>4. \A q \in Procs : call'[q].pc # "log"
    BY <2>1, <2>2, <2>3
  <2> QED
    BY <1>1, <1>4, <2>3, <2>4, OneLogging, NoneLoggingNext DEF Stays
<1> QED
  BY <1>3, <1>4

\* A lapse takes the entry that is not written yet out of the ledger's log.
LEMMA LedgerLapse ==
    ASSUME StoreInv, SectionInv, ChainInv, EntryInv, NEW p \in Procs,
           Crash(p) \/ Outstay(p)
    PROVE  Ledger!Lapse
<1>1. /\ lapses \in Nat /\ lapses' = lapses + 1 /\ lapses' # 0
      /\ UNCHANGED <<pointer, decisions>>
  BY DEF Crash, Outstay, Files, Tree, StoreInv, TypeInv
<1>2. Entries' = decisions
  BY <1>1 DEF Entries
<1>3. CASE Entries = decisions
  BY <1>1, <1>2, <1>3 DEF Ledger!Lapse
<1>4. CASE Entries # decisions
  <2>1. lapses = 0 /\ \E q \in Procs : call[q].pc = "log"
    BY <1>4, NoneLogging DEF Entries
  <2>2. PICK q \in Procs : call[q].pc = "log"
    BY <2>1
  <2>3. call[q].pc \in Recording /\ call[q].pc \in Sections
    BY <2>2 DEF Recording, Sections
  <2>4. \A r \in Procs : r # q => call[r].pc # "log"
    BY <2>1, <2>3, Alone DEF Recording
  <2>5. PICK e, old, new : e = Acceptance(q) /\ old = decisions /\ new = Append(old, e)
    OBVIOUS
  <2>6. Entries = new /\ old \in Seq({old[i] : i \in DOMAIN old})
    BY <2>1, <2>2, <2>4, <2>5, OneLogging DEF ChainInv
  <2>7. Ledger!Adds(old, new) /\ Ledger!Newest(new) = e
    BY <2>5, <2>6, Added
  <2>8. Ledger!Accepts(e)
    BY <2>3, <2>5, EntryAccepts
  <2> QED
    BY <1>1, <1>2, <2>1, <2>5, <2>6, <2>7, <2>8 DEF Ledger!Lapse
<1> QED
  BY <1>3, <1>4

LEMMA StoreLedgerStep ==
    StoreInv /\ SectionInv /\ ChainInv /\ EntryInv /\ [Next]_vars => [Ledger!Next]_Ledger!ledger
<1> SUFFICES ASSUME StoreInv, SectionInv, ChainInv, EntryInv, [Next]_vars
             PROVE  Stays \/ Ledger!Next
  BY DEF Stays, Ledger!ledger
<1>1. CASE UNCHANGED vars
  BY <1>1 DEF vars, Stays, Entries, Logging, At, Acceptance
<1>2. CASE Age
  BY <1>2 DEF Age, Stays, Entries, Logging, At, Acceptance, Counted, Files, Tree
<1>3. ASSUME NEW p \in Procs, Compare(p) \/ Mark(p) PROVE Stays
  <2>1. /\ call[p].pc \in Sections /\ call[p].pc # "log"
        /\ UNCHANGED <<pointer, decisions, lapses>>
    BY <1>3 DEF Compare, Mark, At, Sections, Counted, Files, Tree
  <2>2. PICK doing : call' = [call EXCEPT ![p] = doing] /\ doing.pc # "log"
    BY <1>3, StepRecording DEF Compare, Mark, Point, Log, At
  <2>3. call'[p] = doing /\ \A q \in Procs : q # p => call'[q] = call[q]
    BY <2>2 DEF StoreInv, TypeInv
  <2>4. CASE lapses # 0
    BY <2>1, <2>4 DEF Stays, Entries
  <2>5. CASE lapses = 0
    <3>1. \A q \in Procs : call[q].pc # "log" /\ call'[q].pc # "log"
      BY <2>1, <2>2, <2>3, <2>5, Alone DEF Recording
    <3> QED
      BY <2>1, <3>1, NoneLogging, NoneLoggingNext DEF Stays
  <2> QED
    BY <2>4, <2>5
<1>4. ASSUME NEW p \in Procs, Locks(p) \/ Edits(p) \/ Decides(p) \/ Crash(p)
      PROVE  Stays \/ Ledger!Next
  <2>1. CASE Elsewhere(p)
    BY <2>1, LedgerElsewhere DEF Ledger!Next
  <2>2. CASE Compare(p) \/ Mark(p)
    BY <1>3, <2>2
  <2>3. CASE Point(p)
    BY <2>3, LedgerPoint DEF Ledger!Next
  <2>4. CASE Log(p)
    BY <2>4, LedgerLog DEF Ledger!Next
  <2>5. CASE Crash(p)
    BY <2>5, LedgerLapse DEF Ledger!Next
  <2> QED
    BY <1>4, <2>1, <2>2, <2>3, <2>4, <2>5 DEF Decides, Elsewhere
<1>5. ASSUME NEW p \in Procs, Outstay(p) PROVE Ledger!Next
  BY <1>5, LedgerLapse DEF Ledger!Next
<1> QED
  BY <1>1, <1>2, <1>4, <1>5 DEF Next

LEMMA StoreLedgerInit == Init => Ledger!Init /\ EntryInv
<1> SUFFICES ASSUME Init PROVE Ledger!Init /\ EntryInv
  OBVIOUS
<1>1. pointer = NoRevision /\ decisions = << >> /\ lapses = 0
      /\ \A p \in Procs : call[p].pc = "idle"
  BY DEF Init, Idle
<1>2. Entries = decisions
  BY <1>1, NoneLogging
<1> QED
  BY <1>1, <1>2 DEF Ledger!Init, EntryInv, Recording

\* The store implements the ledger: although an acceptance compares, marks, points and
\* logs in four steps, and any number of processes wait, build, decline and confirm in
\* between, it is one step of the ledger until the lock lapses; and what is
\* activated and logged after that passed all the same (commit, decline, _lock).
THEOREM StoreImplementsLedger == Spec => KeepsStoreLedger
<1>1. StoreInv /\ SectionInv /\ ChainInv /\ [Next]_vars => ChainInv'
  BY NextChainInv
<1>2. Spec => []ChainInv
  BY <1>1, InitChainInv, AlwaysStoreInv, AlwaysSectionInv, PTL DEF Spec
<1>3. StoreInv /\ SectionInv /\ EntryInv /\ [Next]_vars => EntryInv'
  BY NextEntryInv
<1>4. Init => Ledger!Init /\ EntryInv
  BY StoreLedgerInit
<1>5. StoreInv /\ SectionInv /\ ChainInv /\ EntryInv /\ [Next]_vars
        => [Ledger!Next]_Ledger!ledger
  BY StoreLedgerStep
<1> QED
  BY <1>2, <1>3, <1>4, <1>5, AlwaysStoreInv, AlwaysSectionInv, PTL
     DEF Spec, KeepsStoreLedger, Ledger!Spec
=============================================================================
