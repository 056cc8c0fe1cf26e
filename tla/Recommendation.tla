--------------------------- MODULE Recommendation ---------------------------
(***************************************************************************)
(* The recommendation loop of one design: propose, preview each proposal   *)
(* through CAD and evaluator, rank, show, and let the user accept one.     *)
(*                                                                         *)
(* A card's previewed design is kept with it (after); accepting it makes   *)
(* that design the active one, as the commit is built from the preview's   *)
(* own artifacts. A confirmation may change the active design at any       *)
(* time, and what was proposed for the old one is then stale.              *)
(***************************************************************************)
EXTENDS ProposalGate, Ranking

CONSTANTS
  Missions,       \* the missions a design may be evaluated for
  Designs,        \* the designs an import may hand over
  ClaimEntries,   \* [part, mass]: what a user may enter on a confirmation
  ProviderOps,    \* the operations a configured provider may write
  MAX_DISPLAYED,
  MAX_CONFIRMS,   \* bound: confirmations
  MAX_FOREIGN     \* bound: provider-written cards accepted

ASSUME InputsAssumption ==
  /\ \A d \in Designs : IsDesign(d)
  /\ \A e \in ClaimEntries : e.mass \in Int
  /\ ProviderOps \subseteq Operations
  /\ MAX_DISPLAYED \in Nat

VARIABLES
  mission,    \* the mission of the design, fixed at import
  design,     \* the active design
  base,       \* the design the current proposals were made for
  current,    \* whether base is still the active design
  queue,      \* proposals that passed the gate and await their preview
  cards,      \* previewed, in ranked order once stage is "shown"
  stage,      \* "idle", "proposed" or "shown"
  requests,   \* the parts a mass is asked for
  settled,    \* whether the active design came from an accepted card
  confirms, foreign   \* how often the bounded actions happened

vars == <<mission, design, base, current, queue, cards, stage, requests, settled, confirms, foreign>>

Eval(d) == Evaluate(d, mission)

Proposal(key, op, origin) ==
  [id |-> key, op |-> op, origin |-> origin, state |-> "proposed", base |-> Unknown,
   cand |-> Unknown, gain |-> Unknown, after |-> Unknown]

\* The deterministic candidates that pass the gate, then the provider's while there is budget.
\* The provider writes one operation here or, as the default one does, none.
Deterministic(seq) == [i \in DOMAIN seq |-> Proposal(seq[i].key, seq[i].op, "deterministic")]
Queue(own) ==
  \/ queue' = own
  \/ /\ foreign < MAX_FOREIGN /\ Len(own) < MAX_CANDIDATES
     /\ \E written \in ProviderOps :
          /\ Valid(design, mission, written)
          /\ queue' = Append(own, Proposal(<<written.target, "provider">>, written, "provider"))
Passing(generated) ==
  Selected(generated, {i \in DOMAIN generated : Valid(design, mission, generated[i].op)})
Answer(eval) ==
  /\ requests' = EvidenceRequests(design, eval)
  /\ Queue(Deterministic(Passing(Generate(design, mission, eval))))
Propose ==
  /\ stage # "proposed"
  /\ Answer(Eval(design))
  /\ base' = design /\ current' = TRUE /\ cards' = <<>> /\ stage' = "proposed"
  /\ UNCHANGED <<mission, design, settled, confirms, foreign>>

\* A preview that CAD refuses is blocked; one that evaluates is ready when nothing blocks it.
Evaluations(c, parts, was, eval) ==
  [c EXCEPT !.base = was, !.cand = eval, !.after = parts,
            !.gain = Gain(Objective(base, mission), Objective(parts, mission), was, eval),
            !.state = IF Blocking(eval) = {} THEN "review_ready" ELSE "blocked"]
Built(c, cad) ==
  IF cad.ok THEN Evaluations(c, cad.parts, Eval(base), Eval(cad.parts))
  ELSE [c EXCEPT !.state = "blocked"]
Staged(c) == Built(c, ApplyEdit(base, c.op))
Preview ==
  /\ stage = "proposed" /\ queue # <<>>
  /\ cards' = Append(cards, IF current THEN Staged(Head(queue))
                            ELSE [Head(queue) EXCEPT !.state = "stale"])
  /\ queue' = Tail(queue)
  /\ UNCHANGED <<mission, design, base, current, stage, requests, settled, confirms, foreign>>

Finalise ==
  /\ stage = "proposed" /\ queue = <<>>
  /\ cards' \in Rankings(cards) /\ stage' = "shown"
  /\ UNCHANGED <<mission, design, base, current, queue, requests, settled, confirms, foreign>>

Displayed == {i \in DOMAIN cards : i <= MAX_DISPLAYED}

\* Mutant: the base of the card is not compared with the active design.
AcceptStale ==
  /\ \E i \in DOMAIN cards :
       /\ cards[i].state = "review_ready"
       /\ design' = cards[i].after
       /\ foreign' = foreign + (IF cards[i].origin = "provider" THEN 1 ELSE 0)
  /\ current' = FALSE /\ settled' = TRUE
  /\ UNCHANGED <<mission, base, queue, cards, stage, requests, confirms>>

\* A decision names a proposal: one that was previewed, on the page or not, while others may
\* still wait. The decision path refuses it when its base is no longer active.
Accept ==
  /\ current
  /\ \E i \in DOMAIN cards :
       /\ cards[i].state = "review_ready"
       /\ design' = cards[i].after
       /\ foreign' = foreign + (IF cards[i].origin = "provider" THEN 1 ELSE 0)
  /\ current' = FALSE /\ settled' = TRUE
  /\ UNCHANGED <<mission, base, queue, cards, stage, requests, confirms>>

\* Flags are recorded as sent and entered masses replace what was there, known or not.
Confirm ==
  /\ confirms < MAX_CONFIRMS
  /\ \E flags \in {{"units", "frame", "reconstruction"}, {"units", "frame"}},
        entries \in {{}} \cup {{e} : e \in ClaimEntries} :
       design' = [design EXCEPT
                    !.confirmed = flags,
                    !.mass = [p \in Parts |->
                       IF \E e \in entries : e.part = p
                       THEN (CHOOSE e \in entries : e.part = p).mass ELSE design.mass[p]]]
  /\ current' = FALSE /\ settled' = FALSE /\ confirms' = confirms + 1
  /\ UNCHANGED <<mission, base, queue, cards, stage, requests, foreign>>

Init ==
  /\ mission \in Missions /\ design \in Designs
  /\ base = design /\ current = FALSE /\ queue = <<>> /\ cards = <<>> /\ stage = "idle"
  /\ requests = {} /\ settled = FALSE /\ confirms = 0 /\ foreign = 0
Next == Propose \/ Preview \/ Finalise \/ Accept \/ Confirm
Spec == Init /\ [][Next]_vars

-----------------------------------------------------------------------------
\* A card that moves a mass to centre the aircraft does centre it: the screen in the generator,
\* the CAD port and the evaluator agree on where the mass ends up.
CgCardCentres ==
  \A i \in DOMAIN cards :
    cards[i].id[2] = "cg" /\ Evaluated(cards[i]) => cards[i].cand.cg_envelope = "pass"

\* What was shown as ready is still feasible once it is the design: no confirmation can slip a
\* heavier part between the preview and the acceptance, and no unknown counts as passed.
AcceptedIsFeasible ==
  settled => VerifiedFeasible(Eval(design)) /\ Weighed(design)

\* Among the cards, none that leaves the aircraft infeasible pushes a ready one off the page.
ReadyIsDisplayed ==
  stage = "shown" /\ (\E i \in Displayed : cards[i].state = "blocked" /\ current)
    => \A j \in DOMAIN cards \ Displayed : cards[j].state # "review_ready"

\* Definitions that several parts share are shared by what an operation on one of them owns:
\* every mount bears on each spar that may be resized, and a tip definition is the pair's alone.
DefinitionsOwned ==
  /\ \A s \in WithCap("resize_spar"), q \in WithRole("mount") : s \in Contacts[q]
  /\ \A p, q \in WithCap("set_wing_tip_extension") : Mirror[q] = p =>
       \A r \in Parts \ {p, q} : Def[r] \notin {Def[p], Def[q]}

\* An acceptance changes the parts its operation owns, none of them locked, and nothing else of
\* the design that is active then: not a mass a user has just entered, not a shared definition.
Fingerprint(d, p) ==
  <<d.x[p], d.mass[p], d.size[p],
    IF Role[p] = "mount" THEN d.bore ELSE 0,
    IF Def[p] \in DOMAIN d.tip THEN d.tip[Def[p]] ELSE 0>>
AcceptTouchesOwned ==
  [][Accept =>
       \E i \in DOMAIN cards :
         /\ design' = cards[i].after /\ design'.confirmed = design.confirmed
         /\ Owned(cards[i].op) \cap Locked(mission) = {}
         /\ \A p \in Parts \ Owned(cards[i].op) : Fingerprint(design', p) = Fingerprint(design, p)]_vars

\* A user who keeps accepting what the deterministic generators offer comes to an end: no swap
\* undoes another, and no card offers the design that is already there.
DialogueEnds == <>[][~Accept]_vars
=============================================================================
