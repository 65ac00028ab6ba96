------------------------ MODULE EnvironmentActivation ------------------------
(***************************************************************************)
(* An environment and the pointer that names its active release            *)
(* (lifecycle/environment.py, and _environment of services/lifecycle.py).  *)
(* Activation and rollback are proposed, reviewed and executed; execution  *)
(* writes the pointer, the event and the receipt, in this order, and may   *)
(* be interrupted between them.                                            *)
(*                                                                         *)
(* The hash of a pointer covers its generation, its release and the hash   *)
(* of the pointer before it, so a pointer is the sequence of the releases  *)
(* selected so far: its length is the generation.                          *)
(***************************************************************************)
EXTENDS Naturals, Sequences, FiniteSets, SequencesExt, TLC

CONSTANTS
  Procs,         \* processes that execute activations
  Releases,      \* published and attested releases
  Reviewers,     \* people with an activation role; one credential each
  Approvals,        \* approvals an execution needs
  None,
  MaxGeneration, \* bound: activations
  MaxProposals,  \* bound: different proposals
  MaxReviews,    \* bound: review decisions
  MaxCreations,  \* bound: environment.create with the same name
  MaxFaults      \* bound: interruptions

VARIABLES
  creations,  \* how often the environment was created
  pointer,    \* state/environment-pointer
  applied,    \* ActivationApplied and RollbackApplied events: the proposals, in order
  receipts,   \* execution receipts
  proposals,
  reviews,    \* ActivationReviewed events, in order
  revoked,    \* reviewers whose credential was revoked
  seen,       \* the pointer a client read with the current head, or None
  run,        \* the execution each process is in
  faults

vars == <<creations, pointer, applied, receipts, proposals, reviews, revoked, seen, run, faults>>

Kinds == {"ACTIVATE", "ROLLBACK"}
Proposal == [kind : Kinds, target : Releases, base : Seq(Releases)]
Idle == [step |-> "idle"]

AInit ==
  /\ creations = 1 /\ pointer = << >> /\ applied = << >> /\ receipts = {}
  /\ proposals = {} /\ reviews = << >> /\ revoked = {} /\ seen = None
  /\ run = [p \in Procs |-> Idle] /\ faults = 0

\* The identity of an environment is its content: a second creation under the
\* same name is the same environment, with a new pointer.
Create ==
  /\ creations < MaxCreations
  /\ creations' = creations + 1
  /\ pointer' = << >> /\ seen' = None
  /\ UNCHANGED <<applied, receipts, proposals, reviews, revoked, run, faults>>

\* _pointer: as many events and receipts as generations, and the receipts a chain.
Explained ==
  /\ Len(pointer) = Len(applied) /\ Cardinality(receipts) = Len(applied)
  /\ \A g \in DOMAIN applied : \E r \in receipts :
       /\ r.event = g /\ r.proposal = applied[g]
       /\ r.old = SubSeq(pointer, 1, g - 1) /\ r.new = SubSeq(pointer, 1, g)

Propose(kind, target) ==
  LET prop == [kind |-> kind, target |-> target, base |-> pointer]
  IN /\ Explained
     /\ kind = "ROLLBACK" => \E r \in receipts : r.proposal.kind = "ACTIVATE" /\ r.proposal.target = target
     /\ Cardinality(proposals \cup {prop}) <= MaxProposals
     /\ proposals' = proposals \cup {prop}
     /\ seen' = None
     /\ UNCHANGED <<creations, pointer, applied, receipts, reviews, revoked, run, faults>>

\* An approval may come without the acknowledgement of a breaking change.
Verdicts == {"APPROVE", "UNACKNOWLEDGED", "REJECT"}

Review(prop, by, decision) ==
  /\ prop \in proposals /\ by \notin revoked /\ Len(reviews) < MaxReviews
  /\ reviews' = Append(reviews, [prop |-> prop, by |-> by, decision |-> decision])
  /\ seen' = None
  /\ UNCHANGED <<creations, pointer, applied, receipts, proposals, revoked, run, faults>>

\* Fault: the first review of each reviewer counts.
CurrentFirst(prop) ==
  {i \in DOMAIN reviews : /\ reviews[i].prop = prop
                          /\ \A k \in DOMAIN reviews :
                               reviews[k].prop = prop /\ reviews[k].by = reviews[i].by => k >= i}

\* current_environment_reviews: the last of each reviewer, in the order of the events.
Current(prop) ==
  {i \in DOMAIN reviews : /\ reviews[i].prop = prop
                          /\ \A k \in DOMAIN reviews :
                               reviews[k].prop = prop /\ reviews[k].by = reviews[i].by => k <= i}

Approvers(prop) == {reviews[i].by : i \in {k \in Current(prop) : reviews[k].decision # "REJECT"}}

Look ==
  /\ seen' = pointer
  /\ UNCHANGED <<creations, pointer, applied, receipts, proposals, reviews, revoked, run, faults>>

\* The decision the caller names is current, approves and acknowledges; nobody
\* rejects, enough approve, and each who approves holds a live credential.
Consent(prop, i) ==
  /\ i \in Current(prop) /\ reviews[i].decision = "APPROVE"
  /\ \A k \in Current(prop) : reviews[k].decision # "REJECT"
  /\ Cardinality(Approvers(prop)) >= Approvals
  /\ Approvers(prop) \cap revoked = {}

\* The registry head and the pointer are those the caller read, and the
\* pointer is the one the proposal was made for.
Unchanged(prop) == seen = pointer /\ prop.base = pointer

Check(p, prop) ==
  /\ run[p] = Idle /\ Len(pointer) < MaxGeneration
  /\ \E i \in DOMAIN reviews : Consent(prop, i)
  /\ Explained /\ Unchanged(prop)
  /\ run' = [run EXCEPT ![p] = [step |-> "checked", prop |-> prop, old |-> pointer]]
  /\ UNCHANGED <<creations, pointer, applied, receipts, proposals, reviews, revoked, seen, faults>>

SavePointer(p) ==
  /\ run[p].step = "checked"
  /\ pointer' = Append(run[p].old, run[p].prop.target)
  /\ run' = [run EXCEPT ![p].step = "pointed"]
  /\ UNCHANGED <<creations, applied, receipts, proposals, reviews, revoked, seen, faults>>

LogEvent(p) ==
  /\ run[p].step = "pointed"
  /\ applied' = Append(applied, run[p].prop)
  /\ run' = [run EXCEPT ![p] = [@ EXCEPT !.step = "logged"] @@ [event |-> Len(applied) + 1]]
  /\ seen' = None
  /\ UNCHANGED <<creations, pointer, receipts, proposals, reviews, revoked, faults>>

SaveReceipt(p) ==
  /\ run[p].step = "logged"
  /\ LET x == run[p]
     IN receipts' = receipts \cup {[event |-> x.event, proposal |-> x.prop, old |-> x.old,
                                    new |-> Append(x.old, x.prop.target)]}
  /\ run' = [run EXCEPT ![p] = Idle]
  /\ UNCHANGED <<creations, pointer, applied, proposals, reviews, revoked, seen, faults>>

\* A busy registry, a failed write or a death: nothing is undone.
Interrupt(p) ==
  /\ run[p] # Idle /\ faults < MaxFaults
  /\ run' = [run EXCEPT ![p] = Idle]
  /\ faults' = faults + 1
  /\ UNCHANGED <<creations, pointer, applied, receipts, proposals, reviews, revoked, seen>>

Revoke(by) ==
  /\ revoked' = revoked \cup {by}
  /\ UNCHANGED <<creations, pointer, applied, receipts, proposals, reviews, seen, run, faults>>

\* The operations of the service, one at a time on a generation of their own;
\* between them the steps of an execution are not interrupted by an operation.
Quiet == \A p \in Procs : run[p] = Idle

Operation ==
  \/ Create
  \/ \E kind \in Kinds, r \in Releases : Propose(kind, r)
  \/ \E prop \in proposals, by \in Reviewers, d \in Verdicts : Review(prop, by, d)
  \/ \E p \in Procs, prop \in proposals : Check(p, prop)

Next ==
  \/ Quiet /\ Operation
  \/ Look
  \/ \E by \in Reviewers : Quiet /\ Revoke(by)
  \/ \E p \in Procs : SavePointer(p) \/ LogEvent(p) \/ SaveReceipt(p) \/ Interrupt(p)

Spec == AInit /\ [][Next]_vars

-----------------------------------------------------------------------------
(* Properties.                                                             *)

\* Type correctness.
TypeOK ==
  /\ pointer \in Seq(Releases) /\ Len(pointer) <= MaxGeneration
  /\ proposals \subseteq Proposal /\ ToSet(applied) \subseteq proposals
  /\ \A r \in receipts : r.event \in 1..MaxGeneration /\ r.proposal \in proposals
  /\ seen = None \/ seen \in Seq(Releases)
  /\ \A p \in Procs : run[p].step \in {"idle", "checked", "pointed", "logged"}

\* "A stale pointer is a concurrency conflict rather than an implicit
\* overwrite" (docs/lifecycle/activation-and-rollback.md:4-5): the pointer
\* only ever moves to a successor of itself.  The code does not keep it: creating
\* the environment again is not refused (README.md, "Statements TLC refutes").
NoOverwrite == [][pointer' # pointer => pointer' # << >> /\ pointer = Front(pointer')]_vars

\* What the code keeps: no execution overwrites, so that a pointer is lost to a
\* second creation only (lifecycle/environment.py, init_environment and
\* execute_activation).
LostToCreationOnly ==
  [][pointer' # pointer =>
       \/ pointer' # << >> /\ pointer = Front(pointer')
       \/ creations' # creations /\ pointer' = << >>]_vars

\* When an execution is let through, the people it rests on still approve:
\* counted by the last word of each in the order in which they were said,
\* enough approve, nobody rejects, nobody who approves has lost the
\* credential, and the proposal was made for the very pointer it replaces.
LastWord(prop, by) ==
  LET said == SelectSeq(reviews, LAMBDA r : r.prop = prop /\ r.by = by)
  IN IF said = << >> THEN "NONE" ELSE Last(said).decision

MovedByConsent ==
  [][\A p \in Procs : run[p] = Idle /\ run'[p] # Idle =>
       LET prop == run'[p].prop
       IN /\ prop.base = pointer
          /\ Cardinality({by \in Reviewers \ revoked : LastWord(prop, by) \notin {"NONE", "REJECT"}}) >= Approvals
          /\ \A by \in Reviewers : LastWord(prop, by) # "REJECT"
          /\ \A by \in revoked : LastWord(prop, by) = "NONE"]_vars

\* An approval is used once: no proposal is executed a second time, also not
\* after the release it selected was replaced and selected again.
OncePerProposal ==
  \A g, h \in DOMAIN applied : applied[g] = applied[h] => g = h

\* A rollback selects a release that an earlier activation had selected.
RollbackReturns ==
  \A g \in DOMAIN applied : applied[g].kind = "ROLLBACK" =>
    \E h \in 1..(g - 1) : applied[h].kind = "ACTIVATE" /\ applied[h].target = applied[g].target

\* An interrupted execution fails closed: while a pointer lacks its event, or
\* an event its receipt, no execution starts and the pointer does not move.  So
\* it is with an environment whose pointer a second creation has lost; the second
\* creation itself, however, may end an interruption.
Unfinished == Len(pointer) # Len(applied) \/ Cardinality(receipts) # Len(applied)

InterruptionIsFinal ==
  [][Quiet /\ Unfinished /\ creations' = creations => Unfinished' /\ Quiet' /\ pointer' = pointer]_vars
==============================================================================
