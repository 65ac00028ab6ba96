---------------------------- MODULE MCLifecycle ----------------------------
(***************************************************************************)
(* Instance for TLC of what governs releases and publications: the review  *)
(* and publication of releases, the registry they are recorded in, the     *)
(* activation of a release in an environment, the history of activated     *)
(* publications and the governance workspace.                              *)
(*                                                                         *)
(* The parts share no variable, so an interleaving of two shows neither    *)
(* anything new: a behaviour exercises one part and leaves the others at   *)
(* their initial states.                                                   *)
(***************************************************************************)
EXTENDS ReleaseGovernance, GovernanceWorkspace

CONSTANTS ann1, ann2, bob, p1, p2, k1, note, pkg1, pkg2, w1, w2, rel1, rel2, r1, u1, u2,
          Parts   \* parts to exercise

VARIABLES
  part,
  events, head, snap, records, stored, lock, step, item, nextHash, acked, failures, \* registry
  creations, pointer, applied, receipts, proposals, reviews, lost, known, run, cuts, \* environment
  log, selected, changed                                                            \* history

registry == <<events, head, snap, records, stored, lock, step, item, nextHash, acked, failures>>
environment == <<creations, pointer, applied, receipts, proposals, reviews, lost, known, run, cuts>>
history == <<log, selected, changed>>
governance == wvars

\* Ann has two credentials, of which the first grants fewer roles.
MCOwner == [c \in Creds |-> IF c = bob THEN "bob" ELSE "ann"]
MCGrants == [c \in Creds |->
               IF c = ann1 THEN {"RM"} ELSE IF c = ann2 THEN {"RM", "DS"} ELSE {"DS"}]

MCRequired == [p \in Profiles |-> IF p = "PRODUCTION" THEN {"RM", "DS"} ELSE {"RM"}]
MCMinReviewers == [p \in Profiles |-> IF p = "PRODUCTION" THEN 2 ELSE 1]

\* A first release and its successor, with a consumer that may register, under
\* one reviewer.
Succession == INSTANCE ReleaseGovernance
  WITH Packages <- {p1, p2}, Consumers <- {k1}, Creds <- {ann2}, Profiles <- {"DEVELOPMENT"},
       Decisions <- {"APPROVE"}, MaxActions <- 2, MaxPlans <- 2

\* Two processes that may be killed use one registry, or one with more to do.
OwnVersion == [i \in {pkg1, pkg2} |-> i]

Journal == INSTANCE RegistryJournal
  WITH Procs <- {w1, w2}, Items <- {note, pkg1, pkg2}, Imports <- {pkg1, pkg2}, VersionOf <- OwnVersion,
       MaxEvents <- 4, MaxFaults <- 2, faults <- failures

Together == INSTANCE RegistryJournal
  WITH Procs <- {w1, w2}, Items <- {note, pkg1}, Imports <- {pkg1}, VersionOf <- OwnVersion,
       MaxEvents <- 3, MaxFaults <- 1, faults <- failures

Alone == INSTANCE RegistryJournal
  WITH Procs <- {w1}, Items <- {note, pkg1, pkg2}, Imports <- {pkg1, pkg2}, VersionOf <- OwnVersion,
       MaxEvents <- 4, MaxFaults <- 2, faults <- failures

\* Activations without interruptions, and fewer of them with one.
Activation == INSTANCE EnvironmentActivation
  WITH Procs <- {w1}, Releases <- {rel1, rel2}, Reviewers <- {ann2, bob}, Approvals <- 1,
       MaxGeneration <- 3, MaxProposals <- 3, MaxReviews <- 3, MaxCreations <- 2, MaxFaults <- 0,
       revoked <- lost, seen <- known, faults <- cuts

Interrupted == INSTANCE EnvironmentActivation
  WITH Procs <- {w1}, Releases <- {rel1, rel2}, Reviewers <- {ann2, bob}, Approvals <- 1,
       MaxGeneration <- 2, MaxProposals <- 2, MaxReviews <- 2, MaxCreations <- 2, MaxFaults <- 1,
       revoked <- lost, seen <- known, faults <- cuts

History == INSTANCE ActivationHistory
  WITH Base <- pkg1, Candidates <- {rel1, rel2}, Reasons <- {r1}, MaxEvents <- 9, pointer <- selected

MCInit ==
  /\ part \in Parts
  /\ RInit /\ (part = "review" \/ profile = "DEVELOPMENT")
  /\ Journal!JInit /\ Activation!AInit /\ History!HInit /\ WInit

ReviewStep == part = "review" /\ Next /\ UNCHANGED <<registry, environment, history, governance>>

AloneStep == part = "alone" /\ Alone!Next /\ UNCHANGED <<vars, environment, history, governance>>

SuccessionStep == part = "succession" /\ Succession!Next /\ UNCHANGED <<registry, environment, history, governance>>

TogetherStep == part = "together" /\ Together!Next /\ UNCHANGED <<vars, environment, history, governance>>

ActivationStep == part = "activation" /\ Activation!Next /\ UNCHANGED <<vars, registry, history, governance>>

InterruptedStep == part = "interrupted" /\ Interrupted!Next /\ UNCHANGED <<vars, registry, history, governance>>

HistoryStep == part = "history" /\ History!Next /\ UNCHANGED <<vars, registry, environment, governance>>

GovernanceStep == part = "governance" /\ WNext /\ UNCHANGED <<vars, registry, environment, history>>

MCNext ==
  /\ \/ ReviewStep \/ SuccessionStep \/ TogetherStep \/ AloneStep
     \/ ActivationStep \/ InterruptedStep \/ HistoryStep \/ GovernanceStep
  /\ UNCHANGED part

MCSpec == MCInit /\ [][MCNext]_<<part, vars, registry, environment, history, governance>>

-----------------------------------------------------------------------------
(* Properties of the parts.                                                *)

\* The chain behind the head of the registry is an append-only log, whatever
\* dies, fails or races: an orphaned event is final, every other interruption is
\* healed by the next append, and the registry of one process that verifies has
\* all that was acknowledged (lifecycle/registry/events.py).
RegistryIsLog ==
  /\ Journal!RefinesAppendLog /\ Journal!OrphanIsFinal /\ Journal!AckHeals
  /\ [](part = "alone" => Journal!VerifiedIsComplete)

\* The pointer of an environment moves by current consent only, and to a successor
\* of itself unless the environment is created again; an approval is used once, a
\* rollback returns to what an activation had selected, and what lacks an event or
\* a receipt is never accepted nor moved again (lifecycle/environment.py).  The log
\* of activated publications that is written is replayed, and the replay accepts
\* nothing else (activation/registry.py).
EnvironmentMovesByConsent ==
  /\ Activation!MovedByConsent /\ Activation!LostToCreationOnly /\ Interrupted!InterruptionIsFinal
  /\ [](Activation!OncePerProposal /\ Activation!RollbackReturns)
  /\ [](part = "history" => History!TypeOK /\ History!ReplayIsExact /\ History!WrittenIsReplayed)
=============================================================================
