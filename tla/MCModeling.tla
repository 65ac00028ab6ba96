----------------------------- MODULE MCModeling -----------------------------
(***************************************************************************)
(* Instance for TLC of what people decide between sources and rules: the   *)
(* evolution of a project's configuration, the modeling session and the    *)
(* review of its proposal, the review of a dataset and the re-entry of an  *)
(* approved amendment.                                                     *)
(*                                                                         *)
(* The parts share no variable: a behaviour exercises one and leaves the   *)
(* others at their initial states.                                         *)
(***************************************************************************)
EXTENDS BusinessEvolution, ModelingReview, DatasetReview, AmendmentReentry, TLC

CONSTANTS p1, p2, o1, o2, i1, k1, k2, s1, d1, x1, x2, v1, ann, bob, cyd, c0, c1, c2, q1, rev1,
          Parts   \* parts to exercise

VARIABLES
  part,
  session, asked, written, reviews   \* modeling session

modeling == <<session, asked, written, reviews>>

MCDecisionOf ==
  p1 :> (o1 :> "CREATE" @@ o2 :> "VERIFY") @@ p2 :> (o1 :> "CREATE" @@ o2 :> "CREATE")

\* One package, and a longer history.
History == INSTANCE BusinessEvolution
  WITH Packages <- {p1}, DecisionOf <- p1 :> (o1 :> "CREATE" @@ o2 :> "SKIP"),
       MaxVersion <- 3, MaxHistory <- 4, MaxCandidates <- 3, MaxRuns <- 1

Session == INSTANCE ModelingSession
  WITH Inputs <- {i1}, Configs <- {k1, k2}, Scopes <- {s1}, Drafts <- {d1}, Selections <- {x1, x2},
       Versions <- {v1}, MaxRevision <- 13, MaxActions <- 2

\* A term of the ontology, which needs two roles; or a mapping and a fact that
\* needs it, with a conflict.  Two reviewers have several roles, one has one.
MCQueues == {[candidates |-> {c0}, conflicts |-> {}], [candidates |-> {c1, c2}, conflicts |-> {q1}]}

MCScope == c0 :> "TBOX" @@ c1 :> "MAPPING" @@ c2 :> "ABOX"

MCDependsOn == c0 :> {} @@ c1 :> {} @@ c2 :> {c1}

MCHolds == ann :> {"Domain Expert", "Ontology Engineer", "Data/Knowledge Engineer", "Data Steward", "Development Reviewer"}
           @@ bob :> {"Domain Expert", "Domain Reviewer", "Data/Knowledge Engineer"}
           @@ cyd :> {"Ontology Engineer"}

\* Two entities, of which one may become the other, and three assertions; "c"
\* and "q" are contents no candidate of the proposal has.
MCContent ==
  [a |-> [kind |-> "ENTITY", iri |-> "A"],
   b |-> [kind |-> "ENTITY", iri |-> "B"],
   c |-> [kind |-> "ENTITY", iri |-> "C"],
   r |-> [kind |-> "DATA", subject |-> "a", object |-> "1"],
   q |-> [kind |-> "DATA", subject |-> "c", object |-> "1"],
   s |-> [kind |-> "DATA", subject |-> "b", object |-> "1"],
   w |-> [kind |-> "OBJECT", subject |-> "a", object |-> "b"]]

MCIdentifiers == <<"b", "a", "r", "s", "w">>

MCMayBecome == [a |-> {"b"}, b |-> {"c"}, r |-> {"q"}, s |-> {}, w |-> {}]

MCRelated == [i |-> {"a", "r"}, j |-> {"b"}]

\* Requests of every type, on the first publication and on one made by another request.
Req(type, value, sources, refs, base) ==
  [type |-> type, value |-> value, sources |-> sources, refs |-> refs, base |-> base]

MCRequests == {Req("PROPOSE_VALUE_CANDIDATE", 2, {}, {}, 1),
               Req("PROPOSE_VALUE_CANDIDATE", 1, {}, {}, 2),
               Req("PROPOSE_VALUE_CANDIDATE", 2, {2}, {}, 2),
               Req("PROPOSE_SOURCE_ATTACHMENT", 0, {1}, {}, 1),
               Req("REQUEST_REVIEW_REOPEN", 0, {}, {<<1, 1>>}, 1),
               Req("REQUEST_REVIEW_REOPEN", 1, {}, {}, 1),
               Req("PROPOSE_CONSTRAINT_REVIEW", 0, {}, {}, 1),
               Req("NO_CHANGE_RECOMMENDED", 0, {}, {}, 1)}

MCDecisions == {<<"CONFIRM", 0>>, <<"REJECT", 0>>, <<"DEFER", 0>>, <<"MODIFY", 2>>}

MCTargets == {{}, {2}}

MCInit ==
  /\ part \in Parts
  /\ BInit /\ Session!SInit /\ RInit /\ DInit /\ AInit
  /\ part # "review" => server = "DEVELOPMENT" /\ queue.conflicts = {}

OrdersStep == part = "orders" /\ Next /\ UNCHANGED <<modeling, rvars, dvars, avars>>

HistoryStep == part = "history" /\ History!Next /\ UNCHANGED <<modeling, rvars, dvars, avars>>

SessionStep == part = "session" /\ Session!Next /\ UNCHANGED <<bvars, rvars, dvars, avars>>

ReviewStep == part = "review" /\ RNext /\ UNCHANGED <<bvars, modeling, dvars, avars>>

DatasetStep == part = "dataset" /\ DNext /\ UNCHANGED <<bvars, modeling, rvars, avars>>

ReentryStep == part = "reentry" /\ ANext /\ UNCHANGED <<bvars, modeling, rvars, dvars>>

MCNext ==
  /\ \/ OrdersStep \/ HistoryStep \/ SessionStep \/ ReviewStep \/ DatasetStep \/ ReentryStep
  /\ UNCHANGED part

MCSpec == MCInit /\ [][MCNext]_<<part, bvars, modeling, rvars, dvars, avars>>

Symmetry == Permutations(People) \cup Permutations({k1, k2}) \cup Permutations({x1, x2})

-----------------------------------------------------------------------------
(* Properties of the parts.                                                *)

\* What is current in a modeling session was made from what is current and
\* under what is frozen; what was confirmed had been checked, a package stands
\* on the last word of its review, and the revision tells every change
\* (services/modeling_sessions.py).
SessionIsSound ==
  /\ [](part = "session" =>
         /\ Session!TypeOK /\ Session!ChainIsCurrent /\ Session!MadeUnderFrozen
         /\ Session!ConfirmedWasChecked /\ Session!PackageIsLastWord)
  /\ Session!RevisionTells
=============================================================================
