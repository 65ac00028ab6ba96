-------------------------- MODULE ReleaseGovernance --------------------------
(***************************************************************************)
(* The release operations of the service (services/lifecycle.py) over the  *)
(* registry of one project: packages and consumers are registered, changes *)
(* are regressed and evaluated, candidates are proposed, reviewed by       *)
(* people and published.  An operation is one step: it is computed in a    *)
(* private copy and published as a whole (FencedExecution).  Between two   *)
(* operations credentials are revoked and the server is restarted with     *)
(* another review profile.                                                 *)
(***************************************************************************)
EXTENDS Naturals, Sequences, FiniteSets, FiniteSetsExt

CONSTANTS
  Packages,     \* packages of one name: each but the first released is a successor
  Consumers,    \* applications that may be registered for the ontology
  Creds,        \* credentials,
  Owner,        \* the person each belongs to,
  Grants,       \* and the review roles it grants
  Profiles,     \* review profiles of the server,
  Required,     \* the roles each requires,
  MinReviewers, \* and how many people
  Decisions,    \* of a review; REQUEST_CHANGES counts as REJECT everywhere
  None,
  MaxActions,   \* bound: review actions of all candidates
  MaxPlans      \* bound: regression runs

ASSUME ReleaseAssumption ==
  /\ None \notin Packages
  /\ {MaxActions, MaxPlans} \subseteq Nat
  /\ MinReviewers \in [Profiles -> Nat \ {0}]

VARIABLES
  imported,     \* registered packages
  consumers,    \* registered consumers
  plans,        \* regression runs: what was compared, for which consumers, and the verdict
  evaluations,  \* complete evaluations of a change
  candidates,   \* release candidates; their status never changes
  actions,      \* the review log of each candidate
  releases,     \* published: a candidate, and the log it was published with
  revoked,      \* revoked credentials
  profile,      \* configuration.review_profile of the running server
  seen          \* what the publishing client last looked at

vars == <<imported, consumers, plans, evaluations, candidates, actions, releases, revoked, profile, seen>>

Change == [base : Packages, cand : Packages, cover : SUBSET Consumers]
Candidate == [pkg : Packages, change : Change \cup {None}, profile : Profiles]
Action == [by : Creds, decision : Decisions]

NothingSeen == [cand |-> None, log |-> << >>]

RInit ==
  /\ imported = {} /\ consumers = {} /\ plans = {} /\ evaluations = {}
  /\ candidates = {} /\ actions = [c \in {} |-> << >>] /\ releases = {}
  /\ revoked = {} /\ profile \in Profiles /\ seen = NothingSeen

\* An event changes the head of the registry: what a client read of it is out of date.
NewHead == seen' = NothingSeen

-----------------------------------------------------------------------------
(* What is released is prepared.                                           *)

Import(p) ==
  /\ p \notin imported
  /\ imported' = imported \cup {p} /\ NewHead
  /\ UNCHANGED <<consumers, plans, evaluations, candidates, actions, releases, revoked, profile>>

RegisterConsumer(k) ==
  /\ k \notin consumers
  /\ consumers' = consumers \cup {k} /\ NewHead
  /\ UNCHANGED <<imported, plans, evaluations, candidates, actions, releases, revoked, profile>>

\* change.diff, change.impact and change.regression: records without an event.
Regress(b, c) ==
  /\ {b, c} \subseteq imported /\ b # c
  /\ \E passed \in BOOLEAN :
       plans' = plans \cup {[change |-> [base |-> b, cand |-> c, cover |-> consumers], passed |-> passed]}
  /\ Cardinality(plans') <= MaxPlans
  /\ UNCHANGED <<imported, consumers, evaluations, candidates, actions, releases, revoked, profile, seen>>

Covered(change) == consumers \subseteq change.cover

Evaluate(plan) ==
  /\ Covered(plan.change)
  /\ evaluations' = evaluations \cup {ch \in {plan.change} : plan.passed}
  /\ NewHead
  /\ UNCHANGED <<imported, consumers, plans, candidates, actions, releases, revoked, profile>>

-----------------------------------------------------------------------------
(* Candidates and reviews.                                                 *)

Released == {r.cand.pkg : r \in releases}

\* Whether this is a successor is decided by the releases there are now.
Propose(p) ==
  /\ p \in imported
  /\ \E change \in IF Released = {} THEN {None} ELSE {ch \in evaluations : ch.cand = p /\ Covered(ch)} :
       LET c == [pkg |-> p, change |-> change, profile |-> profile]
       IN /\ candidates' = candidates \cup {c}
          /\ actions' = [d \in candidates' |-> IF d \in candidates THEN actions[d] ELSE << >>]
  /\ NewHead
  /\ UNCHANGED <<imported, consumers, plans, evaluations, releases, revoked, profile>>

RolesOf(c, a) == Grants[a.by] \cap Required[c.profile]

CurrentPolicy(c) == c.profile = profile

Review(c, cred, decision) ==
  LET a == [by |-> cred, decision |-> decision]
  IN /\ c \in candidates /\ cred \notin revoked /\ CurrentPolicy(c)
     /\ RolesOf(c, a) # {}
     /\ MapThenSumSet(LAMBDA d : Len(actions[d]), candidates) < MaxActions
     /\ actions' = [actions EXCEPT ![c] = Append(@, a)]
     /\ NewHead
     /\ UNCHANGED <<imported, consumers, plans, evaluations, candidates, releases, revoked, profile>>

\* The last action of each reviewer.
Latest(log) == {i \in DOMAIN log : \A k \in DOMAIN log : Owner[log[k].by] = Owner[log[i].by] => k <= i}

\* Fault: the approvals ever given count.
QuorumEver(c, log) ==
  LET approvals == {i \in DOMAIN log : log[i].decision = "APPROVE"}
  IN /\ approvals # {}
     /\ Required[c.profile] \subseteq UNION {RolesOf(c, log[i]) : i \in approvals}
     /\ Cardinality({Owner[log[i].by] : i \in approvals}) >= MinReviewers[c.profile]

\* _quorum
Quorum(c, log) ==
  LET approvals == {i \in Latest(log) : log[i].decision = "APPROVE"}
  IN /\ approvals = Latest(log) /\ approvals # {}
     /\ Required[c.profile] \subseteq UNION {RolesOf(c, log[i]) : i \in approvals}
     /\ Cardinality({Owner[log[i].by] : i \in approvals}) >= MinReviewers[c.profile]

\* Every action is proven by a receipt of its reviewer, and the credential of
\* that receipt must still grant the roles of the action.  The log a later
\* review returned contains the earlier actions too, and receipts are looked
\* up in the order of random job names: any of them may be found first.
Proven(c, log) ==
  \A i \in DOMAIN log : \E k \in i..Len(log) :
    /\ Owner[log[k].by] = Owner[log[i].by]
    /\ log[k].by \notin revoked
    /\ RolesOf(c, log[i]) \subseteq Grants[log[k].by]

-----------------------------------------------------------------------------
(* Publication.                                                            *)

\* A client reads the head of the registry and a review log.
Look(c) ==
  /\ c \in candidates
  /\ seen' = [cand |-> c, log |-> actions[c]]
  /\ UNCHANGED <<imported, consumers, plans, evaluations, candidates, actions, releases, revoked, profile>>

\* The expected head is the current one only if the client read it after the last event.
ExpectedHead == seen # NothingSeen

\* Fault: the consumers of the evaluation are not looked at again.
ClosedOnce(c) == c.change # None => c.change \in evaluations

\* The change of a successor is complete and covers the consumers there are now.
Closed(c) == c.change # None => c.change \in evaluations /\ Covered(c.change)

Publish(c) ==
  /\ c \in candidates /\ ExpectedHead
  /\ CurrentPolicy(c) /\ Closed(c)
  /\ Quorum(c, actions[c]) /\ Proven(c, actions[c])
  /\ releases' = releases \cup {[cand |-> c, log |-> actions[c]]}
  /\ IF releases' # releases THEN NewHead ELSE UNCHANGED seen
  /\ UNCHANGED <<imported, consumers, plans, evaluations, candidates, actions, revoked, profile>>

Revoke(cred) ==
  /\ revoked' = revoked \cup {cred}
  /\ UNCHANGED <<imported, consumers, plans, evaluations, candidates, actions, releases, profile, seen>>

Reconfigure ==
  /\ profile' \in Profiles
  /\ UNCHANGED <<imported, consumers, plans, evaluations, candidates, actions, releases, revoked, seen>>

Next ==
  \/ \E p \in Packages : Import(p) \/ Propose(p)
  \/ \E k \in Consumers : RegisterConsumer(k)
  \/ \E b, c \in Packages : Regress(b, c)
  \/ \E plan \in plans : Evaluate(plan)
  \/ \E c \in candidates : Look(c) \/ Publish(c)
  \/ \E c \in candidates, cred \in Creds, d \in Decisions : Review(c, cred, d)
  \/ \E cred \in Creds : Revoke(cred)
  \/ Reconfigure

Spec == RInit /\ [][Next]_vars

-----------------------------------------------------------------------------
(* Properties.                                                             *)

\* Type correctness; every release is of a candidate that was reviewed.
TypeOK ==
  /\ imported \subseteq Packages /\ consumers \subseteq Consumers /\ revoked \subseteq Creds
  /\ evaluations \subseteq Change /\ candidates \subseteq Candidate /\ profile \in Profiles
  /\ \A c \in candidates : \A i \in DOMAIN actions[c] : actions[c][i] \in Action
  /\ \A r \in releases : r.cand \in candidates /\ r.log # << >>

LastWord(log, person) ==
  LET said == {i \in DOMAIN log : Owner[log[i].by] = person}
  IN IF said = {} THEN "none" ELSE log[Max(said)].decision

Supporters(r) == {Owner[cred] : cred \in Creds} \ {h \in {Owner[cred] : cred \in Creds} : LastWord(r.log, h) # "APPROVE"}

\* A release stands on people whose last word was to approve, on enough of
\* them, and against nobody's last word, whatever was said and withdrawn
\* before (_quorum, release.py:88-89).
QuorumStands ==
  \A r \in releases :
    /\ Cardinality(Supporters(r)) >= MinReviewers[r.cand.profile]
    /\ \A cred \in Creds : LastWord(r.log, Owner[cred]) \in {"none", "APPROVE"}

New == releases' \ releases

\* The credential behind each approval that counts is live when the release is
\* published, although earlier actions may be proven by another credential of
\* the same person (services/lifecycle.py:277-290).
CountedApprovalsAreLive ==
  [][\A r \in New : \A i \in Latest(r.log) : r.log[i].by \notin revoked]_vars

\* Under a profile only what satisfies that profile is published, whatever
\* was proposed and approved before a restart (require_release_policy).
ProfileIsEnforced ==
  [][\A r \in New : /\ Cardinality(Supporters(r)) >= MinReviewers[profile]
                    /\ Required[profile] \subseteq UNION {Grants[r.log[i].by] : i \in Latest(r.log)}]_vars

\* A successor is published only on a regression that passed for this very package
\* against another one, and that covered every consumer registered by then, also
\* those that came after it ran, after the evaluation, or after the approvals
\* (require_consumer_coverage, evaluate_change, _check_successor_closure).
SuccessorsAreRegressed ==
  [][\A r \in New : r.cand.change # None =>
       \E plan \in plans :
         /\ plan.change = r.cand.change /\ plan.passed
         /\ plan.change.cand = r.cand.pkg /\ plan.change.base \in imported \ {r.cand.pkg}
         /\ consumers \subseteq plan.change.cover]_vars

\* What was found, decided and configured at different times all still holds at
\* the moment of a publication: the regression, the credentials behind the last
\* words, and the policy.
PublishedOnStanding == SuccessorsAreRegressed /\ CountedApprovalsAreLive /\ ProfileIsEnforced

\* Nothing happened to the registry between the publisher's look and the
\* publication: what is published of a log is what was looked at.
PublishedAsSeen ==
  [][\A r \in New : r.cand = seen.cand => r.log = seen.log]_vars

\* "Successors must use the separately governed change/regression workflow;
\* never relabel a successor as an initial release" (services/lifecycle.py:240-241).
\* The code does not keep it: TLC refutes it (README.md, "Statements TLC refutes").
SuccessorsAreEvaluated ==
  [][\A r \in New : releases # {} /\ r.cand.pkg \notin Released => r.cand.change # None]_vars
==============================================================================
