--------------------------- MODULE ModelingReview ---------------------------
(***************************************************************************)
(* The human review of one modeling proposal: the append-only actions      *)
(* (control_plane/review/actions.py), their replay (replay.py) and the     *)
(* finalization under the policy the queue was built for (policy.py,       *)
(* finalization.py), as the service drives them (_review of                *)
(* services/modeling.py).  The queue is fixed; a reviewer decides on the   *)
(* head it has just read, any other request is refused unchanged.          *)
(***************************************************************************)
EXTENDS Naturals, Sequences, FiniteSets, FiniteSetsExt, SequencesExt

CONSTANTS
  Queues,      \* proposals under review: their candidates and their blocking conflicts
  Scope,       \* publication scope of a candidate
  DependsOn,   \* candidates a candidate needs
  Blocked,     \* candidates with a blocking problem
  Revisions,   \* what a reviewer may change a candidate into
  Reviewers,
  Holds,       \* roles of a person
  Tried,       \* decisions on a candidate that are tried
  MaxActions,  \* bound: length of the log
  None

ASSUME ReviewAssumption ==
  /\ \A q \in Queues : q.candidates \cap q.conflicts = {}
  /\ \A q \in Queues : \A c \in q.candidates : Scope[c] \in {"TBOX", "SHACL", "MAPPING", "ABOX"}
  /\ IsFiniteSet(Reviewers) /\ MaxActions \in Nat
  /\ "RESOLVE_CONFLICT" \notin Tried

VARIABLES
  server,    \* review profile of the running server
  policy,    \* profile the queue's policy was made for
  queue,     \* the proposal
  log,       \* review actions
  packages   \* packages written: the length of the log and what it accepted

rvars == <<server, policy, queue, log, packages>>

ReviewProfiles == {"PRODUCTION", "DEVELOPMENT"}
Positive == {"ACCEPT", "MODIFY_AND_ACCEPT"}
Terminal == Positive \cup {"REJECT", "DEFER"}

\* Roles in their sorted order and how many people must approve.
Production(scope) ==
  CASE scope = "TBOX"    -> [roles |-> <<"Domain Expert", "Ontology Engineer">>, minimum |-> 2]
    [] scope = "SHACL"   -> [roles |-> <<"Constraint Reviewer", "Ontology Engineer">>, minimum |-> 1]
    [] scope = "MAPPING" -> [roles |-> <<"Data/Knowledge Engineer">>, minimum |-> 1]
    [] scope = "ABOX"    -> [roles |-> <<"Data Steward", "Domain Reviewer">>, minimum |-> 1]

Rule(c) == IF policy = "DEVELOPMENT" THEN [roles |-> <<"Development Reviewer">>, minimum |-> 1]
           ELSE Production(Scope[c])

RInit ==
  /\ server \in ReviewProfiles /\ policy = server
  /\ queue \in Queues /\ log = << >> /\ packages = {}

\* The first required role the person holds that no acceptance has used yet,
\* or else the first one.
RoleFor(p, c) ==
  LET roles == Rule(c).roles
      held  == {i \in DOMAIN roles : roles[i] \in Holds[p]}
      free  == {i \in held : \A k \in DOMAIN log :
                 log[k].on = c /\ log[k].decision = "ACCEPT" => log[k].role # roles[i]}
  IN IF held = {} THEN None ELSE roles[Min(IF free # {} THEN free ELSE held)]

Decide(p, c, d) ==
  /\ Len(log) < MaxActions /\ RoleFor(p, c) # None
  /\ c \in Blocked => d \notin Positive
  /\ \E rev \in IF d = "MODIFY_AND_ACCEPT" THEN Revisions ELSE {None} :
       log' = Append(log, [on |-> c, decision |-> d, by |-> p, role |-> RoleFor(p, c), revision |-> rev])
  /\ UNCHANGED <<server, policy, queue, packages>>

\* All roles of a policy; one of them is enough to resolve a conflict.
PolicyRoles == IF policy = "DEVELOPMENT" THEN {"Development Reviewer"}
               ELSE UNION {ToSet(Production(s).roles) : s \in {"TBOX", "SHACL", "MAPPING", "ABOX"}}

Resolve(p, issue) ==
  /\ Len(log) < MaxActions /\ Holds[p] \cap PolicyRoles # {}
  /\ log' = Append(log, [on |-> issue, decision |-> "RESOLVE_CONFLICT", by |-> p, role |-> None, revision |-> None])
  /\ UNCHANGED <<server, policy, queue, packages>>

\* Fault: the last action in each role counts, whoever took it.
SupersedesInRole(b, a) == b.on = a.on /\ b.role = a.role

\* Of the same person on the same candidate, the last action counts.
Supersedes(b, a) == b.on = a.on /\ b.by = a.by

Final(n) == log[n].decision \in Terminal

\* replay_review: each reviewer's last terminal action on each candidate.
Latest ==
  {log[n] : n \in {m \in DOMAIN log : Final(m) /\ \A k \in DOMAIN log : k > m /\ Final(k) => ~Supersedes(log[k], log[m])}}

\* Candidates for which evidence was requested and nothing decided since.
Requested ==
  {log[n].on : n \in {m \in DOMAIN log : /\ log[m].decision = "REQUEST_EVIDENCE"
                                       /\ \A k \in DOMAIN log : k > m /\ Final(k) => log[k].on # log[m].on}}

Settled == {log[n].on : n \in {m \in DOMAIN log : log[m].decision = "RESOLVE_CONFLICT"}}

\* The final decisions: all of a candidate's reviewers agree, also on the revision.
Agreed(c, decision) ==
  /\ \E a \in Latest : a.on = c /\ a.decision = decision
  /\ \A a, b \in Latest : a.on = c /\ b.on = c => a.decision = b.decision /\ a.revision = b.revision

\* _enforce_quorum: enough people, in all required roles when there must be
\* as many people as roles, else in one of them.
Quorum(c) ==
  LET own   == {a \in Latest : a.on = c}
      roles == {a.role : a \in own}
  IN /\ Cardinality({a.by : a \in own}) >= Rule(c).minimum
     /\ IF Rule(c).minimum >= Len(Rule(c).roles) THEN ToSet(Rule(c).roles) \subseteq roles
        ELSE ToSet(Rule(c).roles) \cap roles # {}

Accepted == {c \in queue.candidates : \E d \in Positive : Agreed(c, d)}

Finalize ==
  /\ \A c \in queue.candidates : \E d \in Terminal : Agreed(c, d)
  /\ Requested = {} /\ queue.conflicts \subseteq Settled
  /\ \A c \in Accepted : Quorum(c) /\ c \notin Blocked /\ DependsOn[c] \subseteq Accepted
  /\ packages' = packages \cup {[head |-> Len(log), accepted |-> Accepted]}
  /\ UNCHANGED <<server, policy, queue, log>>

\* The server is started again with another review profile.
Restart ==
  /\ server' \in ReviewProfiles \ {server}
  /\ UNCHANGED <<policy, queue, log, packages>>

RNext ==
  \/ \E p \in Reviewers, c \in queue.candidates, d \in Tried : Decide(p, c, d)
  \/ \E p \in Reviewers, i \in queue.conflicts : Resolve(p, i)
  \/ Finalize
  \/ Restart

RSpec == RInit /\ [][RNext]_rvars

-----------------------------------------------------------------------------
(* Properties.                                                             *)

\* Type correctness.
RTypeOK ==
  /\ {server, policy} \subseteq ReviewProfiles
  /\ queue \in Queues /\ Len(log) <= MaxActions
  /\ \A i \in DOMAIN log : log[i].on \in queue.candidates \cup queue.conflicts /\ log[i].by \in Reviewers
  /\ \A k \in packages : k.head \in 0..Len(log) /\ k.accepted \subseteq queue.candidates

\* What a person said last on a candidate before the package was written.
Said(k, p, c) ==
  LET mine == {n \in 1..k.head : log[n].on = c /\ log[n].by = p /\ Final(n)}
  IN IF mine = {} THEN "NOTHING" ELSE log[Max(mine)].decision

\* "role/quorum compliance" (docs/modeling/human-review-workflow.md:21-23):
\* an accepted candidate has the last word of as many different people as its
\* scope asks for, one of them in each role where all roles are needed, and
\* nobody's last word is against it.
AcceptedByQuorum ==
  \A k \in packages : \A c \in k.accepted :
    LET supporters == {p \in Reviewers : Said(k, p, c) \in Positive}
        rule       == Rule(c)
    IN /\ Cardinality(supporters) >= rule.minimum
       /\ \A p \in Reviewers : Said(k, p, c) \in Positive \cup {"NOTHING"}
       /\ rule.minimum >= Len(rule.roles) =>
            \E f \in [ToSet(rule.roles) -> supporters] : \A r \in ToSet(rule.roles) :
              /\ r \in Holds[f[r]]
              /\ \A s \in ToSet(rule.roles) \ {r} : f[s] # f[r]

\* "all candidates decided, all blocking conflicts resolved" (same lines): no
\* package is written over an undecided candidate, a conflict nobody resolved,
\* or a request for evidence that no decision has followed.
NothingLeftOpen ==
  \A k \in packages :
    /\ \A c \in queue.candidates : \E p \in Reviewers : Said(k, p, c) # "NOTHING"
    /\ \A i \in queue.conflicts : \E n \in 1..k.head : log[n].on = i
    /\ \A n \in 1..k.head : log[n].decision = "REQUEST_EVIDENCE" =>
         \E m \in n..k.head : log[m].on = log[n].on /\ log[m].decision \in Terminal

\* "accepted dependencies": what is accepted is closed, however the opinions
\* on a dependency changed after the candidate that needs it was accepted.
ClosedAcceptance ==
  \A k \in packages : \A c \in k.accepted : DependsOn[c] \subseteq k.accepted

\* A confirmed package has the quorum of its candidates' rules, is closed under
\* dependencies and leaves nothing undecided
\* (modeling/control_plane/review/finalization.py).
ConfirmedIsReviewed == RTypeOK /\ AcceptedByQuorum /\ NothingLeftOpen /\ ClosedAcceptance

\* "PRODUCTION_MULTI_ROLE requires the declared expert roles and is not
\* silently weakened" (docs/modeling/human-review-workflow.md:7-9).
\* The code does not keep it: TLC refutes it (README.md, "Statements TLC refutes").
ProductionNotWeakened ==
  [][packages' # packages /\ server = "PRODUCTION" => policy = "PRODUCTION"]_rvars
=============================================================================
