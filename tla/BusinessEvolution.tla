------------------------- MODULE BusinessEvolution -------------------------
(***************************************************************************)
(* Local actions and the reviewed evolution of their configuration         *)
(* (services/business.py): plans, work orders, executions, candidates, the *)
(* active configuration and its history, all in registry/business-state    *)
(* .json.  Every operation runs in a job on a private copy that is         *)
(* published whole, so each is one step.                                   *)
(***************************************************************************)
EXTENDS Naturals, Sequences, FiniteSets, SequencesExt

CONSTANTS
  Packages,    \* packages a plan may be made for
  Objects,     \* business objects
  DecisionOf,  \* [Packages -> [Objects -> "CREATE" | "SKIP" | "VERIFY"]]
  Priorities,  \* priorities a configuration may set
  Initial,     \* priority of the configuration a project starts with
  People,      \* principals that may propose and review
  MaxVersion,  \* bound: configuration versions
  MaxHistory,  \* bound: activations and rollbacks
  MaxRuns,     \* bound: executions
  MaxCandidates, \* bound: candidates
  Profiles     \* review profiles the server may run with

ASSUME BusinessAssumption ==
  /\ DecisionOf \in [Packages -> [Objects -> {"CREATE", "SKIP", "VERIFY"}]]
  /\ Initial \in Priorities
  /\ {MaxHistory, MaxRuns, MaxCandidates} \subseteq Nat
  /\ MaxVersion \in Nat \ {0}

VARIABLES
  active,      \* the configuration in force
  history,     \* activations and rollbacks
  plans,       \* plans: package and configuration
  orders,      \* work orders, by object
  executions,  \* the plan of each execution and the outcome of each object it ordered
  candidates,  \* proposed configurations with their status and review
  live,        \* people whose credential is in force
  profile      \* review profile of the server

bvars == <<active, history, plans, orders, executions, candidates, live, profile>>

BInit ==
  /\ active = [priority |-> Initial, version |-> 1]
  /\ history = << >> /\ plans = {} /\ orders = {} /\ executions = << >> /\ candidates = {}
  /\ live = People /\ profile \in Profiles

\* task.plan
Plan(p) ==
  /\ plans' = plans \cup {[package |-> p, configuration |-> active]}
  /\ UNCHANGED <<active, history, orders, executions, candidates, live, profile>>

Wanted(p) == {o \in Objects : DecisionOf[p][o] = "CREATE"}

Ordered == {w.object : w \in orders}

Order(o, plan) == [object |-> o, priority |-> active.priority, plan |-> plan]

\* An object that has an order keeps it, whatever package and plan it is from.
OrdersAfter(plan) == orders \cup {Order(o, plan) : o \in Wanted(plan.package) \ Ordered}

\* A plan is carried out under the configuration it was made for.
Fresh(plan) == plan.configuration = active

\* task.execute
Execute(plan) ==
  /\ Fresh(plan) /\ Len(executions) < MaxRuns
  /\ orders' = OrdersAfter(plan)
  /\ executions' = Append(executions, [plan |-> plan, created |-> Wanted(plan.package) \ Ordered,
                                       existing |-> Wanted(plan.package) \cap Ordered])
  /\ UNCHANGED <<active, history, plans, candidates, live, profile>>

\* evolution.propose: proposing the same again keeps evaluation and approval.
Propose(p, run, configuration) ==
  /\ configuration.version > active.version /\ Cardinality(candidates) < MaxCandidates
  /\ LET id == [run |-> run, base |-> active, configuration |-> configuration, author |-> p]
     IN candidates' = IF \E c \in candidates : c.id = id THEN candidates
                      ELSE candidates \cup {[id |-> id, status |-> "CANDIDATE", reviewer |-> {}]}
  /\ UNCHANGED <<active, history, plans, orders, executions, live, profile>>

Based(c) == c.id.base = active

Becomes(c, status, reviewer) ==
  candidates' = (candidates \ {c}) \cup {[id |-> c.id, status |-> status, reviewer |-> reviewer]}

\* Both checks: the decisions stay what they were, and the rows differ. A row
\* holds no version, so only another priority on at least one object passes.
Passes(c) == c.id.configuration.priority # c.id.base.priority /\ Objects # {}

\* evolution.evaluate drops the review there was.
Evaluate(c) ==
  /\ Based(c)
  /\ Becomes(c, IF Passes(c) THEN "VALIDATED" ELSE "REGRESSION_FAILED", {})
  /\ UNCHANGED <<active, history, plans, orders, executions, live, profile>>

Independent(p, c) == profile = "DEVELOPMENT_SINGLE_REVIEWER" \/ p # c.id.author

\* evolution.review, by a human with a credential that is in force.
Review(p, c, approve) ==
  /\ Based(c) /\ p \in live /\ Independent(p, c)
  /\ c.status = "VALIDATED"
  /\ Becomes(c, IF approve THEN "APPROVED" ELSE "REJECTED", {p})
  /\ UNCHANGED <<active, history, plans, orders, executions, live, profile>>

\* Fault: the reviewer's credential is not looked up again.
StandsAlways(c) == c.status = "APPROVED"

\* The approval stands as long as the reviewer's credential does.
Stands(c) == c.status = "APPROVED" /\ c.reviewer \subseteq live

Move(to, by) ==
  /\ Len(history) < MaxHistory
  /\ history' = Append(history, [before |-> active, after |-> to, by |-> by])
  /\ active' = to

\* evolution.activate
Activate(c) ==
  /\ Based(c) /\ Stands(c)
  /\ Move(c.id.configuration, "activation")
  /\ Becomes(c, "ACTIVE", c.reviewer)
  /\ UNCHANGED <<plans, orders, executions, live, profile>>

\* Fault: a rollback looks for the version before instead of the entry before.
RollbackByVersion ==
  /\ history # << >> /\ active.version > 1
  /\ \E p \in Priorities : Move([priority |-> p, version |-> active.version - 1], "rollback")
  /\ UNCHANGED <<plans, orders, executions, candidates, live, profile>>

\* evolution.rollback: back to before the last entry, whether that was an
\* activation or a rollback; no candidate is looked at.
Rollback ==
  /\ history # << >>
  /\ Move(Last(history).before, "rollback")
  /\ UNCHANGED <<plans, orders, executions, candidates, live, profile>>

Revoke(p) ==
  /\ p \in live
  /\ live' = live \ {p}
  /\ UNCHANGED <<active, history, plans, orders, executions, candidates, profile>>

\* The server is restarted with another review profile.
Reconfigure ==
  /\ profile' \in Profiles \ {profile}
  /\ UNCHANGED <<active, history, plans, orders, executions, candidates, live>>

Next ==
  \/ \E p \in Packages : Plan(p)
  \/ \E plan \in plans : Execute(plan)
  \/ \E p \in People, run \in DOMAIN executions, pr \in Priorities, v \in 2..MaxVersion :
       Propose(p, run, [priority |-> pr, version |-> v])
  \/ \E c \in candidates :
       \/ Evaluate(c)
       \/ \E p \in People, approve \in BOOLEAN : Review(p, c, approve)
       \/ Activate(c)
  \/ Rollback
  \/ \E p \in People : Revoke(p)
  \/ Reconfigure

Spec == BInit /\ [][Next]_bvars

-----------------------------------------------------------------------------
(* Properties.                                                             *)

Configuration == [priority : Priorities, version : 1..MaxVersion]

\* Type correctness; and no candidate has two states, no object two orders.
TypeOK ==
  /\ active \in Configuration
  /\ \A c, d \in candidates : c.id = d.id => c = d
  /\ \A w, x \in orders : w.object = x.object => w = x
  /\ \A i \in DOMAIN executions : executions[i].plan \in plans

\* "a rollback uses the digest of the active configuration, and does not
\* rewrite existing business records" (docs/upgrade/module-contracts.md:64):
\* an order that exists stays as it is, for ever.
OrdersNotRewritten == [][orders \subseteq orders']_bvars

\* An order says under which plan it was made, and it has the priority that
\* plan was made with; exactly one execution reports it as created, and that
\* one carried out this plan.
OrdersAreAsPlanned ==
  \A w \in orders :
    /\ w.priority = w.plan.configuration.priority
    /\ Cardinality({i \in DOMAIN executions : w.object \in executions[i].created}) = 1
    /\ \E i \in DOMAIN executions : w.object \in executions[i].created /\ executions[i].plan = w.plan

\* The history is a chain from the first configuration to the active one, and
\* every configuration in it was brought in by an activation: no sequence of
\* rollbacks reaches anything that was never reviewed.
HistoryIsChain ==
  LET start == [priority |-> Initial, version |-> 1]
      known == {start} \cup {h.after : h \in {g \in ToSet(history) : g.by = "activation"}}
  IN /\ active = IF history = << >> THEN start ELSE Last(history).after
     /\ \A i \in DOMAIN history :
          /\ history[i].before = IF i = 1 THEN start ELSE history[i - 1].after
          /\ history[i].after \in known

\* "regression and human review are required before activation, and the
\* activation verifies the reviewer again" (docs/upgrade/module-contracts.md:63):
\* a configuration comes in only from a candidate made on the active one, that
\* passed, and that somebody whose credential is in force now approved.
ActivationIsReviewed ==
  [][Len(history') > Len(history) /\ Last(history').by = "activation" =>
       \E c \in candidates :
         /\ c.id.base = active /\ c.id.configuration = active'
         /\ Passes(c) /\ c.reviewer # {} /\ c.reviewer \subseteq live]_bvars

\* "the production review profile refuses the author's own review"
\* (docs/upgrade/module-contracts.md:63): nothing is activated in production
\* that its author approved.
\* The code does not keep it: TLC refutes it (README.md, "Statements TLC refutes").
IndependentInProduction ==
  [][Len(history') > Len(history) /\ Last(history').by = "activation" /\ profile = "PRODUCTION_MULTI_ROLE" =>
       \E c \in candidates : Stands(c) /\ c.id.configuration = active' /\ c.id.author \notin c.reviewer]_bvars
=============================================================================
