--------------------------- MODULE ModelingSession ---------------------------
(***************************************************************************)
(* A strict modeling session (services/modeling_sessions.py): the outputs  *)
(* of the five stages with what each was made from, the checks of a        *)
(* selection, and the invalidation of what a change makes stale.  Every    *)
(* operation runs in a job on a private copy that is published whole, so   *)
(* each is one step: before, the operation itself (services/modeling.py,   *)
(* modeling_semantic.py, compilation.py), after.  A content digest is the  *)
(* content, as far as the operations tell it apart.                        *)
(***************************************************************************)
EXTENDS Naturals, Sequences, FiniteSets, SequencesExt

CONSTANTS
  Inputs,      \* run, rules and acceptance of a session
  Configs,     \* configurations
  Scopes,      \* scope documents
  Drafts,      \* what a proposal may be made of
  Selections,  \* selections of a proposal's candidates
  Versions,    \* versions a plan compiles to
  MaxRevision, \* bound: revision of the session
  MaxActions,  \* bound: review actions on one proposal
  None

VARIABLES
  session,    \* registry/modeling-session.json, or None
  asked,      \* what the last modeling.session.open or revise asked to freeze
  written,    \* scope-approval.json in the directory of each scope
  reviews     \* review of each proposal: number of actions and what it accepts

vars == <<session, asked, written, reviews>>

Stage(op) ==
  CASE op \in {"scope", "approval"}   -> 1
    [] op = "bundle"                  -> 2
    [] op = "proposal"                -> 3
    [] op \in {"check", "confirmed"}  -> 4
    [] op \in {"plan", "package"}     -> 5

SInit ==
  /\ session = None /\ asked = None
  /\ written = [s \in Scopes |-> None]
  /\ reviews = << >>

Frozen == [input |-> session.input, config |-> session.config]

\* The identifier of a session is the digest of what it froze when it was opened.
Identity(s) == [input |-> s.input, config |-> s.opened]

Fresh(input, config, revision) ==
  [input |-> input, config |-> config, opened |-> config, revision |-> revision,
   outputs |-> << >>, checks |-> None]

\* current: the last output of an operation that is not stale, or None.
Current(op) ==
  LET live == SelectSeq(session.outputs, LAMBDA o : o.op = op /\ o.live)
  IN IF live = << >> THEN None ELSE Last(live).content

Stale(outputs, stage) ==
  [i \in DOMAIN outputs |-> IF Stage(outputs[i].op) >= stage THEN [outputs[i] EXCEPT !.live = FALSE] ELSE outputs[i]]

Invalidate(s, stage) ==
  [s EXCEPT !.outputs = Stale(@, stage), !.checks = None, !.revision = @ + 1]

\* after: content that differs from the current output makes its stage and all
\* later ones stale and takes its place; the same content changes nothing.
Emit(op, content) ==
  LET entry == [op |-> op, content |-> content, dep |-> Frozen, live |-> TRUE]
      base  == IF Current(op) = None THEN session ELSE Invalidate(session, Stage(op))
  IN IF Current(op) = content THEN session
     ELSE [base EXCEPT !.outputs = Append(@, entry), !.revision = @ + 1]

Open(input, config) ==
  /\ asked' = [input |-> input, config |-> config]
  /\ session' = IF session # None /\ Identity(session) = asked' THEN session
                ELSE Fresh(input, config, IF session = None THEN 1 ELSE session.revision + 1)
  /\ UNCHANGED <<written, reviews>>

\* Fault: only what comes after the bundle is made stale.
ReviseLate(config) ==
  /\ session # None /\ config # session.config
  /\ asked' = [input |-> session.input, config |-> config]
  /\ session' = [Invalidate(session, 3) EXCEPT !.config = config]
  /\ UNCHANGED <<written, reviews>>

Revise(config) ==
  /\ session # None /\ config # session.config
  /\ asked' = [input |-> session.input, config |-> config]
  /\ session' = [Invalidate(session, 2) EXCEPT !.config = config]
  /\ UNCHANGED <<written, reviews>>

\* The directory of a scope is immutable: with an approval in it, the same
\* scope cannot be written again.
DefineScope(s) ==
  /\ session # None /\ written[s] = None
  /\ session' = Emit("scope", [scope |-> s])
  /\ UNCHANGED <<asked, written, reviews>>

ApproveScope(decision) ==
  /\ session # None /\ Current("scope") # None
  /\ LET approval == [scope |-> Current("scope").scope, decision |-> decision]
     IN /\ session' = Emit("approval", approval)
        /\ written' = [written EXCEPT ![approval.scope] = approval]
  /\ UNCHANGED <<asked, reviews>>

\* The approval named must be current, be of the scope, and approve it.
Prepare ==
  /\ session # None /\ Current("scope") # None /\ Current("approval") # None
  /\ Current("approval") = [scope |-> Current("scope").scope, decision |-> "APPROVE"]
  /\ session' = Emit("bundle", [scope |-> Current("scope"), approval |-> Current("approval")])
  /\ UNCHANGED <<asked, written, reviews>>

ReviewOf(proposal) ==
  LET own == {r \in ToSet(reviews) : r.proposal = proposal}
  IN IF own = {} THEN None ELSE CHOOSE r \in own : TRUE

\* A proposal whose review has begun cannot be written again: the log is in
\* the immutable directory of its queue.
Propose(draft) ==
  /\ session # None /\ Current("bundle") # None
  /\ LET proposal == [bundle |-> Current("bundle"), draft |-> draft]
         begun    == ReviewOf(proposal)
     IN /\ written[Current("bundle").scope.scope].decision = "APPROVE"
        /\ begun # None => begun.head = 0
        /\ session' = Emit("proposal", proposal)
        /\ reviews' = IF begun # None THEN reviews
                      ELSE Append(reviews, [proposal |-> proposal, head |-> 0, accepts |-> None])
  /\ UNCHANGED <<asked, written>>

\* The report names its job, so it always differs from the one before.
Check(selection, verdict) ==
  /\ session # None /\ Current("proposal") # None
  /\ LET report == [proposal |-> Current("proposal"), selection |-> selection, verdict |-> verdict,
                    job |-> session.revision]
     IN session' = [Emit("check", report) EXCEPT
                      !.checks = [proposal |-> Current("proposal"), selection |-> selection,
                                  verdict |-> verdict, dep |-> Frozen]]
  /\ UNCHANGED <<asked, written, reviews>>

\* What was frozen under the former head of the review.
Reopen(outputs) ==
  [i \in DOMAIN outputs |->
     IF outputs[i].op \in {"confirmed", "plan", "package"} THEN [outputs[i] EXCEPT !.live = FALSE] ELSE outputs[i]]

\* A review action: the log grows, and with it what the review accepts; None
\* while it is incomplete.
Act(accepts) ==
  /\ session # None /\ Current("proposal") # None
  /\ \E i \in DOMAIN reviews :
       /\ reviews[i].proposal = Current("proposal") /\ reviews[i].head < MaxActions
       /\ reviews' = [reviews EXCEPT ![i].head = @ + 1, ![i].accepts = accepts]
  /\ session' = [session EXCEPT !.outputs = Reopen(@), !.revision = @ + 1]
  /\ UNCHANGED <<asked, written>>

\* require_checks: all passed, on this selection, of this review, under what
\* is frozen now.
Checked(proposal, selection) ==
  session.checks = [proposal |-> proposal, selection |-> selection, verdict |-> "PASS", dep |-> Frozen]

Finalize ==
  /\ session # None /\ Current("proposal") # None
  /\ LET r == ReviewOf(Current("proposal"))
     IN /\ r.accepts # None /\ Checked(r.proposal, r.accepts)
        /\ session' = Emit("confirmed", [proposal |-> r.proposal, head |-> r.head, accepts |-> r.accepts])
  /\ UNCHANGED <<asked, written, reviews>>

\* compile.plan.exact: the answers must be those the session froze.
Plan(version) ==
  /\ session # None /\ Current("confirmed") # None
  /\ session' = Emit("plan", [confirmed |-> Current("confirmed"), version |-> version, input |-> session.input])
  /\ UNCHANGED <<asked, written, reviews>>

Build ==
  /\ session # None /\ Current("plan") # None
  /\ session' = Emit("package", [plan |-> Current("plan")])
  /\ UNCHANGED <<asked, written, reviews>>

Next ==
  /\ session # None => session.revision < MaxRevision
  /\ \/ \E i \in Inputs, c \in Configs : Open(i, c)
     \/ \E c \in Configs : Revise(c)
     \/ \E s \in Scopes : DefineScope(s)
     \/ \E d \in {"APPROVE", "REJECT"} : ApproveScope(d)
     \/ Prepare
     \/ \E d \in Drafts : Propose(d)
     \/ \E sel \in Selections, v \in {"PASS", "FAIL"} : Check(sel, v)
     \/ \E a \in Selections \cup {None} : Act(a)
     \/ Finalize
     \/ \E v \in Versions : Plan(v)
     \/ Build

Spec == SInit /\ [][Next]_vars

-----------------------------------------------------------------------------
(* Properties.                                                             *)

Opened == session # None

Operations == {"scope", "approval", "bundle", "proposal", "check", "confirmed", "plan", "package"}

\* Type correctness.
TypeOK ==
  Opened =>
    /\ session.input \in Inputs /\ {session.config, session.opened} \subseteq Configs
    /\ session.revision \in 1..(MaxRevision + 2)
    /\ \A i \in DOMAIN session.outputs : session.outputs[i].op \in Operations
    /\ \A op \in Operations :
         Cardinality({i \in DOMAIN session.outputs : session.outputs[i].op = op /\ session.outputs[i].live}) <= 1
    /\ session.checks # None => session.checks.verdict \in {"PASS", "FAIL"}

\* "Old reviews, old confirmed packages and old compile plans cannot be used
\* for the new active session" (docs/upgrade/module-contracts.md:22-23): what
\* is current was made from what is current, from the package down to the scope.
ChainIsCurrent ==
  Opened =>
    /\ Current("package") # None => Current("package").plan = Current("plan")
    /\ Current("plan") # None => Current("plan").confirmed = Current("confirmed")
    /\ Current("confirmed") # None => Current("confirmed").proposal = Current("proposal")
    /\ Current("proposal") # None => Current("proposal").bundle = Current("bundle")
    /\ Current("bundle") # None => /\ Current("bundle").scope = Current("scope")
                                   /\ Current("bundle").approval = Current("approval")

\* What is current in the later stages was made under what is frozen now,
\* whatever configurations were in force in between.
MadeUnderFrozen ==
  Opened => \A i \in DOMAIN session.outputs :
    LET o == session.outputs[i]
    IN o.live /\ Stage(o.op) >= 2 => o.dep = Frozen

\* "exactly the same selection that is to be accepted ... all PASS"
\* (docs/upgrade/module-contracts.md:26): every package that was confirmed in
\* this session, also one that is stale by now, has a passed report of its very
\* selection and proposal under the same frozen input, and that report came first.
ConfirmedWasChecked ==
  Opened => \A i \in DOMAIN session.outputs :
    LET o == session.outputs[i]
    IN o.op = "confirmed" =>
         \E j \in 1..(i - 1) :
           LET r == session.outputs[j]
           IN /\ r.op = "check" /\ r.dep = o.dep /\ r.content.verdict = "PASS"
              /\ r.content.proposal = o.content.proposal
              /\ r.content.selection = o.content.accepts

\* A current package stands on the last word of the review: since it was
\* confirmed nobody has decided anything.
PackageIsLastWord ==
  Opened /\ Current("package") # None =>
    LET k == Current("package").plan.confirmed
    IN ReviewOf(k.proposal).head = k.head

\* The revision tells one state of the session from every other: a client that
\* compares it cannot miss a change.
RevisionTells ==
  [][Opened /\ session' # session => session'.revision > session.revision]_vars

\* "After input, mapping, configuration or structure changed, downstream
\* references are marked STALE" (docs/upgrade/module-contracts.md:22): the
\* scope is upstream of its approval, so a current approval has its scope.
\* The code does not keep it: TLC refutes it (README.md, "Statements TLC refutes").
ApprovalHasItsScope ==
  Opened /\ Current("approval") # None =>
    Current("scope") # None /\ Current("scope").scope = Current("approval").scope

\* modeling.session.open takes run, rules, acceptance and configuration and
\* freezes them (docs/upgrade/module-contracts.md:20-21): the session is
\* frozen on what was asked for last.
\* The code does not keep it: TLC refutes it (README.md, "Statements TLC refutes").
OpenedAsAsked ==
  Opened => Frozen = asked
==============================================================================
