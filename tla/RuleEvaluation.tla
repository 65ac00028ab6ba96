--------------------------- MODULE RuleEvaluation ---------------------------
(***************************************************************************)
(* The eligibility assessment of one porting case: the version of each     *)
(* rule in force (rule_engine.py), the evidence it is checked on, the      *)
(* decision and its reasons as nodes of the graph (evaluator.py), the      *)
(* shapes the graph must conform to (assessment_service.py) and the step   *)
(* of the porting process that is then open (process_service.py).          *)
(* Every caller in the repository lets the time select the versions:       *)
(* overrides and base rules alone (rule_engine.py:164, 342) are left out.  *)
(***************************************************************************)
EXTENDS Integers, FiniteSets, FiniteSetsExt

CONSTANTS
  Catalogs,   \* rule catalogs, each a set of versions: [rule, version, from, to, type, kind, bound]
  Pieces,     \* evidence by the order of its IRIs: [type, valid, until, value]
  Codes,      \* authorization codes a case may come with: [status, until], or Nothing
  Agreements, \* agreements to terminate its contract: [signed, effective], or Nothing
  MaxTime, Nothing

ASSUME RulesAssumption ==
  /\ MaxTime \in Nat /\ DOMAIN Pieces \subseteq Nat
  /\ \A c \in Catalogs : IsFiniteSet(c) /\ \A v \in c : v.from \in Int /\ v.to \in Int

Rules(c) == {v.rule : v \in c}

VARIABLES
  catalog,   \* the rules file
  now,       \* assessment_time
  evidence,  \* evidence of the case
  auth,      \* its authorization code
  agreement, \* the agreement that terminates the contract
  result     \* the last assessment

rvars == <<catalog, now, evidence, auth, agreement, result>>

RInit ==
  /\ catalog \in Catalogs /\ auth \in Codes /\ agreement \in Agreements
  /\ now = 0 /\ evidence = {} /\ result = Nothing

\* The case is submitted with more evidence.
Arrive(e) ==
  /\ e \notin evidence /\ evidence' = evidence \cup {e}
  /\ UNCHANGED <<catalog, now, auth, agreement, result>>

Tick ==
  /\ now < MaxTime /\ now' = now + 1
  /\ UNCHANGED <<catalog, evidence, auth, agreement, result>>

\* validate_rule_configuration: closed windows of one rule that do not overlap.
Valid(c) ==
  /\ \A v \in c : v.from <= v.to
  /\ \A v, w \in c : v # w /\ v.rule = w.rule => v.from > w.to \/ w.from > v.to

InForce(r, t) == {v \in catalog : v.rule = r /\ v.from <= t /\ t <= v.to}

\* Fault: what has expired is used.
UsableEver(type) == {e \in evidence : Pieces[e].type = type /\ Pieces[e].valid}

\* EvidenceView.is_usable
Usable(type) == {e \in evidence : Pieces[e].type = type /\ Pieces[e].valid /\ Pieces[e].until >= now}

Satisfies(v, e) ==
  IF v.kind = "min" THEN Pieces[e].value >= v.bound ELSE Pieces[e].value <= now

\* evaluate_rules, for one rule.  What has expired is cited all the same, here
\* the first of it.
Outcome(v) ==
  LET usable == Usable(v.type)
      all    == {e \in evidence : Pieces[e].type = v.type}
      e      == IF usable # {} THEN Min(usable) ELSE IF all # {} THEN Min(all) ELSE Nothing
      status == IF usable = {} THEN "MISSING" ELSE IF Satisfies(v, e) THEN "PASS" ELSE "FAIL"
  IN [rule |-> v.rule, version |-> v.version, evidence |-> e, status |-> status,
      reason |-> IF status = "MISSING" THEN "MISSING_OR_EXPIRED_EVIDENCE" ELSE v.rule]

Summary(outcomes) ==
  LET has(s) == \E o \in outcomes : o.status = s
  IN IF has("MISSING") THEN "MANUAL_REVIEW" ELSE IF has("FAIL") THEN "BLOCKED" ELSE "ELIGIBLE"

\* The reason nodes: one for each reason code, with every rule and all the
\* evidence that was added to it.
Reasons(outcomes) ==
  LET open == {o \in outcomes : o.status # "PASS"}
  IN {[code     |-> c,
       rules    |-> {o.rule : o \in {p \in open : p.reason = c}},
       evidence |-> {o.evidence : o \in {p \in open : p.reason = c}} \ {Nothing}] : c \in {o.reason : o \in open}}

\* BlockingReasonShape
Conforms(reasons) == \A r \in reasons : Cardinality(r.rules) = 1 /\ r.evidence # {}

\* A termination that was signed takes effect only after t; one without a date
\* of signature holds nobody up.
Pending(t) == agreement # Nothing /\ agreement.signed /\ agreement.effective > t

\* evaluate_process_state: can_advance.  Of the codes refused by their status, one
\* that was used or revoked is none.
Advances(decision) ==
  /\ decision = "ELIGIBLE"
  /\ auth # Nothing /\ auth.status \notin {"EXPIRED", "MISSING", ""} /\ auth.until >= now
  /\ ~Pending(now)

\* evaluate_normalized_case, on a graph of its own.
Assess ==
  /\ result' =
       IF ~Valid(catalog) THEN [is |-> "INVALID", at |-> now]
       ELSE IF \E r \in Rules(catalog) : InForce(r, now) = {} THEN [is |-> "NONE", at |-> now]
       ELSE IF \E r \in Rules(catalog) : Cardinality(InForce(r, now)) > 1 THEN [is |-> "MULTIPLE", at |-> now]
       ELSE LET outcomes == {Outcome(CHOOSE v \in InForce(r, now) : TRUE) : r \in Rules(catalog)}
                reasons  == Reasons(outcomes)
                decision == Summary(outcomes)
            IN [is |-> "ASSESSED", at |-> now, on |-> evidence, decision |-> decision, reasons |-> reasons,
                publishable |-> Conforms(reasons), advances |-> Advances(decision)]
  /\ UNCHANGED <<catalog, now, evidence, auth, agreement>>

RNext == \/ \E e \in DOMAIN Pieces : Arrive(e)
         \/ Tick
         \/ Assess

RSpec == RInit /\ [][RNext]_rvars
-----------------------------------------------------------------------------
\* The state has its types, and an assessment is of what was there by then.
RTypeOK ==
  /\ catalog \in Catalogs /\ auth \in Codes /\ now \in 0..MaxTime /\ agreement \in Agreements
  /\ evidence \subseteq DOMAIN Pieces
  /\ result # Nothing => result.at \in 0..now /\ (result.is = "ASSESSED" => result.on \subseteq evidence)

\* The comparison of windows two by two, made when the file is loaded, leaves
\* no moment at which two versions of one rule are in force: the error "Multiple
\* applicable versions" is unreachable.
OneVersionAtATime == result # Nothing => result.is # "MULTIPLE"

\* A version of the rule was in force at t, and something on the case that was
\* valid and unexpired then satisfies it.
Proved(r, t, on) ==
  \E v \in InForce(r, t) : \E e \in on :
    /\ Pieces[e].type = v.type /\ Pieces[e].valid /\ Pieces[e].until >= t
    /\ IF v.kind = "min" THEN Pieces[e].value >= v.bound ELSE Pieces[e].value <= t

\* Nobody is eligible on expired, invalid or missing evidence, or by the version
\* of a rule that was not in force when the case was assessed.
EligibleOnEvidence ==
  result # Nothing /\ result.is = "ASSESSED" /\ result.decision = "ELIGIBLE" =>
    \A r \in Rules(catalog) : Proved(r, result.at, result.on)

\* The next step of the process is open only to a case that is eligible, with a
\* code that has not expired and no signed termination still to take effect.
AdvanceIsEligible ==
  result # Nothing /\ result.is = "ASSESSED" /\ result.advances =>
    /\ \A r \in Rules(catalog) : Proved(r, result.at, result.on)
    /\ auth # Nothing /\ auth.status # "EXPIRED" /\ auth.until >= result.at /\ ~Pending(result.at)

\* What is published as not eligible says why, rule by rule: every rule nothing
\* proves has a reason that is about it alone, on evidence of its own type.
PublishedSaysWhy ==
  result # Nothing /\ result.is = "ASSESSED" /\ result.publishable =>
    \A r \in Rules(catalog) : ~Proved(r, result.at, result.on) =>
      \E s \in result.reasons : s.rules = {r} /\ \A e \in s.evidence : \E v \in catalog : v.rule = r /\ v.type = Pieces[e].type

\* A decision is by rules in force and on evidence that is good when it is made: to
\* let the case pass, to let it go on, and to publish why not (rule_engine.py,
\* evaluator.py, process_service.py).
EligibleIsProved ==
  RTypeOK /\ OneVersionAtATime /\ EligibleOnEvidence /\ AdvanceIsEligible /\ PublishedSaysWhy

\* What the shapes say of every assessment, here of one that has evidence for
\* each rule: "Each BlockingReason must cite exactly one triggeredByRule".
\* The code does not keep it: TLC refutes it (README.md, "Statements TLC refutes").
OneRulePerReason ==
  result # Nothing /\ result.is = "ASSESSED" /\ {v.type : v \in catalog} = {Pieces[e].type : e \in result.on} =>
    \A s \in result.reasons : Cardinality(s.rules) = 1
=============================================================================
