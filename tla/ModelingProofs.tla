--------------------------- MODULE ModelingProofs ---------------------------
(***************************************************************************)
(* Proofs about what people decide between sources and rules: the          *)
(* evolution of a project's configuration (BusinessEvolution), the review  *)
(* of a proposal (ModelingReview) and of a dataset (DatasetReview), and    *)
(* the re-entry of an amendment (AmendmentReentry).                        *)
(***************************************************************************)
EXTENDS BusinessEvolution, ModelingReview, DatasetReview, AmendmentReentry,
        NaturalsInduction, WellFoundedInduction, FiniteSetTheorems, TLAPS

Plans == [package : Packages, configuration : Configuration]

Orders == [object : Objects, priority : Priorities, plan : Plans]

Runs == [plan : Plans, created : SUBSET Objects, existing : SUBSET Objects]

Ids == [run : Nat, base : Configuration, configuration : Configuration, author : People]

Statuses == {"CANDIDATE", "VALIDATED", "REGRESSION_FAILED", "APPROVED", "REJECTED", "ACTIVE"}

CandidateRecords == [id : Ids, status : Statuses, reviewer : SUBSET People]

Entries == [before : Configuration, after : Configuration, by : {"activation", "rollback"}]

Start == [priority |-> Initial, version |-> 1]

Typed ==
  /\ active \in Configuration
  /\ history \in Seq(Entries)
  /\ plans \subseteq Plans
  /\ orders \subseteq Orders
  /\ executions \in Seq(Runs)
  /\ candidates \subseteq CandidateRecords

\* What is ordered was created by one execution, that of its plan; and what an
\* execution created is ordered.
Booked ==
  /\ \A w \in orders : w.priority = w.plan.configuration.priority
  /\ \A w \in orders : \E i \in DOMAIN executions :
       w.object \in executions[i].created /\ executions[i].plan = w.plan
  /\ \A i \in DOMAIN executions : executions[i].created \subseteq Ordered
  /\ \A i, j \in DOMAIN executions :
       i # j => executions[i].created \cap executions[j].created = {}

\* A candidate that is validated passed, and one that is approved was reviewed.
Examined ==
  \A c \in candidates :
    /\ c.status \in {"VALIDATED", "APPROVED"} => Passes(c)
    /\ c.status = "APPROVED" => c.reviewer # {}

\* A configuration that the history accounts for.
Reviewed(configuration, h) ==
  \/ configuration = Start
  \/ \E i \in DOMAIN h : h[i].by = "activation" /\ h[i].after = configuration

\* HistoryIsChain, without its abbreviations.
Chained ==
  /\ active = IF Len(history) = 0 THEN Start ELSE history[Len(history)].after
  /\ \A i \in DOMAIN history :
       /\ history[i].before = IF i = 1 THEN Start ELSE history[i - 1].after
       /\ Reviewed(history[i].after, history)

\* The inductive invariant.
IInv == Typed /\ TypeOK /\ Booked /\ Examined /\ Chained

LEMMA StartIsConfiguration == Start \in Configuration
BY BusinessAssumption DEF Start, Configuration

LEMMA InitInv == BInit => IInv
<1> SUFFICES ASSUME BInit PROVE IInv
  OBVIOUS
<1>1. active = Start /\ active \in Configuration
  BY StartIsConfiguration DEF BInit, Start
<1> QED
  BY <1>1 DEF BInit, IInv, Typed, TypeOK, Booked, Examined, Chained, Ordered

LEMMA PlanInv == ASSUME IInv, NEW p \in Packages, Plan(p) PROVE IInv'
<1>1. plans' \subseteq Plans
  BY DEF IInv, Typed, Plan, Plans
<1> QED
  BY <1>1 DEF IInv, Typed, TypeOK, Booked, Examined, Chained, Ordered, Plan, Passes

\* The execution that is added takes a place of its own after the others.
LEMMA ExecutionAdded ==
  ASSUME Typed, NEW plan \in plans, Execute(plan)
  PROVE  LET n == Len(executions) + 1
             created == Wanted(plan.package) \ Ordered
         IN /\ DOMAIN executions = 1..Len(executions) /\ Len(executions) \in Nat
            /\ DOMAIN executions' = 1..n
            /\ \A i \in 1..Len(executions) : executions'[i] = executions[i]
            /\ executions'[n].plan = plan /\ executions'[n].created = created
            /\ executions' \in Seq(Runs)
<1> DEFINE r == [plan |-> plan, created |-> Wanted(plan.package) \ Ordered,
                 existing |-> Wanted(plan.package) \cap Ordered]
<1>1. executions' = Append(executions, r)
  BY DEF Execute
<1>2. r \in Runs
  BY DEF Typed, Runs, Wanted
<1>3. r.plan = plan /\ r.created = Wanted(plan.package) \ Ordered
  OBVIOUS
<1> HIDE DEF r
<1> QED
  BY <1>1, <1>2, <1>3 DEF Typed

LEMMA ExecuteInv == ASSUME IInv, NEW plan \in plans, Execute(plan) PROVE IInv'
<1> DEFINE n == Len(executions) + 1
           created == Wanted(plan.package) \ Ordered
           new == {Order(o, plan) : o \in created}
<1>1. /\ DOMAIN executions = 1..Len(executions) /\ Len(executions) \in Nat
      /\ DOMAIN executions' = 1..n
      /\ \A i \in 1..Len(executions) : executions'[i] = executions[i]
      /\ executions'[n].plan = plan /\ executions'[n].created = created
      /\ executions' \in Seq(Runs)
  BY ExecutionAdded DEF IInv
<1>2. orders' = orders \cup new
  BY DEF Execute, OrdersAfter
<1>3. plan \in Plans /\ plan.configuration = active
  BY DEF IInv, Typed, Execute, Fresh
<1>4. \A w \in new : /\ w \in Orders /\ w.object \in created /\ w.plan = plan
                     /\ w.priority = plan.configuration.priority
  BY <1>3 DEF Order, Orders, Wanted, Configuration, IInv, Typed
<1>5. \A w, x \in new : w.object = x.object => w = x
  BY DEF Order
<1>6. \A o \in created : o \notin Ordered /\ \E w \in new : w.object = o
  <2> SUFFICES ASSUME NEW o \in created PROVE \E w \in new : w.object = o
    OBVIOUS
  <2>1. Order(o, plan) \in new /\ Order(o, plan).object = o
    BY DEF Order
  <2> QED
    BY <2>1
<1>7. Ordered' = Ordered \cup created
  BY <1>2, <1>4, <1>6 DEF Ordered
<1> HIDE DEF new, created
<1>8. Typed'
  BY <1>1, <1>2, <1>4 DEF IInv, Typed, Execute
<1>9. TypeOK'
  <2>1. \A w, x \in orders' : w.object = x.object => w = x
    BY <1>2, <1>4, <1>5, <1>6 DEF IInv, TypeOK, Ordered
  <2>2. \A i \in DOMAIN executions' : executions'[i].plan \in plans'
    BY <1>1 DEF IInv, TypeOK, Execute
  <2> QED
    BY <2>1, <2>2 DEF IInv, TypeOK, Execute
<1>10. Booked'
  <2>1. \A w \in orders' : w.priority = w.plan.configuration.priority
    BY <1>2, <1>4 DEF IInv, Booked
  <2>2. \A w \in orders' : \E i \in DOMAIN executions' :
          w.object \in executions'[i].created /\ executions'[i].plan = w.plan
    <3> SUFFICES ASSUME NEW w \in orders'
                 PROVE \E i \in 1..n : w.object \in executions'[i].created /\ executions'[i].plan = w.plan
      BY <1>1
    <3>1. CASE w \in new
      BY <1>1, <1>4, <3>1
    <3>2. CASE w \in orders
      <4>1. PICK i \in DOMAIN executions : w.object \in executions[i].created /\ executions[i].plan = w.plan
        BY <3>2 DEF IInv, Booked
      <4> QED
        BY <1>1, <4>1
    <3> QED
      BY <1>2, <3>1, <3>2
  <2>3. \A i \in DOMAIN executions' : executions'[i].created \subseteq Ordered'
    BY <1>1, <1>7 DEF IInv, Booked
  <2>4. \A i, j \in DOMAIN executions' :
          i # j => executions'[i].created \cap executions'[j].created = {}
    <3> SUFFICES ASSUME NEW i \in 1..n, NEW j \in 1..n, i # j
                 PROVE executions'[i].created \cap executions'[j].created = {}
      BY <1>1
    <3>1. \A k \in 1..Len(executions) : executions[k].created \cap created = {}
      BY <1>1, <1>6 DEF IInv, Booked
    <3>2. CASE i = n
      BY <1>1, <3>1, <3>2
    <3>3. CASE j = n
      BY <1>1, <3>1, <3>3
    <3>4. CASE i # n /\ j # n
      <4>1. i \in 1..Len(executions) /\ j \in 1..Len(executions)
        BY <1>1, <3>4
      <4> QED
        BY <1>1, <4>1 DEF IInv, Booked
    <3> QED
      BY <3>2, <3>3, <3>4
  <2> QED
    BY <2>1, <2>2, <2>3, <2>4 DEF Booked
<1> QED
  BY <1>8, <1>9, <1>10 DEF IInv, Examined, Chained, Execute

\* A step that touches only the candidates keeps the rest of the invariant.
LEMMA CandidatesOnly ==
  ASSUME IInv, UNCHANGED <<active, history, plans, orders, executions>>,
         candidates' \subseteq CandidateRecords,
         \A c, d \in candidates' : c.id = d.id => c = d,
         \A c \in candidates' :
           /\ c.status \in {"VALIDATED", "APPROVED"} => Passes(c)
           /\ c.status = "APPROVED" => c.reviewer # {}
  PROVE  IInv'
BY DEF IInv, Typed, TypeOK, Booked, Examined, Chained, Ordered, Passes

LEMMA ProposeInv ==
  ASSUME IInv, NEW p \in People, NEW run \in DOMAIN executions,
         NEW configuration \in Configuration, Propose(p, run, configuration)
  PROVE  IInv'
<1> DEFINE id == [run |-> run, base |-> active, configuration |-> configuration, author |-> p]
           c == [id |-> id, status |-> "CANDIDATE", reviewer |-> {}]
<1>1. id \in Ids
  BY DEF IInv, Typed, Ids
<1>2. c \in CandidateRecords /\ c.id = id /\ c.status = "CANDIDATE"
  BY <1>1 DEF CandidateRecords, Statuses
<1>3. \/ candidates' = candidates
      \/ (\A d \in candidates : d.id # id) /\ candidates' = candidates \cup {c}
  BY DEF Propose
<1> HIDE DEF c, id
<1> QED
  BY <1>2, <1>3, CandidatesOnly DEF IInv, Typed, TypeOK, Examined, Propose

\* A candidate is replaced by itself with another status and review.
LEMMA BecomesKeeps ==
  ASSUME Typed, TypeOK, Examined, NEW c \in candidates,
         NEW status \in Statuses, NEW reviewer \in SUBSET People,
         status \in {"VALIDATED", "APPROVED"} => Passes(c),
         status = "APPROVED" => reviewer # {},
         Becomes(c, status, reviewer)
  PROVE  /\ candidates' \subseteq CandidateRecords
         /\ \A d, e \in candidates' : d.id = e.id => d = e
         /\ \A d \in candidates' :
              /\ d.status \in {"VALIDATED", "APPROVED"} => Passes(d)
              /\ d.status = "APPROVED" => d.reviewer # {}
<1> DEFINE n == [id |-> c.id, status |-> status, reviewer |-> reviewer]
<1>1. n \in CandidateRecords /\ n.id = c.id /\ n.status = status /\ n.reviewer = reviewer
  BY DEF Typed, CandidateRecords
<1>2. Passes(n) <=> Passes(c)
  BY <1>1 DEF Passes
<1>3. candidates' = (candidates \ {c}) \cup {n}
  BY DEF Becomes
<1> HIDE DEF n
<1> QED
  BY <1>1, <1>2, <1>3 DEF Typed, TypeOK, Examined

LEMMA EvaluateInv == ASSUME IInv, NEW c \in candidates, Evaluate(c) PROVE IInv'
<1>1. CASE Passes(c)
  <2>1. Becomes(c, "VALIDATED", {})
    BY <1>1 DEF Evaluate
  <2> QED
    BY <1>1, <2>1, BecomesKeeps, CandidatesOnly DEF Evaluate, IInv, Statuses
<1>2. CASE ~Passes(c)
  <2>1. Becomes(c, "REGRESSION_FAILED", {})
    BY <1>2 DEF Evaluate
  <2> QED
    BY <2>1, BecomesKeeps, CandidatesOnly DEF Evaluate, IInv, Statuses
<1> QED
  BY <1>1, <1>2

LEMMA ReviewInv ==
  ASSUME IInv, NEW p \in People, NEW c \in candidates, NEW approve \in BOOLEAN, Review(p, c, approve)
  PROVE  IInv'
<1>1. Passes(c)
  BY DEF Review, IInv, Examined
<1>2. CASE approve
  <2>1. Becomes(c, "APPROVED", {p})
    BY <1>2 DEF Review
  <2> QED
    BY <1>1, <2>1, BecomesKeeps, CandidatesOnly DEF Review, IInv, Statuses
<1>3. CASE ~approve
  <2>1. Becomes(c, "REJECTED", {p})
    BY <1>3 DEF Review
  <2> QED
    BY <2>1, BecomesKeeps, CandidatesOnly DEF Review, IInv, Statuses
<1> QED
  BY <1>2, <1>3

\* One more entry keeps the chain when it starts at the active configuration
\* and ends at one that was reviewed.
LEMMA MoveKeeps ==
  ASSUME Typed, Chained, NEW to \in Configuration, NEW by \in {"activation", "rollback"},
         Move(to, by), by = "activation" \/ Reviewed(to, history)
  PROVE  Chained' /\ active' \in Configuration /\ history' \in Seq(Entries)
<1> DEFINE e == [before |-> active, after |-> to, by |-> by]
           n == Len(history) + 1
<1>1. e \in Entries /\ e.before = active /\ e.after = to /\ e.by = by
  BY DEF Typed, Entries
<1>2. history' = Append(history, e) /\ active' = to
  BY DEF Move
<1> HIDE DEF e
<1>3. /\ Len(history) \in Nat /\ DOMAIN history = 1..Len(history)
      /\ Len(history') = n /\ DOMAIN history' = 1..n /\ history' \in Seq(Entries)
      /\ history'[n] = e /\ \A i \in 1..Len(history) : history'[i] = history[i]
  BY <1>1, <1>2 DEF Typed
<1>4. \A configuration : Reviewed(configuration, history) => Reviewed(configuration, history')
  BY <1>3 DEF Reviewed
<1>5. Reviewed(to, history')
  BY <1>1, <1>3, <1>4 DEF Reviewed
<1>6. active' = IF Len(history') = 0 THEN Start ELSE history'[Len(history')].after
  BY <1>1, <1>2, <1>3
<1>7. \A i \in DOMAIN history' :
        /\ history'[i].before = IF i = 1 THEN Start ELSE history'[i - 1].after
        /\ Reviewed(history'[i].after, history')
  <2> SUFFICES ASSUME NEW i \in 1..n
               PROVE /\ history'[i].before = IF i = 1 THEN Start ELSE history'[i - 1].after
                     /\ Reviewed(history'[i].after, history')
    BY <1>3
  <2>1. CASE i = n
    <3>1. history'[i].before = active /\ history'[i].after = to
      BY <1>1, <1>3, <2>1
    <3>2. CASE n = 1
      BY <1>3, <1>5, <2>1, <3>1, <3>2 DEF Chained
    <3>3. CASE n # 1
      <4>1. Len(history) \in 1..Len(history) /\ i - 1 = Len(history)
        BY <1>3, <2>1, <3>3
      <4> QED
        BY <1>3, <1>5, <3>1, <3>3, <4>1, <2>1 DEF Chained
    <3> QED
      BY <3>2, <3>3
  <2>2. CASE i # n
    <3>1. i \in 1..Len(history) /\ (i # 1 => i - 1 \in 1..Len(history))
      BY <1>3, <2>2
    <3> QED
      BY <1>3, <1>4, <3>1 DEF Chained
  <2> QED
    BY <2>1, <2>2
<1> QED
  BY <1>2, <1>3, <1>6, <1>7 DEF Chained, Reviewed

\* What a move of the active configuration leaves alone.
LEMMA MovedInv ==
  ASSUME IInv, UNCHANGED <<plans, orders, executions>>,
         Chained', active' \in Configuration, history' \in Seq(Entries),
         candidates' \subseteq CandidateRecords,
         \A c, d \in candidates' : c.id = d.id => c = d,
         \A c \in candidates' :
           /\ c.status \in {"VALIDATED", "APPROVED"} => Passes(c)
           /\ c.status = "APPROVED" => c.reviewer # {}
  PROVE  IInv'
BY DEF IInv, Typed, TypeOK, Booked, Examined, Ordered, Passes

LEMMA ActivateInv == ASSUME IInv, NEW c \in candidates, Activate(c) PROVE IInv'
<1>1. c.id.configuration \in Configuration /\ c.reviewer \in SUBSET People
  BY DEF IInv, Typed, CandidateRecords, Ids
<1>2. Chained' /\ active' \in Configuration /\ history' \in Seq(Entries)
  BY <1>1, MoveKeeps DEF Activate, IInv
<1>3. Becomes(c, "ACTIVE", c.reviewer)
  BY DEF Activate
<1> QED
  BY <1>1, <1>2, <1>3, BecomesKeeps, MovedInv DEF Activate, IInv, Statuses

LEMMA RollbackInv == ASSUME IInv, Rollback PROVE IInv'
<1> DEFINE n == Len(history)
<1>1. n \in 1..n /\ DOMAIN history = 1..n /\ Last(history) = history[n]
  BY DEF Rollback, IInv, Typed, Last
<1>2. Last(history).before \in Configuration
  <2>1. history[n] \in Entries
    BY <1>1 DEF IInv, Typed
  <2> QED
    BY <1>1, <2>1 DEF Entries
<1>3. Reviewed(Last(history).before, history)
  <2>1. CASE n = 1
    BY <1>1, <2>1 DEF IInv, Chained, Reviewed
  <2>2. CASE n # 1
    <3>1. n - 1 \in 1..n
      BY <1>1, <2>2
    <3> QED
      BY <1>1, <2>2, <3>1 DEF IInv, Chained
  <2> QED
    BY <2>1, <2>2
<1>4. Chained' /\ active' \in Configuration /\ history' \in Seq(Entries)
  BY <1>2, <1>3, MoveKeeps DEF Rollback, IInv
<1> QED
  BY <1>4, MovedInv DEF Rollback, IInv, Typed, TypeOK, Examined

LEMMA PeopleInv ==
  ASSUME IInv, Reconfigure \/ \E p \in People : Revoke(p)
  PROVE  IInv'
BY DEF IInv, Typed, TypeOK, Booked, Examined, Chained, Ordered, Passes, Reconfigure, Revoke

LEMMA NextInv == ASSUME IInv, [Next]_bvars PROVE IInv'
<1>1. CASE \E p \in Packages : Plan(p)
  BY <1>1, PlanInv
<1>2. CASE \E plan \in plans : Execute(plan)
  BY <1>2, ExecuteInv
<1>3. CASE \E p \in People, run \in DOMAIN executions, pr \in Priorities, v \in 2..MaxVersion :
             Propose(p, run, [priority |-> pr, version |-> v])
  <2>1. PICK p \in People, run \in DOMAIN executions, pr \in Priorities, v \in 2..MaxVersion :
               Propose(p, run, [priority |-> pr, version |-> v])
    BY <1>3
  <2>2. [priority |-> pr, version |-> v] \in Configuration
    BY BusinessAssumption DEF Configuration
  <2> QED
    BY <2>1, <2>2, ProposeInv
<1>4. CASE \E c \in candidates : Evaluate(c)
  BY <1>4, EvaluateInv
<1>5. CASE \E c \in candidates, p \in People, approve \in BOOLEAN : Review(p, c, approve)
  BY <1>5, ReviewInv
<1>6. CASE \E c \in candidates : Activate(c)
  BY <1>6, ActivateInv
<1>7. CASE Rollback
  BY <1>7, RollbackInv
<1>8. CASE Reconfigure \/ \E p \in People : Revoke(p)
  BY <1>8, PeopleInv
<1>9. CASE UNCHANGED bvars
  BY <1>9 DEF bvars, IInv, Typed, TypeOK, Booked, Examined, Chained, Ordered, Passes
<1> QED
  BY <1>1, <1>2, <1>3, <1>4, <1>5, <1>6, <1>7, <1>8, <1>9 DEF Next

\* The types, the books of the orders, the examination of the candidates and
\* the chain of the history are kept by every operation of business.py.
THEOREM EvolutionInvariant == Spec => []IInv
BY InitInv, NextInv, PTL DEF Spec

\* No candidate has two states, no object two orders, and executions carry out
\* plans that are there.
THEOREM EvolutionTypeOK == Spec => []TypeOK
<1>1. IInv => TypeOK
  BY DEF IInv
<1> QED
  BY <1>1, EvolutionInvariant, PTL

\* Every order has the priority its plan was made with, and exactly one
\* execution, that of this plan, reports to have created it (task.execute).
THEOREM OrdersArePlanned == Spec => []OrdersAreAsPlanned
<1>1. ASSUME IInv PROVE OrdersAreAsPlanned
  <2> SUFFICES ASSUME NEW w \in orders
               PROVE /\ w.priority = w.plan.configuration.priority
                     /\ Cardinality({i \in DOMAIN executions : w.object \in executions[i].created}) = 1
                     /\ \E i \in DOMAIN executions :
                          w.object \in executions[i].created /\ executions[i].plan = w.plan
    BY DEF OrdersAreAsPlanned
  <2>1. w.priority = w.plan.configuration.priority
    BY <1>1 DEF IInv, Booked
  <2>2. PICK i \in DOMAIN executions : w.object \in executions[i].created /\ executions[i].plan = w.plan
    BY <1>1 DEF IInv, Booked
  <2>3. {j \in DOMAIN executions : w.object \in executions[j].created} = {i}
    BY <1>1, <2>2 DEF IInv, Booked
  <2>4. Cardinality({j \in DOMAIN executions : w.object \in executions[j].created}) = 1
    BY <2>3, FS_Singleton
  <2> QED
    BY <2>1, <2>2, <2>4
<1> QED
  BY <1>1, EvolutionInvariant, PTL

\* No operation changes or removes an order that exists, a rollback of the
\* configuration included.
THEOREM OrdersStay == Spec => OrdersNotRewritten
<1>1. ASSUME [Next]_bvars PROVE [orders \subseteq orders']_bvars
  BY <1>1
     DEF Next, bvars, Plan, Execute, OrdersAfter, Propose, Evaluate, Review, Activate, Rollback, Revoke, Reconfigure
<1> QED
  BY <1>1, PTL DEF Spec, OrdersNotRewritten

\* The history is a chain from the first configuration to the active one, and
\* whatever number of rollbacks leads to, an activation brought in.
THEOREM HistoryStaysChain == Spec => []HistoryIsChain
<1>1. ASSUME IInv PROVE HistoryIsChain
  <2> DEFINE start == [priority |-> Initial, version |-> 1]
             known == {start} \cup {h.after : h \in {g \in ToSet(history) : g.by = "activation"}}
  <2>1. \A configuration : Reviewed(configuration, history) => configuration \in known
    BY DEF Reviewed, Start, ToSet
  <2>2. (history = << >> <=> Len(history) = 0) /\ Last(history) = history[Len(history)]
    BY <1>1 DEF IInv, Typed, Last
  <2>3. active = IF history = << >> THEN start ELSE Last(history).after
    BY <1>1, <2>2 DEF IInv, Chained, Start
  <2> HIDE DEF known
  <2>4. \A i \in DOMAIN history :
          /\ history[i].before = IF i = 1 THEN start ELSE history[i - 1].after
          /\ history[i].after \in known
    BY <1>1, <2>1 DEF IInv, Chained, Start
  <2> QED
    BY <2>3, <2>4 DEF HistoryIsChain, known
<1> QED
  BY <1>1, EvolutionInvariant, PTL

\* A configuration comes in only from a candidate made on the active one, that
\* passed its regression and whose reviewer's credential is in force.
THEOREM ActivationsAreReviewed == Spec => ActivationIsReviewed
<1> DEFINE Enters == Len(history') > Len(history) /\ Last(history').by = "activation"
           Ok == \E c \in candidates :
                   /\ c.id.base = active /\ c.id.configuration = active'
                   /\ Passes(c) /\ c.reviewer # {} /\ c.reviewer \subseteq live
<1>1. ASSUME IInv, [Next]_bvars PROVE [Enters => Ok]_bvars
  <2> SUFFICES ASSUME Enters, ~UNCHANGED bvars PROVE Ok
    OBVIOUS
  <2>1. history' # history
    BY <1>1 DEF IInv, Typed
  <2>2. ~Rollback
    <3> SUFFICES ASSUME Rollback PROVE FALSE
      OBVIOUS
    <3> DEFINE e == [before |-> active, after |-> Last(history).before, by |-> "rollback"]
    <3>1. history' = Append(history, e) /\ e.by = "rollback"
      BY DEF Rollback, Move
    <3> HIDE DEF e
    <3>2. Last(history') = e
      BY <1>1, <3>1 DEF IInv, Typed, Last
    <3> QED
      BY <3>1, <3>2
  <2>3. PICK c \in candidates : Activate(c)
    BY <1>1, <2>1, <2>2 DEF Next, Plan, Execute, Propose, Evaluate, Review, Revoke, Reconfigure, bvars
  <2> QED
    BY <1>1, <2>3 DEF Activate, Based, Stands, Move, IInv, Examined
<1> QED
  BY <1>1, EvolutionInvariant, PTL DEF Spec, ActivationIsReviewed

-----------------------------------------------------------------------------
(* The review of a proposal (ModelingReview).                               *)

Subjects == UNION {q.candidates \cup q.conflicts : q \in Queues}

RolesHeld == UNION {Holds[p] : p \in Reviewers}

Actions == [on : Subjects, decision : Tried \cup {"RESOLVE_CONFLICT"}, by : Reviewers,
            role : RolesHeld \cup {None}, revision : Revisions \cup {None}]

\* Who decides on a candidate does so in a role of the policy that is theirs.
Entered(a) ==
  \/ /\ a.on \in queue.candidates /\ a.decision \in Tried
     /\ a.role \in ToSet(Rule(a.on).roles) \cap Holds[a.by]
  \/ a.on \in queue.conflicts /\ a.decision = "RESOLVE_CONFLICT"

\* What is true of a package.
Supporters(k, c) == {p \in Reviewers : Said(k, p, c) \in Positive}

Backed(k, c) ==
  /\ Cardinality(Supporters(k, c)) >= Rule(c).minimum
  /\ \A p \in Reviewers : Said(k, p, c) \in Positive \cup {"NOTHING"}
  /\ Rule(c).minimum >= Len(Rule(c).roles) =>
       \E f \in [ToSet(Rule(c).roles) -> Supporters(k, c)] : \A r \in ToSet(Rule(c).roles) :
         /\ r \in Holds[f[r]]
         /\ \A s \in ToSet(Rule(c).roles) \ {r} : f[s] # f[r]

Finished(k) ==
  /\ \A c \in queue.candidates : \E p \in Reviewers : Said(k, p, c) # "NOTHING"
  /\ \A i \in queue.conflicts : \E n \in 1..k.head : log[n].on = i
  /\ \A n \in 1..k.head : log[n].decision = "REQUEST_EVIDENCE" =>
       \E m \in n..k.head : log[m].on = log[n].on /\ log[m].decision \in Terminal

WellReviewed(k) ==
  /\ k.head \in 0..Len(log) /\ k.accepted \subseteq queue.candidates
  /\ \A c \in k.accepted : Backed(k, c) /\ DependsOn[c] \subseteq k.accepted
  /\ Finished(k)

RInv ==
  /\ {server, policy} \subseteq ReviewProfiles /\ queue \in Queues
  /\ log \in Seq(Actions) /\ Len(log) =< MaxActions
  /\ \A i \in 1..Len(log) : Entered(log[i])
  /\ \A k \in packages : WellReviewed(k)

\* A set of places has a last one, and a first one.
LEMMA LastPlace ==
  ASSUME NEW n \in Nat, NEW S \in SUBSET (1..n), S # {}
  PROVE  Max(S) \in S /\ \A y \in S : y =< Max(S)
<1> DEFINE R == OpToRel(<, Nat)
           U == {m \in Nat : \A y \in S : y =< m}
<1>1. n \in U
  OBVIOUS
<1>2. PICK m \in U : \A k \in U : ~(<<k, m>> \in R)
  <2>1. IsWellFoundedOn(R, Nat)
    BY NatLessThanWellFounded
  <2>2. U \subseteq Nat /\ U # {}
    BY <1>1
  <2> HIDE DEF R, U
  <2> QED
    BY <2>1, <2>2, WFMin
<1>3. \A k \in U : m =< k
  <2> SUFFICES ASSUME NEW k \in U PROVE m =< k
    OBVIOUS
  <2>1. k < m => <<k, m>> \in R
    BY DEF OpToRel
  <2> HIDE DEF R
  <2> QED
    BY <1>2, <2>1
<1>4. m \in S
  <2> SUFFICES ASSUME m \notin S PROVE FALSE
    OBVIOUS
  <2>1. \A y \in S : y =< m - 1 /\ m - 1 \in Nat
    OBVIOUS
  <2>2. m - 1 \in U
    BY <2>1
  <2> QED
    BY <1>3, <2>2
<1>5. \E x \in S : \A y \in S : x >= y
  BY <1>4
<1> QED
  BY <1>5 DEF Max

LEMMA FirstPlace ==
  ASSUME NEW S \in SUBSET Nat, S # {} PROVE Min(S) \in S
<1> DEFINE R == OpToRel(<, Nat)
<1>1. PICK x \in S : \A y \in S : ~(<<y, x>> \in R)
  <2>1. IsWellFoundedOn(R, Nat)
    BY NatLessThanWellFounded
  <2> HIDE DEF R
  <2> QED
    BY <2>1, WFMin
<1>2. ASSUME NEW y \in S PROVE x =< y
  <2>1. y < x => <<y, x>> \in R
    BY DEF OpToRel
  <2> HIDE DEF R
  <2> QED
    BY <1>1, <2>1
<1> QED
  BY <1>2 DEF Min

\* The role a person acts in is one of theirs that the policy asks for.
LEMMA RoleIsHeld ==
  ASSUME RInv, NEW p \in Reviewers, NEW c \in queue.candidates, RoleFor(p, c) # None
  PROVE  RoleFor(p, c) \in ToSet(Rule(c).roles) \cap Holds[p]
<1> DEFINE roles == Rule(c).roles
           held == {i \in DOMAIN roles : roles[i] \in Holds[p]}
           free == {i \in held : \A k \in DOMAIN log : log[k].on = c /\ log[k].decision = "ACCEPT" => log[k].role # roles[i]}
<1>1. DOMAIN roles \subseteq Nat
  <2>1. Scope[c] \in {"TBOX", "SHACL", "MAPPING", "ABOX"}
    BY ReviewAssumption DEF RInv
  <2> QED
    BY <2>1 DEF Rule, Production
<1>2. held # {}
  BY DEF RoleFor
<1>3. PICK i \in held : RoleFor(p, c) = roles[i]
  <2>1. Min(IF free # {} THEN free ELSE held) \in held
    <3>1. PICK S \in SUBSET held : S = (IF free # {} THEN free ELSE held) /\ S # {}
      BY <1>2
    <3>2. S \in SUBSET Nat
      BY <1>1
    <3> QED
      BY <3>1, <3>2, FirstPlace
  <2> QED
    BY <1>2, <2>1 DEF RoleFor
<1> QED
  BY <1>3 DEF ToSet

LEMMA LatestIsLogged ==
  ASSUME RInv, NEW a \in Latest
  PROVE  a.by \in Reviewers /\ Entered(a) /\ a.decision \in Terminal
<1>1. PICK n \in 1..Len(log) : a = log[n] /\ Final(n)
  BY DEF Latest, RInv
<1>2. log[n] \in Actions /\ Entered(log[n])
  BY DEF RInv
<1> QED
  BY <1>1, <1>2 DEF Actions, Final

\* The last word of a person is in the latest actions, and is the only one of theirs there.
LEMMA LastWord ==
  ASSUME RInv, NEW k, k.head = Len(log), NEW p \in Reviewers, NEW c
  PROVE  /\ Said(k, p, c) # "NOTHING" =>
              \E a \in Latest : a.on = c /\ a.by = p /\ a.decision = Said(k, p, c)
         /\ \A a \in Latest : a.on = c /\ a.by = p =>
              /\ a.decision = Said(k, p, c)
              /\ \A b \in Latest : b.on = c /\ b.by = p => b = a
<1> DEFINE mine == {n \in 1..k.head : log[n].on = c /\ log[n].by = p /\ Final(n)}
<1>0. Len(log) \in Nat /\ DOMAIN log = 1..Len(log)
  BY DEF RInv
<1>1. CASE mine = {}
  <2>1. Said(k, p, c) = "NOTHING"
    BY <1>1 DEF Said
  <2>2. \A a \in Latest : ~(a.on = c /\ a.by = p)
    BY <1>0, <1>1 DEF Latest
  <2> QED
    BY <2>1, <2>2
<1>2. CASE mine # {}
  <2>1. Max(mine) \in mine /\ \A y \in mine : y =< Max(mine)
    BY <1>0, <1>2, LastPlace
  <2>2. PICK last \in mine : last = Max(mine) /\ \A y \in mine : y =< last
    BY <2>1
  <2>3. Said(k, p, c) = log[last].decision
    BY <1>2, <2>2 DEF Said
  <2>4. log[last] \in Latest
    <3>1. ASSUME NEW j \in DOMAIN log, j > last, Final(j), Supersedes(log[j], log[last]) PROVE FALSE
      <4>1. j \in mine
        BY <1>0, <2>2, <3>1 DEF Supersedes
      <4> QED
        BY <1>0, <2>2, <3>1, <4>1
    <3> QED
      BY <1>0, <2>2, <3>1 DEF Latest
  <2>5. ASSUME NEW a \in Latest, a.on = c, a.by = p PROVE a = log[last]
    <3>1. PICK m \in 1..Len(log) : /\ a = log[m] /\ Final(m)
                                  /\ \A j \in DOMAIN log : j > m /\ Final(j) => ~Supersedes(log[j], log[m])
      BY <1>0 DEF Latest
    <3>2. m \in mine
      BY <2>5, <3>1
    <3>3. ~(last > m)
      BY <1>0, <2>2, <2>5, <3>1 DEF Supersedes
    <3> QED
      BY <2>2, <3>1, <3>2, <3>3
  <2> QED
    BY <2>2, <2>3, <2>4, <2>5
<1> QED
  BY <1>1, <1>2

\* What Finalize lets through is backed by those who decided.
LEMMA AcceptedIsBacked ==
  ASSUME RInv, NEW k, k.head = Len(log), NEW c \in queue.candidates, NEW d \in Positive, Agreed(c, d), Quorum(c)
  PROVE  Backed(k, c)
<1> DEFINE own == {a \in Latest : a.on = c}
<1>0. IsFiniteSet(Reviewers)
  BY ReviewAssumption
<1>1. \A a \in own : /\ a.by \in Reviewers /\ a.decision = d /\ a.role \in Holds[a.by]
                    /\ a.by \in Supporters(k, c)
  <2> SUFFICES ASSUME NEW a \in own PROVE a.by \in Reviewers /\ a.decision = d /\ a.role \in Holds[a.by]
                                         /\ a.by \in Supporters(k, c)
    OBVIOUS
  <2>2. a.by \in Reviewers /\ Entered(a)
    BY LatestIsLogged
  <2>3. a.decision = d
    BY DEF Agreed
  <2>4. a.role \in Holds[a.by]
    BY <2>2, ReviewAssumption DEF RInv, Entered
  <2>5. Said(k, a.by, c) = d
    BY <2>2, <2>3, LastWord
  <2> QED
    BY <2>2, <2>3, <2>4, <2>5 DEF Supporters
<1>2. Cardinality(Supporters(k, c)) >= Rule(c).minimum
  <2>1. IsFiniteSet(Supporters(k, c)) /\ {a.by : a \in own} \subseteq Supporters(k, c)
    BY <1>0, <1>1, FS_Subset DEF Supporters
  <2>2. /\ Cardinality({a.by : a \in own}) =< Cardinality(Supporters(k, c))
        /\ Cardinality({a.by : a \in own}) \in Nat /\ Cardinality(Supporters(k, c)) \in Nat
    BY <2>1, FS_Subset, FS_CardinalityType
  <2>3. Cardinality({a.by : a \in own}) >= Rule(c).minimum /\ Rule(c).minimum \in Nat
    <3>1. Scope[c] \in {"TBOX", "SHACL", "MAPPING", "ABOX"}
      BY ReviewAssumption DEF RInv
    <3> QED
      BY <3>1 DEF Quorum, Rule, Production
  <2> QED
    BY <2>2, <2>3
<1>3. ASSUME NEW p \in Reviewers PROVE Said(k, p, c) \in Positive \cup {"NOTHING"}
  BY <1>1, LastWord
<1>4. ASSUME Rule(c).minimum >= Len(Rule(c).roles)
      PROVE  \E f \in [ToSet(Rule(c).roles) -> Supporters(k, c)] : \A r \in ToSet(Rule(c).roles) :
               /\ r \in Holds[f[r]]
               /\ \A s \in ToSet(Rule(c).roles) \ {r} : f[s] # f[r]
  <2>1. \A r \in ToSet(Rule(c).roles) : \E a \in own : a.role = r
    BY <1>4 DEF Quorum
  <2>2. PICK g \in [ToSet(Rule(c).roles) -> own] : \A r \in ToSet(Rule(c).roles) : g[r].role = r
    <3>1. \A r \in ToSet(Rule(c).roles) : (CHOOSE a \in own : a.role = r) \in own /\ (CHOOSE a \in own : a.role = r).role = r
      BY <2>1
    <3>2. PICK g : g = [r \in ToSet(Rule(c).roles) |-> CHOOSE a \in own : a.role = r]
      OBVIOUS
    <3> HIDE DEF own
    <3> QED
      BY <3>1, <3>2
  <2>3. PICK f : f = [r \in ToSet(Rule(c).roles) |-> g[r].by]
    OBVIOUS
  <2>4. f \in [ToSet(Rule(c).roles) -> Supporters(k, c)]
    BY <1>1, <2>2, <2>3
  <2>5. ASSUME NEW r \in ToSet(Rule(c).roles) PROVE r \in Holds[f[r]]
    BY <1>1, <2>2, <2>3
  <2>6. ASSUME NEW r \in ToSet(Rule(c).roles), NEW s \in ToSet(Rule(c).roles) \ {r} PROVE f[s] # f[r]
    <3>1. g[r] \in Latest /\ g[s] \in Latest /\ g[r].on = c /\ g[s].on = c /\ g[r] # g[s]
      BY <2>2
    <3>2. f[r] = g[r].by /\ f[s] = g[s].by /\ g[r].by \in Reviewers
      BY <1>1, <2>2, <2>3
    <3>3. ASSUME NEW p \in Reviewers, NEW a \in Latest, NEW b \in Latest, a.on = c, a.by = p, b.on = c, b.by = p
          PROVE  b = a
      BY <3>3, LastWord
    <3> QED
      BY <3>1, <3>2, <3>3
  <2> QED
    BY <2>4, <2>5, <2>6
<1> QED
  BY <1>2, <1>3, <1>4 DEF Backed

LEMMA WellReviewedStays ==
  ASSUME UNCHANGED <<policy, queue, log>>, NEW k, WellReviewed(k) PROVE WellReviewed(k)'
<1>1. \A p, c : Said(k, p, c)' = Said(k, p, c)
  BY DEF Said, Final
<1>2. \A c : Supporters(k, c)' = Supporters(k, c) /\ Rule(c)' = Rule(c)
  BY <1>1 DEF Supporters, Rule
<1>3. \A c : Backed(k, c) => Backed(k, c)'
  BY <1>1, <1>2 DEF Backed
<1>4. Finished(k)'
  BY <1>1 DEF WellReviewed, Finished
<1> QED
  BY <1>3, <1>4 DEF WellReviewed

LEMMA FinalizeKeeps == ASSUME RInv, Finalize PROVE RInv'
<1>0. Len(log) \in Nat
  BY DEF RInv
<1>1. PICK k : k = [head |-> Len(log), accepted |-> Accepted]
  OBVIOUS
<1>2. k.head = Len(log) /\ k.accepted = Accepted
  BY <1>1
<1>3. ASSUME NEW c \in Accepted PROVE Backed(k, c) /\ DependsOn[c] \subseteq Accepted
  <2>1. PICK d \in Positive : Agreed(c, d)
    BY DEF Accepted
  <2> QED
    BY <1>2, <2>1, AcceptedIsBacked DEF Finalize, Accepted
<1>4. Finished(k)
  <2>1. ASSUME NEW c \in queue.candidates PROVE \E p \in Reviewers : Said(k, p, c) # "NOTHING"
    <3>1. PICK d \in Terminal, a \in Latest : a.on = c /\ a.decision = d
      BY DEF Finalize, Agreed
    <3>3. a.by \in Reviewers
      BY LatestIsLogged
    <3>4. Said(k, a.by, c) = d
      BY <1>2, <3>1, <3>3, LastWord
    <3> QED
      BY <3>3, <3>4 DEF Terminal, Positive
  <2>2. ASSUME NEW i \in queue.conflicts PROVE \E n \in 1..k.head : log[n].on = i
    BY <1>2 DEF Finalize, Settled, RInv
  <2>3. ASSUME NEW n \in 1..k.head, log[n].decision = "REQUEST_EVIDENCE"
        PROVE  \E m \in n..k.head : log[m].on = log[n].on /\ log[m].decision \in Terminal
    <3>1. DOMAIN log = 1..Len(log)
      BY DEF RInv
    <3>2. \E m \in DOMAIN log : m > n /\ Final(m) /\ log[m].on = log[n].on
      BY <1>2, <2>3, <3>1 DEF Finalize, Requested
    <3> QED
      BY <1>0, <1>2, <3>1, <3>2 DEF Final
  <2> QED
    BY <2>1, <2>2, <2>3 DEF Finished
<1>5. WellReviewed(k)
  BY <1>0, <1>2, <1>3, <1>4 DEF WellReviewed, Accepted
<1>6. \A j \in packages' : WellReviewed(j)
  BY <1>1, <1>5 DEF Finalize, RInv
<1>7. UNCHANGED <<server, policy, queue, log>>
  BY DEF Finalize
<1>8. \A j \in packages' : WellReviewed(j)'
  BY <1>6, <1>7, WellReviewedStays
<1>9. \A a : Entered(a)' = Entered(a)
  BY <1>7 DEF Entered, Rule
<1> QED
  BY <1>7, <1>8, <1>9 DEF RInv

\* What was reviewed is not touched by what is added to the log.
LEMMA AppendKeeps ==
  ASSUME RInv, NEW a \in Actions, log' = Append(log, a), UNCHANGED <<server, policy, queue, packages>>,
         Len(log) < MaxActions, Entered(a)
  PROVE  RInv'
<1>1. /\ log' \in Seq(Actions) /\ Len(log') = Len(log) + 1 /\ Len(log) \in Nat
      /\ \A n \in 1..Len(log) : log'[n] = log[n]
  BY DEF RInv
<1>2. \A i \in 1..Len(log') : i \in 1..Len(log) \/ i = Len(log')
  BY <1>1
<1>3. (\A i \in 1..Len(log) : Entered(log[i]))'
  <2>1. PICK more : more = log'
    OBVIOUS
  <2>2. more[Len(more)] = a
    BY <1>1, <2>1
  <2>3. \A i \in 1..Len(more) : Entered(more[i])
    BY <1>1, <1>2, <2>1, <2>2 DEF RInv
  <2>4. \A i \in 1..Len(more) : Entered(more[i])'
    BY <2>3 DEF Entered, Rule
  <2> QED
    BY <2>1, <2>4
<1>4. ASSUME NEW k \in packages PROVE WellReviewed(k)'
  <2>1. WellReviewed(k) /\ 1..k.head \subseteq 1..Len(log) /\ k.head \in 0..Len(log')
    BY <1>1 DEF RInv, WellReviewed
  <2>2. ASSUME NEW p, NEW c PROVE Said(k, p, c)' = Said(k, p, c)
    <3>1. {n \in 1..k.head : log'[n].on = c /\ log'[n].by = p /\ Final(n)'}
          = {n \in 1..k.head : log[n].on = c /\ log[n].by = p /\ Final(n)}
      BY <1>1, <2>1 DEF Final
    <3>2. PICK mine : mine = {n \in 1..k.head : log[n].on = c /\ log[n].by = p /\ Final(n)}
      OBVIOUS
    <3>3. mine # {} => Max(mine) \in 1..Len(log)
      <4>1. k.head \in Nat /\ mine \in SUBSET (1..k.head)
        BY <2>1, <3>2 DEF WellReviewed
      <4> QED
        BY <2>1, <4>1, LastPlace
    <3>4. Said(k, p, c) = IF mine = {} THEN "NOTHING" ELSE log[Max(mine)].decision
      BY <3>2 DEF Said
    <3>5. Said(k, p, c)' = IF mine = {} THEN "NOTHING" ELSE log'[Max(mine)].decision
      BY <3>1, <3>2 DEF Said
    <3> QED
      BY <1>1, <3>3, <3>4, <3>5
  <2>3. \A c : Supporters(k, c)' = Supporters(k, c) /\ Rule(c)' = Rule(c)
    BY <2>2 DEF Supporters, Rule
  <2>4. \A c : Backed(k, c) => Backed(k, c)'
    BY <2>2, <2>3 DEF Backed
  <2>5. Finished(k)'
    <3>1. \A n \in 1..k.head : \A m \in n..k.head : log'[m] = log[m] /\ log'[n] = log[n]
      BY <1>1, <2>1 DEF WellReviewed
    <3> QED
      BY <2>1, <2>2, <3>1 DEF WellReviewed, Finished
  <2> QED
    BY <2>1, <2>4, <2>5 DEF WellReviewed
<1> QED
  <2>1. Len(log') =< MaxActions
    BY <1>1, ReviewAssumption
  <2> QED
    BY <1>1, <1>3, <1>4, <2>1 DEF RInv

LEMMA ReviewStep == RInv /\ [RNext]_rvars => RInv'
<1> SUFFICES ASSUME RInv, [RNext]_rvars PROVE RInv'
  OBVIOUS
<1>1. ASSUME NEW p \in Reviewers, NEW c \in queue.candidates, NEW d \in Tried, Decide(p, c, d) PROVE RInv'
  <2>1. RoleFor(p, c) \in ToSet(Rule(c).roles) \cap Holds[p]
    BY <1>1, RoleIsHeld DEF Decide
  <2>2. PICK rev \in Revisions \cup {None} :
          log' = Append(log, [on |-> c, decision |-> d, by |-> p, role |-> RoleFor(p, c), revision |-> rev])
    BY <1>1 DEF Decide
  <2>3. PICK a \in Actions : a = [on |-> c, decision |-> d, by |-> p, role |-> RoleFor(p, c), revision |-> rev]
    <3>1. c \in Subjects
      BY DEF Subjects, RInv
    <3>2. RoleFor(p, c) \in RolesHeld
      BY <2>1 DEF RolesHeld
    <3>3. [on |-> c, decision |-> d, by |-> p, role |-> RoleFor(p, c), revision |-> rev] \in Actions
      BY <3>1, <3>2 DEF Actions
    <3> QED
      BY <3>3
  <2>4. log' = Append(log, a)
    BY <2>2, <2>3
  <2>5. UNCHANGED <<server, policy, queue, packages>> /\ Len(log) < MaxActions
    BY <1>1 DEF Decide
  <2>6. Entered(a)
    BY <2>1, <2>3 DEF Entered
  <2> QED
    BY <2>4, <2>5, <2>6, AppendKeeps
<1>2. ASSUME NEW p \in Reviewers, NEW i \in queue.conflicts, Resolve(p, i) PROVE RInv'
  <2>1. PICK a \in Actions : a = [on |-> i, decision |-> "RESOLVE_CONFLICT", by |-> p, role |-> None, revision |-> None]
    <3>1. i \in Subjects
      BY DEF Subjects, RInv
    <3>2. [on |-> i, decision |-> "RESOLVE_CONFLICT", by |-> p, role |-> None, revision |-> None] \in Actions
      BY <3>1 DEF Actions
    <3> QED
      BY <3>2
  <2>2. log' = Append(log, a)
    BY <1>2, <2>1 DEF Resolve
  <2>3. UNCHANGED <<server, policy, queue, packages>> /\ Len(log) < MaxActions
    BY <1>2 DEF Resolve
  <2>4. Entered(a)
    BY <2>1 DEF Entered
  <2> QED
    BY <2>2, <2>3, <2>4, AppendKeeps
<1>3. CASE Finalize
  BY <1>3, FinalizeKeeps
<1>4. ASSUME UNCHANGED <<policy, queue, log, packages>>, server' \in ReviewProfiles PROVE RInv'
  <2>1. \A k \in packages : WellReviewed(k)'
    BY <1>4, WellReviewedStays DEF RInv
  <2>2. \A a : Entered(a)' = Entered(a)
    BY <1>4 DEF Entered, Rule
  <2> QED
    BY <1>4, <2>1, <2>2 DEF RInv
<1>5. CASE Restart
  BY <1>4, <1>5 DEF Restart
<1>6. CASE UNCHANGED rvars
  BY <1>4, <1>6 DEF rvars, RInv
<1> QED
  BY <1>1, <1>2, <1>3, <1>5, <1>6 DEF RNext

\* A package is written only over a review that is complete, and what it accepts has the
\* people and the roles its scope asks for behind it, nobody against it, and all it needs
\* with it; whoever the reviewers are and however they change their minds
\* (modeling/control_plane/review/).
THEOREM PackagesAreReviewed == RSpec => []ConfirmedIsReviewed
<1>1. RInit => RInv
  BY ReviewAssumption DEF RInit, RInv
<1>2. RInv => ConfirmedIsReviewed
  <2> SUFFICES ASSUME RInv PROVE ConfirmedIsReviewed
    OBVIOUS
  <2>1. RTypeOK
    <3>0. \A i \in 1..Len(log) : log[i] \in Actions
      BY DEF RInv
    <3>1. \A i \in 1..Len(log) : log[i].by \in Reviewers /\ Entered(log[i])
      BY <3>0 DEF RInv, Actions
    <3>2. DOMAIN log = 1..Len(log)
      BY DEF RInv
    <3> QED
      BY <3>1, <3>2 DEF RTypeOK, RInv, Entered, WellReviewed
  <2>2. AcceptedByQuorum
    BY DEF AcceptedByQuorum, RInv, WellReviewed, Backed, Supporters
  <2>3. NothingLeftOpen /\ ClosedAcceptance
    BY DEF NothingLeftOpen, ClosedAcceptance, RInv, WellReviewed, Finished
  <2> QED
    BY <2>1, <2>2, <2>3 DEF ConfirmedIsReviewed
<1> QED
  BY <1>1, <1>2, ReviewStep, PTL DEF RSpec

-----------------------------------------------------------------------------
(* The review of a dataset (DatasetReview).                                 *)

\* What is known of a package and of what was compiled.
DInv ==
  /\ \A t \in Candidates \cup Issues : decisions[t] \in Allowed(t) \cup {Pending}
  /\ DOMAIN decisions = Candidates \cup Issues
  /\ completed \in BOOLEAN /\ refused \subseteq BOOLEAN
  /\ package \in {Pending, "BLOCKED", "READY_FOR_COMPILATION"}
  /\ package # Pending => completed
  /\ completed => \A t \in Candidates \cup Issues : decisions[t] # Pending
  /\ package = "READY_FOR_COMPILATION" => /\ \A i \in Blocking : Ruling(i) = "REJECT" => Grounded(i)
                                          /\ Closed /\ Unresolved = {}
  /\ compiled # Pending => /\ package = "READY_FOR_COMPILATION" /\ DOMAIN compiled = Confirmed
                           /\ \A t \in Confirmed : compiled[t] = [content |-> Resolved[t], triple |-> Triple(Resolved, Resolved[t])]
                           /\ \A t \in Confirmed : \A e \in Ends(Resolved[t]) : Resolved[e] \in Entities

LEMMA RulingsStand ==
  ASSUME DInv, UNCHANGED decisions
  PROVE  /\ Confirmed' = Confirmed /\ Resolved' = Resolved /\ Closed' = Closed /\ Unresolved' = Unresolved
         /\ \A i : Grounded(i)' = Grounded(i) /\ Ruling(i)' = Ruling(i)
  BY DEF Confirmed, Resolved, Closed, Unresolved, Grounded, Ruling, Effective

LEMMA DatasetStep == DInv /\ [DNext]_dvars => DInv'
<1> SUFFICES ASSUME DInv, [DNext]_dvars PROVE DInv'
  OBVIOUS
<1>1. ASSUME NEW t \in Candidates \cup Issues, NEW d \in Allowed(t), RecordAction(t, d) PROVE DInv'
  <2>1. ~completed /\ package = Pending /\ compiled = Pending
    BY <1>1, DatasetAssumption DEF RecordAction, DInv
  <2>2. \A u \in Candidates \cup Issues : decisions'[u] \in Allowed(u) \cup {Pending}
    BY <1>1 DEF RecordAction, DInv
  <2>3. DOMAIN decisions' = Candidates \cup Issues
    BY <1>1 DEF RecordAction, DInv
  <2> QED
    BY <1>1, <2>1, <2>2, <2>3, DatasetAssumption DEF RecordAction, DInv
<1>2. CASE FinalizeLog
  BY <1>2, RulingsStand DEF FinalizeLog, DInv
<1>3. ASSUME NEW allow \in BOOLEAN, Build(allow) PROVE DInv'
  BY <1>3, RulingsStand DEF Build, DInv
<1>4. CASE Compile
  BY <1>4, RulingsStand DEF Compile, DInv, Triple
<1>5. CASE UNCHANGED dvars
  BY <1>5, RulingsStand DEF dvars, DInv, Triple
<1> QED
  BY <1>1, <1>2, <1>3, <1>4, <1>5 DEF DNext

\* A dataset package that may be compiled was reviewed to its end, and what is compiled of it is
\* what a reviewer's decision named, whatever the candidates, their issues and their
\* contents (modeling/confirmation.py, compilation/candidate_resolution.py).
THEOREM DatasetsAreReviewed == DSpec => []ReadyIsReviewed
<1>1. DInit => DInv
  BY DatasetAssumption DEF DInit, DInv
<1>2. DInv => ReadyIsReviewed
  <2> SUFFICES ASSUME DInv PROVE ReadyIsReviewed
    OBVIOUS
  <2>1. \A t \in Confirmed : decisions[t] # Pending /\ t \in Candidates
    BY DatasetAssumption DEF Confirmed, Ruling
  <2>2. DTypeOK
    BY DEF DTypeOK, DInv
  <2>3. ReviewedToTheEnd
    <3> SUFFICES ASSUME package = "READY_FOR_COMPILATION" PROVE ReviewedToTheEnd
      BY DEF ReviewedToTheEnd
    <3>1. \A t \in Candidates \cup Issues : decisions[t] # Pending /\ decisions[t] \in Allowed(t)
      BY DatasetAssumption DEF DInv
    <3>2. \A t \in Confirmed : \A e \in Ends(decisions[t].to) : \E c \in Confirmed : e \in {c, decisions[c].to}
      BY DEF DInv, Closed, Effective
    <3>3. ASSUME NEW i \in Blocking
          PROVE  /\ decisions[i].is = "REJECT"
                 /\ decisions[i].evidence \/ \E c \in Related[i] : decisions[c].is \in {"MODIFY_AND_CONFIRM", "REJECT"}
      <4>1. i \in Issues /\ Related[i] \subseteq Candidates
        BY DatasetAssumption
      <4>2. decisions[i].is \in {"REJECT", "DEFER"}
        BY <3>1, <4>1 DEF Allowed
      <4>3. Ruling(i) = decisions[i].is /\ Ruling(i) # "DEFER"
        BY <3>1, <4>1 DEF Ruling, DInv, Unresolved
      <4>4. Grounded(i)
        BY <4>2, <4>3 DEF DInv
      <4>5. \A c \in Related[i] : Ruling(c) = decisions[c].is
        BY <3>1, <4>1 DEF Ruling
      <4> QED
        BY <4>2, <4>3, <4>4, <4>5 DEF Grounded
    <3> QED
      BY <3>1, <3>2, <3>3 DEF ReviewedToTheEnd
  <2>4. NothingUnreviewed
    <3> SUFFICES ASSUME compiled # Pending, NEW t \in Confirmed PROVE \E c \in Confirmed : compiled[t].content = decisions[c].to
      BY DEF NothingUnreviewed
    <3>1. compiled[t].content = Resolved[t]
      BY DEF DInv
    <3>2. Resolved[t] = IF \A u \in Confirmed : Precedes(t, u) => Effective(u) # t THEN Effective(t) ELSE t
      BY DEF Resolved
    <3> QED
      BY <3>1, <3>2 DEF Effective
  <2>5. ApartIsReviewed
    <3> SUFFICES ASSUME compiled # Pending, \A t \in Confirmed : decisions[t].to \in {t} \cup (DOMAIN Content \ Candidates),
                        NEW t \in Confirmed
                 PROVE  /\ compiled[t].content = decisions[t].to
                        /\ \A e \in Ends(decisions[t].to) \cap Confirmed :
                             Content[decisions[e].to].iri \in {compiled[t].triple[1], compiled[t].triple[2]}
      BY DEF ApartIsReviewed
    <3>1. ASSUME NEW u \in Confirmed PROVE Resolved[u] = decisions[u].to
      <4>1. \A v \in Confirmed : Effective(v) = u => v = u
        BY <2>1 DEF Effective
      <4> QED
        BY <4>1 DEF Resolved, Effective
    <3>2. compiled[t] = [content |-> Resolved[t], triple |-> Triple(Resolved, Resolved[t])]
      BY DEF DInv
    <3>3. ASSUME NEW e \in Ends(decisions[t].to) \cap Confirmed
          PROVE  Content[decisions[e].to].iri \in {compiled[t].triple[1], compiled[t].triple[2]}
      <4>1. compiled[t].triple = Triple(Resolved, decisions[t].to) /\ Resolved[e] = decisions[e].to
        BY <3>1, <3>2
      <4>2. PICK x : x = decisions[t].to
        OBVIOUS
      <4>3. x \notin Entities /\ e \in Ends(x)
        <5>1. e \in Ends(x)
          BY <4>2
        <5>2. x \in Entities => Ends(x) = {}
          BY DEF Ends, Entities
        <5> QED
          BY <5>1, <5>2
      <4>4. CASE Content[x].kind = "DATA"
        <5>1. e = Content[x].subject
          BY <4>3, <4>4 DEF Ends
        <5>2. Triple(Resolved, x) = <<Content[Resolved[e]].iri, Content[x].object>>
          BY <4>3, <4>4, <5>1 DEF Triple
        <5> QED
          BY <4>1, <4>2, <5>2
      <4>5. CASE Content[x].kind # "DATA"
        <5>1. e = Content[x].subject \/ e = Content[x].object
          BY <4>3, <4>5 DEF Ends
        <5>2. Triple(Resolved, x) = <<Content[Resolved[Content[x].subject]].iri, Content[Resolved[Content[x].object]].iri>>
          BY <4>3, <4>5 DEF Triple
        <5>3. /\ compiled[t].triple[1] = Content[Resolved[Content[x].subject]].iri
              /\ compiled[t].triple[2] = Content[Resolved[Content[x].object]].iri
          BY <4>1, <4>2, <5>2
        <5> QED
          BY <4>1, <5>1, <5>3
      <4> QED
        BY <4>4, <4>5
    <3> QED
      BY <3>1, <3>2, <3>3
  <2> QED
    BY <2>2, <2>3, <2>4, <2>5 DEF ReadyIsReviewed
<1> QED
  BY <1>1, <1>2, DatasetStep, PTL DEF DSpec

-----------------------------------------------------------------------------
(* The re-entry of an approved amendment (AmendmentReentry).                *)

\* A manifest that a human handed in.
Intakes == [revised : Data, declared : SUBSET Fields, targets : Targets]

Publications == [data : Data, facts : Data, request : Requests \cup {Nothing}, declared : SUBSET Fields,
                 targets : Targets \cup {{}}, modified : SUBSET Fields]

\* From here on there is a proposal in which the request is represented.
Represented == {"REENTRY_PROPOSAL_READY", "REVIEW_REJECTED", "REVIEW_DEFERRED", "PUBLISHED"}

\* What is under way is for a publication that is there.
UnderWay ==
  /\ request \in Requests /\ request.base \in 1..Len(library)
  /\ intake \in Intakes

\* A publication of a re-entry, and what is true of it from its first day.
PlaceNamed(new) == new.declared \cup new.targets \cup new.request.sources

Follows(new) ==
  new.request.value # Absent =>
    \E f \in Fields : /\ new.data[f] = new.request.value
                      /\ new.request.refs # {} \/ PlaceNamed(new) = {} \/ f \in PlaceNamed(new)
                      /\ new.facts[f] = new.data[f] \/ f \in new.modified

Sound(lib, k) ==
  /\ lib[k].request \in Requests /\ lib[k].request.base \in 1..Len(lib)
  /\ \A f \in Fields : (lib[k].facts[f] = Absent) = (lib[k].data[f] = Absent)
  /\ Follows(lib[k])

AInv ==
  /\ library \in Seq(Publications) /\ Len(library) \in 1..MaxPublications
  /\ proposal \subseteq Fields \X Values
  /\ outcome = "NONE" => request = Nothing /\ intake = Nothing
  /\ outcome # "NONE" => UnderWay
  /\ outcome \in Represented => proposal = Proposed(intake.revised) /\ Matching # {}
  /\ outcome \in {"VALIDATED", "REENTRY_PROPOSAL_READY"} => Len(library) < MaxPublications
  /\ \A k \in 2..Len(library) : Sound(library, k)

LEMMA LeastValue == Min(Values) \in Values
<1>0. Values \subseteq Nat /\ Values # {}
  BY ReentryAssumption
<1> DEFINE R == OpToRel(<, Nat)
<1>1. PICK n \in Values : \A m \in Values : ~(<<m, n>> \in R)
  <2>1. IsWellFoundedOn(R, Nat)
    BY NatLessThanWellFounded
  <2> HIDE DEF R
  <2> QED
    BY <1>0, <2>1, WFMin
<1>2. ASSUME NEW m \in Values PROVE n =< m
  <2>1. m < n => <<m, n>> \in R
    BY <1>0 DEF OpToRel
  <2> HIDE DEF R
  <2> QED
    BY <1>0, <1>1, <2>1
<1> QED
  BY <1>2 DEF Min

LEMMA FirstPublication == AInit => AInv
<1> SUFFICES ASSUME AInit PROVE AInv
  OBVIOUS
<1> DEFINE data == [f \in Fields |-> IF f = (CHOOSE g \in Fields : TRUE) THEN Min(Values) ELSE Absent]
           first == [data |-> data, facts |-> data, request |-> Nothing, declared |-> {}, targets |-> {}, modified |-> {}]
<1>1. data \in Data
  BY LeastValue DEF Data
<1>2. first \in Publications
  BY <1>1 DEF Publications
<1>3. library = <<first>>
  BY DEF AInit
<1> HIDE DEF first
<1>4. library \in Seq(Publications) /\ Len(library) = 1
  BY <1>2, <1>3
<1> QED
  BY <1>4, ReentryAssumption DEF AInit, AInv, Represented

\* What a rulings of confirmations and modifications makes of a field.
LEMMA FactOf ==
  ASSUME NEW data \in Data, NEW rulings \in [Proposed(data) -> Decisions], Refused(rulings) = {}, NEW f \in Fields
  PROVE  /\ data[f] = Absent => Facts(rulings)[f] = Absent
         /\ data[f] # Absent =>
              /\ Facts(rulings)[f] \in Values
              /\ Facts(rulings)[f] = data[f] \/ f \in Modified(rulings)
<1>1. CASE data[f] = Absent
  <2>1. \A c \in DOMAIN rulings : c[1] # f
    BY <1>1 DEF Proposed
  <2> QED
    BY <1>1, <2>1 DEF Facts
<1>2. CASE data[f] # Absent
  <2>1. PICK c \in DOMAIN rulings : c = <<f, data[f]>>
    BY <1>2 DEF Proposed
  <2>2. \A d \in DOMAIN rulings : d[1] = f => d = c
    BY <2>1 DEF Proposed
  <2>3. data[f] \in Values
    BY <1>2 DEF Data
  <2>4. rulings[c] \in Decisions
    OBVIOUS
  <2>5. \/ Kind(rulings, c) = "CONFIRM"
        \/ Kind(rulings, c) = "MODIFY" /\ rulings[c][2] \in Values
    BY <2>4, ReentryAssumption DEF Refused, Kind
  <2>6. (CHOOSE d \in DOMAIN rulings : d[1] = f) = c
    BY <2>1, <2>2
  <2>7. Facts(rulings)[f] = IF Kind(rulings, c) = "MODIFY" THEN rulings[c][2] ELSE c[2]
    BY <2>1, <2>5, <2>6 DEF Facts
  <2>8. Kind(rulings, c) = "MODIFY" => f \in Modified(rulings)
    BY <2>1 DEF Modified
  <2> QED
    BY <1>2, <2>1, <2>3, <2>5, <2>7, <2>8
<1> QED
  BY <1>1, <1>2

\* A publication leaves what was published before it as it was.
LEMMA SoundStays ==
  ASSUME NEW lib \in Seq(Publications), NEW new, NEW k \in 1..Len(lib), Sound(lib, k)
  PROVE  Sound(Append(lib, new), k)
<1>1. /\ Len(Append(lib, new)) = Len(lib) + 1
      /\ \A j \in 1..Len(lib) : Append(lib, new)[j] = lib[j]
  OBVIOUS
<1>2. PICK more : more = Append(lib, new)
  OBVIOUS
<1>3. more[k] = lib[k] /\ lib[k].request.base \in 1..Len(more) /\ more[lib[k].request.base] = lib[lib[k].request.base]
  BY <1>1, <1>2 DEF Sound
<1>4. Sound(more, k)
  BY <1>3 DEF Sound
<1> QED
  BY <1>2, <1>4

LEMMA CompleteKeeps ==
  ASSUME AInv, NEW rulings \in [proposal -> Decisions], Complete(rulings) PROVE AInv'
<1>0. /\ library \in Seq(Publications) /\ Len(library) \in Nat \ {0} /\ Len(library) < MaxPublications
      /\ MaxPublications \in Nat /\ UnderWay /\ proposal = Proposed(intake.revised) /\ Matching # {}
      /\ intake \in Intakes /\ DOMAIN rulings = proposal
  BY ReentryAssumption DEF AInv, Complete, UnderWay, Represented
<1>1. CASE Refused(rulings) # {}
  BY <1>0, <1>1 DEF Complete, AInv, UnderWay, Represented, Matching
<1>2. CASE Refused(rulings) = {}
  <2>1. intake.revised \in Data
    BY <1>0 DEF Intakes
  <2>2. PICK new \in Publications :
          new = [data |-> intake.revised, facts |-> Facts(rulings), request |-> request,
                 declared |-> intake.declared, targets |-> intake.targets, modified |-> Modified(rulings)]
    <3>1. Facts(rulings) \in Data
      <4>1. \A f \in Fields : Facts(rulings)[f] \in Values \cup {Absent}
        BY <1>0, <1>2, <2>1, FactOf
      <4> QED
        BY <4>1 DEF Facts, Data
    <3>2. Modified(rulings) \in SUBSET Fields
      BY <1>0 DEF Modified, AInv
    <3>3. [data |-> intake.revised, facts |-> Facts(rulings), request |-> request, declared |-> intake.declared,
           targets |-> intake.targets, modified |-> Modified(rulings)] \in Publications
      BY <1>0, <2>1, <3>1, <3>2 DEF Publications, Intakes, UnderWay
    <3> QED
      BY <3>3
  <2>3. library' = Append(library, new) /\ outcome' = "PUBLISHED" /\ UNCHANGED <<request, intake, proposal>>
    BY <1>2, <2>2 DEF Complete
  <2>4. /\ library' \in Seq(Publications) /\ Len(library') = Len(library) + 1
        /\ library'[Len(library')] = new /\ \A j \in 1..Len(library) : library'[j] = library[j]
    BY <1>0, <2>3
  <2>5. UnderWay'
    BY <1>0, <2>3, <2>4 DEF UnderWay
  <2>6. Sound(library', Len(library'))
    <3>3. \A f \in Fields : (new.facts[f] = Absent) = (new.data[f] = Absent)
      <4>1. Absent \notin Values
        BY ReentryAssumption
      <4>2. \A f \in Fields : (Facts(rulings)[f] = Absent) = (intake.revised[f] = Absent)
        BY <1>0, <1>2, <2>1, <4>1, FactOf
      <4> QED
        BY <2>2, <4>2
    <3>4. ASSUME request.value # Absent
          PROVE  \E f \in Fields : /\ new.data[f] = request.value
                                   /\ request.refs # {} \/ PlaceNamed(new) = {} \/ f \in PlaceNamed(new)
                                   /\ new.facts[f] = new.data[f] \/ f \in new.modified
      <4>1. PICK c \in Matching : TRUE
        BY <1>0
      <4>2. PICK f \in Fields : c = <<f, intake.revised[f]>> /\ intake.revised[f] # Absent
        BY <4>1 DEF Matching, Proposed
      <4>3. intake.revised[f] = request.value
        BY <3>4, <4>1, <4>2 DEF Matching, Matches
      <4>4. new.data[f] = request.value /\ (new.facts[f] = new.data[f] \/ f \in new.modified)
        BY <1>0, <1>2, <2>1, <2>2, <4>2, <4>3, FactOf
      <4>5. PlaceNamed(new) = intake.declared \cup intake.targets \cup request.sources
        BY <2>2 DEF PlaceNamed
      <4>6. \/ intake.declared \cup intake.targets \cup request.sources = {}
            \/ f \in intake.declared \cup intake.targets \cup request.sources
        BY <4>1, <4>2 DEF Matching, Matches, Pointers
      <4> QED
        BY <4>4, <4>5, <4>6
    <3>5. new.request = request
      BY <2>2
    <3>6. Follows(new)
      BY <3>4, <3>5 DEF Follows
    <3>7. library'[request.base] = library[request.base] /\ request.base \in 1..Len(library')
      BY <1>0, <2>4 DEF UnderWay
    <3> QED
      BY <1>0, <2>4, <3>3, <3>5, <3>6, <3>7 DEF Sound, UnderWay
  <2>7. \A k \in 2..Len(library') : Sound(library', k)
    <3>1. ASSUME NEW k \in 2..Len(library), Sound(library, k) PROVE Sound(library', k)
      BY <1>0, <2>3, <3>1, SoundStays
    <3>2. \A k \in 2..Len(library') : k \in 2..Len(library) \/ k = Len(library')
      BY <1>0, <2>4
    <3> QED
      BY <2>6, <3>1, <3>2 DEF AInv
  <2> QED
    BY <1>0, <2>3, <2>4, <2>5, <2>7 DEF AInv, Represented, Matching
<1> QED
  BY <1>1, <1>2

LEMMA ReentryStep == AInv /\ [ANext]_avars => AInv'
<1> SUFFICES ASSUME AInv, [ANext]_avars PROVE AInv'
  OBVIOUS
<1>1. ASSUME NEW r \in Open, NEW base \in Data, NEW revised \in Data, NEW declared \in SUBSET Fields,
             NEW targets \in Targets, Create(r, base, revised, declared, targets)
      PROVE  AInv'
  <2>1. r \in Requests /\ r.base \in 1..Len(library) /\ Len(library) < MaxPublications
    BY ReentryAssumption DEF AInv, Open
  <2>2. intake' \in Intakes
    BY <1>1 DEF Create, Intakes
  <2>3. UnderWay'
    BY <1>1, <2>1, <2>2 DEF Create, UnderWay
  <2> QED
    BY <1>1, <2>1, <2>3 DEF Create, AInv, Represented
<1>2. CASE Prepare
  <2>1. proposal' \subseteq Fields \X Values
    BY <1>2 DEF Prepare, AInv, UnderWay, Intakes, Proposed, Data
  <2>2. outcome' = "REENTRY_PROPOSAL_READY" => Matching # {}
    BY <1>2, FS_EmptySet DEF Prepare
  <2> QED
    BY <1>2, <2>1, <2>2 DEF Prepare, AInv, UnderWay, Represented, Matching
<1>3. ASSUME NEW rulings \in [proposal -> Decisions], Complete(rulings) PROVE AInv'
  BY <1>3, CompleteKeeps
<1>4. ASSUME NEW rulings \in [proposal -> Decisions], SameIdentity(rulings) PROVE AInv'
  BY <1>4 DEF SameIdentity, AInv, UnderWay, Represented
<1>5. CASE Again
  BY <1>5 DEF Again, AInv, UnderWay, Represented, Matching
<1>6. CASE Drop
  BY <1>6 DEF Drop, AInv, Represented
<1>7. CASE UNCHANGED avars
  BY <1>7 DEF avars, AInv, UnderWay, Represented, Matching
<1> QED
  BY <1>1, <1>2, <1>3, <1>4, <1>5, <1>6, <1>7 DEF ANext

\* Everything in a re-entered amendment was decided on, and it says what its request
\* asked for where the human did not change that very statement, whatever data the
\* human started from, and for any number of fields, values, requests and publications
\* (amendment/republication.py).
THEOREM ReentriesAreDecided == ASpec => []ReentryIsDecided
<1>1. AInv => ReentryIsDecided
  <2> SUFFICES ASSUME AInv PROVE ReentryIsDecided
    OBVIOUS
  <2>1. \A k \in 1..Len(library) : library[k] \in Publications
    BY DEF AInv
  <2>2. ATypeOK
    BY <2>1 DEF ATypeOK, AInv, UnderWay, Publications, Intakes
  <2>3. AllWasDecided
    BY DEF AInv, Sound, New, AllWasDecided
  <2>4. \A k \in New : Follows(library[k]) /\ Named(k) = PlaceNamed(library[k])
    BY DEF AInv, Sound, New, Named, PlaceNamed
  <2>5. RequestIsFollowed
    <3> SUFFICES ASSUME NEW k \in New, library[k].request.value # Absent
                 PROVE  \E f \in Fields : /\ library[k].data[f] = library[k].request.value
                                          /\ library[k].request.refs # {} \/ Named(k) = {} \/ f \in Named(k)
                                          /\ library[k].facts[f] = library[k].data[f] \/ f \in library[k].modified
      BY DEF RequestIsFollowed
    <3>1. Follows(library[k]) /\ Named(k) = PlaceNamed(library[k])
      BY <2>4
    <3>2. PICK f \in Fields :
            /\ library[k].data[f] = library[k].request.value
            /\ library[k].request.refs # {} \/ PlaceNamed(library[k]) = {} \/ f \in PlaceNamed(library[k])
            /\ library[k].facts[f] = library[k].data[f] \/ f \in library[k].modified
      BY <3>1 DEF Follows
    <3>3. library[k].request.refs # {} \/ Named(k) = {} \/ f \in Named(k)
      BY <3>1, <3>2
    <3> QED
      BY <3>2, <3>3
  <2> QED
    BY <2>2, <2>3, <2>5 DEF ReentryIsDecided
<1> QED
  BY FirstPublication, ReentryStep, <1>1, PTL DEF ASpec
=============================================================================
