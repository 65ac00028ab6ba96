---------------------------- MODULE GraphImport ----------------------------
(***************************************************************************)
(* The import of a released package into a GraphDB repository of its own   *)
(* (integrations/graphdb.py): several executions of one plan, each a row   *)
(* of requests whose answer may be lost and whose effect may come late     *)
(* (graphdb/client.py), beside somebody else who works on the server.      *)
(***************************************************************************)
EXTENDS Naturals, FiniteSets

CONSTANTS Runners, MaxTurns, Absent

VARIABLES
  repo,     \* the plan's repository, named after the plan: [rules, data, imports], or Absent
  pc,       \* the next request of an execution, or Absent
  flight,   \* requests that were given up and have not had their effect
  receipt,  \* what the last execution of a runner returned
  exact,     \* since it began, the repository was once what it should be
  turns     \* what somebody else has done, at most MaxTurns times

gvars == <<repo, pc, flight, receipt, exact, turns>>

Data == {"package"}

\* A quad in a named graph and a triple in the default graph.
Strange == {"quad", "triple"}

Repositories == [rules : {"empty", "rdfs"}, data : SUBSET (Data \cup Strange), imports : SUBSET Runners]
Requests == {"list", "create", "inspect", "count", "import", "explicit", "complete", "default"}
Receipts == {"RECONCILIATION_REQUIRED", "FAILED", "DEPLOYMENT_VERIFIED"}

ASSUME GraphAssumption == MaxTurns \in Nat /\ Absent \notin Repositories \cup Requests \cup Receipts

Exact(r) == r # Absent /\ r.rules = "empty" /\ r.data = Data

GInit ==
  /\ repo = Absent /\ flight = {} /\ turns = 0
  /\ pc = [r \in Runners |-> Absent] /\ receipt = [r \in Runners |-> Absent] /\ exact = [r \in Runners |-> FALSE]

\* What a request does to the repository, wherever it is when it arrives; a
\* repository that exists is not created again, one that does not takes no data.
Effect(r, op) ==
  repo' = CASE op = "create" /\ repo = Absent -> [rules |-> "empty", data |-> {}, imports |-> {}]
            [] op = "import" /\ repo # Absent -> [repo EXCEPT !.data = @ \cup Data, !.imports = @ \cup {r}]
            [] OTHER -> repo

Accepted(op) == IF op = "create" THEN repo = Absent ELSE repo # Absent

Goto(r, s) == pc' = [pc EXCEPT ![r] = s] /\ receipt' = receipt

Return(r, status) == pc' = [pc EXCEPT ![r] = Absent] /\ receipt' = [receipt EXCEPT ![r] = status]

Execute(r) ==
  /\ pc[r] = Absent /\ pc' = [pc EXCEPT ![r] = "list"] /\ receipt' = [receipt EXCEPT ![r] = Absent]
  /\ UNCHANGED <<repo, flight, turns>>

After == [create |-> "inspect", import |-> "explicit"]

\* Fault: a repository that is there already counts as created.
WriteTolerant(r, op) ==
  /\ pc[r] = op
  /\ \/ Effect(r, op) /\ Goto(r, After[op]) /\ UNCHANGED flight
     \/ Effect(r, op) /\ Return(r, "RECONCILIATION_REQUIRED") /\ UNCHANGED flight
     \/ flight' = flight \cup {<<r, op>>} /\ Return(r, "RECONCILIATION_REQUIRED") /\ UNCHANGED repo
  /\ UNCHANGED turns

\* A request that changes something, sent once: it is carried out or refused
\* and answered, carried out and not answered, or given up on its way.
Write(r, op) ==
  /\ pc[r] = op
  /\ \/ Effect(r, op) /\ UNCHANGED flight
        /\ IF Accepted(op) THEN Goto(r, After[op]) ELSE Return(r, "RECONCILIATION_REQUIRED")
     \/ Effect(r, op) /\ Return(r, "RECONCILIATION_REQUIRED") /\ UNCHANGED flight
     \/ flight' = flight \cup {<<r, op>>} /\ Return(r, "RECONCILIATION_REQUIRED") /\ UNCHANGED repo
  /\ UNCHANGED turns

Late(r, op) ==
  /\ <<r, op>> \in flight /\ flight' = flight \ {<<r, op>>}
  /\ Effect(r, op) /\ UNCHANGED <<pc, receipt, turns>>

\* What the answer to a request that reads must be; a repository with rules
\* answers with inferred statements as well.
Wanted(op) ==
  CASE op = "list"     -> repo = Absent
    [] op = "inspect"  -> repo.rules = "empty"
    [] op = "count"    -> repo.data = {}
    [] op = "explicit" -> repo.data = Data
    [] op = "complete" -> repo.data = Data /\ repo.rules = "empty"
    [] OTHER           -> "triple" \notin repo.data

Then == [list |-> "create", inspect |-> "count", count |-> "import", explicit |-> "complete", complete |-> "default"]

Read(r, op) ==
  /\ pc[r] = op
  /\ \/ IF ~Wanted(op) THEN Return(r, "FAILED")
        ELSE IF op = "default" THEN Return(r, "DEPLOYMENT_VERIFIED") ELSE Goto(r, Then[op])
     \/ Return(r, "RECONCILIATION_REQUIRED")
  /\ UNCHANGED <<repo, flight, turns>>

\* Somebody else adds a statement, or replaces the repository by one with rules.
Other ==
  /\ turns < MaxTurns /\ turns' = turns + 1 /\ repo # Absent
  /\ \/ \E s \in Strange : repo' = [repo EXCEPT !.data = @ \cup {s}]
     \/ \E s \in Strange : repo' = [repo EXCEPT !.data = @ \ {s}]
     \/ repo' = [rules |-> "rdfs", data |-> {}, imports |-> {}]
  /\ UNCHANGED <<pc, flight, receipt>>

Step ==
  \/ \E r \in Runners : Execute(r)
  \/ \E r \in Runners : \E op \in {"create", "import"} : Write(r, op) \/ Late(r, op)
  \/ \E r \in Runners : \E op \in DOMAIN Then \cup {"default"} : Read(r, op)
  \/ Other

GNext ==
  /\ Step
  /\ exact' = [r \in Runners |-> IF pc[r] # Absent THEN exact[r] \/ Exact(repo) ELSE pc'[r] = Absent /\ exact[r]]

GSpec == GInit /\ [][GNext]_gvars
-----------------------------------------------------------------------------
\* The state has its types, and what is still on its way was given up by the
\* execution that sent it.
GTypeOK ==
  /\ repo \in Repositories \cup {Absent} /\ turns \in 0..MaxTurns
  /\ pc \in [Runners -> Requests \cup {Absent}] /\ receipt \in [Runners -> Receipts \cup {Absent}]
  /\ flight \subseteq Runners \X {"create", "import"} /\ exact \in [Runners -> BOOLEAN]

\* A deployment is verified only if there was a moment during the execution at
\* which the repository exact the package, nothing else and nothing inferred,
\* whatever was done to it between the requests that looked.
VerifiedWasThere == \A r \in Runners : receipt[r] = "DEPLOYMENT_VERIFIED" => exact[r]

\* However often a plan is executed, by how many at once, and however late a lost
\* request has its effect, a repository takes the import of one execution only.
OneImporter == repo # Absent => Cardinality(repo.imports) <= 1

\* Both, of what has its types: what is reported as deployed was there, and was
\* put there once (integrations/graphdb.py, execute).
DeploymentWasExact == GTypeOK /\ VerifiedWasThere /\ OneImporter
=============================================================================
