--------------------------- MODULE IngestionPlans ---------------------------
(***************************************************************************)
(* Sources, plans and runs of the ingestion (ingestion/source_store.py,    *)
(* planner.py, executor.py) and the plugins they choose and load           *)
(* (plugins/registry.py, selection.py, snapshot.py).  A plan binds the     *)
(* snapshot of each provider it chose; a run checks snapshots against the  *)
(* files installed and calls whatever its process has imported.            *)
(* A provider's code is a version, 0 when it is not installed.  How a run  *)
(* is put into the workspace is WorkspaceCommit.                           *)
(***************************************************************************)
EXTENDS Naturals, Sequences, FiniteSets, SequencesExt

CONSTANTS
  Procs,      \* processes that plan and run
  Providers,  \* plugins
  Builtin,    \* those shipped with the toolchain: enabled without being asked
  Role,       \* [Providers -> detect, parse, normalize or quality]
  Reads,      \* [Providers -> media types it accepts]
  Rank,       \* [Providers -> its priority]
  Sources,    \* source identities: content and detected media type
  Media,      \* [Sources -> media type]
  Content,    \* [Sources -> the bytes]
  LongLived,  \* whether a process lives on after an operation
  MaxEdits,   \* bound: changes of installed code
  MaxFaults,  \* bound: deaths while registering, and damaged blobs
  MaxPlans,   \* bound: plans on disk
  None

ASSUME PlansAssumption ==
  /\ Builtin \subseteq Providers /\ LongLived \in BOOLEAN
  /\ MaxEdits \in Nat /\ MaxFaults \in Nat /\ MaxPlans \in Nat

Roles == <<"detect", "parse", "normalize", "quality">>

VARIABLES
  code,     \* [Providers -> the code installed]
  edits,    \* the number of the last change
  loaded,   \* [Procs -> [Providers -> the code imported, 0: not imported]]
  blobs,    \* [contents -> none, whole or damaged]
  records,  \* sources registered
  batches,  \* sets of sources
  plans,    \* plans on disk
  runs,     \* runs in place
  op,       \* the run each process at work carries out
  held,     \* whether the workspace's ingestion lock file exists
  faults    \* deaths and damages so far

pvars == <<code, edits, loaded, blobs, records, batches, plans, runs, op, held, faults>>

Contents == {Content[s] : s \in Sources}

Unloaded == [x \in Providers |-> 0]

PInit ==
  /\ code = [x \in Providers |-> 1] /\ edits = 1
  /\ loaded = [p \in Procs |-> Unloaded]
  /\ blobs = [c \in Contents |-> "none"] /\ records = {} /\ batches = {}
  /\ plans = {} /\ runs = {} /\ op = [p \in {} |-> None] /\ held = FALSE /\ faults = 0

(***************************************************************************)
(* Sources.                                                                *)
(***************************************************************************)

Verified(s) == s \in records /\ blobs[Content[s]] = "whole"

\* Blob and record are written under the source lock; a blob found there must
\* hash to its name, and a damaged one is never replaced.
AddFile(s) ==
  /\ blobs[Content[s]] # "damaged" /\ s \notin records
  /\ blobs' = [blobs EXCEPT ![Content[s]] = "whole"]
  /\ records' = records \cup {s}
  /\ UNCHANGED <<code, edits, loaded, batches, plans, runs, op, held, faults>>

\* The process dies between the two: the next registration finds the blob.
DieAdding(s) ==
  /\ faults < MaxFaults /\ blobs[Content[s]] = "none" /\ s \notin records
  /\ blobs' = [blobs EXCEPT ![Content[s]] = "whole"] /\ faults' = faults + 1
  /\ UNCHANGED <<code, edits, loaded, records, batches, plans, runs, op, held>>

Damage(c) ==
  /\ faults < MaxFaults /\ blobs[c] = "whole"
  /\ blobs' = [blobs EXCEPT ![c] = "damaged"] /\ faults' = faults + 1
  /\ UNCHANGED <<code, edits, loaded, records, batches, plans, runs, op, held>>

CreateBatch(S) ==
  /\ S # {} /\ \A s \in S : Verified(s)
  /\ S \notin batches /\ batches' = batches \cup {S}
  /\ UNCHANGED <<code, edits, loaded, blobs, records, plans, runs, op, held, faults>>

(***************************************************************************)
(* Planning: each role of each source gets one provider, or the plan is    *)
(* UNRESOLVED.                                                             *)
(***************************************************************************)

Enabled(x, allow) == code[x] # 0 /\ (x \in Builtin \/ x \in allow)

Eligible(s, role, allow) ==
  {x \in Providers : Enabled(x, allow) /\ Role[x] = role /\ Media[s] \in Reads[x]}

Highest(X) == {x \in X : \A y \in X : Rank[y] =< Rank[x]}

\* The preferred parser, or the only one of the highest priority; empty when
\* there is none or a tie.
Selected(s, role, allow, prefer) ==
  LET X == Eligible(s, role, allow)
  IN  IF role = "parse" /\ prefer # None THEN X \cap {prefer}
      ELSE IF Cardinality(Highest(X)) = 1 THEN Highest(X) ELSE {}

Snapshot(x) == [provider |-> x, code |-> code[x]]

CreatePlan(S, allow, prefer) ==
  /\ S \in batches /\ \A s \in S : Verified(s)
  /\ LET chosen == [u \in S \X ToSet(Roles) |-> Selected(u[1], u[2], allow, prefer)]
         plan == [batch |-> S, ready |-> \A u \in DOMAIN chosen : chosen[u] # {},
                  steps |-> [u \in {v \in DOMAIN chosen : chosen[v] # {}} |->
                               Snapshot(CHOOSE x \in chosen[u] : TRUE)]]
     IN  /\ plan \notin plans /\ Cardinality(plans) < MaxPlans
         /\ plans' = plans \cup {plan}
  /\ UNCHANGED <<code, edits, loaded, blobs, records, batches, runs, op, held, faults>>

(***************************************************************************)
(* Running a plan.                                                         *)
(***************************************************************************)

Existing(plan) == {r \in runs : r.plan = plan}

\* What the executor calls; the quality report is Core's.
Called == <<"detect", "parse", "normalize">>

Calls(plan) == plan.batch \X ToSet(Called)

\* The sources one after the other, the calls of a source in order.
Due(o, u) ==
  LET madeOf(s) == {v \in DOMAIN o.made : v[1] = s}
  IN  /\ u \in Calls(o.plan) \ DOMAIN o.made
      /\ u[2] = Called[Cardinality(madeOf(u[1])) + 1]
      /\ \A s \in o.plan.batch \ {u[1]} : Cardinality(madeOf(s)) \in {0, Len(Called)}

\* due: the source or call checked last; since: the number of changes then;
\* had, installed: what the process had imported, and what was installed.
Started(p, plan, allow) ==
  [plan |-> plan, allow |-> allow, at |-> "lock", due |-> None, since |-> 0, made |-> <<>>,
   read |-> <<>>, had |-> loaded[p], installed |-> code, overtaken |-> {}]

\* The plan is loaded and its batch verified; an existing run would be returned.
Look(p, plan, allow) ==
  /\ p \notin DOMAIN op /\ plan.ready /\ \A s \in plan.batch : Verified(s)
  /\ Existing(plan) = {}
  /\ op' = [q \in DOMAIN op \cup {p} |-> IF q = p THEN Started(p, plan, allow) ELSE op[q]]
  /\ UNCHANGED <<code, edits, loaded, blobs, records, batches, plans, runs, held, faults>>

\* The end of an operation, which gives the lock back if it has it; the process
\* goes as well when it is a command line.
Leave(p) ==
  /\ op' = [q \in DOMAIN op \ {p} |-> op[q]] /\ held' = (held /\ op[p].at = "lock")
  /\ loaded' = IF LongLived THEN loaded ELSE [loaded EXCEPT ![p] = Unloaded]

AtStep(p, here) == p \in DOMAIN op /\ op[p].at = here

\* The lock file is created, or the operation is refused: nobody waits.
Lock(p) ==
  /\ AtStep(p, "lock")
  /\ IF held THEN Leave(p)
     ELSE held' = TRUE /\ op' = [op EXCEPT ![p].at = "look"] /\ UNCHANGED loaded
  /\ UNCHANGED <<code, edits, blobs, records, batches, plans, runs, faults>>

\* Fault: nobody looks again.
LookNoMore(p) ==
  /\ AtStep(p, "look") /\ op' = [op EXCEPT ![p].at = "work"]
  /\ UNCHANGED <<code, edits, loaded, blobs, records, batches, plans, runs, held, faults>>

\* Under the lock, a run that was made in the meantime is returned.
LookAgain(p) ==
  /\ AtStep(p, "look")
  /\ IF Existing(op[p].plan) # {} THEN Leave(p)
     ELSE op' = [op EXCEPT ![p].at = "work"] /\ UNCHANGED <<loaded, held>>
  /\ UNCHANGED <<code, edits, blobs, records, batches, plans, runs, faults>>

\* The next source, when the last one is done.
Unread(p, s) ==
  /\ s \notin DOMAIN op[p].read /\ DOMAIN op[p].read = {u[1] : u \in DOMAIN op[p].made}
  /\ Due(op[p], <<s, "detect">>)

\* Before a source is read its record and its bytes are verified ...
VerifySource(p, s) ==
  /\ AtStep(p, "work") /\ Unread(p, s) /\ Verified(s)
  /\ op' = [op EXCEPT ![p].at = "read", ![p].due = s]
  /\ UNCHANGED <<code, edits, loaded, blobs, records, batches, plans, runs, held, faults>>

\* What is in f stays.
Added(f, x, v) == [y \in DOMAIN f \cup {x} |-> IF y \in DOMAIN f THEN f[y] ELSE v]

\* ... and then the bytes are read, a second time.
ReadBlob(p) ==
  /\ AtStep(p, "read")
  /\ LET s == op[p].due
     IN  op' = [op EXCEPT ![p].at = "work", ![p].read = Added(@, s, blobs[Content[s]])]
  /\ UNCHANGED <<code, edits, loaded, blobs, records, batches, plans, runs, held, faults>>

\* Fault: the snapshot in the plan is not compared.
PassesAnyCode(p, u) ==
  LET step == op[p].plan.steps[u]
  IN  /\ code[step.provider] # 0
      /\ step.provider \in Builtin \/ step.provider \in op[p].allow

\* verify_snapshot: the files installed are hashed again before each call.
Passes(p, u) ==
  LET step == op[p].plan.steps[u]
  IN  /\ Snapshot(step.provider) = step
      /\ step.provider \in Builtin \/ step.provider \in op[p].allow

CheckCode(p, u) ==
  /\ AtStep(p, "work") /\ Due(op[p], u) /\ u[1] \in DOMAIN op[p].read /\ Passes(p, u)
  /\ op' = [op EXCEPT ![p].at = "call", ![p].due = u, ![p].since = edits]
  /\ UNCHANGED <<code, edits, loaded, blobs, records, batches, plans, runs, held, faults>>

Imported(p, x) == IF loaded[p][x] # 0 THEN loaded[p][x] ELSE code[x]

\* registry.load and the call.  What the process has imported it does not import
\* again; overtaken: imported when the installation was no longer the one checked.
Call(p) ==
  /\ AtStep(p, "call")
  /\ LET u == op[p].due
         x == op[p].plan.steps[u].provider
     IN  /\ Imported(p, x) # 0
         /\ loaded' = [loaded EXCEPT ![p][x] = Imported(p, x)]
         /\ op' = [op EXCEPT
                     ![p].at = "work",
                     ![p].made = Added(@, u, [provider |-> x, code |-> Imported(p, x)]),
                     ![p].overtaken = IF loaded[p][x] = 0 /\ edits # op[p].since THEN @ \cup {x} ELSE @]
  /\ UNCHANGED <<code, edits, blobs, records, batches, plans, runs, held, faults>>

\* What is due does not pass, cannot be imported, or fails on damaged bytes.
Fails(p) ==
  \/ AtStep(p, "work") /\ \E s \in op[p].plan.batch : Unread(p, s) /\ ~Verified(s)
  \/ /\ AtStep(p, "work")
     /\ \E u \in Calls(op[p].plan) : Due(op[p], u) /\ u[1] \in DOMAIN op[p].read /\ ~Passes(p, u)
  \/ AtStep(p, "call") /\ Imported(p, op[p].plan.steps[op[p].due].provider) = 0
  \/ AtStep(p, "work") /\ \E s \in DOMAIN op[p].read : op[p].read[s] = "damaged"

\* Nothing is written and the lock is released.
Refuse(p) ==
  /\ Fails(p) /\ Leave(p)
  /\ UNCHANGED <<code, edits, blobs, records, batches, plans, runs, faults>>

Commit(p) ==
  /\ AtStep(p, "work") /\ DOMAIN op[p].made = Calls(op[p].plan)
  /\ runs' = runs \cup {[plan |-> op[p].plan, made |-> op[p].made, read |-> op[p].read, had |-> op[p].had,
                         installed |-> op[p].installed, overtaken |-> op[p].overtaken, by |-> p]}
  /\ Leave(p)
  /\ UNCHANGED <<code, edits, blobs, records, batches, plans, faults>>

(***************************************************************************)
(* The installation.                                                       *)
(***************************************************************************)

\* Another version, or one that was there before.
Upgrade(x, c) ==
  /\ c # code[x] /\ edits < 1 + MaxEdits /\ edits' = edits + 1
  /\ code' = [code EXCEPT ![x] = c]
  /\ UNCHANGED <<loaded, blobs, records, batches, plans, runs, op, held, faults>>

Uninstall(x) ==
  /\ x \notin Builtin /\ code[x] # 0 /\ edits < 1 + MaxEdits /\ edits' = edits + 1
  /\ code' = [code EXCEPT ![x] = 0]
  /\ UNCHANGED <<loaded, blobs, records, batches, plans, runs, op, held, faults>>

Restart(p) ==
  /\ p \notin DOMAIN op /\ loaded[p] # Unloaded
  /\ loaded' = [loaded EXCEPT ![p] = Unloaded]
  /\ UNCHANGED <<code, edits, blobs, records, batches, plans, runs, op, held, faults>>

Allowlists == SUBSET (Providers \ Builtin)

PNext ==
  \/ \E s \in Sources : AddFile(s) \/ DieAdding(s)
  \/ \E c \in Contents : Damage(c)
  \/ \E S \in SUBSET Sources : CreateBatch(S)
  \/ \E S \in batches, allow \in Allowlists, prefer \in Providers \cup {None} :
       CreatePlan(S, allow, prefer)
  \/ \E p \in Procs, plan \in plans, allow \in Allowlists : Look(p, plan, allow)
  \/ \E p \in Procs : Lock(p) \/ LookAgain(p) \/ ReadBlob(p) \/ Call(p) \/ Refuse(p) \/ Commit(p) \/ Restart(p)
  \/ \E p \in Procs, s \in Sources : VerifySource(p, s)
  \/ \E p \in Procs, u \in Sources \X ToSet(Called) : CheckCode(p, u)
  \/ \E x \in Providers : Uninstall(x) \/ \E c \in 1..(1 + MaxEdits) : Upgrade(x, c)

PSpec == PInit /\ [][PNext]_pvars

(***************************************************************************)
(* Properties.                                                             *)
(***************************************************************************)

\* The state has the shape the code gives it; the lock file is there exactly
\* while a process is past its lock.
TypeOK ==
  /\ code \in [Providers -> 0..(1 + MaxEdits)] /\ edits \in 1..(1 + MaxEdits)
  /\ loaded \in [Procs -> [Providers -> 0..(1 + MaxEdits)]]
  /\ blobs \in [Contents -> {"none", "whole", "damaged"}]
  /\ records \subseteq Sources /\ batches \subseteq SUBSET Sources
  /\ \A plan \in plans :
       /\ plan.batch \in batches /\ plan.ready \in BOOLEAN
       /\ DOMAIN plan.steps \subseteq plan.batch \X ToSet(Roles)
  /\ DOMAIN op \subseteq Procs /\ \A p \in DOMAIN op : op[p].plan \in plans
  /\ held = (\E p \in DOMAIN op : op[p].at # "lock") /\ faults \in 0..MaxFaults

\* What a run says produced it did, but for a provider whose installation was
\* changed between the check and the import: each provider called was the code its
\* plan has the snapshot of.  So it is on the command line; a process that lives on
\* calls what it imported before (services/sources.py, plugins/registry.py).
ProducedByItsSnapshot ==
  \A r \in runs : \A u \in Calls(r.plan) :
    r.made[u] = r.plan.steps[u] \/ r.plan.steps[u].provider \in r.overtaken

\* The code called for a plan is the plan's, in two cases excepted: it slipped in
\* between the check and the import, or it is what the process had imported in an
\* earlier operation.  And no run is made by two codes of one provider, whoever
\* changes the installation in its course (ingestion/executor.py, registry.py).
ForeignCodeIsInheritedOrOvertook ==
  \A r \in runs : \A u \in Calls(r.plan) :
    LET x == r.plan.steps[u].provider
    IN  /\ \/ r.made[u] = r.plan.steps[u]
           \/ x \in r.overtaken
           \/ r.had[x] # 0 /\ r.made[u].code = r.had[x]
        /\ \A v \in Calls(r.plan) : r.plan.steps[v].provider = x => r.made[v] = r.made[u]

\* A plan is carried out once: of processes that looked before there was a run, one
\* makes it, and nobody who has the lock works on a plan whose run is there
\* (ingestion/executor.py, execute_ingestion_plan).
NothingIsMadeAgain ==
  /\ \A r1, r2 \in runs : r1.plan = r2.plan => r1 = r2
  /\ \A p \in DOMAIN op : op[p].at \notin {"lock", "look"} => Existing(op[p].plan) = {}

\* A run has read the bytes its sources are named after: its evidence records name
\* their digest.  The code does not keep it: the bytes that are verified are not the
\* bytes that are read (README.md, "Statements TLC refutes").
ReadWhole ==
  \A r \in runs : \A s \in r.plan.batch : r.read[s] = "whole"

\* Every snapshot of a run's plan was the code installed when the run began:
\* docs/ingestion/ingestion-plan-and-run-v1.md says a run verifies every one.
\* The code does not keep it: TLC refutes it (README.md, "Statements TLC refutes").
EverySnapshotIsVerified ==
  \A r \in runs : \A u \in DOMAIN r.plan.steps :
    r.plan.steps[u].code = r.installed[r.plan.steps[u].provider]
=============================================================================
