---------------------------- MODULE SemanticBuild ----------------------------
(***************************************************************************)
(* Planning, building and reproducing an ontology package                  *)
(* (semantic_kernel/compiler.py) from the authorities of a workspace,      *)
(* which are found by scanning it (artifact_resolver.py) and attested      *)
(* (input_attestation.py), and the commit of the three directories of a    *)
(* build under a lock file (transaction.py).                               *)
(*                                                                         *)
(* An authority may be stored in several files, for an ingestion run and a *)
(* package hold copies.  A place stands for a file path and places are     *)
(* ordered as paths are; the content of a copy is 0 when it hashes to its  *)
(* identity, else a number for what it was changed to.  A removed project  *)
(* lock or pack lock is such a change.  A plan stands for its attestation  *)
(* and for a package version of its own.  Left out: the copies in staging, *)
(* which sort after all others and at most make a scan fail.               *)
(***************************************************************************)
EXTENDS Integers, Sequences, FiniteSets, FiniteSetsExt, Functions

CONSTANTS
  Builders,   \* processes that build
  Docs,       \* authorities of one confirmed package
  Home,       \* [Docs -> the place it was written to]
  Packed,     \* authorities a package holds a copy of
  Verified,   \* authorities that are verified again in the package
  Ingested,   \* authorities every ingestion run holds a copy of
  RunPlaces,  \* places of later ingestion runs
  PackPlaces, \* places of packages
  MaxEdits,   \* bound: edits of authorities, those that put back included
  MaxPlans,   \* bound: plans made
  MaxKills,   \* bound: builders killed
  None

ASSUME BuildAssumption ==
  /\ Home \in [Docs -> Nat] /\ Packed \subseteq Docs /\ Ingested \subseteq Docs
  /\ RunPlaces \subseteq Nat /\ PackPlaces \subseteq Nat
  /\ \A d \in Docs : Home[d] \notin RunPlaces \cup PackPlaces
  /\ MaxEdits \in Nat /\ MaxPlans \in Nat /\ MaxKills \in Nat /\ None \notin Builders

VARIABLES
  copies,    \* [Docs -> [places that hold it -> content]]
  edits,     \* edits so far
  undone,    \* contents an edit has replaced: <<authority, content>>
  plans,     \* attestations plans were made with: [Docs -> place]
  packages,  \* packages in place
  dirs,      \* the other directories of builds in place: <<role, plan>>
  holder,    \* whose lock file is there
  kills,     \* builders killed so far
  task       \* [Builders -> the build being carried out, or None]

\* A build: its plan, the documents it has read, how far it is, and how many of
\* its directories are moved.
Tasks ==
  [plan : [Docs -> Nat], docs : [Docs -> Nat], moved : Nat,
   at : {"scanned", "attested", "compiled", "staged", "moving", "undoing"}]

ASSUME NoneIsNoTask == None \notin Tasks

workspace == <<copies, edits, undone, plans>>
bvars == <<workspace, packages, dirs, holder, kills, task>>

BInit ==
  /\ copies = [d \in Docs |-> [x \in {Home[d]} |-> 0]] /\ edits = 0 /\ undone = {}
  /\ plans = {} /\ packages = {} /\ dirs = {} /\ holder = None /\ kills = 0
  /\ task = [b \in Builders |-> None]

(***************************************************************************)
(* The resolver and the attestation.                                       *)
(***************************************************************************)

\* Copies that differ fail the whole index.
Unambiguous == \A d \in Docs : Cardinality(Range(copies[d])) = 1

\* Fault: the last file found wins.
LastPlace(d) == Max(DOMAIN copies[d])

\* Among equal copies the one with the least path is the record.
Place(d) == Min(DOMAIN copies[d])

Index == [d \in Docs |-> copies[d][Place(d)]]

Rows == [d \in Docs |-> Place(d)]

\* Every authority is there and hashes to its identity.
Attested == Unambiguous /\ Index = [d \in Docs |-> 0]

(***************************************************************************)
(* Plans and builds.                                                       *)
(***************************************************************************)

\* A plan's identity binds its attestation, and so the places found.
CreatePlan ==
  /\ Attested /\ Rows \notin plans /\ Cardinality(plans) < MaxPlans
  /\ plans' = plans \cup {Rows}
  /\ UNCHANGED <<copies, edits, undone, packages, dirs, holder, kills, task>>

Doing(b, at) == task[b] # None /\ task[b].at = at

Going(b, at) ==
  /\ task' = [task EXCEPT ![b].at = at]
  /\ UNCHANGED <<workspace, packages, dirs, kills>>

Ending(b) ==
  /\ task' = [task EXCEPT ![b] = None]
  /\ UNCHANGED <<workspace, packages, dirs, kills>>

\* A build keeps the documents of its first scan.
Scan(b, plan) ==
  /\ task[b] = None /\ Unambiguous
  /\ task' = [task EXCEPT ![b] = [plan |-> plan, docs |-> Index, at |-> "scanned", moved |-> 0]]
  /\ UNCHANGED <<workspace, packages, dirs, holder, kills>>

\* The build and the validation directory of a build are named after its plan.
Roles == <<"build", "validation">>

Built(plan) == \A i \in DOMAIN Roles : <<Roles[i], plan>> \in dirs

Taken(plan) ==
  \/ \E i \in DOMAIN Roles : <<Roles[i], plan>> \in dirs
  \/ \E k \in packages : k.plan = plan

\* Fault: the attestation of the plan is not made again.
TrustPlan(b) ==
  /\ Doing(b, "scanned") /\ ~Built(task[b].plan)
  /\ Going(b, "attested") /\ UNCHANGED holder

\* A second scan must give the attestation of the plan; what was built before
\* is looked for only then.
Attest(b) ==
  /\ Doing(b, "scanned") /\ Attested /\ Rows = task[b].plan /\ ~Built(task[b].plan)
  /\ Going(b, "attested") /\ UNCHANGED holder

Reuse(b) ==
  /\ Doing(b, "scanned") /\ Attested /\ Rows = task[b].plan /\ Built(task[b].plan)
  /\ Ending(b) /\ UNCHANGED holder

Stale(b) ==
  /\ Doing(b, "scanned") /\ (~Attested \/ Rows # task[b].plan)
  /\ Ending(b) /\ UNCHANGED holder

\* The documents of the first scan are compiled; then nothing of the build may
\* be there, or it is compared and reused, or refused.
Compile(b) ==
  /\ Doing(b, "attested") /\ ~Taken(task[b].plan)
  /\ Going(b, "compiled") /\ UNCHANGED holder

Found(b) ==
  /\ Doing(b, "attested") /\ Taken(task[b].plan)
  /\ Ending(b) /\ UNCHANGED holder

\* The lock is not waited for.
TakeLock(b) ==
  /\ Doing(b, "compiled") /\ holder = None
  /\ holder' = b /\ Going(b, "staged")

LockedOut(b) ==
  /\ Doing(b, "compiled") /\ holder # None
  /\ Ending(b) /\ UNCHANGED holder

\* The staged package is verified, which verifies some of the authorities in
\* it, and nothing of the build may be there.
Sound(b) == \A d \in Verified : task[b].docs[d] = 0

Check(b) ==
  /\ Doing(b, "staged") /\ Sound(b) /\ ~Taken(task[b].plan)
  /\ Going(b, "moving") /\ UNCHANGED holder

Refuse(b) ==
  /\ Doing(b, "staged") /\ (~Sound(b) \/ Taken(task[b].plan))
  /\ Ending(b) /\ holder' = None

\* The directories are moved into place one after another, the package last.
Dir(b, i) == <<Roles[i], task[b].plan>>

Move(b) ==
  LET i == task[b].moved + 1 IN
  /\ Doing(b, "moving") /\ i \in DOMAIN Roles /\ Dir(b, i) \notin dirs
  /\ dirs' = dirs \cup {Dir(b, i)}
  /\ task' = [task EXCEPT ![b].moved = i]
  /\ UNCHANGED <<workspace, packages, holder, kills>>

\* A copy at x, unless something is there.
CopiedTo(f, x, c) == [y \in DOMAIN f \cup {x} |-> IF y \in DOMAIN f THEN f[y] ELSE c]

WithCopies(D, x, docs) ==
  [d \in Docs |-> IF d \in D THEN CopiedTo(copies[d], x, docs[d]) ELSE copies[d]]

WithoutCopies(x) ==
  [d \in Docs |-> IF d \in Packed THEN Restrict(copies[d], DOMAIN copies[d] \ {x}) ELSE copies[d]]

\* The package holds copies of some authorities. Its place is the hash of its
\* identity.
MovePackage(b, x) ==
  /\ Doing(b, "moving") /\ task[b].moved = Len(Roles)
  /\ \A k \in packages : k.at # x
  /\ packages' = packages \cup {[plan |-> task[b].plan, docs |-> task[b].docs, at |-> x]}
  /\ copies' = WithCopies(Packed, x, task[b].docs)
  /\ task' = [task EXCEPT ![b].moved = @ + 1]
  /\ UNCHANGED <<edits, undone, plans, dirs, holder, kills>>

\* Fault: what was moved stays.
FailAsIs(b) ==
  /\ Doing(b, "moving")
  /\ Ending(b) /\ holder' = None

\* A failure takes back what was moved, the last first.
Fail(b) ==
  /\ Doing(b, "moving")
  /\ Going(b, "undoing") /\ UNCHANGED holder

UndoPackage(b) ==
  \E k \in packages :
    /\ Doing(b, "undoing") /\ task[b].moved = Len(Roles) + 1 /\ k.plan = task[b].plan
    /\ packages' = packages \ {k}
    /\ copies' = WithoutCopies(k.at)
    /\ task' = [task EXCEPT ![b].moved = @ - 1]
    /\ UNCHANGED <<edits, undone, plans, dirs, holder, kills>>

Undo(b) ==
  /\ Doing(b, "undoing") /\ task[b].moved \in DOMAIN Roles
  /\ dirs' = dirs \ {Dir(b, task[b].moved)}
  /\ task' = [task EXCEPT ![b].moved = @ - 1]
  /\ UNCHANGED <<workspace, packages, holder, kills>>

Leave(b) ==
  /\ \/ Doing(b, "moving") /\ task[b].moved = Len(Roles) + 1
     \/ Doing(b, "undoing") /\ task[b].moved = 0
  /\ Ending(b) /\ holder' = None

\* A builder that is killed leaves its lock file and what it has moved.
KillBuilder(b) ==
  /\ task[b] # None /\ kills < MaxKills
  /\ kills' = kills + 1
  /\ task' = [task EXCEPT ![b] = None]
  /\ UNCHANGED <<workspace, packages, dirs, holder>>

\* The operator removes the lock file of a process that is gone.
Inside(b) == Doing(b, "staged") \/ Doing(b, "moving") \/ Doing(b, "undoing")

RemoveLock ==
  /\ holder # None /\ ~Inside(holder)
  /\ holder' = None
  /\ UNCHANGED <<workspace, packages, dirs, kills, task>>

\* Reproduction scans and attests as a build does, compiles, and compares.
Reproducible(k) ==
  /\ Attested /\ Rows = k.plan /\ Index = k.docs

(***************************************************************************)
(* The rest of the workspace.                                              *)
(***************************************************************************)

\* Another source is ingested: its run has the snapshots of the same plugins.
Ingest(x) ==
  /\ Ingested # {} /\ \A d \in Ingested : x \notin DOMAIN copies[d]
  /\ copies' = WithCopies(Ingested, x, [d \in Docs |-> 0])
  /\ UNCHANGED <<edits, undone, plans, packages, dirs, holder, kills, task>>

\* A copy is changed, or put back to what it, or another, was.
Edit(d, x, c) ==
  /\ edits < MaxEdits /\ x \in DOMAIN copies[d]
  /\ c \in 0..edits + 1 /\ c # copies[d][x]
  /\ edits' = edits + 1
  /\ copies' = [copies EXCEPT ![d][x] = c]
  /\ undone' = undone \cup {<<d, copies[d][x]>>}
  /\ UNCHANGED <<plans, packages, dirs, holder, kills, task>>

BuilderStep(b) ==
  \/ \E plan \in plans : Scan(b, plan)
  \/ Attest(b) \/ Reuse(b) \/ Stale(b) \/ Compile(b) \/ Found(b)
  \/ TakeLock(b) \/ LockedOut(b) \/ Check(b) \/ Refuse(b)
  \/ Move(b) \/ Fail(b) \/ UndoPackage(b) \/ Undo(b) \/ Leave(b)
  \/ \E x \in PackPlaces : MovePackage(b, x)
  \/ KillBuilder(b)

BNext ==
  \/ CreatePlan \/ RemoveLock
  \/ \E b \in Builders : BuilderStep(b)
  \/ \E x \in RunPlaces : Ingest(x)
  \/ \E d \in Docs : \E x \in DOMAIN copies[d], c \in 0..edits + 1 : Edit(d, x, c)

BSpec == BInit /\ [][BNext]_bvars

(***************************************************************************)
(* Properties.                                                             *)
(***************************************************************************)

\* The state has the shape the code gives it.
TypeOK ==
  /\ \A d \in Docs : Home[d] \in DOMAIN copies[d] /\ Range(copies[d]) \subseteq 0..edits
  /\ edits \in 0..MaxEdits /\ Cardinality(plans) =< MaxPlans
  /\ \A k \in packages : k.plan \in plans /\ k.at \in PackPlaces /\ DOMAIN k.docs = Docs
  /\ holder \in Builders \cup {None} /\ kills \in 0..MaxKills
  /\ \A b \in Builders : task[b] # None => task[b] \in Tasks /\ task[b].plan \in plans

\* A package is made of the contents its plan attests. What else may be in it was
\* there at the first scan of the build and was replaced before the second one, in
\* an authority that is not verified again in the package (compiler.py:459-489).
BuiltAsAttested ==
  \A k \in packages : \A d \in Docs :
    k.docs[d] # 0 => d \notin Verified /\ <<d, k.docs[d]>> \in undone

\* Builders of one plan leave one package, whichever documents each has read. A
\* package that is there has its build and its validation, whatever fails and
\* whoever is killed; and a failure leaves nothing, unless somebody was killed
\* (transaction.py:59-93).
BuildsAreWhole ==
  /\ \A k1, k2 \in packages : k1.plan = k2.plan => k1 = k2
  /\ \A k \in packages : Built(k.plan)
  /\ kills = 0 /\ holder = None => \A r \in dirs : \E k \in packages : k.plan = r[2]

\* Stated by semantic_kernel/compiler.py:459-466, and not kept: a package is made
\* of what its plan attests.
BuiltAsPlanned ==
  \A k \in packages : k.docs = [d \in Docs |-> 0]

\* While nobody edits an authority a package can be reproduced, which is what
\* tests/cli/test_compile_cli.py and SemanticCompiler.reproduce say, and which the
\* code does not keep.
StaysReproducible ==
  edits = 0 => \A k \in packages : Reproducible(k)
=============================================================================
