-------------------------- MODULE WorkspaceCommit --------------------------
(***************************************************************************)
(* How an ingestion run (ingestion/executor.py, transaction.py) and a      *)
(* semantic build (semantic_kernel/compiler.py, transaction.py) are put    *)
(* into a workspace: several directories, moved one by one from a staging  *)
(* directory under a lock file that a death leaves behind.  Command lines  *)
(* of several processes may share a workspace.  The content of a run or    *)
(* build is a function of its plan, so the work stands for the content.    *)
(***************************************************************************)
EXTENDS Naturals, Sequences, FiniteSets

CONSTANTS
  Procs,      \* processes, each carrying out one plan
  Runs,       \* ingestion runs
  Builds,     \* semantic builds
  VersionOf,  \* [Builds -> name and version of the package it makes]
  MaxFaults,  \* bound: deaths, and writes that fail
  NoOne

ASSUME CommitAssumption ==
  Runs \cap Builds = {} /\ MaxFaults \in Nat /\ NoOne \notin Procs

Works == Runs \cup Builds

Kind(w) == IF w \in Runs THEN "ingestion" ELSE "compilation"

Roles(w) == IF w \in Runs THEN <<"build", "evidence", "ir", "validation">>
            ELSE <<"build", "validation", "package">>

Kinds == {"ingestion", "compilation"}

Positions == {"idle", "lock", "begin", "check", "move", "moved", "undo",
          "reused", "refused", "failed", "succeeded", "dead"}

\* The first n directories of a work, in the order they are moved.
FirstOf(w, n) == {Roles(w)[i] : i \in 1..n}

VARIABLES
  dirs,     \* the directories each work has in place
  lock,     \* the process named in each lock file, or NoOne
  staging,  \* processes whose staging directory exists
  formal,   \* what each process saw of the packages when its run began
  moved,    \* how many directories each process has moved
  pc,       \* where each process is
  work,     \* what it works on
  faults    \* deaths and failures so far

cvars == <<dirs, lock, staging, formal, moved, pc, work, faults>>

CInit ==
  /\ dirs = [w \in Works |-> {}] /\ lock = [k \in Kinds |-> NoOne]
  /\ staging = {} /\ faults = 0
  /\ formal = [p \in Procs |-> {}] /\ moved = [p \in Procs |-> 0]
  /\ pc = [p \in Procs |-> "idle"] /\ work \in [Procs -> Works]

Whole(w) == dirs[w] = FirstOf(w, Len(Roles(w)))

Partial(w) == dirs[w] # {} /\ ~Whole(w)

Packages == {w \in Builds : "package" \in dirs[w]}

LockOf(p) == Kind(work[p])

AtStep(p, here) == pc[p] = here

Goto(p, there) == pc' = [pc EXCEPT ![p] = there]

\* What is found before anything is done; a reader does not take the lock. A
\* build is looked for by its two directories first, then the package is verified.
Found(p) ==
  CASE dirs[work[p]] = {} -> "lock"
    [] Whole(work[p])     -> "reused"
    [] OTHER              -> "refused"

LookFirst(p) ==
  /\ AtStep(p, "idle") /\ Goto(p, Found(p))
  /\ UNCHANGED <<dirs, lock, staging, formal, moved, work, faults>>

\* The lock file is created, or the operation is refused: nobody waits.
Lock(p) ==
  /\ AtStep(p, "lock")
  /\ IF lock[LockOf(p)] # NoOne
       THEN Goto(p, "refused") /\ UNCHANGED lock
       ELSE Goto(p, "begin") /\ lock' = [lock EXCEPT ![LockOf(p)] = p]
  /\ UNCHANGED <<dirs, staging, formal, moved, work, faults>>

Release(p, there) ==
  /\ Goto(p, there)
  /\ staging' = staging \ {p}
  /\ lock' = [lock EXCEPT ![LockOf(p)] = IF @ = p THEN NoOne ELSE @]

\* Under the lock an ingestion looks again and takes the digests of the
\* packages; a build only makes its staging directory.
BeginWork(p) ==
  /\ AtStep(p, "begin")
  /\ IF work[p] \in Runs /\ dirs[work[p]] # {}
       THEN Release(p, IF Whole(work[p]) THEN "reused" ELSE "refused") /\ UNCHANGED formal
       ELSE /\ Goto(p, "check") /\ staging' = staging \cup {p} /\ UNCHANGED lock
            /\ formal' = [formal EXCEPT ![p] = Packages]
  /\ UNCHANGED <<dirs, moved, work, faults>>

\* Parsing, the quality gate, the compilation or a validation fails.
GiveUp(p) ==
  /\ pc[p] \in {"begin", "check"} /\ Release(p, "failed")
  /\ UNCHANGED <<dirs, formal, moved, work, faults>>

\* Another package in the workspace has this name and version.
Clash(w) == w \in Builds /\ \E v \in Packages \ {w} : VersionOf[v] = VersionOf[w]

\* Nothing is in place, no version clashes, and the packages are what they were.
ClearToMove(p) ==
  /\ dirs[work[p]] = {} /\ ~Clash(work[p])
  /\ work[p] \in Runs => formal[p] = Packages

Check(p) ==
  /\ AtStep(p, "check")
  /\ IF ClearToMove(p) THEN Goto(p, "move") /\ UNCHANGED <<staging, lock>> ELSE Release(p, "refused")
  /\ UNCHANGED <<dirs, formal, moved, work, faults>>

Next1(p) == Roles(work[p])[moved[p] + 1]

\* One directory is moved; the next one, or all are there.
Move(p) ==
  /\ AtStep(p, "move") /\ Next1(p) \notin dirs[work[p]]
  /\ dirs' = [dirs EXCEPT ![work[p]] = @ \cup {Next1(p)}]
  /\ moved' = [moved EXCEPT ![p] = @ + 1]
  /\ Goto(p, IF moved'[p] = Len(Roles(work[p])) THEN "moved" ELSE "move")
  /\ UNCHANGED <<lock, staging, formal, work, faults>>

\* The destination appeared, the move fails, or its parent cannot be written
\* out, which may still happen when all are moved.
MoveFails(p) ==
  /\ pc[p] \in {"move", "moved"} /\ Goto(p, "undo")
  /\ IF AtStep(p, "move") /\ Next1(p) \in dirs[work[p]] THEN UNCHANGED faults
     ELSE faults < MaxFaults /\ faults' = faults + 1
  /\ UNCHANGED <<dirs, lock, staging, formal, moved, work>>

\* The empty staging directory cannot be removed: a build undoes everything, an
\* ingestion, which does this outside its try, fails with the run in place.
TidyFails(p) ==
  /\ AtStep(p, "moved") /\ work[p] \in Runs /\ faults < MaxFaults
  /\ faults' = faults + 1 /\ Release(p, "failed")
  /\ UNCHANGED <<dirs, formal, moved, work>>

\* Fault: only the directory that failed is taken back.
UndoLast(p) ==
  /\ AtStep(p, "undo") /\ Release(p, "failed")
  /\ dirs' = [dirs EXCEPT ![work[p]] = IF moved[p] = 0 THEN @ ELSE @ \ {Roles(work[p])[moved[p]]}]
  /\ UNCHANGED <<formal, moved, work, faults>>

\* What was moved is removed again, in reverse.
Undo(p) ==
  /\ AtStep(p, "undo")
  /\ IF moved[p] = 0
       THEN Release(p, "failed") /\ UNCHANGED <<dirs, moved>>
       ELSE /\ dirs' = [dirs EXCEPT ![work[p]] = @ \ {Roles(work[p])[moved[p]]}]
            /\ moved' = [moved EXCEPT ![p] = @ - 1]
            /\ UNCHANGED <<pc, staging, lock>>
  /\ UNCHANGED <<formal, work, faults>>

Finish(p) ==
  /\ AtStep(p, "moved") /\ Release(p, "succeeded")
  /\ UNCHANGED <<dirs, formal, moved, work, faults>>

Working(p) == pc[p] \in {"begin", "check", "move", "moved", "undo"}

\* The process dies: lock file and staging directory stay.
WorkerDies(p) ==
  /\ Working(p) /\ faults < MaxFaults /\ Goto(p, "dead")
  /\ faults' = faults + 1
  /\ UNCHANGED <<dirs, lock, staging, formal, moved, work>>

\* "inspect and remove only after proving the owner is inactive"
Unlock(k) ==
  /\ lock[k] # NoOne /\ pc[lock[k]] = "dead"
  /\ lock' = [lock EXCEPT ![k] = NoOne]
  /\ UNCHANGED <<dirs, staging, formal, moved, pc, work, faults>>

CNext ==
  \/ \E p \in Procs : \/ LookFirst(p) \/ Lock(p) \/ BeginWork(p) \/ GiveUp(p) \/ Check(p) \/ Move(p)
                      \/ MoveFails(p) \/ TidyFails(p) \/ Undo(p) \/ Finish(p) \/ WorkerDies(p)
  \/ \E k \in Kinds : Unlock(k)

CSpec == CInit /\ [][CNext]_cvars

-----------------------------------------------------------------------------
(* Properties.                                                             *)

AtWork(w) == {p \in Procs : work[p] = w /\ pc[p] \in {"move", "moved", "undo"}}

\* Type correctness; the lock file names the process inside, or one that died.
CTypeOK ==
  /\ DOMAIN dirs = Works /\ \A w \in Works : dirs[w] \subseteq FirstOf(w, Len(Roles(w)))
  /\ pc \in [Procs -> Positions] /\ work \in [Procs -> Works] /\ faults \in 0..MaxFaults
  /\ lock \in [Kinds -> Procs \cup {NoOne}] /\ staging \subseteq Procs
  /\ \A p \in Procs : Working(p) => lock[LockOf(p)] = p
  /\ \A k \in Kinds : lock[k] # NoOne =>
       LockOf(lock[k]) = k /\ (Working(lock[k]) \/ pc[lock[k]] = "dead")
  /\ DOMAIN moved = Procs /\ \A p \in Procs : moved[p] \in 0..Len(Roles(work[p]))
  /\ \A p \in staging : Working(p) \/ pc[p] = "dead"

\* "Failures remove staging and leave no partial formal run"
\* (docs/ingestion/ingestion-plan-and-run-v1.md:13), and no partial build: once
\* nobody is moving its directories, a work is there as a whole or not at all,
\* unless the one who moved them died.
FailuresLeaveNothing ==
  \A w \in Works :
    AtWork(w) = {} /\ Partial(w) => \E p \in Procs : work[p] = w /\ pc[p] = "dead"

\* "partial-directory states fail closed" (same document, line 16): what a dead
\* process has put in place, in pieces or as a whole, stays as it is; nobody
\* completes it or clears it away.
PartialFailsClosed ==
  [][\A p \in Procs : pc[p] = "dead" /\ moved[p] > 0 => dirs'[work[p]] = dirs[work[p]]]_cvars

\* What one process was told it has made is there for ever, whatever the
\* others, who looked before it was there, do or fail to do.
MadeIsThere ==
  \A p \in Procs : pc[p] = "succeeded" => Whole(work[p])

\* "same package name/version has different content" is refused
\* (semantic_kernel/transaction.py:76), also between builds that run at once:
\* no two packages share name and version.
OnePackagePerVersion ==
  \A v, w \in Packages : VersionOf[v] = VersionOf[w] => v = w

\* A failed commit leaves nothing, a finished one stays, a dead process's
\* pieces are never completed, and no two packages share a version
\* (ingestion/transaction.py, semantic_kernel/transaction.py).
CommitsAreWhole ==
  /\ [](CTypeOK /\ FailuresLeaveNothing /\ MadeIsThere /\ OnePackagePerVersion)
  /\ PartialFailsClosed
=============================================================================
