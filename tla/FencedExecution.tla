--------------------------- MODULE FencedExecution ---------------------------
(***************************************************************************)
(* Workers executing queued jobs and publishing their results through the  *)
(* project catalog: jobs/worker.py, services/execution.py, the job paths   *)
(* of services/facade.py, the credential store and create_project.         *)
(*                                                                         *)
(* A worker claims a job, computes in a private copy of the workspace, and *)
(* publishes by one atomic replacement of service-projects.json that holds *)
(* both the new workspace root and the commit receipt.  The replacement    *)
(* happens under three locks, always taken in this order: the credential   *)
(* metadata lock, the SQLite writer lock of the job store, the project     *)
(* metadata lock.  Everything before them is optimistic and is checked     *)
(* again under them.                                                       *)
(*                                                                         *)
(* A workspace tree is abstracted to the set of jobs applied in it, plus   *)
(* the out-of-band edits made to it; its digest is the tree itself.  A tool*)
(* outside the service makes and undoes edits in place, and takes session  *)
(* and business state away or copies it back.                              *)
(***************************************************************************)
EXTENDS JobStore

CONSTANTS
    Procs,         \* worker processes
    WorkerId,      \* the --worker-id of each process; the default is shared
    Projects,
    ProjectOf,     \* the project of each job
    Principals,
    PrincipalOf,   \* the principal whose token each job carries
    ModuleJobs,    \* jobs that write modeling-session or business state
    Edits,         \* edits made in place by a tool outside the service
    Operator,      \* the client process that asks for job recovery
    Creator,       \* the client process that creates projects
    PromptClaim    \* TRUE: claim re-reads its row before the lease runs out

ASSUME FencedAssumption ==
    /\ WorkerId \in [Procs -> Workers]
    /\ ProjectOf \in [Jobs -> Projects]
    /\ PrincipalOf \in [Jobs -> Principals]
    /\ ModuleJobs \subseteq Jobs
    /\ Jobs \cap Edits = {}
    /\ None \notin Procs
    /\ Operator \notin Procs \cup {None}
    /\ Creator \notin Procs \cup {None}
    /\ Operator # Creator
    /\ PromptClaim \in BOOLEAN

VARIABLES
    wk,         \* each worker process: program counter and local variables
    catalog,    \* service-projects.json: project handles and commit receipts
    trees,      \* the workspace directories on disk, with their content
    cred,       \* each principal's credential
    lock,       \* holder of each of the three locks
    op,         \* the recovery operator's request
    creator     \* the project creator's request

evars == <<wk, catalog, trees, cred, lock, op, creator>>
vars == <<jobs, cancelled, idem, wk, catalog, trees, cred, lock, op, creator>>

NoProject == [root |-> None, rev |-> 0]
NoReceipt == [root |-> None, rev |-> 0, output |-> {}]
EmptyCatalog == [projects |-> [p \in Projects |-> NoProject],
                 commits  |-> [j \in Jobs |-> NoReceipt]]

\* Names of workspace directories: the one create_project makes, and the
\* staging directory of one attempt of one process (mkdtemp).
FirstRoot(p) == <<p, None, 0, None>>
Generation(w) == <<ProjectOf[wk[w].job], wk[w].job, wk[w].attempt, w>>

\* granted is the local variable token of claim; owner, token and attempt are
\* the fields of the job handle that claim returns.
Idle == [pc |-> "idle", job |-> None, granted |-> 0,
         owner |-> None, token |-> 0, attempt |-> 0,
         root |-> None, rev |-> 0, input |-> {}, cat |-> EmptyCatalog]

NoOp == [pc |-> "idle", job |-> None, attempt |-> 0]
NoCreation == [pc |-> "idle", project |-> None, cat |-> EmptyCatalog]
Unlocked == [credential |-> None, store |-> None, project |-> None]

Init ==
    /\ JInit
    /\ wk = [w \in Procs |-> Idle]
    /\ catalog = EmptyCatalog
    /\ trees = <<>>
    /\ cred = [c \in Principals |-> "valid"]
    /\ lock = Unlocked
    /\ op = NoOp
    /\ creator = NoCreation

-----------------------------------------------------------------------------
(* Helpers.                                                                *)

At(w, pc) == wk[w].pc = pc

Goto(w, pc) == wk' = [wk EXCEPT ![w].pc = pc]

\* The store's transactions wait for the SQLite writer lock, which commit_lease
\* keeps for the whole publication.
StoreFree == lock.store = None

ReleasedBy(x) == [l \in DOMAIN lock |-> IF lock[l] = x THEN None ELSE lock[l]]

Receipt(j) == catalog.commits[j]

Committed(j) == Receipt(j) # NoReceipt

Handle(p) == catalog.projects[p]

\* committed_result verifies bytes: the generation still has the receipt's
\* digest, and the project has not gone back to an earlier revision.
Intact(j) ==
    /\ Receipt(j).root \in DOMAIN trees
    /\ trees[Receipt(j).root] = Receipt(j).output
    /\ Handle(ProjectOf[j]).rev >= Receipt(j).rev

Resolves(j) == cred[PrincipalOf[j]] = "valid"

Trees == SUBSET (Jobs \cup Edits)

CommittedIn(p) == {j \in Jobs : ProjectOf[j] = p /\ Committed(j)}

WithTree(g, content) ==
    [h \in DOMAIN trees \cup {g} |-> IF h = g THEN content ELSE trees[h]]

WithoutTree(g) == [h \in DOMAIN trees \ {g} |-> trees[h]]

-----------------------------------------------------------------------------
(* Clients of the store.                                                   *)

Submit(j, s) ==
    /\ StoreFree
    /\ Handle(ProjectOf[j]) # NoProject
    /\ Resolves(j)
    /\ CreateNew(j, s)
    /\ UNCHANGED evars

CancelJob(j) ==
    /\ StoreFree
    /\ Cancel(j)
    /\ UNCHANGED evars

\* Fault: only a job still RUNNING is corrected from its receipt.
ReadRunningJob(j) ==
    /\ StoreFree
    /\ jobs[j].status = "RUNNING"
    /\ Committed(j) /\ Intact(j)
    /\ RecoverCommitted(j)
    /\ UNCHANGED evars

\* _public_job, and the recovery request on a job with a receipt: the read finds
\* a verified receipt under a status that does not say so, and corrects it.
ReadJob(j) ==
    /\ StoreFree
    /\ Exists(j) /\ jobs[j].status # "SUCCEEDED"
    /\ Committed(j) /\ Intact(j)
    /\ RecoverCommitted(j)
    /\ UNCHANGED evars

Revoke(c) ==
    /\ lock.credential = None
    /\ cred[c] # "revoked"
    /\ cred' = [cred EXCEPT ![c] = "revoked"]
    /\ UNCHANGED <<jvars, wk, catalog, trees, lock, op, creator>>

\* An expiry takes no lock.
Expire(c) ==
    /\ cred[c] = "valid"
    /\ cred' = [cred EXCEPT ![c] = "expired"]
    /\ UNCHANGED <<jvars, wk, catalog, trees, lock, op, creator>>

\* What is there is taken away, and what is not is put there.
Toggled(t, e) == IF e \in t THEN t \ {e} ELSE t \cup {e}

\* A tool outside the service writes in the current root of a project: an edit is
\* made or undone, what a module wrote is removed or copied back.
EditInPlace(e, p) ==
    /\ Handle(p) # NoProject
    /\ e \in Edits \cup CommittedIn(p)
    /\ trees' = WithTree(Handle(p).root, Toggled(trees[Handle(p).root], e))
    /\ UNCHANGED <<jvars, wk, catalog, cred, lock, op, creator>>

\* Time passes for every lease.  PromptClaim is the assumption that a process is
\* not suspended for a whole lease between claim's commit and its re-read.
TimePasses ==
    /\ \E j \in Jobs : Aged(jobs[j]) # jobs[j]
    /\ PromptClaim =>
         \A w \in Procs : At(w, "claimed") /\ jobs[wk[w].job].owner # None
                            => jobs[wk[w].job].lease > 1
    /\ Tick
    /\ UNCHANGED evars

-----------------------------------------------------------------------------
(* create_project: load, initialise the workspace, save, under the lock.   *)

CreateLoad(p) ==
    /\ creator = NoCreation
    /\ lock.project = None
    /\ Handle(p) = NoProject
    /\ creator' = [pc |-> "save", project |-> p, cat |-> catalog]
    /\ lock' = [lock EXCEPT !.project = Creator]
    /\ UNCHANGED <<jvars, wk, catalog, trees, cred, op>>

CreateSave ==
    /\ creator.pc = "save"
    /\ trees' = WithTree(FirstRoot(creator.project), {})
    /\ catalog' = [creator.cat EXCEPT
                     !.projects[creator.project] =
                        [root |-> FirstRoot(creator.project), rev |-> 0]]
    /\ creator' = NoCreation
    /\ lock' = ReleasedBy(Creator)
    /\ UNCHANGED <<jvars, wk, cred, op>>

-----------------------------------------------------------------------------
(* request_job_recovery, mode RETRY_LOCAL.                                 *)

\* The receipt is looked for, and found missing, before any lock is taken.
RecoveryCheck(j) ==
    /\ op = NoOp
    /\ Exists(j) /\ ~Committed(j)
    /\ Resolves(j)
    /\ op' = [pc |-> "checked", job |-> j, attempt |-> jobs[j].attempt]
    /\ UNCHANGED <<jvars, wk, catalog, trees, cred, lock, creator>>

RecoveryLock ==
    /\ op.pc = "checked"
    /\ lock.credential = None
    /\ IF Resolves(op.job)
       THEN /\ op' = [op EXCEPT !.pc = "locked"]
            /\ lock' = [lock EXCEPT !.credential = Operator]
       ELSE op' = NoOp /\ UNCHANGED lock
    /\ UNCHANGED <<jvars, wk, catalog, trees, cred, creator>>

RecoveryRequeue ==
    /\ op.pc = "locked"
    /\ StoreFree
    /\ \/ RequeueLocal(op.job, op.attempt)
       \/ ~(CanRequeue(op.job, op.attempt) /\ jobs[op.job].attempt <= MaxRetries)
          /\ UNCHANGED jvars
    /\ op' = NoOp
    /\ lock' = ReleasedBy(Operator)
    /\ UNCHANGED <<wk, catalog, trees, cred, creator>>

-----------------------------------------------------------------------------
(* The worker: run_once, execute_job, execute_fenced.                      *)

ClaimNext(w, j) ==
    /\ At(w, "idle")
    /\ StoreFree
    /\ Claim(WorkerId[w], j)
    /\ wk' = [wk EXCEPT ![w] = [Idle EXCEPT !.pc = "claimed", !.job = j,
                                          !.granted = jobs[j].token + 1]]
    /\ UNCHANGED <<catalog, trees, cred, lock, op, creator>>

Poll(w) ==
    /\ At(w, "idle")
    /\ StoreFree
    /\ Sweep
    /\ UNCHANGED evars

\* claim commits, and only then reads the row that becomes the worker's handle.
Reread(w) ==
    LET row == jobs[wk[w].job] IN
    /\ At(w, "claimed")
    /\ wk' = [wk EXCEPT ![w].pc = "begin", ![w].owner = row.owner,
                        ![w].token = row.token, ![w].attempt = row.attempt]
    /\ UNCHANGED <<jvars, catalog, trees, cred, lock, op, creator>>

\* Fault: the lease check trusts the worker name, which processes share.
HasNamedLease(w) ==
    /\ jobs[wk[w].job].status = "RUNNING"
    /\ jobs[wk[w].job].owner = wk[w].owner
    /\ Live(wk[w].job)

HasLease(w) == LeaseOK(wk[w].job, wk[w].owner, wk[w].token)

\* execute_job: resolve the credential, require the lease.
Begin(w) ==
    /\ At(w, "begin")
    /\ Goto(w, IF Resolves(wk[w].job) /\ HasLease(w) THEN "replay" ELSE "except")
    /\ UNCHANGED <<jvars, catalog, trees, cred, lock, op, creator>>

\* Fault: a retried job is computed again although its result is published.
ReplayNothing(w) ==
    /\ At(w, "replay")
    /\ Goto(w, "snapshot")
    /\ UNCHANGED <<jvars, catalog, trees, cred, lock, op, creator>>

\* A job that is committed already returns its receipt's result.
Replay(w) ==
    /\ At(w, "replay")
    /\ Goto(w, CASE ~Committed(wk[w].job) -> "snapshot"
                 [] Committed(wk[w].job) /\ Intact(wk[w].job) -> "complete"
                 [] OTHER -> "except")
    /\ UNCHANGED <<jvars, catalog, trees, cred, lock, op, creator>>

\* Fault: session and business state are trusted as found.
VouchedBlindly(p) == TRUE

\* verify_module_generation: session and business state are only trusted in a
\* generation that a receipt vouches for, byte for byte.
Vouched(p) ==
    trees[Handle(p).root] \cap ModuleJobs # {} =>
        \E j \in Jobs : /\ ProjectOf[j] = p
                        /\ Receipt(j).root = Handle(p).root
                        /\ Receipt(j).rev = Handle(p).rev
                        /\ Receipt(j).output = trees[Handle(p).root]

\* get_project and the input digest.
Snapshot(w) ==
    LET p == ProjectOf[wk[w].job] IN
    /\ At(w, "snapshot")
    /\ IF Vouched(p)
       THEN wk' = [wk EXCEPT ![w].pc = "compute", ![w].root = Handle(p).root,
                             ![w].rev = Handle(p).rev,
                             ![w].input = trees[Handle(p).root]]
       ELSE Goto(w, "except")
    /\ UNCHANGED <<jvars, catalog, trees, cred, lock, op, creator>>

\* Copy, compare with the input digest, run the operation in the copy.
Compute(w) ==
    /\ At(w, "compute")
    /\ trees[wk[w].root] = wk[w].input
    /\ trees' = WithTree(Generation(w), wk[w].input \cup {wk[w].job})
    /\ Goto(w, "commit")
    /\ UNCHANGED <<jvars, catalog, cred, lock, op, creator>>

\* The copy differs from the input digest, the operation raises, or a workspace
\* validation fails; the staging directory is gone again.
ComputeFails(w) ==
    /\ At(w, "compute")
    /\ Goto(w, "except")
    /\ UNCHANGED <<jvars, catalog, trees, cred, lock, op, creator>>

LockCredential(w) ==
    /\ At(w, "commit")
    /\ lock.credential = None
    /\ lock' = [lock EXCEPT !.credential = w]
    /\ Goto(w, "credential")
    /\ UNCHANGED <<jvars, catalog, trees, cred, op, creator>>

\* Fault: the lease is checked in a transaction that ends before the publication.
CommitLeaseUnheld(w) ==
    /\ At(w, "credential")
    /\ StoreFree
    /\ IF HasLease(w)
       THEN UNCHANGED lock /\ Goto(w, "lease")
       ELSE lock' = ReleasedBy(w) /\ Goto(w, "cleanup")
    /\ UNCHANGED <<jvars, catalog, trees, cred, op, creator>>

\* commit_lease: take the writer lock, then check the lease.
CommitLease(w) ==
    /\ At(w, "credential")
    /\ StoreFree
    /\ IF HasLease(w)
       THEN lock' = [lock EXCEPT !.store = w] /\ Goto(w, "lease")
       ELSE lock' = ReleasedBy(w) /\ Goto(w, "cleanup")
    /\ UNCHANGED <<jvars, catalog, trees, cred, op, creator>>

\* Fault: no compare-and-set on the project's root, revision and digest.
PublishableBlind(w) == Resolves(wk[w].job) /\ HasLease(w)

\* Under all three locks: the credential, the compare-and-set on root, revision
\* and input digest, the catalog to extend, and the lease once more.
Publishable(w) ==
    LET h == Handle(ProjectOf[wk[w].job]) IN
    /\ Resolves(wk[w].job)
    /\ h.root = wk[w].root
    /\ h.rev = wk[w].rev
    /\ trees[h.root] = wk[w].input
    /\ HasLease(w)

VerifyAuthority(w) ==
    /\ At(w, "lease")
    /\ lock.project = None
    /\ IF Publishable(w)
       THEN /\ lock' = [lock EXCEPT !.project = w]
            /\ wk' = [wk EXCEPT ![w].pc = "save", ![w].cat = catalog]
       ELSE lock' = ReleasedBy(w) /\ Goto(w, "cleanup")
    /\ UNCHANGED <<jvars, catalog, trees, cred, op, creator>>

NewReceipt(w) == [root |-> Generation(w), rev |-> wk[w].rev + 1,
                  output |-> trees[Generation(w)]]

NewCatalog(w) ==
    [wk[w].cat EXCEPT
       !.projects[ProjectOf[wk[w].job]] = [root |-> Generation(w), rev |-> wk[w].rev + 1],
       !.commits[wk[w].job] = NewReceipt(w)]

\* save_catalog.  It may raise after the replacement took effect, in which case
\* the worker does not know that it published.
SaveCatalog(w) ==
    /\ At(w, "save")
    /\ catalog' = NewCatalog(w)
    /\ lock' = ReleasedBy(w)
    /\ \E pc \in {"complete", "cleanup"} :
         wk' = [wk EXCEPT ![w].pc = pc, ![w].cat = EmptyCatalog]
    /\ UNCHANGED <<jvars, trees, cred, op, creator>>

SaveFails(w) ==
    /\ At(w, "save")
    /\ lock' = ReleasedBy(w)
    /\ wk' = [wk EXCEPT ![w].pc = "cleanup", ![w].cat = EmptyCatalog]
    /\ UNCHANGED <<jvars, catalog, trees, cred, op, creator>>

\* SQLite gives up waiting for a lock somebody else holds.
LockTimeout(w) ==
    /\ \/ At(w, "commit") /\ lock.credential # None
       \/ At(w, "credential") /\ lock.store # None
       \/ At(w, "lease") /\ lock.project # None
    /\ lock' = ReleasedBy(w)
    /\ Goto(w, "cleanup")
    /\ UNCHANGED <<jvars, catalog, trees, cred, op, creator>>

\* finally: a generation the catalog refers to is never removed.
Cleanup(w) ==
    /\ At(w, "cleanup")
    /\ trees' = IF Receipt(wk[w].job).root = Generation(w) THEN trees
                ELSE WithoutTree(Generation(w))
    /\ Goto(w, "except")
    /\ UNCHANGED <<jvars, catalog, cred, lock, op, creator>>

Heartbeat(w) ==
    /\ wk[w].pc \notin {"idle", "claimed"}
    /\ StoreFree
    /\ Renew(wk[w].job, WorkerId[w], wk[w].token)
    /\ UNCHANGED evars

Stop(w) == wk' = [wk EXCEPT ![w] = Idle]

Complete(w) ==
    /\ At(w, "complete")
    /\ \/ /\ StoreFree
          /\ Finish(wk[w].job, WorkerId[w], wk[w].token, "SUCCEEDED")
          /\ Stop(w)
       \/ /\ ~StoreFree \/ ~CanFinish(wk[w].job, WorkerId[w], wk[w].token)
          /\ UNCHANGED jvars
          /\ Goto(w, "except")
    /\ UNCHANGED <<catalog, trees, cred, lock, op, creator>>

\* Fault: every exception is reported as a failure, receipt or not.
ExceptFails(w) ==
    /\ At(w, "except")
    /\ Goto(w, "fail")
    /\ UNCHANGED <<jvars, catalog, trees, cred, lock, op, creator>>

\* Any exception: look for a receipt before reporting a failure.  A receipt that
\* does not verify raises out of run_once, and the worker process ends.
Except(w) ==
    /\ At(w, "except")
    /\ CASE ~Committed(wk[w].job) -> Goto(w, "fail")
         [] Committed(wk[w].job) /\ Intact(wk[w].job) -> Goto(w, "recover")
         [] OTHER -> Stop(w)
    /\ UNCHANGED <<jvars, catalog, trees, cred, lock, op, creator>>

Recover(w) ==
    /\ At(w, "recover")
    /\ StoreFree
    /\ RecoverCommitted(wk[w].job)
    /\ Stop(w)
    /\ UNCHANGED <<catalog, trees, cred, lock, op, creator>>

Fail(w) ==
    /\ At(w, "fail")
    /\ StoreFree
    /\ \/ Finish(wk[w].job, WorkerId[w], wk[w].token, "FAILED")
       \/ ~CanFinish(wk[w].job, WorkerId[w], wk[w].token) /\ UNCHANGED jvars
    /\ Stop(w)
    /\ UNCHANGED <<catalog, trees, cred, lock, op, creator>>

\* The process dies: SQLite drops its locks, its directories stay on disk.
Crash(w) ==
    /\ ~At(w, "idle")
    /\ lock' = ReleasedBy(w)
    /\ Stop(w)
    /\ UNCHANGED <<jvars, catalog, trees, cred, op, creator>>

-----------------------------------------------------------------------------

ClientNext ==
    \/ \E j \in Jobs, s \in Scopes \cup {None} : Submit(j, s)
    \/ \E j \in Jobs : CancelJob(j)
    \/ \E j \in Jobs : ReadJob(j)
    \/ \E c \in Principals : Revoke(c)
    \/ \E c \in Principals : Expire(c)
    \/ \E e \in ModuleJobs \cup Edits, p \in Projects : EditInPlace(e, p)
    \/ \E p \in Projects : CreateLoad(p)
    \/ CreateSave
    \/ \E j \in Jobs : RecoveryCheck(j)
    \/ RecoveryLock
    \/ RecoveryRequeue

\* The steps a worker takes by itself between claim and the end of run_once.
WorkerStep(w) ==
    \/ Reread(w) \/ Begin(w) \/ Replay(w) \/ Snapshot(w)
    \/ Compute(w) \/ ComputeFails(w)
    \/ LockCredential(w) \/ CommitLease(w) \/ VerifyAuthority(w)
    \/ SaveCatalog(w) \/ SaveFails(w) \/ Cleanup(w)
    \/ Complete(w) \/ Except(w) \/ Recover(w) \/ Fail(w)

WorkerNext(w) ==
    \/ \E j \in Jobs : ClaimNext(w, j)
    \/ Poll(w)
    \/ WorkerStep(w)
    \/ LockTimeout(w)
    \/ Heartbeat(w)
    \/ Crash(w)

Next ==
    \/ ClientNext
    \/ \E w \in Procs : WorkerNext(w)
    \/ TimePasses

Spec == Init /\ [][Next]_vars

\* Every worker process gets to run (a dead one is started again), an operation
\* returns or raises, a wait for a lock ends (with the lock or with the timeout),
\* time passes, and clients finish what they began.  Nothing is assumed of
\* submissions, cancellations, revocations, crashes or the operator's decision to
\* retry.
Fairness ==
    /\ \A w \in Procs : /\ WF_vars(WorkerStep(w) \/ LockTimeout(w))
                        /\ WF_vars(Poll(w) \/ \E j \in Jobs : ClaimNext(w, j))
    /\ WF_vars(TimePasses)
    /\ WF_vars(CreateSave)
    /\ WF_vars(RecoveryLock \/ RecoveryRequeue)

FairSpec == Spec /\ Fairness

\* A client keeps polling its job, as the workbench does.
PolledSpec == FairSpec /\ \A j \in Jobs : WF_vars(ReadJob(j))

-----------------------------------------------------------------------------
(* Properties.                                                             *)

Gens == (Projects \X (Jobs \cup {None}) \X Nat \X (Procs \cup {None}))

Catalogs ==
    [projects : [Projects -> [root : Gens \cup {None}, rev : Nat]],
     commits  : [Jobs -> [root : Gens \cup {None}, rev : Nat, output : Trees]]]

WorkerPCs == {"idle", "claimed", "begin", "replay", "snapshot", "compute", "commit",
              "credential", "lease", "save", "cleanup", "complete", "except",
              "recover", "fail"}

WorkerState ==
    [pc : WorkerPCs, job : Jobs \cup {None}, granted : Nat,
     owner : Workers \cup {None}, token : Nat, attempt : Nat,
     root : Gens \cup {None}, rev : Nat, input : Trees, cat : Catalogs]

\* The shape of every variable.
TypeOK ==
    /\ JTypeOK
    /\ wk \in [Procs -> WorkerState]
    /\ catalog \in Catalogs
    /\ DOMAIN trees \subseteq Gens
    /\ \A g \in DOMAIN trees : trees[g] \in Trees
    /\ cred \in [Principals -> {"valid", "revoked", "expired"}]
    /\ lock \in [{"credential", "store", "project"} -> Procs \cup {None, Operator, Creator}]
    /\ op \in [pc : {"idle", "checked", "locked"}, job : Jobs \cup {None}, attempt : Nat]
    /\ creator \in [pc : {"idle", "save"}, project : Projects \cup {None}, cat : Catalogs]

\* The published workspace of a project contains exactly the jobs that have a
\* receipt, each applied once, but for the session and business state that a tool
\* outside the service has taken away: however attempts, crashes and retries
\* interleave, no result is lost, none is applied twice, none is published without
\* receipt.
AuthorityMatchesReceipts ==
    \A p \in Projects : Handle(p) # NoProject =>
        /\ Handle(p).root \in DOMAIN trees
        /\ trees[Handle(p).root] \cap Jobs \subseteq CommittedIn(p)
        /\ CommittedIn(p) \ trees[Handle(p).root] \subseteq ModuleJobs
        /\ Handle(p).rev = Cardinality(CommittedIn(p))

\* No cleanup, of any attempt and at any time, removes a generation that the
\* catalog or a receipt refers to.
GenerationsKept ==
    /\ \A p \in Projects : Handle(p) # NoProject => Handle(p).root \in DOMAIN trees
    /\ \A j \in Jobs : Committed(j) => Receipt(j).root \in DOMAIN trees

\* A job that is reported as succeeded has published its result.
SuccessIsCommitted ==
    \A j \in Jobs : jobs[j].status = "SUCCEEDED" => Committed(j)

\* A job that is reported as failed has not published, so submitting the work
\* again does not apply it twice.
FailureIsUncommitted ==
    \A j \in Jobs : jobs[j].status = "FAILED" => ~Committed(j)

\* The published workspaces hold exactly what has a receipt, and a job that is
\* reported as failed has none, so that submitting the work again applies it
\* once (services/execution.py).
ReceiptsAreTrue == AuthorityMatchesReceipts /\ FailureIsUncommitted

\* The three locks are always requested in the order credential, store, project:
\* whoever holds a later one among the workers holds the earlier ones too.
LockOrder ==
    \A w \in Procs : /\ lock.project = w => lock.store = w
                     /\ lock.store = w => lock.credential = w

\* Session and business state cannot be laundered: of two receipts that cover the
\* same such state, the later covers no edit made behind the service's back that
\* the earlier did not, also when the state was taken away and copied back in
\* between (services/execution.py:82-97).
NoLaundering ==
    \A j, k \in Jobs :
        (/\ Committed(j) /\ Committed(k) /\ ProjectOf[j] = ProjectOf[k]
         /\ Receipt(k).rev < Receipt(j).rev
         /\ Receipt(k).output \cap Receipt(j).output \cap ModuleJobs # {})
        => Receipt(j).output \cap Edits = Receipt(k).output \cap Edits

\* What happens between claim and publication cannot be lost: a publication finds
\* its job still RUNNING, never cancelled, its credential not revoked, whoever
\* cancelled, revoked or swept while the worker was computing.
PublishOnlyAuthorised ==
    [][\A j \in Jobs : catalog'.commits[j] # catalog.commits[j] =>
         /\ jobs[j].status = "RUNNING"
         /\ j \notin cancelled
         /\ cred[PrincipalOf[j]] # "revoked"]_vars

\* Compare-and-set: the revision of a project moves by one, together with its
\* root and one new receipt for it, and every other project and receipt stays.
PublishAtomic ==
    [][\A p \in Projects :
         Handle(p) # NoProject /\ catalog'.projects[p] # Handle(p) =>
           \E j \in Jobs :
             /\ ProjectOf[j] = p
             /\ ~Committed(j)
             /\ catalog'.projects[p].rev = Handle(p).rev + 1
             /\ catalog' = [projects |-> [catalog.projects EXCEPT
                                             ![p] = catalog'.projects[p]],
                            commits |-> [catalog.commits EXCEPT
                                             ![j] = catalog'.commits[j]]]
             /\ catalog'.commits[j].root = catalog'.projects[p].root]_vars

\* Only the process whose own claim granted the job's current fencing token
\* publishes: a worker that was replaced stays fenced off.
OldWorkerFenced ==
    [][\A w \in Procs : At(w, "save") /\ catalog' # catalog /\ wk'[w] # wk[w] =>
         wk[w].granted = jobs[wk[w].job].token]_vars

\* A job does not stay in execution: it ends, or its worker is found dead and it
\* is marked for recovery.  In particular a cancellation request is answered.
ExecutionEnds ==
    \A j \in Jobs : jobs[j].status \in Running ~> jobs[j].status \notin Running

\* No lock is held for ever: neither by two processes that wait for each other,
\* nor by one that lost its lease, its credential or its life while holding it.
LocksAreReleased ==
    \A l \in DOMAIN Unlocked : lock[l] # None ~> lock[l] = None

\* A published result is reported in the end, even if every reply was lost.
CommitIsReported ==
    \A j \in Jobs : Committed(j) ~> jobs[j].status = "SUCCEEDED"
=============================================================================
