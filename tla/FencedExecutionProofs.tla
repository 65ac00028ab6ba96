----------------------- MODULE FencedExecutionProofs -----------------------
(***************************************************************************)
(* Proofs about FencedExecution for every set of jobs, projects, worker    *)
(* processes and principals, whatever worker names they share.  The        *)
(* theorems that assume PromptClaim are about processes that are never     *)
(* suspended inside claim for a whole lease; the others are about all.     *)
(***************************************************************************)
EXTENDS FencedRefinement, JobStoreProofs

\* The program counters between Compute and the end of the publication, when the
\* staging directory exists, and those under each lock.
Staged == {"commit", "credential", "lease", "save"}
UnderCredential == {"credential", "lease", "save"}
UnderStore == {"lease", "save"}

\* The locks are held exactly by those whose program counter says so.
LocksMatch ==
    /\ \A w \in Procs :
         /\ lock.credential = w <=> wk[w].pc \in UnderCredential
         /\ lock.store = w <=> wk[w].pc \in UnderStore
         /\ lock.project = w <=> wk[w].pc = "save"
    /\ lock.credential = Operator <=> op.pc = "locked"
    /\ lock.project = Creator <=> creator.pc = "save"
    /\ lock.store \notin {Operator, Creator}

\* A request in progress is about a job or project that exists.
RequestsKnown ==
    /\ \A w \in Procs : wk[w].pc # "idle" => wk[w].job \in Jobs /\ Exists(wk[w].job)
    /\ op.pc # "idle" => op.job \in Jobs /\ Exists(op.job)
    /\ creator.pc = "save" => creator.project \in Projects

\* What was checked under the locks stays true until they are released.
StillTrue ==
    /\ \A w \in Procs : wk[w].pc \in UnderStore => jobs[wk[w].job].status = "RUNNING"
    /\ \A w \in Procs : wk[w].pc = "save" =>
         /\ wk[w].cat = catalog
         /\ cred[PrincipalOf[wk[w].job]] # "revoked"
    /\ creator.pc = "save" =>
         creator.cat = catalog /\ catalog.projects[creator.project] = NoProject

\* Every root the catalog names is on disk, and only its own job's attempts may
\* have staged it.
RootsNamed ==
    /\ \A p \in Projects : Handle(p) # NoProject =>
         /\ Handle(p).root \in DOMAIN trees
         /\ \/ Handle(p).root = FirstRoot(p)
            \/ \E j \in Jobs : /\ ProjectOf[j] = p /\ Committed(j)
                             /\ Receipt(j).root = Handle(p).root
    /\ \A j \in Jobs : Committed(j) =>
         Receipt(j).root \in DOMAIN trees /\ Receipt(j).root[2] = j
    /\ \A j \in Jobs : Exists(j) => Handle(ProjectOf[j]) # NoProject
    /\ \A w \in Procs : wk[w].pc \in Staged => Generation(w) \in DOMAIN trees

\* The inductive invariant.
IInv ==
    /\ TypeOK
    /\ JInv
    /\ \A j \in Jobs : Counted(jobs[j])
    /\ LocksMatch
    /\ RequestsKnown
    /\ StillTrue
    /\ RootsNamed

-----------------------------------------------------------------------------
(* Lemmas about the operators the actions are built from.                  *)

USE DEF Running, Terminal, Statuses

LockNames == {"credential", "store", "project"}

LEMMA Release ==
    ASSUME lock \in [LockNames -> Procs \cup {None, Operator, Creator}], NEW x
    PROVE  /\ ReleasedBy(x) \in [LockNames -> Procs \cup {None, Operator, Creator}]
           /\ \A l \in LockNames : ReleasedBy(x)[l] = IF lock[l] = x THEN None ELSE lock[l]
BY DEF ReleasedBy

LEMMA Moved ==
    ASSUME wk \in [Procs -> WorkerState], NEW w \in Procs, NEW pc \in WorkerPCs
    PROVE  LET r == [wk[w] EXCEPT !.pc = pc] IN
           /\ r \in WorkerState
           /\ r.pc = pc /\ r.job = wk[w].job /\ r.attempt = wk[w].attempt
           /\ r.cat = wk[w].cat
           /\ [wk EXCEPT ![w].pc = pc] = [wk EXCEPT ![w] = r]
BY DEF WorkerState

\* Calls of the store by those who hold a handle on an existing job.
StoreWrite ==
    \/ \E w \in Workers, j \in Jobs : Claim(w, j)
    \/ Sweep
    \/ \E j \in Jobs, w \in Workers : \E t : Renew(j, w, t)
    \/ \E j \in Jobs, w \in Workers : \E t : \E s \in {"SUCCEEDED", "FAILED"} : Finish(j, w, t, s)
    \/ \E j \in Jobs : RecoverCommitted(j)
    \/ \E j \in Jobs : \E a : RequeueLocal(j, a)
    \/ \E j \in Jobs : Cancel(j)
    \/ UNCHANGED jvars

StoreCall == StoreWrite \/ Tick

LEMMA StoreCallIsStep ==
    ASSUME JInv, \A j \in Jobs : Counted(jobs[j]), StoreCall
    PROVE  [JNext]_jvars
<1>1. ASSUME NEW j \in Jobs PROVE jobs[j].token \in Nat /\ jobs[j].attempt \in Nat
  BY DEF JInv, JTypeOK, Row
<1>2. ASSUME NEW j \in Jobs, jobs[j].status \in Running PROVE jobs[j].token \in Tokens
  BY <1>1, <1>2, JobStoreAssumption DEF Counted, Tokens
<1>3. ASSUME NEW j \in Jobs, NEW w \in Workers, NEW t, Renew(j, w, t)
      PROVE  JNext
  <2>1. t \in Tokens
    BY <1>2, <1>3 DEF Renew, LeaseOK, Holds
  <2> QED
    BY <1>3, <2>1 DEF JNext
<1>4. ASSUME NEW j \in Jobs, NEW w \in Workers, NEW t, NEW s \in {"SUCCEEDED", "FAILED"},
             Finish(j, w, t, s)
      PROVE  JNext
  <2>1. t \in Tokens
    BY <1>2, <1>4 DEF Finish, CanFinish, Holds
  <2> QED
    BY <1>4, <2>1 DEF JNext
<1>5. ASSUME NEW j \in Jobs, NEW a, RequeueLocal(j, a)
      PROVE  JNext
  <2>1. a \in 0..(MaxRetries + 1)
    BY <1>1, <1>5, JobStoreAssumption DEF RequeueLocal, CanRequeue
  <2> QED
    BY <1>5, <2>1 DEF JNext
<1> QED
  BY <1>3, <1>4, <1>5 DEF StoreCall, StoreWrite, JNext

\* A call of the store creates no job; nor does it remove one.
LEMMA StoreCallKeeps ==
    ASSUME JInv, \A j \in Jobs : Counted(jobs[j]), StoreCall
    PROVE  /\ JInv'
           /\ \A j \in Jobs : Counted(jobs[j])'
           /\ \A j \in Jobs : Exists(j)' <=> Exists(j)
<1>1. [JNext]_jvars
  BY StoreCallIsStep
<1>2. JInv'
  BY <1>1, JNextInv
<1>3. \A j \in Jobs : Moves(jobs[j], jobs'[j])
  BY <1>1, StepMoves
<1>4. \A j \in Jobs : Counted(jobs[j])'
  BY <1>3 DEF Moves, Counted
<1>5. ASSUME NEW k \in Jobs, jobs[k].status = "ABSENT"
      PROVE  jobs'[k].status = "ABSENT"
  <2>1. jobs \in [Jobs -> Row] /\ jobs[k] \in Row
    BY DEF JInv, JTypeOK
  <2>2. Swept[k] = jobs[k]
    BY <1>5 DEF Swept, Expired
  <2>3. ASSUME NEW j \in Jobs, j # k, NEW r, jobs' = [jobs EXCEPT ![j] = r]
        PROVE  jobs'[k].status = "ABSENT"
    BY <1>5, <2>1, <2>3
  <2>4. ASSUME NEW w \in Workers, NEW j \in Jobs, Claim(w, j)
        PROVE  jobs'[k].status = "ABSENT"
    BY <1>5, <2>2, <2>4 DEF Claim, Queued, Swept
  <2>5. CASE Sweep
    BY <1>5, <2>2, <2>5 DEF Sweep
  <2>6. ASSUME NEW j \in Jobs, NEW w, NEW t, Renew(j, w, t)
        PROVE  jobs'[k].status = "ABSENT"
    BY <1>5, <2>1, <2>6 DEF Renew, LeaseOK
  <2>7. ASSUME NEW j \in Jobs, NEW w, NEW t, NEW s, Finish(j, w, t, s)
        PROVE  jobs'[k].status = "ABSENT"
    BY <1>5, <2>1, <2>7 DEF Finish, CanFinish
  <2>8. ASSUME NEW j \in Jobs, RecoverCommitted(j)
        PROVE  jobs'[k].status = "ABSENT"
    BY <1>5, <2>1, <2>8 DEF RecoverCommitted, Exists
  <2>9. ASSUME NEW j \in Jobs, NEW a, RequeueLocal(j, a)
        PROVE  jobs'[k].status = "ABSENT"
    BY <1>5, <2>1, <2>9 DEF RequeueLocal, CanRequeue
  <2>10. ASSUME NEW j \in Jobs, Cancel(j)
         PROVE  jobs'[k].status = "ABSENT"
    BY <1>5, <2>1, <2>10 DEF Cancel
  <2>11. CASE Tick
    BY <1>5, <2>1, <2>11, RowAged DEF Tick
  <2>12. CASE UNCHANGED jvars
    BY <1>5, <2>12 DEF jvars
  <2> QED
    BY <2>4, <2>5, <2>6, <2>7, <2>8, <2>9, <2>10, <2>11, <2>12 DEF StoreCall, StoreWrite
<1> QED
  BY <1>2, <1>3, <1>4, <1>5 DEF Moves, Exists

-----------------------------------------------------------------------------
(* Steps of one kind.                                                      *)

\* The expressions the invariant is written in change only with the variables
\* they read.
LEMMA SameCatalog ==
    ASSUME UNCHANGED catalog
    PROVE  /\ \A p : Handle(p)' = Handle(p)
           /\ \A j : Receipt(j)' = Receipt(j)
           /\ \A j : Committed(j)' = Committed(j)
BY DEF Handle, Receipt, Committed

\* Calls of the store that touch nothing else; while somebody holds the writer
\* lock, only time passes.
LEMMA StoreStep ==
    ASSUME IInv, StoreCall, UNCHANGED evars,
           StoreFree \/ \A j \in Jobs : jobs'[j].status = jobs[j].status
    PROVE  IInv'
<1>1. /\ JInv'
      /\ \A j \in Jobs : Counted(jobs[j])'
      /\ \A j \in Jobs : Exists(j)' <=> Exists(j)
  BY StoreCallKeeps DEF IInv
<1>2. TypeOK'
  BY <1>1 DEF IInv, TypeOK, JInv, evars
<1>3. LocksMatch'
  BY DEF IInv, LocksMatch, evars
<1>4. RequestsKnown'
  BY <1>1 DEF IInv, RequestsKnown, evars
<1>5. StillTrue'
  <2>1. ASSUME NEW w \in Procs, wk[w].pc \in UnderStore
        PROVE  jobs'[wk[w].job].status = "RUNNING"
    <3>1. ~StoreFree
      BY <2>1, FencedAssumption DEF IInv, LocksMatch, StoreFree
    <3>2. wk[w].job \in Jobs /\ jobs[wk[w].job].status = "RUNNING"
      BY <2>1 DEF IInv, RequestsKnown, StillTrue, UnderStore
    <3> QED
      BY <3>1, <3>2
  <2> QED
    BY <2>1 DEF IInv, StillTrue, evars
<1>6. RootsNamed'
  BY <1>1, SameCatalog DEF IInv, RootsNamed, evars, Generation
<1> QED
  BY <1>1, <1>2, <1>3, <1>4, <1>5, <1>6 DEF IInv

\* A step of one worker that takes no lock and leaves it outside the publication:
\* either it holds no lock, or it drops those it holds.
LEMMA WorkerLeaves ==
    ASSUME IInv, NEW w \in Procs, NEW r \in WorkerState,
           r.pc \notin Staged,
           r.pc # "idle" => r.job \in Jobs /\ Exists(r.job),
           wk' = [wk EXCEPT ![w] = r],
           lock' = ReleasedBy(w),
           StoreCall,
           StoreFree \/ UNCHANGED jobs,
           UNCHANGED <<catalog, trees, cred, op, creator>>
    PROVE  IInv'
<1>1. /\ JInv'
      /\ \A j \in Jobs : Counted(jobs[j])'
      /\ \A j \in Jobs : Exists(j)' <=> Exists(j)
  BY StoreCallKeeps DEF IInv
<1>2. /\ wk \in [Procs -> WorkerState]
      /\ lock \in [LockNames -> Procs \cup {None, Operator, Creator}]
      /\ wk'[w] = r
      /\ \A x \in Procs \ {w} : wk'[x] = wk[x]
  BY DEF IInv, TypeOK, LockNames
<1>3. /\ lock' \in [LockNames -> Procs \cup {None, Operator, Creator}]
      /\ \A l \in LockNames : lock'[l] = IF lock[l] = w THEN None ELSE lock[l]
  BY <1>2, Release
<1>4. TypeOK'
  BY <1>1, <1>2, <1>3 DEF IInv, TypeOK, JInv, LockNames
<1>5. LocksMatch'
  BY <1>2, <1>3, FencedAssumption
     DEF IInv, LocksMatch, LockNames, UnderCredential, UnderStore, Staged
<1>6. RequestsKnown'
  BY <1>1, <1>2 DEF IInv, RequestsKnown
<1>7. StillTrue'
  <2>1. ASSUME NEW x \in Procs, wk'[x].pc \in UnderStore
        PROVE  jobs'[wk'[x].job].status = "RUNNING"
    <3>1. x # w /\ wk'[x] = wk[x]
      BY <1>2, <2>1 DEF Staged, UnderStore
    <3>2. ~StoreFree
      BY <2>1, <3>1, FencedAssumption DEF IInv, LocksMatch, StoreFree
    <3> QED
      BY <2>1, <3>1, <3>2 DEF IInv, StillTrue
  <2>2. ASSUME NEW x \in Procs, wk'[x].pc = "save"
        PROVE  wk'[x].cat = catalog' /\ cred'[PrincipalOf[wk'[x].job]] # "revoked"
    BY <1>2, <2>2 DEF IInv, StillTrue, Staged
  <2> QED
    BY <2>1, <2>2 DEF IInv, StillTrue
<1>8. RootsNamed'
  <2>1. ASSUME NEW x \in Procs, wk'[x].pc \in Staged
        PROVE  Generation(x)' \in DOMAIN trees'
    BY <1>2, <2>1 DEF IInv, RootsNamed, Generation
  <2> QED
    BY <1>1, <2>1, SameCatalog DEF IInv, RootsNamed
<1> QED
  BY <1>1, <1>4, <1>5, <1>6, <1>7, <1>8 DEF IInv
LEMMA EmptyHands ==
    /\ EmptyCatalog \in Catalogs
    /\ Idle \in WorkerState
    /\ Idle.pc = "idle"
<1>1. NoProject \in [root : Gens \cup {None}, rev : Nat]
  BY DEF NoProject
<1>2. NoReceipt \in [root : Gens \cup {None}, rev : Nat, output : Trees]
  BY DEF NoReceipt, Trees
<1>3. EmptyCatalog \in Catalogs
  BY <1>1, <1>2 DEF EmptyCatalog, Catalogs
<1> HIDE DEF EmptyCatalog
<1> QED
  BY <1>3 DEF Idle, WorkerState, WorkerPCs, Trees

LEMMA NothingHeld ==
    ASSUME IInv, NEW w \in Procs, wk[w].pc \notin UnderCredential
    PROVE  ReleasedBy(w) = lock
BY DEF IInv, TypeOK, LocksMatch, ReleasedBy, UnderCredential, UnderStore

LEMMA GotoLeaves ==
    ASSUME IInv, NEW w \in Procs, NEW pc \in WorkerPCs \ (Staged \cup {"idle"}),
           wk[w].pc # "idle",
           Goto(w, pc),
           lock' = ReleasedBy(w),
           StoreCall,
           StoreFree \/ UNCHANGED jobs,
           UNCHANGED <<catalog, trees, cred, op, creator>>
    PROVE  IInv'
<1> DEFINE r == [wk[w] EXCEPT !.pc = pc]
<1>1. /\ r \in WorkerState /\ r.pc = pc /\ r.job = wk[w].job
      /\ wk' = [wk EXCEPT ![w] = r]
  BY Moved DEF Goto, IInv, TypeOK
<1>2. r.job \in Jobs /\ Exists(r.job)
  BY <1>1 DEF IInv, RequestsKnown
<1> HIDE DEF r
<1> QED
  BY <1>1, <1>2, WorkerLeaves

LEMMA StopLeaves ==
    ASSUME IInv, NEW w \in Procs,
           Stop(w),
           lock' = ReleasedBy(w),
           StoreCall,
           StoreFree \/ UNCHANGED jobs,
           UNCHANGED <<catalog, trees, cred, op, creator>>
    PROVE  IInv'
BY WorkerLeaves, EmptyHands DEF Stop, Staged

-----------------------------------------------------------------------------
(* Clients and the clock.                                                  *)

LEMMA SubmitInv ==
    ASSUME IInv, NEW j \in Jobs, NEW s \in Scopes \cup {None}, Submit(j, s)
    PROVE  IInv'
<1>1. /\ StoreFree /\ Handle(ProjectOf[j]) # NoProject
      /\ CreateNew(j, s) /\ UNCHANGED evars
  BY DEF Submit
<1>2. JInv' /\ [JNext]_jvars
  BY <1>1, CreateNewInv DEF IInv, JNext
<1>3. \A k \in Jobs : Moves(jobs[k], jobs'[k])
  BY <1>2, StepMoves DEF IInv
<1>4. \A k \in Jobs : Counted(jobs[k])' /\ (Exists(k) => Exists(k)')
  BY <1>3 DEF Moves, Exists, IInv, Counted
<1>5. ASSUME NEW k \in Jobs, Exists(k)' PROVE Exists(k) \/ k = j
  <2>1. PICK r : jobs' = [jobs EXCEPT ![j] = r]
    BY <1>1 DEF CreateNew
  <2> QED
    BY <1>5, <2>1 DEF Exists, IInv, JInv, JTypeOK
<1>6. TypeOK'
  BY <1>1, <1>2 DEF IInv, TypeOK, JInv, evars
<1>7. LocksMatch'
  BY <1>1 DEF IInv, LocksMatch, evars
<1>8. RequestsKnown'
  BY <1>1, <1>4 DEF IInv, RequestsKnown, evars
<1>9. StillTrue'
  BY <1>1, FencedAssumption DEF IInv, StillTrue, LocksMatch, StoreFree, evars
<1>10. RootsNamed'
  BY <1>1, <1>5, SameCatalog DEF IInv, RootsNamed, evars, Generation
<1> QED
  BY <1>2, <1>4, <1>6, <1>7, <1>8, <1>9, <1>10 DEF IInv

LEMMA CancelReadInv ==
    ASSUME IInv, NEW j \in Jobs, CancelJob(j) \/ ReadJob(j)
    PROVE  IInv'
BY StoreStep DEF CancelJob, ReadJob, StoreCall, StoreWrite

LEMMA TimePassesInv ==
    ASSUME IInv, TimePasses
    PROVE  IInv'
<1>1. Tick /\ UNCHANGED evars
  BY DEF TimePasses
<1>2. \A j \in Jobs : jobs'[j].status = jobs[j].status
  BY <1>1, RowAged DEF Tick, IInv, JInv, JTypeOK
<1> QED
  BY <1>1, <1>2, StoreStep DEF StoreCall, StoreWrite

\* Revocation takes the credential lock, which every publication holds.
LEMMA RevokeExpireInv ==
    ASSUME IInv, NEW c \in Principals, Revoke(c) \/ Expire(c)
    PROVE  IInv'
<1>1. /\ UNCHANGED <<jobs, cancelled, idem, wk, catalog, trees, lock, op, creator>>
      /\ cred' \in [Principals -> {"valid", "revoked", "expired"}]
      /\ \A d \in Principals : cred'[d] = "revoked" /\ cred[d] # "revoked" =>
                                 lock.credential = None
  BY DEF Revoke, Expire, jvars, IInv, TypeOK
<1>2. TypeOK' /\ JInv' /\ \A j \in Jobs : Counted(jobs[j])'
  BY <1>1 DEF IInv, TypeOK, JInv, JTypeOK, OwnerIffRunning, CancelIsFinal,
     IdempotencyAgrees, AbsentIsBlank, Exists, Counted
<1>3. LocksMatch' /\ RequestsKnown'
  BY <1>1 DEF IInv, LocksMatch, RequestsKnown, Exists
<1>4. StillTrue'
  <2>1. ASSUME NEW w \in Procs, wk[w].pc = "save"
        PROVE  cred'[PrincipalOf[wk[w].job]] # "revoked"
    <3>1. lock.credential = w /\ wk[w].job \in Jobs /\ cred[PrincipalOf[wk[w].job]] # "revoked"
      BY <2>1 DEF IInv, LocksMatch, RequestsKnown, StillTrue, UnderCredential
    <3> QED
      BY <1>1, <3>1, FencedAssumption
  <2> QED
    BY <1>1, <2>1 DEF IInv, StillTrue
<1>5. RootsNamed'
  BY <1>1, SameCatalog DEF IInv, RootsNamed, Generation, Exists
<1> QED
  BY <1>2, <1>3, <1>4, <1>5 DEF IInv
-----------------------------------------------------------------------------
(* Steps of a worker outside the publication.                              *)

LEMMA IdleStepsInv ==
    ASSUME IInv, NEW w \in Procs,
           Poll(w) \/ Heartbeat(w) \/ Crash(w) \/ \E j \in Jobs : ClaimNext(w, j)
    PROVE  IInv'
<1>1. WorkerId[w] \in Workers
  BY FencedAssumption
<1>2. CASE Poll(w)
  BY <1>2, StoreStep DEF Poll, StoreCall, StoreWrite
<1>3. CASE Heartbeat(w)
  <2>1. wk[w].job \in Jobs
    BY <1>3 DEF Heartbeat, IInv, RequestsKnown
  <2> QED
    BY <1>1, <1>3, <2>1, StoreStep DEF Heartbeat, StoreCall, StoreWrite
<1>4. CASE Crash(w)
  BY <1>4, StopLeaves DEF Crash, StoreCall, StoreWrite, jvars
<1>5. ASSUME NEW j \in Jobs, ClaimNext(w, j)
      PROVE  IInv'
  <2> DEFINE t == jobs[j].token + 1
             r == [Idle EXCEPT !.pc = "claimed", !.job = j, !.granted = t]
  <2>1. /\ At(w, "idle") /\ StoreFree /\ Claim(WorkerId[w], j)
        /\ wk' = [wk EXCEPT ![w] = r]
        /\ UNCHANGED <<catalog, trees, cred, lock, op, creator>>
    BY <1>5 DEF ClaimNext
  <2>2. t \in Nat
    BY DEF IInv, JInv, JTypeOK, Row
  <2> HIDE DEF t
  <2>3. r \in WorkerState
    BY <2>2, EmptyHands, Zenon DEF WorkerState, WorkerPCs
  <2>4. r.pc = "claimed" /\ r.job = j
    BY EmptyHands DEF WorkerState
  <2> HIDE DEF r
  <2>5. Exists(j) /\ StoreCall
    BY <1>1, <2>1 DEF Claim, Queued, Exists, StoreCall, StoreWrite
  <2>6. ReleasedBy(w) = lock
    BY <2>1, NothingHeld DEF At, UnderCredential
  <2> QED
    BY <2>1, <2>3, <2>4, <2>5, <2>6, WorkerLeaves DEF Staged
<1> QED
  BY <1>2, <1>3, <1>4, <1>5

LEMMA BeforeCommitInv ==
    ASSUME IInv, NEW w \in Procs,
           Reread(w) \/ Begin(w) \/ Replay(w) \/ Snapshot(w) \/ ComputeFails(w)
    PROVE  IInv'
<1>1. /\ wk[w] \in WorkerState /\ wk[w].pc # "idle" /\ wk[w].pc \notin UnderCredential
      /\ wk[w].job \in Jobs /\ Exists(wk[w].job)
      /\ UNCHANGED jvars /\ UNCHANGED <<catalog, trees, cred, lock, op, creator>>
  BY DEF Reread, Begin, Replay, Snapshot, ComputeFails, At, UnderCredential,
     IInv, TypeOK, RequestsKnown
<1>2. ReleasedBy(w) = lock /\ StoreCall /\ UNCHANGED jobs
  BY <1>1, NothingHeld DEF StoreCall, StoreWrite, jvars
<1>3. CASE Reread(w)
  <2> DEFINE o == jobs[wk[w].job].owner
             t == jobs[wk[w].job].token
             a == jobs[wk[w].job].attempt
             s == wk[w]
             r == [s EXCEPT !.pc = "begin", !.owner = o, !.token = t, !.attempt = a]
  <2>1. wk' = [wk EXCEPT ![w] = r]
    BY <1>3 DEF Reread, IInv, TypeOK
  <2>2. o \in Workers \cup {None} /\ t \in Nat /\ a \in Nat /\ s \in WorkerState
        /\ s.job = wk[w].job
    BY <1>1 DEF IInv, JInv, JTypeOK, Row
  <2> HIDE DEF o, t, a, s
  <2>3. r \in WorkerState
    BY <2>2, Zenon DEF WorkerState, WorkerPCs
  <2>4. r.pc = "begin" /\ r.job = wk[w].job
    BY <2>2 DEF WorkerState
  <2> HIDE DEF r
  <2> QED
    BY <1>1, <1>2, <2>1, <2>3, <2>4, WorkerLeaves DEF Staged
<1>4. ASSUME NEW pc \in {"replay", "snapshot", "complete", "except"}, Goto(w, pc)
      PROVE  IInv'
  BY <1>1, <1>2, <1>4, GotoLeaves DEF WorkerPCs, Staged
<1>5. CASE Begin(w)
  BY <1>4, <1>5 DEF Begin
<1>6. CASE Replay(w)
  BY <1>4, <1>6 DEF Replay
<1>7. CASE Snapshot(w)
  <2> DEFINE p == ProjectOf[wk[w].job]
             root == Handle(p).root
             rev == Handle(p).rev
             input == trees[root]
             s == wk[w]
             r == [s EXCEPT !.pc = "compute", !.root = root, !.rev = rev, !.input = input]
  <2>1. CASE ~Vouched(p)
    BY <1>4, <1>7, <2>1 DEF Snapshot
  <2>2. CASE Vouched(p)
    <3>1. wk' = [wk EXCEPT ![w] = r]
      BY <1>7, <2>2 DEF Snapshot, IInv, TypeOK
    <3>2. p \in Projects /\ Handle(p) # NoProject
      BY <1>1, FencedAssumption DEF IInv, RootsNamed
    <3>3. Handle(p) \in [root : Gens \cup {None}, rev : Nat]
      BY <3>2 DEF IInv, TypeOK, Catalogs, Handle
    <3>4. root \in Gens \cup {None} /\ rev \in Nat /\ input \in Trees /\ s \in WorkerState
          /\ s.job = wk[w].job
      BY <1>1, <3>2, <3>3 DEF IInv, RootsNamed, TypeOK
    <3> HIDE DEF s, root, rev, input
    <3>5. r \in WorkerState
      BY <3>4, Zenon DEF WorkerState, WorkerPCs
    <3>6. r.pc = "compute" /\ r.job = wk[w].job
      BY <3>4 DEF WorkerState
    <3> HIDE DEF r
    <3> QED
      BY <1>1, <1>2, <3>1, <3>5, <3>6, WorkerLeaves DEF Staged
  <2> QED
    BY <2>1, <2>2
<1>8. CASE ComputeFails(w)
  BY <1>4, <1>8 DEF ComputeFails
<1> QED
  BY <1>3, <1>5, <1>6, <1>7, <1>8

LEMMA AfterCommitInv ==
    ASSUME IInv, NEW w \in Procs,
           Complete(w) \/ Except(w) \/ Recover(w) \/ Fail(w)
    PROVE  IInv'
<1>1. /\ wk[w].pc # "idle" /\ wk[w].pc \notin UnderCredential
      /\ wk[w].job \in Jobs /\ WorkerId[w] \in Workers
      /\ UNCHANGED <<catalog, trees, cred, lock, op, creator>>
  BY FencedAssumption DEF Complete, Except, Recover, Fail, At, UnderCredential, IInv, RequestsKnown
<1>2. ReleasedBy(w) = lock
  BY <1>1, NothingHeld
<1>3. ASSUME NEW pc \in {"fail", "recover", "except"}, Goto(w, pc), UNCHANGED jvars
      PROVE  IInv'
  BY <1>1, <1>2, <1>3, GotoLeaves DEF WorkerPCs, Staged, StoreCall, StoreWrite, jvars
<1>4. ASSUME Stop(w), StoreCall, StoreFree \/ UNCHANGED jobs
      PROVE  IInv'
  BY <1>1, <1>2, <1>4, StopLeaves
<1>5. CASE Complete(w)
  BY <1>1, <1>3, <1>4, <1>5 DEF Complete, StoreCall, StoreWrite
<1>6. CASE Except(w)
  BY <1>3, <1>4, <1>6 DEF Except, StoreCall, StoreWrite, jvars
<1>7. CASE Recover(w)
  BY <1>1, <1>4, <1>7 DEF Recover, StoreCall, StoreWrite
<1>8. CASE Fail(w)
  BY <1>1, <1>4, <1>8 DEF Fail, StoreCall, StoreWrite
<1> QED
  BY <1>5, <1>6, <1>7, <1>8
-----------------------------------------------------------------------------
(* The publication.                                                        *)

\* A step of one worker that writes neither the store, nor the catalog, nor the
\* trees keeps the invariant if the locks agree with its program counter and what
\* the publication relies on holds of it.
LEMMA WorkerInside ==
    ASSUME IInv, NEW w \in Procs, NEW r \in WorkerState,
           wk[w].pc \in Staged, r.pc \in Staged,
           r.job = wk[w].job, r.attempt = wk[w].attempt,
           wk' = [wk EXCEPT ![w] = r],
           lock' \in [LockNames -> Procs \cup {None, Operator, Creator}],
           LocksMatch',
           r.pc \in UnderStore => jobs[r.job].status = "RUNNING",
           r.pc = "save" => r.cat = catalog /\ cred[PrincipalOf[r.job]] # "revoked",
           UNCHANGED <<jvars, catalog, trees, cred, op, creator>>
    PROVE  IInv'
<1>1. /\ wk \in [Procs -> WorkerState] /\ wk'[w] = r
      /\ \A x \in Procs \ {w} : wk'[x] = wk[x]
      /\ UNCHANGED <<jobs, cancelled, idem>>
  BY DEF IInv, TypeOK, jvars
<1>2. TypeOK' /\ JInv' /\ \A j \in Jobs : Counted(jobs[j])'
  BY <1>1 DEF IInv, TypeOK, JInv, JTypeOK, OwnerIffRunning, CancelIsFinal,
     IdempotencyAgrees, AbsentIsBlank, Exists, Counted, LockNames
<1>3. RequestsKnown'
  BY <1>1 DEF IInv, RequestsKnown, Exists, Staged
<1>4. StillTrue'
  BY <1>1 DEF IInv, StillTrue
<1>5. RootsNamed'
  <2>1. ASSUME NEW x \in Procs, wk'[x].pc \in Staged
        PROVE  Generation(x)' \in DOMAIN trees'
    BY <1>1, <2>1 DEF IInv, RootsNamed, Generation
  <2> QED
    BY <1>1, <2>1, SameCatalog DEF IInv, RootsNamed, Exists
<1> QED
  BY <1>2, <1>3, <1>4, <1>5 DEF IInv

LEMMA LockCredentialInv ==
    ASSUME IInv, NEW w \in Procs, LockCredential(w)
    PROVE  IInv'
<1> DEFINE r == [wk[w] EXCEPT !.pc = "credential"]
<1>1. /\ wk[w].pc = "commit" /\ lock.credential = None
      /\ lock' = [lock EXCEPT !.credential = w]
      /\ UNCHANGED <<jvars, catalog, trees, cred, op, creator>>
  BY DEF LockCredential, At
<1>2. /\ r \in WorkerState /\ r.pc = "credential" /\ r.job = wk[w].job
      /\ r.attempt = wk[w].attempt /\ wk' = [wk EXCEPT ![w] = r]
  BY Moved DEF LockCredential, Goto, WorkerPCs, IInv, TypeOK
<1>3. lock' \in [LockNames -> Procs \cup {None, Operator, Creator}]
  BY <1>1 DEF LockNames, IInv, TypeOK
<1> HIDE DEF r
<1>4. LocksMatch'
  BY <1>1, <1>2, FencedAssumption
     DEF IInv, TypeOK, LocksMatch, UnderCredential, UnderStore
<1> QED
  BY <1>1, <1>2, <1>3, <1>4, WorkerInside DEF Staged, UnderStore

LEMMA CommitLeaseInv ==
    ASSUME IInv, NEW w \in Procs, CommitLease(w)
    PROVE  IInv'
<1> DEFINE r == [wk[w] EXCEPT !.pc = "lease"]
<1>1. /\ wk[w].pc = "credential" /\ StoreFree
      /\ UNCHANGED <<jvars, catalog, trees, cred, op, creator>>
  BY DEF CommitLease, At
<1>2. CASE HasLease(w)
  <2>1. /\ r \in WorkerState /\ r.pc = "lease" /\ r.job = wk[w].job
        /\ r.attempt = wk[w].attempt /\ wk' = [wk EXCEPT ![w] = r]
    BY <1>2, Moved DEF CommitLease, Goto, WorkerPCs, IInv, TypeOK
  <2>2. lock' = [lock EXCEPT !.store = w]
    BY <1>2 DEF CommitLease
  <2>3. lock' \in [LockNames -> Procs \cup {None, Operator, Creator}]
    BY <2>2 DEF LockNames, IInv, TypeOK
  <2> HIDE DEF r
  <2>4. LocksMatch'
    BY <1>1, <2>1, <2>2, FencedAssumption
       DEF IInv, TypeOK, LocksMatch, UnderCredential, UnderStore, StoreFree
  <2>5. jobs[r.job].status = "RUNNING"
    BY <1>2, <2>1 DEF HasLease, LeaseOK
  <2> QED
    BY <1>1, <2>1, <2>3, <2>4, <2>5, WorkerInside DEF Staged
<1>3. CASE ~HasLease(w)
  <2>1. lock' = ReleasedBy(w) /\ Goto(w, "cleanup")
    BY <1>3 DEF CommitLease
  <2> QED
    BY <1>1, <2>1, GotoLeaves DEF WorkerPCs, Staged, StoreCall, StoreWrite, jvars
<1> QED
  BY <1>2, <1>3

LEMMA VerifyAuthorityInv ==
    ASSUME IInv, NEW w \in Procs, VerifyAuthority(w)
    PROVE  IInv'
<1> DEFINE s == wk[w]
           r == [s EXCEPT !.pc = "save", !.cat = catalog]
<1>1. /\ wk[w].pc = "lease" /\ lock.project = None /\ s \in WorkerState
      /\ wk \in [Procs -> WorkerState] /\ catalog \in Catalogs /\ s = wk[w]
      /\ UNCHANGED <<jvars, catalog, trees, cred, op, creator>>
  BY DEF VerifyAuthority, At, IInv, TypeOK
<1>2. CASE Publishable(w)
  <2>1. lock' = [lock EXCEPT !.project = w] /\ wk' = [wk EXCEPT ![w] = r]
    BY <1>1, <1>2 DEF VerifyAuthority
  <2> HIDE DEF s
  <2>2. r \in WorkerState
    BY <1>1, Zenon DEF WorkerState, WorkerPCs
  <2>3. r.pc = "save" /\ r.cat = catalog /\ r.job = s.job /\ r.attempt = s.attempt
    BY <1>1 DEF WorkerState
  <2>4. lock' \in [LockNames -> Procs \cup {None, Operator, Creator}]
    BY <2>1 DEF LockNames, IInv, TypeOK
  <2> HIDE DEF r
  <2>5. LocksMatch'
    BY <1>1, <2>1, <2>3, FencedAssumption
       DEF IInv, TypeOK, LocksMatch, UnderCredential, UnderStore
  <2>6. jobs[r.job].status = "RUNNING" /\ cred[PrincipalOf[r.job]] # "revoked"
    BY <1>1, <1>2, <2>3 DEF Publishable, HasLease, LeaseOK, Resolves
  <2> QED
    BY <1>1, <2>1, <2>2, <2>3, <2>4, <2>5, <2>6, WorkerInside DEF Staged
<1>3. CASE ~Publishable(w)
  <2>1. lock' = ReleasedBy(w) /\ Goto(w, "cleanup")
    BY <1>3 DEF VerifyAuthority
  <2> QED
    BY <1>1, <2>1, GotoLeaves DEF WorkerPCs, Staged, StoreCall, StoreWrite, jvars
<1> QED
  BY <1>2, <1>3

LEMMA GiveUpInv ==
    ASSUME IInv, NEW w \in Procs, LockTimeout(w) \/ SaveFails(w)
    PROVE  IInv'
<1>1. /\ wk[w].pc # "idle" /\ wk[w].job \in Jobs /\ Exists(wk[w].job)
      /\ lock' = ReleasedBy(w)
      /\ UNCHANGED jvars /\ UNCHANGED <<catalog, trees, cred, op, creator>>
  BY DEF LockTimeout, SaveFails, At, IInv, RequestsKnown
<1>2. StoreCall /\ UNCHANGED jobs
  BY <1>1 DEF StoreCall, StoreWrite, jvars
<1>3. CASE LockTimeout(w)
  BY <1>1, <1>2, <1>3, GotoLeaves DEF LockTimeout, WorkerPCs, Staged
<1>4. CASE SaveFails(w)
  <2> DEFINE s == wk[w]
             r == [s EXCEPT !.pc = "cleanup", !.cat = EmptyCatalog]
  <2>1. wk' = [wk EXCEPT ![w] = r] /\ s \in WorkerState /\ s.job = wk[w].job
    BY <1>4 DEF SaveFails, IInv, TypeOK
  <2> HIDE DEF s
  <2>2. r \in WorkerState
    BY <2>1, EmptyHands, Zenon DEF WorkerState, WorkerPCs
  <2>3. r.pc = "cleanup" /\ r.job = wk[w].job
    BY <2>1 DEF WorkerState
  <2> HIDE DEF r
  <2> QED
    BY <1>1, <1>2, <2>1, <2>2, <2>3, WorkerLeaves DEF Staged
<1> QED
  BY <1>3, <1>4
LEMMA GenerationNamed ==
    ASSUME IInv, NEW w \in Procs, wk[w].job \in Jobs
    PROVE  /\ Generation(w) \in Gens
           /\ Generation(w)[2] = wk[w].job
           /\ Generation(w)[4] = w
           /\ \A p : Generation(w) # FirstRoot(p)
<1>1. wk[w].attempt \in Nat
  BY DEF IInv, TypeOK, WorkerState
<1> QED
  BY <1>1, FencedAssumption, JobStoreAssumption DEF Generation, Gens, FirstRoot

LEMMA ComputeInv ==
    ASSUME IInv, NEW w \in Procs, Compute(w)
    PROVE  IInv'
<1> DEFINE r == [wk[w] EXCEPT !.pc = "commit"]
           g == Generation(w)
           c == wk[w].input \cup {wk[w].job}
<1>1. /\ wk[w].pc = "compute" /\ wk[w].job \in Jobs
      /\ trees' = WithTree(g, c)
      /\ UNCHANGED <<jobs, cancelled, idem, catalog, cred, lock, op, creator>>
  BY DEF Compute, At, IInv, RequestsKnown, jvars
<1>2. /\ r \in WorkerState /\ r.pc = "commit" /\ r.job = wk[w].job
      /\ r.attempt = wk[w].attempt /\ wk' = [wk EXCEPT ![w] = r]
  BY Moved DEF Compute, Goto, WorkerPCs, IInv, TypeOK
<1>3. g \in Gens /\ c \in Trees
  BY <1>1, GenerationNamed DEF IInv, TypeOK, WorkerState, Trees
<1> HIDE DEF r, c
<1>4. wk'[w] = r /\ \A x \in Procs \ {w} : wk'[x] = wk[x]
  BY <1>2 DEF IInv, TypeOK
<1>5. /\ DOMAIN trees' = DOMAIN trees \cup {g}
      /\ \A h \in DOMAIN trees' : trees'[h] = IF h = g THEN c ELSE trees[h]
  BY <1>1 DEF WithTree
<1>6. g = Generation(w)'
  BY <1>2, <1>4 DEF Generation
<1> HIDE DEF g
<1>7. TypeOK' /\ JInv' /\ \A j \in Jobs : Counted(jobs[j])'
  BY <1>1, <1>2, <1>3, <1>4, <1>5 DEF IInv, TypeOK, JInv, JTypeOK, OwnerIffRunning,
     CancelIsFinal, IdempotencyAgrees, AbsentIsBlank, Exists, Counted
<1>8. LocksMatch' /\ RequestsKnown' /\ StillTrue'
  BY <1>1, <1>2, <1>4 DEF IInv, LocksMatch, RequestsKnown, StillTrue, Exists,
     UnderCredential, UnderStore
<1>9. RootsNamed'
  <2>1. ASSUME NEW x \in Procs, wk'[x].pc \in Staged
        PROVE  Generation(x)' \in DOMAIN trees'
    <3>1. CASE x = w
      BY <1>5, <1>6, <3>1
    <3>2. CASE x # w
      BY <1>4, <1>5, <2>1, <3>2 DEF IInv, RootsNamed, Generation
    <3> QED
      BY <3>1, <3>2
  <2> QED
    BY <1>1, <1>5, <2>1, SameCatalog DEF IInv, RootsNamed, Exists
<1> QED
  BY <1>7, <1>8, <1>9 DEF IInv

\* Cleanup removes nothing that the catalog names, and nothing another attempt
\* staged.
LEMMA CleanupInv ==
    ASSUME IInv, NEW w \in Procs, Cleanup(w)
    PROVE  IInv'
<1> DEFINE r == [wk[w] EXCEPT !.pc = "except"]
           g == Generation(w)
<1>1. /\ wk[w].pc = "cleanup" /\ wk[w].job \in Jobs /\ Exists(wk[w].job)
      /\ trees' = IF Receipt(wk[w].job).root = g THEN trees ELSE WithoutTree(g)
      /\ UNCHANGED <<jobs, cancelled, idem, catalog, cred, lock, op, creator>>
  BY DEF Cleanup, At, IInv, RequestsKnown, jvars
<1>2. /\ r \in WorkerState /\ r.pc = "except" /\ r.job = wk[w].job
      /\ wk' = [wk EXCEPT ![w] = r]
  BY Moved DEF Cleanup, Goto, WorkerPCs, IInv, TypeOK
<1> HIDE DEF r
<1>3. wk'[w] = r /\ \A x \in Procs \ {w} : wk'[x] = wk[x]
  BY <1>2 DEF IInv, TypeOK
<1>4. /\ DOMAIN trees' \subseteq DOMAIN trees
      /\ \A h \in DOMAIN trees' : trees'[h] = trees[h]
      /\ \A h \in DOMAIN trees : h # g \/ Receipt(wk[w].job).root = g => h \in DOMAIN trees'
  BY <1>1 DEF WithoutTree
<1>5. /\ g[2] = wk[w].job /\ \A p : g # FirstRoot(p)
      /\ \A x \in Procs \ {w} : wk[x].pc \in Staged => Generation(x) # g
  <2>1. ASSUME NEW x \in Procs \ {w}, wk[x].pc \in Staged PROVE Generation(x) # g
    <3>1. Generation(x)[4] = x /\ g[4] = w
      BY <1>1, <2>1, GenerationNamed DEF IInv, RequestsKnown, Staged
    <3> QED
      BY <2>1, <3>1
  <2> QED
    BY <1>1, <2>1, GenerationNamed
<1> HIDE DEF g
<1>6. TypeOK' /\ JInv' /\ \A j \in Jobs : Counted(jobs[j])'
  BY <1>1, <1>2, <1>3, <1>4 DEF IInv, TypeOK, JInv, JTypeOK, OwnerIffRunning,
     CancelIsFinal, IdempotencyAgrees, AbsentIsBlank, Exists, Counted
<1>7. LocksMatch' /\ RequestsKnown' /\ StillTrue'
  BY <1>1, <1>2, <1>3 DEF IInv, LocksMatch, RequestsKnown, StillTrue, Exists,
     UnderCredential, UnderStore
<1>8. RootsNamed'
  <2>1. ASSUME NEW x \in Procs, wk'[x].pc \in Staged
        PROVE  Generation(x)' \in DOMAIN trees'
    <3>1. x # w
      BY <1>2, <1>3, <2>1 DEF Staged
    <3>2. Generation(x)' = Generation(x) /\ wk[x].pc \in Staged
      BY <1>3, <2>1, <3>1 DEF Generation
    <3> QED
      BY <1>4, <1>5, <3>1, <3>2 DEF IInv, RootsNamed
  <2>2. ASSUME NEW j \in Jobs, Committed(j)
        PROVE  Receipt(j).root \in DOMAIN trees' /\ Receipt(j).root[2] = j
    BY <1>4, <1>5, <2>2 DEF IInv, RootsNamed
  <2>3. ASSUME NEW p \in Projects, Handle(p) # NoProject
        PROVE  Handle(p).root \in DOMAIN trees'
    BY <1>4, <1>5, <2>2, <2>3 DEF IInv, RootsNamed
  <2> QED
    BY <1>1, <2>1, <2>2, <2>3, SameCatalog DEF IInv, RootsNamed, Exists
<1> QED
  BY <1>6, <1>7, <1>8 DEF IInv

LEMMA SaveCatalogInv ==
    ASSUME IInv, NEW w \in Procs, SaveCatalog(w)
    PROVE  IInv'
<1> DEFINE s == wk[w]
<1>1. /\ s.pc = "save" /\ s.job \in Jobs /\ Exists(s.job) /\ ProjectOf[s.job] \in Projects
      /\ s.cat = catalog /\ s \in WorkerState /\ catalog \in Catalogs
      /\ lock' = ReleasedBy(w) /\ lock.project = w /\ lock.store = w /\ lock.credential = w
      /\ UNCHANGED <<jobs, cancelled, idem, trees, cred, op, creator>>
  BY FencedAssumption DEF SaveCatalog, At, IInv, RequestsKnown, StillTrue, LocksMatch,
     TypeOK, UnderCredential, UnderStore, jvars
<1>2. PICK j \in Jobs, p \in Projects, g \in DOMAIN trees, v \in Nat :
        /\ j = s.job /\ p = ProjectOf[j] /\ g = Generation(w) /\ v = s.rev + 1
  BY <1>1 DEF IInv, RootsNamed, Staged, WorkerState
<1> DEFINE handle == [root |-> g, rev |-> v]
           receipt == [root |-> g, rev |-> v, output |-> trees[g]]
<1>3. /\ g \in Gens /\ g[2] = j /\ trees[g] \in Trees /\ v # 0
      /\ catalog' = [catalog EXCEPT !.projects[p] = handle, !.commits[j] = receipt]
  <2>1. g \in Gens /\ g[2] = j /\ trees[g] \in Trees
    BY <1>1, <1>2, GenerationNamed DEF IInv, TypeOK
  <2>2. v # 0
    BY <1>1, <1>2 DEF WorkerState
  <2>3. catalog' = [catalog EXCEPT !.projects[p] = handle, !.commits[j] = receipt]
    BY <1>1, <1>2 DEF SaveCatalog, NewCatalog, NewReceipt
  <2> QED
    BY <2>1, <2>2, <2>3
<1>4. /\ handle \in [root : Gens \cup {None}, rev : Nat]
      /\ receipt \in [root : Gens \cup {None}, rev : Nat, output : Trees]
      /\ handle.root = g /\ receipt.root = g
      /\ handle # NoProject /\ receipt # NoReceipt
  BY <1>3 DEF NoProject, NoReceipt
<1>5. PICK pc \in {"complete", "cleanup"} :
        wk' = [wk EXCEPT ![w] = [s EXCEPT !.pc = pc, !.cat = EmptyCatalog]]
  BY DEF SaveCatalog, IInv, TypeOK
<1> DEFINE r == [s EXCEPT !.pc = pc, !.cat = EmptyCatalog]
<1>6. wk' = [wk EXCEPT ![w] = r] /\ wk[w] = s
  BY <1>5
<1> HIDE DEF handle, receipt, s
<1>7. r \in WorkerState
  BY <1>1, EmptyHands, Zenon DEF WorkerState, WorkerPCs
<1>8. r.pc \notin Staged \cup {"idle"} /\ r.job = j
  BY <1>1, <1>2, <1>5 DEF WorkerState, Staged
<1> HIDE DEF r
<1>9. wk'[w] = r /\ \A x \in Procs \ {w} : wk'[x] = wk[x]
  BY <1>6 DEF IInv, TypeOK
<1>10. /\ catalog' \in Catalogs
       /\ Handle(p)' = handle /\ \A q \in Projects \ {p} : Handle(q)' = Handle(q)
       /\ Receipt(j)' = receipt /\ \A k \in Jobs \ {j} : Receipt(k)' = Receipt(k)
  <2> DEFINE ps == [catalog.projects EXCEPT ![p] = handle]
             cs == [catalog.commits EXCEPT ![j] = receipt]
  <2>1. /\ ps \in [Projects -> [root : Gens \cup {None}, rev : Nat]]
        /\ cs \in [Jobs -> [root : Gens \cup {None}, rev : Nat, output : Trees]]
        /\ ps[p] = handle /\ \A q \in Projects \ {p} : ps[q] = catalog.projects[q]
        /\ cs[j] = receipt /\ \A k \in Jobs \ {j} : cs[k] = catalog.commits[k]
    BY <1>1, <1>4 DEF Catalogs
  <2>2. catalog' = [catalog EXCEPT !.projects = ps, !.commits = cs]
    BY <1>1, <1>3 DEF Catalogs
  <2> HIDE DEF ps, cs
  <2>3. catalog'.projects = ps /\ catalog'.commits = cs /\ catalog' \in Catalogs
    BY <1>1, <2>1, <2>2 DEF Catalogs
  <2> QED
    BY <2>1, <2>3 DEF Handle, Receipt
<1>11. /\ lock \in [LockNames -> Procs \cup {None, Operator, Creator}]
       /\ lock' \in [LockNames -> Procs \cup {None, Operator, Creator}]
       /\ \A l \in LockNames : lock'[l] = IF lock[l] = w THEN None ELSE lock[l]
  BY <1>1, Release DEF IInv, TypeOK, LockNames
<1>12. TypeOK' /\ JInv' /\ \A k \in Jobs : Counted(jobs[k])'
  BY <1>1, <1>6, <1>7, <1>9, <1>10, <1>11 DEF IInv, TypeOK, JInv, JTypeOK, OwnerIffRunning,
     CancelIsFinal, IdempotencyAgrees, AbsentIsBlank, Exists, Counted, LockNames
<1>13. LocksMatch' /\ RequestsKnown'
  <2>1. LocksMatch'
    BY <1>1, <1>8, <1>9, <1>11, FencedAssumption
       DEF IInv, LocksMatch, LockNames, UnderCredential, UnderStore, Staged
  <2>2. RequestsKnown'
    BY <1>1, <1>2, <1>8, <1>9 DEF IInv, RequestsKnown, Exists
  <2> QED
    BY <2>1, <2>2
<1>14. StillTrue'
  <2>1. ASSUME NEW x \in Procs PROVE wk'[x].pc \notin UnderStore
    BY <1>1, <1>8, <1>9 DEF IInv, LocksMatch, UnderStore, Staged
  <2>2. creator.pc # "save"
    BY <1>1, FencedAssumption DEF IInv, LocksMatch
  <2> QED
    BY <1>1, <2>1, <2>2 DEF StillTrue, UnderStore
<1>15. RootsNamed'
  <2>1. ASSUME NEW x \in Procs, wk'[x].pc \in Staged
        PROVE  Generation(x)' \in DOMAIN trees'
    BY <1>1, <1>8, <1>9, <2>1 DEF IInv, RootsNamed, Generation
  <2>2. Committed(j)' /\ \A k \in Jobs \ {j} : Committed(k)' = Committed(k)
    BY <1>4, <1>10 DEF Committed, Receipt
  <2>3. ASSUME NEW k \in Jobs, Committed(k)'
        PROVE  Receipt(k)'.root \in DOMAIN trees' /\ Receipt(k)'.root[2] = k
    BY <1>1, <1>3, <1>4, <1>10, <2>2, <2>3 DEF IInv, RootsNamed
  <2>4. ASSUME NEW q \in Projects, Handle(q)' # NoProject
        PROVE  /\ Handle(q)'.root \in DOMAIN trees'
               /\ \/ Handle(q)'.root = FirstRoot(q)
                  \/ \E k \in Jobs : /\ ProjectOf[k] = q /\ Committed(k)'
                                    /\ Receipt(k)'.root = Handle(q)'.root
    <3>1. CASE q = p
      BY <1>1, <1>2, <1>4, <1>10, <2>2, <3>1
    <3>2. CASE q # p
      <4>1. Handle(q)' = Handle(q) /\ Handle(q) # NoProject
        BY <1>10, <2>4, <3>2
      <4>2. ASSUME NEW k \in Jobs, ProjectOf[k] = q, Committed(k)
            PROVE  Committed(k)' /\ Receipt(k)' = Receipt(k)
        BY <1>2, <1>10, <2>2, <3>2, <4>2
      <4> QED
        BY <1>1, <4>1, <4>2 DEF IInv, RootsNamed
    <3> QED
      BY <3>1, <3>2
  <2>5. ASSUME NEW k \in Jobs, Exists(k) PROVE Handle(ProjectOf[k])' # NoProject
    BY <1>4, <1>10, <2>5, FencedAssumption DEF IInv, RootsNamed
  <2> QED
    BY <1>1, <2>1, <2>3, <2>4, <2>5 DEF RootsNamed, Exists, FirstRoot
<1> QED
  BY <1>12, <1>13, <1>14, <1>15 DEF IInv
-----------------------------------------------------------------------------
(* The project creator, the recovery operator, and tools outside.          *)

LEMMA EditInPlaceInv ==
    ASSUME IInv, NEW e \in ModuleJobs \cup Edits, NEW p \in Projects, EditInPlace(e, p)
    PROVE  IInv'
<1> DEFINE g == Handle(p).root
           c == Toggled(trees[g], e)
<1>1. /\ g \in DOMAIN trees /\ c \in Trees /\ trees' = WithTree(g, c)
      /\ UNCHANGED <<jobs, cancelled, idem, wk, catalog, cred, lock, op, creator>>
  <2>1. g \in DOMAIN trees /\ trees[g] \in Trees
    BY DEF EditInPlace, IInv, RootsNamed, TypeOK
  <2>2. c \in Trees
    BY <2>1, FencedAssumption DEF Toggled, Trees
  <2> QED
    BY <2>1, <2>2 DEF EditInPlace, jvars
<1> HIDE DEF g, c
<1>2. /\ DOMAIN trees' = DOMAIN trees
      /\ \A h \in DOMAIN trees' : trees'[h] = IF h = g THEN c ELSE trees[h]
  BY <1>1 DEF WithTree
<1>3. TypeOK' /\ JInv' /\ \A j \in Jobs : Counted(jobs[j])'
  BY <1>1, <1>2 DEF IInv, TypeOK, JInv, JTypeOK, OwnerIffRunning,
     CancelIsFinal, IdempotencyAgrees, AbsentIsBlank, Exists, Counted
<1>4. LocksMatch' /\ RequestsKnown' /\ StillTrue'
  BY <1>1 DEF IInv, LocksMatch, RequestsKnown, StillTrue, Exists
<1>5. RootsNamed'
  BY <1>1, <1>2, SameCatalog DEF IInv, RootsNamed, Generation, Exists
<1> QED
  BY <1>3, <1>4, <1>5 DEF IInv

\* Steps of the creator and the operator that take or drop a lock of their own.
LEMMA RequestStep ==
    ASSUME IInv,
           lock' \in [LockNames -> Procs \cup {None, Operator, Creator}],
           op' \in [pc : {"idle", "checked", "locked"}, job : Jobs \cup {None}, attempt : Nat],
           creator' \in [pc : {"idle", "save"}, project : Projects \cup {None}, cat : Catalogs],
           LocksMatch',
           op'.pc # "idle" => op'.job \in Jobs /\ Exists(op'.job),
           creator'.pc = "save" =>
             /\ creator'.project \in Projects /\ creator'.cat = catalog
             /\ catalog.projects[creator'.project] = NoProject,
           UNCHANGED <<jvars, wk, catalog, trees, cred>>
    PROVE  IInv'
<1>1. UNCHANGED <<jobs, cancelled, idem>>
  BY DEF jvars
<1>2. TypeOK' /\ JInv' /\ \A j \in Jobs : Counted(jobs[j])'
  BY <1>1 DEF IInv, TypeOK, JInv, JTypeOK, OwnerIffRunning, CancelIsFinal,
     IdempotencyAgrees, AbsentIsBlank, Exists, Counted, LockNames
<1>3. RequestsKnown' /\ StillTrue'
  BY <1>1 DEF IInv, RequestsKnown, StillTrue, Exists
<1>4. RootsNamed'
  BY <1>1, SameCatalog DEF IInv, RootsNamed, Generation, Exists
<1> QED
  BY <1>2, <1>3, <1>4 DEF IInv

LEMMA CreateLoadInv ==
    ASSUME IInv, NEW p \in Projects, CreateLoad(p)
    PROVE  IInv'
<1>1. /\ creator.pc # "save" /\ lock.project = None
      /\ catalog.projects[p] = NoProject
      /\ creator' = [pc |-> "save", project |-> p, cat |-> catalog]
      /\ lock' = [lock EXCEPT !.project = Creator]
      /\ UNCHANGED <<jvars, wk, catalog, trees, cred, op>>
  BY DEF CreateLoad, NoCreation, Handle
<1>2. lock' \in [LockNames -> Procs \cup {None, Operator, Creator}]
  BY <1>1 DEF LockNames, IInv, TypeOK
<1>3. LocksMatch'
  BY <1>1, FencedAssumption DEF IInv, TypeOK, LocksMatch
<1>4. /\ creator' \in [pc : {"idle", "save"}, project : Projects \cup {None}, cat : Catalogs]
      /\ op' \in [pc : {"idle", "checked", "locked"}, job : Jobs \cup {None}, attempt : Nat]
      /\ op'.pc # "idle" => op'.job \in Jobs /\ Exists(op'.job)
  BY <1>1 DEF IInv, TypeOK, RequestsKnown
<1> QED
  BY <1>1, <1>2, <1>3, <1>4, RequestStep

LEMMA RecoveryCheckInv ==
    ASSUME IInv, NEW j \in Jobs, RecoveryCheck(j)
    PROVE  IInv'
<1>1. /\ op.pc = "idle" /\ Exists(j)
      /\ op' = [pc |-> "checked", job |-> j, attempt |-> jobs[j].attempt]
      /\ UNCHANGED <<jvars, wk, catalog, trees, cred, lock, creator>>
  BY DEF RecoveryCheck, NoOp
<1>2. jobs[j].attempt \in Nat
  BY DEF IInv, JInv, JTypeOK, Row
<1>3. LocksMatch'
  BY <1>1 DEF IInv, LocksMatch
<1> QED
  BY <1>1, <1>2, <1>3, RequestStep DEF IInv, TypeOK, LockNames, RequestsKnown, StillTrue

LEMMA RecoveryLockInv ==
    ASSUME IInv, RecoveryLock
    PROVE  IInv'
<1>1. /\ op.pc = "checked" /\ lock.credential = None
      /\ UNCHANGED <<jvars, wk, catalog, trees, cred, creator>>
  BY DEF RecoveryLock
<1>2. CASE Resolves(op.job)
  <2>1. op' = [op EXCEPT !.pc = "locked"] /\ lock' = [lock EXCEPT !.credential = Operator]
    BY <1>2 DEF RecoveryLock
  <2>2. /\ op' \in [pc : {"idle", "checked", "locked"}, job : Jobs \cup {None}, attempt : Nat]
        /\ op'.pc = "locked" /\ op'.job = op.job
        /\ lock' \in [LockNames -> Procs \cup {None, Operator, Creator}]
    BY <2>1 DEF LockNames, IInv, TypeOK
  <2>3. LocksMatch'
    BY <1>1, <2>1, <2>2, FencedAssumption DEF IInv, TypeOK, LocksMatch
  <2> QED
    BY <1>1, <2>2, <2>3, RequestStep DEF IInv, TypeOK, RequestsKnown, StillTrue
<1>3. CASE ~Resolves(op.job)
  <2>1. op' = NoOp /\ UNCHANGED lock
    BY <1>3 DEF RecoveryLock
  <2>2. LocksMatch'
    BY <1>1, <2>1 DEF IInv, LocksMatch, NoOp
  <2> QED
    BY <1>1, <2>1, <2>2, RequestStep
       DEF IInv, TypeOK, LockNames, RequestsKnown, StillTrue, NoOp
<1> QED
  BY <1>2, <1>3

\* The store's part of the request, seen as a step of its own that keeps the
\* invariant, is followed by the release of the operator's lock.
LEMMA RecoveryRequeueInv ==
    ASSUME IInv, RecoveryRequeue
    PROVE  IInv'
<1>1. /\ op.pc = "locked" /\ op.job \in Jobs /\ StoreFree
      /\ op' = NoOp /\ lock' = ReleasedBy(Operator)
      /\ UNCHANGED <<wk, catalog, trees, cred, creator>>
  BY DEF RecoveryRequeue, IInv, RequestsKnown
<1>2. StoreCall
  BY <1>1 DEF RecoveryRequeue, StoreCall, StoreWrite
<1>3. /\ JInv'
      /\ \A j \in Jobs : Counted(jobs[j])'
      /\ \A j \in Jobs : Exists(j)' <=> Exists(j)
  BY <1>2, StoreCallKeeps DEF IInv
<1>4. /\ lock' \in [LockNames -> Procs \cup {None, Operator, Creator}]
      /\ \A l \in LockNames : lock'[l] = IF lock[l] = Operator THEN None ELSE lock[l]
  BY <1>1, Release DEF IInv, TypeOK, LockNames
<1>5. op' \in [pc : {"idle", "checked", "locked"}, job : Jobs \cup {None}, attempt : Nat]
      /\ op'.pc = "idle"
  BY <1>1 DEF NoOp
<1>6. TypeOK'
  BY <1>1, <1>3, <1>4, <1>5 DEF IInv, TypeOK, JInv, LockNames
<1>7. LocksMatch'
  BY <1>1, <1>4, <1>5, FencedAssumption DEF IInv, LocksMatch, LockNames
<1>8. RequestsKnown'
  BY <1>1, <1>3, <1>5 DEF IInv, RequestsKnown
<1>9. StillTrue'
  BY <1>1, FencedAssumption DEF IInv, StillTrue, LocksMatch, StoreFree
<1>10. RootsNamed'
  BY <1>1, <1>3, SameCatalog DEF IInv, RootsNamed, Generation
<1> QED
  BY <1>3, <1>6, <1>7, <1>8, <1>9, <1>10 DEF IInv
LEMMA CreateSaveInv ==
    ASSUME IInv, CreateSave
    PROVE  IInv'
<1>1. /\ creator.pc = "save" /\ creator.cat = catalog /\ lock.project = Creator
      /\ creator' = NoCreation /\ lock' = ReleasedBy(Creator)
      /\ UNCHANGED <<jobs, cancelled, idem, wk, cred, op>>
  BY DEF CreateSave, IInv, StillTrue, LocksMatch, jvars
<1>2. PICK p \in Projects, g \in Gens : p = creator.project /\ g = FirstRoot(p)
  BY <1>1 DEF IInv, RequestsKnown, FirstRoot, Gens
<1> DEFINE handle == [root |-> g, rev |-> 0]
<1>3. /\ g \in Gens /\ handle \in [root : Gens \cup {None}, rev : Nat]
      /\ catalog.projects[p] = NoProject /\ {} \in Trees
      /\ trees' = WithTree(g, {})
      /\ catalog' = [catalog EXCEPT !.projects[p] = handle]
  BY <1>1, <1>2 DEF FirstRoot, Gens, Trees, CreateSave, IInv, StillTrue
<1>4. handle.root = g
  OBVIOUS
<1> HIDE DEF handle
<1>5. /\ catalog' \in Catalogs /\ catalog'.commits = catalog.commits
      /\ Handle(p)' = handle /\ \A q \in Projects \ {p} : Handle(q)' = Handle(q)
  <2> DEFINE ps == [catalog.projects EXCEPT ![p] = handle]
  <2>1. /\ ps \in [Projects -> [root : Gens \cup {None}, rev : Nat]]
        /\ ps[p] = handle /\ \A q \in Projects \ {p} : ps[q] = catalog.projects[q]
    BY <1>3 DEF Catalogs, IInv, TypeOK
  <2>2. catalog' = [catalog EXCEPT !.projects = ps]
    BY <1>3 DEF Catalogs, IInv, TypeOK
  <2> HIDE DEF ps
  <2>3. catalog'.projects = ps /\ catalog'.commits = catalog.commits /\ catalog' \in Catalogs
    BY <2>1, <2>2 DEF Catalogs, IInv, TypeOK
  <2> QED
    BY <2>1, <2>3 DEF Handle
<1>6. /\ DOMAIN trees' = DOMAIN trees \cup {g}
      /\ \A h \in DOMAIN trees' : trees'[h] = IF h = g THEN {} ELSE trees[h]
  BY <1>3 DEF WithTree
<1>7. /\ lock' \in [LockNames -> Procs \cup {None, Operator, Creator}]
      /\ \A l \in LockNames : lock'[l] = IF lock[l] = Creator THEN None ELSE lock[l]
  BY <1>1, Release DEF IInv, TypeOK, LockNames
<1>8. /\ creator' \in [pc : {"idle", "save"}, project : Projects \cup {None}, cat : Catalogs]
      /\ creator'.pc = "idle"
  BY <1>1, EmptyHands DEF NoCreation
<1>9. JInv' /\ \A j \in Jobs : Counted(jobs[j])'
  BY <1>1 DEF IInv, JInv, JTypeOK, OwnerIffRunning, CancelIsFinal, IdempotencyAgrees,
     AbsentIsBlank, Exists, Counted
<1>9a. TypeOK'
  BY <1>1, <1>3, <1>5, <1>6, <1>7, <1>8, <1>9 DEF IInv, TypeOK, JInv, LockNames
<1>10. LocksMatch'
  BY <1>1, <1>7, <1>8, FencedAssumption DEF IInv, LocksMatch, LockNames
<1>11. RequestsKnown'
  BY <1>1, <1>8 DEF IInv, RequestsKnown, Exists
<1>12. StillTrue'
  <2>1. \A w \in Procs : wk[w].pc # "save"
    BY <1>1, FencedAssumption DEF IInv, LocksMatch
  <2> QED
    BY <1>1, <1>8, <2>1 DEF IInv, StillTrue
<1>13. RootsNamed'
  <2>1. \A j \in Jobs : Receipt(j)' = Receipt(j) /\ Committed(j)' = Committed(j)
    BY <1>5 DEF Receipt, Committed
  <2>2. ASSUME NEW q \in Projects, Handle(q)' # NoProject
        PROVE  /\ Handle(q)'.root \in DOMAIN trees'
               /\ \/ Handle(q)'.root = FirstRoot(q)
                  \/ \E k \in Jobs : /\ ProjectOf[k] = q /\ Committed(k)'
                                    /\ Receipt(k)'.root = Handle(q)'.root
    BY <1>2, <1>4, <1>5, <1>6, <2>1, <2>2 DEF IInv, RootsNamed
  <2>3. ASSUME NEW j \in Jobs, Exists(j) PROVE Handle(ProjectOf[j])' # NoProject
    <3>1. Handle(ProjectOf[j]) # NoProject /\ ProjectOf[j] \in Projects /\ ProjectOf[j] # p
      BY <1>3, <2>3, FencedAssumption DEF IInv, RootsNamed, Handle
    <3> QED
      BY <1>5, <3>1
  <2>4. ASSUME NEW w \in Procs, wk[w].pc \in Staged PROVE Generation(w)' \in DOMAIN trees'
    BY <1>1, <1>6, <2>4 DEF IInv, RootsNamed, Generation
  <2> QED
    BY <1>1, <1>6, <2>1, <2>2, <2>3, <2>4 DEF IInv, RootsNamed, Exists, FirstRoot
<1> QED
  BY <1>9, <1>9a, <1>10, <1>11, <1>12, <1>13 DEF IInv
-----------------------------------------------------------------------------
(* The invariant.                                                          *)

LEMMA InitInv == Init => IInv
<1> SUFFICES ASSUME Init PROVE IInv
  OBVIOUS
<1>1. JInv /\ \A j \in Jobs : ~Exists(j)
  BY JInitInv DEF Init, JInit, NoRow, Exists
<1>2. \A j \in Jobs : Counted(jobs[j])
  BY JobStoreAssumption DEF Init, JInit, NoRow, Counted
<1>3. /\ \A p \in Projects : Handle(p) = NoProject
      /\ \A j \in Jobs : ~Committed(j)
      /\ \A w \in Procs : wk[w].pc = "idle"
      /\ op.pc = "idle" /\ creator.pc = "idle"
  BY EmptyHands DEF Init, EmptyCatalog, Handle, Committed, Receipt, NoOp, NoCreation
<1>4. TypeOK
  BY <1>1, EmptyHands DEF Init, TypeOK, JInv, Unlocked, NoOp, NoCreation
<1>5. LocksMatch
  BY <1>3, FencedAssumption DEF Init, LocksMatch, Unlocked, UnderCredential, UnderStore
<1>6. RequestsKnown /\ StillTrue
  BY <1>3 DEF RequestsKnown, StillTrue, UnderStore
<1>7. RootsNamed
  BY <1>1, <1>3, FencedAssumption DEF RootsNamed, Staged
<1> QED
  BY <1>1, <1>2, <1>4, <1>5, <1>6, <1>7 DEF IInv

LEMMA StutterInv ==
    ASSUME IInv, UNCHANGED vars
    PROVE  IInv'
BY StoreStep DEF vars, evars, jvars, StoreCall, StoreWrite

LEMMA WorkerStepInv ==
    ASSUME IInv, NEW w \in Procs, WorkerStep(w)
    PROVE  IInv'
BY BeforeCommitInv, ComputeInv, LockCredentialInv, CommitLeaseInv, VerifyAuthorityInv,
   SaveCatalogInv, GiveUpInv, CleanupInv, AfterCommitInv DEF WorkerStep

LEMMA WorkerNextInv ==
    ASSUME IInv, NEW w \in Procs, WorkerNext(w)
    PROVE  IInv'
BY IdleStepsInv, WorkerStepInv, GiveUpInv DEF WorkerNext

LEMMA ClientNextInv ==
    ASSUME IInv, ClientNext
    PROVE  IInv'
<1>1. CASE \E j \in Jobs, s \in Scopes \cup {None} : Submit(j, s)
  BY <1>1, SubmitInv
<1>2. CASE \E j \in Jobs : CancelJob(j) \/ ReadJob(j)
  BY <1>2, CancelReadInv
<1>3. CASE \E c \in Principals : Revoke(c) \/ Expire(c)
  BY <1>3, RevokeExpireInv
<1>4. CASE \E e \in ModuleJobs \cup Edits, p \in Projects : EditInPlace(e, p)
  BY <1>4, EditInPlaceInv
<1>5. CASE CreateSave \/ \E p \in Projects : CreateLoad(p)
  BY <1>5, CreateLoadInv, CreateSaveInv
<1>6. CASE RecoveryLock \/ RecoveryRequeue \/ \E j \in Jobs : RecoveryCheck(j)
  BY <1>6, RecoveryCheckInv, RecoveryLockInv, RecoveryRequeueInv
<1> QED
  BY <1>1, <1>2, <1>3, <1>4, <1>5, <1>6 DEF ClientNext

LEMMA NextInv == IInv /\ [Next]_vars => IInv'
BY ClientNextInv, WorkerNextInv, TimePassesInv, StutterInv DEF Next

\* The locks, what was checked under them, and the names of the generations on
\* disk stay in agreement, for any number of workers, jobs and projects.
THEOREM ExecutionInvariant == Spec => []IInv
BY InitInv, NextInv, PTL DEF Spec

\* Every variable keeps its shape (jobs/worker.py, services/execution.py).
THEOREM ExecutionTypeOK == Spec => []TypeOK
BY ExecutionInvariant, PTL DEF IInv

\* Workers nest the three locks of a publication in one order, so no two of them
\* wait for each other (services/execution.py, execute_fenced).
THEOREM LocksAreOrdered == Spec => []LockOrder
<1>1. IInv => LockOrder
  BY DEF IInv, LocksMatch, LockOrder, UnderCredential, UnderStore
<1> QED
  BY <1>1, ExecutionInvariant, PTL

\* No cleanup ever removes a generation that the catalog or a receipt names
\* (services/execution.py, the finally of execute_fenced).
THEOREM GenerationsAreKept == Spec => []GenerationsKept
<1>1. IInv => GenerationsKept
  BY DEF IInv, RootsNamed, GenerationsKept
<1> QED
  BY <1>1, ExecutionInvariant, PTL
-----------------------------------------------------------------------------
(* What is written to the store and to the catalog, and by whom.           *)

LEMMA StoreSteps ==
    ASSUME IInv, [Next]_vars
    PROVE  \/ StoreWrite
           \/ \E j \in Jobs, s \in Scopes \cup {None} : CreateNew(j, s)
           \/ TimePasses
<1>1. WorkerId \in [Procs -> Workers]
  BY FencedAssumption
<1>2. ASSUME ClientNext PROVE StoreWrite \/ \E j \in Jobs, s \in Scopes \cup {None} : CreateNew(j, s)
  <2>1. CASE \E j \in Jobs, s \in Scopes \cup {None} : Submit(j, s)
    BY <2>1 DEF Submit
  <2>2. CASE \E j \in Jobs : CancelJob(j) \/ ReadJob(j)
    BY <2>2 DEF CancelJob, ReadJob, StoreWrite
  <2>3. CASE RecoveryRequeue
    BY <2>3 DEF RecoveryRequeue, StoreWrite, IInv, RequestsKnown
  <2>4. CASE \/ \E c \in Principals : Revoke(c) \/ Expire(c)
             \/ \E e \in ModuleJobs \cup Edits, p \in Projects : EditInPlace(e, p)
             \/ CreateSave \/ \E p \in Projects : CreateLoad(p)
             \/ RecoveryLock \/ \E j \in Jobs : RecoveryCheck(j)
    BY <2>4 DEF Revoke, Expire, EditInPlace, CreateSave, CreateLoad, RecoveryLock,
       RecoveryCheck, StoreWrite
  <2> QED
    BY <1>2, <2>1, <2>2, <2>3, <2>4 DEF ClientNext
<1>3. ASSUME NEW w \in Procs, WorkerNext(w) PROVE StoreWrite
  <2>1. wk[w].pc # "idle" => wk[w].job \in Jobs
    BY DEF IInv, RequestsKnown
  <2>2. CASE \/ Complete(w) \/ Recover(w) \/ Fail(w) \/ Heartbeat(w) \/ Poll(w)
             \/ \E j \in Jobs : ClaimNext(w, j)
    BY <1>1, <2>1, <2>2 DEF Complete, Recover, Fail, Heartbeat, Poll, ClaimNext, At, StoreWrite
  <2>3. CASE \/ Reread(w) \/ Begin(w) \/ Replay(w) \/ Snapshot(w) \/ Compute(w)
             \/ ComputeFails(w) \/ LockCredential(w) \/ CommitLease(w)
             \/ VerifyAuthority(w) \/ SaveCatalog(w) \/ SaveFails(w) \/ Cleanup(w)
             \/ Except(w) \/ LockTimeout(w) \/ Crash(w)
    BY <2>3 DEF Reread, Begin, Replay, Snapshot, Compute, ComputeFails, LockCredential,
       CommitLease, VerifyAuthority, SaveCatalog, SaveFails, Cleanup, Except, LockTimeout,
       Crash, StoreWrite
  <2> QED
    BY <1>3, <2>2, <2>3 DEF WorkerNext, WorkerStep
<1>4. CASE TimePasses \/ UNCHANGED vars
  BY <1>4 DEF TimePasses, vars, jvars, StoreWrite
<1> QED
  BY <1>2, <1>3, <1>4 DEF Next

LEMMA CatalogSteps ==
    ASSUME IInv, [Next]_vars, catalog' # catalog
    PROVE  CreateSave \/ \E w \in Procs : SaveCatalog(w)
<1>1. ASSUME ClientNext PROVE CreateSave
  BY <1>1 DEF ClientNext, Submit, CancelJob, ReadJob, Revoke, Expire, EditInPlace,
     CreateLoad, RecoveryCheck, RecoveryLock, RecoveryRequeue, evars
<1>2. ASSUME NEW w \in Procs, WorkerNext(w) PROVE SaveCatalog(w)
  BY <1>2 DEF WorkerNext, WorkerStep, ClaimNext, Poll, LockTimeout, Heartbeat, Crash,
     Reread, Begin, Replay, Snapshot, Compute, ComputeFails, LockCredential, CommitLease,
     VerifyAuthority, SaveFails, Cleanup, Complete, Except, Recover, Fail, evars
<1> QED
  BY <1>1, <1>2 DEF Next, TimePasses, vars, evars

\* A catalog is written from the one just read, so of the receipts only that of
\* the published job changes, and it is a receipt afterwards.
LEMMA ReceiptSteps ==
    ASSUME IInv, [Next]_vars, NEW j \in Jobs, Receipt(j)' # Receipt(j)
    PROVE  \E w \in Procs : SaveCatalog(w) /\ wk[w].job = j /\ Committed(j)'
<1>1. catalog' # catalog /\ catalog \in Catalogs
  BY DEF Receipt, IInv, TypeOK
<1>2. ~CreateSave
  BY <1>1 DEF CreateSave, IInv, StillTrue, Receipt, Catalogs
<1>3. PICK w \in Procs : SaveCatalog(w)
  BY <1>1, <1>2, CatalogSteps
<1>4. wk[w].cat = catalog /\ wk[w].rev \in Nat /\ wk[w].job \in Jobs
  BY <1>3 DEF SaveCatalog, At, IInv, StillTrue, TypeOK, WorkerState, RequestsKnown
<1> DEFINE v == wk[w].rev + 1
           cs == [catalog.commits EXCEPT ![wk[w].job] = NewReceipt(w)]
<1>5. catalog'.commits = cs
  BY <1>1, <1>3, <1>4 DEF SaveCatalog, NewCatalog, Catalogs
<1>6. NewReceipt(w) # NoReceipt
  BY <1>4 DEF NewReceipt, NoReceipt
<1>7. wk[w].job = j /\ Receipt(j)' = NewReceipt(w)
  BY <1>1, <1>5 DEF Receipt, Catalogs
<1> QED
  BY <1>3, <1>6, <1>7 DEF Committed, Receipt

\* A publication finds its job running, its intent not cancelled and its
\* credential not revoked (services/execution.py, execute_fenced).
THEOREM PublicationsAreAuthorised == Spec => PublishOnlyAuthorised
<1>1. IInv /\ [Next]_vars =>
        [\A j \in Jobs : catalog'.commits[j] # catalog.commits[j] =>
           /\ jobs[j].status = "RUNNING"
           /\ j \notin cancelled
           /\ cred[PrincipalOf[j]] # "revoked"]_vars
  <2> SUFFICES ASSUME IInv, [Next]_vars, NEW j \in Jobs,
                      catalog'.commits[j] # catalog.commits[j]
               PROVE  /\ jobs[j].status = "RUNNING" /\ j \notin cancelled
                      /\ cred[PrincipalOf[j]] # "revoked"
    OBVIOUS
  <2>1. PICK w \in Procs : SaveCatalog(w) /\ wk[w].job = j
    BY ReceiptSteps DEF Receipt
  <2>2. jobs[j].status = "RUNNING" /\ cred[PrincipalOf[j]] # "revoked"
    BY <2>1 DEF SaveCatalog, At, IInv, StillTrue, UnderStore
  <2>3. j \notin cancelled
    BY <2>2 DEF IInv, JInv, CancelIsFinal
  <2> QED
    BY <2>2, <2>3
<1> QED
  BY <1>1, ExecutionInvariant, PTL DEF Spec, PublishOnlyAuthorised

LEMMA StoreNext == IInv /\ [Next]_vars => [JNext]_jvars
<1> SUFFICES ASSUME IInv, [Next]_vars PROVE [JNext]_jvars
  OBVIOUS
<1>1. CASE StoreWrite \/ TimePasses
  BY <1>1, StoreCallIsStep DEF IInv, StoreCall, TimePasses
<1>2. CASE \E j \in Jobs, s \in Scopes \cup {None} : CreateNew(j, s)
  BY <1>2 DEF JNext
<1> QED
  BY <1>1, <1>2, StoreSteps

\* Workers, clients and operator use the job table only through the store's own
\* transactions (jobs/worker.py, services/facade.py), so every theorem about
\* JobStore holds of them.
THEOREM StoreIsImplemented == Spec => ImplementsJobStore
<1>1. Init => JInit
  BY DEF Init
<1> QED
  BY <1>1, StoreNext, ExecutionInvariant, PTL DEF Spec, JSpec, ImplementsJobStore

\* A worker that is about to report a success has seen, or written, a receipt.
Reporting == \A w \in Procs : wk[w].pc \in {"complete", "recover"} => Committed(wk[w].job)

LEMMA ReceiptStays ==
    ASSUME IInv, [Next]_vars, NEW j \in Jobs, Committed(j)
    PROVE  Committed(j)'
<1>1. CASE Receipt(j)' = Receipt(j)
  BY <1>1 DEF Committed, NoReceipt
<1>2. CASE Receipt(j)' # Receipt(j)
  BY <1>2, ReceiptSteps
<1> QED
  BY <1>1, <1>2
LEMMA OwnSteps ==
    ASSUME IInv, [Next]_vars, NEW w \in Procs, wk'[w] # wk[w]
    PROVE  WorkerNext(w)
<1>1. wk \in [Procs -> WorkerState]
  BY DEF IInv, TypeOK
<1>2. ~ClientNext /\ ~TimePasses /\ ~UNCHANGED vars
  BY DEF ClientNext, Submit, CancelJob, ReadJob, Revoke, Expire, EditInPlace, CreateLoad,
     CreateSave, RecoveryCheck, RecoveryLock, RecoveryRequeue, TimePasses, evars, vars
<1>3. ASSUME NEW x \in Procs, WorkerNext(x), x # w PROVE FALSE
  <2>1. ASSUME NEW s, wk' = [wk EXCEPT ![x] = s] PROVE FALSE
    BY <1>1, <1>3, <2>1
  <2>2. ASSUME NEW pc, Goto(x, pc) PROVE FALSE
    BY <1>1, <1>3, <2>2 DEF Goto
  <2>3. ~Stop(x)
    BY <2>1 DEF Stop
  <2>4. ~Reread(x) /\ ~Snapshot(x) /\ ~VerifyAuthority(x)
    BY <1>1, <1>3, <2>2 DEF Reread, Snapshot, VerifyAuthority
  <2>5. ~SaveCatalog(x) /\ ~SaveFails(x)
    BY <1>1, <1>3 DEF SaveCatalog, SaveFails
  <2>6. ~Begin(x) /\ ~Replay(x) /\ ~Compute(x) /\ ~ComputeFails(x) /\ ~LockCredential(x)
        /\ ~CommitLease(x) /\ ~Cleanup(x) /\ ~LockTimeout(x)
    BY <2>2 DEF Begin, Replay, Compute, ComputeFails, LockCredential, CommitLease,
       Cleanup, LockTimeout
  <2>7. ~Complete(x) /\ ~Except(x) /\ ~Recover(x) /\ ~Fail(x) /\ ~Crash(x)
    BY <2>2, <2>3 DEF Complete, Except, Recover, Fail, Crash
  <2>8. ~Poll(x) /\ ~Heartbeat(x) /\ ~\E j \in Jobs : ClaimNext(x, j)
    BY <2>1 DEF Poll, Heartbeat, ClaimNext, evars
  <2> QED
    BY <1>3, <2>4, <2>5, <2>6, <2>7, <2>8 DEF WorkerNext, WorkerStep
<1> QED
  BY <1>2, <1>3 DEF Next

\* Where a worker that is about to report a success comes from.
LEMMA ReportingKept ==
    ASSUME IInv, Reporting, [Next]_vars
    PROVE  Reporting'
<1> SUFFICES ASSUME NEW w \in Procs, wk'[w].pc \in {"complete", "recover"}
             PROVE  catalog'.commits[wk'[w].job] # NoReceipt
  BY DEF Reporting, Committed, Receipt, NoReceipt
<1>0. \A j \in Jobs : Committed(j) => catalog'.commits[j] # NoReceipt
  BY ReceiptStays DEF Committed, Receipt, NoReceipt
<1>1. wk \in [Procs -> WorkerState] /\ wk[w] \in WorkerState
  BY DEF IInv, TypeOK
<1>2. wk[w].pc # "idle" => wk[w].job \in Jobs
  BY DEF IInv, RequestsKnown
<1>3. CASE wk'[w] = wk[w]
  BY <1>0, <1>2, <1>3 DEF Reporting
<1>4. CASE wk'[w] # wk[w]
  <2>1. WorkerNext(w)
    BY <1>4, OwnSteps
  <2>2. ASSUME NEW pc, Goto(w, pc) PROVE wk'[w].pc = pc /\ wk'[w].job = wk[w].job
    BY <1>1, <2>2 DEF Goto, WorkerState
  <2>3. ~Stop(w)
    BY <1>1, EmptyHands DEF Stop
  <2>4. CASE Replay(w)
    BY <1>0, <1>2, <2>2, <2>4 DEF Replay, At
  <2>5. CASE Except(w)
    BY <1>0, <1>2, <2>2, <2>3, <2>5 DEF Except, At
  <2>6. CASE SaveCatalog(w)
    <3>1. wk[w].cat = catalog /\ catalog \in Catalogs /\ wk[w].rev \in Nat /\ wk[w].job \in Jobs
      BY <1>1, <1>2, <2>6 DEF SaveCatalog, At, IInv, StillTrue, TypeOK, WorkerState
    <3> DEFINE v == wk[w].rev + 1
               cs == [catalog.commits EXCEPT ![wk[w].job] = NewReceipt(w)]
    <3>2. catalog'.commits = cs
      BY <2>6, <3>1 DEF SaveCatalog, NewCatalog, Catalogs
    <3>3. NewReceipt(w) # NoReceipt
      BY <3>1 DEF NewReceipt, NoReceipt
    <3>4. wk'[w].job = wk[w].job
      BY <1>1, <2>6 DEF SaveCatalog, WorkerState
    <3>5. cs[wk[w].job] = NewReceipt(w)
      BY <3>1 DEF Catalogs
    <3> QED
      BY <3>2, <3>3, <3>4, <3>5
  <2>7. CASE Reread(w) \/ Snapshot(w) \/ VerifyAuthority(w)
    <3>1. ~Reread(w)
      BY <1>1 DEF Reread, WorkerState
    <3>2. ~Snapshot(w)
      BY <1>1, <2>2 DEF Snapshot, WorkerState
    <3>3. ~VerifyAuthority(w)
      BY <1>1, <2>2 DEF VerifyAuthority, WorkerState
    <3> QED
      BY <2>7, <3>1, <3>2, <3>3
  <2>8. ~\E j \in Jobs : ClaimNext(w, j)
    <3> SUFFICES ASSUME NEW j \in Jobs, ClaimNext(w, j) PROVE FALSE
      OBVIOUS
    <3>1. wk'[w] = [Idle EXCEPT !.pc = "claimed", !.job = j, !.granted = jobs[j].token + 1]
      BY <1>1 DEF ClaimNext
    <3>2. wk'[w].pc = "claimed"
      BY <3>1, EmptyHands DEF WorkerState
    <3> QED
      BY <3>2
  <2>9. ~Poll(w) /\ ~Heartbeat(w)
    BY <1>4 DEF Poll, Heartbeat, evars
  <2>10. ~SaveFails(w)
    BY <1>1 DEF SaveFails, WorkerState
  <2>11. CASE \/ Begin(w) \/ Compute(w) \/ ComputeFails(w) \/ LockCredential(w)
              \/ CommitLease(w) \/ Cleanup(w) \/ LockTimeout(w)
    BY <2>2, <2>11 DEF Begin, Compute, ComputeFails, LockCredential, CommitLease,
       Cleanup, LockTimeout
  <2>12. CASE Complete(w) \/ Recover(w) \/ Fail(w) \/ Crash(w)
    BY <2>2, <2>3, <2>12 DEF Complete, Recover, Fail, Crash
  <2> QED
    BY <2>1, <2>4, <2>5, <2>6, <2>7, <2>8, <2>9, <2>10, <2>11, <2>12
       DEF WorkerNext, WorkerStep
<1> QED
  BY <1>3, <1>4
\* The store's calls that cannot report a success.
LEMMA NoNewSuccess ==
    ASSUME JInv, NEW j \in Jobs,
           \/ \E k \in Jobs, s \in Scopes \cup {None} : CreateNew(k, s)
           \/ \E w \in Workers, k \in Jobs : Claim(w, k)
           \/ Sweep
           \/ \E k \in Jobs, w \in Workers : \E t : Renew(k, w, t)
           \/ \E k \in Jobs, w \in Workers : \E t : Finish(k, w, t, "FAILED")
           \/ \E k \in Jobs : \E a : RequeueLocal(k, a)
           \/ \E k \in Jobs : Cancel(k)
           \/ Tick
           \/ UNCHANGED jvars
    PROVE  jobs'[j].status = "SUCCEEDED" => jobs[j].status = "SUCCEEDED"
<1> SUFFICES ASSUME jobs[j].status # "SUCCEEDED" PROVE jobs'[j].status # "SUCCEEDED"
  OBVIOUS
<1>1. jobs \in [Jobs -> Row] /\ jobs[j] \in Row
  BY DEF JInv, JTypeOK
<1>2. Swept[j].status # "SUCCEEDED"
  BY <1>1, RowReleased DEF Swept
<1>3. ASSUME NEW k \in Jobs, NEW r, jobs' = [jobs EXCEPT ![k] = r], r.status # "SUCCEEDED"
      PROVE  jobs'[j].status # "SUCCEEDED"
  BY <1>1, <1>3
<1>4. ASSUME NEW k \in Jobs, NEW s, CreateNew(k, s)
      PROVE  jobs'[j].status # "SUCCEEDED"
  <2>1. PICK at : jobs' = [jobs EXCEPT ![k] = [NoRow EXCEPT !.status = "QUEUED",
                                                  !.created = at, !.scope = s]]
    BY <1>4 DEF CreateNew
  <2>2. [NoRow EXCEPT !.status = "QUEUED", !.created = at, !.scope = s].status # "SUCCEEDED"
    BY DEF NoRow
  <2> QED
    BY <1>3, <2>1, <2>2
<1>5. ASSUME NEW w \in Workers, NEW k \in Jobs, Claim(w, k)
      PROVE  jobs'[j].status # "SUCCEEDED"
  BY <1>1, <1>2, <1>5, RowClaimed DEF Claim, Swept
<1>6. ASSUME NEW k \in Jobs, NEW w, NEW t, Renew(k, w, t)
      PROVE  jobs'[j].status # "SUCCEEDED"
  BY <1>1, <1>6 DEF Renew, Row
<1>7. ASSUME NEW k \in Jobs, NEW w, NEW t, Finish(k, w, t, "FAILED")
      PROVE  jobs'[j].status # "SUCCEEDED"
  BY <1>1, <1>3, <1>7, RowReleased DEF Finish
<1>8. ASSUME NEW k \in Jobs, NEW a, RequeueLocal(k, a)
      PROVE  jobs'[j].status # "SUCCEEDED"
  <2>1. jobs' = [jobs EXCEPT ![k] = Requeued(jobs[k])]
    BY <1>1, <1>8 DEF RequeueLocal
  <2>2. Requeued(jobs[k]).status = "QUEUED"
    BY <1>1, RowReleased DEF Requeued, Row
  <2> QED
    BY <1>3, <2>1, <2>2
<1>9. ASSUME NEW k \in Jobs, Cancel(k)
      PROVE  jobs'[j].status # "SUCCEEDED"
  BY <1>1, <1>9 DEF Cancel, Row
<1>10. CASE Sweep
  BY <1>2, <1>10 DEF Sweep
<1>11. CASE Tick
  BY <1>1, <1>11, RowAged DEF Tick
<1>12. CASE UNCHANGED jvars
  BY <1>12 DEF jvars
<1> QED
  BY <1>4, <1>5, <1>6, <1>7, <1>8, <1>9, <1>10, <1>11, <1>12

LEMMA SuccessKept ==
    ASSUME IInv, Reporting, SuccessIsCommitted, [Next]_vars
    PROVE  SuccessIsCommitted'
<1> SUFFICES ASSUME NEW j \in Jobs, jobs'[j].status = "SUCCEEDED"
             PROVE  Committed(j)'
  BY DEF SuccessIsCommitted
<1>1. CASE jobs[j].status = "SUCCEEDED"
  BY <1>1, ReceiptStays DEF SuccessIsCommitted
<1>2. CASE jobs[j].status # "SUCCEEDED"
  <2> SUFFICES Committed(j)
    BY ReceiptStays
  <2>1. jobs \in [Jobs -> Row] /\ JInv /\ WorkerId \in [Procs -> Workers]
    BY FencedAssumption DEF IInv, JInv, JTypeOK
  <2>2. ASSUME NEW k \in Jobs, RecoverCommitted(k) \/ \E w, t, s : Finish(k, w, t, s)
        PROVE  k = j
    BY <1>2, <2>1, <2>2 DEF RecoverCommitted, Finish
  <2>3. CASE ClientNext
    <3>1. CASE \E k \in Jobs : ReadJob(k)
      BY <2>2, <3>1 DEF ReadJob
    <3>2. CASE \/ \E k \in Jobs, s \in Scopes \cup {None} : Submit(k, s)
               \/ \E k \in Jobs : CancelJob(k)
      BY <1>2, <2>1, <3>2, NoNewSuccess DEF Submit, CancelJob
    <3>3. CASE RecoveryRequeue
      BY <1>2, <2>1, <3>3, NoNewSuccess DEF RecoveryRequeue, IInv, RequestsKnown
    <3>4. CASE \/ \E c \in Principals : Revoke(c) \/ Expire(c)
               \/ \E e \in ModuleJobs \cup Edits, p \in Projects : EditInPlace(e, p)
               \/ CreateSave \/ \E p \in Projects : CreateLoad(p)
               \/ RecoveryLock \/ \E k \in Jobs : RecoveryCheck(k)
      BY <1>2, <3>4 DEF Revoke, Expire, EditInPlace, CreateSave, CreateLoad, RecoveryLock,
         RecoveryCheck, jvars
    <3> QED
      BY <2>3, <3>1, <3>2, <3>3, <3>4 DEF ClientNext
  <2>4. ASSUME NEW w \in Procs, WorkerNext(w) PROVE Committed(j)
    <3>1. wk[w].pc # "idle" => wk[w].job \in Jobs
      BY DEF IInv, RequestsKnown
    <3>2. CASE Complete(w)
      BY <1>2, <2>2, <3>1, <3>2 DEF Complete, At, Reporting, jvars
    <3>3. CASE Recover(w)
      BY <2>2, <3>1, <3>3 DEF Recover, At, Reporting
    <3>4. CASE Fail(w)
      BY <1>2, <2>1, <3>1, <3>4, NoNewSuccess DEF Fail, At
    <3>5. CASE Poll(w) \/ Heartbeat(w) \/ \E k \in Jobs : ClaimNext(w, k)
      BY <1>2, <2>1, <3>1, <3>5, NoNewSuccess DEF Poll, Heartbeat, ClaimNext
    <3>6. CASE \/ Reread(w) \/ Begin(w) \/ Replay(w) \/ Snapshot(w) \/ Compute(w)
               \/ ComputeFails(w) \/ LockCredential(w) \/ CommitLease(w)
               \/ VerifyAuthority(w) \/ SaveCatalog(w) \/ SaveFails(w) \/ Cleanup(w)
               \/ Except(w) \/ LockTimeout(w) \/ Crash(w)
      BY <1>2, <3>6 DEF Reread, Begin, Replay, Snapshot, Compute, ComputeFails,
         LockCredential, CommitLease, VerifyAuthority, SaveCatalog, SaveFails, Cleanup,
         Except, LockTimeout, Crash, jvars
    <3> QED
      BY <2>4, <3>2, <3>3, <3>4, <3>5, <3>6 DEF WorkerNext, WorkerStep
  <2>5. CASE TimePasses \/ UNCHANGED vars
    BY <1>2, <2>1, <2>5, NoNewSuccess DEF TimePasses, vars, jvars
  <2> QED
    BY <2>3, <2>4, <2>5 DEF Next
<1> QED
  BY <1>1, <1>2

\* A job reported as succeeded has a receipt, whichever of its attempts reported it
\* and however late (jobs/worker.py, run_once; services/facade.py, recover_job).
THEOREM SuccessMeansCommitted == Spec => []SuccessIsCommitted
<1>1. Init => Reporting /\ SuccessIsCommitted
  BY EmptyHands DEF Init, JInit, NoRow, Reporting, SuccessIsCommitted
<1>2. IInv /\ Reporting /\ SuccessIsCommitted /\ [Next]_vars
        => Reporting' /\ SuccessIsCommitted'
  BY ReportingKept, SuccessKept
<1> QED
  BY <1>1, <1>2, ExecutionInvariant, PTL DEF Spec
-----------------------------------------------------------------------------
(* The token a process holds, when no process sleeps through its lease     *)
(* inside claim: it is the one its own claim granted, and nobody else's.   *)

\* Between a claim and its second read the row still carries the claim's lease.
Fresh(w) ==
    LET row == jobs[wk[w].job] IN
    wk[w].pc = "claimed" =>
        /\ row.token = wk[w].granted
        /\ row.status \notin {"ABSENT", "QUEUED", "RECOVERY_REQUIRED"}
        /\ row.status \in Running => row.lease > 0

\* A handle carries the token its claim granted, which the row has not passed back.
Granted(w) ==
    /\ wk[w].pc # "idle" => wk[w].granted <= jobs[wk[w].job].token
    /\ wk[w].pc \notin {"idle", "claimed"} => wk[w].token = wk[w].granted
    /\ wk[w].pc = "save" => wk[w].token = jobs[wk[w].job].token

\* No two processes were granted the same token of one job.
Alone ==
    \A w, x \in Procs :
        (w # x /\ wk[w].pc # "idle" /\ wk[x].pc # "idle" /\ wk[w].job = wk[x].job)
            => wk[w].granted # wk[x].granted

TokensHeld == Alone /\ \A w \in Procs : Fresh(w) /\ Granted(w)

\* The program counters of an execution that found no receipt when it looked.
Computing == {"snapshot", "compute", "commit", "credential", "lease", "save", "fail"}

\* The program counters of an execution that has not published.
Before == {"claimed", "begin", "replay", "snapshot", "compute"} \cup Staged

\* How a step changes the handle of the process that takes it.
LEMMA HandleSteps ==
    ASSUME IInv, [Next]_vars, NEW w \in Procs, wk'[w] # wk[w]
    PROVE  \/ \E j \in Jobs :
                /\ ClaimNext(w, j)
                /\ wk'[w].pc = "claimed" /\ wk'[w].job = j
                /\ wk'[w].granted = jobs[j].token + 1
           \/ /\ wk[w].pc = "claimed" /\ wk'[w].pc = "begin"
              /\ wk'[w].job = wk[w].job /\ wk'[w].granted = wk[w].granted
              /\ wk'[w].token = jobs[wk[w].job].token
              /\ wk'[w].attempt = jobs[wk[w].job].attempt
              /\ UNCHANGED <<jvars, catalog>>
           \/ wk'[w].pc = "idle"
           \/ /\ wk[w].pc \notin {"idle", "claimed"}
              /\ wk'[w].pc \notin {"idle", "claimed"}
              /\ wk'[w].job = wk[w].job /\ wk'[w].granted = wk[w].granted
              /\ wk'[w].token = wk[w].token /\ wk'[w].attempt = wk[w].attempt
              /\ wk'[w].pc \in Before => wk[w].pc \in Before
              /\ UNCHANGED jvars
              /\ wk'[w].pc = "save" => HasLease(w)
              /\ wk'[w].pc \in Computing =>
                   /\ UNCHANGED catalog
                   /\ ~Committed(wk[w].job) \/ wk[w].pc \in Computing
<1>1. wk \in [Procs -> WorkerState] /\ wk[w] \in WorkerState
  BY DEF IInv, TypeOK
<1>2. WorkerNext(w)
  BY OwnSteps
<1>3. ASSUME NEW pc, Goto(w, pc)
      PROVE  /\ wk'[w].pc = pc /\ wk'[w].job = wk[w].job
             /\ wk'[w].granted = wk[w].granted /\ wk'[w].token = wk[w].token
             /\ wk'[w].attempt = wk[w].attempt
  BY <1>1, <1>3 DEF Goto, WorkerState
<1>4. Stop(w) => wk'[w].pc = "idle"
  BY <1>1, EmptyHands DEF Stop
<1>5. CASE \E j \in Jobs : ClaimNext(w, j)
  <2>1. PICK j \in Jobs : ClaimNext(w, j)
    BY <1>5
  <2> DEFINE g == jobs[j].token + 1
  <2>2. wk'[w] = [Idle EXCEPT !.pc = "claimed", !.job = j, !.granted = g]
    BY <1>1, <2>1 DEF ClaimNext
  <2>3. wk'[w].pc = "claimed" /\ wk'[w].job = j /\ wk'[w].granted = g
    <3> HIDE DEF g
    <3> QED
      BY <2>2, EmptyHands DEF WorkerState
  <2> QED
    BY <2>1, <2>3
<1>6. CASE Reread(w)
  BY <1>1, <1>6 DEF Reread, At, WorkerState
<1>7. CASE Begin(w) \/ Cleanup(w) \/ LockTimeout(w) \/ ComputeFails(w)
  BY <1>3, <1>7 DEF Begin, Cleanup, LockTimeout, ComputeFails, At, Computing, Before, Staged
<1>8. CASE Replay(w)
  BY <1>3, <1>8 DEF Replay, At, Computing, Before, Staged
<1>9. CASE Snapshot(w)
  <2>1. CASE Goto(w, "except")
    BY <1>3, <1>9, <2>1 DEF Snapshot, At, Computing, Before, Staged
  <2>2. CASE ~Goto(w, "except")
    BY <1>1, <1>9, <2>2 DEF Snapshot, At, Computing, Before, Staged, WorkerState
  <2> QED
    BY <2>1, <2>2
<1>10. CASE Compute(w) \/ LockCredential(w) \/ CommitLease(w)
  BY <1>3, <1>10 DEF Compute, LockCredential, CommitLease, At, Computing, Before, Staged
<1>11. CASE VerifyAuthority(w)
  <2>1. CASE Publishable(w)
    BY <1>1, <1>11, <2>1 DEF VerifyAuthority, Publishable, At, Computing, Before, Staged, WorkerState
  <2>2. CASE ~Publishable(w)
    BY <1>3, <1>11, <2>2 DEF VerifyAuthority, At, Computing, Before, Staged
  <2> QED
    BY <2>1, <2>2
<1>12. CASE SaveCatalog(w) \/ SaveFails(w)
  BY <1>1, <1>12 DEF SaveCatalog, SaveFails, At, Computing, Before, Staged, WorkerState
<1>13. CASE Complete(w)
  BY <1>3, <1>4, <1>13 DEF Complete, At, Computing, Before, Staged
<1>14. CASE Except(w)
  BY <1>3, <1>4, <1>14 DEF Except, At, Computing, Before, Staged
<1>15. CASE Recover(w) \/ Fail(w) \/ Crash(w)
  BY <1>4, <1>15 DEF Recover, Fail, Crash
<1>16. ~Poll(w) /\ ~Heartbeat(w)
  BY DEF Poll, Heartbeat, evars
<1> QED
  BY <1>2, <1>5, <1>6, <1>7, <1>8, <1>9, <1>10, <1>11, <1>12, <1>13, <1>14, <1>15, <1>16
     DEF WorkerNext, WorkerStep

\* No call of the store moves a row under a lease that has not run out, except to
\* keep it there or to close the job.
LEMMA LeasedRowStays ==
    ASSUME JInv, NEW j \in Jobs,
           StoreWrite \/ \E k \in Jobs, s \in Scopes \cup {None} : CreateNew(k, s),
           jobs[j].status \notin {"ABSENT", "QUEUED", "RECOVERY_REQUIRED"},
           jobs[j].status \in Running => jobs[j].lease > 0
    PROVE  /\ jobs'[j].token = jobs[j].token
           /\ jobs'[j].status \notin {"ABSENT", "QUEUED", "RECOVERY_REQUIRED"}
           /\ jobs'[j].status \in Running => jobs'[j].lease > 0
<1> DEFINE Stays(r) == /\ r.token = jobs[j].token
                       /\ r.status \notin {"ABSENT", "QUEUED", "RECOVERY_REQUIRED"}
                       /\ r.status \in Running => r.lease > 0
<1> SUFFICES Stays(jobs'[j])
  OBVIOUS
<1>1. /\ jobs \in [Jobs -> Row] /\ jobs[j] \in Row /\ OwnerIffRunning
      /\ jobs[j].owner # None <=> jobs[j].status \in Running
  BY DEF JInv, JTypeOK, OwnerIffRunning
<1>2. Stays(jobs[j])
  OBVIOUS
<1>3. ASSUME NEW k \in Jobs, NEW r, jobs' = [jobs EXCEPT ![k] = r], k = j => Stays(r)
      PROVE  Stays(jobs'[j])
  BY <1>1, <1>2, <1>3
<1>4. \A s \in {"SUCCEEDED", "FAILED"} : Stays(Released(jobs[j], s))
  BY <1>1, RowReleased
<1>5. ~Expired(j) /\ (jobs[j].status = "RUNNING" => Live(j))
  BY <1>1 DEF Expired, Live, Row
<1>6. Swept[j] = jobs[j]
  BY <1>5 DEF Swept
<1> HIDE DEF Stays
<1>7. ASSUME NEW k \in Jobs, NEW s, CreateNew(k, s) PROVE Stays(jobs'[j])
  <2>1. k # j
    BY <1>7 DEF CreateNew, Exists
  <2> QED
    BY <1>3, <1>7, <2>1 DEF CreateNew
<1>8. ASSUME NEW k \in Jobs, NEW w \in Workers, Claim(w, k) PROVE Stays(jobs'[j])
  <2>1. k # j
    BY <1>8 DEF Claim, Queued
  <2> QED
    BY <1>1, <1>2, <1>6, <1>8, <2>1, RowSwept DEF Claim
<1>9. CASE Sweep
  BY <1>2, <1>6, <1>9 DEF Sweep
<1>10. ASSUME NEW k \in Jobs, NEW w, NEW t, Renew(k, w, t) PROVE Stays(jobs'[j])
  BY <1>1, <1>2, <1>10, JobStoreAssumption DEF Renew, Row, Stays
<1>11. ASSUME NEW k \in Jobs, NEW w, NEW t, NEW s \in {"SUCCEEDED", "FAILED"}, Finish(k, w, t, s)
       PROVE  Stays(jobs'[j])
  <2>1. jobs' = [jobs EXCEPT ![k] = Released(jobs[k], s)]
    BY <1>1, <1>11 DEF Finish
  <2> QED
    BY <1>3, <1>4, <2>1
<1>12. ASSUME NEW k \in Jobs, RecoverCommitted(k) PROVE Stays(jobs'[j])
  <2>1. CASE jobs[k].status = "SUCCEEDED"
    BY <1>1, <1>2, <1>12, <2>1 DEF RecoverCommitted
  <2>2. CASE jobs[k].status # "SUCCEEDED"
    <3>1. jobs' = [jobs EXCEPT ![k] = Released(jobs[k], "SUCCEEDED")]
      BY <1>1, <1>12, <2>2 DEF RecoverCommitted
    <3> QED
      BY <1>3, <1>4, <3>1
  <2> QED
    BY <2>1, <2>2
<1>13. ASSUME NEW k \in Jobs, NEW a, RequeueLocal(k, a) PROVE Stays(jobs'[j])
  <2>1. k # j
    BY <1>5, <1>13 DEF RequeueLocal, CanRequeue
  <2> QED
    BY <1>3, <1>13, <2>1 DEF RequeueLocal
<1>14. ASSUME NEW k \in Jobs, Cancel(k) PROVE Stays(jobs'[j])
  BY <1>1, <1>2, <1>14 DEF Cancel, Row, Stays
<1>15. CASE UNCHANGED jvars
  BY <1>2, <1>15 DEF jvars
<1> QED
  BY <1>7, <1>8, <1>9, <1>10, <1>11, <1>12, <1>13, <1>14, <1>15 DEF StoreWrite

\* Only the clock touches the job table while a publication holds its writer lock.
LEMMA NothingButTime ==
    ASSUME IInv, [Next]_vars, NEW w \in Procs, wk[w].pc \in UnderStore
    PROVE  UNCHANGED jobs \/ Tick
<1>1. ~StoreFree
  BY FencedAssumption DEF IInv, LocksMatch, StoreFree
<1>2. ASSUME ClientNext PROVE UNCHANGED jobs
  BY <1>1, <1>2 DEF ClientNext, Submit, CancelJob, ReadJob, Revoke, Expire, EditInPlace,
     CreateLoad, CreateSave, RecoveryCheck, RecoveryLock, RecoveryRequeue, jvars
<1>3. ASSUME NEW x \in Procs, WorkerNext(x) PROVE UNCHANGED jobs
  BY <1>1, <1>3 DEF WorkerNext, WorkerStep, ClaimNext, Poll, LockTimeout, Heartbeat, Crash,
     Reread, Begin, Replay, Snapshot, Compute, ComputeFails, LockCredential, CommitLease,
     VerifyAuthority, SaveCatalog, SaveFails, Cleanup, Complete, Except, Recover, Fail, jvars
<1> QED
  BY <1>2, <1>3 DEF Next, TimePasses, vars

\* No step lowers a token, and none changes it under a publication.
LEMMA TokensStay ==
    ASSUME IInv, [Next]_vars, NEW j \in Jobs
    PROVE  /\ jobs[j].token \in Nat /\ jobs'[j].token \in Nat
           /\ jobs'[j].token >= jobs[j].token
           /\ (\E w \in Procs : wk[w].pc \in UnderStore) => jobs'[j].token = jobs[j].token
<1>1. [JNext]_jvars /\ JInv
  BY StoreNext DEF IInv
<1>2. JInv'
  BY <1>1, JNextInv
<1>3. jobs[j] \in Row /\ jobs'[j] \in Row
  BY <1>1, <1>2 DEF JInv, JTypeOK
<1>4. jobs'[j].token >= jobs[j].token
  BY <1>1, StepMoves DEF Moves
<1>5. ASSUME NEW w \in Procs, wk[w].pc \in UnderStore PROVE jobs'[j].token = jobs[j].token
  BY <1>3, <1>5, NothingButTime, RowAged DEF Tick
<1> QED
  BY <1>3, <1>4, <1>5 DEF Row

LEMMA FreshKept ==
    ASSUME PromptClaim, IInv, TokensHeld, [Next]_vars, NEW w \in Procs
    PROVE  Fresh(w)'
<1> SUFFICES ASSUME wk'[w].pc = "claimed"
             PROVE  LET row == jobs'[wk'[w].job] IN
                    /\ row.token = wk'[w].granted
                    /\ row.status \notin {"ABSENT", "QUEUED", "RECOVERY_REQUIRED"}
                    /\ row.status \in Running => row.lease > 0
  BY DEF Fresh
<1>1. CASE wk'[w] = wk[w]
  <2> DEFINE j == wk[w].job
  <2>1. j \in Jobs /\ JInv /\ Fresh(w) /\ jobs \in [Jobs -> Row]
    BY <1>1 DEF IInv, RequestsKnown, TokensHeld, JInv, JTypeOK
  <2>2. CASE TimePasses
    <3>1. jobs[j].owner # None => jobs[j].lease > 1
      BY <1>1, <2>1, <2>2 DEF TimePasses, At
    <3>2. jobs'[j] = Aged(jobs[j]) /\ jobs[j] \in Row
      BY <2>1, <2>2 DEF TimePasses, Tick
    <3>3. jobs[j].lease > 1 => Aged(jobs[j]).lease > 0
      BY <3>2 DEF Aged, Row
    <3>4. jobs[j].status \in Running => jobs[j].owner # None
      BY <2>1 DEF JInv, OwnerIffRunning
    <3> QED
      BY <1>1, <2>1, <3>1, <3>2, <3>3, <3>4, RowAged DEF Fresh
  <2>3. CASE StoreWrite \/ \E k \in Jobs, s \in Scopes \cup {None} : CreateNew(k, s)
    BY <1>1, <2>1, <2>3, LeasedRowStays DEF Fresh
  <2> QED
    BY <2>2, <2>3, StoreSteps
<1>2. CASE wk'[w] # wk[w]
  <2>1. PICK j \in Jobs : ClaimNext(w, j) /\ wk'[w].job = j /\ wk'[w].granted = jobs[j].token + 1
    BY <1>2, HandleSteps
  <2>2. jobs' = [Swept EXCEPT ![j] = Claimed(j, WorkerId[w])] /\ jobs \in [Jobs -> Row]
    BY <2>1 DEF ClaimNext, Claim, IInv, JInv, JTypeOK
  <2>3. jobs'[j] = Claimed(j, WorkerId[w])
    BY <2>2 DEF Swept
  <2>4. Claimed(j, WorkerId[w]).lease = LeaseTicks
    BY <2>2 DEF Claimed, Row
  <2> QED
    BY <2>1, <2>2, <2>3, <2>4, RowClaimed, FencedAssumption, JobStoreAssumption
<1> QED
  BY <1>1, <1>2

LEMMA GrantedKept ==
    ASSUME PromptClaim, IInv, TokensHeld, [Next]_vars, NEW w \in Procs
    PROVE  Granted(w)'
<1>0. wk[w] \in WorkerState /\ Fresh(w) /\ Granted(w)
  BY DEF IInv, TypeOK, TokensHeld
<1>1. CASE wk'[w] = wk[w]
  <2>1. CASE wk[w].pc = "idle"
    BY <1>1, <2>1 DEF Granted
  <2>2. CASE wk[w].pc # "idle"
    <3>1. wk[w].job \in Jobs /\ wk[w].granted \in Nat
      BY <1>0, <2>2 DEF IInv, RequestsKnown, WorkerState
    <3> QED
      BY <1>0, <1>1, <3>1, TokensStay DEF Granted, UnderStore
  <2> QED
    BY <2>1, <2>2
<1>2. CASE wk'[w] # wk[w]
  <2>1. ASSUME NEW j \in Jobs, ClaimNext(w, j),
               wk'[w].pc = "claimed", wk'[w].job = j, wk'[w].granted = jobs[j].token + 1
        PROVE  Granted(w)'
    <3>1. jobs' = [Swept EXCEPT ![j] = Claimed(j, WorkerId[w])] /\ jobs \in [Jobs -> Row]
      BY <2>1 DEF ClaimNext, Claim, IInv, JInv, JTypeOK
    <3>2. jobs'[j] = Claimed(j, WorkerId[w])
      BY <3>1 DEF Swept
    <3>3. jobs'[j].token = jobs[j].token + 1 /\ jobs[j].token \in Nat
      BY <3>1, <3>2, RowClaimed, FencedAssumption DEF Row
    <3> QED
      BY <2>1, <3>3 DEF Granted
  <2>2. CASE wk'[w].pc = "idle"
    BY <2>2 DEF Granted
  <2>3. ASSUME wk[w].pc = "claimed", wk'[w].pc = "begin",
               wk'[w].job = wk[w].job, wk'[w].granted = wk[w].granted,
               wk'[w].token = jobs[wk[w].job].token, UNCHANGED jvars
        PROVE  Granted(w)'
    BY <1>0, <2>3 DEF Granted, Fresh, jvars, WorkerState
  <2>4. ASSUME wk[w].pc \notin {"idle", "claimed"}, wk'[w].pc \notin {"idle", "claimed"},
               wk'[w].job = wk[w].job, wk'[w].granted = wk[w].granted,
               wk'[w].token = wk[w].token, UNCHANGED jvars, wk'[w].pc = "save" => HasLease(w)
        PROVE  Granted(w)'
    BY <1>0, <2>4 DEF Granted, HasLease, LeaseOK, Holds, jvars
  <2> QED
    BY <1>2, <2>1, <2>2, <2>3, <2>4, HandleSteps
<1> QED
  BY <1>1, <1>2

LEMMA AloneKept ==
    ASSUME IInv, TokensHeld, [Next]_vars
    PROVE  Alone'
<1> SUFFICES ASSUME NEW w \in Procs, NEW x \in Procs, w # x,
                    wk'[w].pc # "idle", wk'[x].pc # "idle", wk'[w].job = wk'[x].job
             PROVE  wk'[w].granted # wk'[x].granted
  BY DEF Alone
<1>1. ASSUME NEW y \in Procs, wk'[y].pc # "idle",
             ~\E j \in Jobs : ClaimNext(y, j) /\ wk'[y].job = j /\ wk'[y].granted = jobs[j].token + 1
      PROVE  wk[y].pc # "idle" /\ wk'[y].job = wk[y].job /\ wk'[y].granted = wk[y].granted
  BY <1>1, HandleSteps
<1>2. ASSUME NEW y \in Procs, NEW z \in Procs, y # z, NEW j \in Jobs, ClaimNext(y, j),
             wk'[y].job = j, wk'[y].granted = jobs[j].token + 1, wk'[z].pc # "idle", wk'[z].job = j
      PROVE  wk'[z].granted # wk'[y].granted
  <2>1. wk'[z] = wk[z] /\ jobs \in [Jobs -> Row] /\ wk[z] \in WorkerState
    BY <1>2 DEF ClaimNext, IInv, TypeOK, JInv, JTypeOK
  <2>2. wk[z].granted <= jobs[j].token
    BY <1>2, <2>1 DEF TokensHeld, Granted
  <2>3. wk[z].granted \in Nat /\ jobs[j].token \in Nat
    BY <2>1 DEF WorkerState, Row
  <2> QED
    BY <1>2, <2>1, <2>2, <2>3
<1>3. CASE \E j \in Jobs : ClaimNext(w, j) /\ wk'[w].job = j /\ wk'[w].granted = jobs[j].token + 1
  BY <1>2, <1>3
<1>4. CASE \E j \in Jobs : ClaimNext(x, j) /\ wk'[x].job = j /\ wk'[x].granted = jobs[j].token + 1
  BY <1>2, <1>4
<1> QED
  BY <1>1, <1>3, <1>4 DEF TokensHeld, Alone

\* A process that was not suspended inside claim publishes only under the token its
\* own claim was granted: a replaced worker stays fenced off, whatever names the
\* processes share (jobs/store.py, claim and commit_lease).
THEOREM OldWorkersAreFenced ==
    ASSUME PromptClaim PROVE Spec => OldWorkerFenced
<1>1. Init => TokensHeld
  BY EmptyHands DEF Init, TokensHeld, Alone, Fresh, Granted
<1>2. IInv /\ TokensHeld /\ [Next]_vars => TokensHeld'
  BY FreshKept, GrantedKept, AloneKept DEF TokensHeld
<1>3. IInv /\ TokensHeld /\ [Next]_vars =>
        [\A w \in Procs : At(w, "save") /\ catalog' # catalog /\ wk'[w] # wk[w] =>
           wk[w].granted = jobs[wk[w].job].token]_vars
  BY DEF TokensHeld, Granted, At
<1> QED
  BY <1>1, <1>2, <1>3, ExecutionInvariant, PTL DEF Spec, OldWorkerFenced

\* An execution that found no receipt stays the only one that can write it, for as
\* long as its token is the current one.
Unpublished(w) ==
    wk[w].pc \in Computing /\ wk[w].token = jobs[wk[w].job].token => ~Committed(wk[w].job)

\* A receipt is written by the process that holds the current token.
LEMMA ReceiptByHolder ==
    ASSUME IInv, TokensHeld, [Next]_vars, NEW j \in Jobs, ~Committed(j), Committed(j)'
    PROVE  /\ jobs[j].status = "RUNNING" /\ jobs'[j].status # "FAILED"
           /\ \E x \in Procs : /\ SaveCatalog(x) /\ wk[x].job = j
                               /\ wk[x].granted = jobs[j].token
<1>1. PICK x \in Procs : SaveCatalog(x) /\ wk[x].job = j
  BY ReceiptSteps DEF Committed, NoReceipt
<1>2. jobs[j].status = "RUNNING" /\ jobs' = jobs
  BY <1>1 DEF SaveCatalog, At, IInv, StillTrue, UnderStore, jvars
<1>3. wk[x].granted = jobs[j].token
  BY <1>1 DEF SaveCatalog, At, TokensHeld, Granted
<1> QED
  BY <1>1, <1>2, <1>3

LEMMA UnpublishedKept ==
    ASSUME IInv, TokensHeld, [Next]_vars, NEW w \in Procs, Unpublished(w)
    PROVE  Unpublished(w)'
<1> SUFFICES ASSUME wk'[w].pc \in Computing, wk'[w].token = jobs'[wk'[w].job].token,
                    catalog'.commits[wk'[w].job] # NoReceipt
             PROVE  FALSE
  BY DEF Unpublished, Committed, Receipt, NoReceipt
<1>0. wk[w] \in WorkerState /\ Granted(w)
  BY DEF IInv, TypeOK, TokensHeld
<1>1. CASE wk'[w] = wk[w]
  <2>1. wk[w].job \in Jobs /\ wk[w].token = wk[w].granted /\ wk[w].granted \in Nat
    BY <1>0, <1>1 DEF Granted, Computing, IInv, RequestsKnown, WorkerState
  <2>2. wk[w].token = jobs[wk[w].job].token
    BY <1>0, <1>1, <2>1, TokensStay DEF Granted, Computing
  <2>3. ~Committed(wk[w].job)
    BY <1>1, <2>2 DEF Unpublished
  <2>4. PICK x \in Procs : /\ SaveCatalog(x) /\ wk[x].job = wk[w].job
                           /\ wk[x].granted = jobs[wk[w].job].token
    BY <1>1, <2>1, <2>3, ReceiptByHolder DEF Committed, Receipt, NoReceipt
  <2>5. x # w
    <3>1. wk' # wk /\ wk'[x].cat = EmptyCatalog /\ wk'[x].pc \in {"complete", "cleanup"}
      BY <2>4 DEF SaveCatalog, IInv, TypeOK, WorkerState, At
    <3> QED
      BY <1>1, <3>1 DEF Computing
  <2> QED
    BY <1>1, <2>1, <2>2, <2>4, <2>5 DEF TokensHeld, Alone, Computing, SaveCatalog, At
<1>2. CASE wk'[w] # wk[w]
  <2>1. /\ wk[w].pc \notin {"idle", "claimed"} /\ wk'[w].job = wk[w].job
        /\ wk'[w].token = wk[w].token /\ UNCHANGED <<jvars, catalog>>
        /\ ~Committed(wk[w].job) \/ wk[w].pc \in Computing
    BY <1>2, HandleSteps DEF Computing
  <2>2. Committed(wk[w].job)
    BY <2>1 DEF Committed, Receipt, NoReceipt
  <2> QED
    BY <2>1, <2>2 DEF Unpublished, jvars
<1> QED
  BY <1>1, <1>2

\* The store's calls that cannot report a failure.
LEMMA NoNewFailure ==
    ASSUME JInv, NEW j \in Jobs,
           \/ \E k \in Jobs, s \in Scopes \cup {None} : CreateNew(k, s)
           \/ \E w \in Workers, k \in Jobs : Claim(w, k)
           \/ Sweep
           \/ \E k \in Jobs, w \in Workers : \E t : Renew(k, w, t)
           \/ \E k \in Jobs, w \in Workers : \E t : Finish(k, w, t, "SUCCEEDED")
           \/ \E k \in Jobs : RecoverCommitted(k)
           \/ \E k \in Jobs : \E a : RequeueLocal(k, a)
           \/ \E k \in Jobs : Cancel(k)
           \/ Tick
           \/ UNCHANGED jvars,
           jobs[j].status # "FAILED"
    PROVE  jobs'[j].status # "FAILED"
<1> SUFFICES ASSUME jobs'[j].status = "FAILED" PROVE FALSE
  OBVIOUS
<1>1. jobs \in [Jobs -> Row] /\ jobs[j] \in Row
  BY DEF JInv, JTypeOK
<1>2. ASSUME NEW k \in Jobs, NEW r, jobs' = [jobs EXCEPT ![k] = r], r.status # "FAILED"
      PROVE  FALSE
  BY <1>1, <1>2
<1>3. Swept[j].status # "FAILED"
  BY <1>1, RowSwept DEF JInv
<1>4. ASSUME NEW k \in Jobs, NEW s, CreateNew(k, s) PROVE FALSE
  <2>1. PICK at : jobs' = [jobs EXCEPT ![k] = [NoRow EXCEPT !.status = "QUEUED",
                                                  !.created = at, !.scope = s]]
    BY <1>4 DEF CreateNew
  <2>2. [NoRow EXCEPT !.status = "QUEUED", !.created = at, !.scope = s].status # "FAILED"
    BY DEF NoRow
  <2> QED
    BY <1>2, <2>1, <2>2
<1>5. ~\E k \in Jobs, w \in Workers : Claim(w, k)
  BY <1>1, <1>3, RowClaimed DEF Claim, Swept
<1>6. ~Sweep /\ ~Tick /\ ~UNCHANGED jvars
  BY <1>1, <1>3, RowAged DEF Sweep, Tick, jvars
<1>7. ASSUME NEW k \in Jobs, NEW w, NEW t, Renew(k, w, t) PROVE FALSE
  BY <1>1, <1>7 DEF Renew, Row
<1>8. ASSUME NEW k \in Jobs, NEW w, NEW t, Finish(k, w, t, "SUCCEEDED") PROVE FALSE
  <2>1. jobs' = [jobs EXCEPT ![k] = Released(jobs[k], "SUCCEEDED")]
    BY <1>1, <1>8 DEF Finish
  <2> QED
    BY <1>1, <1>2, <2>1, RowReleased
<1>9. ASSUME NEW k \in Jobs, RecoverCommitted(k) PROVE FALSE
  BY <1>1, <1>9, RowReleased DEF RecoverCommitted
<1>10. ASSUME NEW k \in Jobs, NEW a, RequeueLocal(k, a) PROVE FALSE
  <2>1. jobs' = [jobs EXCEPT ![k] = Requeued(jobs[k])]
    BY <1>1, <1>10 DEF RequeueLocal
  <2>2. Requeued(jobs[k]).status = "QUEUED"
    BY <1>1, RowReleased DEF Requeued, Row
  <2> QED
    BY <1>2, <2>1, <2>2
<1>11. ASSUME NEW k \in Jobs, Cancel(k) PROVE FALSE
  BY <1>1, <1>11 DEF Cancel, Row
<1> QED
  BY <1>4, <1>5, <1>6, <1>7, <1>8, <1>9, <1>10, <1>11

\* The only step that reports a failure is that of a worker that holds the current
\* token and found no receipt.
LEMMA FailureByHolder ==
    ASSUME IInv, [Next]_vars, NEW j \in Jobs,
           jobs[j].status # "FAILED", jobs'[j].status = "FAILED"
    PROVE  \E w \in Procs : /\ wk[w].pc = "fail" /\ wk[w].job = j
                            /\ wk[w].token = jobs[j].token /\ UNCHANGED catalog
<1>1. jobs \in [Jobs -> Row] /\ JInv /\ WorkerId \in [Procs -> Workers]
  BY FencedAssumption DEF IInv, JInv, JTypeOK
<1>2. ASSUME ClientNext PROVE FALSE
  <2>1. CASE \/ \E k \in Jobs, s \in Scopes \cup {None} : Submit(k, s)
             \/ \E k \in Jobs : CancelJob(k) \/ ReadJob(k)
    BY <1>1, <2>1, NoNewFailure DEF Submit, CancelJob, ReadJob
  <2>2. CASE RecoveryRequeue
    BY <1>1, <2>2, NoNewFailure DEF RecoveryRequeue, IInv, RequestsKnown
  <2>3. CASE \/ \E c \in Principals : Revoke(c) \/ Expire(c)
             \/ \E e \in ModuleJobs \cup Edits, p \in Projects : EditInPlace(e, p)
             \/ CreateSave \/ \E p \in Projects : CreateLoad(p)
             \/ RecoveryLock \/ \E k \in Jobs : RecoveryCheck(k)
    BY <2>3 DEF Revoke, Expire, EditInPlace, CreateSave, CreateLoad, RecoveryLock,
       RecoveryCheck, jvars
  <2> QED
    BY <1>2, <2>1, <2>2, <2>3 DEF ClientNext
<1>3. ASSUME NEW w \in Procs, WorkerNext(w)
      PROVE  /\ wk[w].pc = "fail" /\ wk[w].job = j
             /\ wk[w].token = jobs[j].token /\ UNCHANGED catalog
  <2>1. wk[w].pc # "idle" => wk[w].job \in Jobs
    BY DEF IInv, RequestsKnown
  <2>2. CASE Fail(w)
    <3>1. wk[w].pc = "fail" /\ UNCHANGED catalog
      BY <2>2 DEF Fail, At
    <3>2. Finish(wk[w].job, WorkerId[w], wk[w].token, "FAILED")
      BY <2>2 DEF Fail, jvars
    <3>3. wk[w].job = j
      BY <1>1, <3>2 DEF Finish
    <3> QED
      BY <3>1, <3>2, <3>3 DEF Finish, CanFinish, Holds
  <2>3. CASE \/ Complete(w) \/ Recover(w) \/ Poll(w) \/ Heartbeat(w)
             \/ \E k \in Jobs : ClaimNext(w, k)
    BY <1>1, <2>1, <2>3, NoNewFailure DEF Complete, Recover, Poll, Heartbeat, ClaimNext, At
  <2>4. CASE \/ Reread(w) \/ Begin(w) \/ Replay(w) \/ Snapshot(w) \/ Compute(w)
             \/ ComputeFails(w) \/ LockCredential(w) \/ CommitLease(w)
             \/ VerifyAuthority(w) \/ SaveCatalog(w) \/ SaveFails(w) \/ Cleanup(w)
             \/ Except(w) \/ LockTimeout(w) \/ Crash(w)
    BY <2>4 DEF Reread, Begin, Replay, Snapshot, Compute, ComputeFails, LockCredential,
       CommitLease, VerifyAuthority, SaveCatalog, SaveFails, Cleanup, Except, LockTimeout,
       Crash, jvars
  <2> QED
    BY <1>3, <2>2, <2>3, <2>4 DEF WorkerNext, WorkerStep
<1>4. ~TimePasses /\ ~UNCHANGED vars
  BY <1>1, NoNewFailure DEF TimePasses, vars, jvars
<1> QED
  BY <1>2, <1>3, <1>4 DEF Next

\* What the tokens imply of receipts and reported failures.
FenceInv == TokensHeld /\ FailureIsUncommitted /\ \A w \in Procs : Unpublished(w)

LEMMA FenceInvariant ==
    ASSUME PromptClaim PROVE Spec => []FenceInv
<1>1. Init => FenceInv
  BY EmptyHands
     DEF Init, JInit, NoRow, FenceInv, TokensHeld, Alone, Fresh, Granted,
         FailureIsUncommitted, Unpublished, Computing
<1>2. IInv /\ FenceInv /\ [Next]_vars => FenceInv'
  <2> SUFFICES ASSUME IInv, FenceInv, [Next]_vars PROVE FenceInv'
    OBVIOUS
  <2>1. TokensHeld'
    BY FreshKept, GrantedKept, AloneKept DEF TokensHeld, FenceInv
  <2>2. \A w \in Procs : Unpublished(w)'
    BY UnpublishedKept DEF FenceInv
  <2>3. ASSUME NEW j \in Jobs, jobs'[j].status = "FAILED", Committed(j)' PROVE FALSE
    <3>1. Committed(j)
      BY <2>3, ReceiptByHolder DEF FenceInv
    <3>2. jobs[j].status # "FAILED"
      BY <3>1 DEF FailureIsUncommitted, FenceInv
    <3> QED
      BY <2>3, <3>1, <3>2, FailureByHolder DEF Unpublished, Computing, FenceInv
  <2> QED
    BY <2>1, <2>2, <2>3 DEF FailureIsUncommitted, FenceInv
<1> QED
  BY <1>1, <1>2, ExecutionInvariant, PTL DEF Spec

\* A job reported as failed has not published, and never will: whoever submits the
\* work again does not apply it twice (jobs/worker.py, run_once).
THEOREM FailedMeansUncommitted ==
    ASSUME PromptClaim PROVE Spec => []FailureIsUncommitted
<1>1. FenceInv => FailureIsUncommitted
  BY DEF FenceInv
<1> QED
  BY <1>1, FenceInvariant, PTL
-----------------------------------------------------------------------------
(* What is on disk is what the catalog says.                               *)

\* The attempt that will name the generation of a process.
AttemptOf(w) == IF wk[w].pc = "claimed" THEN jobs[wk[w].job].attempt ELSE wk[w].attempt

\* No receipt names the generation of an attempt that is still to be published.
AttemptsGrow ==
    /\ \A j \in Jobs : Committed(j) => Exists(j) /\ Receipt(j).root[3] <= jobs[j].attempt
    /\ \A w \in Procs :
         wk[w].pc \notin {"idle", "claimed"} => wk[w].attempt <= jobs[wk[w].job].attempt
    /\ \A w \in Procs :
         wk[w].pc \in Before /\ Committed(wk[w].job) /\ Receipt(wk[w].job).root[4] = w
           => Receipt(wk[w].job).root[3] < AttemptOf(w)

\* A staging directory holds the copy and the job applied to it, and nothing
\* writes there but the attempt itself.
StagedTrees ==
    \A w \in Procs : wk[w].pc \in Staged =>
        trees[Generation(w)] = wk[w].input \cup {wk[w].job}

\* What of a tree no tool outside the service touches.
Plain(t) == (t \cap Jobs) \ ModuleJobs

\* What is published replaces what it was computed from.
BaseHeld ==
    \A w \in Procs : wk[w].pc = "save" =>
        LET h == Handle(ProjectOf[wk[w].job]) IN
        /\ h.root = wk[w].root
        /\ h.rev = wk[w].rev
        /\ Plain(trees[h.root]) = Plain(wk[w].input)

\* The writing of the catalog that publishes a job.
LEMMA Publication ==
    ASSUME IInv, NEW w \in Procs, SaveCatalog(w)
    PROVE  /\ wk[w].job \in Jobs /\ ProjectOf[wk[w].job] \in Projects /\ wk[w].pc = "save"
           /\ Handle(ProjectOf[wk[w].job]) # NoProject
           /\ jobs[wk[w].job].status = "RUNNING"
           /\ UNCHANGED <<jvars, trees>>
           /\ catalog'.projects[ProjectOf[wk[w].job]]
                = [root |-> Generation(w), rev |-> wk[w].rev + 1]
           /\ \A q \in Projects \ {ProjectOf[wk[w].job]} : Handle(q)' = Handle(q)
           /\ catalog'.commits[wk[w].job] = NewReceipt(w)
           /\ \A k \in Jobs \ {wk[w].job} : Receipt(k)' = Receipt(k)
           /\ catalog' = [projects |-> [catalog.projects EXCEPT
                            ![ProjectOf[wk[w].job]] = [root |-> Generation(w), rev |-> wk[w].rev + 1]],
                          commits |-> [catalog.commits EXCEPT ![wk[w].job] = NewReceipt(w)]]
<1> DEFINE j == wk[w].job
           p == ProjectOf[j]
           handle == [root |-> Generation(w), rev |-> wk[w].rev + 1]
           receipt == NewReceipt(w)
           ps == [catalog.projects EXCEPT ![p] = handle]
           cs == [catalog.commits EXCEPT ![j] = receipt]
<1>1. /\ j \in Jobs /\ Exists(j) /\ p \in Projects /\ wk[w].pc = "save"
      /\ wk[w].cat = catalog /\ catalog \in Catalogs
      /\ jobs[j].status = "RUNNING" /\ UNCHANGED <<jvars, trees>>
  BY FencedAssumption
     DEF SaveCatalog, At, IInv, RequestsKnown, StillTrue, TypeOK, UnderStore
<1>2. Handle(p) # NoProject
  BY <1>1 DEF IInv, RootsNamed
<1>3. catalog' = [wk[w].cat EXCEPT !.projects[p] = handle, !.commits[j] = receipt]
  BY DEF SaveCatalog, NewCatalog
<1>4. /\ catalog' = [projects |-> ps, commits |-> cs]
      /\ DOMAIN catalog.projects = Projects /\ DOMAIN catalog.commits = Jobs
  BY <1>1, <1>3 DEF Catalogs
<1>5. /\ ps[p] = handle /\ \A q \in Projects \ {p} : ps[q] = catalog.projects[q]
      /\ cs[j] = receipt /\ \A k \in Jobs \ {j} : cs[k] = catalog.commits[k]
  BY <1>1, <1>4
<1>6. catalog'.projects = ps /\ catalog'.commits = cs
  BY <1>4
<1> HIDE DEF ps, cs, handle, receipt
<1>7. catalog'.projects[p] = handle /\ \A q \in Projects \ {p} : Handle(q)' = Handle(q)
  BY <1>5, <1>6 DEF Handle
<1>8. catalog'.commits[j] = receipt /\ \A k \in Jobs \ {j} : Receipt(k)' = Receipt(k)
  BY <1>1, <1>5, <1>6 DEF Receipt
<1> QED
  BY <1>1, <1>2, <1>4, <1>7, <1>8 DEF handle, receipt, ps, cs

\* Who writes in the workspace directories.
LEMMA TreeSteps ==
    ASSUME IInv, [Next]_vars, trees' # trees
    PROVE  \/ \E e \in ModuleJobs \cup Edits, p \in Projects : EditInPlace(e, p)
           \/ CreateSave
           \/ \E w \in Procs : Compute(w) \/ Cleanup(w)
<1>1. ASSUME ClientNext PROVE CreateSave \/ \E e \in ModuleJobs \cup Edits, p \in Projects : EditInPlace(e, p)
  BY <1>1 DEF ClientNext, Submit, CancelJob, ReadJob, Revoke, Expire, CreateLoad,
     RecoveryCheck, RecoveryLock, RecoveryRequeue, evars
<1>2. ASSUME NEW w \in Procs, WorkerNext(w) PROVE Compute(w) \/ Cleanup(w)
  BY <1>2 DEF WorkerNext, WorkerStep, ClaimNext, Poll, LockTimeout, Heartbeat, Crash,
     Reread, Begin, Replay, Snapshot, ComputeFails, LockCredential, CommitLease,
     VerifyAuthority, SaveCatalog, SaveFails, Complete, Except, Recover, Fail, evars
<1> QED
  BY <1>1, <1>2 DEF Next, TimePasses, vars, evars

\* The attempt recorded in a job's row only grows.
LEMMA AttemptStays ==
    ASSUME IInv, [Next]_vars, NEW j \in Jobs, Exists(j)
    PROVE  jobs[j].attempt \in Nat /\ jobs'[j].attempt \in Nat /\ jobs'[j].attempt >= jobs[j].attempt
<1>1. [JNext]_jvars /\ JInv
  BY StoreNext DEF IInv
<1>2. JInv'
  BY <1>1, JNextInv
<1> QED
  BY <1>1, <1>2, StepMoves DEF Moves, JInv, JTypeOK, Row, Exists

\* A generation that is still to be published is nobody's current root.
LEMMA NotCurrent ==
    ASSUME IInv, AttemptsGrow, NEW w \in Procs, wk[w].pc \in {"compute"} \cup Staged
    PROVE  /\ wk[w].job \in Jobs
           /\ \A p \in Projects : Handle(p) # NoProject => Handle(p).root # Generation(w)
           /\ \A j \in Jobs : Committed(j) => Receipt(j).root # Generation(w)
<1>1. /\ wk[w].job \in Jobs /\ Generation(w)[2] = wk[w].job /\ Generation(w)[3] = wk[w].attempt
      /\ Generation(w)[4] = w /\ (\A p : Generation(w) # FirstRoot(p)) /\ wk[w].attempt \in Nat
  BY GenerationNamed DEF IInv, RequestsKnown, Staged, Generation, TypeOK, WorkerState
<1>2. ASSUME NEW j \in Jobs, Committed(j), Receipt(j).root = Generation(w) PROVE FALSE
  <2>1. j = wk[w].job /\ Receipt(j).root[4] = w /\ Receipt(j).root[3] = wk[w].attempt
    BY <1>1, <1>2 DEF IInv, RootsNamed
  <2>2. Receipt(j).root[3] < wk[w].attempt
    BY <1>2, <2>1 DEF AttemptsGrow, AttemptOf, Before, Staged
  <2> QED
    BY <1>1, <2>1, <2>2
<1> QED
  BY <1>1, <1>2 DEF IInv, RootsNamed
\* What a publication writes, or anything else leaves, of one receipt.
LEMMA ReceiptMoves ==
    ASSUME IInv, [Next]_vars, NEW j \in Jobs
    PROVE  \/ Receipt(j)' = Receipt(j)
           \/ \E w \in Procs : SaveCatalog(w) /\ wk[w].job = j /\ catalog'.commits[j] = NewReceipt(w)
BY ReceiptSteps, Publication

LEMMA ReceiptTyped ==
    ASSUME IInv, NEW j \in Jobs, Committed(j)
    PROVE  Receipt(j).root \in Gens /\ Receipt(j).root[3] \in Nat
BY DEF IInv, RootsNamed, TypeOK, Gens

LEMMA AttemptsGrowKept ==
    ASSUME IInv, AttemptsGrow, [Next]_vars
    PROVE  AttemptsGrow'
<1>0. \A w \in Procs : wk[w] \in WorkerState /\ (wk[w].pc # "idle" => wk[w].job \in Jobs /\ Exists(wk[w].job))
  BY DEF IInv, TypeOK, RequestsKnown
<1>1. ASSUME NEW j \in Jobs, Committed(j)'
      PROVE  Exists(j)' /\ catalog'.commits[j].root[3] <= jobs'[j].attempt
  <2>1. CASE Receipt(j)' = Receipt(j)
    <3>1. Committed(j) /\ Exists(j) /\ Receipt(j).root[3] <= jobs[j].attempt
      BY <1>1, <2>1 DEF Committed, NoReceipt, AttemptsGrow
    <3>2. jobs'[j].status # "ABSENT"
      BY <3>1, AttemptStays, StoreNext, StepMoves DEF Moves, IInv, Exists
    <3> QED
      BY <2>1, <3>1, <3>2, AttemptStays, ReceiptTyped DEF Receipt, Exists
  <2>2. ASSUME NEW w \in Procs, SaveCatalog(w), wk[w].job = j, catalog'.commits[j] = NewReceipt(w)
        PROVE  Exists(j)' /\ catalog'.commits[j].root[3] <= jobs'[j].attempt
    <3>1. jobs' = jobs /\ Exists(j) /\ wk[w].attempt <= jobs[j].attempt
      BY <2>2, Publication, <1>0 DEF AttemptsGrow, jvars, Exists
    <3> QED
      BY <2>2, <3>1 DEF NewReceipt, Generation, Exists
  <2> QED
    BY <2>1, <2>2, ReceiptMoves
<1>2. ASSUME NEW w \in Procs, wk'[w].pc \notin {"idle", "claimed"}
      PROVE  wk'[w].attempt <= jobs'[wk'[w].job].attempt
  <2>1. CASE wk'[w] = wk[w]
    BY <1>0, <1>2, <2>1, AttemptStays DEF AttemptsGrow, WorkerState
  <2>2. CASE wk'[w] # wk[w]
    <3>1. wk[w].pc = "claimed" => jobs[wk[w].job].attempt \in Nat
      BY <1>0, AttemptStays
    <3> QED
      BY <1>0, <1>2, <2>2, <3>1, HandleSteps DEF AttemptsGrow, jvars
  <2> QED
    BY <2>1, <2>2
<1>3. ASSUME NEW w \in Procs, wk'[w].pc \in Before,
             catalog'.commits[wk'[w].job] # NoReceipt, catalog'.commits[wk'[w].job].root[4] = w
      PROVE  catalog'.commits[wk'[w].job].root[3] <
               IF wk'[w].pc = "claimed" THEN jobs'[wk'[w].job].attempt ELSE wk'[w].attempt
  <2>0. PICK j \in Jobs : j = wk'[w].job
    BY <1>0, <1>3, HandleSteps DEF Before, Staged
  <2>1. CASE \E k \in Jobs : ClaimNext(w, k) /\ wk'[w].pc = "claimed" /\ wk'[w].job = k
    <3>1. ClaimNext(w, j) /\ wk'[w].pc = "claimed" /\ catalog' = catalog
      BY <2>0, <2>1 DEF ClaimNext
    <3>2. jobs' = [Swept EXCEPT ![j] = Claimed(j, WorkerId[w])] /\ jobs \in [Jobs -> Row]
      BY <3>1 DEF ClaimNext, Claim, IInv, JInv, JTypeOK
    <3>3. jobs'[j].attempt = jobs[j].attempt + 1 /\ jobs[j].attempt \in Nat
      BY <3>1, <3>2, RowClaimed, FencedAssumption DEF Swept, Row
    <3>4. Committed(j) /\ Receipt(j).root[3] <= jobs[j].attempt /\ Receipt(j).root[3] \in Nat
      BY <1>3, <2>0, <3>1, ReceiptTyped DEF AttemptsGrow, Committed, Receipt, NoReceipt
    <3> QED
      BY <2>0, <3>1, <3>3, <3>4 DEF Receipt
  <2>2. CASE ~\E k \in Jobs : ClaimNext(w, k) /\ wk'[w].pc = "claimed" /\ wk'[w].job = k
    <3>1. wk[w].pc \in Before /\ wk[w].job = j
      BY <1>0, <2>0, <1>3, <2>2, HandleSteps DEF Before, Staged
    <3>2. ASSUME NEW x \in Procs, SaveCatalog(x), wk[x].job = j, catalog'.commits[j] = NewReceipt(x)
          PROVE  FALSE
      <4>1. x = w
        BY <1>3, <2>0, <3>2 DEF NewReceipt, Generation
      <4>2. wk'[x].pc \in {"complete", "cleanup"}
        BY <1>0, <3>2 DEF SaveCatalog, IInv, TypeOK, WorkerState
      <4> QED
        BY <1>3, <4>1, <4>2 DEF Before, Staged
    <3>3. Receipt(j)' = Receipt(j)
      BY <3>1, <3>2, ReceiptMoves
    <3>4. Committed(j) /\ Receipt(j).root[3] < AttemptOf(w) /\ Receipt(j).root[3] \in Nat
      BY <1>3, <2>0, <3>1, <3>3, ReceiptTyped DEF AttemptsGrow, Committed, Receipt, NoReceipt
    <3>5. jobs[j].attempt \in Nat /\ jobs'[j].attempt \in Nat /\ jobs'[j].attempt >= jobs[j].attempt
      BY <1>0, <3>1, AttemptStays DEF Before, Staged
    <3>6. CASE wk'[w] = wk[w]
      BY <1>0, <2>0, <3>1, <3>3, <3>4, <3>5, <3>6 DEF AttemptOf, Receipt, WorkerState
    <3>7. CASE wk'[w] # wk[w]
      BY <1>0, <1>3, <2>0, <2>2, <3>1, <3>3, <3>4, <3>5, <3>7, HandleSteps
         DEF AttemptOf, Receipt, WorkerState, jvars, Before, Staged
    <3> QED
      BY <3>6, <3>7
  <2> QED
    BY <2>1, <2>2
<1> QED
  BY <1>1, <1>2, <1>3 DEF AttemptsGrow, AttemptOf, Committed, Receipt, NoReceipt

\* How a process comes to, and stays in, the program counters of a publication.
LEMMA StagedSteps ==
    ASSUME IInv, [Next]_vars, NEW w \in Procs, wk'[w] # wk[w], wk'[w].pc \in Staged
    PROVE  /\ wk'[w].job = wk[w].job /\ wk'[w].attempt = wk[w].attempt
           /\ wk'[w].root = wk[w].root /\ wk'[w].rev = wk[w].rev /\ wk'[w].input = wk[w].input
           /\ UNCHANGED <<jvars, catalog>>
           /\ Compute(w) \/ (wk[w].pc \in Staged /\ UNCHANGED trees)
           /\ wk'[w].pc = "save" => Publishable(w)
<1>1. wk \in [Procs -> WorkerState] /\ wk[w] \in WorkerState
  BY DEF IInv, TypeOK
<1>2. WorkerNext(w)
  BY OwnSteps
<1>3. ASSUME NEW pc, Goto(w, pc)
      PROVE  /\ wk'[w].pc = pc /\ wk'[w].job = wk[w].job /\ wk'[w].attempt = wk[w].attempt
             /\ wk'[w].root = wk[w].root /\ wk'[w].rev = wk[w].rev /\ wk'[w].input = wk[w].input
  BY <1>1, <1>3 DEF Goto, WorkerState
<1>4. ~Stop(w)
  BY <1>1, EmptyHands DEF Stop, Staged
<1>5. CASE Compute(w) \/ LockCredential(w) \/ CommitLease(w)
  BY <1>3, <1>5 DEF Compute, LockCredential, CommitLease, At, Staged
<1>6. CASE VerifyAuthority(w)
  <2>1. CASE Publishable(w)
    BY <1>1, <1>6, <2>1 DEF VerifyAuthority, At, Staged, WorkerState
  <2>2. CASE ~Publishable(w)
    BY <1>3, <1>6, <2>2 DEF VerifyAuthority, Staged
  <2> QED
    BY <2>1, <2>2
<1>7. ~\E j \in Jobs : ClaimNext(w, j)
  BY HandleSteps DEF ClaimNext, At, Staged
<1>8. ASSUME \/ Reread(w) \/ Begin(w) \/ Replay(w) \/ Snapshot(w) \/ ComputeFails(w)
             \/ SaveCatalog(w) \/ SaveFails(w) \/ Cleanup(w) \/ LockTimeout(w)
             \/ Complete(w) \/ Except(w) \/ Recover(w) \/ Fail(w) \/ Crash(w)
             \/ Poll(w) \/ Heartbeat(w)
      PROVE  FALSE
  BY <1>1, <1>3, <1>4, <1>8
     DEF Reread, Begin, Replay, Snapshot, ComputeFails, SaveCatalog, SaveFails, Cleanup,
         LockTimeout, Complete, Except, Recover, Fail, Crash, Poll, Heartbeat, evars, Staged,
         WorkerState
<1> QED
  BY <1>2, <1>5, <1>6, <1>7, <1>8 DEF WorkerNext, WorkerStep

\* What lies under a root that is no attempt's own staging directory is only changed
\* by a tool outside the service.
LEMMA TreeKept ==
    ASSUME IInv, [Next]_vars, NEW g \in DOMAIN trees, g \in DOMAIN trees',
           \A w \in Procs : wk[w].pc = "compute" => g # Generation(w),
           \A p \in Projects : Handle(p) = NoProject => g # FirstRoot(p)
    PROVE  \/ trees'[g] = trees[g]
           \/ \E e \in ModuleJobs \cup Edits, p \in Projects :
                EditInPlace(e, p) /\ g = Handle(p).root /\ trees'[g] = Toggled(trees[g], e)
<1>1. CASE UNCHANGED trees
  BY <1>1
<1>2. ASSUME NEW e \in ModuleJobs \cup Edits, NEW p \in Projects, EditInPlace(e, p)
      PROVE  trees'[g] = trees[g] \/ (g = Handle(p).root /\ trees'[g] = Toggled(trees[g], e))
  BY <1>2 DEF EditInPlace, WithTree
<1>3. ASSUME CreateSave PROVE trees'[g] = trees[g]
  BY <1>3 DEF CreateSave, WithTree, IInv, StillTrue, RequestsKnown, Handle
<1>4. ASSUME NEW w \in Procs, Compute(w) PROVE trees'[g] = trees[g]
  BY <1>4 DEF Compute, At, WithTree
<1>5. ASSUME NEW w \in Procs, Cleanup(w) PROVE trees'[g] = trees[g]
  BY <1>5 DEF Cleanup, WithoutTree
<1> QED
  BY <1>1, <1>2, <1>3, <1>4, <1>5, TreeSteps

\* No two projects have one root.
LEMMA RootsApart ==
    ASSUME IInv, NEW p \in Projects, NEW q \in Projects, Handle(p) # NoProject,
           Handle(q) # NoProject, Handle(p).root = Handle(q).root
    PROVE  p = q
<1>1. /\ FirstRoot(p)[1] = p /\ FirstRoot(p)[2] = None
      /\ FirstRoot(q)[1] = q /\ FirstRoot(q)[2] = None
  BY DEF FirstRoot
<1>2. ASSUME NEW r \in Projects, Handle(r) # NoProject, Handle(r).root # FirstRoot(r)
      PROVE  Handle(r).root[2] \in Jobs /\ ProjectOf[Handle(r).root[2]] = r
  BY <1>2 DEF IInv, RootsNamed
<1>3. None \notin Jobs
  BY JobStoreAssumption
<1> QED
  BY <1>1, <1>2, <1>3

\* A project's current root keeps its plain jobs, and holds no others than those that
\* were committed.
LEMMA RootKeepsJobs ==
    ASSUME IInv, AttemptsGrow, [Next]_vars, NEW p \in Projects,
           Handle(p) # NoProject, Handle(p)' = Handle(p)
    PROVE  /\ Handle(p).root \in DOMAIN trees'
           /\ Plain(trees'[Handle(p).root]) = Plain(trees[Handle(p).root])
           /\ trees[Handle(p).root] \cap Jobs \subseteq CommittedIn(p) =>
                trees'[Handle(p).root] \cap Jobs \subseteq CommittedIn(p)
<1> DEFINE g == Handle(p).root
<1>1. g \in DOMAIN trees
  BY DEF IInv, RootsNamed
<1>2. g \in DOMAIN trees'
  BY NextInv DEF IInv, RootsNamed, Handle, NoProject
<1>3. \A w \in Procs : wk[w].pc = "compute" => g # Generation(w)
  BY NotCurrent
<1>4. ASSUME NEW q \in Projects, Handle(q) = NoProject, g = FirstRoot(q) PROVE FALSE
  <2>1. \A q1 : FirstRoot(q)[1] = q /\ FirstRoot(q)[2] = None /\ (FirstRoot(q1) = FirstRoot(q) => q1 = q)
    BY DEF FirstRoot
  <2> QED
    BY <1>4, <2>1, JobStoreAssumption DEF IInv, RootsNamed
<1>5. \/ trees'[g] = trees[g]
      \/ \E e \in ModuleJobs \cup Edits, q \in Projects :
           EditInPlace(e, q) /\ g = Handle(q).root /\ trees'[g] = Toggled(trees[g], e)
  <2> HIDE DEF g
  <2> QED
    BY <1>1, <1>2, <1>3, <1>4, TreeKept
<1>6. ASSUME NEW e \in ModuleJobs \cup Edits, NEW q \in Projects, EditInPlace(e, q),
             g = Handle(q).root, trees'[g] = Toggled(trees[g], e)
      PROVE  /\ Plain(trees'[g]) = Plain(trees[g])
             /\ trees[g] \cap Jobs \subseteq CommittedIn(p) => trees'[g] \cap Jobs \subseteq CommittedIn(p)
  <2>1. q = p
    BY <1>6, RootsApart DEF EditInPlace
  <2> QED
    <3> HIDE DEF g
    <3>1. e \in Edits \cup CommittedIn(p) /\ Edits \cap Jobs = {}
      BY <1>6, <2>1, FencedAssumption DEF EditInPlace
    <3> QED
      BY <1>6, <3>1, FencedAssumption DEF Toggled, Plain
<1> HIDE DEF g
<1>7. /\ Plain(trees'[g]) = Plain(trees[g])
      /\ trees[g] \cap Jobs \subseteq CommittedIn(p) => trees'[g] \cap Jobs \subseteq CommittedIn(p)
  BY <1>5, <1>6
<1> QED
  BY <1>2, <1>7 DEF g

LEMMA StagedTreesKept ==
    ASSUME IInv, AttemptsGrow, StagedTrees, [Next]_vars
    PROVE  StagedTrees'
<1> SUFFICES ASSUME NEW w \in Procs, wk'[w].pc \in Staged
             PROVE  trees'[<<ProjectOf[wk'[w].job], wk'[w].job, wk'[w].attempt, w>>]
                      = wk'[w].input \cup {wk'[w].job}
  BY DEF StagedTrees, Generation
<1>1. CASE wk'[w] = wk[w]
  <2> DEFINE g == Generation(w)
  <2>1. /\ trees[g] = wk[w].input \cup {wk[w].job} /\ g \in DOMAIN trees
        /\ wk[w].job \in Jobs
    BY <1>1 DEF StagedTrees, IInv, RootsNamed, RequestsKnown, Staged
  <2>2. /\ \A p \in Projects : Handle(p) # NoProject => Handle(p).root # g
        /\ g[4] = w /\ (\A p : g # FirstRoot(p))
        /\ \A x \in Procs : g = Generation(x) => x = w
    BY <1>1, <2>1, NotCurrent, GenerationNamed DEF Generation
  <2> HIDE DEF g
  <2>3. ASSUME NEW e \in ModuleJobs \cup Edits, NEW p \in Projects, EditInPlace(e, p) PROVE trees'[g] = trees[g]
    BY <2>1, <2>2, <2>3 DEF EditInPlace, WithTree
  <2>4. ASSUME CreateSave PROVE trees'[g] = trees[g]
    BY <2>1, <2>2, <2>4 DEF CreateSave, WithTree
  <2>5. ASSUME NEW x \in Procs, Compute(x) PROVE trees'[g] = trees[g]
    <3>1. wk'[x].pc = "commit" /\ wk[x].pc = "compute"
      BY <2>5 DEF Compute, Goto, At, IInv, TypeOK, WorkerState
    <3>2. x # w
      BY <1>1, <3>1
    <3> QED
      BY <2>1, <2>2, <2>5, <3>2 DEF Compute, WithTree
  <2>6. ASSUME NEW x \in Procs, Cleanup(x) PROVE trees'[g] = trees[g]
    <3>1. x # w
      BY <1>1, <2>6 DEF Cleanup, At, Staged
    <3> QED
      BY <2>1, <2>2, <2>6, <3>1 DEF Cleanup, WithoutTree
  <2>7. trees'[g] = trees[g]
    BY <2>3, <2>4, <2>5, <2>6, TreeSteps
  <2> QED
    BY <1>1, <2>1, <2>7 DEF g, Generation
<1>2. CASE wk'[w] # wk[w]
  <2>1. CASE Compute(w)
    <3>1. /\ wk'[w].job = wk[w].job /\ wk'[w].attempt = wk[w].attempt
          /\ wk'[w].input = wk[w].input
      BY <1>2, StagedSteps
    <3>2. trees'[Generation(w)] = wk[w].input \cup {wk[w].job}
      BY <2>1 DEF Compute, WithTree
    <3> QED
      BY <3>1, <3>2 DEF Generation
  <2>2. CASE ~Compute(w)
    BY <1>2, <2>2, StagedSteps DEF StagedTrees, Generation
  <2> QED
    BY <2>1, <2>2
<1> QED
  BY <1>1, <1>2

LEMMA BaseHeldKept ==
    ASSUME IInv, AttemptsGrow, BaseHeld, [Next]_vars
    PROVE  BaseHeld'
<1> SUFFICES ASSUME NEW w \in Procs, wk'[w].pc = "save"
             PROVE  LET h == catalog'.projects[ProjectOf[wk'[w].job]] IN
                    /\ h.root = wk'[w].root /\ h.rev = wk'[w].rev
                    /\ Plain(trees'[h.root]) = Plain(wk'[w].input)
  BY DEF BaseHeld, Handle
<1> DEFINE p == ProjectOf[wk[w].job]
<1>1. CASE wk'[w] = wk[w]
  <2>1. /\ wk[w].job \in Jobs /\ p \in Projects /\ Handle(p) # NoProject
        /\ Handle(p).root = wk[w].root /\ Handle(p).rev = wk[w].rev
        /\ Plain(trees[Handle(p).root]) = Plain(wk[w].input)
    BY <1>1, FencedAssumption DEF BaseHeld, IInv, RequestsKnown, RootsNamed
  <2>2. lock.project = w
    BY <1>1 DEF IInv, LocksMatch
  <2>3. ~CreateSave
    BY <2>2, FencedAssumption DEF CreateSave, IInv, LocksMatch
  <2>4. ASSUME NEW x \in Procs, SaveCatalog(x) PROVE FALSE
    <3>1. x = w
      BY <2>2, <2>4 DEF SaveCatalog, At, IInv, LocksMatch
    <3>2. wk'[x].pc \in {"complete", "cleanup"}
      BY <2>4 DEF SaveCatalog, IInv, TypeOK, WorkerState
    <3> QED
      BY <1>1, <3>1, <3>2
  <2>5. catalog' = catalog
    BY <2>3, <2>4, CatalogSteps
  <2> QED
    BY <1>1, <2>1, <2>5, RootKeepsJobs DEF Handle
<1>2. CASE wk'[w] # wk[w]
  <2>1. /\ wk'[w].job = wk[w].job /\ wk'[w].root = wk[w].root /\ wk'[w].rev = wk[w].rev
        /\ wk'[w].input = wk[w].input /\ catalog' = catalog /\ Publishable(w)
        /\ Compute(w) \/ trees' = trees
    BY <1>2, StagedSteps DEF Staged
  <2>2. ~Compute(w)
    BY DEF Compute, Goto, IInv, TypeOK, WorkerState
  <2> QED
    BY <2>1, <2>2 DEF Publishable, Handle
<1> QED
  BY <1>1, <1>2

\* What the disk and the catalog say of each other between the steps of a publication.
DiskInv == AttemptsGrow /\ StagedTrees /\ BaseHeld

LEMMA DiskInvariant == Spec => []DiskInv
<1>1. Init => DiskInv
  BY EmptyHands
     DEF Init, DiskInv, AttemptsGrow, StagedTrees, BaseHeld, Before, Staged, Committed, Receipt,
         EmptyCatalog
<1>2. IInv /\ DiskInv /\ [Next]_vars => DiskInv'
  BY AttemptsGrowKept, StagedTreesKept, BaseHeldKept DEF DiskInv
<1> QED
  BY <1>1, <1>2, ExecutionInvariant, PTL DEF Spec

\* What every published workspace holds, for the projects that a step leaves alone.
Matches(p) ==
    Handle(p) # NoProject =>
        /\ Handle(p).root \in DOMAIN trees
        /\ trees[Handle(p).root] \cap Jobs \subseteq CommittedIn(p)
        /\ CommittedIn(p) \ trees[Handle(p).root] \subseteq ModuleJobs
        /\ Handle(p).rev = Cardinality(CommittedIn(p))

\* A worker computes on what was committed.
InputsCommitted ==
    \A w \in Procs : wk[w].pc \in {"compute"} \cup Staged =>
        wk[w].input \cap Jobs \subseteq CommittedIn(ProjectOf[wk[w].job])

LEMMA MatchesKept ==
    ASSUME IInv, DiskInv, [Next]_vars, NEW p \in Projects, Handle(p)' = Handle(p),
           Matches(p), CommittedIn(p)' = CommittedIn(p)
    PROVE  Matches(p)'
<1> SUFFICES ASSUME Handle(p) # NoProject PROVE Matches(p)'
  BY DEF Matches, NoProject
<1>1. /\ Handle(p).root \in DOMAIN trees'
      /\ Plain(trees'[Handle(p).root]) = Plain(trees[Handle(p).root])
      /\ trees'[Handle(p).root] \cap Jobs \subseteq CommittedIn(p)
  BY RootKeepsJobs DEF DiskInv, Matches
<1>2. CommittedIn(p) \ trees'[Handle(p).root] \subseteq ModuleJobs
  BY <1>1 DEF Matches, Plain, CommittedIn
<1> QED
  BY <1>1, <1>2 DEF Matches, Handle

\* The publication of a job that has no receipt adds that job and nothing else.
LEMMA PublicationMatches ==
    ASSUME IInv, DiskInv, NEW w \in Procs, SaveCatalog(w), ~Committed(wk[w].job),
           NEW p \in Projects, p = ProjectOf[wk[w].job], Matches(p), InputsCommitted
    PROVE  Matches(p)'
<1> DEFINE j == wk[w].job
           g == Generation(w)
           C == CommittedIn(p)
<1>1. /\ j \in Jobs /\ p \in Projects /\ wk[w].pc = "save" /\ Handle(p) # NoProject
      /\ trees' = trees
      /\ catalog'.projects[p] = [root |-> g, rev |-> wk[w].rev + 1]
      /\ catalog'.commits[j] = NewReceipt(w)
      /\ \A k \in Jobs \ {j} : Receipt(k)' = Receipt(k)
  BY Publication
<1>2. /\ trees[g] = wk[w].input \cup {j} /\ g \in DOMAIN trees
      /\ Handle(p).rev = wk[w].rev /\ wk[w].input \cap Jobs \subseteq C
      /\ Plain(trees[Handle(p).root]) = Plain(wk[w].input)
      /\ wk[w].rev = Cardinality(C)
  BY <1>1 DEF DiskInv, StagedTrees, BaseHeld, IInv, RootsNamed, Matches, Staged, InputsCommitted
<1>7. C \ wk[w].input \subseteq ModuleJobs
  BY <1>1, <1>2 DEF Matches, Plain, CommittedIn
<1>3. NewReceipt(w) # NoReceipt
  BY <1>1 DEF NewReceipt, NoReceipt, IInv, TypeOK, WorkerState
<1> HIDE DEF g
<1>4. {k \in Jobs : ProjectOf[k] = p /\ catalog'.commits[k] # NoReceipt} = C \cup {j}
  BY <1>1, <1>3 DEF CommittedIn, Committed, Receipt
<1>5. Cardinality(C \cup {j}) = Cardinality(C) + 1
  <2>1. IsFiniteSet(C) /\ j \notin C
    BY FS_Subset, JobStoreAssumption DEF CommittedIn
  <2> HIDE DEF C, j
  <2> QED
    BY <2>1, FS_AddElement
<1>6. /\ catalog'.projects[p].root = g /\ catalog'.projects[p].rev = Cardinality(C) + 1
      /\ trees'[g] \cap Jobs \subseteq C \cup {j} /\ g \in DOMAIN trees'
      /\ (C \cup {j}) \ trees'[g] \subseteq ModuleJobs
  BY <1>1, <1>2, <1>7
<1> QED
  BY <1>1, <1>4, <1>5, <1>6 DEF Matches, CommittedIn, Committed, Receipt, Handle, NoReceipt

LEMMA FirstPublication ==
    ASSUME IInv, FenceInv, NEW w \in Procs, SaveCatalog(w)
    PROVE  ~Committed(wk[w].job)
BY DEF SaveCatalog, At, FenceInv, TokensHeld, Granted, Unpublished, Computing

\* No receipt is ever written over.
LEMMA ReceiptsFinal ==
    ASSUME IInv, FenceInv, [Next]_vars, NEW j \in Jobs, Committed(j)
    PROVE  Receipt(j)' = Receipt(j) /\ Committed(j)'
BY ReceiptSteps, FirstPublication DEF Committed, Receipt, NoReceipt

\* How a process comes to compute, or goes on to its publication.
GoesOn(w) ==
    /\ wk[w].pc \in {"compute"} \cup Staged
    /\ wk'[w].job = wk[w].job /\ wk'[w].rev = wk[w].rev /\ wk'[w].input = wk[w].input

Snaps(w) ==
    LET p == ProjectOf[wk[w].job] IN
    /\ wk[w].pc = "snapshot" /\ Vouched(p) /\ wk'[w].job = wk[w].job /\ catalog' = catalog
    /\ wk'[w].rev = Handle(p).rev /\ wk'[w].input = trees[Handle(p).root]

LEMMA ComputingSteps ==
    ASSUME IInv, [Next]_vars, NEW w \in Procs, wk'[w].pc \in {"compute"} \cup Staged
    PROVE  GoesOn(w) \/ Snaps(w)
<1>1. CASE wk'[w] = wk[w]
  BY <1>1 DEF GoesOn
<1>2. CASE Snapshot(w) /\ ~Goto(w, "except")
  BY <1>2 DEF Snapshot, At, IInv, TypeOK, WorkerState, Snaps
<1>3. CASE wk'[w] # wk[w] /\ wk'[w].pc \in Staged
  <2>1. /\ wk'[w].job = wk[w].job /\ wk'[w].rev = wk[w].rev /\ wk'[w].input = wk[w].input
        /\ Compute(w) \/ wk[w].pc \in Staged
    BY <1>3, StagedSteps
  <2> QED
    BY <2>1 DEF Compute, At, GoesOn
<1>4. CASE wk'[w] # wk[w] /\ wk'[w].pc = "compute"
  <2>1. wk \in [Procs -> WorkerState] /\ wk[w] \in WorkerState /\ WorkerNext(w)
    BY <1>4, OwnSteps DEF IInv, TypeOK
  <2>2. ~\E j \in Jobs : ClaimNext(w, j)
    BY <1>4, HandleSteps DEF ClaimNext, At
  <2>3. ASSUME NEW pc, Goto(w, pc) PROVE pc = "compute"
    BY <1>4, <2>1, <2>3 DEF Goto, WorkerState
  <2>4. ~Stop(w)
    BY <1>4, <2>1, EmptyHands DEF Stop
  <2>5. Snapshot(w) => ~Goto(w, "except")
    BY <2>3
  <2>6. ~Reread(w) /\ ~VerifyAuthority(w) /\ ~SaveCatalog(w) /\ ~SaveFails(w)
    BY <1>4, <2>1, <2>3 DEF Reread, VerifyAuthority, SaveCatalog, SaveFails, WorkerState
  <2>7. ~Begin(w) /\ ~Replay(w) /\ ~Compute(w) /\ ~ComputeFails(w) /\ ~LockCredential(w)
        /\ ~CommitLease(w) /\ ~Cleanup(w) /\ ~LockTimeout(w)
    BY <2>3 DEF Begin, Replay, Compute, ComputeFails, LockCredential, CommitLease, Cleanup,
       LockTimeout
  <2>8. ~Complete(w) /\ ~Except(w) /\ ~Recover(w) /\ ~Fail(w) /\ ~Crash(w)
    BY <2>3, <2>4 DEF Complete, Except, Recover, Fail, Crash
  <2>9. ~Poll(w) /\ ~Heartbeat(w)
    BY <1>4 DEF Poll, Heartbeat, evars
  <2> QED
    BY <1>2, <2>1, <2>2, <2>5, <2>6, <2>7, <2>8, <2>9 DEF WorkerNext, WorkerStep
<1> QED
  BY <1>1, <1>3, <1>4

LEMMA InputsKept ==
    ASSUME IInv, FenceInv, AuthorityMatchesReceipts, InputsCommitted, [Next]_vars
    PROVE  InputsCommitted'
<1>1. \A p : CommittedIn(p) \subseteq CommittedIn(p)'
  BY ReceiptsFinal DEF CommittedIn
<1> SUFFICES ASSUME NEW w \in Procs, wk'[w].pc \in {"compute"} \cup Staged
             PROVE  \A j \in wk'[w].input \cap Jobs :
                       ProjectOf[j] = ProjectOf[wk'[w].job] /\ catalog'.commits[j] # NoReceipt
  BY DEF InputsCommitted, CommittedIn, Committed, Receipt
<1>2. CASE GoesOn(w)
  <2>1. wk[w].input \cap Jobs \subseteq CommittedIn(ProjectOf[wk[w].job])
    BY <1>2 DEF GoesOn, InputsCommitted
  <2> QED
    BY <1>1, <1>2, <2>1 DEF GoesOn, CommittedIn, Committed, Receipt
<1>3. CASE Snaps(w)
  <2> DEFINE p == ProjectOf[wk[w].job]
  <2>1. p \in Projects /\ Handle(p) # NoProject
    BY <1>3, FencedAssumption DEF Snaps, IInv, RequestsKnown, RootsNamed
  <2>2. trees[Handle(p).root] \cap Jobs \subseteq CommittedIn(p)
    BY <2>1 DEF AuthorityMatchesReceipts
  <2> QED
    BY <1>1, <1>3, <2>2 DEF Snaps, CommittedIn, Committed, Receipt
<1> QED
  BY <1>2, <1>3, ComputingSteps

LEMMA AuthorityKept ==
    ASSUME IInv, FenceInv, DiskInv, AuthorityMatchesReceipts, InputsCommitted, [Next]_vars
    PROVE  AuthorityMatchesReceipts'
<1> SUFFICES ASSUME NEW p \in Projects PROVE Matches(p)'
  BY DEF AuthorityMatchesReceipts, Matches
<1>1. Matches(p)
  BY DEF AuthorityMatchesReceipts, Matches
<1>2. CASE catalog' = catalog
  BY <1>1, <1>2, MatchesKept DEF Handle, CommittedIn, Committed, Receipt, NoReceipt
<1>3. CASE CreateSave
  <2>1. /\ creator.cat = catalog /\ catalog \in Catalogs /\ creator.project \in Projects
        /\ Handle(creator.project) = NoProject
    BY <1>3 DEF CreateSave, IInv, StillTrue, RequestsKnown, TypeOK, Handle
  <2>2. catalog'.commits = catalog.commits
    BY <1>3, <2>1 DEF CreateSave, Catalogs
  <2>3. CASE p = creator.project
    <3>1. catalog'.projects[p] = [root |-> FirstRoot(p), rev |-> 0]
      BY <1>3, <2>1, <2>3 DEF CreateSave, Catalogs
    <3>2. trees'[FirstRoot(p)] = {} /\ FirstRoot(p) \in DOMAIN trees'
      BY <1>3, <2>3 DEF CreateSave, WithTree
    <3>3. CommittedIn(p) = {}
      BY <2>1, <2>3 DEF CommittedIn, DiskInv, AttemptsGrow, IInv, RootsNamed
    <3>4. CommittedIn(p)' = {}
      BY <2>2, <3>3 DEF CommittedIn, Committed, Receipt, NoReceipt
    <3> QED
      BY <3>1, <3>2, <3>4, FS_EmptySet DEF Matches, Handle
  <2>4. CASE p # creator.project
    <3>1. catalog'.projects[p] = catalog.projects[p]
      BY <1>3, <2>1, <2>4 DEF CreateSave, Catalogs
    <3> QED
      BY <1>1, <2>2, <3>1, MatchesKept DEF Handle, CommittedIn, Committed, Receipt, NoReceipt
  <2> QED
    BY <2>3, <2>4
<1>4. ASSUME NEW w \in Procs, SaveCatalog(w) PROVE Matches(p)'
  <2>1. CASE p = ProjectOf[wk[w].job]
    BY <1>1, <1>4, <2>1, FirstPublication, PublicationMatches
  <2>2. CASE p # ProjectOf[wk[w].job]
    <3>1. Handle(p)' = Handle(p) /\ \A k \in Jobs \ {wk[w].job} : Receipt(k)' = Receipt(k)
      BY <1>4, <2>2, Publication
    <3>2. CommittedIn(p)' = CommittedIn(p)
      BY <2>2, <3>1 DEF CommittedIn, Committed, NoReceipt
    <3> QED
      BY <1>1, <3>1, <3>2, MatchesKept
  <2> QED
    BY <2>1, <2>2
<1> QED
  BY <1>2, <1>3, <1>4, CatalogSteps

LEMMA AuthorityMatches ==
    ASSUME PromptClaim PROVE Spec => [](AuthorityMatchesReceipts /\ InputsCommitted)
<1>1. Init => AuthorityMatchesReceipts /\ InputsCommitted
  BY EmptyHands DEF Init, EmptyCatalog, AuthorityMatchesReceipts, Handle, InputsCommitted, Staged
<1>2. IInv /\ FenceInv /\ DiskInv /\ AuthorityMatchesReceipts /\ InputsCommitted /\ [Next]_vars
        => (AuthorityMatchesReceipts /\ InputsCommitted)'
  BY AuthorityKept, InputsKept
<1> QED
  BY <1>1, <1>2, ExecutionInvariant, FenceInvariant, DiskInvariant, PTL DEF Spec

\* The published workspace of a project holds exactly the jobs that have a receipt,
\* each applied once, but for state a tool has taken away, and no failed job is among
\* them, however attempts, crashes and retries interleave (services/execution.py,
\* execute_fenced).
THEOREM ReceiptsTellTheTruth ==
    ASSUME PromptClaim PROVE Spec => []ReceiptsAreTrue
BY AuthorityMatches, FailedMeansUncommitted, PTL DEF ReceiptsAreTrue

\* A publication moves the root and the revision of one project and writes one new
\* receipt in the same step, from the state it was computed on (services/execution.py).
THEOREM PublicationsAreAtomic ==
    ASSUME PromptClaim PROVE Spec => PublishAtomic
<1> DEFINE Atomic(p) ==
             \E j \in Jobs :
               /\ ProjectOf[j] = p
               /\ ~Committed(j)
               /\ catalog'.projects[p].rev = Handle(p).rev + 1
               /\ catalog' = [projects |-> [catalog.projects EXCEPT ![p] = catalog'.projects[p]],
                              commits |-> [catalog.commits EXCEPT ![j] = catalog'.commits[j]]]
               /\ catalog'.commits[j].root = catalog'.projects[p].root
<1>1. ASSUME IInv, FenceInv, DiskInv, [Next]_vars, NEW p \in Projects,
             Handle(p) # NoProject, catalog'.projects[p] # Handle(p)
      PROVE  Atomic(p)
  <2>1. ~CreateSave
    <3>1. ASSUME CreateSave PROVE FALSE
      <4>1. /\ creator.cat = catalog /\ catalog \in Catalogs /\ p # creator.project
        BY <1>1, <3>1 DEF CreateSave, IInv, StillTrue, TypeOK, Handle
      <4> QED
        BY <1>1, <3>1, <4>1 DEF CreateSave, Catalogs, Handle
    <3> QED
      BY <3>1
  <2>2. PICK w \in Procs : SaveCatalog(w)
    BY <1>1, <2>1, CatalogSteps DEF Handle
  <2> DEFINE j == wk[w].job
  <2>3. /\ j \in Jobs /\ p = ProjectOf[j] /\ wk[w].pc = "save"
        /\ catalog'.projects[p] = [root |-> Generation(w), rev |-> wk[w].rev + 1]
        /\ catalog'.commits[j] = NewReceipt(w)
        /\ catalog' = [projects |-> [catalog.projects EXCEPT ![p] = [root |-> Generation(w), rev |-> wk[w].rev + 1]],
                       commits |-> [catalog.commits EXCEPT ![j] = NewReceipt(w)]]
    BY <1>1, <2>2, Publication DEF Handle
  <2>4. ~Committed(j)
    BY <1>1, <2>2, FirstPublication
  <2>5. Handle(p).rev = wk[w].rev
    BY <1>1, <2>3 DEF DiskInv, BaseHeld
  <2>6. NewReceipt(w).root = Generation(w)
    BY DEF NewReceipt
  <2>7. catalog' = [projects |-> [catalog.projects EXCEPT ![p] = catalog'.projects[p]],
                    commits |-> [catalog.commits EXCEPT ![j] = catalog'.commits[j]]]
    BY <2>3, Zenon
  <2>8. catalog'.projects[p].rev = Handle(p).rev + 1 /\ catalog'.commits[j].root = catalog'.projects[p].root
    BY <2>3, <2>5, <2>6
  <2> HIDE DEF j
  <2> QED
    BY <2>3, <2>4, <2>7, <2>8, Zenon
<1>2. IInv /\ FenceInv /\ DiskInv /\ [Next]_vars =>
        [\A p \in Projects : Handle(p) # NoProject /\ catalog'.projects[p] # Handle(p) => Atomic(p)]_vars
  BY <1>1
<1> QED
  BY <1>2, ExecutionInvariant, FenceInvariant, DiskInvariant, PTL DEF Spec, PublishAtomic

-----------------------------------------------------------------------------
(* The abstract authority.                                                 *)

\* The answer a row stands for.
AnswerOf(r) == IF r.status \in Terminal THEN Answers[r.status] ELSE "open"

LEMMA AnswersNamed ==
    ASSUME NEW r \in Row
    PROVE  /\ r.status = "SUCCEEDED" => AnswerOf(r) = "succeeded"
           /\ r.status = "FAILED" => AnswerOf(r) = "failed"
           /\ r.status = "CANCELLED" => AnswerOf(r) = "cancelled"
           /\ r.status \notin Terminal => AnswerOf(r) = "open"
BY DEF AnswerOf, Answers

\* No transaction of the store changes the answer to two jobs.
LEMMA OneAnswer ==
    ASSUME JInv, [JNext]_jvars, NEW j \in Jobs, NEW k \in Jobs, j # k,
           AnswerOf(jobs'[j]) # AnswerOf(jobs[j])
    PROVE  AnswerOf(jobs'[k]) = AnswerOf(jobs[k])
<1>1. jobs \in [Jobs -> Row] /\ OwnerIffRunning
  BY DEF JInv, JTypeOK
<1>2. ASSUME NEW i \in Jobs, NEW r, jobs' = [jobs EXCEPT ![i] = r]
      PROVE  AnswerOf(jobs'[k]) = AnswerOf(jobs[k])
  BY <1>1, <1>2
<1>3. ASSUME NEW i \in Jobs PROVE AnswerOf(Swept[i]) = AnswerOf(jobs[i])
  <2>1. Swept[i] \in Row /\ jobs[i] \in Row
    BY <1>1, RowSwept
  <2>2. Swept[i].status # jobs[i].status => jobs[i].status \in Running /\ Swept[i].status = "RECOVERY_REQUIRED"
    BY <1>1, RowSwept
  <2> QED
    BY <2>1, <2>2, AnswersNamed DEF AnswerOf
<1>4. ASSUME NEW w \in Workers, NEW i \in Jobs, Claim(w, i)
      PROVE  AnswerOf(jobs'[k]) = AnswerOf(jobs[k])
  <2>1. \A l \in Jobs \ {i} : jobs'[l] = Swept[l]
    BY <1>4 DEF Claim, Swept
  <2> QED
    BY <1>3, <2>1, <1>4, <1>1, AnswersNamed, RowClaimed DEF Claim, Queued, Swept
<1>5. CASE Sweep
  BY <1>3, <1>5 DEF Sweep
<1>6. CASE Tick
  BY <1>1, <1>6, RowAged DEF Tick, AnswerOf
<1>7. ASSUME NEW i \in Jobs, NEW s, CreateNew(i, s)
      PROVE  AnswerOf(jobs'[k]) = AnswerOf(jobs[k])
  BY <1>2, <1>7 DEF CreateNew
<1>8. ASSUME NEW i \in Jobs, NEW w, NEW t, Renew(i, w, t)
      PROVE  AnswerOf(jobs'[k]) = AnswerOf(jobs[k])
  BY <1>1, <1>8 DEF Renew, AnswerOf, Row
<1>9. ASSUME NEW i \in Jobs, NEW w, NEW t, NEW s, Finish(i, w, t, s)
      PROVE  AnswerOf(jobs'[k]) = AnswerOf(jobs[k])
  BY <1>1, <1>9 DEF Finish
<1>10. ASSUME NEW i \in Jobs, RecoverCommitted(i) \/ Cancel(i)
       PROVE  AnswerOf(jobs'[k]) = AnswerOf(jobs[k])
  BY <1>1, <1>10 DEF RecoverCommitted, Cancel
<1>11. ASSUME NEW i \in Jobs, NEW a, RequeueLocal(i, a)
       PROVE  AnswerOf(jobs'[k]) = AnswerOf(jobs[k])
  BY <1>1, <1>11 DEF RequeueLocal
<1>12. CASE UNCHANGED jvars
  BY <1>12 DEF jvars
<1> QED
  BY <1>4, <1>5, <1>6, <1>7, <1>8, <1>9, <1>10, <1>11, <1>12 DEF JNext

\* What is in the published workspaces is what has a receipt.
LEMMA AppliedIsCommitted ==
    ASSUME IInv, DiskInv, AuthorityMatchesReceipts
    PROVE  Applied = {j \in Jobs : Committed(j)}
<1>1. ASSUME NEW j \in Jobs, Committed(j) PROVE Handle(ProjectOf[j]) # NoProject
  BY <1>1 DEF DiskInv, AttemptsGrow, IInv, RootsNamed
<1>2. ASSUME NEW j \in Jobs, Handle(ProjectOf[j]) # NoProject
      PROVE  j \notin ModuleJobs => (j \in trees[Handle(ProjectOf[j]).root] <=> Committed(j))
  <2>1. ProjectOf[j] \in Projects
    BY FencedAssumption
  <2>2. /\ trees[Handle(ProjectOf[j]).root] \cap Jobs \subseteq CommittedIn(ProjectOf[j])
        /\ CommittedIn(ProjectOf[j]) \ trees[Handle(ProjectOf[j]).root] \subseteq ModuleJobs
    BY <1>2, <2>1 DEF AuthorityMatchesReceipts
  <2> QED
    BY <2>2 DEF CommittedIn
<1> QED
  BY <1>1, <1>2 DEF Applied

\* The abstract variables, of a job and of a project at a time.
LEMMA AnswerAt ==
    /\ \A j \in Jobs : Answer[j] = AnswerOf(jobs[j])
    /\ DOMAIN Answer = Jobs
    /\ Answer = [j \in Jobs |-> AnswerOf(jobs[j])]
BY DEF Answer, AnswerOf

LEMMA FoundingStep ==
    ASSUME IInv, CreateSave
    PROVE  /\ creator.project \in Projects /\ creator.project \notin Founded
           /\ Founded' \in {Founded, Founded \cup {creator.project}}
           /\ Revision' = Revision /\ Answer' = Answer
           /\ \A j \in Jobs : Receipt(j)' = Receipt(j)
<1> DEFINE p == creator.project
<1>1. /\ creator.cat = catalog /\ catalog \in Catalogs /\ p \in Projects /\ Handle(p) = NoProject
      /\ UNCHANGED jvars
  BY DEF CreateSave, IInv, StillTrue, RequestsKnown, TypeOK, Handle
<1>2. /\ catalog'.commits = catalog.commits
      /\ catalog'.projects[p] = [root |-> FirstRoot(p), rev |-> 0]
      /\ \A q \in Projects \ {p} : catalog'.projects[q] = catalog.projects[q]
  BY <1>1 DEF CreateSave, Catalogs
<1>4. Founded' \in {Founded, Founded \cup {p}}
  BY <1>1, <1>2 DEF Founded, Handle, NoProject
<1>5. Revision' = Revision
  BY <1>1, <1>2 DEF Revision, Handle, NoProject
<1>6. Answer' = Answer
  BY <1>1 DEF Answer, jvars, Answers
<1> QED
  BY <1>1, <1>2, <1>4, <1>5, <1>6 DEF Founded, Receipt

LEMMA PublishingStep ==
    ASSUME IInv, FenceInv, DiskInv, NEW w \in Procs, SaveCatalog(w),
           NEW j \in Jobs, j = wk[w].job
    PROVE  /\ ProjectOf[j] \in Founded /\ Answer[j] = "open" /\ ~Committed(j)
           /\ catalog'.commits[j] # NoReceipt
           /\ \A k \in Jobs \ {j} : Receipt(k)' = Receipt(k)
           /\ Revision' = [Revision EXCEPT ![ProjectOf[j]] = @ + 1]
           /\ Founded' = Founded /\ Answer' = Answer
<1> DEFINE p == ProjectOf[j]
           v == wk[w].rev + 1
           handle == [root |-> Generation(w), rev |-> v]
<1>1. /\ p \in Projects /\ wk[w].pc = "save" /\ Handle(p) # NoProject
      /\ jobs[j].status = "RUNNING" /\ UNCHANGED jvars
      /\ catalog'.projects[p] = handle
      /\ \A q \in Projects \ {p} : Handle(q)' = Handle(q)
      /\ catalog'.commits[j] = NewReceipt(w)
      /\ \A k \in Jobs \ {j} : Receipt(k)' = Receipt(k)
  BY Publication
<1>2. Handle(p).rev = wk[w].rev /\ wk[w].rev \in Nat
  BY <1>1 DEF DiskInv, BaseHeld, IInv, TypeOK, WorkerState
<1>3. ~Committed(j)
  BY FirstPublication
<1>4. NewReceipt(w).rev = v /\ NoReceipt.rev = 0 /\ v # 0
  BY <1>2 DEF NewReceipt, NoReceipt
<1>5. handle.rev = v /\ NoProject.rev = 0
  BY DEF NoProject
<1>6. Founded' = Founded /\ p \in Founded
  BY <1>1, <1>4, <1>5 DEF Founded, Handle, NoProject
<1>7. \A q \in Projects : catalog'.projects[q].rev = IF q = p THEN Revision[p] + 1 ELSE Revision[q]
  BY <1>1, <1>2, <1>5 DEF Revision, Handle
<1>8. Revision' = [Revision EXCEPT ![p] = @ + 1]
  BY <1>1, <1>7 DEF Revision, Handle
<1>9. Answer' = Answer
  BY <1>1 DEF Answer, jvars, Answers
<1>10. Answer[j] = "open"
  BY <1>1, AnswerAt DEF AnswerOf
<1> QED
  BY <1>1, <1>3, <1>4, <1>6, <1>8, <1>9, <1>10

\* The answer to a job changes as the authority allows when nothing is published.
LEMMA AnswerStep ==
    ASSUME IInv, IInv', FenceInv, FenceInv', SuccessIsCommitted', [Next]_vars,
           UNCHANGED catalog, NEW j \in Jobs, Answer'[j] # Answer[j]
    PROVE  /\ Answer' = [Answer EXCEPT ![j] = Answer'[j]]
           /\ \/ Answer'[j] = "succeeded" /\ Committed(j) /\ Answer[j] \in {"open", "cancelled"}
              \/ Answer'[j] = "failed" /\ ~Committed(j) /\ Answer[j] = "open"
              \/ Answer'[j] = "cancelled" /\ Answer[j] = "open"
<1>1. [JNext]_jvars /\ JInv /\ JInv'
  BY StoreNext DEF IInv
<1>2. jobs \in [Jobs -> Row] /\ jobs' \in [Jobs -> Row]
  BY <1>1 DEF JInv, JTypeOK
<1>3. Answer' = [k \in Jobs |-> AnswerOf(jobs'[k])]
  BY DEF Answer, AnswerOf, Answers
<1>4. \A k \in Jobs \ {j} : Answer'[k] = Answer[k]
  BY <1>1, <1>3, OneAnswer, AnswerAt
<1>5. Answer' = [Answer EXCEPT ![j] = Answer'[j]]
  BY <1>3, <1>4, AnswerAt
<1>6. jobs[j].status \in Terminal => jobs'[j].status \in {jobs[j].status, "SUCCEEDED"}
  BY <1>1, StepMoves DEF Moves
<1>7. Answer[j] = AnswerOf(jobs[j]) /\ Answer'[j] = AnswerOf(jobs'[j]) /\ jobs[j] \in Row /\ jobs'[j] \in Row
  BY <1>2, <1>3, AnswerAt
<1>8. jobs'[j].status = "SUCCEEDED" => Committed(j)
  BY DEF SuccessIsCommitted, Committed, Receipt, NoReceipt
<1>9. /\ jobs'[j].status = "FAILED" => ~Committed(j)
      /\ jobs[j].status = "FAILED" => ~Committed(j)
  BY DEF FenceInv, FailureIsUncommitted, Committed, Receipt, NoReceipt
<1>10. jobs'[j].status \in Terminal
  BY <1>6, <1>7, AnswersNamed
<1> QED
  BY <1>5, <1>6, <1>7, <1>8, <1>9, <1>10, AnswersNamed DEF Row

\* Every step of the workers, the clients and the clock is one of the authority, or
\* none.
LEMMA AuthorityStep ==
    ASSUME IInv, FenceInv, DiskInv, AuthorityMatchesReceipts, SuccessIsCommitted,
           IInv', FenceInv', DiskInv', AuthorityMatchesReceipts', SuccessIsCommitted',
           [Next]_vars
    PROVE  [A!ANext]_(A!avars)
<1>1. /\ Applied = {j \in Jobs : Committed(j)}
      /\ Applied' = {j \in Jobs : catalog'.commits[j] # NoReceipt}
  <2>1. Applied = {j \in Jobs : Committed(j)}
    BY AppliedIsCommitted
  <2>2. (IInv /\ DiskInv /\ AuthorityMatchesReceipts => Applied = {j \in Jobs : Committed(j)})'
    BY AppliedIsCommitted, PTL
  <2> QED
    BY <2>1, <2>2 DEF Committed, Receipt, NoReceipt
<1>2. CASE CreateSave
  <2>1. Applied' = Applied
    BY <1>1, <1>2, FoundingStep DEF Committed, Receipt
  <2> QED
    BY <1>2, <2>1, FoundingStep DEF A!ANext, A!Found, A!avars
<1>3. ASSUME NEW w \in Procs, SaveCatalog(w) PROVE A!ANext
  <2>1. wk[w].job \in Jobs
    BY <1>3, Publication
  <2>2. PICK j \in Jobs : j = wk[w].job
    BY <2>1
  <2>3. Applied' = Applied \cup {j}
    BY <1>1, <1>3, <2>2, PublishingStep DEF Committed, Receipt
  <2>4. A!Publish(j)
    BY <1>1, <1>3, <2>2, <2>3, PublishingStep DEF A!Publish
  <2> QED
    BY <2>4 DEF A!ANext
<1>4. CASE UNCHANGED catalog
  <2>1. Applied' = Applied
    BY <1>1, <1>4 DEF Committed, Receipt
  <2>2. Founded' = Founded /\ Revision' = Revision
    BY <1>4 DEF Founded, Revision, Handle, NoProject
  <2>3. CASE Answer' = Answer
    BY <2>1, <2>2, <2>3 DEF A!avars
  <2>4. CASE Answer' # Answer
    <3>1. PICK j \in Jobs : Answer'[j] # Answer[j]
      BY <2>4 DEF Answer
    <3>2. A!Succeed(j) \/ A!FailOpen(j) \/ A!CancelOpen(j)
      BY <1>1, <1>4, <2>1, <2>2, <3>1, AnswerStep DEF A!Succeed, A!FailOpen, A!CancelOpen
    <3> QED
      BY <3>2 DEF A!ANext
  <2> QED
    BY <2>3, <2>4
<1> QED
  BY <1>2, <1>3, <1>4, CatalogSteps

\* Whatever the number of workers, attempts, crashes and retries, clients see the
\* authority of Authority.tla (jobs/worker.py, jobs/store.py, services/execution.py).
THEOREM AuthorityIsImplemented ==
    ASSUME PromptClaim PROVE Spec => ImplementsAuthority
<1>1. ASSUME Init PROVE A!AInit
  <2>1. /\ \A p \in Projects : Handle(p) = NoProject
        /\ \A j \in Jobs : jobs[j].status = "ABSENT"
    BY <1>1 DEF Init, JInit, NoRow, EmptyCatalog, Handle
  <2>2. Founded = {} /\ Applied = {}
    BY <2>1, FencedAssumption DEF Founded, Applied
  <2>3. Revision = [p \in Projects |-> 0] /\ Answer = [j \in Jobs |-> "open"]
    BY <2>1 DEF Revision, Answer, NoProject
  <2> QED
    BY <2>2, <2>3 DEF A!AInit
<1>2. IInv /\ FenceInv /\ DiskInv /\ AuthorityMatchesReceipts /\ SuccessIsCommitted
        /\ (IInv /\ FenceInv /\ DiskInv /\ AuthorityMatchesReceipts /\ SuccessIsCommitted)'
        /\ [Next]_vars => [A!ANext]_(A!avars)
  BY AuthorityStep
<1> QED
  BY <1>1, <1>2, ExecutionInvariant, FenceInvariant, DiskInvariant, AuthorityMatches,
     SuccessMeansCommitted, PTL DEF Spec, ImplementsAuthority, A!ASpec

-----------------------------------------------------------------------------
(* Session and business state.                                             *)

\* Receipts of a project are about the revisions it went through, one each, and about
\* jobs that have a receipt.
RevisionsTold ==
    /\ \A j \in Jobs : Committed(j) =>
         /\ Receipt(j).rev <= Handle(ProjectOf[j]).rev
         /\ Receipt(j).output \cap Jobs \subseteq CommittedIn(ProjectOf[j])
    /\ \A j, k \in Jobs :
         Committed(j) /\ Committed(k) /\ ProjectOf[j] = ProjectOf[k] /\ Receipt(j).rev = Receipt(k).rev
           => j = k

\* Whoever computes on session or business state has a receipt for what he read.
Vouchers ==
    \A w \in Procs :
        wk[w].pc \in {"compute"} \cup Staged /\ wk[w].input \cap ModuleJobs # {} =>
          \E i \in Jobs : /\ Committed(i) /\ ProjectOf[i] = ProjectOf[wk[w].job]
                          /\ Receipt(i).rev = wk[w].rev
                          /\ Receipt(i).output = wk[w].input

ModuleInv == RevisionsTold /\ Vouchers /\ NoLaundering

LEMMA VouchersKept ==
    ASSUME IInv, FenceInv, Vouchers, [Next]_vars
    PROVE  Vouchers'
<1> SUFFICES ASSUME NEW w \in Procs, wk'[w].pc \in {"compute"} \cup Staged,
                    wk'[w].input \cap ModuleJobs # {}
             PROVE  \E i \in Jobs : /\ catalog'.commits[i] # NoReceipt
                                    /\ ProjectOf[i] = ProjectOf[wk'[w].job]
                                    /\ catalog'.commits[i].rev = wk'[w].rev
                                    /\ catalog'.commits[i].output = wk'[w].input
  BY DEF Vouchers, Committed, Receipt, NoReceipt
<1>1. CASE GoesOn(w)
  <2>1. PICK i \in Jobs : /\ Committed(i) /\ ProjectOf[i] = ProjectOf[wk[w].job]
                          /\ Receipt(i).rev = wk[w].rev /\ Receipt(i).output = wk[w].input
    BY <1>1 DEF Vouchers, GoesOn
  <2> QED
    BY <1>1, <2>1, ReceiptsFinal DEF Committed, Receipt, NoReceipt, GoesOn
<1>2. CASE Snaps(w)
  <2> DEFINE p == ProjectOf[wk[w].job]
  <2>1. PICK i \in Jobs : /\ ProjectOf[i] = p /\ Receipt(i).rev = Handle(p).rev
                          /\ Receipt(i).output = trees[Handle(p).root]
    BY <1>2 DEF Vouched, Snaps
  <2>2. Receipt(i) # NoReceipt
    BY <1>2, <2>1 DEF NoReceipt, Snaps
  <2> QED
    BY <1>2, <2>1, <2>2 DEF Receipt, Snaps
<1> QED
  BY <1>1, <1>2, ComputingSteps

\* The new receipt: the next revision, of what all receipts so far are about, with
\* the edits its voucher had seen.
LEMMA NewReceiptTold ==
    ASSUME IInv, FenceInv, DiskInv, InputsCommitted, ModuleInv,
           NEW w \in Procs, SaveCatalog(w), NEW j \in Jobs, j = wk[w].job
    PROVE  /\ NewReceipt(w).rev = Handle(ProjectOf[j]).rev + 1
           /\ Handle(ProjectOf[j]).rev \in Nat
           /\ NewReceipt(w).output \cap Jobs \subseteq CommittedIn(ProjectOf[j]) \cup {j}
           /\ \A k \in Jobs :
                (/\ Committed(k) /\ ProjectOf[k] = ProjectOf[j]
                 /\ Receipt(k).output \cap NewReceipt(w).output \cap ModuleJobs # {})
                => NewReceipt(w).output \cap Edits = Receipt(k).output \cap Edits
<1> DEFINE p == ProjectOf[j]
<1>1. /\ p \in Projects /\ wk[w].pc = "save" /\ Handle(p) # NoProject
  BY Publication
<1>2. /\ Handle(p).rev = wk[w].rev /\ wk[w].rev \in Nat
      /\ wk[w].input \cap Jobs \subseteq CommittedIn(p)
      /\ NewReceipt(w).output = wk[w].input \cup {j}
      /\ NewReceipt(w).rev = wk[w].rev + 1
  BY <1>1 DEF DiskInv, BaseHeld, StagedTrees, InputsCommitted, NewReceipt, Staged,
     IInv, TypeOK, WorkerState
<1>3. NewReceipt(w).output \cap Edits = wk[w].input \cap Edits
  BY <1>2, FencedAssumption
<1>4. ASSUME NEW k \in Jobs, Committed(k), ProjectOf[k] = p,
             Receipt(k).output \cap NewReceipt(w).output \cap ModuleJobs # {}
      PROVE  wk[w].input \cap Edits = Receipt(k).output \cap Edits
  <2>1. Receipt(k).output \cap Jobs \subseteq CommittedIn(p) /\ Receipt(k).rev <= wk[w].rev
    BY <1>2, <1>4 DEF ModuleInv, RevisionsTold
  <2>2. Receipt(k).output \cap wk[w].input \cap ModuleJobs # {}
    <3>1. PICK m \in ModuleJobs : m \in Receipt(k).output /\ m \in NewReceipt(w).output
      BY <1>4
    <3>2. j \notin Receipt(k).output
      BY <2>1, FirstPublication DEF CommittedIn
    <3> QED
      BY <1>2, <3>1, <3>2
  <2>3. PICK i \in Jobs : /\ Committed(i) /\ ProjectOf[i] = p
                          /\ Receipt(i).rev = wk[w].rev /\ Receipt(i).output = wk[w].input
    BY <1>1, <2>2 DEF ModuleInv, Vouchers, Staged
  <2>4. CASE Receipt(k).rev = Receipt(i).rev
    <3>1. k = i
      BY <1>4, <2>3, <2>4 DEF ModuleInv, RevisionsTold
    <3> QED
      BY <2>3, <3>1
  <2>5. CASE Receipt(k).rev # Receipt(i).rev
    <3>1. Receipt(k).rev < Receipt(i).rev
      <4>1. Receipt(k).rev \in Nat /\ Receipt(i).rev \in Nat
        BY DEF IInv, TypeOK, Catalogs, Receipt
      <4> QED
        BY <1>2, <2>1, <2>3, <2>5, <4>1
    <3>2. Receipt(k).output \cap Receipt(i).output \cap ModuleJobs # {}
      BY <2>2, <2>3
    <3>3. Receipt(i).output \cap Edits = Receipt(k).output \cap Edits
      BY ONLY <1>4, <2>3, <3>1, <3>2, ModuleInv DEF ModuleInv, NoLaundering
    <3> QED
      BY <2>3, <3>3
  <2> QED
    BY <2>4, <2>5
<1> QED
  BY <1>1, <1>2, <1>3, <1>4

LEMMA ModuleKept ==
    ASSUME IInv, FenceInv, DiskInv, InputsCommitted, ModuleInv, [Next]_vars
    PROVE  ModuleInv'
<1>1. CASE \A j \in Jobs : Receipt(j)' = Receipt(j)
  <2>1. /\ \A j \in Jobs : (Committed(j)' <=> Committed(j))
        /\ \A p \in Projects : CommittedIn(p)' = CommittedIn(p)
    BY <1>1 DEF CommittedIn, Committed, NoReceipt
  <2>2. ASSUME NEW j \in Jobs, Committed(j)
        PROVE  Handle(ProjectOf[j])' = Handle(ProjectOf[j])
    <3>1. Handle(ProjectOf[j]) # NoProject /\ ProjectOf[j] \in Projects
      BY <2>2, FencedAssumption DEF DiskInv, AttemptsGrow, IInv, RootsNamed
    <3>2. ASSUME NEW w \in Procs, SaveCatalog(w) PROVE FALSE
      <4>1. /\ wk[w].job \in Jobs /\ ~Committed(wk[w].job)
            /\ catalog'.commits[wk[w].job] = NewReceipt(w)
        BY <3>2, Publication, FirstPublication
      <4>2. NewReceipt(w).rev # 0
        BY DEF NewReceipt, IInv, TypeOK, WorkerState
      <4> QED
        BY <1>1, <4>1, <4>2 DEF Committed, Receipt, NoReceipt
    <3>3. ASSUME CreateSave PROVE Handle(ProjectOf[j])' = Handle(ProjectOf[j])
      <4>1. /\ creator.cat = catalog /\ catalog \in Catalogs /\ creator.project # ProjectOf[j]
        BY <3>1, <3>3 DEF CreateSave, IInv, StillTrue, TypeOK, Handle
      <4> QED
        BY <3>1, <3>3, <4>1 DEF CreateSave, Catalogs, Handle
    <3> QED
      BY <3>2, <3>3, CatalogSteps DEF Handle
  <2>3. RevisionsTold'
    BY <1>1, <2>1, <2>2, FencedAssumption DEF ModuleInv, RevisionsTold
  <2>4. NoLaundering'
    BY <1>1, <2>1 DEF ModuleInv, NoLaundering
  <2> QED
    BY <2>3, <2>4, VouchersKept DEF ModuleInv
<1>2. ASSUME NEW w \in Procs, SaveCatalog(w) PROVE ModuleInv'
  <2>1. PICK j \in Jobs : j = wk[w].job
    BY <1>2, Publication
  <2> DEFINE p == ProjectOf[j]
             n == NewReceipt(w)
  <2>2. /\ p \in Projects
        /\ \A k \in Jobs \ {j} : Receipt(k)' = Receipt(k)
        /\ catalog'.commits[j] = n
        /\ catalog'.projects[p] = [root |-> Generation(w), rev |-> wk[w].rev + 1]
        /\ \A q \in Projects \ {p} : Handle(q)' = Handle(q)
    BY <1>2, <2>1, Publication
  <2>3. /\ n.rev = Handle(p).rev + 1 /\ Handle(p).rev \in Nat
        /\ n.rev = wk[w].rev + 1
        /\ n.output \cap Jobs \subseteq CommittedIn(p) \cup {j}
        /\ \A k \in Jobs : /\ Committed(k) /\ ProjectOf[k] = p
                           /\ Receipt(k).output \cap n.output \cap ModuleJobs # {}
                           => n.output \cap Edits = Receipt(k).output \cap Edits
    BY <1>2, <2>1, NewReceiptTold DEF NewReceipt
  <2>4. ~Committed(j) /\ n # NoReceipt
    BY <1>2, <2>1, <2>3, FirstPublication DEF NoReceipt
  <2>5. /\ \A k \in Jobs \ {j} : Committed(k)' <=> Committed(k)
        /\ catalog'.commits[j] # NoReceipt
        /\ \A q \in Projects : CommittedIn(q) \subseteq CommittedIn(q)'
        /\ CommittedIn(p) \cup {j} \subseteq CommittedIn(p)'
    BY <2>2, <2>4 DEF CommittedIn, Committed, Receipt, NoReceipt
  <2>6. \A k \in Jobs : Committed(k) =>
          Receipt(k).rev \in Nat /\ Receipt(k).rev <= Handle(ProjectOf[k]).rev
    BY DEF ModuleInv, RevisionsTold, IInv, TypeOK, Catalogs, Receipt
  <2>7. \A k \in Jobs : Handle(ProjectOf[k]).rev \in Nat /\ ProjectOf[k] \in Projects
    BY FencedAssumption DEF IInv, TypeOK, Catalogs, Handle
  <2> HIDE DEF n
  <2>8. ASSUME NEW k \in Jobs, Committed(k)'
        PROVE  /\ catalog'.commits[k].rev <= catalog'.projects[ProjectOf[k]].rev
               /\ catalog'.commits[k].output \cap Jobs \subseteq CommittedIn(ProjectOf[k])'
    <3>1. CASE k = j
      BY <2>2, <2>3, <2>5, <3>1
    <3>2. CASE k # j
      <4>1. Committed(k) /\ Receipt(k)' = Receipt(k)
        BY <2>2, <2>5, <2>8, <3>2
      <4>2. Receipt(k).output \cap Jobs \subseteq CommittedIn(ProjectOf[k])'
        BY <2>5, <2>7, <4>1 DEF ModuleInv, RevisionsTold
      <4>3. CASE ProjectOf[k] = p
        BY <2>2, <2>3, <2>6, <4>1, <4>2, <4>3 DEF Receipt
      <4>4. CASE ProjectOf[k] # p
        BY <2>2, <2>6, <2>7, <4>1, <4>2, <4>4 DEF Receipt, Handle
      <4> QED
        BY <4>3, <4>4
    <3> QED
      BY <3>1, <3>2
  <2>9. ASSUME NEW k \in Jobs, k # j, Committed(k)', ProjectOf[k] = p
        PROVE  Committed(k) /\ Receipt(k)' = Receipt(k) /\ catalog'.commits[k].rev < n.rev
    BY <2>2, <2>3, <2>5, <2>6, <2>9 DEF Receipt
  <2>10. RevisionsTold'
    <3>1. ASSUME NEW i \in Jobs, NEW k \in Jobs, Committed(i)', Committed(k)',
                 ProjectOf[i] = ProjectOf[k], catalog'.commits[i].rev = catalog'.commits[k].rev
          PROVE  i = k
      <4>1. CASE i = j \/ k = j
        BY <2>2, <2>3, <2>9, <3>1, <4>1
      <4>2. CASE i # j /\ k # j
        BY <2>2, <2>5, <3>1, <4>2 DEF ModuleInv, RevisionsTold, Receipt
      <4> QED
        BY <4>1, <4>2
    <3> QED
      BY <2>8, <3>1 DEF RevisionsTold, Receipt, Handle
  <2>11. ASSUME NEW i \in Jobs, NEW k \in Jobs, Committed(i)', Committed(k)',
                ProjectOf[i] = ProjectOf[k], catalog'.commits[k].rev < catalog'.commits[i].rev,
                catalog'.commits[k].output \cap catalog'.commits[i].output \cap ModuleJobs # {}
         PROVE  catalog'.commits[i].output \cap Edits = catalog'.commits[k].output \cap Edits
    <3>1. CASE i = j
      <4>1. k # j
        BY <2>2, <2>3, <2>11, <3>1
      <4> QED
        BY <2>2, <2>3, <2>9, <2>11, <3>1, <4>1 DEF Receipt
    <3>2. CASE i # j
      <4>1. k # j
        BY <2>2, <2>3, <2>6, <2>9, <2>11, <3>2 DEF Receipt
      <4> QED
        BY <2>2, <2>5, <2>11, <3>2, <4>1 DEF ModuleInv, NoLaundering, Receipt
    <3> QED
      BY <3>1, <3>2
  <2>12. NoLaundering'
    BY <2>11 DEF NoLaundering, Receipt
  <2> QED
    BY <2>10, <2>12, VouchersKept DEF ModuleInv
<1> QED
  BY <1>1, <1>2, ReceiptSteps

\* Of two receipts that cover the same session or business state, the later covers no
\* edit behind the service's back that the earlier did not, whatever a tool takes away
\* and copies back in between (services/execution.py, verify_module_generation).
THEOREM NothingIsLaundered ==
    ASSUME PromptClaim PROVE Spec => []NoLaundering
<1>1. Init => ModuleInv
  BY EmptyHands
     DEF Init, EmptyCatalog, ModuleInv, RevisionsTold, Vouchers, NoLaundering, Committed, Receipt, Staged
<1>2. IInv /\ FenceInv /\ DiskInv /\ InputsCommitted /\ ModuleInv /\ [Next]_vars => ModuleInv'
  BY ModuleKept
<1>3. ModuleInv => NoLaundering
  BY DEF ModuleInv
<1> QED
  BY <1>1, <1>2, <1>3, ExecutionInvariant, FenceInvariant, DiskInvariant, AuthorityMatches, PTL DEF Spec
=============================================================================
