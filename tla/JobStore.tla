------------------------------ MODULE JobStore ------------------------------
(***************************************************************************)
(* The durable job queue of zhigou_toolchain/jobs/store.py: one SQLite     *)
(* table of jobs with leases and fencing tokens, the idempotency index of  *)
(* submitted requests, and the cancel events.                              *)
(*                                                                         *)
(* Every operation of the store is one BEGIN IMMEDIATE transaction, so it  *)
(* is one action here.  A call whose WHERE clause or check fails raises    *)
(* and leaves the tables alone: such a call is not a step.                 *)
(*                                                                         *)
(* Time is kept relative: lease is lease_expires_at - time.time() in       *)
(* ticks, from LeaseTicks down to -1, where -1 stands for every instant    *)
(* strictly after the expiry.  The code compares the two with "<" in the   *)
(* sweep and ">" everywhere else, so the instant lease = 0 belongs to      *)
(* neither.  A row without an owner has no lease (the columns are set and  *)
(* cleared together) and keeps lease = 0.                                  *)
(***************************************************************************)
EXTENDS Integers, FiniteSets

CONSTANTS
    Jobs,        \* job identifiers, fresh uuids: each is created at most once
    Workers,     \* the worker_id strings that call claim
    Scopes,      \* idempotency scopes (principal, project, operation, key)
    Legacy,      \* the scopes that hit a row of the old idempotency table
    None,        \* SQL NULL
    LeaseTicks,  \* lease_seconds, in ticks
    MaxRetries   \* bound on how often requeue_local puts one job back

ASSUME JobStoreAssumption ==
    /\ IsFiniteSet(Jobs)
    /\ LeaseTicks \in Nat \ {0}
    /\ MaxRetries \in Nat
    /\ Legacy \subseteq Scopes
    /\ None \notin Workers
    /\ None \notin Jobs
    /\ None \notin Scopes

VARIABLES
    jobs,       \* the jobs table
    cancelled,  \* jobs with a JOB_CANCEL_REQUESTED or JOB_CANCELLED event
    idem        \* the idempotency_v2 table: scope -> job, or None

jvars == <<jobs, cancelled, idem>>

Running == {"RUNNING", "CANCEL_REQUESTED"}
Terminal == {"CANCELLED", "SUCCEEDED", "FAILED"}
Statuses == {"ABSENT", "QUEUED", "RECOVERY_REQUIRED"} \cup Running \cup Terminal

Row == [status : Statuses, attempt : Nat, token : Nat, owner : Workers \cup {None},
        lease : -1..LeaseTicks, created : Nat, scope : Scopes \cup {None}]

NoRow == [status |-> "ABSENT", attempt |-> 0, token |-> 0, owner |-> None,
          lease |-> 0, created |-> 0, scope |-> None]

JInit ==
    /\ jobs = [j \in Jobs |-> NoRow]
    /\ cancelled = {}
    /\ idem = [s \in Scopes |-> None]

-----------------------------------------------------------------------------
(* Reading a row.                                                          *)

Exists(j) == jobs[j].status # "ABSENT"

Live(j) == jobs[j].owner # None /\ jobs[j].lease > 0

Expired(j) == jobs[j].status \in Running /\ jobs[j].lease < 0

Holds(j, w, t) == jobs[j].owner = w /\ jobs[j].token = t /\ Live(j)

\* require_lease, and the check at the head of commit_lease
LeaseOK(j, w, t) == jobs[j].status = "RUNNING" /\ Holds(j, w, t)

NoOwner(row) == [row EXCEPT !.owner = None, !.lease = 0]

Released(row, s) == [NoOwner(row) EXCEPT !.status = s]

-----------------------------------------------------------------------------
(* Operations.                                                             *)

\* A request without a key, or with a key never seen in its scope.  A key seen
\* before is answered with its job, or refused when the digest differs, and a key
\* with a legacy row is refused: no step.  The row keeps the scope it was created
\* under, which the code stores in the idempotency row only.  created_at
\* is read before the transaction waits for the writer lock, so a row may carry
\* a time before, equal to or after those of the rows already there.
CreateNew(j, s) ==
    /\ ~Exists(j)
    /\ s # None => idem[s] = None /\ s \notin Legacy
    /\ \E at \in 1..Cardinality({k \in Jobs : Exists(k)}) + 1 :
         jobs' = [jobs EXCEPT ![j] = [NoRow EXCEPT !.status = "QUEUED",
                                                   !.created = at, !.scope = s]]
    /\ idem' = IF s = None THEN idem ELSE [idem EXCEPT ![s] = j]
    /\ UNCHANGED cancelled

\* Fault: the sweep overlooks the jobs whose cancellation was requested.
SweptRunningOnly ==
    [j \in Jobs |-> IF Expired(j) /\ jobs[j].status = "RUNNING"
                    THEN Released(jobs[j], "RECOVERY_REQUIRED") ELSE jobs[j]]

Swept == [j \in Jobs |-> IF Expired(j) THEN Released(jobs[j], "RECOVERY_REQUIRED")
                                       ELSE jobs[j]]

\* Fault: claim takes an expired job over without passing through recovery.
QueuedOrExpired == {j \in Jobs : jobs[j].status = "QUEUED" \/ Expired(j)}

Queued == {j \in Jobs : jobs[j].status = "QUEUED"}

Claimed(j, w) == [jobs[j] EXCEPT !.status = "RUNNING", !.attempt = @ + 1,
                                 !.token = @ + 1, !.owner = w, !.lease = LeaseTicks]

\* claim: sweep every expired lease, then take the oldest queued job.
Claim(w, j) ==
    /\ j \in Queued
    /\ \A k \in Queued : jobs[j].created <= jobs[k].created
    /\ jobs' = [Swept EXCEPT ![j] = Claimed(j, w)]
    /\ UNCHANGED <<cancelled, idem>>

\* claim on an empty queue still commits its sweep.
Sweep ==
    /\ Queued = {}
    /\ jobs' = Swept
    /\ UNCHANGED <<cancelled, idem>>

Renew(j, w, t) ==
    /\ LeaseOK(j, w, t)
    /\ jobs' = [jobs EXCEPT ![j].lease = LeaseTicks]
    /\ UNCHANGED <<cancelled, idem>>

\* _finish, as complete (SUCCEEDED) and as fail (FAILED).
CanFinish(j, w, t) == jobs[j].status \in Running /\ Holds(j, w, t)

Finish(j, w, t, s) ==
    /\ CanFinish(j, w, t)
    /\ jobs' = [jobs EXCEPT ![j] = Released(@, s)]
    /\ UNCHANGED <<cancelled, idem>>

RecoverCommitted(j) ==
    /\ Exists(j)
    /\ jobs' = [jobs EXCEPT ![j] = IF @.status = "SUCCEEDED" THEN @
                                   ELSE Released(@, "SUCCEEDED")]
    /\ UNCHANGED <<cancelled, idem>>

\* Fault: a retry does not look for a cancel event.
CanRequeueAnyIntent(j, attempt) ==
    /\ jobs[j].attempt = attempt
    /\ jobs[j].status \in {"RUNNING", "RECOVERY_REQUIRED"}
    /\ ~Live(j)

CanRequeue(j, attempt) ==
    /\ jobs[j].attempt = attempt
    /\ jobs[j].status \in {"RUNNING", "RECOVERY_REQUIRED"}
    /\ ~Live(j)
    /\ j \notin cancelled

Requeued(row) == [Released(row, "QUEUED") EXCEPT !.token = row.token + 1]

\* requeue_local; on a job that is QUEUED already it returns without a change.
\* MaxRetries bounds the model: the code lets an operator retry for ever.
RequeueLocal(j, attempt) ==
    /\ CanRequeue(j, attempt)
    /\ jobs[j].attempt <= MaxRetries
    /\ jobs' = [jobs EXCEPT ![j] = Requeued(@)]
    /\ UNCHANGED <<cancelled, idem>>

Cancel(j) ==
    /\ jobs[j].status \in {"QUEUED", "RUNNING"}
    /\ jobs' = [jobs EXCEPT ![j].status = IF @ = "QUEUED" THEN "CANCELLED"
                                          ELSE "CANCEL_REQUESTED"]
    /\ cancelled' = cancelled \cup {j}
    /\ UNCHANGED idem

Aged(row) == IF row.owner # None /\ row.lease >= 0 THEN [row EXCEPT !.lease = @ - 1]
                                                   ELSE row

Tick ==
    /\ jobs' = [j \in Jobs |-> Aged(jobs[j])]
    /\ UNCHANGED <<cancelled, idem>>

-----------------------------------------------------------------------------
(* The store with any callers: a caller may present any worker name, token *)
(* and attempt, current, stale or invented; only a matching row moves.     *)

Tokens == 0..(2 * MaxRetries + 1)

JNext ==
    \/ \E j \in Jobs, s \in Scopes \cup {None} : CreateNew(j, s)
    \/ \E w \in Workers, j \in Jobs : Claim(w, j)
    \/ Sweep
    \/ \E j \in Jobs, w \in Workers, t \in Tokens : Renew(j, w, t)
    \/ \E j \in Jobs, w \in Workers, t \in Tokens, s \in {"SUCCEEDED", "FAILED"} :
         Finish(j, w, t, s)
    \/ \E j \in Jobs : RecoverCommitted(j)
    \/ \E j \in Jobs, a \in 0..(MaxRetries + 1) : RequeueLocal(j, a)
    \/ \E j \in Jobs : Cancel(j)
    \/ Tick

JSpec == JInit /\ [][JNext]_jvars

-----------------------------------------------------------------------------
(* Properties.                                                             *)

\* Every row has the shape of the jobs table, and every scope names a job.
JTypeOK ==
    /\ jobs \in [Jobs -> Row]
    /\ cancelled \subseteq Jobs
    /\ idem \in [Scopes -> Jobs \cup {None}]

\* Only a job in execution has an owner, and it always has one: no other status
\* can leave a lease behind that a stale worker could still renew or finish.
OwnerIffRunning ==
    \A j \in Jobs : (jobs[j].owner # None) <=> (jobs[j].status \in Running)

\* A cancelled intent is never executed again: once the cancel event is written,
\* no sequence of sweeps, recoveries and retries puts the job back in the queue
\* or under a lease that may publish.
CancelIsFinal ==
    \A j \in cancelled : jobs[j].status \notin {"ABSENT", "QUEUED", "RUNNING"}

\* The idempotency index and the jobs table agree: a key that was accepted names
\* the one job created under it, whatever became of that job since, so repeating
\* a submission can neither start a second job nor be answered with another's.
IdempotencyAgrees ==
    \A s \in Scopes, j \in Jobs :
        idem[s] = j <=> (Exists(j) /\ jobs[j].scope = s)

\* Each entry into execution carries a fencing token above every token the job
\* had before, and no step lowers a token: a worker that kept an old token can
\* tell, and be told, that it was replaced.
FencingMonotone ==
    [][\A j \in Jobs :
         /\ jobs'[j].token >= jobs[j].token
         /\ (jobs[j].status # "RUNNING" /\ jobs'[j].status = "RUNNING")
              => jobs'[j].token > jobs[j].token]_jvars

\* A lease changes hands only through the queue: no step replaces one owner by
\* another, nor the token under an owner.
NoDirectTakeover ==
    [][\A j \in Jobs :
         jobs[j].owner # None /\ jobs'[j].owner # None
           => jobs'[j].owner = jobs[j].owner /\ jobs'[j].token = jobs[j].token]_jvars

\* An expired lease is never revived, whatever the heartbeat sends late.
NoLeaseRevival ==
    [][\A j \in Jobs :
         jobs[j].owner # None /\ jobs[j].lease <= 0 /\ jobs'[j].owner # None
           => jobs'[j].lease <= 0]_jvars

\* A success is final, and a failure or cancellation can only be corrected to
\* success by the recovery of a committed receipt.
TerminalIsFinal ==
    [][\A j \in Jobs :
         jobs[j].status \in Terminal =>
           jobs'[j].status \in {jobs[j].status, "SUCCEEDED"}]_jvars
=============================================================================
