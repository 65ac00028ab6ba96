--------------------------- MODULE JobStoreProofs ---------------------------
(***************************************************************************)
(* Proofs about JobStore for every set of jobs, workers and scopes, every  *)
(* lease length and every number of retries.                               *)
(***************************************************************************)
EXTENDS JobStore, FiniteSetTheorems, TLAPS

\* A job that was not created has no trace of a lease or a token.
AbsentIsBlank == \A j \in Jobs : jobs[j].status = "ABSENT" => jobs[j].token = 0

\* The inductive invariant.  CancelIsFinal is not inductive alone: that a finish
\* or a sweep cannot follow a cancelled job needs OwnerIffRunning, and that a new
\* job is not already cancelled needs the shape of the tables.
JInv == JTypeOK /\ OwnerIffRunning /\ CancelIsFinal /\ IdempotencyAgrees /\ AbsentIsBlank

USE DEF Running, Terminal, Statuses

LEMMA RowReleased ==
    ASSUME NEW row \in Row, NEW s \in Statuses
    PROVE  /\ Released(row, s) \in Row
           /\ Released(row, s).status = s
           /\ Released(row, s).owner = None
           /\ Released(row, s).scope = row.scope
           /\ Released(row, s).attempt = row.attempt
           /\ Released(row, s).token = row.token
<1>1. 0 \in -1..LeaseTicks
  BY JobStoreAssumption
<1> DEFINE r1 == [row EXCEPT !.owner = None, !.lease = 0]
<1>2. r1 \in Row
  BY <1>1 DEF Row
<1>3. r1.owner = None /\ r1.scope = row.scope /\ r1.attempt = row.attempt /\ r1.token = row.token
  BY  DEF Row
<1>4. Released(row, s) = [r1 EXCEPT !.status = s]
  BY DEF Released, NoOwner
<1> HIDE DEF r1
<1> QED
  BY <1>2, <1>3, <1>4 DEF Row

LEMMA RowClaimed ==
    ASSUME jobs \in [Jobs -> Row], NEW j \in Jobs, NEW w \in Workers
    PROVE  /\ Claimed(j, w) \in Row
           /\ Claimed(j, w).status = "RUNNING"
           /\ Claimed(j, w).owner = w
           /\ Claimed(j, w).scope = jobs[j].scope
           /\ Claimed(j, w).token = jobs[j].token + 1
           /\ Claimed(j, w).attempt = jobs[j].attempt + 1
<1> DEFINE row == jobs[j]
           a == row.attempt + 1
           t == row.token + 1
<1>1. row \in Row
  OBVIOUS
<1>2. LeaseTicks \in -1..LeaseTicks
  BY JobStoreAssumption
<1>3. a \in Nat /\ t \in Nat
  BY <1>1 DEF Row
<1>4. Claimed(j, w) = [row EXCEPT !.status = "RUNNING", !.attempt = a, !.token = t,
                                  !.owner = w, !.lease = LeaseTicks]
  BY DEF Claimed
<1>5. /\ t = jobs[j].token + 1 /\ a = jobs[j].attempt + 1
      /\ row = jobs[j] /\ "RUNNING" \in Statuses
  OBVIOUS
<1> HIDE DEF row, a, t
<1>6. Claimed(j, w) \in Row
  BY <1>1, <1>2, <1>3, <1>4, <1>5, Zenon DEF Row
<1>7. /\ Claimed(j, w).status = "RUNNING" /\ Claimed(j, w).owner = w
      /\ Claimed(j, w).scope = row.scope /\ Claimed(j, w).token = t
      /\ Claimed(j, w).attempt = a
  BY <1>1, <1>4 DEF Row
<1> QED
  BY <1>5, <1>6, <1>7

LEMMA RowAged ==
    ASSUME NEW row \in Row
    PROVE  /\ Aged(row) \in Row
           /\ Aged(row).status = row.status
           /\ Aged(row).owner = row.owner
           /\ Aged(row).scope = row.scope
           /\ Aged(row).token = row.token
           /\ Aged(row).attempt = row.attempt
BY JobStoreAssumption DEF Aged, Row

\* A row the sweep leaves behind: the same job, and never under a dead lease.
LEMMA RowSwept ==
    ASSUME jobs \in [Jobs -> Row], OwnerIffRunning, NEW j \in Jobs
    PROVE  /\ Swept \in [Jobs -> Row]
           /\ Swept[j].scope = jobs[j].scope
           /\ Swept[j].token = jobs[j].token
           /\ Swept[j].status \in {jobs[j].status, "RECOVERY_REQUIRED"}
           /\ jobs[j].status \notin Running => Swept[j] = jobs[j]
           /\ Swept[j].owner # None <=> Swept[j].status \in Running
           /\ Swept[j].owner # None => Swept[j] = jobs[j]
<1>1. ASSUME NEW k \in Jobs
      PROVE  /\ Released(jobs[k], "RECOVERY_REQUIRED") \in Row
             /\ Released(jobs[k], "RECOVERY_REQUIRED").status = "RECOVERY_REQUIRED"
             /\ Released(jobs[k], "RECOVERY_REQUIRED").owner = None
             /\ Released(jobs[k], "RECOVERY_REQUIRED").scope = jobs[k].scope
             /\ Released(jobs[k], "RECOVERY_REQUIRED").token = jobs[k].token
  BY RowReleased
<1>2. Swept \in [Jobs -> Row]
  BY <1>1 DEF Swept
<1>3. Swept[j] = IF Expired(j) THEN Released(jobs[j], "RECOVERY_REQUIRED") ELSE jobs[j]
  BY DEF Swept
<1> QED
  BY <1>1, <1>2, <1>3 DEF Expired, OwnerIffRunning

\* Whatever moves rows without creating a job, keeps the owner beside the status
\* and lets no cancelled job back, preserves the invariant.
LEMMA RowsMove ==
    ASSUME JInv,
           jobs' \in [Jobs -> Row],
           idem' = idem,
           cancelled' \subseteq Jobs,
           \A j \in Jobs :
             /\ jobs'[j].scope = jobs[j].scope
             /\ jobs'[j].status = "ABSENT" <=> jobs[j].status = "ABSENT"
             /\ jobs'[j].status = "ABSENT" => jobs'[j].token = jobs[j].token
             /\ jobs'[j].owner # None <=> jobs'[j].status \in Running
             /\ j \in cancelled' => jobs'[j].status \notin {"ABSENT", "QUEUED", "RUNNING"}
    PROVE  JInv'
<1>1. JTypeOK'
  BY DEF JInv, JTypeOK
<1>2. OwnerIffRunning'
  BY DEF OwnerIffRunning
<1>3. CancelIsFinal'
  BY <1>1 DEF CancelIsFinal, JTypeOK
<1>4. IdempotencyAgrees'
  BY DEF JInv, IdempotencyAgrees, Exists
<1>5. AbsentIsBlank'
  BY DEF JInv, AbsentIsBlank
<1> QED
  BY <1>1, <1>2, <1>3, <1>4, <1>5 DEF JInv

-----------------------------------------------------------------------------
(* One lemma per transaction.                                              *)

LEMMA CreateNewInv ==
    ASSUME JInv, NEW j \in Jobs, NEW s \in Scopes \cup {None}, CreateNew(j, s)
    PROVE  JInv'
<1>1. PICK at \in 1..Cardinality({k \in Jobs : Exists(k)}) + 1 :
        jobs' = [jobs EXCEPT ![j] = [NoRow EXCEPT !.status = "QUEUED",
                                                  !.created = at, !.scope = s]]
  BY DEF CreateNew
<1>2. Cardinality({k \in Jobs : Exists(k)}) \in Nat
  BY FS_Subset, FS_CardinalityType, JobStoreAssumption
<1>3. at \in Nat /\ 0 \in -1..LeaseTicks
  BY <1>1, <1>2, JobStoreAssumption
<1> DEFINE r == [NoRow EXCEPT !.status = "QUEUED", !.created = at, !.scope = s]
<1>4. NoRow \in Row /\ NoRow.owner = None
  BY <1>3 DEF NoRow, Row
<1>5. r \in Row
  BY <1>3, <1>4, Zenon DEF Row
<1>5a. r.status = "QUEUED" /\ r.owner = None /\ r.scope = s
  BY <1>4 DEF Row
<1> HIDE DEF r
<1>6. jobs \in [Jobs -> Row] /\ jobs' = [jobs EXCEPT ![j] = r]
  BY <1>1 DEF JInv, JTypeOK, r
<1>7. jobs'[j] = r /\ \A k \in Jobs \ {j} : jobs'[k] = jobs[k]
  BY <1>6
<1>8. /\ cancelled' = cancelled /\ ~Exists(j)
      /\ idem' = IF s = None THEN idem ELSE [idem EXCEPT ![s] = j]
      /\ s # None => idem[s] = None
  BY DEF CreateNew
<1>9. JTypeOK'
  BY <1>5, <1>5a, <1>6, <1>8 DEF JInv, JTypeOK
<1>10. OwnerIffRunning'
  BY <1>5, <1>5a, <1>7 DEF JInv, OwnerIffRunning
<1>11. CancelIsFinal'
  BY <1>5a, <1>7, <1>8 DEF JInv, CancelIsFinal, Exists, JTypeOK
<1>12. IdempotencyAgrees'
  BY <1>5, <1>5a, <1>7, <1>8, JobStoreAssumption DEF JInv, IdempotencyAgrees, Exists, JTypeOK
<1>13. AbsentIsBlank'
  BY <1>5a, <1>7 DEF JInv, AbsentIsBlank
<1> QED
  BY <1>9, <1>10, <1>11, <1>12, <1>13 DEF JInv

LEMMA ClaimInv ==
    ASSUME JInv, NEW w \in Workers, NEW j \in Jobs, Claim(w, j)
    PROVE  JInv'
<1>1. /\ jobs \in [Jobs -> Row] /\ jobs[j].status = "QUEUED" /\ j \notin cancelled
      /\ jobs' = [Swept EXCEPT ![j] = Claimed(j, w)]
      /\ UNCHANGED <<cancelled, idem>>
  BY DEF JInv, JTypeOK, Claim, Queued, CancelIsFinal
<1>2. \A k \in Jobs \ {j} : jobs'[k] = Swept[k]
  BY <1>1 DEF Swept
<1>3. jobs'[j] = Claimed(j, w)
  BY <1>1 DEF Swept
<1>4. jobs' \in [Jobs -> Row]
  BY <1>1, RowSwept, RowClaimed DEF JInv
<1> QED
  BY <1>1, <1>2, <1>3, <1>4, RowSwept, RowClaimed, RowsMove, JobStoreAssumption
     DEF JInv, JTypeOK, CancelIsFinal

LEMMA SweepInv ==
    ASSUME JInv, Sweep
    PROVE  JInv'
<1>1. jobs \in [Jobs -> Row] /\ jobs' = Swept /\ UNCHANGED <<cancelled, idem>>
  BY DEF JInv, JTypeOK, Sweep
<1>2. Swept \in [Jobs -> Row]
  BY <1>1, RowReleased DEF Swept
<1> QED
  BY <1>1, <1>2, RowSwept, RowsMove DEF JInv, JTypeOK, CancelIsFinal

LEMMA RenewInv ==
    ASSUME JInv, NEW j \in Jobs, NEW w, NEW t, Renew(j, w, t)
    PROVE  JInv'
<1>1. /\ jobs \in [Jobs -> Row]
      /\ jobs' = [jobs EXCEPT ![j].lease = LeaseTicks]
      /\ UNCHANGED <<cancelled, idem>>
  BY DEF JInv, JTypeOK, Renew
<1>2. LeaseTicks \in -1..LeaseTicks
  BY JobStoreAssumption
<1> DEFINE r == [jobs[j] EXCEPT !.lease = LeaseTicks]
<1>3. /\ r \in Row /\ r.status = jobs[j].status /\ r.owner = jobs[j].owner
      /\ r.scope = jobs[j].scope
  BY <1>1, <1>2 DEF Row
<1>4. jobs' = [jobs EXCEPT ![j] = r]
  BY <1>1
<1> HIDE DEF r
<1> QED
  BY <1>1, <1>3, <1>4, RowsMove DEF JInv, JTypeOK, CancelIsFinal, OwnerIffRunning

LEMMA FinishInv ==
    ASSUME JInv, NEW j \in Jobs, NEW w, NEW t, NEW s \in {"SUCCEEDED", "FAILED"},
           Finish(j, w, t, s)
    PROVE  JInv'
<1>1. /\ jobs \in [Jobs -> Row] /\ jobs[j].status \in Running
      /\ jobs' = [jobs EXCEPT ![j] = Released(jobs[j], s)]
      /\ UNCHANGED <<cancelled, idem>>
  BY DEF JInv, JTypeOK, Finish, CanFinish
<1> QED
  BY <1>1, RowReleased, RowsMove DEF JInv, JTypeOK, CancelIsFinal, OwnerIffRunning

LEMMA RecoverCommittedInv ==
    ASSUME JInv, NEW j \in Jobs, RecoverCommitted(j)
    PROVE  JInv'
<1>1. /\ jobs \in [Jobs -> Row] /\ jobs[j].status # "ABSENT"
      /\ jobs' = [jobs EXCEPT ![j] = IF jobs[j].status = "SUCCEEDED" THEN jobs[j]
                                     ELSE Released(jobs[j], "SUCCEEDED")]
      /\ UNCHANGED <<cancelled, idem>>
  BY DEF JInv, JTypeOK, RecoverCommitted, Exists
<1> QED
  BY <1>1, RowReleased, RowsMove DEF JInv, JTypeOK, CancelIsFinal, OwnerIffRunning

LEMMA RequeueLocalInv ==
    ASSUME JInv, NEW j \in Jobs, NEW a, RequeueLocal(j, a)
    PROVE  JInv'
<1>1. /\ jobs \in [Jobs -> Row]
      /\ jobs[j].status \in {"RUNNING", "RECOVERY_REQUIRED"} /\ j \notin cancelled
      /\ jobs' = [jobs EXCEPT ![j] = Requeued(jobs[j])]
      /\ UNCHANGED <<cancelled, idem>>
  BY DEF JInv, JTypeOK, RequeueLocal, CanRequeue
<1> DEFINE q == Released(jobs[j], "QUEUED")
           t == jobs[j].token + 1
           r == [q EXCEPT !.token = t]
<1>2. /\ q \in Row /\ q.status = "QUEUED" /\ q.owner = None /\ q.scope = jobs[j].scope
      /\ jobs' = [jobs EXCEPT ![j] = r]
  BY <1>1, RowReleased DEF Requeued
<1>3. t \in Nat
  BY <1>1 DEF Row
<1> HIDE DEF q, t
<1>4. r \in Row
  BY <1>2, <1>3, Zenon DEF Row
<1>5. r.status = "QUEUED" /\ r.owner = None /\ r.scope = jobs[j].scope
  BY <1>2 DEF Row
<1> HIDE DEF r
<1> QED
  BY <1>1, <1>2, <1>4, <1>5, RowsMove DEF JInv, JTypeOK, CancelIsFinal, OwnerIffRunning

LEMMA CancelInv ==
    ASSUME JInv, NEW j \in Jobs, Cancel(j)
    PROVE  JInv'
<1> DEFINE s == IF jobs[j].status = "QUEUED" THEN "CANCELLED" ELSE "CANCEL_REQUESTED"
           r == [jobs[j] EXCEPT !.status = s]
<1>1. /\ jobs \in [Jobs -> Row] /\ jobs[j].status \in {"QUEUED", "RUNNING"}
      /\ jobs' = [jobs EXCEPT ![j] = r]
      /\ cancelled' = cancelled \cup {j} /\ idem' = idem
  BY DEF JInv, JTypeOK, Cancel
<1>2. /\ s \in Statuses
      /\ s \in {"CANCELLED", "CANCEL_REQUESTED"}
      /\ (s \in Running <=> jobs[j].status \in Running)
  BY <1>1
<1> HIDE DEF s
<1>3. r \in Row
  BY <1>1, <1>2, Zenon DEF Row
<1>4. r.status = s /\ r.owner = jobs[j].owner /\ r.scope = jobs[j].scope
  BY <1>1 DEF Row
<1> HIDE DEF r
<1> QED
  BY <1>1, <1>2, <1>3, <1>4, RowsMove DEF JInv, JTypeOK, CancelIsFinal, OwnerIffRunning

LEMMA TickInv ==
    ASSUME JInv, Tick
    PROVE  JInv'
<1>1. /\ jobs \in [Jobs -> Row] /\ jobs' = [j \in Jobs |-> Aged(jobs[j])]
      /\ UNCHANGED <<cancelled, idem>>
  BY DEF JInv, JTypeOK, Tick
<1>2. jobs' \in [Jobs -> Row]
  BY <1>1, RowAged
<1> QED
  BY <1>1, <1>2, RowAged, RowsMove DEF JInv, JTypeOK, CancelIsFinal, OwnerIffRunning

-----------------------------------------------------------------------------
(* The invariant.                                                          *)

LEMMA JInitInv == JInit => JInv
<1> SUFFICES ASSUME JInit PROVE JInv
  OBVIOUS
<1>1. NoRow \in Row /\ NoRow.status = "ABSENT" /\ NoRow.owner = None /\ NoRow.token = 0
  BY JobStoreAssumption DEF NoRow, Row
<1>2. \A j \in Jobs : jobs[j] = NoRow
  BY DEF JInit
<1> QED
  BY <1>1, <1>2, JobStoreAssumption DEF JInit, JInv, JTypeOK, OwnerIffRunning, CancelIsFinal,
     IdempotencyAgrees, AbsentIsBlank, Exists

LEMMA JNextInv == JInv /\ [JNext]_jvars => JInv'
<1> SUFFICES ASSUME JInv, [JNext]_jvars PROVE JInv'
  OBVIOUS
<1>1. CASE \E j \in Jobs, s \in Scopes \cup {None} : CreateNew(j, s)
  BY <1>1, CreateNewInv
<1>2. CASE \E w \in Workers, j \in Jobs : Claim(w, j)
  BY <1>2, ClaimInv
<1>3. CASE Sweep
  BY <1>3, SweepInv
<1>4. CASE \E j \in Jobs, w \in Workers, t \in Tokens : Renew(j, w, t)
  BY <1>4, RenewInv
<1>5. CASE \E j \in Jobs, w \in Workers, t \in Tokens, s \in {"SUCCEEDED", "FAILED"} :
             Finish(j, w, t, s)
  BY <1>5, FinishInv
<1>6. CASE \E j \in Jobs : RecoverCommitted(j)
  BY <1>6, RecoverCommittedInv
<1>7. CASE \E j \in Jobs, a \in 0..(MaxRetries + 1) : RequeueLocal(j, a)
  BY <1>7, RequeueLocalInv
<1>8. CASE \E j \in Jobs : Cancel(j)
  BY <1>8, CancelInv
<1>9. CASE Tick
  BY <1>9, TickInv
<1>10. CASE UNCHANGED jvars
  BY <1>10 DEF jvars, JInv, JTypeOK, OwnerIffRunning, CancelIsFinal, IdempotencyAgrees,
     AbsentIsBlank, Exists
<1> QED
  BY <1>1, <1>2, <1>3, <1>4, <1>5, <1>6, <1>7, <1>8, <1>9, <1>10 DEF JNext

\* JobStore keeps its tables well formed, gives an owner exactly to the jobs in
\* execution, never lets a cancelled job run again, and keeps the idempotency
\* index in agreement with the jobs table.
THEOREM JobStoreInvariant == JSpec => []JInv
<1>1. JInit => JInv
  BY JInitInv
<1>2. JInv /\ [JNext]_jvars => JInv'
  BY JNextInv
<1> QED
  BY <1>1, <1>2, PTL DEF JSpec

\* The shape of the tables (jobs/store.py, __init__).
THEOREM JobStoreTypeOK == JSpec => []JTypeOK
BY JobStoreInvariant, PTL DEF JInv

\* Only a job in execution has an owner, and it always has one: no status leaves
\* a lease behind that a stale worker could renew or finish (jobs/store.py).
THEOREM OwnersAreRunning == JSpec => []OwnerIffRunning
BY JobStoreInvariant, PTL DEF JInv

\* A cancelled intent is never executed again, for any number of jobs, workers,
\* retries and stale calls (jobs/store.py, cancel and requeue_local).
THEOREM CancelledStaysCancelled == JSpec => []CancelIsFinal
BY JobStoreInvariant, PTL DEF JInv

\* A key names the one job created under it (jobs/store.py, create).
THEOREM OneJobPerKey == JSpec => []IdempotencyAgrees
BY JobStoreInvariant, PTL DEF JInv

-----------------------------------------------------------------------------
(* Action properties.                                                      *)

\* How far tokens run ahead of attempts: a claim raises both, a retry the token
\* only, and no job is retried after attempt MaxRetries.
Counted(r) ==
    /\ r.token <= 2 * r.attempt
    /\ r.attempt <= MaxRetries + 1
    /\ r.status = "QUEUED" => r.attempt <= MaxRetries
    /\ r.status \in Running \cup {"RECOVERY_REQUIRED"} => r.token < 2 * r.attempt

\* How a row may change in one step.
Moves(r, n) ==
    /\ Counted(r) => Counted(n)
    /\ r.status # "ABSENT" => n.status # "ABSENT" /\ n.attempt >= r.attempt
    /\ n.token >= r.token
    /\ (r.status # "RUNNING" /\ n.status = "RUNNING") => n.token > r.token
    /\ (r.owner # None /\ n.owner # None) => (n.owner = r.owner /\ n.token = r.token)
    /\ (r.owner # None /\ r.lease <= 0 /\ n.owner # None) => n.lease <= 0
    /\ r.status \in Terminal => n.status \in {r.status, "SUCCEEDED"}

LEMMA MovesSame == ASSUME NEW r \in Row PROVE Moves(r, r)
BY DEF Moves, Row

LEMMA MovesReleased ==
    ASSUME NEW r \in Row, NEW s \in Terminal \cup {"RECOVERY_REQUIRED"},
           r.status \in Terminal => s \in {r.status, "SUCCEEDED"},
           s = "RECOVERY_REQUIRED" => r.status \in Running
    PROVE  Moves(r, Released(r, s))
BY RowReleased DEF Moves, Row, Counted

LEMMA StepMoves ==
    ASSUME JInv, [JNext]_jvars, NEW k \in Jobs
    PROVE  Moves(jobs[k], jobs'[k])
<1>1. jobs \in [Jobs -> Row] /\ jobs[k] \in Row /\ Moves(jobs[k], jobs[k])
  BY MovesSame DEF JInv, JTypeOK
<1>2. ASSUME NEW j \in Jobs, NEW s \in Scopes \cup {None}, CreateNew(j, s)
      PROVE  Moves(jobs[k], jobs'[k])
  <2>1. PICK at : jobs' = [jobs EXCEPT ![j] = [NoRow EXCEPT !.status = "QUEUED",
                                                  !.created = at, !.scope = s]]
    BY <1>2 DEF CreateNew
  <2> DEFINE r == [NoRow EXCEPT !.status = "QUEUED", !.created = at, !.scope = s]
  <2>2. r.status = "QUEUED" /\ r.owner = None /\ r.token = 0 /\ r.attempt = 0
    BY DEF NoRow
  <2>3. jobs[j].status = "ABSENT" /\ jobs[j].token = 0
    BY <1>2 DEF CreateNew, Exists, JInv, AbsentIsBlank
  <2>4. Moves(jobs[j], r)
    BY <2>2, <2>3, JobStoreAssumption DEF Moves, Counted
  <2> HIDE DEF r
  <2> QED
    BY <1>1, <2>1, <2>4 DEF r
<1>3. ASSUME NEW w \in Workers, NEW j \in Jobs, Claim(w, j)
      PROVE  Moves(jobs[k], jobs'[k])
  <2>1. jobs' = [Swept EXCEPT ![j] = Claimed(j, w)] /\ jobs[j].status = "QUEUED"
    BY <1>3 DEF Claim, Queued
  <2>2. Swept[k] = IF Expired(k) THEN Released(jobs[k], "RECOVERY_REQUIRED") ELSE jobs[k]
    BY DEF Swept
  <2>3. jobs'[k] = IF k = j THEN Claimed(j, w) ELSE Swept[k]
    BY <2>1 DEF Swept
  <2>4. Moves(jobs[k], Swept[k])
    BY <1>1, <2>2, MovesReleased DEF Expired
  <2>5. CASE k = j
    BY <1>1, <2>1, <2>3, <2>5, RowClaimed, JobStoreAssumption
    DEF Moves, Counted, Row, JInv, OwnerIffRunning
  <2> QED
    BY <2>3, <2>4, <2>5
<1>4. ASSUME Sweep
      PROVE  Moves(jobs[k], jobs'[k])
  <2>1. jobs'[k] = IF Expired(k) THEN Released(jobs[k], "RECOVERY_REQUIRED") ELSE jobs[k]
    BY <1>4 DEF Sweep, Swept
  <2> QED
    BY <1>1, <2>1, MovesReleased DEF Expired
<1>5. ASSUME NEW j \in Jobs, NEW w, NEW t, Renew(j, w, t)
      PROVE  Moves(jobs[k], jobs'[k])
  <2>1. /\ jobs' = [jobs EXCEPT ![j].lease = LeaseTicks]
        /\ jobs[j].status = "RUNNING" /\ jobs[j].lease > 0
    BY <1>5 DEF Renew, LeaseOK, Holds, Live
  <2> DEFINE r == [jobs[j] EXCEPT !.lease = LeaseTicks]
  <2>2. /\ r.status = jobs[j].status /\ r.owner = jobs[j].owner
        /\ r.token = jobs[j].token /\ r.attempt = jobs[j].attempt
    BY <1>1 DEF Row
  <2>3. jobs[j] \in Row
    BY <1>1
  <2>4. Moves(jobs[j], r)
    BY <2>1, <2>2, <2>3 DEF Moves, Counted, Row
  <2>5. jobs' = [jobs EXCEPT ![j] = r]
    BY <1>1, <2>1
  <2> HIDE DEF r
  <2> QED
    BY <1>1, <2>4, <2>5
<1>6. ASSUME NEW j \in Jobs, NEW w, NEW t, NEW s \in {"SUCCEEDED", "FAILED"}, Finish(j, w, t, s)
      PROVE  Moves(jobs[k], jobs'[k])
  <2>1. jobs' = [jobs EXCEPT ![j] = Released(jobs[j], s)] /\ jobs[j].status \in Running
    BY <1>1, <1>6 DEF Finish, CanFinish
  <2> QED
    BY <1>1, <2>1, MovesReleased
<1>7. ASSUME NEW j \in Jobs, RecoverCommitted(j)
      PROVE  Moves(jobs[k], jobs'[k])
  <2>1. jobs' = [jobs EXCEPT ![j] = IF jobs[j].status = "SUCCEEDED" THEN jobs[j]
                                    ELSE Released(jobs[j], "SUCCEEDED")]
    BY <1>1, <1>7 DEF RecoverCommitted
  <2> QED
    BY <1>1, <2>1, MovesReleased
<1>8. ASSUME NEW j \in Jobs, NEW a, RequeueLocal(j, a)
      PROVE  Moves(jobs[k], jobs'[k])
  <2>1. /\ jobs' = [jobs EXCEPT ![j] = Requeued(jobs[j])]
        /\ jobs[j].status \in {"RUNNING", "RECOVERY_REQUIRED"}
        /\ jobs[j].attempt <= MaxRetries
    BY <1>1, <1>8 DEF RequeueLocal, CanRequeue
  <2> DEFINE q == Released(jobs[j], "QUEUED")
             t == jobs[j].token + 1
             r == [q EXCEPT !.token = t]
  <2>2. /\ q \in Row /\ q.status = "QUEUED" /\ q.owner = None
        /\ q.attempt = jobs[j].attempt /\ r = Requeued(jobs[j])
    BY <1>1, RowReleased DEF Requeued
  <2>3. /\ t \in Nat /\ t = jobs[j].token + 1
        /\ jobs[j].token \in Nat /\ jobs[j].attempt \in Nat
    BY <1>1 DEF Row
  <2> HIDE DEF q, t
  <2>4. r.status = "QUEUED" /\ r.owner = None /\ r.token = t /\ r.attempt = jobs[j].attempt
    BY <2>2 DEF Row
  <2>5. Moves(jobs[j], r)
    BY <2>1, <2>3, <2>4, JobStoreAssumption DEF Moves, Counted
  <2> HIDE DEF r
  <2> QED
    BY <1>1, <2>1, <2>2, <2>5
<1>9. ASSUME NEW j \in Jobs, Cancel(j)
      PROVE  Moves(jobs[k], jobs'[k])
  <2> DEFINE s == IF jobs[j].status = "QUEUED" THEN "CANCELLED" ELSE "CANCEL_REQUESTED"
             r == [jobs[j] EXCEPT !.status = s]
  <2>1. jobs' = [jobs EXCEPT ![j] = r] /\ jobs[j].status \in {"QUEUED", "RUNNING"}
    BY <1>1, <1>9 DEF Cancel
  <2>2. s \in {"CANCELLED", "CANCEL_REQUESTED"} /\ (s = "CANCEL_REQUESTED" => jobs[j].status = "RUNNING")
    BY <2>1
  <2> HIDE DEF s
  <2>3. /\ r.status = s /\ r.owner = jobs[j].owner /\ r.token = jobs[j].token
        /\ r.lease = jobs[j].lease /\ r.attempt = jobs[j].attempt /\ jobs[j] \in Row
    BY <1>1 DEF Row
  <2>4. Moves(jobs[j], r)
    BY <2>1, <2>2, <2>3 DEF Moves, Counted, Row
  <2> HIDE DEF r
  <2> QED
    BY <1>1, <2>1, <2>4
<1>10. ASSUME Tick
       PROVE  Moves(jobs[k], jobs'[k])
  <2>1. jobs'[k] = Aged(jobs[k])
    BY <1>10 DEF Tick
  <2>2. Aged(jobs[k]).lease <= jobs[k].lease
    BY <1>1 DEF Aged, Row
  <2>3. Aged(jobs[k]).lease \in Int /\ jobs[k].lease \in Int
    BY <1>1, RowAged DEF Row
  <2> QED
    BY <1>1, <2>1, <2>2, <2>3, RowAged DEF Moves, Counted, Row
<1>11. CASE UNCHANGED jvars
  BY <1>1, <1>11 DEF jvars
<1> QED
  BY <1>2, <1>3, <1>4, <1>5, <1>6, <1>7, <1>8, <1>9, <1>10, <1>11 DEF JNext

\* Fencing tokens never go down and every entry into execution raises them
\* (jobs/store.py, claim and requeue_local).
THEOREM TokensFence == JSpec => FencingMonotone
<1>1. JInv /\ [JNext]_jvars =>
        [\A j \in Jobs :
           /\ jobs'[j].token >= jobs[j].token
           /\ (jobs[j].status # "RUNNING" /\ jobs'[j].status = "RUNNING")
                => jobs'[j].token > jobs[j].token]_jvars
  BY StepMoves DEF Moves
<1> QED
  BY <1>1, JobStoreInvariant, PTL DEF JSpec, FencingMonotone

\* No owner is replaced under its token without passing through the queue
\* (jobs/store.py, claim).
THEOREM TakeoverThroughQueue == JSpec => NoDirectTakeover
<1>1. JInv /\ [JNext]_jvars =>
        [\A j \in Jobs :
           jobs[j].owner # None /\ jobs'[j].owner # None
             => jobs'[j].owner = jobs[j].owner /\ jobs'[j].token = jobs[j].token]_jvars
  BY StepMoves DEF Moves
<1> QED
  BY <1>1, JobStoreInvariant, PTL DEF JSpec, NoDirectTakeover

\* A lease that ran out stays out, however late a heartbeat arrives
\* (jobs/store.py, renew).
THEOREM ExpiredStaysExpired == JSpec => NoLeaseRevival
<1>1. JInv /\ [JNext]_jvars =>
        [\A j \in Jobs :
           jobs[j].owner # None /\ jobs[j].lease <= 0 /\ jobs'[j].owner # None
             => jobs'[j].lease <= 0]_jvars
  BY StepMoves DEF Moves
<1> QED
  BY <1>1, JobStoreInvariant, PTL DEF JSpec, NoLeaseRevival

\* Success is final; failure and cancellation are only ever corrected to success
\* (jobs/store.py, _finish, cancel and recover_committed).
THEOREM EndedStaysEnded == JSpec => TerminalIsFinal
<1>1. JInv /\ [JNext]_jvars =>
        [\A j \in Jobs :
           jobs[j].status \in Terminal =>
             jobs'[j].status \in {jobs[j].status, "SUCCEEDED"}]_jvars
  BY StepMoves DEF Moves
<1> QED
  BY <1>1, JobStoreInvariant, PTL DEF JSpec, TerminalIsFinal
=============================================================================
