----------------------------- MODULE LiveRunner -----------------------------
(***************************************************************************)
(* The supervisor of an evaluation with a live model                        *)
(* (ontology_io/live_runner.py), the broker that is the only way from a      *)
(* sandboxed worker to the provider (live_broker.py, os_sandbox.py), the     *)
(* ledger that reserves before every request (live_budget.py), and the       *)
(* inventory that verifies what a revision left (live_inventory.py).         *)
(*                                                                         *)
(* A revision freezes its rows once; its phases run in the order smoke,      *)
(* pilot, full; one supervisor at a time holds the lock of the workspace     *)
(* and may be killed between any two steps; the worker asks for model calls  *)
(* until it is done, and the provider answers, refuses, or is never heard    *)
(* of again.  The process that carries a request outlives its supervisor.    *)
(* All revisions spend from one ledger.                                      *)
(*                                                                         *)
(* Left out: the contents of inputs, prompts and predictions, the canary of  *)
(* the sandbox, and the order of the rows inside a phase (any).              *)
(***************************************************************************)
EXTENDS Integers, Sequences, FiniteSets, FiniteSetsExt

CONSTANTS Revision,    \* the revisions of the workspace
          Supervisor,  \* the processes that may run the command line
          Slot,        \* the planned rows of a revision
          PhaseOf,     \* the phase of a row: 1 smoke, 2 pilot, 3 full
          Cap,         \* the calls a row is planned for, 0: not applicable
          MaxCalls,    \* the calls the user authorised
          MaxTokens,   \* the tokens the user authorised
          Reserve,     \* the tokens one request reserves
          Usage,       \* the tokens one request may really use
          MaxDeaths,   \* bound: supervisors killed
          MaxFaults,   \* bound: receipts that could not be written
          None

VARIABLES dir,       \* how far the directory of a revision got
          row,       \* the rows of jobs.sqlite
          attempts,  \* the rows of budget.sqlite
          response,  \* the response files, and whether each is an answer
          sent,      \* what the provider really got: request and tokens, in order
          orphans,   \* requests whose process outlives its supervisor
          sup,       \* what each supervisor is doing
          deaths, faults

vars == <<dir, row, attempts, response, sent, orphans, sup, deaths, faults>>

Job == Revision \X Slot
Request == Revision \X Slot \X (1..MaxCalls)
Kind == {"ok", "rejected", "transport"}
Dirs == {"none", "made", "frozen", "filled"}
Absent == [state |-> "ABSENT", error |-> FALSE, result |-> None, hashed |-> FALSE]
Row == [state : {"ABSENT", "PENDING", "RUNNING", "GENERATED", "FAILED", "NOT_APPLICABLE"},
        error : BOOLEAN, result : {None, "GENERATED", "FAILED"}, hashed : BOOLEAN]
Attempt == [state : {"RESERVED", "SUCCEEDED", "FAILED", "USAGE_BOUND_VIOLATION"},
            reserved : Usage \union {Reserve}, usage : Usage \union {None}, hashed : BOOLEAN]
Idle == [at |-> "idle", rev |-> None, slot |-> None, phase |-> 0, calls |-> 0,
         kind |-> None, usage |-> None, bad |-> FALSE, status |-> None]

TypeOK ==
  /\ dir \in [Revision -> Dirs]
  /\ row \in [Job -> Row]
  /\ DOMAIN attempts \subseteq Request /\ \A q \in DOMAIN attempts : attempts[q] \in Attempt
  /\ DOMAIN response \subseteq Request /\ \A q \in DOMAIN response : response[q] \in Kind
  /\ sent \in Seq(Request \X Usage) /\ orphans \subseteq DOMAIN attempts
  /\ sup \in [Supervisor ->
       [at : {"idle", "made", "frozen", "loop", "work", "reserved", "answered", "written", "done", "ended"},
        rev : Revision \union {None}, slot : Slot \union {None}, phase : 0..3,
        calls : 0..MaxCalls, kind : Kind \union {None}, usage : Usage \union {None},
        bad : BOOLEAN, status : {None, "GENERATED", "FAILED", "error"}]]
  /\ deaths \in 0..MaxDeaths /\ faults \in 0..MaxFaults

Init ==
  /\ dir = [r \in Revision |-> "none"]
  /\ row = [j \in Job |-> Absent]
  /\ attempts = <<>> /\ response = <<>> /\ sent = <<>> /\ orphans = {}
  /\ sup = [s \in Supervisor |-> Idle]
  /\ deaths = 0 /\ faults = 0

(* supervisor_lock: an exclusive lock that is not waited for, given up with   *)
(* the process.                                                             *)
Free == \A s \in Supervisor : sup[s].at = "idle"

Working(s, at) == sup[s].at = at
JobOf(s) == <<sup[s].rev, sup[s].slot>>
Call(s) == <<sup[s].rev, sup[s].slot, sup[s].calls>>
Go(s, at) == sup' = [sup EXCEPT ![s].at = at]
Ending(s, status) == sup' = [sup EXCEPT ![s].at = "done", ![s].status = status]

----------------------------------------------------------------------------
(* initialize: the directory is made once, the code is staged and the         *)
(* manifest written, and all rows are inserted in one transaction.            *)
MakeRevision(s, r) ==
  /\ Free
  /\ dir[r] = "none"
  /\ dir' = [dir EXCEPT ![r] = "made"]
  /\ sup' = [sup EXCEPT ![s] = [Idle EXCEPT !.at = "made", !.rev = r]]
  /\ UNCHANGED <<row, attempts, response, sent, orphans, deaths, faults>>

Freeze(s) ==
  /\ Working(s, "made")
  /\ dir' = [dir EXCEPT ![sup[s].rev] = "frozen"]
  /\ Go(s, "frozen")
  /\ UNCHANGED <<row, attempts, response, sent, orphans, deaths, faults>>

Insert(s) ==
  /\ Working(s, "frozen")
  /\ row' = [j \in Job |->
       IF j[1] # sup[s].rev THEN row[j]
       ELSE [Absent EXCEPT !.state = IF Cap[j[2]] = 0 THEN "NOT_APPLICABLE" ELSE "PENDING"]]
  /\ dir' = [dir EXCEPT ![sup[s].rev] = "filled"]
  /\ sup' = [sup EXCEPT ![s] = Idle]
  /\ UNCHANGED <<attempts, response, sent, orphans, deaths, faults>>

(* execute: a phase after the first needs the phase before it without a row    *)
(* that waits or runs and without an error.                                   *)
Phase(r, p) == {j \in Job : j[1] = r /\ PhaseOf[j[2]] = p}

Gate(r, p) ==
  p > 1 => \A j \in Phase(r, p - 1) : row[j].state \notin {"PENDING", "RUNNING"} /\ ~row[j].error

(* The rows a killed supervisor left running are ended, not run again.        *)
Interrupted(j) == [row[j] EXCEPT !.state = "FAILED", !.error = TRUE]

Execute(s, r, p) ==
  /\ Free
  /\ dir[r] \in {"frozen", "filled"}
  /\ Gate(r, p)
  /\ row' = [j \in Job |-> IF j \in Phase(r, p) /\ row[j].state = "RUNNING" THEN Interrupted(j) ELSE row[j]]
  /\ sup' = [sup EXCEPT ![s] = [Idle EXCEPT !.at = "loop", !.rev = r, !.phase = p]]
  /\ UNCHANGED <<dir, attempts, response, sent, orphans, deaths, faults>>

(* The loop ends on a STOP file, after max_jobs, or when no row waits.        *)
Leave(s) ==
  /\ Working(s, "loop")
  /\ sup' = [sup EXCEPT ![s] = Idle]
  /\ UNCHANGED <<dir, row, attempts, response, sent, orphans, deaths, faults>>

Claim(s, n) ==
  /\ Working(s, "loop")
  /\ PhaseOf[n] = sup[s].phase
  /\ row[<<sup[s].rev, n>>].state = "PENDING"
  /\ row' = [row EXCEPT ![<<sup[s].rev, n>>].state = "RUNNING"]
  /\ sup' = [sup EXCEPT ![s].at = "work", ![s].slot = n, ![s].calls = 0]
  /\ UNCHANGED <<dir, attempts, response, sent, orphans, deaths, faults>>

----------------------------------------------------------------------------
(* reserve: nothing after a provider exceeded its bound, and nothing that      *)
(* could exceed what was authorised.                                          *)
Latched == \E q \in DOMAIN attempts : attempts[q].state = "USAGE_BOUND_VIOLATION"
Charged == MapThenSumSet(LAMBDA q : attempts[q].reserved, DOMAIN attempts)

(* Fault: an exceeded bound does not stop later requests. *)
AffordableLater ==
  Cardinality(DOMAIN attempts) + 1 <= MaxCalls /\ Charged + Reserve <= MaxTokens

Affordable ==
  /\ ~Latched
  /\ Cardinality(DOMAIN attempts) + 1 <= MaxCalls
  /\ Charged + Reserve <= MaxTokens

(* The worker asks for a model call: dispatch reserves, or the job fails.      *)
Ask(s) ==
  LET next == <<sup[s].rev, sup[s].slot, sup[s].calls + 1>> IN
  /\ Working(s, "work")
  /\ sup[s].calls < Cap[sup[s].slot]
  /\ Affordable
  /\ next \notin DOMAIN attempts
  /\ attempts' = [q \in DOMAIN attempts \union {next} |->
       IF q = next THEN [state |-> "RESERVED", reserved |-> Reserve, usage |-> None, hashed |-> FALSE] ELSE attempts[q]]
  /\ sup' = [sup EXCEPT ![s].at = "reserved", ![s].calls = @ + 1]
  /\ UNCHANGED <<dir, row, response, sent, orphans, deaths, faults>>

(* The worker ends without a result: it asks for more than its cap or for     *)
(* something the broker refuses, the budget is exhausted, it crashes, or its   *)
(* time is over.                                                             *)
Break(s) ==
  /\ Working(s, "work")
  /\ Ending(s, "error")
  /\ UNCHANGED <<dir, row, attempts, response, sent, orphans, deaths, faults>>

(* The request reaches the provider, which spends tokens and answers, and may  *)
(* say how many; it may also say what no provider may: a count that is none, or  *)
(* more tokens of completion than were asked for. Or the transport fails, before *)
(* the tokens were spent or after.                                           *)
Sent(q) == \E u \in Usage : sent' = Append(sent, <<q, u>>)

Heard(s, kind, usage, bad) ==
  /\ sup' = [sup EXCEPT ![s].at = "answered", ![s].kind = kind, ![s].usage = usage, ![s].bad = bad]
  /\ UNCHANGED <<dir, row, attempts, response, orphans, deaths, faults>>

Send(s) ==
  /\ Working(s, "reserved")
  /\ Sent(Call(s))
  /\ \E usage \in {sent'[Len(sent')][2], None}, bad \in BOOLEAN, kind \in {"ok", "rejected"} :
       Heard(s, kind, usage, bad)

Lose(s) ==
  /\ Working(s, "reserved")
  /\ Sent(Call(s)) \/ sent' = sent
  /\ Heard(s, "transport", None, FALSE)

(* The process of a request whose supervisor was killed.                     *)
SendOrphan(q) ==
  /\ q \in orphans
  /\ Sent(q)
  /\ orphans' = orphans \ {q}
  /\ UNCHANGED <<dir, row, attempts, response, sup, deaths, faults>>

Respond(s) ==
  /\ Working(s, "answered")
  /\ response' = [q \in DOMAIN response \union {Call(s)} |-> IF q = Call(s) THEN sup[s].kind ELSE response[q]]
  /\ Go(s, "written")
  /\ UNCHANGED <<dir, row, attempts, sent, orphans, deaths, faults>>

(* finish: the charge is the larger of the reservation and what was used; using  *)
(* more than was reserved, or a count that cannot be, latches the ledger and       *)
(* fails the job.                                                            *)
Over(s) == sup[s].bad \/ (sup[s].usage # None /\ sup[s].usage > Reserve)

Settled(s) ==
  [state |-> IF Over(s) THEN "USAGE_BOUND_VIOLATION" ELSE IF sup[s].kind = "ok" THEN "SUCCEEDED" ELSE "FAILED",
   reserved |-> IF sup[s].usage = None THEN Reserve ELSE Max({Reserve, sup[s].usage}),
   usage |-> sup[s].usage, hashed |-> TRUE]

Finish(s) ==
  /\ Working(s, "written")
  /\ attempts' = [attempts EXCEPT ![Call(s)] = Settled(s)]
  /\ sup' = [sup EXCEPT ![s].at = IF Over(s) THEN "done" ELSE "work",
                        ![s].status = IF Over(s) THEN "error" ELSE None]
  /\ UNCHANGED <<dir, row, response, sent, orphans, deaths, faults>>

(* The worker is done: an answer that is not ok fails the generation.         *)
Done(s, status) ==
  /\ Working(s, "work")
  /\ status = "GENERATED" => sup[s].kind = "ok"
  /\ Ending(s, status)
  /\ UNCHANGED <<dir, row, attempts, response, sent, orphans, deaths, faults>>

(* The row is ended with the result of the worker, or as failed; a failure of   *)
(* the transport or of the validator is an error besides.                     *)
Ended(s) ==
  IF sup[s].status = "error"
  THEN [state |-> "FAILED", error |-> TRUE, result |-> None, hashed |-> FALSE]
  ELSE [state |-> sup[s].status, result |-> sup[s].status, hashed |-> TRUE,
        error |-> \E q \in DOMAIN response : <<q[1], q[2]>> = JobOf(s) /\ response[q] = "transport"]

Record(s) ==
  \E blocked \in IF sup[s].status = "GENERATED" THEN BOOLEAN ELSE {FALSE} :
    /\ Working(s, "done")
    /\ row' = [row EXCEPT ![JobOf(s)] = [Ended(s) EXCEPT !.error = @ \/ blocked]]
    /\ Go(s, "ended")
    /\ UNCHANGED <<dir, attempts, response, sent, orphans, deaths, faults>>

(* The receipt of the execution cannot be written: the row fails, and keeps the  *)
(* result it had read.                                                        *)
Misfile(s) ==
  /\ Working(s, "done") /\ sup[s].status # "error" /\ faults < MaxFaults
  /\ faults' = faults + 1
  /\ row' = [row EXCEPT ![JobOf(s)] =
       [state |-> "FAILED", error |-> TRUE, result |-> sup[s].status, hashed |-> TRUE]]
  /\ Go(s, "ended")
  /\ UNCHANGED <<dir, attempts, response, sent, orphans, deaths>>

(* An error or a latched ledger pauses the run; otherwise the next row is taken. *)
Resume(s) ==
  /\ Working(s, "ended")
  /\ sup' = [sup EXCEPT ![s] = IF row[JobOf(s)].error \/ Latched THEN Idle
                               ELSE [Idle EXCEPT !.at = "loop", !.rev = sup[s].rev, !.phase = sup[s].phase]]
  /\ UNCHANGED <<dir, row, attempts, response, sent, orphans, deaths, faults>>

(* What carries a reserved request may have been started and outlive this.    *)
Die(s) ==
  /\ sup[s].at # "idle" /\ deaths < MaxDeaths
  /\ deaths' = deaths + 1
  /\ sup' = [sup EXCEPT ![s] = Idle]
  /\ \/ orphans' = orphans
     \/ Working(s, "reserved") /\ orphans' = orphans \union {Call(s)}
  /\ UNCHANGED <<dir, row, attempts, response, sent, faults>>

Step(s) ==
  \/ \E r \in Revision : MakeRevision(s, r)
  \/ Freeze(s)
  \/ Insert(s)
  \/ \E r \in Revision, p \in 1..3 : Execute(s, r, p)
  \/ Leave(s)
  \/ \E n \in Slot : Claim(s, n)
  \/ Ask(s)
  \/ Break(s)
  \/ Send(s)
  \/ Lose(s)
  \/ Respond(s)
  \/ Finish(s)
  \/ \E status \in {"GENERATED", "FAILED"} : Done(s, status)
  \/ Record(s)
  \/ Misfile(s)
  \/ Resume(s)
  \/ Die(s)

Next == (\E s \in Supervisor : Step(s)) \/ (\E q \in orphans : SendOrphan(q))

Spec == Init /\ [][Next]_vars

----------------------------------------------------------------------------
(* The user is never charged for more than what was authorised, unless a       *)
(* provider said it used more than one request may; no call is ever given back, *)
(* whatever was killed and restarted in between (reserve, finish).             *)
WithinBudget ==
  /\ Cardinality(DOMAIN attempts) <= MaxCalls
  /\ Charged > MaxTokens => Latched

(* Every request the provider got was reserved first and under its own name     *)
(* only once, also when its supervisor was killed, and a use that was reported   *)
(* is charged in full (dispatch: reserve before the process is started, finish    *)
(* after).                                                                   *)
SentIsCharged ==
  /\ \A i, k \in DOMAIN sent : sent[i][1] = sent[k][1] => i = k
  /\ \A i \in DOMAIN sent : sent[i][1] \in DOMAIN attempts
  /\ \A i \in DOMAIN sent : LET a == attempts[sent[i][1]] IN
       a.usage # None => a.usage = sent[i][2] /\ a.reserved >= a.usage

(* Once a provider exceeded its bound no request is sent, by any supervisor of   *)
(* any revision, but what a killed supervisor had reserved before and left on its *)
(* way (reserve: GLOBAL_BUDGET_LATCHED).                                       *)
OverrunIsLast ==
  Latched => \A i \in DOMAIN sent' \ DOMAIN sent : sent'[i][1] \in orphans

(* A row of a later phase is touched only when every row of the earlier ones     *)
(* ended without an error, also across kills and restarts (execute).            *)
PhasesInOrder ==
  \A r \in Revision, p \in 2..3 :
    (\E j \in Phase(r, p) : row[j].state \in {"RUNNING", "GENERATED", "FAILED"})
      => \A j \in Phase(r, p - 1) : row[j].state \in {"GENERATED", "FAILED", "NOT_APPLICABLE"} /\ ~row[j].error

(* A row that ended stays as it is, and a running one is ended by the process    *)
(* that runs it, or by the next one after that was killed (execute).             *)
EndsItsRow ==
  \A j \in Job :
    row'[j] # row[j] =>
      /\ row[j].state \in {"ABSENT", "PENDING", "RUNNING"}
      /\ row[j].state = "RUNNING" =>
           \A s \in Supervisor : sup[s].at # "idle" /\ JobOf(s) = j => sup[s].at = "done"

(* snapshot: with no supervisor at work and no row left running, the inventory   *)
(* of a revision accepts every row: each result is the one its row froze, and     *)
(* each charged call has the response its row of the ledger froze.               *)
Quiescent(r) == Free /\ dir[r] = "filled" /\ \A j \in Job : j[1] = r => row[j].state # "RUNNING"
ResultAgrees(j) ==
  /\ row[j].result # None => row[j].hashed /\ row[j].state = row[j].result
  /\ row[j].state = "GENERATED" => row[j].result # None
Inventoried(r) ==
  /\ \A j \in Job : j[1] = r => ResultAgrees(j)
  /\ \A q \in DOMAIN attempts : q[1] = r => q \in DOMAIN response /\ attempts[q].hashed
SnapshotAccepts == \A r \in Revision : Quiescent(r) => Inventoried(r)
=============================================================================
