----------------------------- MODULE StepAudit -----------------------------
(* What a job leaves behind about its steps.  Every attempt has a directory  *)
(* of its own, to which an event is written before and after the operation,  *)
(* every tool and every model call in it; it may also record a transcript.   *)
(* The commit freezes the native records and the head of the events.  A      *)
(* reader later holds all of them against each other and refuses the whole   *)
(* archive when one does not fit.                                            *)
EXTENDS Naturals, Sequences, FiniteSets, SequencesExt

CONSTANTS MaxAttempts, MaxCalls, MaxFaults,    \* bounds
          Traced,                              \* a transcript is recorded
          Faults                               \* what can go wrong besides deaths and errors of the steps

ASSUME AuditAssumption == MaxAttempts \in Nat /\ MaxCalls \in Nat /\ MaxFaults \in Nat /\ Traced \in BOOLEAN

Attempts == 1..MaxAttempts
Tools == {"design", "check", "graphs"}

VARIABLES job,      \* [attempt, status]
          commit,   \* [by, records, anchor] of the committed attempt, by = 0 when there is none
          run,      \* the process of each attempt: [phase, stack, raising]
          log,      \* the events of each attempt: [phase, kind, call, status], call = place of BEFORE
          records,  \* the native records of each attempt: [call, status]
          trace,    \* the transcript of each attempt: [open, missing, end]
          begun, faults    \* how many calls were begun, and writes failed

avars == <<job, commit, run, log, records, trace, begun, faults>>

AInit == /\ job = [attempt |-> 0, status |-> "queued"]
        /\ commit = [by |-> 0, records |-> <<>>, anchor |-> 0]
        /\ run = [a \in Attempts |-> [phase |-> "none", stack |-> <<>>, raising |-> "none"]]
        /\ log = [a \in Attempts |-> <<>>]
        /\ records = [a \in Attempts |-> <<>>]
        /\ trace = [a \in Attempts |-> [open |-> {}, missing |-> FALSE, end |-> "none"]]
        /\ begun = 0 /\ faults = 0

Before(kind, call) == [phase |-> "BEFORE", kind |-> kind, call |-> call, status |-> "STARTED"]
After(frame, status) == [phase |-> "AFTER", kind |-> frame.kind, call |-> frame.call, status |-> status]
Top(a) == Last(run[a].stack)
Innermost(a) == Len(run[a].stack)

\* A write that fails: each fault is an error of one write.
Fault(kind) == kind \in Faults /\ faults < MaxFaults /\ faults' = faults + 1

\* The error the caller of a step sees: the graphs turn every error into a refusal, and a
\* refused check is noted in the result of the proposal.
Seen(kind, error) == CASE kind = "graphs" -> "refused"
                       [] kind = "check" /\ error = "refused" -> "none"
                       [] OTHER -> error

\* A worker claims the job, also when it was running and its lease ran out; a committed
\* result is returned as it is.
Claim(a) ==
  /\ a = job.attempt + 1 /\ job.status \in {"queued", "running", "cancelling", "failed"}
  /\ job' = [attempt |-> a, status |-> "running"]
  /\ IF commit.by # 0
     THEN /\ run' = [run EXCEPT ![a].phase = "reporting"]
          /\ UNCHANGED <<log, faults>>
     ELSE \/ /\ run' = [run EXCEPT ![a].phase = "running", ![a].stack = <<[kind |-> "operation", call |-> 1, record |-> 0]>>]
             /\ log' = [log EXCEPT ![a] = <<Before("operation", 1)>>]
             /\ UNCHANGED faults
          \/ /\ Fault("audit")
             /\ run' = [run EXCEPT ![a].phase = "reporting", ![a].raising = "error"]
             /\ UNCHANGED log
  /\ UNCHANGED <<commit, records, trace, begun>>

Cancel == /\ job.status \in {"queued", "running"}
          /\ job' = [job EXCEPT !.status = IF @ = "queued" THEN "cancelled" ELSE "cancelling"]
          /\ UNCHANGED <<commit, run, log, records, trace, faults, begun>>

Within(kind) == CASE kind = "operation" -> {"design", "check"}
                  [] kind = "design" -> {"model"}
                  [] kind = "check" -> {"graphs"}
                  [] OTHER -> {}

\* The record of a tool is made first; a model call has none.
NewRecord(a, kind, call, status) ==
  records' = IF kind \in Tools THEN [records EXCEPT ![a] = Append(@, [call |-> call, status |-> status])] ELSE records

BeginCall(a, kind) ==
  LET call == Len(log[a]) + 1
      failing == [run EXCEPT ![a].raising = Seen(kind, "error")] IN
  /\ run[a].phase = "running" /\ run[a].raising = "none" /\ kind \in Within(Top(a).kind)
  /\ begun < MaxCalls /\ begun' = begun + 1
  /\ \/ /\ log' = [log EXCEPT ![a] = Append(@, Before(kind, call))]
        /\ NewRecord(a, kind, call, "RUNNING")
        /\ trace' = [trace EXCEPT ![a].open = IF Traced THEN @ \cup {call} ELSE @]
        /\ run' = [run EXCEPT ![a].stack = Append(@, [kind |-> kind, call |-> call, record |-> Len(records[a]) + 1])]
        /\ UNCHANGED faults
     \/ /\ Fault("audit")
        /\ NewRecord(a, kind, 0, "FAILED") /\ run' = failing
        /\ UNCHANGED <<log, trace>>
     \/ /\ Traced /\ Fault("journal")
        /\ log' = [log EXCEPT ![a] = @ \o <<Before(kind, call), After([kind |-> kind, call |-> call], "FAILED")>>]
        /\ NewRecord(a, kind, call, "FAILED")
        /\ trace' = [trace EXCEPT ![a].missing = TRUE] /\ run' = failing
  /\ UNCHANGED <<job, commit>>

\* The innermost call ends: what its record, its event and its transcript say.
Closed(a, status, written, transcript, error) ==
  /\ records' = IF Top(a).kind \in Tools THEN [records EXCEPT ![a][Top(a).record].status = status] ELSE records
  /\ log' = [log EXCEPT ![a] = IF written THEN Append(@, After(Top(a), status)) ELSE @]
  /\ trace' = [trace EXCEPT ![a].open = @ \ {Top(a).call}, ![a].missing = @ \/ ~transcript]
  /\ run' = [run EXCEPT ![a].stack = Front(@), ![a].raising = error]
  /\ UNCHANGED <<job, commit, begun>>

InCall(a) == run[a].phase = "running" /\ Innermost(a) > 1

\* A tool whose transcript or event cannot be written has failed; its event is tried again.
Succeed(a) ==
  LET tool == Top(a).kind \in Tools
      seen == Seen(Top(a).kind, "error") IN
  /\ InCall(a) /\ run[a].raising = "none"
  /\ \/ Closed(a, "SUCCEEDED", TRUE, TRUE, "none") /\ UNCHANGED faults
     \/ Fault("audit") /\ Closed(a, "FAILED", tool, TRUE, seen)
     \/ Traced /\ Fault("journal") /\ Closed(a, "FAILED", tool, FALSE, seen)

\* A step fails by itself or because of a step in it.
Raise(a) ==
  LET kind == Top(a).kind IN
  /\ InCall(a)
  /\ \/ /\ \E e \in IF run[a].raising # "none" THEN {run[a].raising} ELSE {"error", "refused"}:
             Closed(a, "FAILED", TRUE, TRUE, Seen(kind, e))
        /\ UNCHANGED faults
     \/ Fault("audit") /\ Closed(a, "FAILED", FALSE, TRUE, Seen(kind, "error"))
     \/ Traced /\ Fault("journal") /\ Closed(a, "RUNNING", FALSE, FALSE, Seen(kind, "error"))

\* The handler fails outside its steps, or its result cannot be published.
Break(a) == /\ run[a].phase = "running" /\ Innermost(a) = 1 /\ run[a].raising = "none"
            /\ run' = [run EXCEPT ![a].raising = "error"]
            /\ UNCHANGED <<job, commit, log, records, trace, faults, begun>>

\* The commit: the result holds the records and the head of the events so far.  The answer
\* may be lost after it.
CommitResult(a) ==
  /\ run[a].phase = "running" /\ Innermost(a) = 1 /\ run[a].raising = "none"
  /\ job = [attempt |-> a, status |-> "running"]
  /\ commit' = [by |-> a, records |-> records[a], anchor |-> Len(log[a])]
  /\ \/ run' = [run EXCEPT ![a].phase = "returned"] /\ UNCHANGED faults
     \/ Fault("lost") /\ run' = [run EXCEPT ![a].phase = "returned", ![a].raising = "error"]
  /\ UNCHANGED <<job, log, records, trace, begun>>

\* Fault: what an exception says is believed.
OutcomeRaised(a) ==
  IF run[a].raising = "none" THEN "COMMITTED"
  ELSE IF job.status \in {"cancelled", "cancelling"} THEN "CANCELLED" ELSE "FAILED_NOT_COMMITTED"

\* What the last event says of the operation.
Outcome(a) ==
  IF run[a].raising = "none" THEN "COMMITTED"
  ELSE IF commit.by # 0 THEN "COMMIT_REQUIRES_RECONCILIATION"
  ELSE IF job.status \in {"cancelled", "cancelling"} THEN "CANCELLED" ELSE "FAILED_NOT_COMMITTED"

\* An event that cannot be written now is reported and nothing else.
Return(a) ==
  /\ run[a].phase \in {"running", "returned"} /\ Innermost(a) = 1
  /\ run[a].phase = "running" => run[a].raising # "none"
  /\ run' = [run EXCEPT ![a].phase = "closing", ![a].stack = <<>>]
  /\ \/ log' = [log EXCEPT ![a] = Append(@, After(Top(a), Outcome(a)))] /\ UNCHANGED faults
     \/ Fault("audit") /\ UNCHANGED log
  /\ UNCHANGED <<job, commit, records, trace, begun>>

\* The transcript ends with the result that was returned, or with nothing.
Finish(a) ==
  /\ run[a].phase = "closing"
  /\ run' = [run EXCEPT ![a].phase = "reporting"]
  /\ \/ /\ trace' = IF ~Traced \/ trace[a].open # {} THEN trace
                    ELSE [trace EXCEPT ![a].end = IF run[a].raising = "none" THEN "result" ELSE "nothing"]
        /\ UNCHANGED faults
     \/ Traced /\ Fault("journal") /\ trace' = [trace EXCEPT ![a].missing = TRUE]
  /\ UNCHANGED <<job, commit, log, records, begun>>

\* The worker tells the job store; a committed job succeeds whatever was raised.
Report(a) ==
  /\ run[a].phase = "reporting"
  /\ run' = [run EXCEPT ![a].phase = "done"]
  /\ job' = IF commit.by # 0 THEN [job EXCEPT !.status = "succeeded"]
            ELSE IF job.attempt = a /\ job.status \in {"running", "cancelling"} THEN [job EXCEPT !.status = "failed"]
            ELSE job
  /\ UNCHANGED <<commit, log, records, trace, faults, begun>>

Kill(a) == /\ run[a].phase \notin {"none", "done", "dead"}
          /\ run' = [run EXCEPT ![a].phase = "dead"]
          /\ UNCHANGED <<job, commit, log, records, trace, faults, begun>>

ANext == \/ Cancel
        \/ \E a \in Attempts: \/ Claim(a) \/ Succeed(a) \/ Raise(a) \/ Break(a) \/ CommitResult(a)
                              \/ Return(a) \/ Finish(a) \/ Report(a) \/ Kill(a)
                              \/ \E kind \in Tools \cup {"model"}: BeginCall(a, kind)

ASpec == AInit /\ [][ANext]_avars
-----------------------------------------------------------------------------
\* download_audit: the attempts whose events may be read, and why a reader refuses them.
Stopped(a) == \/ a < job.attempt
              \/ a = job.attempt /\ job.status \in {"succeeded", "failed", "cancelled"}

Ends(a, i) == {j \in DOMAIN log[a]: log[a][j].phase = "AFTER" /\ log[a][j].call = i}
Starts(a, kinds) == {i \in DOMAIN log[a]: log[a][i].phase = "BEFORE" /\ log[a][i].kind \in kinds}

\* The events against the records that were committed with the result.
RecordsDiffer(a) ==
  \/ commit.anchor \notin DOMAIN log[a]
  \/ Cardinality(Starts(a, Tools)) # Len(commit.records)
  \/ \E i \in Starts(a, Tools): ~\E r \in ToSet(commit.records), j \in Ends(a, i):
       r.call = i /\ r.status = log[a][j].status
  \/ \E i \in Starts(a, {"model"}): Ends(a, i) = {}

\* The transcript is found by the run that the result or the error of the job names.
Named(a) == \/ commit.by = a /\ commit.records # <<>>
            \/ commit.by = 0 /\ a = job.attempt /\ job.status = "failed" /\ records[a] # <<>>

TranscriptDiffers(a) ==
  Named(a) /\ trace[a].end # "none" /\ (trace[a].missing \/ (trace[a].end = "result") # (commit.by = a))

Refused(a) == \/ commit.by = a /\ RecordsDiffer(a)
              \/ commit.by # a /\ \E j \in DOMAIN log[a]: log[a][j].status = "COMMITTED"
              \/ TranscriptDiffers(a)
-----------------------------------------------------------------------------
ATypeOK ==
  /\ job \in [attempt: 0..MaxAttempts, status: {"queued", "running", "cancelling", "cancelled", "failed", "succeeded"}]
  /\ commit.by \in 0..MaxAttempts /\ commit.anchor \in Nat
  /\ \A a \in Attempts:
       /\ run[a].phase \in {"none", "running", "returned", "closing", "reporting", "done", "dead"}
       /\ run[a].raising \in {"none", "error", "refused"}
       /\ \A i \in DOMAIN log[a]: log[a][i].call \in 1..i
       /\ \A i \in DOMAIN records[a]: records[a][i].call \in 0..Len(log[a])
       /\ trace[a].end \in {"none", "result", "nothing"}
  /\ begun \in 0..MaxCalls /\ faults \in 0..MaxFaults

\* Whatever an attempt that is over has written can be read: what was recorded while it ran,
\* what its commit froze and what the job store says fit together, wherever it was stopped.
StoppedIsReadable == \A a \in Attempts: Stopped(a) /\ log[a] # <<>> => ~Refused(a)

\* An attempt that was not killed has ended every call it began, in the order of a stack.
EndedInOrder ==
  \A a \in Attempts:
    /\ run[a].phase \in {"reporting", "done"} =>
         \A i \in Starts(a, Tools \cup {"model", "operation"}): Cardinality(Ends(a, i)) = 1
    /\ \A i, k \in Starts(a, Tools \cup {"model"}): \A j \in Ends(a, i):
         i < k /\ k < j => \E l \in Ends(a, k): l < j

\* What the last event says of the commit is so, and stays so.
OutcomeIsTrue ==
  \A a \in Attempts: \A j \in DOMAIN log[a]:
    /\ log[a][j].status = "COMMITTED" => commit.by = a
    /\ log[a][j].status \in {"FAILED_NOT_COMMITTED", "CANCELLED"} => commit.by # a

\* What an attempt that is over has written can be read and its calls ended in the order of
\* a stack, as long as no write fails; and its last event says what became of the commit,
\* however it ended (services/modeling_audit.py).
AuditTellsTheEnd ==
  /\ ATypeOK /\ OutcomeIsTrue
  /\ faults = 0 => StoppedIsReadable /\ EndedInOrder
=============================================================================
